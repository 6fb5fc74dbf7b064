SPECIFICATION MemSpec
CONSTANTS
    Block <- Blocks
    Shared <- OneName
    base <- BaseOf
    size <- SizeOf
    Byte <- Bits
    content <- ContentOf
    Chan <- Chans
    Cmds <- Commands
    Pokes <- Places
    Batch = 2
    MaxRep = 2
    MaxOps = 3
CHECK_DEADLOCK FALSE
INVARIANTS MemTypeOK Coherent HandlersExact 
