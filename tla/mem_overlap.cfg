SPECIFICATION MemSpec
CONSTANTS
    Block <- BlocksE
    Shared <- OneName
    base <- BaseOfE
    size <- SizeOfE
    Byte <- Bits
    content <- ContentOfE
    Chan <- Chans
    Cmds <- Few
    Pokes <- Places
    Batch = 2
    MaxRep = 2
    MaxOps = 1
CHECK_DEADLOCK FALSE
INVARIANT NoOverlap
