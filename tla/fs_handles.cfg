SPECIFICATION FsSpec
CONSTANTS
    c0 = c0
    c1 = c1
    Chan <- Chans
    Path <- Paths
    Kind <- KindOf
    Present <- There
    Opens <- SomeOpens
    Lens <- Lengths
    Offsets <- Zero
    FD_FIRST = 2
    FD_MOD = 3
    Vec = 2
    MaxOps = 5
SYMMETRY Both
CHECK_DEADLOCK FALSE
INVARIANTS FsTypeOK HeldHandle OneHolder 
 
