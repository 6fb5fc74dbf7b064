SPECIFICATION FairSpec
CONSTANTS
    Hart <- TwoHarts
    Depth = 1
    MaxReq = 3
    MaxReset = 2
    IrqHarts <- OneOfThem
CHECK_DEADLOCK FALSE
INVARIANTS LockTypeOK LockOwnAnswer LockNeverPanics StuckOnlyInWindow
PROPERTIES LockImplementsMailbox 
