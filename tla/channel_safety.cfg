SPECIFICATION Spec
CONSTANTS
    MB_MAX_ENTRIES <- TwoSlots
    IDX_MOD <- TwoLaps
    MB_VERSION <- MyVersion
    ClientVersions <- SameVersion
    Kinds <- Everything
    MaxReq = 3
    MaxReset = 2
    Crashes = TRUE
CHECK_DEADLOCK FALSE
INVARIANTS ResetExclusive ClientNeverPanics NoTornAccess ServesInOrder OwnAnswer RingBounds RingInv
PROPERTY ImplementsMailbox
