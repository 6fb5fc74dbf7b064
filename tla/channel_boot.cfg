SPECIFICATION FairSpec
CONSTANTS
    MB_MAX_ENTRIES <- TwoSlots
    IDX_MOD <- TwoLaps
    MB_VERSION <- MyVersion
    ClientVersions <- SameVersion
    Kinds <- Unstopped
    MaxReq = 5
    MaxReset = 0
    Crashes = FALSE
INVARIANTS TypeOK
PROPERTIES CallReturns EventuallyServed
