SPECIFICATION FairSpec
CONSTANTS
    MB_MAX_ENTRIES <- TwoSlots
    IDX_MOD <- TwoLaps
    MB_VERSION <- MyVersion
    ClientVersions <- SameVersion
    Kinds <- Unstopped
    MaxReq = 2
    MaxReset = 2
    Crashes = TRUE
PROPERTIES ResetRecovers
