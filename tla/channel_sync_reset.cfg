SPECIFICATION FairSpec
CONSTANTS
    MB_MAX_ENTRIES <- TwoSlots
    IDX_MOD <- TwoLaps
    MB_VERSION <- MyVersion
    ClientVersions <- SameVersion
    Kinds <- Answered
    MaxReq = 3
    MaxReset = 2
    Crashes = FALSE
PROPERTIES ResetCompletes
