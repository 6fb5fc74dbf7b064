SPECIFICATION FairSpec
CONSTANTS
    MB_MAX_ENTRIES <- TwoSlots
    IDX_MOD <- TwoLaps
    Kinds <- Unstopped
    MaxReq = 6
    MaxReset = 2
    Cancels = FALSE
    WakeLoop = FALSE
CHECK_DEADLOCK FALSE
PROPERTIES AsyncCallReturns AsyncResetCompletes
