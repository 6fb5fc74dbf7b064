SPECIFICATION Spec
CONSTANTS
    MB_MAX_ENTRIES <- TwoSlots
    IDX_MOD <- TwoLaps
    Kinds <- Everything
    MaxReq = 6
    MaxReset = 3
    Cancels = TRUE
    WakeLoop = TRUE
CHECK_DEADLOCK FALSE
INVARIANTS AsyncTypeOK NoLostWakeup NoUnexpectedReset AsyncServesInOrder
PROPERTIES AsyncOwnAnswer AsyncImplementsMailbox
