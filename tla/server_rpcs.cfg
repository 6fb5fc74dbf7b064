SPECIFICATION FairRpcSpec
CONSTANTS
    MB_MAX_ENTRIES = 2
    MB_MAX_ARGS = 5
    Custom <- TwoCustoms
    Codes <- SomeCodes
    Bufs <- TwoBufs
    Extra <- ZeroOrOne
    Envs <- SomeEnvs
    MaxReq = 3
CHECK_DEADLOCK FALSE
INVARIANTS RpcTypeOK  PrintedAsPassed
PROPERTY CallsEnd
