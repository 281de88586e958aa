CONSTANTS
    Https = TRUE
    TimeoutRequest = 5
    TimeoutContent = 300
    Requests <- MCRequests
    MaxRequests = 2
    MaxChunks = 2
SPECIFICATION FairSpec
INVARIANTS
    TimerGuardsEveryWait
    NoSilentLoss
PROPERTIES
    HandlerSeesWholeRequest
    NothingCalledAfterStop
    KeepsPromise
    SilenceEndsConnection
CHECK_DEADLOCK FALSE
