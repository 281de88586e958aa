CONSTANTS
    Threads = {main, t1, t2}
    Main = main
    MaxRequests = 1
    MaxOpens = 2
    MayThrow = TRUE
    Heard <- MCHeard
SPECIFICATION KFairSpec
INVARIANTS
    AloneIsAnswered
    WaitingIsSafe
PROPERTIES
    RestartAlone
    EventComes
CHECK_DEADLOCK FALSE
