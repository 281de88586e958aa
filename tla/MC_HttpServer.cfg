CONSTANTS
    Conns = {c1, c2, c3}
    Runners = {k1, k2}
SPECIFICATION FairSpec
INVARIANTS
    SetHoldsNoDeleted
    AcceptChainUnbroken
    NeverTerminates
PROPERTIES
    NoPeerAfterStop
    StopEndsRun
CHECK_DEADLOCK FALSE
