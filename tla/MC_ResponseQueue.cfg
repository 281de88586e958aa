CONSTANTS
    Senders = {s1, s2}
    Threads = {t1, t2}
    MaxSends = 3
SPECIFICATION FairSpec
INVARIANTS
    OneWriteAtATime
    WriteReadsHead
    QueueIsServed
    WireIsStreamOrder
PROPERTIES
    KeepsPromise
    EveryCallbackRuns
CHECK_DEADLOCK FALSE
