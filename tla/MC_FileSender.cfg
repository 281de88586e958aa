CONSTANTS
    Senders = {s1, s2}
    Block = 2
    Lengths = {0, 1, 4, 5}
    IoThreads = 2
    MaxReleases = 3
    MayFail = TRUE
    None = None
SPECIFICATION FairSpec
INVARIANTS
    FileInOrder
    NothingIsCutOff
PROPERTY LinkGoesOn
CHECK_DEADLOCK FALSE
