CONSTANTS
    Senders = {s1}
    Block = 2
    Lengths = {2, 4}
    IoThreads = 2
    MaxReleases = 1
    MayFail = FALSE
    None = None
SPECIFICATION FairSpec
PROPERTY SenderFinishes
CHECK_DEADLOCK FALSE
