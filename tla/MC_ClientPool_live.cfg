CONSTANTS
    r1 = r1
    c1 = c1
    c2 = c2
    Requests = {r1}
    Conns = {c1, c2}
    None = None
    Https = TRUE
    Proxy = TRUE
    Timeout = 2
    TimeoutConnect = 1
    MaxParts = 2
SPECIFICATION FairSpec
PROPERTY SilenceIsAnswered
CHECK_DEADLOCK FALSE
