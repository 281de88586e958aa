CONSTANTS
    r1 = r1
    r2 = r2
    c1 = c1
    c2 = c2
    c3 = c3
    Requests = {r1, r2}
    Conns = {c1, c2, c3}
    None = None
    Https = FALSE
    Proxy = FALSE
    Timeout = 1
    TimeoutConnect = 0
    MaxParts = 1
SPECIFICATION Spec
VIEW Seen
SYMMETRY Symmetry
INVARIANTS
    ConnectionExclusive
PROPERTY KeepsPromise
CHECK_DEADLOCK FALSE
