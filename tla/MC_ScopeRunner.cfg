CONSTANTS
    Handlers = {h1, h2, h3}
    Stoppers = {s1, s2}
SPECIFICATION FairSpec
PROPERTIES
    RefinesGate
    StopReturns
CHECK_DEADLOCK FALSE
