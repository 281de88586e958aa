CONSTANTS
    Names = {"sendFile", "release", "onSent"}
    Native = {"sendFile", "release"}
    CallsOut = {}
    Functions = {f}
    MaxCount = 3
    None = None
    MaxVars = 2
    MaxFiles = 1
SPECIFICATION DFairSpec
INVARIANTS
    TableHoldsLive
    EndsWithLastHolder
    
PROPERTY ObjectEnds
CHECK_DEADLOCK FALSE
