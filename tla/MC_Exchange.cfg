CONSTANTS
    Requests <- RequestSet
    Replies <- ReplySet
    MaxExchanges = 2
SPECIFICATION FairSpec
INVARIANTS
    RequestArrives
    ResponseArrives
    NothingLeftBehind
PROPERTIES
    ExchangeEnds
CHECK_DEADLOCK FALSE
