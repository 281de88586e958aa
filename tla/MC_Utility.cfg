CONSTANTS
    Bytes <- ByteSet
    MaxText = 5
    Octets <- OctetSet
    MaxFields = 2
    MaxQuery = 8
SPECIFICATION UtilitySpec
INVARIANTS
    HeaderEndIsExact
    QueryRoundTrip
    AttributesRoundTrip
CHECK_DEADLOCK FALSE
