\* Two lists of three nodes; strings of up to four characters under every type
\* of header; counters of 8 bits; three requests of a client, cut anywhere.
SPECIFICATION MCSpec
CONSTANTS
    Nodes = {1, 2, 3}
    Lists = {l1, l2}
    Values = {1, 2}
    TypeLimit <- MCTypeLimit
    SDS_MAX_PREALLOC = 4
    STATICBUF = 2
    MaxLen = 4
    Pieces <- MCPieces
    Seps <- MCSeps
    LLONG_MAX = 127
    SDS_LLSTR_SIZE = 5
    Lines <- MCLines
    MAX_LINE = 24
    MaxRequests = 3
INVARIANTS
    WellLinked
    LookupsAgree
    Layout
    Faithful
    RoundTrips
    CounterReads
    ShownAsWanted
    PlainIsDefined
PROPERTIES
    IterationExact
    SequenceSpec
CHECK_DEADLOCK FALSE
