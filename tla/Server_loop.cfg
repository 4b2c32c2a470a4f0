\* Three clients that connect, ask, leave and come back, connections that break,
\* and descriptors for two of them.
CONSTANTS
    LONG_MAX = 1
    c1 = c1
    c2 = c2
    c3 = c3
    k1 = k1
    Keys = {k1}
    SetTexts = {}
    Clients = {c1, c2, c3}
    listenfd = listenfd
    Requests <- Counting
    EVENTS = 2
    LISTENQ = 20
    MaxFds = 2
    MayReset = TRUE
SPECIFICATION Spec
SYMMETRY MCSymmetry
CHECK_DEADLOCK FALSE
INVARIANTS
    TypeOK
    OneReplyEach
    EndsForCause
PROPERTIES
    ClosesOnlyGone
