\* Two clients, and connections that break.
CONSTANTS
    LONG_MAX = 1
    c1 = c1
    c2 = c2
    c3 = c3
    k1 = k1
    Keys = {k1}
    SetTexts = {}
    Clients = {c1, c2}
    listenfd = listenfd
    Requests <- Counting
    EVENTS = 20
    LISTENQ = 20
    MaxFds = 2
    MayReset = TRUE
SPECIFICATION FairSpec
CHECK_DEADLOCK FALSE
PROPERTIES
    Answered
