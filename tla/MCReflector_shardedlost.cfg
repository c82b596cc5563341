CONSTANTS
    a = a
    b = b
    c = c
    UIDs = {a, b}
    NumStreams = 1
    Scope <- OneScope
    Sharded = TRUE
    Keep = {a}
    KeepsBookmarks = FALSE
    KindMatches = TRUE
    MaxRev = 4
    MaxFaults = 0
SPECIFICATION FairSpec
CHECK_DEADLOCK FALSE
PROPERTY EventuallyConsistent
