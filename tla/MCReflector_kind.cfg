CONSTANTS
    a = a
    b = b
    c = c
    UIDs = {a, b}
    NumStreams = 1
    Scope <- OneScope
    Sharded = FALSE
    Keep = {a, b}
    KeepsBookmarks = TRUE
    KindMatches = FALSE
    MaxRev = 4
    MaxFaults = 0
SPECIFICATION FairSpec
CHECK_DEADLOCK FALSE
PROPERTY EventuallyConsistent
