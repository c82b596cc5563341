CONSTANTS
    a = a
    b = b
    c = c
    UIDs = {a, b}
    NumStreams = 2
    Scope <- TwoNamespaces
    Sharded = FALSE
    Keep = {a, b}
    KeepsBookmarks = TRUE
    KindMatches = TRUE
    MaxRev = 4
    MaxFaults = 0
SPECIFICATION FairSpec
CHECK_DEADLOCK FALSE
INVARIANT StoreIsSnapshot
PROPERTY EventuallyConsistent
