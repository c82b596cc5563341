CONSTANTS
    a = a
    b = b
    c = c
    UIDs = {a, b}
    NumStreams = 1
    Scope <- OneScope
    Sharded = FALSE
    Keep = {a, b}
    KeepsBookmarks = TRUE
    KindMatches = TRUE
    MaxRev = 4
    MaxFaults = 1
SPECIFICATION FairSpec
CHECK_DEADLOCK FALSE
INVARIANT TypeOK
INVARIANT StoreIsSnapshot
PROPERTY EventuallyConsistent
PROPERTY StopsWhenCancelled
