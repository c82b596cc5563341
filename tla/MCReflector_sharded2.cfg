CONSTANTS
    a = a
    b = b
    c = c
    UIDs = {a, b, c}
    NumStreams = 2
    Scope <- ShardedNamespaces
    Sharded = TRUE
    Keep = {a, c}
    KeepsBookmarks = FALSE
    KindMatches = TRUE
    MaxRev = 3
    MaxFaults = 0
SPECIFICATION FairSpec
CHECK_DEADLOCK FALSE
PROPERTY EventuallyComplete
