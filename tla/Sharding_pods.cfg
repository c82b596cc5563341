CONSTANTS
    Width = 6
    MaxBuckets = 4
    Objects = {o1}
    MaxChanges = 2
SPECIFICATION FairSpec
CHECK_DEADLOCK FALSE
INVARIANTS
    TypeOK
    HashIsConsistent
    TwoKeepersOnlyWhileMoving
    SettledPodsPartition
PROPERTY EventuallyEachOnce
