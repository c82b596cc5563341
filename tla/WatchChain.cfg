SPECIFICATION Spec
CONSTANTS
    NumNamespaces = 2
    MaxEvents = 2
    Layouts <- AllLayouts
INVARIANTS
    TypeOK
    NothingLost
    ClosedWhenAllRead
PROPERTIES
    StopCloses
    ChainMoves
    OnlySendersStay
CHECK_DEADLOCK FALSE
