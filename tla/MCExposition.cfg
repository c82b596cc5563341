SPECIFICATION Spec
CONSTANTS
    Uids <- MCUids
    Scenarios <- MCScenarios
    Sample <- MCSample
    CommandLines <- MCCommandLines
    Edits <- MCEdits
INVARIANTS
    TypeOK
    HeadersAligned
    ServesAsConfigured
    EachFamilyOnce
    SeriesDistinct
    LabelNamesDistinct
    PodFamiliesAgree
    CompletionTimeIsLatest
    MaxSurgeRoundsUp
    NextScheduleAfterLast
    PanicsOnlyWithoutTarget
CHECK_DEADLOCK FALSE
