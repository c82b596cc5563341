SPECIFICATION Spec
CONSTANTS
    Uids <- MCUids
    Scenarios <- MCScenarios
    Sample <- MCSample
    CommandLines <- MCCommandLines
    Edits <- MCEdits
INVARIANT
    MaxUnavailableRoundsDown
CHECK_DEADLOCK FALSE
