SPECIFICATION SavesSpec
CONSTANTS
    None = None
    Values = {v1, v2, v3}
    Invalid = {v3}
    MaxEdits = 4
    MaxFailures = 2
    Editors = {e1, e2}
    DiagramEdits = 2
    MaxTrouble = 1
    MaxLoads = 3
INVARIANTS
    SettledMeansSaved
    SavedIsOnServer
    SavedIsSaved
PROPERTIES
    EditsAreSavedOrTold
    AcceptedStays
    EditsArriveOrTell
CHECK_DEADLOCK FALSE
