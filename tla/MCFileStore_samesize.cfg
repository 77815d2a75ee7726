SPECIFICATION Spec
CONSTANTS
    Editors = {e1}
    RestoreRounds = 2
    SameSize = {1}
    HoldersUnknown = FALSE
    CountLate = FALSE
    Versions = 1
    MaxSaves = 1
    MaxPublishes = 1
    MaxDeletes = 0
    MaxWork = 3
    MaxFaults = 0
INVARIANT KnownIsTrue
