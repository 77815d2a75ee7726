SPECIFICATION Spec
CONSTANTS
    Editors = {e1}
    RestoreRounds = 2
    SameSize = {}
    HoldersUnknown = TRUE
    CountLate = TRUE
    Versions = 1
    MaxSaves = 1
    MaxPublishes = 1
    MaxDeletes = 0
    MaxWork = 3
    MaxFaults = 0
INVARIANT NothingLost
