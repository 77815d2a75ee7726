SPECIFICATION FairSpec
CONSTANTS
    Editors = {e1, e2}
    RestoreRounds = 2
    SameSize = {1}
    HoldersUnknown = TRUE
    CountLate = FALSE
    Versions = 1
    MaxSaves = 2
    MaxPublishes = 2
    MaxDeletes = 1
    MaxWork = 3
    MaxFaults = 2
INVARIANTS NothingLost NoOrphans KnownUpToSize
PROPERTY UserEditsCaptured
