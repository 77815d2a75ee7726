SPECIFICATION Spec
CONSTANTS
    MaxObject = 2
    Settings = {q1, q2}
    Deletions = {d1}
    None = None
    PageRows = 1
    ImportItems = 2
    MaxOps = 2
    MaxSessions = 2
INVARIANTS
    ArchiveIsCut
    RestoredIsCut
PROPERTY
    DenialIsFinal
CHECK_DEADLOCK FALSE
