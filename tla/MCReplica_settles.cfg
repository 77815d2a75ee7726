SPECIFICATION FairSpec
CONSTANTS
    r1 = r1
    r2 = r2
    Replicas = {r1, r2}
    Writes <- OneEach
    Contended = {2}
    BatchItems = 2
    BackoffAfter = 2
    MinTail = 2
    Rollback = TRUE
    Parallel = FALSE
    MaxLosses = 0
    MaxCuts = 1
    MaxCrashes = 1
    MaxBusy = 1
    MaxFaults = 2
INVARIANTS
    ReplicaTypeOK
    NoFalseAlarm
PROPERTIES
    SettlesUnlessBusy
