SPECIFICATION FairSpec
CONSTANTS
    r1 = r1
    r2 = r2
    Replicas = {r1, r2}
    Writes <- OneEach
    Contended = {2}
    BatchItems = 2
    BackoffAfter = 2
    MinTail = 2
    Rollback = FALSE
    Parallel = FALSE
    MaxLosses = 0
    MaxCuts = 0
    MaxCrashes = 0
    MaxBusy = 1
    MaxFaults = 1
PROPERTIES
    Settles
