SPECIFICATION Spec
CONSTANTS
    r1 = r1
    r2 = r2
    Replicas = {r1, r2}
    Writes <- TwoAndOne
    Contended = {2}
    BatchItems = 2
    BackoffAfter = 2
    MinTail = 3
    Rollback = TRUE
    Parallel = TRUE
    MaxLosses = 1
    MaxCuts = 0
    MaxCrashes = 0
    MaxBusy = 0
    MaxFaults = 1
INVARIANTS
    NoHarmWithoutLoss
    AckedKept
PROPERTIES
    ImplementsClientWrites
