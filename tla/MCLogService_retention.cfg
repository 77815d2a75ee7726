SPECIFICATION Spec
CONSTANTS
    None = None
    CP = CP
    d1 = d1
    d2 = d2
    rec = rec
    host = host
    esc = esc
    a1 = a1
    a2 = a2
    zero = zero
    k1 = k1
    k2 = k2
    r1 = r1
    r2 = r2
    r3 = r3
    t1 = t1
    t2 = t2
    ZeroAccount = zero
    Devices <- UserDevices
    Accounts <- MCAccounts
    KindOf <- MCKindOf
    AccountOf <- MCAccountOf
    PolicyKeys <- MCPolicyKeys
    Roots <- MCRoots
    PinnedRoots <- MCPinned
    Tokens <- MCTokens
    Batches <- RetentionBatches
    Publishers = {d1}
    Endorsers = {d2}
    StorageQuotas = {1}
    DefaultQuota = 20
    TokenRetention = 3
    GraceEntries = 1
    MinAge = 2
    SelfEndorseAge = 1
    MaxReadItems = 2
    MaxWait = 1
    Pipelining = FALSE
    MaxOps = 5
    MaxRequests = 3
    MaxClock = 3
INVARIANTS
    ReceiptsAgree
    TokenOnce
    RetentionExact
    YoungEntriesKept
    DeletedEntriesArchived
    ReadsNeverSkip
    StorageExact
CHECK_DEADLOCK FALSE
