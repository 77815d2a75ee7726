SPECIFICATION PolicySpec
CONSTANTS
    None = None
    CP = CP
    d1 = d1
    d2 = d2
    rec = rec
    host = host
    esc = esc
    a1 = a1
    a2 = a2
    zero = zero
    k1 = k1
    k2 = k2
    r1 = r1
    r2 = r2
    r3 = r3
    t1 = t1
    t2 = t2
    ZeroAccount = zero
    Devices <- AllDevices
    Accounts <- MCAccounts
    KindOf <- MCKindOf
    AccountOf <- MCAccountOf
    PolicyKeys <- MCPolicyKeys
    Roots <- MCRoots
    PinnedRoots <- MCPinned
    Tokens <- MCTokens
    Batches <- PolicyBatches
    Publishers = {}
    Endorsers = {}
    StorageQuotas = {}
    DefaultQuota = 20
    TokenRetention = 3
    GraceEntries = 1
    MinAge = 1
    SelfEndorseAge = 2
    MaxReadItems = 2
    MaxWait = 0
    Pipelining = TRUE
    MaxOps = 5
    MaxRequests = 5
    MaxClock = 0
INVARIANTS
    ChainIntact
    AcksDurable
    EpochSeparation
    RevocationIsFinal
    TypeOK
    OwnerRemains
    ActiveDevicesAreMembers
    FrozenExcludesContent
    RebuildMatches
PROPERTIES
    ImplementsSharedLog
CHECK_DEADLOCK FALSE
