SPECIFICATION MCSpec
CONSTANTS
    p1 = p1
    k1 = k1
    k2 = k2
    va = va
    pool = pool
    Pools = {p1}
    Listing <- MCVaults
    OnChain <- MCVaults
    Arrays = {"array"}
    BatchSize = 2
    MaxChanges = 1
    Venues <- MCVenues
    KeySeq <- MCKeySeq
    Preloaded = {k1}
    PollBatch = 1
    MaxBackoff = 2
    LiteSlots = 2
    LiteQueue = 2
    PoolFile <- MCMapped
    Asked = {va}
    MaxFailures = 1
    SlotsPerEpoch = 2
    MiniSlots = 2
    Lag = 1
    GeyserAccounts = {k1, k2}
    SimSlots = 3
INVARIANTS
    AnswersAreSound
    UnresolvedOnlyOnFailure
PROPERTIES
    AccountCacheImplementsLatest
    FeedsCatchUp
CHECK_DEADLOCK FALSE
