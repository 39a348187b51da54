SPECIFICATION MCSpec
CONSTANTS
    Meme = Meme
    Staked = Staked
    Wsol = Wsol
    Usdc = Usdc
    Usdt = Usdt
    PoolTable <- MCPools
    ReservesOf <- MCReserves
    Rank <- MCRank
    Bps = 100
    DefaultFee = 1
    MinReserve = 100
    TxFee = 1
    Amounts <- MCAmounts
    Lsts = {Staked}
    Focus = {Wsol}
    EstimatedSol = 1900
    MinReserveSol = 500
    MinLiquidity = 1000
    MaxBorrow = 190
    HotRoutes <- MCHotRoutes
    HotCycles <- MCHotCycles
    TickPrices <- MCTickPrices
    OraclePrices <- MCPrices
    WhaleAmounts = {300}
    Known = {"r1", "o2", "s1", "x1", "x2"}
    Blacklist = {}
    GraphReserve = 1000
    GraphAmount = 80
    MaxHops = 3
    w1 = w1
    w2 = w2
    Writers = {w1, w2}
    Cap = 1
    GradCap = 1
    BfEvery = 2
    CooldownGens = 2
    MaxWrites = 1
    MaxGen = 3
SYMMETRY Symmetric
INVARIANTS
    TypeOK
    RouteCacheCurrent
    EmittedRoutesCurrent
    OneEmissionPerGeneration
    RoutesPay
    BorrowsAnchor
    QuotesHold
CHECK_DEADLOCK FALSE
