SPECIFICATION MCSpec
CONSTANTS
  Slots = {1, 2}
  NumData = 3
  Ends = {1, 2}
  FecWidth = 2
  NumCoding = 1
  Headers <- MCHeaders
  AlienNumData = 1
  Copies <- MCCopies
  DedupCap = 10
  PruneEvery = 2
  PruneKeep = 0
  Malformed = {}
  Undecodable = {}
  Pools = {"pump", "manual", "launch"}
  Mints = {"coin"}
  MintOf <- MCMintOf
  Txs <- MCTxs
  Listed <- MCListed
  Bootstrapped <- MCBootstrapped
  MaxThreads = 1
  MaxTxs = 2
  Wsol = "sol"
  Loaded = "loaded"
  Wallets = {"w1", "w2"}
  Tokens = {"t"}
  SwapSlots = {1, 3}
  HistorySize = 2
  MinForPatterns = 2
  MinForCategory = 2
  BotSwaps = 2
  FlipSlots = 1
  MinBuys = 2
  MinRotation = 2
  MaxWallets = 1
  Minute = 1
  FiveMinutes = 1
  Hour = 1
  MaxTime = 1
  MaxSwaps = 3
INVARIANT BlockhashIsFreshest
CHECK_DEADLOCK FALSE
