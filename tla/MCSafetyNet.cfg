SPECIFICATION MCSpec
CONSTANTS
  r1 = r1
  r2 = r2
  t1 = t1
  t2 = t2
  t3 = t3
  Routes <- MCRoutes
  Tables <- MCTables
  NumChunks = 1
  MaxExpiries = 1
  MaxCrashes = 1
  IoErrors = TRUE
  None = None
  Pools <- ThePools
  FlashRoutes <- TheRoutes
  KnownOps <- Ops
  MinProfit = 1
  Wsol = "sol"
  Usdc = "usdc"
  OwnerOf <- Owners
  Env <- Environment
  ActiveBanks <- Banks
  Fee <- Fees
  Collateral = 10
  Outputs = {9, 10, 12}
  OwnFunds = {0, 1}
  MaxAccounts = 64
  Forgets = 1
SYMMETRY MCSymmetry
INVARIANTS
  RepayIsTheSafetyNet
CHECK_DEADLOCK FALSE
