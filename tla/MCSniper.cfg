SPECIFICATION Spec
CONSTANTS
  Grads <- MCGrads
  Modes = {"live", "dry", "off"}
  Unsafe = {"t1"}
  Slots = {1}
  Cost = 100
  MinPool = 250000
  Thin = 5000
  Dust = 1
  Markets <- MCMarkets
  Balances = {99}
  VaultPolls = 2
  BalancePolls = 2
INVARIANTS
  TypeOK
  OnlyLiveSends
PROPERTIES
  NoDoubleBuy
  ClosedWhileDriven
CHECK_DEADLOCK FALSE
