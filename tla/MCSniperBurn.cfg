SPECIFICATION Spec
CONSTANTS
  Grads <- MCGrads
  Modes = {"live"}
  Unsafe = {"t1"}
  Slots = {1}
  Cost = 100
  MinPool = 250000
  Thin = 5000
  Dust = 1
  Markets <- Slow
  Balances = {99}
  VaultPolls = 2
  BalancePolls = 2
INVARIANT BurnsOnlyWorthless
CHECK_DEADLOCK FALSE
