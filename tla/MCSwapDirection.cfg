SPECIFICATION Spec
CONSTANTS
    Swaps <- SwapsBoth
    Transfers = {}
    BadAmounts = {}
    FeeBps = 2
    FeeDen = 8
    Mod = 64
    Start <- StartBalances
    Estimates <- UpsertReserves
    Others = {}
    MaxDrain = 1
    MaxTx = 2
PROPERTY OptimisticAccurate
CHECK_DEADLOCK FALSE
