SPECIFICATION Spec
CONSTANTS
    Swaps <- SwapsBtoA
    Transfers <- Donations
    BadAmounts = {40}
    FeeBps = 2
    FeeDen = 8
    Mod = 64
    Start <- StartBalances
    Estimates <- UpsertReserves
    Others = {"x"}
    MaxDrain = 1
    MaxTx = 3
INVARIANTS
    TypeOK
    MarksReachTheFetch
PROPERTIES
    SwapKeepsProduct
    MarksAreServed
CHECK_DEADLOCK FALSE
