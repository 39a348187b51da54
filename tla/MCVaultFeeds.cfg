SPECIFICATION Spec
CONSTANTS
    Base = 5
    Word = 8
    KeyLen = 3
    Keys <- MCKeys
    MaxBackoff = 4
    MaxChanges = 1
INVARIANTS
    MonitorsTheVaults
CHECK_DEADLOCK FALSE
