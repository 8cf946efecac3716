SPECIFICATION FairSpec
CONSTANTS
    Calls <- SendOnBoth
    InCap = 1
    OutCap = 1
PROPERTY EveryCallReturns
CHECK_DEADLOCK FALSE
