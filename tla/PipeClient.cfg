SPECIFICATION FairSpec
CONSTANTS
    Calls <- EveryCall
    InCap = 2
    OutCap = 2
INVARIANTS
    TypeOK
    FreedUnderWorkerOnlyLate
    LeaksOnlyByException
PROPERTIES
    StopReturns
    StartReturns
CHECK_DEADLOCK FALSE
