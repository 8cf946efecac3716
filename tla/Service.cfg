SPECIFICATION FairSpec
CONSTANTS
    Retries = 2
    Program = {p1}
INVARIANTS
    TypeOK
    StoppedMeansIdle
PROPERTIES
    ProgramsReturn
    StopReachesWorker
    ReportsInOrder
    StopSignalKept
