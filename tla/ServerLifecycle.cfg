SPECIFICATION FairSpec
CONSTANT NPipes = 3
INVARIANTS
    TypeOK
    WrapperOutlivesThread
    BrokerOutlivesThread
PROPERTY WrapperStopReturns
CHECK_DEADLOCK FALSE
