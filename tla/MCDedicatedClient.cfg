CONSTANTS
    MaxConnects = 2
    MaxSends = 1
    MaxMessages = 1
    MaxClosings = 1
SPECIFICATION Spec
CHECK_DEADLOCK FALSE
INVARIANTS
    TypeOK
    WorkCounted
    StopEventOnce
    StopNotLost
    RunHasWork
    ThreadJoined
    RunIsPrepared
    NobodyStuck
PROPERTIES
    DisconnectReturns
    Served
