CONSTANTS
    MaxClients = 2
    MaxStarts = 2
    MaxInputs = 4
    MayStop = TRUE
    SizeValues = 1024
SPECIFICATION Spec
CHECK_DEADLOCK FALSE
INVARIANTS
    TypeOK
    AcceptsForever
    NobodyStuck
PROPERTIES
    StopReturns
    FailedClientLeaves
    ImplementsMembership
