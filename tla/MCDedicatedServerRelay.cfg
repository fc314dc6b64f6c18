CONSTANTS
    MaxClients = 3
    MaxStarts = 1
    MaxInputs = 5
    MayStop = FALSE
    SizeValues = 1024
SPECIFICATION Spec
CHECK_DEADLOCK FALSE
INVARIANTS
    SentInOrder
    RelayNamesSender
    RelayReachesAll
