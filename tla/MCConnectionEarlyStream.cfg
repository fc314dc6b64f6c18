CONSTANTS
    Data <- Bit
    Ciphers <- OneCipher
    ClientID = 1
    BodyMsgs = {1}
    MaxSends <- ServerOne
    EarlySends = TRUE
SPECIFICATION Spec
CHECK_DEADLOCK FALSE
INVARIANT
    NormalOperationAfterValidation
