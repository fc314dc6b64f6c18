CONSTANTS
    Data <- Bit
    Ciphers <- OneCipher
    ClientID = 1
    BodyMsgs = {1}
    MaxSends <- ServerOne
    EarlySends = TRUE
SPECIFICATION FairSpec
CHECK_DEADLOCK FALSE
PROPERTY
    ClientInvalidationDisconnects
