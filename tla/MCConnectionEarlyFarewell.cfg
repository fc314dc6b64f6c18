CONSTANTS
    Data <- Bits
    Ciphers <- MCCiphers
    ClientID = 1
    BodyMsgs = {1}
    MaxSends <- ServerTwo
    EarlySends = TRUE
SPECIFICATION Spec
CHECK_DEADLOCK FALSE
PROPERTY
    InvalidateMessagesSent
