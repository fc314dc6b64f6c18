CONSTANTS
    Data <- Bit
    Ciphers <- OneCipher
    ClientID = 1
    BodyMsgs = {1}
    MaxSends <- ServerTwo
    EarlySends = TRUE
SPECIFICATION Spec
CHECK_DEADLOCK FALSE
INVARIANTS
    WriterBusyIffQueued
    MessageWordsInOrder
