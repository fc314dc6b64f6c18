CONSTANTS
    Data <- Bits
    Ciphers <- MCCiphers
    ClientID = 1
    BodyMsgs = {2}
    MaxSends <- TwoEach
    EarlySends = FALSE
SPECIFICATION FairSpec
CHECK_DEADLOCK FALSE
INVARIANTS
    IInv
    DeliveredInOrder
    HandshakeAgreement
    ValidatedPeersShareCipher
    NobodyStuck
PROPERTIES
    ImplementsSession
    HandshakeCompletes
    EventuallyDelivered
