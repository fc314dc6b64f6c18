CONSTANT
    Challenges <- EveryByte
SPECIFICATION Spec
CHECK_DEADLOCK FALSE
INVARIANTS
    AnswersTellChallenges
    EchoIsWrong
    OwnersNeverAgree
