CONSTANTS
    Producers = {p1, p2}
    Consumers = {c1}
    Stopper = s
    None = none
    Pushes = 2
    Counts <- NoneOneOrAll
SPECIFICATION FairSpec
INVARIANTS
    TypeOK
    MutualExclusion
    PopFindsMessage
    WaitedPollFindsMessage
    MessagesInOrder
    NobodyStuck
PROPERTIES
    CallsReturn
    WokenByNextPush
