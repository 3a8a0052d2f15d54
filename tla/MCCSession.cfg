CONSTANTS
    Threads = {p1, p2}
    MaxSendQueue = 2
    RealtimeLimit = 1
    MaxMessages = 3
    MaxDrains = 2
SPECIFICATION FairSpec
INVARIANTS
    InOrder
    NothingStranded
    CleanupAfterClose
PROPERTIES
    SendsInOrder
    RetiringCloses
    DrainsReturn
CHECK_DEADLOCK FALSE
