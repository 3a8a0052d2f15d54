CONSTANTS
    First = First
    Second = Second
    Readers = {First}
    Workers = {w1, w2}
    i1 = i1
    i2 = i2
    b1 = b1
    b2 = b2
    Uuids = {i1, i2}
    Bodies = {b1, b2}
    Batches <- ThreeBatches
    NoUuid = NoUuid
    PageSize = 1
    MaxAttempts = 2
    MaxRequests = 3
    MaxFaults = 1
SYMMETRY WorkerSymmetry
SPECIFICATION Spec
INVARIANTS
    EffectOnce
PROPERTIES
    ImplementsMessageLog
    SentAmongFriends
CHECK_DEADLOCK FALSE
