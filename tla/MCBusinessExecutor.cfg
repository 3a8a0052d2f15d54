CONSTANTS
    k1 = k1
    k2 = k2
    k3 = k3
    l1 = l1
    l2 = l2
    NoTask = NoTask
    Keys <- MCKeys
    Lanes <- MCLanes
    LaneOf <- MCLaneOf
    QueueLimit = 2
    MaxTasks = 3
    MaxRejected = 1
SPECIFICATION FairSpec
INVARIANTS
    MetricsExact
    StopLeavesNothing
PROPERTIES
    SerialPerKey
    AcceptedIsServed
    StopReturns
CHECK_DEADLOCK FALSE
