CONSTANTS
    Sessions = {s1, s2, s3}
    Servers = {n1, n2}
    Devices = {desktop, android}
    Tokens = {t1, t2}
    None = None
    Orphan = Orphan
    MaxConnections = 2
    MaxFaults = 1
    MaxCrashes = 1
    MaxLockExpiries = 0
SYMMETRY AllSymmetry
CONSTRAINT Scenarios
SPECIFICATION Spec
INVARIANTS
    OwnerIsReachable
    ClosedIsForgotten
    NoOrphanLease
    OneSlotPerToken
    LeaseIsWhole
PROPERTIES
    LeaseOutlivesCleanup
    KickUnderLock
CHECK_DEADLOCK FALSE
