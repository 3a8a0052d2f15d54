CONSTANTS
    Sessions = {s1, s2}
    Servers = {n1, n2}
    Devices = {desktop}
    Tokens = {t1}
    None = None
    Orphan = Orphan
    MaxConnections = 1
    MaxFaults = 1
    MaxCrashes = 1
    MaxLockExpiries = 0
SPECIFICATION FairSpec
PROPERTIES
    LeaversAreCleared
    LoginEnds
CHECK_DEADLOCK FALSE
