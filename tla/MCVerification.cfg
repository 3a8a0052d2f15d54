CONSTANTS
    second = i2
    Issuers = {i1, i2}
    Requests = {u, v}
    User = u
    None = None
    MaxCodes = 4
    MaxFaults = 1
    MaxExpiries = 1
    MaxOthers = 1
SPECIFICATION EarlyOverlap
INVARIANTS
    HolderKeepsLease
    CodeSpentOnce
PROPERTIES
    RegistrationSucceeds
CHECK_DEADLOCK FALSE
