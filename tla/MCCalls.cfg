CONSTANTS
    a = a
    b = b
    phone = phone
    A = A
    B = B
    Sessions = {a, b, phone}
    Users = {A, B}
    UserOf <- TwoUsers
    DeviceOf <- TwoDevices
    None = None
    MaxCalls = 2
    MaxCloses = 1
    MaxFaults = 1
CONSTRAINT Scenarios
SPECIFICATION Spec
INVARIANTS
    CallIsShared
    ActiveIsBound
PROPERTIES
    OnlyItsOwnEnd
CHECK_DEADLOCK FALSE
