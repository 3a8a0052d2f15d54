CONSTANTS
    a = a
    b = b
    phone = phone
    A = A
    B = B
    Sessions = {a, b}
    Users = {A, B}
    UserOf <- TwoUsers
    DeviceOf <- TwoDevices
    None = None
    MaxCalls = 1
    MaxCloses = 1
    MaxFaults = 1
SPECIFICATION CallsOfA
PROPERTIES
    NobodyStaysAlone
CHECK_DEADLOCK FALSE
