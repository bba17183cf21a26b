SPECIFICATION FairSpec
CONSTANTS
    d1 = d1
    d2 = d2
    s1 = s1
    s2 = s2
    k1 = k1
    k2 = k2
    none = none
    Devices = {d1, d2}
    Streams = {s1, s2}
    DeviceOf <- MCDeviceOf
    Clients = {k1, k2}
    MaxAttempts = 2
INVARIANTS
    TypeOK
    RoutesAreCurrent
PROPERTIES
    ManagerKeepsConnections
    AskersServed
CHECK_DEADLOCK FALSE
