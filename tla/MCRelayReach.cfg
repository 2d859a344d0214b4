CONSTANTS
    a = a
    NoSocket = NoSocket
    HostIds = {a}
    HostSockets = {s1, s2}
    Clients = {c1}
    HostIdOf <- MCHostIdOf
    ClientHost <- MCClientHost
    MaxSessions = 1
    ConnectLimit = 1
    QueueBound = 1
SPECIFICATION RelaySpec
CHECK_DEADLOCK FALSE
INVARIANT
    ServingHostIsReachable
