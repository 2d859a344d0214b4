CONSTANTS
    MaxConn = 1
    MaxGen = 1
    MaxCalls = 2
    MaxFaults = 1
    ConsoleSessions = {1, 2}
    Desktops = {"Winlogon", "Default"}
    MaxWorkers = 5
    MaxSwitches = 1
    MaxStops = 0
    MaxMishapsW = 1
    hostId = hostId
    s1 = s1
    s2 = s2
    c1 = c1
    p1 = p1
    p2 = p2
    NoSocket = NoSocket
    HostIds = {hostId}
    HostSockets = {s1, s2}
    Clients = {c1}
    HostIdOf <- MCHostIdOf
    ClientHost <- MCClientHost
    MaxSessions = 1
    ConnectLimit = 1
    QueueBound = 1
    Conns = {p1, p2}
    MaxConns = 1
    MaxAttempts = 2
    GuessBound = 2
    MaxRestarts = 0
    MaxRevokes = 0
    Boot = Boot
    Nothing = Nothing
SPECIFICATION LifecycleSpec
CHECK_DEADLOCK FALSE
INVARIANTS
    SessionMapExact
    FramesStayWithTheirHost
PROPERTIES
    StoppedRuntimeEnds
    CommandsReturn
    ServiceSettles
    RelayTearsDown
    AdmissionCloses
