CONSTANTS
    Conns = {c1, c2}
    MaxConns = 2
    MaxAttempts = 2
    GuessBound = 4
    MaxRestarts = 1
    MaxRevokes = 1
    Boot = Boot
    Nothing = Nothing
    MaxConn = 2
    MaxGen = 2
    MaxCalls = 2
    MaxFaults = 1
    ConsoleSessions = {1, 2}
    Desktops = {"Winlogon", "Default"}
    MaxWorkers = 6
    MaxSwitches = 1
    MaxStops = 1
    MaxMishapsW = 1
    Platforms = {"linux", "windows", "macos"}
    Peers = {"guest", "options", "old"}
    Topologies <- MCTopologies
    OptionRequests <- MCOptions
    Grants <- MCGrants
    PinnedOutputs = {"none", "A"}
    MaxRequests = 1
    MaxPlugs = 1
    MaxOrders = 1
    MaxDeaths = 1
VIEW Running
SYMMETRY Interchangeable
SPECIFICATION SessionsSpec
CHECK_DEADLOCK FALSE
INVARIANTS
    TrustIsApproved
    NoMediaBeforeApproval
    GuessesBounded
    
    ClientSessionSafe
    
    

    
