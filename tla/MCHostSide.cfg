CONSTANTS
    Systems = {"linux", "windows", "macos"}
    Modifier = {"SHIFT"}
    WireKeys = {"key0", "rshift", "unmapped"}
    Pads = {"pad0"}
    ExcessPads = {"pad4"}
    BatchMax = 2
    Burst = 1
    MaxFailures = 1
    HostSystems = {"wayland", "x11", "windows"}
    ClipTexts = {t1, t2}
    MaxCopies = 2
    MaxUpsets = 2
    MaxMishaps = 1
    Backends = {"apple", "mdns"}
    ServiceKeys <- MCServiceKeys
    Metadata = {"m1", "bad"}
    AddressKinds = {"v4", "local6"}
    LinkLocalInterfaces = {1, 2}
    MaxServices = 2
    MaxTracked = 1
    MaxEvents = 5
    MaxTimeouts = 1
    MaxFaults = 1
    DeskModes = {"m1", "m2"}
    StartMode = "m1"
    Nv12Len <- MCLengths
    AbortThreshold = 1
    PoolSize = 4
    Depth = 1
    MaxCaptures = 2
    MaxDisturbances = 1
VIEW Running
SYMMETRY Interchangeable
SPECIFICATION HostSideSpec
CHECK_DEADLOCK FALSE
INVARIANTS
    
    
    DiscoverySafe
    WindowsMediaSafe
