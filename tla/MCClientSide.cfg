CONSTANTS
    PairingIds = {a, b}
    Clients = {gui, cli}
    MaxStoreOps = 3
    MaxSessions = 2
    Requests = {r1, r2, r3}
    Items = {k, m}
    MaxWork = 2
    MaxFrames = 2
    MaxInFlight = 4
    FrameSizes = {0, 1, 2, 3}
    MaxChunks = 2
    MaxIncomplete = 1
    MaxOrphans = 1
    AssemblyTimeout = 1
    IdRing = 8
    MaxPosition = 6
    LossCapacity = 3
    Grace = 1
    SequenceRing = 16
    MaxClock = 3
    ByteBase = 32
    W16 = 2
    W32 = 3
    W64 = 4
    TextMax = 2
    LongText = 1023
    ListMax = 2
    BlobMax = 3
    MaxChunksPerFrame = 3
    MaxFrameBytes = 8
    MaxImageBytes = 4
    MaxTcpFrame = 3
    MaxTcpFrames = 3
    Window = 4
    Block = 2
    MaxCounter = 10
VIEW Running
SPECIFICATION ClientSideSpec
CHECK_DEADLOCK FALSE
INVARIANTS
    
    
    AgentServerSafe
    TransportSafe
    LossIsExact
    
    NonceNeverReused
    NoReplay
PROPERTY
    ImplementsContract
