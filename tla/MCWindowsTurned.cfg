CONSTANTS
    DeskModes = {"landscape", "portrait"}
    StartMode = "landscape"
    Nv12Len <- MCSameLengths
    AbortThreshold = 1
    PoolSize = 2
    Depth = 1
    MaxCaptures = 1
    MaxDisturbances = 2
SPECIFICATION MediaSpec
CHECK_DEADLOCK FALSE
INVARIANT
    EncodedInItsMode
