CONSTANTS
    Pipes = {1}
    None = None
SPECIFICATION FairSpec
CHECK_DEADLOCK FALSE
PROPERTY
    DeadPipelineEndsSession
