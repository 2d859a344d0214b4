CONSTANTS
    Pipes = {1, 2, 3}
    None = None
SPECIFICATION FairSpec
CHECK_DEADLOCK FALSE
INVARIANTS
    PipelinesFollowSession
PROPERTIES
    StoppingEnds
    DeadPipelineNoticed
