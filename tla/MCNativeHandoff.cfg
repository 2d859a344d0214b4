SPECIFICATION FairSpec
CONSTANTS
    MaxFrame = 2
    Rates <- TwoRates
    StartRate = 1
    MaxAsks = 2
    Capacity = 2
CHECK_DEADLOCK FALSE
INVARIANTS
    NothingAskedIsLost
PROPERTIES
    AudioAnnouncedOnce
    NewestFrameIsEncoded
    OneEndsAll
