SPECIFICATION Spec
CONSTANTS
    MaxFrame = 3
    Rates <- TwoRates
    StartRate = 1
    MaxAsks = 2
    Capacity = 2
CHECK_DEADLOCK FALSE
INVARIANTS
    AnnouncedSlotIsHeard
