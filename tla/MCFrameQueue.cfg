CONSTANTS
    Ring = 5
    Capacity = 2
    Epoch = 10
    Window = 3
    MaxAir = 2
    None = None
SPECIFICATION FairSpec
CHECK_DEADLOCK FALSE
INVARIANTS
    QueueInvariant
PROPERTIES
    HandedIsDecodable
    HandedInOrder
    AsksOncePerRecovery
    DecoderNeverStuck
