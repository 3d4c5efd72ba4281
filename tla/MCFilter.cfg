CONSTANTS
    a = a
    b = b
    NoStream = NoStream
    NoAnchor = NoAnchor
    NoMessage = NoMessage
    Fails = Fails
    Streams <- TwoStreams
    Frames <- AllFrames
    Messages <- MixedMessages
    EpochOf <- TwoEpochs
    QueueCap = 2
    Offsets = {0, 1}
    StaleDrops = {1}
    WordHalf = 8000
    SecondMs = 1000
    QpcMax = 3
    Timeouts = {1}
    TimeoutMax = 1
    TimeoutDefault = 1
    Warmups = {1}
    WarmupMin = 1
    WarmupMax = 2
    WarmupDefault = 1
    AnchorCap = 2
SPECIFICATION FilterSpec
INVARIANTS
    FilterTypeOK
    ForcedModeHolds
    CropIsApplied
    OffsetHasOneOwner
PROPERTIES
    ConflictFreezesPicture
CHECK_DEADLOCK FALSE
