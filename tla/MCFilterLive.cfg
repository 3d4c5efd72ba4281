CONSTANTS
    a = a
    b = b
    NoStream = NoStream
    NoAnchor = NoAnchor
    NoMessage = NoMessage
    Fails = Fails
    Streams <- TwoStreams
    Frames <- AllFrames
    Messages <- FewMessages
    EpochOf <- TwoEpochs
    QueueCap = 1
    Offsets = {0, 1}
    StaleDrops = {0}
    WordHalf = 8000
    SecondMs = 1000
    QpcMax = 2
    Timeouts = {1}
    TimeoutMax = 1
    TimeoutDefault = 1
    Warmups = {1}
    WarmupMin = 1
    WarmupMax = 2
    WarmupDefault = 1
    AnchorCap = 2
SPECIFICATION FairFilterSpec
PROPERTIES
    CropResumes
    ConflictEnds
CHECK_DEADLOCK FALSE
