CONSTANTS
    a = a
    b = b
    NoStream = NoStream
    NoAnchor = NoAnchor
    Streams <- TwoStreams
    Frames <- FrameStreamFrames
    MaxSeq = 1
    MaxT = 2
    MaxRoi = 1
    QpcMax = 3
    Timeouts = {0, 3}
    TimeoutMax = 2
    TimeoutDefault = 2
    Warmups = {0, 3}
    WarmupMin = 1
    WarmupMax = 2
    WarmupDefault = 2
    AnchorCap = 2
SYMMETRY StreamSymmetry
SPECIFICATION Spec
INVARIANTS
    AnchorsMatchMode
    MismatchStaysEmpty
    IInv
PROPERTIES
    FrameStreamShowsSentRoi
    ImplementsPolicy
CHECK_DEADLOCK FALSE
