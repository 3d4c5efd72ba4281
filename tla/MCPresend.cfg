CONSTANTS
    a = a
    b = b
    NoStream = NoStream
    NoAnchor = NoAnchor
    Streams <- TwoStreams
    Frames <- PresendFrames
    MaxSeq = 2
    MaxT = 3
    MaxRoi = 1
    QpcMax = 3
    Timeouts = {2}
    TimeoutMax = 2
    TimeoutDefault = 2
    Warmups = {0, 3}
    WarmupMin = 1
    WarmupMax = 2
    WarmupDefault = 2
    AnchorCap = 2
SYMMETRY StreamSymmetry
SPECIFICATION Spec
INVARIANTS
    TypeOK
    LiveHasAnchor
PROPERTIES
    BlendsNeighbours
    PresendShowsNewestDue
CHECK_DEADLOCK FALSE
