CONSTANTS
    NoMessage = NoMessage
    NoPipe = NoPipe
    INVALID_HANDLE_VALUE = INVALID_HANDLE_VALUE
    h1 = h1
    h2 = h2
    PipeNames <- TwoPipes
    Handles <- TwoHandles
    Messages <- PipeMessages
    MaxSeq = 2
    CapMin = 1
    CapMax = 2
    CapDefault = 2
    GenMax = 2
    ChunkMax = 2
SYMMETRY HandleSymmetry
SPECIFICATION ClientSpec
INVARIANTS
    ClientTypeOK
    HandleOwned
    StopQuiesces
    NoGlue
    OldPipeOnlyIfRaced
PROPERTY
    ImplementsQueue
CHECK_DEADLOCK FALSE
