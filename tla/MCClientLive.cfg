CONSTANTS
    NoMessage = NoMessage
    NoPipe = NoPipe
    INVALID_HANDLE_VALUE = INVALID_HANDLE_VALUE
    h1 = h1
    h2 = h2
    PipeNames <- TwoPipes
    Handles <- TwoHandles
    Messages <- PipeMessages
    MaxSeq = 1
    CapMin = 1
    CapMax = 1
    CapDefault = 1
    GenMax = 1
    ChunkMax = 1
SPECIFICATION ClientFairSpec
PROPERTIES
    StopTerminates
    Reconnects
CHECK_DEADLOCK FALSE
