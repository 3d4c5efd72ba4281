CONSTANTS
    Magic <- TheMagic
    SchemaVersion = 3
    HeaderSize = 5
    MessageSize = 6
    NonFinite = 0
    BufferCap = 9
    ReadMax = 3
    Items <- SomeItems
    MaxItems = 3
SPECIFICATION AssemblerSpec
INVARIANTS
    ChunkingIsIrrelevant
    NothingLost
CHECK_DEADLOCK FALSE
