CONSTANTS
    NoMessage = NoMessage
    Messages <- SomeMessages
    MaxStream = 2
    MaxEpoch = 2
    MaxSeq = 2
    CapMin = 1
    CapMax = 3
    CapDefault = 2
    GenMax = 5
SPECIFICATION QueueSpec
INVARIANTS
    QueueTypeOK
    GenerationsContiguous
    ConsumedIsOlder
    FramesAccounted
    OneEpochQueued
    NeighboursInOrder
PROPERTY
    ImplementsDropOldest
CHECK_DEADLOCK FALSE
