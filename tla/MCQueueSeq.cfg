CONSTANTS
    NoMessage = NoMessage
    Messages <- SomeMessages
    MaxStream = 2
    MaxEpoch = 1
    MaxSeq = 2
    CapMin = 1
    CapMax = 3
    CapDefault = 3
    GenMax = 3
SPECIFICATION QueueSpec
INVARIANT SeqMonotonePerStream
CHECK_DEADLOCK FALSE
