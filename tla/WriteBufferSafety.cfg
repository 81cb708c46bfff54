SPECIFICATION WriteSpec
CONSTANTS
    WriteBufferSize = 5
    IoVecs <- SomeIoVecs
    MaxMessages = 4
    MaxWriteErrors = 1
CHECK_DEADLOCK FALSE
INVARIANT StreamInOrder
INVARIANT WaitingBytesWakeUp
