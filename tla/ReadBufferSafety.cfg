SPECIFICATION FairSpec
CONSTANTS
    NoReader = NoReader
    BufferSize = 3
    MaxRequest = 4
    MaxStream = 5
    MaxErrors = 1
CHECK_DEADLOCK FALSE
INVARIANT UnreadBytesInOrder
INVARIANT ClosedForAReason
INVARIANT NothingStalls
PROPERTY ArrivedIsRead
