SPECIFICATION Spec
CONSTANTS
    Users <- AllUsers
    Opcodes = {0, 1, 2, 3, 8, 9, 10, 11}
    Lengths = {0, 1, 2, 3, 125, 126, 70000}
    StatusCodes = {1000, 1004, 1011, 4999, 5000}
    MaxMessageSize = 512
CHECK_DEADLOCK FALSE
INVARIANT PeerOwnsConnection
INVARIANT FaultsExplained
PROPERTY SentInOrder
PROPERTY FramesJudgedRight
PROPERTY ImplementsStream
