SPECIFICATION Spec
CONSTANTS
    p1 = p1
    p2 = p2
    p3 = p3
    a = a
    NoPeer = NoPeer
    NoElement = NoElement
    Peers = {p1, p2, p3}
    WsPeers = {}
    Authorized = {p1, p2, p3}
    Paths = {a}
    ElementKinds <- OpenKinds
    MaxRequests = 2
    MaxFailures = 0
    MaxEvents = 10
    TableSize = 2
SYMMETRY Symmetry
CHECK_DEADLOCK FALSE
PROPERTY OwnerShutdownAnswers
