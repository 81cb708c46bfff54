SPECIFICATION FairSpec
CONSTANTS
    p1 = p1
    p2 = p2
    p3 = p3
    a = a
    NoPeer = NoPeer
    NoElement = NoElement
    Peers = {p1, p2}
    WsPeers = {p1}
    Authorized = {p1}
    Paths = {a}
    ElementKinds <- MixedKinds
    MaxRequests = 2
    MaxFailures = 1
    MaxEvents = 1
    TableSize = 1
CHECK_DEADLOCK FALSE
INVARIANT FaultsExplained
PROPERTY RequestsEndAnswered
