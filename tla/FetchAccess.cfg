SPECIFICATION Spec
CONSTANTS
    p1 = p1
    p2 = p2
    p3 = p3
    a = a
    b = b
    val1 = val1
    val2 = val2
    id1 = id1
    id2 = id2
    grp = grp
    Method = Method
    Absent = Absent
    NoPeer = NoPeer
    NoElement = NoElement
    NoFetch = NoFetch
    Peers = {p1, p2}
    SocketPeers = {p1}
    Paths = {a}
    Values = {val1, val2}
    FetchIds = {id1, id2}
    MatchSets <- AllOrNone
    Groups = {grp}
    GroupsLoaded = TRUE
    InitialTableSize = 1
    MaxFailures = 1
SYMMETRY DataSymmetry
CHECK_DEADLOCK FALSE
INVARIANT ViewsMirrorElements
INVARIANT ClosedViews
