SPECIFICATION TableSpec
CONSTANTS
    Order = 3
    HopRange = 2
    k1 = k1  k2 = k2  k3 = k3  k4 = k4  k5 = k5  k6 = k6
    Keys <- SixKeys
    Values = {val1, val2}
    Hash <- Cluster
    INVALIDENTRY = INVALIDENTRY
    NoValue = NoValue
INVARIANT TableSound
PROPERTY ImplementsMap
