SPECIFICATION Spec
CONSTANTS
    admin = admin
    bob = bob
    BOB = BOB
    g1 = g1
    g2 = g2
    g3 = g3
    Peers = {p1}
    Users = {admin, bob}
    Names = {admin, bob, BOB}
    Entry <- EntryOf
    Admins = {admin}
    ReadOnly = {}
    Passwords = {1, 2}
    GroupLists <- SmallGroupLists
    Order <- FileOrder
    GroupBits = 2
    FileSize = 3
    Place <- Places
    MaxChanges = 2
    MaxFailures = 2
    MaxExits = 2
    NoName = NoName
    NoPassword = NoPassword
CHECK_DEADLOCK FALSE
INVARIANT MemoryMatchesFile
INVARIANT NoOldPassword
INVARIANT AccessByName
