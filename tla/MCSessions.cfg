SPECIFICATION FairSpec
CONSTANTS
    Sockets = {s1, s2}
    Names = {n1, n2}
    NULL = NULL
    ZombieTicks = 1
    KeepaliveTimeout = 1
    MaxQueue = 1
INVARIANTS
    TypeOK
    OneList
    UniqueName
    NoRollback
PROPERTIES
    NoResurrection
    GivenUpFreed
    SilentPlayerLeaves
