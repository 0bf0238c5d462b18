CONSTANTS
    Maps = {m1, m2}
    Players = {p1, p2}
    Items = {i1}
    Vault = m1
    Linked = {{m1, m2}}
    Fixed = {}
    Floors = {m1, m2}
    Forced = {}
    Timeout = 2
    ResetTime = 2
    Recycle = TRUE
    NULL = NULL
SPECIFICATION Spec
SYMMETRY Symmetry
INVARIANT UniqueOnce
