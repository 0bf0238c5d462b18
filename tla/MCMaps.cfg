CONSTANTS
    Maps = {m1, m2}
    Players = {p1, p2}
    Items = {}
    Vault = m1
    Linked = {{m1, m2}}
    Fixed = {m2}
    Floors = {}
    Forced = {m2}
    Timeout = 2
    ResetTime = 3
    Recycle = FALSE
    NULL = NULL
SPECIFICATION FairSpec
INVARIANT TypeOK PlayersInMemory
PROPERTY NoEarlyReset AbandonedResets
