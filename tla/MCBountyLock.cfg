CONSTANTS
    Players = {p1, p2}
    Names = {n1}
    Structs = {s1}
    Modes = {"normal", "owner"}
    Maps = {lair, away}
    Lair = lair
    Things = 1
    Coins = 1
    MaxArrows = 0
    MaxViewers = 1
    Gain = 11
    Levels = {0, 1}
    Limit <- LimitAt
    NULL = NULL
SPECIFICATION GameSpec
SYMMETRY Symmetry
CHECK_DEADLOCK FALSE
PROPERTY LockExpires
