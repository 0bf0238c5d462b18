CONSTANTS
    Players = {p1, p2, p3}
    Names = {n1}
    Structs = {s1}
    Modes = {"normal", "leader", "owner", "random", "split"}
    Maps = {lair, away}
    Lair = lair
    Things = 1
    Coins = 2
    MaxArrows = 1
    MaxViewers = 1
    Gain = 11
    Levels = {0, 1}
    Limit <- LimitAt
    NULL = NULL
SPECIFICATION GameSpec
SYMMETRY Symmetry
CHECK_DEADLOCK FALSE
INVARIANTS
    GameType
    PartiesAgree
PROPERTIES
    BountyEarned
    SharedOut
    SplitEvenly
