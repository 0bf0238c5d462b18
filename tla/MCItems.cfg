CONSTANTS
    Players = {p1, p2, p3}
    Containers = {bag, box}
    Piles = {o1, o2}
    Squares = {home, away}
    Home = home
    Magical = {bag}
    Trapped = {box}
    Limit <- LimitOfBag
    CanCarry = 4
    MaxUnits = 3
    IntMax = 3
    MaxCount = 4
    NULL = NULL
SPECIFICATION Spec
SYMMETRY Symmetry
INVARIANTS
    TypeOK
    NothingInItself
    WeightsRight
    ViewersAgree

    
