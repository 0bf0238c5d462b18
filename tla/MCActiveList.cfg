SPECIFICATION FairSpec
CONSTANTS
    Slots = {o1, o2}
    Marker = marker
    NULL = NULL
    MaxTag = 4
INVARIANTS
    TypeOK
    ListWellFormed
    OnlyVisitedTouched
PROPERTIES
    ActiveListed
    TurnsSpec
    PassEnds
    ActiveVisited
