CONSTANTS
    Slots = {s1, s2}
    QueueSize = 3
    Tags = {t1, t2}
    NULL = NULL
SPECIFICATION Spec
INVARIANT RequestedWaits
SYMMETRY Symmetry
