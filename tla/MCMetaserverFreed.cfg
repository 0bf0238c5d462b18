SPECIFICATION Spec
CONSTANTS
    Requests = {r1, r2, r3}
    Keys = {k1, k2}
    Absent = Absent
    Empty = Empty
    NULL = NULL
INVARIANT FreedByOne
