CONSTANTS
    Accounts = {a1, a2}
    Clients = {c1, c2}
    Names = {n1, n2}
    Passwords = {p1, p2}
    NULL = NULL
    Blank = Blank
    Torn = Torn
    CharsLimit = 2
    MaxVersion = 1
SPECIFICATION Spec
SYMMETRY Symmetry
INVARIANT TypeOK ListedHaveFile OneOwner
PROPERTY NeverOlder AccountKept
