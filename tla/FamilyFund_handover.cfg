\* Two processes overlap in a restart: the second call of a key passes its pre-check early.
CONSTANTS
    k1 = k1
    k2 = k2
    c1 = c1
    c2 = c2
    r1 = r1
    Keys = {k1, k2}
    Calls = {c1, c2}
    Recoverers = {r1}
    NoOwner = NoOwner
    Ask <- MCAsk
    InitialBalance = 1
    MaxHandRows = 1
    Overlaps = {TRUE}
SPECIFICATION Spec
SYMMETRY Interchangeable
INVARIANTS MismatchIsReal
CHECK_DEADLOCK FALSE
