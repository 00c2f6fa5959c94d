\* The family fund: two calls on two keys, in one or in two overlapping processes, one recovery
\* worker, a row by hand.  The duplicate gate: three calls on three keys, two checks, a row by hand.
CONSTANTS
    k1 = k1
    k2 = k2
    k3 = k3
    c1 = c1
    c2 = c2
    r1 = r1
    g1 = g1
    g2 = g2
    g3 = g3
    h1 = h1
    Keys = {k1, k2}
    Calls = {c1, c2}
    Recoverers = {r1}
    NoOwner = NoOwner
    Ask <- MCAsk
    InitialBalance = 1
    MaxHandRows = 1
    Overlaps = {TRUE, FALSE}
    GateKeys = {k1, k2, k3}
    Entry <- MCEntry
    GateCalls = {g1, g2, g3}
    MaxChecks = 2
    HandRows = {h1}
    NoCheck = NoCheck
SPECIFICATION MCSpec
SYMMETRY Interchangeable
INVARIANTS OneOpenRecharge SuccessLandedOnPlan MismatchIsRealInOneProcess
    NoSelfDuplicate AskedBeforeRepeating
CHECK_DEADLOCK FALSE
