\* Two calls of one key, with equal or different bodies, one recovery worker.
CONSTANTS
    k1 = k1
    f1 = f1
    f2 = f2
    c1 = c1
    c2 = c2
    r1 = r1
    Keys = {k1}
    Fingerprints = {f1, f2}
    Calls = {c1, c2}
    Tokens = {c1, c2}
    Recoverers = {r1}
    Owners = {r1}
    NoOwner = NoOwner
    NoToken = NoToken
    NoBody = NoBody
    MaxCrashes = 1
    MaxReconfigs = 1
SPECIFICATION Spec
SYMMETRY Interchangeable
INVARIANTS Bound AtMostOneRecord SucceededIsProven FailedSafeIsSafe ToldIsTrue
PROPERTIES SettledIsFinal ImplementsPromise
CHECK_DEADLOCK FALSE
