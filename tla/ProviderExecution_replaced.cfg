SPECIFICATION Spec
SYMMETRY Interchangeable
CONSTANTS
    Attempts = {1, 2}
    Initial = {1}
    f1 = f1
    f2 = f2
    Features = {f1}
    FeatureOf <- OneFeature
    Workers = {w1, w2}
    NoWorker = NoWorker
    MaxClaims = 1
    MaxCrashes = 1
    KnownOutcomes = {"succeeded"}
    Expiring = {}
    Recovered = {1}
INVARIANTS
    TypeOK
    OneProcess
    OpenForOne
    RefusedIsFinal
PROPERTIES
    KnownIsKept
CHECK_DEADLOCK FALSE
