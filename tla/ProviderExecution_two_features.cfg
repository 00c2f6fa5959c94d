SPECIFICATION Spec
CONSTANTS
    Attempts = {1, 2}
    Initial = {1, 2}
    f1 = f1
    f2 = f2
    Features = {f1, f2}
    FeatureOf <- TwoFeatures
    Workers = {w1}
    NoWorker = NoWorker
    MaxClaims = 1
    MaxCrashes = 0
    KnownOutcomes = {"succeeded"}
    Expiring = {}
    Recovered = {}
INVARIANT OneProcessPerWorker
CHECK_DEADLOCK FALSE
