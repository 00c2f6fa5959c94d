\* One attempt whose job two workers claim; one GitHub write, two requests that wake it, a sweep.
SPECIFICATION MCSpec
CONSTANTS
    Attempts = {1}
    Initial = {1}
    f1 = f1
    Features = {f1}
    FeatureOf <- OneFeature
    Workers = {w1, w2}
    NoWorker = NoWorker
    MaxClaims = 2
    MaxCrashes = 1
    KnownOutcomes = {"succeeded", "failed"}
    Expiring = {1}
    Recovered = {1}
    Effects = {e1}
    NoEffect = NoEffect
    Composers = {c1, c2}
    Passes = {p1}
    MaxVersion = 7
    MaxDeaths = 2
INVARIANTS
    LaunchedByGrant
    ReportAgrees
    FiredOnce
    NotExecutedIsTrue
    ReceiptKeepsThePark
PROPERTIES
    EveryGrantEnds
    NoParkRots
CHECK_DEADLOCK FALSE
