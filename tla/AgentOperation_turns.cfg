\* A Finance write, or a plan of two device actions; or one chat image, with two
\* threads of the API, the cleanup and a death of either process.
CONSTANTS
    write1 = write1
    item1 = item1
    item2 = item2
    FinanceOps = {write1}
    Plan <- MCPlan
    Environments <- Either
    MaxFaults = 2
    MaxCancels = 2
    Images = {m1}
    Requests = {a1, a2}
    Cleaners = {w1}
    NoOne = NoOne
    NoImage = NoImage
    MaxStored = 1
    MaxUnbound = 1
    MaxCalls = 3
    MaxCrashes = 1
SPECIFICATION MCSpec
INVARIANTS TypeOK ClaimsAreTrue ReceiptIsReal CalledOnce PlanIsWhole
    BytesBehindTheRow DeletedHoldsNothing
PROPERTIES KeepsPromise EveryOperationSettles EveryImageSettles
CHECK_DEADLOCK FALSE
