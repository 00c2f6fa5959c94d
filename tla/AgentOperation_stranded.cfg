\* A Finance write, with no fault, no cancel and no recovery of the Agent in the way.
CONSTANTS
    write1 = write1
    item1 = item1
    item2 = item2
    FinanceOps = {write1}
    Plan <- MCPlan
    Environments <- Writing
    MaxFaults = 0
    MaxCancels = 0
SPECIFICATION Spec
INVARIANT FailedSafeWroteNothing
CHECK_DEADLOCK FALSE
