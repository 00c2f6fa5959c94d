\* One remote worker resumes from its own file.
CONSTANTS
    w1 = w1
    w2 = w2
    Jobs = {1}
    Workers = {w1, w2}
    NoWorker = NoWorker
    MaxAttempts = 3
    StageCount = 2
    Deployments <- Remotely
    MaxCrashes = 1
    MaxLost = 1
SPECIFICATION Spec
INVARIANTS AcceptedIsRegistered
CHECK_DEADLOCK FALSE
