\* Two workers, over HTTP or on the database, one job of two stages, a death and a lost message.
CONSTANTS
    w1 = w1
    w2 = w2
    Jobs = {1}
    Workers = {w1, w2}
    NoWorker = NoWorker
    MaxAttempts = 2
    StageCount = 2
    Deployments <- EitherWay
    MaxCrashes = 1
    MaxLost = 1
SPECIFICATION FairSpec
INVARIANTS ReceiptIsTheResult EpochsCountExecutions ToldIsTrue
PROPERTIES LateWritesChangeNothing EveryJobSettles
CHECK_DEADLOCK FALSE
