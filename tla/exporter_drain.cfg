SPECIFICATION Spec
CONSTANTS
    r1 = r1
    r2 = r2
    r3 = r3
    w1 = w1
    w2 = w2
    Requests <- TwoRequests
    Items <- OneItem
    Workers <- OneWorker
    QueueEnabled = TRUE
    QueueSize = 2
    RetryEnabled = TRUE
    GivesUp = TRUE
    MaxAttempts = 2
    DataType = "traces"
INVARIANT DrainedOnShutdown
CHECK_DEADLOCK FALSE
