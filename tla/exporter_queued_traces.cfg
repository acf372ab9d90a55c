SPECIFICATION Spec
CONSTANTS
    r1 = r1
    r2 = r2
    r3 = r3
    w1 = w1
    w2 = w2
    Requests <- ThreeRequests
    Items <- TwoItems
    Workers <- TwoWorkers
    QueueEnabled = TRUE
    QueueSize = 2
    RetryEnabled = TRUE
    GivesUp = TRUE
    MaxAttempts = 2
    DataType = "traces"
SYMMETRY Symmetry3
INVARIANT TypeOK
INVARIANT LossIsReported
INVARIANT NoAckedItemResent
INVARIANT OneAttemptAfterStop
INVARIANT NoExportAfterShutdown
INVARIANT HeldOnce
PROPERTY ImplementsFate
CHECK_DEADLOCK FALSE
