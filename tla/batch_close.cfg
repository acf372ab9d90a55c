SPECIFICATION Spec
CONSTANTS
    c1 = c1
    c2 = c2
    c3 = c3
    c4 = c4
    Calls <- TwoCalls
    SpanCount <- TwoSizes
    SendBatchSize = 2
    SendBatchMaxSize = 2
    ChannelSize = 1
INVARIANT ShutdownFlushes
CHECK_DEADLOCK FALSE
