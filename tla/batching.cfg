SPECIFICATION AllSpec
CONSTANTS
    c1 = c1
    c2 = c2
    c3 = c3
    c4 = c4
    Calls <- FourCalls
    SpanCount <- MixedSizes
    SendBatchSize = 2
    SendBatchMaxSize = 3
    ChannelSize = 1
    Slices = {1, 2}
    MaxLen = 2
    Contents = {"empty", "set"}
    MaxOps = 4
INVARIANT SpanInOnePlace
INVARIANT BatchesBounded
INVARIANT FlushedButRemainders
INVARIANT SlicesAreValues
PROPERTY BatchesMove
PROPERTY SplitRight
CHECK_DEADLOCK FALSE
