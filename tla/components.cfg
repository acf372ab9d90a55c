SPECIFICATION AllSpec
CONSTANTS
    Partitions = {1}
    MaxOffset = 2
    MaxStarts = 2
    Inputs <- MCInputs
    OpenCensus = FALSE
    Pipelines = 3
    Include <- MCInclude
    Exclude <- MCExclude
    CacheSize = 2
    MaxRounds = 2
    Keys = {"a", "b"}
    Bytes <- MCBytes
    NoBytes = ""
    Sha1 <- MCSha1
    Configured <- MCConfigured
    Lists <- MCLists
    Contents <- MCContents
    Pushes = {"a", "b", "c"}
    NumWorkers = 2
    Names = {"nil", "empty", "n1", "n2", "r1", "r3"}
    Payload <- MCPayload
    Connections = {1, 2}
    MaxEvents = 2
    ChannelLength = 1
    MaxProcesses = 3
INVARIANT OffsetsRight
INVARIANT FilteredRight
 
INVARIANT StreamsShared
INVARIANT AckedIsKept
INVARIANT OneProcess
PROPERTY AdjustedRight
PROPERTY ComponentsMove
CHECK_DEADLOCK FALSE
