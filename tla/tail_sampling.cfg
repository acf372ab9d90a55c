SPECIFICATION FairSpec
CONSTANTS
    c1 = c1
    c2 = c2
    t1 = t1
    t2 = t2
    Calls <- MCCalls
    Traces <- MCTraces
    Payload <- MCPayload
    NumTraces = 1
    NumBatches = 1
    ChannelSize = 1
    Policy <- MCPolicy
    Matching <- MCMatching
    SpansPerSecond = 2
INVARIANT MapSound
INVARIANT SampledWhole
PROPERTY DecidedOnTime
PROPERTY TracesMove
CHECK_DEADLOCK FALSE
