SPECIFICATION Spec
CONSTANTS
    t1 = t1
    t2 = t2
    t3 = t3
    b1 = b1
    b2 = b2
    b3 = b3
    b4 = b4
    c1 = c1
    c2 = c2
    c3 = c3
    NoTrace = NoTrace
    Traces <- TwoTraces
    Batches <- ThreeBatches
    Calls <- ThreeCalls
    TraceOf <- AgainTraceOf
    Payload <- AgainPayload
    NumTraces = 2
    BufferSize = 3
INVARIANT StorageLockReleased
CHECK_DEADLOCK FALSE
