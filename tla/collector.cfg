SPECIFICATION AllSpec
CONSTANTS
    x1 = x1
    x2 = x2
    e1 = e1
    e2 = e2
    r1 = r1
    r2 = r2
    p1 = p1
    p2 = p2
    p3 = p3
    w1 = w1
    w2 = w2
    d1 = d1
    d2 = d2
    Telemetry = Telemetry
    Extensions <- TwoExtensions
    Watchers <- OneExtension
    Exporters <- TwoExporters
    Receivers <- TwoReceivers
    Pipelines <- TwoPipelines
    InputType <- SharedInputType
    ReceiversOf <- SharedReceiversOf
    Processors <- SharedProcessors
    ExportersOf <- SharedExportersOf
    Reporters <- SomeReporters
    ReportInStart <- HealthCheck
    Limiters = {p1}
    AllocLimit = 2
    SpikeLimit = 1
    Ballast = 1
    Word = 8
    AllocLevels = {1, 2, 4}
    Branches = {p1, p2, p3}
    Order <- FanOutOrder
    Declares = {p2}
    Modifies = {p2}
    Workers = {w1}
    Payloads = {d1}
    Items = {1, 2}
    QueueSize = 1
    Retry = FALSE
    DataType = "traces"
INVARIANT UsedIsRunning
INVARIANT StatesAreTrue
INVARIANT Isolated
INVARIANT ItemsAccounted
PROPERTY ImplementsFate
PROPERTY StopsComplete
CHECK_DEADLOCK FALSE
