SPECIFICATION Spec
CONSTANTS
    x1 = x1
    x2 = x2
    e1 = e1
    e2 = e2
    r1 = r1
    r2 = r2
    p1 = p1
    p2 = p2
    Telemetry = Telemetry
    Extensions <- OneExtension
    Watchers <- OneExtension
    Exporters <- OneExporter
    Receivers <- OneReceiver
    Pipelines <- OnePipeline
    InputType <- LogsInputType
    ReceiversOf <- OneReceiversOf
    Processors <- OneProcessor
    ExportersOf <- OneExportersOf
    Reporters <- AllReporters
    ReportInStart <- Nobody
INVARIANT ConsumersRunning
CHECK_DEADLOCK FALSE
