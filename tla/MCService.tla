----------------------------- MODULE MCService -----------------------------
(* Configurations of the collector for checking Service with TLC. *)
EXTENDS Service, TLC

CONSTANTS x1, x2, e1, e2, r1, r2, p1, p2

TwoExtensions == {x1, x2}
OneExtension == {x1}
NoExtension == {}
TwoExporters == {e1, e2}
OneExporter == {e1}
TwoReceivers == {r1, r2}
OneReceiver == {r1}
TwoPipelines == {p1, p2}
OnePipeline == {p1}
Nobody == {}

\* A traces pipeline with two processors and a metrics pipeline with none; they
\* share an exporter and a receiver; r2 is used by one of them only.
SharedInputType == p1 :> "traces" @@ p2 :> "metrics"
SharedReceiversOf == p1 :> {r1} @@ p2 :> {r1, r2}
SharedProcessors == p1 :> 2 @@ p2 :> 0
SharedExportersOf == p1 :> {e1} @@ p2 :> {e1, e2}

\* One pipeline of traces or of logs.
TracesInputType == p1 :> "traces"
LogsInputType == p1 :> "logs"
OneReceiversOf == p1 :> {r1}
OneProcessor == p1 :> 1
OneExportersOf == p1 :> {e1}

\* healthcheckextension.go:46 reports a listen error from inside Start.
HealthCheck == {Extension(x1)}
SomeReporters == {Telemetry, Extension(x1), Receiver(r1)}
AllReporters == Instances \cup {Telemetry}
=============================================================================
