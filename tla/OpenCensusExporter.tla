------------------------ MODULE OpenCensusExporter -------------------------
(***************************************************************************)
(* exporter/opencensusexporter: push functions, called by the workers of   *)
(* exporterhelper, share streams to the server.  A channel holds           *)
(* num_workers clients; a client that is nil stands for a stream that is   *)
(* still to be opened.  Shutdown takes all of them out of the channel.     *)
(* Traces and metrics have the same code; this is either.                  *)
(*                                                                         *)
(* A stream is named after the push that opened it.  A message is          *)
(* [node, resource, spans]: what a resource of the payload is translated   *)
(* to (TraceDataToOC; nil for a resource that is nil) and how many spans   *)
(* or metrics it has.                                                      *)
(***************************************************************************)
EXTENDS Naturals, Sequences, FiniteSets

CONSTANTS
    Pushes,      \* calls of the push function
    NumWorkers,  \* num_workers, at least 1
    Names,       \* nodes and resources, nil and the empty one among them
    Payload      \* Payload[p]: the messages of a push, one per resource

Nil == "nil"
Empty == "empty"

Messages == [node : Names, resource : Names, spans : Nat]

ASSUME OpenCensusAssumption ==
    /\ Nil \notin Pushes
    /\ NumWorkers \in Nat \ {0}
    /\ {Nil, Empty} \subseteq Names
    /\ Payload \in [Pushes -> Seq(Messages)]

VARIABLES
    clients,  \* the channel: streams, or Nil
    push,     \* push[p]: where the call is, its client, the messages it has sent
    open,     \* streams that are open
    stop,     \* shutdown: clients taken from the channel, and how far it is
    sentOn    \* sentOn[s]: what was sent on stream s: messages, with push and number

clientVars == <<clients, push, open, stop, sentOn>>

NoPush == [at |-> "idle", client |-> Nil, sent |-> 0]

ClientInit ==
    /\ clients = [i \in 1..NumWorkers |-> Nil]
    /\ push = [p \in Pushes |-> NoPush]
    /\ open = {}
    /\ stop = [at |-> "no", taken |-> 0]
    /\ sentOn = [s \in Pushes |-> <<>>]

PushAt(p, step, client) ==
    push' = [push EXCEPT ![p] = [at |-> step, client |-> client, sent |-> push[p].sent]]

closed == stop.at \in {"closed", "returned"}

Call(p) ==
    /\ push[p].at = "idle"
    /\ PushAt(p, "take", Nil)
    /\ UNCHANGED <<clients, open, stop, sentOn>>

\* The first client of the channel; none if shutdown has closed it.
Take(p) ==
    /\ push[p].at = "take"
    /\ \/ /\ clients # <<>>
          /\ clients' = Tail(clients)
          /\ PushAt(p, IF Head(clients) = Nil THEN "open" ELSE "send", Head(clients))
       \/ /\ clients = <<>> /\ closed
          /\ clients' = clients
          /\ PushAt(p, "stopped", Nil)
    /\ UNCHANGED <<open, stop, sentOn>>

\* create*ServiceRPC.
OpenStream(p) ==
    /\ push[p].at = "open"
    /\ \/ /\ open' = open \cup {p}
          /\ PushAt(p, "send", p)
       \/ /\ open' = open
          /\ PushAt(p, "failed", Nil)
    /\ UNCHANGED <<clients, stop, sentOn>>

NextMessage(p) == Payload[p][push[p].sent + 1]
More(p) == push[p].sent < Len(Payload[p])

\* The request: an empty node or resource in place of nil.
Filled(m, p) ==
    [push |-> p, number |-> push[p].sent + 1,
     node |-> IF m.node = Nil THEN Empty ELSE m.node,
     resource |-> IF m.resource = Nil THEN Empty ELSE m.resource,
     spans |-> m.spans]

SendSucceeds(p) ==
    /\ push[p].at = "send" /\ More(p)
    /\ push[p].client \in open
    /\ sentOn' = [sentOn EXCEPT ![push[p].client] = Append(@, Filled(NextMessage(p), p))]
    /\ push' = [push EXCEPT ![p].sent = @ + 1]
    /\ UNCHANGED <<clients, open, stop>>

\* Mutant: a message that could not be sent is left out.
SendFailsGoesOn(p) ==
    /\ push[p].at = "send" /\ More(p)
    /\ push' = [push EXCEPT ![p].sent = @ + 1]
    /\ UNCHANGED <<clients, open, stop, sentOn>>

\* The stream is cancelled; nil is put back for it.
SendFails(p) ==
    /\ push[p].at = "send" /\ More(p)
    /\ open' = open \ {push[p].client}
    /\ PushAt(p, "failed", Nil)
    /\ UNCHANGED <<clients, stop, sentOn>>

PutBack(p) ==
    /\ \/ push[p].at = "failed"
       \/ push[p].at = "send" /\ ~More(p)
    /\ clients' = Append(clients, push[p].client)
    /\ PushAt(p, IF push[p].at = "failed" THEN "error" ELSE "ok", Nil)
    /\ UNCHANGED <<open, stop, sentOn>>

BeginShutdown ==
    /\ stop.at = "no"
    /\ stop' = [stop EXCEPT !.at = "drain"]
    /\ UNCHANGED <<clients, push, open, sentOn>>

Drain ==
    /\ stop.at = "drain" /\ stop.taken < NumWorkers
    /\ clients # <<>>
    /\ clients' = Tail(clients)
    /\ stop' = [stop EXCEPT !.taken = @ + 1]
    /\ UNCHANGED <<push, open, sentOn>>

CloseChannel ==
    /\ stop.at = "drain" /\ stop.taken = NumWorkers
    /\ stop' = [stop EXCEPT !.at = "closed"]
    /\ UNCHANGED <<clients, push, open, sentOn>>

\* The connection is closed, and with it the streams.
CloseConnection ==
    /\ stop.at = "closed"
    /\ stop' = [stop EXCEPT !.at = "returned"]
    /\ open' = {}
    /\ UNCHANGED <<clients, push, sentOn>>

PushStep(p) == Take(p) \/ OpenStream(p) \/ SendSucceeds(p) \/ SendFails(p) \/ PutBack(p)
ShutdownStep == Drain \/ CloseChannel \/ CloseConnection

ClientNext == (\E p \in Pushes : Call(p) \/ PushStep(p)) \/ BeginShutdown \/ ShutdownStep

\* Opening a stream and sending return; the runtime serves those who wait for the
\* channel in their order.
ClientFairness == (\A p \in Pushes : WF_clientVars(PushStep(p))) /\ WF_clientVars(ShutdownStep)

ClientSpec == ClientInit /\ [][ClientNext]_clientVars

-----------------------------------------------------------------------------

Holding(p) == push[p].at \in {"open", "send", "failed"}

\* The clients in the channel, with the pushes and with shutdown are num_workers at any
\* time, so that no more streams than that are open, whatever fails; and no call puts a
\* client into the channel after it was closed (a panic).
PoolConstant ==
    /\ Len(clients) + Cardinality({p \in Pushes : Holding(p)}) + stop.taken = NumWorkers
    /\ Cardinality(open) <= NumWorkers
    /\ closed => \A p \in Pushes : ~Holding(p)

\* The messages of a push that returned without error are on one stream, all of them, in
\* order and with no message of another push in between.
SentTogether ==
    \A p \in Pushes : push[p].at = "ok" =>
        \E s \in Pushes : \E i \in 0..(Len(sentOn[s]) - Len(Payload[p])) :
            \A k \in 1..Len(Payload[p]) :
                sentOn[s][i + k].push = p /\ sentOn[s][i + k].number = k

\* Every call returns, and so does shutdown, although they wait for one another's
\* clients.
PoolReturns ==
    /\ \A p \in Pushes : push[p].at = "take" ~> push[p].at \in {"ok", "error", "stopped"}
    /\ stop.at = "drain" ~> stop.at = "returned"
=============================================================================
