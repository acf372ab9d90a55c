---------------------------- MODULE FluentForward ----------------------------
(***************************************************************************)
(* receiver/fluentforwardreceiver: a goroutine per connection decodes      *)
(* events and sends them to a channel; after that it acknowledges those    *)
(* that carry a chunk id.  The collector goroutine takes what is in the    *)
(* channel and passes it on in one go.  Shutdown cancels the context and   *)
(* waits for nobody.                                                       *)
(*                                                                         *)
(* An event is <<c, n>>, the n-th of connection c; all carry a chunk id.   *)
(***************************************************************************)
EXTENDS Naturals, Sequences, FiniteSets

CONSTANTS
    Connections,
    MaxEvents,     \* bound: events of a connection
    ChannelLength  \* eventChannelLength

ASSUME ForwardAssumption == MaxEvents \in Nat /\ ChannelLength \in Nat

Events == Connections \X (1..MaxEvents)

VARIABLES
    accepting,  \* the accept loop runs
    conn,       \* conn[c]: where the goroutine of c is, and the events it has read
    eventCh,
    collector,  \* where the collector is, and buffered
    forwarded,  \* events given to nextConsumer, in order
    acked,      \* acknowledged events
    ended       \* Shutdown has cancelled the context

forwardVars == <<accepting, conn, eventCh, collector, forwarded, acked, ended>>

ForwardInit ==
    /\ accepting = TRUE
    /\ conn = [c \in Connections |-> [at |-> "new", read |-> 0]]
    /\ eventCh = <<>>
    /\ collector = [at |-> "select", buffered |-> <<>>]
    /\ forwarded = <<>>
    /\ acked = {}
    /\ ended = FALSE

\* Accept returns: only then the loop looks at the context.
Accept(c) ==
    /\ accepting /\ conn[c].at = "new"
    /\ accepting' = ~ended
    /\ conn' = IF ended THEN conn ELSE [conn EXCEPT ![c].at = "read"]
    /\ UNCHANGED <<eventCh, collector, forwarded, acked, ended>>

\* An event is decoded, or the connection ends or sends something else.
Decode(c) ==
    /\ conn[c].at = "read"
    /\ \/ /\ conn[c].read < MaxEvents
          /\ conn' = [conn EXCEPT ![c] = [at |-> "put", read |-> @.read + 1]]
       \/ conn' = [conn EXCEPT ![c].at = "closed"]
    /\ UNCHANGED <<accepting, eventCh, collector, forwarded, acked, ended>>

\* Mutant: the event is acknowledged first.
PutAfterAck(c) ==
    /\ conn[c].at = "put"
    /\ acked' = acked \cup {<<c, conn[c].read>>}
    /\ conn' = [conn EXCEPT ![c].at = "ack"]
    /\ UNCHANGED <<accepting, eventCh, collector, forwarded, ended>>

\* s.outCh <- event; waits while the channel is full.
Put(c) ==
    /\ conn[c].at = "put"
    /\ Len(eventCh) < ChannelLength
    /\ eventCh' = Append(eventCh, <<c, conn[c].read>>)
    /\ conn' = [conn EXCEPT ![c].at = "ack"]
    /\ UNCHANGED <<accepting, collector, forwarded, acked, ended>>

\* The acknowledgement is written, or cannot be.
Acknowledge(c) ==
    /\ conn[c].at = "ack"
    /\ \/ /\ acked' = acked \cup {<<c, conn[c].read>>}
          /\ conn' = [conn EXCEPT ![c].at = "read"]
       \/ /\ acked' = acked
          /\ conn' = [conn EXCEPT ![c].at = "closed"]
    /\ UNCHANGED <<accepting, eventCh, collector, forwarded, ended>>

\* processEvents: the select, with an event ready.
TakeFirst ==
    /\ collector.at = "select" /\ eventCh # <<>>
    /\ collector' = [at |-> "fill", buffered |-> <<Head(eventCh)>>]
    /\ eventCh' = Tail(eventCh)
    /\ UNCHANGED <<accepting, conn, forwarded, acked, ended>>

\* fillBufferUntilChanEmpty, then collectLogRecords and ConsumeLogs, whose error is not
\* looked at.
Fill ==
    /\ collector.at = "fill"
    /\ \/ /\ eventCh # <<>>
          /\ collector' = [collector EXCEPT !.buffered = Append(@, Head(eventCh))]
          /\ eventCh' = Tail(eventCh)
          /\ forwarded' = forwarded
       \/ /\ eventCh = <<>>
          /\ forwarded' = forwarded \o collector.buffered
          /\ collector' = [at |-> "select", buffered |-> <<>>]
          /\ eventCh' = eventCh
    /\ UNCHANGED <<accepting, conn, acked, ended>>

SeeEnded ==
    /\ collector.at = "select" /\ ended
    /\ collector' = [collector EXCEPT !.at = "returned"]
    /\ UNCHANGED <<accepting, conn, eventCh, forwarded, acked, ended>>

EndForward ==
    /\ ~ended
    /\ ended' = TRUE
    /\ UNCHANGED <<accepting, conn, eventCh, collector, forwarded, acked>>

ConnStep(c) == Accept(c) \/ Decode(c) \/ Put(c) \/ Acknowledge(c)
CollectorStep == TakeFirst \/ Fill \/ SeeEnded

ForwardNext == (\E c \in Connections : ConnStep(c)) \/ CollectorStep \/ EndForward

\* The collector's goroutine runs, and so do writers that wait for the channel.
ForwardFairness == WF_forwardVars(CollectorStep) /\ \A c \in Connections : WF_forwardVars(Put(c))

ForwardSpec == ForwardInit /\ [][ForwardNext]_forwardVars

-----------------------------------------------------------------------------

\* Everything that came out of connections, in the order in which it is passed on.
Arrivals == forwarded \o collector.buffered \o eventCh

\* An event is acknowledged only when it is passed on, with the collector or in the channel,
\* whose length is bounded.  Events of a connection are passed on in their order, none twice
\* and none left out, however the connections interleave.
AckedIsKept ==
    /\ \A e \in acked : \E i \in DOMAIN Arrivals : Arrivals[i] = e
    /\ Len(eventCh) <= ChannelLength
    /\ \A i \in DOMAIN Arrivals :
          /\ \A j \in 1..(i - 1) : Arrivals[j] # Arrivals[i]
          /\ Arrivals[i][2] > 1 =>
                \E j \in 1..(i - 1) : Arrivals[j] = <<Arrivals[i][1], Arrivals[i][2] - 1>>

\* An acknowledged event is passed on in the end, unless Shutdown intervenes: then it may
\* stay in the channel, acknowledged and lost.
AckedIsPassedOn ==
    \A e \in Events : e \in acked ~> (ended \/ \E i \in DOMAIN forwarded : forwarded[i] = e)
=============================================================================
