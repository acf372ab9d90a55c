------------------------- MODULE OpenCensusReceiver -------------------------
(***************************************************************************)
(* receiver/opencensusreceiver, octrace and ocmetrics: Export, the handler *)
(* of a stream, at the other end of the streams of the exporter.  A        *)
(* message without node or resource has those of the messages before it on *)
(* the stream, and pushes that have nothing to do with one another share a *)
(* stream.  Traces and metrics have the same code; this is either.         *)
(***************************************************************************)
EXTENDS OpenCensusExporter

VARIABLES
    handler,  \* handler[s]: where Export is, lastNonNilNode, resource, messages read
    passedOn  \* passedOn[s]: what the handler of s gave to nextConsumer

receiverVars == <<handler, passedOn>>
streamVars == <<clients, push, open, stop, sentOn, handler, passedOn>>

ReceiverInit ==
    /\ ClientInit
    /\ handler = [s \in Pushes |-> [at |-> "first", node |-> Nil, resource |-> Nil, read |-> 0]]
    /\ passedOn = [s \in Pushes |-> <<>>]

Unread(s) == handler[s].read < Len(sentOn[s])

\* Recv of the first message, which must have a node.
CheckFirst(s) ==
    /\ handler[s].at = "first" /\ Unread(s)
    /\ handler' = [handler EXCEPT ![s].at = IF sentOn[s][1].node = Nil THEN "returned" ELSE "process"]
    /\ passedOn' = passedOn
    /\ UNCHANGED clientVars

\* The node and the resource of message m on stream s.
Latest(s, m) ==
    [node |-> IF m.node # Nil THEN m.node ELSE handler[s].node,
     resource |-> IF m.resource # Nil THEN m.resource ELSE handler[s].resource]

\* processReceivedMsg and sendToNextConsumer, which passes on what is not empty; an error
\* of nextConsumer ends the stream.
Process(s) ==
    /\ handler[s].at = "process" /\ Unread(s)
    /\ LET m == sentOn[s][handler[s].read + 1]
           l == Latest(s, m)
       IN  \E ok \in BOOLEAN :
             /\ m.spans = 0 => ok
             /\ handler' = [handler EXCEPT ![s] = [at |-> IF ok THEN "process" ELSE "returned",
                                                   node |-> l.node, resource |-> l.resource,
                                                   read |-> @.read + 1]]
             /\ passedOn' = IF m.spans > 0 /\ ok
                            THEN [passedOn EXCEPT ![s] = Append(@, [push |-> m.push, number |-> m.number,
                                                      node |-> l.node, resource |-> l.resource])]
                            ELSE passedOn
    /\ UNCHANGED clientVars

\* Recv fails: the stream was cancelled, or the connection closed, messages in flight lost.
StreamEnds(s) ==
    /\ handler[s].at \in {"first", "process"}
    /\ s \notin open
    /\ push[s].at \notin {"idle", "take", "open"}
    /\ handler' = [handler EXCEPT ![s].at = "returned"]
    /\ passedOn' = passedOn
    /\ UNCHANGED clientVars

ReceiverNext ==
    \/ ClientNext /\ UNCHANGED receiverVars
    \/ \E s \in Pushes : CheckFirst(s) \/ Process(s) \/ StreamEnds(s)

ReceiverSpec == ReceiverInit /\ [][ReceiverNext]_streamVars

-----------------------------------------------------------------------------

OrEmpty(x) == IF x = Nil THEN Empty ELSE x

\* Whatever pushes used the stream before, what the receiver passes on has the node and
\* the resource it had at the exporter; nothing is passed on twice.
OwnResource ==
    \A s \in Pushes : \A i \in DOMAIN passedOn[s] :
        LET r == passedOn[s][i]
            m == Payload[r.push][r.number]
        IN  /\ r.node = OrEmpty(m.node) /\ r.resource = OrEmpty(m.resource)
            /\ \A k \in 1..(i - 1) : passedOn[s][k] # r

\* Pushes that share streams do not get into each other's way: the pool keeps its size, the
\* messages of a push follow each other on one stream, and at its end have their own node
\* and resource.
StreamsShared == PoolConstant /\ SentTogether /\ OwnResource
=============================================================================
