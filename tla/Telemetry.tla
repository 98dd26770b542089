----------------------------- MODULE Telemetry -----------------------------
(***************************************************************************)
(* websocket.py: the consumer of the telemetry stream, which broadcasts    *)
(* every event to a list of WebSocket connections that changes while it is *)
(* iterated; and its start and end in main.py.                             *)
(*                                                                         *)
(* The events of the stream are numbered in the order of their ids; they   *)
(* are published by the transactions of Quarantine, at any time.  The      *)
(* consumer is suspended in xread, in one send or in its pause after an    *)
(* error; what it does from one await to the next is one action, and so is *)
(* what a handler does between two awaits.                                 *)
(*                                                                         *)
(* Connections are numbered in the order in which they are accepted, and   *)
(* one that comes back is another one.  The list active_connections only   *)
(* grows at its end, so it is the set of its members in numeric order, and *)
(* the position of a member is its rank.                                   *)
(***************************************************************************)
EXTENDS Naturals, Sequences, FiniteSets

CONSTANTS
    MaxClients,  \* bound on the number of connections
    MaxEvents,   \* bound on the number of events
    Count        \* events of one xread, 10 in the source

ASSUME TelemetryAssumption ==
    MaxClients \in Nat /\ MaxEvents \in Nat /\ Count \in Nat \ {0}

Clients == 1 .. MaxClients

VARIABLES
    stream,    \* number of events in stream:telemetry_events
    active,    \* the members of manager.active_connections
    conn,      \* conn[c]: "new", "open", "closed" by its peer, or "gone"
    got,       \* got[c]: the events that c has received, in order
    consumer,  \* the background task
    server     \* "up", "draining", "cancelling", "closing" or "down"

vars == <<stream, active, conn, got, consumer, server>>

\* The consumer has read up to event `upto`.  While it broadcasts `last`, it
\* sends to `to`, the element at index `pos` when the iterator came to it.
Sending == [pc : {"send"}, last : 1 .. MaxEvents, upto : 1 .. MaxEvents,
            pos : Nat \ {0}, to : Clients, dead : SUBSET Clients]

NotSending == [pc : {"read", "pause", "stopped"}, last : 0 .. MaxEvents]

Reading(last) == [pc |-> "read", last |-> last]

Init ==
    /\ stream = 0
    /\ active = {}
    /\ conn = [c \in Clients |-> "new"]
    /\ got = [c \in Clients |-> <<>>]
    /\ consumer = Reading(0)      \* last_id = "0-0"
    /\ server = "up"

-----------------------------------------------------------------------------
(* Redis and the clients.                                                  *)

\* The xadd of execute_quarantine.  The stream outlives the process, and nothing
\* trims it.
Publish ==
    /\ stream < MaxEvents
    /\ stream' = stream + 1
    /\ UNCHANGED <<active, conn, got, consumer, server>>

\* The peer closes, or answers no ping for as long as the server waits.
PeerCloses(c) ==
    /\ conn[c] = "open"
    /\ conn' = [conn EXCEPT ![c] = "closed"]
    /\ UNCHANGED <<stream, active, got, consumer, server>>

-----------------------------------------------------------------------------
(* ConnectionManager and the endpoint.                                     *)

\* Accepted, appended and greeted.  The lock is never held across an await,
\* and the greeting is written before anything else can be.
Connect(c) ==
    /\ server = "up"
    /\ conn[c] = "new"
    /\ \A d \in 1 .. c - 1 : conn[d] # "new"
    /\ conn' = [conn EXCEPT ![c] = "open"]
    /\ active' = active \cup {c}
    /\ UNCHANGED <<stream, got, consumer, server>>

\* Faulty variant: the connection that has ended stays on the list.
DisconnectKeepsListed(c) ==
    /\ conn[c] = "closed"
    /\ conn' = [conn EXCEPT ![c] = "gone"]
    /\ UNCHANGED <<stream, active, got, consumer, server>>

\* receive_text raises: the endpoint takes the connection off the list,
\* whether or not a broadcast is on its way through it.
Disconnect(c) ==
    /\ conn[c] = "closed"
    /\ conn' = [conn EXCEPT ![c] = "gone"]
    /\ active' = active \ {c}
    /\ UNCHANGED <<stream, got, consumer, server>>

-----------------------------------------------------------------------------
(* The consumer.                                                           *)

\* The index of a connection in a list, from 1.
Index(list, c) == Cardinality({d \in list : d <= c})

\* Nothing resumes a cancelled task but its cancellation.
At(pc) == consumer.pc = pc /\ server # "cancelling"

\* The consumer turns to the event after `last`, up to `upto`; with an empty
\* list broadcast returns at once, for the rest of the batch.
NextEvent(last, upto, list) ==
    IF last = upto \/ list = {}
    THEN consumer' = Reading(upto)
    ELSE \E c \in list :
            /\ Index(list, c) = 1
            /\ consumer' = [pc |-> "send", last |-> last + 1, upto |-> upto,
                            pos |-> 1, to |-> c, dead |-> {}]

\* Faulty variant: every read starts from the beginning of the stream.
ReadAnew ==
    /\ At("read")
    /\ consumer.last < stream
    /\ \E upto \in 1 .. stream : NextEvent(0, upto, active)
    /\ UNCHANGED <<stream, active, conn, got, server>>

\* xread answers up to Count events after `last`.
Read ==
    /\ At("read")
    /\ consumer.last < stream
    /\ \E upto \in consumer.last + 1 .. stream :
          /\ upto = stream \/ upto = consumer.last + Count
          /\ upto <= consumer.last + Count
          /\ NextEvent(consumer.last, upto, active)
    /\ UNCHANGED <<stream, active, conn, got, server>>

\* Faulty variant: an error of Redis ends the consumer.
ReadFailsForGood ==
    /\ At("read")
    /\ consumer' = [consumer EXCEPT !.pc = "stopped"]
    /\ UNCHANGED <<stream, active, conn, got, server>>

\* xread raises; the consumer sleeps for a second and tries again.
ReadFails ==
    /\ At("read")
    /\ consumer' = [consumer EXCEPT !.pc = "pause"]
    /\ UNCHANGED <<stream, active, conn, got, server>>

Wake ==
    /\ At("pause")
    /\ consumer' = [consumer EXCEPT !.pc = "read"]
    /\ UNCHANGED <<stream, active, conn, got, server>>

\* Faulty variant: dead connections are taken off the list while it is
\* iterated.
ContinueRemoving(dead) ==
    LET k == consumer
        list == active \ dead
    IN  /\ active' = list
        /\ IF k.pos < Cardinality(list)
           THEN \E c \in list :
                   /\ Index(list, c) = k.pos + 1
                   /\ consumer' = [k EXCEPT !.pos = @ + 1, !.to = c, !.dead = dead]
           ELSE NextEvent(k.last, k.upto, list)

\* The send has been answered.  The iterator knows only its index in the list;
\* behind the last element the dead connections are taken off, and the next
\* event begins.
Continue(dead) ==
    LET k == consumer IN
    IF k.pos < Cardinality(active)
    THEN \E c \in active :
            /\ Index(active, c) = k.pos + 1
            /\ consumer' = [k EXCEPT !.pos = @ + 1, !.to = c, !.dead = dead]
            /\ UNCHANGED active
    ELSE /\ active' = active \ dead
         /\ NextEvent(k.last, k.upto, active \ dead)

\* send_json to an open connection.
Send ==
    /\ At("send")
    /\ conn[consumer.to] = "open"
    /\ got' = [got EXCEPT ![consumer.to] = Append(@, consumer.last)]
    /\ Continue(consumer.dead)
    /\ UNCHANGED <<stream, conn, server>>

\* send_json to a connection whose peer has gone: it raises, or the bytes are
\* dropped without a word.
SendToClosed ==
    /\ At("send")
    /\ conn[consumer.to] # "open"
    /\ \/ Continue(consumer.dead \cup {consumer.to})
       \/ Continue(consumer.dead)
    /\ UNCHANGED <<stream, conn, got, server>>

\* Faulty variant: the cancellation is handled like any other exception.
StopSwallowed ==
    /\ server = "cancelling"
    /\ consumer.pc # "stopped"
    /\ consumer' = [pc |-> "pause", last |-> consumer.last]
    /\ UNCHANGED <<stream, active, conn, got, server>>

\* The CancelledError ends the task wherever it is suspended: no handler on the
\* way takes it for an error, and a broadcast is left where it is.
Stop ==
    /\ server = "cancelling"
    /\ consumer.pc # "stopped"
    /\ consumer' = [pc |-> "stopped", last |-> consumer.last]
    /\ UNCHANGED <<stream, active, conn, got, server>>

-----------------------------------------------------------------------------
(* The process.                                                            *)

\* uvicorn accepts nothing more and closes every connection.
Drain ==
    /\ server = "up"
    /\ server' = "draining"
    /\ conn' = [c \in Clients |-> IF conn[c] = "open" THEN "closed" ELSE conn[c]]
    /\ UNCHANGED <<stream, active, got, consumer>>

\* on_shutdown, once every endpoint has returned: the consumer is cancelled.
Shutdown ==
    /\ server = "draining"
    /\ \A c \in Clients : conn[c] \in {"new", "gone"}
    /\ server' = "cancelling"
    /\ UNCHANGED <<stream, active, conn, got, consumer>>

\* It is awaited; then the Redis pool and the engine are closed.
ClosePools ==
    /\ server = "cancelling"
    /\ consumer.pc = "stopped"
    /\ server' = "closing"
    /\ UNCHANGED <<stream, active, conn, got, consumer>>

\* The process exits, or dies at any point.
Exit ==
    /\ server # "down"
    /\ server' = "down"
    /\ conn' = [c \in Clients |-> IF conn[c] = "new" THEN "new" ELSE "gone"]
    /\ active' = {}
    /\ consumer' = [pc |-> "stopped", last |-> 0]
    /\ UNCHANGED <<stream, got>>

\* A new process reads the stream from its beginning.
Restart ==
    /\ server = "down"
    /\ server' = "up"
    /\ consumer' = Reading(0)
    /\ UNCHANGED <<stream, active, conn, got>>

-----------------------------------------------------------------------------

Next ==
    \/ Publish
    \/ \E c \in Clients : Connect(c) \/ PeerCloses(c) \/ Disconnect(c)
    \/ Read \/ ReadFails \/ Wake \/ Send \/ SendToClosed \/ Stop
    \/ Drain \/ Shutdown \/ ClosePools \/ Exit \/ Restart

Spec == Init /\ [][Next]_vars

\* The event loop resumes whatever can go on; a send ends, since a peer that
\* answers no ping is closed; Redis may fail again and again, but not always.
Fairness ==
    /\ \A c \in Clients : WF_vars(Disconnect(c))
    /\ WF_vars(Send \/ SendToClosed \/ Wake)
    /\ SF_vars(Read)
    /\ WF_vars(Stop) /\ WF_vars(Shutdown) /\ WF_vars(ClosePools)

FairSpec == Spec /\ Fairness

-----------------------------------------------------------------------------

\* Types.  A listed connection is one that was accepted and whose endpoint has
\* not returned.
TypeOK ==
    /\ stream \in 0 .. MaxEvents
    /\ conn \in [Clients -> {"new", "open", "closed", "gone"}]
    /\ active \in SUBSET {c \in Clients : conn[c] \in {"open", "closed"}}
    /\ got \in [Clients -> Seq(1 .. MaxEvents)]
    /\ consumer \in Sending \cup NotSending
    /\ server \in {"up", "draining", "cancelling", "closing", "down"}

\* What one connection receives is in the order of the stream and without
\* repetition, although the list moves under the iterator and the consumer
\* starts again from the beginning of the stream with every process.
InOrderOnce ==
    \A c \in Clients : \A i, j \in DOMAIN got[c] : i < j => got[c][i] < got[c][j]

\* What connections have missed: events between the first and the last that
\* they have received, and that they have not.
Missed ==
    {x \in Clients \X (1 .. MaxEvents) :
        LET s == got[x[1]]
        IN  /\ s # <<>>
            /\ s[1] < x[2] /\ x[2] < s[Len(s)]
            /\ \A i \in DOMAIN s : s[i] # x[2]}

\* The list is iterated while members leave it, but a connection that leaves
\* costs the others one event at most, all of them together; errors of Redis,
\* dead connections and new ones cost nothing.
MissedByDepartures ==
    Cardinality(Missed) <= Cardinality({c \in Clients : conn[c] = "gone"})

\* Errors of Redis and dead connections never keep the consumer from going on:
\* while the server runs, it comes to every event.
EventsConsumed ==
    \A n \in 1 .. MaxEvents :
        (server = "up" /\ stream >= n) ~> (consumer.last >= n \/ server # "up")

\* A shutdown comes to its end, wherever the consumer was.
ShutdownEnds == server = "draining" ~> server \in {"closing", "down"}

-----------------------------------------------------------------------------
(* What the source says of itself and the code does not do.                *)

\* "Send message to all connected clients": an open connection misses nothing.
ReachesAllConnected == \A x \in Missed : conn[x[1]] # "open"
=============================================================================
