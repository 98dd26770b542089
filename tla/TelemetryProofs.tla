-------------------------- MODULE TelemetryProofs --------------------------
(***************************************************************************)
(* For any number of connections and events, and any size of a read: types,*)
(* the order of what a connection receives, and what the departure of      *)
(* another can cost it.                                                    *)
(*                                                                         *)
(* The argument for the order: whoever is listed behind the iterator's     *)
(* index has not received the event that is being broadcast.  A removal    *)
(* moves the others to lower indices only, never behind the iterator, and  *)
(* a new connection has received nothing.                                  *)
(***************************************************************************)
EXTENDS Telemetry, FiniteSetTheorems, TLAPS

USE DEF Clients

\* The numbers of s are n at most; they increase.
AtMost(s, n) == \A i \in DOMAIN s : s[i] <= n
Increasing(s) == \A i, j \in DOMAIN s : i < j => s[i] < s[j]

\* Connections are accepted in numeric order, and receive nothing before.
NewLast ==
    /\ \A c, d \in Clients : c < d /\ conn[c] = "new" => conn[d] = "new"
    /\ \A c \in Clients : conn[c] = "new" => got[c] = <<>>

\* A listed connection has received nothing beyond the event at hand.
ListedBehind == \A c \in active : AtMost(got[c], consumer.last)

\* The connection that is sent to, and all that are still to come, lack it.
NextBehind ==
    consumer.pc = "send" =>
        /\ consumer.last <= consumer.upto
        /\ conn[consumer.to] # "new"
        /\ AtMost(got[consumer.to], consumer.last - 1)
        /\ \A c \in active :
              Index(active, c) > consumer.pos =>
                  c # consumer.to /\ AtMost(got[c], consumer.last - 1)

StoppedLast ==
    /\ server = "closing" => consumer.pc = "stopped"
    /\ server = "down" => active = {}

IInv == TypeOK /\ NewLast /\ ListedBehind /\ NextBehind /\ StoppedLast /\ InOrderOnce

-----------------------------------------------------------------------------
(* Indices.                                                                *)

LEMMA IndexNat ==
    ASSUME NEW list \in SUBSET Clients, NEW c PROVE Index(list, c) \in Nat
<1>1. IsFiniteSet(Clients)
  BY FS_Interval, TelemetryAssumption
<1>2. IsFiniteSet({d \in list : d <= c})
  BY <1>1, FS_Subset
<1> QED
  BY <1>2, FS_CardinalityType DEF Index

\* A removal moves nobody to a higher index.
LEMMA RemovalLowers ==
    ASSUME NEW list \in SUBSET Clients, NEW other \in SUBSET list, NEW c
    PROVE  Index(other, c) <= Index(list, c)
<1>1. IsFiniteSet(Clients)
  BY FS_Interval, TelemetryAssumption
<1>2. IsFiniteSet({d \in list : d <= c})
  BY <1>1, FS_Subset
<1>3. {d \in other : d <= c} \subseteq {d \in list : d <= c}
  OBVIOUS
<1> QED
  BY <1>2, <1>3, FS_Subset DEF Index

\* A connection appended at the end leaves the indices as they are.
LEMMA AppendKeeps ==
    ASSUME NEW list \in SUBSET Clients, NEW x \in Clients, NEW c \in Clients, c < x
    PROVE  Index(list \cup {x}, c) = Index(list, c)
<1>1. {d \in list \cup {x} : d <= c} = {d \in list : d <= c}
  OBVIOUS
<1> QED
  BY <1>1 DEF Index

-----------------------------------------------------------------------------

LEMMA InitIInv == Init => IInv
<1> SUFFICES ASSUME Init PROVE IInv
  OBVIOUS
<1>1. TypeOK
  BY TelemetryAssumption DEF Init, TypeOK, Reading, NotSending
<1>2. NewLast /\ ListedBehind /\ NextBehind /\ StoppedLast /\ InOrderOnce
  BY DEF Init, NewLast, ListedBehind, NextBehind, StoppedLast, InOrderOnce, Reading
<1> QED
  BY <1>1, <1>2 DEF IInv

-----------------------------------------------------------------------------
(* Histories.                                                              *)

Events == 1 .. MaxEvents

LEMMA AtMostWeaker ==
    ASSUME NEW s \in Seq(Events), NEW m \in Int, NEW n \in Int, m <= n, AtMost(s, m)
    PROVE  AtMost(s, n)
<1> SUFFICES ASSUME NEW i \in DOMAIN s PROVE s[i] <= n
  BY DEF AtMost
<1>1. s[i] \in Int
  BY TelemetryAssumption DEF Events
<1> QED
  BY <1>1 DEF AtMost

LEMMA Received ==
    ASSUME NEW s \in Seq(Events), NEW n \in Events, AtMost(s, n - 1), Increasing(s)
    PROVE  /\ Append(s, n) \in Seq(Events)
           /\ AtMost(Append(s, n), n) /\ Increasing(Append(s, n))
<1>1. \A i \in DOMAIN s : s[i] \in Int /\ s[i] < n
  BY TelemetryAssumption DEF Events, AtMost
<1>2. /\ Append(s, n) \in Seq(Events)
      /\ DOMAIN Append(s, n) = 1 .. Len(s) + 1 /\ DOMAIN s = 1 .. Len(s)
      /\ Append(s, n)[Len(s) + 1] = n
      /\ \A i \in 1 .. Len(s) : Append(s, n)[i] = s[i]
  OBVIOUS
<1>3. AtMost(Append(s, n), n)
  <2> SUFFICES ASSUME NEW i \in 1 .. Len(s) + 1 PROVE Append(s, n)[i] <= n
    BY <1>2 DEF AtMost
  <2> QED
    BY <1>1, <1>2 DEF Events
<1>4. Increasing(Append(s, n))
  <2> SUFFICES ASSUME NEW i \in 1 .. Len(s) + 1, NEW j \in 1 .. Len(s) + 1, i < j
               PROVE  Append(s, n)[i] < Append(s, n)[j]
    BY <1>2 DEF Increasing
  <2>1. CASE j = Len(s) + 1
    BY <1>1, <1>2, <2>1
  <2>2. CASE j # Len(s) + 1
    BY <1>2, <2>2 DEF Increasing
  <2> QED
    BY <2>1, <2>2
<1> QED
  BY <1>2, <1>3, <1>4

-----------------------------------------------------------------------------

\* What the beginning of an event needs and gives.
LEMMA NextEventKeeps ==
    ASSUME NEW last \in 0 .. MaxEvents, NEW upto \in 0 .. MaxEvents, last <= upto,
           NextEvent(last, upto, active'),
           active' \in SUBSET Clients,
           \A c \in active' : conn'[c] # "new",
           \A c \in active' : AtMost(got'[c], last),
           got' \in [Clients -> Seq(Events)]
    PROVE  /\ consumer' \in Sending \cup NotSending
           /\ consumer'.pc \in {"read", "send"}
           /\ ListedBehind' /\ NextBehind'
<1>1. ASSUME NEW d \in active' PROVE AtMost(got'[d], upto) /\ AtMost(got'[d], last + 1)
  BY AtMostWeaker
<1>2. CASE last = upto \/ active' = {}
  <2>1. consumer' = Reading(upto)
    BY <1>2 DEF NextEvent
  <2> QED
    BY <1>1, <2>1 DEF Reading, NotSending, ListedBehind, NextBehind
<1>3. CASE ~(last = upto \/ active' = {})
  <2>1. PICK c \in active' :
            /\ Index(active', c) = 1
            /\ consumer' = [pc |-> "send", last |-> last + 1, upto |-> upto,
                            pos |-> 1, to |-> c, dead |-> {}]
    BY <1>3 DEF NextEvent
  <2>2. last + 1 \in 1 .. MaxEvents /\ upto \in 1 .. MaxEvents /\ last + 1 <= upto
    BY <1>3, TelemetryAssumption
  <2>3. consumer' \in Sending
    BY <2>1, <2>2 DEF Sending
  <2>4. ListedBehind'
    BY <1>1, <2>1 DEF ListedBehind
  <2>5. last + 1 - 1 = last
    OBVIOUS
  <2>6. NextBehind'
    BY <2>1, <2>2, <2>5 DEF NextBehind
  <2> QED
    BY <2>1, <2>3, <2>4, <2>6
<1> QED
  BY <1>2, <1>3

\* What the end of a send needs and gives: whoever is listed has received the
\* event at most, and who is still to come less.
LEMMA ContinueKeeps ==
    ASSUME IInv, consumer.pc = "send", NEW dead \in SUBSET Clients, Continue(dead),
           UNCHANGED conn, got' \in [Clients -> Seq(Events)],
           \A c \in active : AtMost(got'[c], consumer.last),
           \A c \in active : c # consumer.to => got'[c] = got[c]
    PROVE  /\ consumer' \in Sending \cup NotSending
           /\ active' \in SUBSET {c \in Clients : conn'[c] \in {"open", "closed"}}
           /\ consumer'.pc \in {"read", "send"}
           /\ ListedBehind' /\ NextBehind'
<1>1. consumer \in Sending /\ active \in SUBSET Clients
  BY DEF IInv, TypeOK, NotSending
<1>2. CASE consumer.pos < Cardinality(active)
  <2>1. PICK c \in active :
            /\ Index(active, c) = consumer.pos + 1
            /\ consumer' = [consumer EXCEPT !.pos = @ + 1, !.to = c, !.dead = dead]
            /\ UNCHANGED active
    BY <1>2 DEF Continue
  <2>2. /\ consumer'.pc = "send" /\ consumer'.last = consumer.last
        /\ consumer'.upto = consumer.upto /\ consumer'.to = c
        /\ consumer'.pos = consumer.pos + 1
        /\ consumer' \in Sending
    <3> DEFINE next == consumer.pos + 1
    <3>1. next \in Nat \ {0} /\ c \in Clients
      BY <1>1 DEF Sending
    <3>2. consumer' = [consumer EXCEPT !.pos = next, !.to = c, !.dead = dead]
      BY <2>1
    <3> HIDE DEF next
    <3>3. /\ consumer'.pc = "send" /\ consumer'.last = consumer.last
          /\ consumer'.upto = consumer.upto /\ consumer'.to = c
          /\ consumer'.pos = next /\ consumer' \in Sending
      BY <1>1, <3>1, <3>2 DEF Sending
    <3> QED
      BY <3>3 DEF next
  <2>3. ASSUME NEW d \in active, Index(active, d) > consumer.pos
        PROVE  AtMost(got'[d], consumer.last - 1)
    BY <2>3 DEF IInv, NextBehind
  <2>4. ASSUME NEW d \in active, Index(active, d) > consumer.pos + 1
        PROVE  d # c /\ Index(active, d) > consumer.pos
    BY <1>1, <2>1, <2>4, IndexNat DEF Sending
  <2>5. Index(active, c) > consumer.pos
    BY <1>1, <2>1 DEF Sending
  <2>6. conn[c] # "new" /\ consumer.last <= consumer.upto
    BY DEF IInv, TypeOK, NextBehind
  <2>7. ListedBehind'
    BY <2>1, <2>2 DEF ListedBehind
  <2>8. NextBehind'
    BY <2>1, <2>2, <2>3, <2>4, <2>5, <2>6 DEF NextBehind
  <2> QED
    BY <2>1, <2>2, <2>7, <2>8 DEF IInv, TypeOK
<1>3. CASE ~(consumer.pos < Cardinality(active))
  <2>1. active' = active \ dead /\ NextEvent(consumer.last, consumer.upto, active')
    BY <1>3 DEF Continue
  <2>2. /\ consumer.last \in 0 .. MaxEvents /\ consumer.upto \in 0 .. MaxEvents
        /\ consumer.last <= consumer.upto
    BY <1>1 DEF IInv, NextBehind, Sending
  <2>3. /\ active' \in SUBSET Clients
        /\ \A c \in active' : conn'[c] # "new" /\ AtMost(got'[c], consumer.last)
    BY <2>1 DEF IInv, TypeOK
  <2>4. /\ consumer' \in Sending \cup NotSending
        /\ consumer'.pc \in {"read", "send"}
        /\ ListedBehind' /\ NextBehind'
    BY <2>1, <2>2, <2>3, NextEventKeeps
  <2> QED
    BY <2>1, <2>4 DEF IInv, TypeOK
<1> QED
  BY <1>2, <1>3

-----------------------------------------------------------------------------

\* Steps that leave the histories and the broadcast alone.
LEMMA ListStepKeeps ==
    ASSUME IInv, UNCHANGED <<got, consumer>>,
           active' \in SUBSET {c \in Clients : conn'[c] \in {"open", "closed"}},
           \A c \in Clients : conn[c] # "new" => conn'[c] # "new",
           \A c \in active' \ active : conn[c] = "new" /\ \A d \in active : d < c,
           \A c \in active' : c \in active =>
              Index(active', c) <= Index(active, c)
    PROVE  ListedBehind' /\ NextBehind' /\ InOrderOnce'
<1>1. active \in SUBSET Clients /\ active' \in SUBSET Clients
  BY DEF IInv, TypeOK
<1>2. ASSUME NEW c \in active', c \notin active, NEW n
      PROVE  AtMost(got[c], n)
  <2>1. got[c] = <<>>
    BY <1>1, <1>2 DEF IInv, NewLast
  <2> QED
    BY <2>1 DEF AtMost
<1>3. ListedBehind'
  BY <1>2 DEF IInv, ListedBehind
<1>4. NextBehind'
  <2> SUFFICES ASSUME consumer.pc = "send" PROVE NextBehind'
    BY DEF NextBehind
  <2>0. consumer.to \in Clients /\ consumer.pos \in Nat
    BY DEF IInv, TypeOK, Sending, NotSending
  <2>1. conn[consumer.to] # "new" /\ conn'[consumer.to] # "new"
    BY <2>0 DEF IInv, NextBehind
  <2>2. ASSUME NEW c \in active', Index(active', c) > consumer.pos
        PROVE  c # consumer.to /\ AtMost(got[c], consumer.last - 1)
    <3>1. CASE c \in active
      <4>1. Index(active, c) > consumer.pos
        BY <1>1, <2>0, <2>2, <3>1, IndexNat
      <4> QED
        BY <3>1, <4>1 DEF IInv, NextBehind
    <3>2. CASE c \notin active
      BY <1>2, <2>1, <3>2
    <3> QED
      BY <3>1, <3>2
  <2> QED
    BY <2>1, <2>2 DEF IInv, NextBehind
<1> QED
  BY <1>3, <1>4 DEF IInv, InOrderOnce

LEMMA ConnectKeeps == ASSUME IInv, NEW x \in Clients, Connect(x) PROVE IInv'
<1>1. active \in SUBSET Clients /\ \A c \in active : c < x
  <2>1. ASSUME NEW c \in active PROVE c < x
    <3>1. c \in Clients /\ conn[c] # "new"
      BY DEF IInv, TypeOK
    <3>2. ~(x < c)
      BY <3>1 DEF Connect, IInv, NewLast
    <3> QED
      BY <3>1, <3>2, TelemetryAssumption DEF Connect
  <2> QED
    BY <2>1 DEF IInv, TypeOK
<1>2. ASSUME NEW c \in active PROVE Index(active', c) <= Index(active, c)
  <2>1. Index(active', c) = Index(active, c)
    BY <1>1, AppendKeeps DEF Connect
  <2> QED
    BY <1>1, <2>1, IndexNat
<1>3. TypeOK'
  BY DEF Connect, IInv, TypeOK
<1>4. NewLast'
  <2>1. ASSUME NEW c \in Clients, NEW d \in Clients, c < d, conn'[c] = "new"
        PROVE  conn'[d] = "new"
    <3>1. conn[c] = "new" /\ c # x /\ ~(c < x)
      BY <2>1, TelemetryAssumption DEF Connect, IInv, TypeOK
    <3>2. d # x
      BY <2>1, <3>1
    <3> QED
      BY <2>1, <3>1, <3>2 DEF Connect, IInv, TypeOK, NewLast
  <2> QED
    BY <2>1 DEF Connect, IInv, TypeOK, NewLast
<1>5. ListedBehind' /\ NextBehind' /\ InOrderOnce'
  <2>1. \A c \in active' \ active : conn[c] = "new" /\ \A d \in active : d < c
    BY <1>1 DEF Connect
  <2>2. \A c \in Clients : conn[c] # "new" => conn'[c] # "new"
    BY DEF Connect, IInv, TypeOK
  <2> QED
    BY <1>2, <1>3, <2>1, <2>2, ListStepKeeps DEF Connect, TypeOK
<1> QED
  BY <1>3, <1>4, <1>5 DEF Connect, IInv, StoppedLast

\* Steps that only take connections off the list or change the state of some.
LEMMA LeavingKeeps ==
    ASSUME IInv, UNCHANGED <<stream, got, consumer>>,
           active' \in SUBSET active,
           conn' \in [Clients -> {"new", "open", "closed", "gone"}],
           \A c \in Clients : conn[c] = "new" <=> conn'[c] = "new",
           \A c \in active' : conn'[c] \in {"open", "closed"},
           server' \in {"up", "draining", "cancelling", "closing", "down"},
           server' = "closing" => consumer.pc = "stopped",
           server' = "down" => server = "down"
    PROVE  IInv'
<1>1. active \in SUBSET Clients
  BY DEF IInv, TypeOK
<1>2. TypeOK'
  BY <1>1 DEF IInv, TypeOK
<1>3. NewLast'
  BY DEF IInv, NewLast
<1>4. \A c \in active' : Index(active', c) <= Index(active, c)
  BY <1>1, RemovalLowers
<1>5. ListedBehind' /\ NextBehind' /\ InOrderOnce'
  BY <1>1, <1>2, <1>4, ListStepKeeps DEF TypeOK
<1> QED
  BY <1>2, <1>3, <1>5 DEF IInv, StoppedLast

LEMMA LeavingStepsKeep ==
    ASSUME IInv,
           \/ \E c \in Clients : PeerCloses(c) \/ Disconnect(c)
           \/ Drain \/ Shutdown \/ ClosePools
    PROVE  IInv'
<1>1. ASSUME NEW c \in Clients, PeerCloses(c) PROVE IInv'
  BY <1>1, LeavingKeeps DEF PeerCloses, IInv, TypeOK, StoppedLast
<1>2. ASSUME NEW c \in Clients, Disconnect(c) PROVE IInv'
  BY <1>2, LeavingKeeps DEF Disconnect, IInv, TypeOK, StoppedLast
<1>3. CASE Drain
  BY <1>3, LeavingKeeps DEF Drain, IInv, TypeOK
<1>4. CASE Shutdown
  BY <1>4, LeavingKeeps DEF Shutdown, IInv, TypeOK
<1>5. CASE ClosePools
  BY <1>5, LeavingKeeps DEF ClosePools, IInv, TypeOK
<1> QED
  BY <1>1, <1>2, <1>3, <1>4, <1>5

\* Steps of the consumer that send nothing.
LEMMA QuietStepKeeps ==
    ASSUME IInv, UNCHANGED <<stream, active, conn, got>>,
           consumer' \in NotSending,
           consumer'.last = consumer.last \/ active = {},
           server' \in {"up", "draining", "cancelling", "closing", "down"},
           server' = "closing" => consumer'.pc = "stopped",
           server' = "down" => server = "down"
    PROVE  IInv'
<1>1. TypeOK' /\ NewLast' /\ InOrderOnce' /\ StoppedLast'
  BY DEF IInv, TypeOK, NewLast, InOrderOnce, StoppedLast
<1>2. ListedBehind'
  BY DEF IInv, ListedBehind
<1>3. NextBehind'
  BY DEF NextBehind, NotSending
<1> QED
  BY <1>1, <1>2, <1>3 DEF IInv

LEMMA QuietStepsKeep ==
    ASSUME IInv, ReadFails \/ Wake \/ Stop \/ Restart
    PROVE  IInv'
<1>1. CASE ReadFails \/ Wake
  <2>1. consumer \in NotSending
    BY <1>1 DEF ReadFails, Wake, At, IInv, TypeOK, Sending
  <2>2. consumer' \in NotSending /\ consumer'.last = consumer.last
    BY <1>1, <2>1 DEF ReadFails, Wake, NotSending
  <2> QED
    BY <1>1, <2>2, QuietStepKeeps
    DEF ReadFails, Wake, At, IInv, TypeOK, StoppedLast
<1>2. CASE Stop
  <2>1. consumer.last \in 0 .. MaxEvents
    BY DEF IInv, TypeOK, Sending, NotSending
  <2>2. /\ consumer' \in NotSending /\ consumer'.last = consumer.last
        /\ consumer'.pc = "stopped"
    BY <1>2, <2>1 DEF Stop, NotSending
  <2> QED
    BY <1>2, <2>2, QuietStepKeeps DEF Stop, IInv, TypeOK
<1>3. CASE Restart
  <2>1. consumer' \in NotSending /\ active = {}
    BY <1>3, TelemetryAssumption DEF Restart, Reading, NotSending, IInv, StoppedLast
  <2> QED
    BY <1>3, <2>1, QuietStepKeeps DEF Restart
<1> QED
  BY <1>1, <1>2, <1>3

LEMMA PublishKeeps == ASSUME IInv, Publish PROVE IInv'
<1>1. TypeOK'
  BY TelemetryAssumption DEF Publish, IInv, TypeOK
<1> QED
  BY <1>1 DEF Publish, IInv, NewLast, ListedBehind, NextBehind, StoppedLast, InOrderOnce

LEMMA ExitKeeps == ASSUME IInv, Exit PROVE IInv'
<1>1. consumer' \in NotSending
  BY TelemetryAssumption DEF Exit, NotSending
<1>2. TypeOK'
  BY <1>1 DEF Exit, IInv, TypeOK
<1>3. NewLast'
  BY DEF Exit, IInv, NewLast
<1>4. ListedBehind' /\ NextBehind' /\ StoppedLast' /\ InOrderOnce'
  BY DEF Exit, IInv, ListedBehind, NextBehind, StoppedLast, InOrderOnce
<1> QED
  BY <1>2, <1>3, <1>4 DEF IInv

LEMMA ReadKeeps == ASSUME IInv, Read PROVE IInv'
<1>1. consumer.pc = "read" /\ consumer.last \in 0 .. MaxEvents /\ stream \in 0 .. MaxEvents
  BY DEF Read, At, IInv, TypeOK, Sending, NotSending
<1>2. PICK upto \in consumer.last + 1 .. stream : NextEvent(consumer.last, upto, active)
  BY DEF Read
<1>3. upto \in 0 .. MaxEvents /\ consumer.last <= upto
  BY <1>1, TelemetryAssumption
<1>4. /\ active' = active /\ got' = got /\ conn' = conn /\ UNCHANGED <<stream, server>>
  BY DEF Read
<1>5. /\ active' \in SUBSET Clients
      /\ \A c \in active' : conn'[c] # "new" /\ AtMost(got'[c], consumer.last)
      /\ got' \in [Clients -> Seq(Events)]
  BY <1>4 DEF IInv, TypeOK, ListedBehind, Events
<1>6. /\ consumer' \in Sending \cup NotSending
      /\ ListedBehind' /\ NextBehind'
  <2>1. NextEvent(consumer.last, upto, active')
    BY <1>2, <1>4
  <2> QED
    BY <1>1, <1>3, <1>5, <2>1, NextEventKeeps
<1>7. TypeOK' /\ NewLast' /\ InOrderOnce' /\ StoppedLast'
  BY <1>1, <1>4, <1>6 DEF IInv, TypeOK, NewLast, InOrderOnce, StoppedLast
<1> QED
  BY <1>6, <1>7 DEF IInv

LEMMA SendKeeps == ASSUME IInv, Send PROVE IInv'
<1> DEFINE to == consumer.to
           last == consumer.last
<1>1. consumer.pc = "send" /\ consumer \in Sending
  BY DEF Send, At, IInv, TypeOK, NotSending
<1>2. to \in Clients /\ last \in Events /\ consumer.dead \in SUBSET Clients
  BY <1>1 DEF Sending, Events
<1>3. /\ got' = [got EXCEPT ![to] = Append(got[to], last)]
      /\ Continue(consumer.dead) /\ UNCHANGED <<stream, conn, server>>
  BY DEF Send
<1>4. /\ got \in [Clients -> Seq(Events)]
      /\ AtMost(got[to], last - 1) /\ Increasing(got[to])
  BY <1>1, <1>2 DEF IInv, TypeOK, NextBehind, InOrderOnce, Increasing, Events
<1>5. /\ Append(got[to], last) \in Seq(Events)
      /\ AtMost(Append(got[to], last), last) /\ Increasing(Append(got[to], last))
  BY <1>2, <1>4, Received
<1>6. /\ got'[to] = Append(got[to], last)
      /\ \A c \in Clients \ {to} : got'[c] = got[c]
      /\ got' \in [Clients -> Seq(Events)]
  BY <1>2, <1>3, <1>4, <1>5
<1>7. /\ active \in SUBSET Clients
      /\ \A c \in active : AtMost(got'[c], last)
      /\ \A c \in active : c # to => got'[c] = got[c]
  BY <1>5, <1>6 DEF IInv, TypeOK, ListedBehind
<1>8. /\ consumer' \in Sending \cup NotSending
      /\ active' \in SUBSET {c \in Clients : conn'[c] \in {"open", "closed"}}
      /\ ListedBehind' /\ NextBehind'
  BY <1>1, <1>2, <1>3, <1>6, <1>7, ContinueKeeps
<1>9. InOrderOnce'
  BY <1>5, <1>6 DEF IInv, InOrderOnce, Increasing
<1>10. TypeOK'
  BY <1>3, <1>6, <1>8 DEF IInv, TypeOK, Events
<1>11. NewLast'
  <2>1. conn[to] # "new"
    BY <1>1 DEF IInv, NextBehind
  <2> QED
    BY <1>3, <1>6, <2>1 DEF IInv, NewLast
<1>12. StoppedLast'
  <2>1. server # "closing"
    BY <1>1 DEF IInv, StoppedLast
  <2>2. active' \subseteq active
    BY <1>3 DEF Continue
  <2> QED
    BY <1>3, <2>1, <2>2 DEF IInv, StoppedLast
<1> QED
  BY <1>8, <1>9, <1>10, <1>11, <1>12 DEF IInv

LEMMA SendToClosedKeeps == ASSUME IInv, SendToClosed PROVE IInv'
<1>1. consumer.pc = "send" /\ consumer \in Sending
  BY DEF SendToClosed, At, IInv, TypeOK, NotSending
<1>2. PICK dead \in SUBSET Clients : Continue(dead)
  BY <1>1 DEF SendToClosed, Sending
<1>3. UNCHANGED <<stream, conn, got, server>> /\ got' \in [Clients -> Seq(Events)]
  BY DEF SendToClosed, IInv, TypeOK, Events
<1>4. /\ \A c \in active : AtMost(got'[c], consumer.last)
      /\ \A c \in active : c # consumer.to => got'[c] = got[c]
  BY <1>3 DEF IInv, ListedBehind
<1>5. /\ consumer' \in Sending \cup NotSending
      /\ active' \in SUBSET {c \in Clients : conn'[c] \in {"open", "closed"}}
      /\ ListedBehind' /\ NextBehind'
  BY <1>1, <1>2, <1>3, <1>4, ContinueKeeps
<1>6. TypeOK' /\ NewLast' /\ InOrderOnce'
  BY <1>3, <1>5 DEF IInv, TypeOK, NewLast, InOrderOnce
<1>7. StoppedLast'
  <2>1. server # "closing"
    BY <1>1 DEF IInv, StoppedLast
  <2>2. active' \subseteq active
    BY <1>2 DEF Continue
  <2> QED
    BY <1>3, <2>1, <2>2 DEF IInv, StoppedLast
<1> QED
  BY <1>5, <1>6, <1>7 DEF IInv

LEMMA NextIInv == IInv /\ [Next]_vars => IInv'
<1> SUFFICES ASSUME IInv, [Next]_vars PROVE IInv'
  OBVIOUS
<1>1. CASE UNCHANGED vars
  BY <1>1 DEF vars, IInv, TypeOK, NewLast, ListedBehind, NextBehind, StoppedLast,
              InOrderOnce
<1>2. CASE Publish \/ Exit \/ Read \/ Send \/ SendToClosed
  BY <1>2, PublishKeeps, ExitKeeps, ReadKeeps, SendKeeps, SendToClosedKeeps
<1>3. CASE ReadFails \/ Wake \/ Stop \/ Restart
  BY <1>3, QuietStepsKeep
<1>4. ASSUME NEW c \in Clients, Connect(c) PROVE IInv'
  BY <1>4, ConnectKeeps
<1>5. CASE \/ \E c \in Clients : PeerCloses(c) \/ Disconnect(c)
           \/ Drain \/ Shutdown \/ ClosePools
  BY <1>5, LeavingStepsKeep
<1> QED
  BY <1>1, <1>2, <1>3, <1>4, <1>5 DEF Next

LEMMA IInvariant == Spec => []IInv
<1>1. Init => IInv
  BY InitIInv
<1>2. IInv /\ [Next]_vars => IInv'
  BY NextIInv
<1> QED
  BY <1>1, <1>2, PTL DEF Spec

-----------------------------------------------------------------------------
(* What departures cost.  A connection is owed what it lacks between the   *)
(* first and the last event it has received and, while it is open, what    *)
(* the broadcast has passed by without it.  Only a departure lets that     *)
(* grow: the connection behind the iterator moves to its index.            *)

\* The consumer will not send n to c again.
Passed(c, n) ==
    /\ consumer.pc # "stopped"
    /\ \/ n < consumer.last
       \/ /\ n = consumer.last
          /\ consumer.pc = "send" =>
                c # consumer.to /\ Index(active, c) <= consumer.pos

Lacks(c, n) ==
    got[c] # <<>> /\ got[c][1] < n /\ \A i \in DOMAIN got[c] : got[c][i] # n

Owed ==
    {x \in Clients \X Events :
        /\ Lacks(x[1], x[2])
        /\ \/ x[2] < got[x[1]][Len(got[x[1]])]
           \/ conn[x[1]] = "open" /\ Passed(x[1], x[2])}

Gone == {c \in Clients : conn[c] = "gone"}

OpenListed == \A c \in Clients : conn[c] = "open" => c \in active

DeadClosed ==
    consumer.pc = "send" => \A c \in consumer.dead : conn[c] \in {"closed", "gone"}

ListInv == OpenListed /\ DeadClosed

OwedInv == Cardinality(Owed) <= Cardinality(Gone)

\* No two members of a list have the same index.
LEMMA IndexInjective ==
    ASSUME NEW list \in SUBSET Clients, NEW c \in list, NEW d \in list,
           Index(list, c) = Index(list, d)
    PROVE  c = d
<1>1. ASSUME NEW x \in list, NEW y \in list, x < y PROVE Index(list, x) < Index(list, y)
  <2> DEFINE A == {e \in list : e <= x}
             B == {e \in list : e <= y}
  <2>1. IsFiniteSet(Clients)
    BY FS_Interval, TelemetryAssumption
  <2>2. IsFiniteSet(A) /\ IsFiniteSet(B)
    BY <2>1, FS_Subset
  <2>3. A \cup {y} \subseteq B /\ y \notin A
    <3>1. x \in Int /\ y \in Int /\ \A e \in list : e \in Int
      BY TelemetryAssumption
    <3>2. y \in B /\ y \notin A
      BY <1>1, <3>1
    <3>3. ASSUME NEW e \in list, e <= x PROVE e <= y
      BY <1>1, <3>1, <3>3
    <3> QED
      BY <3>2, <3>3
  <2>4. Cardinality(A \cup {y}) = Cardinality(A) + 1
    BY <2>2, <2>3, FS_AddElement
  <2>5. Cardinality(A \cup {y}) <= Cardinality(B)
    BY <2>2, <2>3, FS_Subset
  <2>6. Cardinality(A) \in Nat /\ Cardinality(B) \in Nat
    BY <2>2, FS_CardinalityType
  <2> HIDE DEF A, B
  <2>7. Cardinality(A) < Cardinality(B)
    BY <2>4, <2>5, <2>6
  <2> QED
    BY <2>7 DEF A, B, Index
<1>2. Index(list, c) \in Nat /\ Index(list, d) \in Nat
  BY IndexNat
<1>3. ~(c < d) /\ ~(d < c)
  BY <1>1, <1>2
<1> QED
  BY <1>3, TelemetryAssumption

\* An index is at most the length of the list.
LEMMA IndexBound ==
    ASSUME NEW list \in SUBSET Clients, NEW c PROVE Index(list, c) <= Cardinality(list)
<1>1. IsFiniteSet(Clients)
  BY FS_Interval, TelemetryAssumption
<1>2. IsFiniteSet(list)
  BY <1>1, FS_Subset
<1> QED
  BY <1>2, FS_Subset DEF Index

\* One removal moves nobody by more than one.
LEMMA RemovalByOne ==
    ASSUME NEW list \in SUBSET Clients, NEW x, NEW c
    PROVE  Index(list, c) <= Index(list \ {x}, c) + 1
<1> DEFINE A == {d \in list : d <= c}
           B == {d \in list \ {x} : d <= c}
<1>1. IsFiniteSet(Clients)
  BY FS_Interval, TelemetryAssumption
<1>2. IsFiniteSet(B)
  BY <1>1, FS_Subset
<1>3. IsFiniteSet(B \cup {x}) /\ Cardinality(B \cup {x}) <= Cardinality(B) + 1
  <2>1. Cardinality(B) \in Nat
    BY <1>2, FS_CardinalityType
  <2> HIDE DEF B
  <2> QED
    BY <1>2, <2>1, FS_AddElement
<1>4. A \subseteq B \cup {x}
  OBVIOUS
<1>5. Cardinality(A) <= Cardinality(B \cup {x}) /\ IsFiniteSet(A)
  BY <1>3, <1>4, FS_Subset
<1>6. Cardinality(A) \in Nat /\ Cardinality(B) \in Nat /\ Cardinality(B \cup {x}) \in Nat
  BY <1>2, <1>3, <1>5, FS_CardinalityType
<1> HIDE DEF A, B
<1>7. Cardinality(A) <= Cardinality(B) + 1
  BY <1>3, <1>5, <1>6
<1> QED
  BY <1>7 DEF A, B, Index

LEMMA OwedFinite ==
    ASSUME NEW S \in SUBSET (Clients \X Events), NEW T \in SUBSET Clients
    PROVE  IsFiniteSet(S) /\ IsFiniteSet(T)
<1>1. IsFiniteSet(Clients) /\ IsFiniteSet(Events)
  BY FS_Interval, TelemetryAssumption DEF Events
<1>2. IsFiniteSet(Clients \X Events)
  BY <1>1, FS_Product
<1> QED
  BY <1>1, <1>2, FS_Subset

-----------------------------------------------------------------------------
(* The list and the dead.                                                  *)

LEMMA NextEventDead ==
    ASSUME NEW last, NEW upto, NEW list, NextEvent(last, upto, list)
    PROVE  consumer'.pc = "send" => consumer'.dead = {}
BY DEF NextEvent, Reading

LEMMA ContinueDead ==
    ASSUME IInv, OpenListed, consumer.pc = "send", UNCHANGED conn,
           NEW dead \in SUBSET Clients, Continue(dead),
           \A c \in dead : conn[c] \in {"closed", "gone"}
    PROVE  ListInv'
<1>1. CASE consumer.pos < Cardinality(active)
  <2>1. PICK c \in active :
            /\ consumer' = [consumer EXCEPT !.pos = @ + 1, !.to = c, !.dead = dead]
            /\ UNCHANGED active
    BY <1>1 DEF Continue
  <2>2. consumer \in Sending
    BY DEF IInv, TypeOK, NotSending
  <2>3. consumer'.dead = dead
    BY <2>1, <2>2 DEF Sending
  <2> QED
    BY <2>1, <2>3 DEF ListInv, OpenListed, DeadClosed
<1>2. CASE ~(consumer.pos < Cardinality(active))
  <2>1. active' = active \ dead /\ NextEvent(consumer.last, consumer.upto, active \ dead)
    BY <1>2 DEF Continue
  <2> QED
    BY <2>1, NextEventDead DEF ListInv, OpenListed, DeadClosed
<1> QED
  BY <1>1, <1>2

LEMMA NextListInv == IInv /\ ListInv /\ [Next]_vars => ListInv'
<1> SUFFICES ASSUME IInv, ListInv, [Next]_vars PROVE ListInv'
  OBVIOUS
<1> USE DEF ListInv, OpenListed, DeadClosed
<1>0. consumer.pc = "send" =>
         /\ consumer \in Sending /\ consumer.dead \in SUBSET Clients
         /\ consumer.to \in Clients /\ conn[consumer.to] # "new"
  BY DEF IInv, TypeOK, Sending, NotSending, NextBehind
<1>1. CASE UNCHANGED vars
  BY <1>1 DEF vars
<1>2. CASE Publish
  BY <1>2 DEF Publish
<1>3. CASE Exit
  BY <1>3 DEF Exit
<1>4. CASE Read
  <2>1. PICK upto : NextEvent(consumer.last, upto, active)
    BY <1>4 DEF Read
  <2> QED
    BY <1>4, <2>1, NextEventDead DEF Read
<1>5. CASE Send
  BY <1>0, <1>5, ContinueDead DEF Send, At
<1>6. CASE SendToClosed
  <2>1. consumer.pc = "send" /\ UNCHANGED conn /\ conn[consumer.to] \in {"closed", "gone"}
    BY <1>0, <1>6 DEF SendToClosed, At, IInv, TypeOK
  <2>2. CASE Continue(consumer.dead \cup {consumer.to})
    BY <1>0, <2>1, <2>2, ContinueDead
  <2>3. CASE Continue(consumer.dead)
    BY <1>0, <2>1, <2>3, ContinueDead
  <2> QED
    BY <1>6, <2>2, <2>3 DEF SendToClosed
<1>7. CASE ReadFails \/ Wake
  <2>1. consumer \in NotSending
    BY <1>7 DEF ReadFails, Wake, At, IInv, TypeOK, Sending
  <2>2. consumer'.pc # "send"
    BY <1>7, <2>1 DEF ReadFails, Wake, NotSending
  <2> QED
    BY <1>7, <2>2 DEF ReadFails, Wake
<1>8. CASE Stop \/ Restart
  BY <1>8 DEF Stop, Restart, Reading
<1>9. ASSUME NEW c \in Clients, Connect(c) PROVE ListInv'
  BY <1>0, <1>9 DEF Connect, IInv, TypeOK
<1>10. ASSUME NEW c \in Clients, PeerCloses(c) \/ Disconnect(c) PROVE ListInv'
  BY <1>0, <1>10 DEF PeerCloses, Disconnect, IInv, TypeOK
<1>11. CASE Drain
  BY <1>0, <1>11 DEF Drain, IInv, TypeOK
<1>12. CASE Shutdown \/ ClosePools
  BY <1>12 DEF Shutdown, ClosePools
<1> QED
  BY <1>1, <1>2, <1>3, <1>4, <1>5, <1>6, <1>7, <1>8, <1>9, <1>10, <1>11, <1>12 DEF Next

LEMMA ListInvariant == Spec => []ListInv
<1>1. Init => ListInv
  BY DEF Init, Reading, ListInv, OpenListed, DeadClosed
<1>2. IInv /\ ListInv /\ [Next]_vars => ListInv'
  BY NextListInv
<1> QED
  BY <1>1, <1>2, IInvariant, PTL DEF Spec

-----------------------------------------------------------------------------
(* What the broadcast passes by.                                           *)

\* Nothing of an event has passed when it begins.
LEMMA NextEventPasses ==
    ASSUME NEW last \in 0 .. MaxEvents, NEW upto, NextEvent(last, upto, active'),
           active' \in SUBSET Clients, NEW c \in active', NEW n \in Events,
           Passed(c, n)'
    PROVE  n <= last
<1>1. CASE last = upto
  BY <1>1, TelemetryAssumption DEF NextEvent, Reading, Passed, Events
<1>2. CASE last # upto
  <2>1. PICK d \in active' :
            /\ Index(active', d) = 1
            /\ consumer' = [pc |-> "send", last |-> last + 1, upto |-> upto,
                            pos |-> 1, to |-> d, dead |-> {}]
    BY <1>2 DEF NextEvent
  <2>2. n < last + 1 \/ (n = last + 1 /\ c # d /\ Index(active', c) <= 1)
    BY <2>1 DEF Passed
  <2>3. ASSUME n = last + 1 PROVE FALSE
    <3>1. c # d /\ Index(active', c) \in Nat /\ Index(active', c) <= 1
      BY <2>2, <2>3, IndexNat
    <3>2. Index(active', c) # 1
      BY <2>1, <3>1, IndexInjective
    <3>3. Index(active', c) # 0
      <4>1. c \in {e \in active' : e <= c}
        BY TelemetryAssumption
      <4>2. IsFiniteSet({e \in active' : e <= c})
        <5>1. IsFiniteSet(Clients)
          BY FS_Interval, TelemetryAssumption
        <5> QED
          BY <5>1, FS_Subset
      <4> QED
        BY <4>1, <4>2, FS_EmptySet DEF Index
    <3> QED
      BY <3>1, <3>2, <3>3
  <2> QED
    BY <2>2, <2>3, TelemetryAssumption DEF Events
<1> QED
  BY <1>1, <1>2

\* The end of a send passes nobody by but the one that was sent to.
LEMMA ContinuePasses ==
    ASSUME IInv, consumer.pc = "send", NEW dead, Continue(dead),
           NEW c \in active, c \in active', NEW n \in Events, Passed(c, n)'
    PROVE  n <= consumer.last /\ (c # consumer.to => Passed(c, n))
<1>1. /\ consumer \in Sending /\ active \in SUBSET Clients
      /\ consumer.last \in 0 .. MaxEvents /\ consumer.pos \in Nat
      /\ Index(active, c) \in Nat /\ c \in Clients /\ n \in Nat
  <2>1. consumer \in Sending /\ active \in SUBSET Clients
    BY DEF IInv, TypeOK, NotSending
  <2> QED
    BY <2>1, IndexNat, TelemetryAssumption DEF Sending, Events
<1>2. CASE consumer.pos < Cardinality(active)
  <2>1. PICK d \in active :
            /\ Index(active, d) = consumer.pos + 1
            /\ consumer' = [consumer EXCEPT !.pos = @ + 1, !.to = d, !.dead = dead]
            /\ UNCHANGED active
    BY <1>2 DEF Continue
  <2>2. /\ consumer'.pc = "send" /\ consumer'.last = consumer.last
        /\ consumer'.to = d /\ consumer'.pos = consumer.pos + 1
    BY <1>1, <2>1 DEF Sending
  <2>3. \/ n < consumer.last
        \/ n = consumer.last /\ c # d /\ Index(active, c) <= consumer.pos + 1
    BY <2>1, <2>2 DEF Passed
  <2>4. c # d => Index(active, c) # consumer.pos + 1
    BY <1>1, <2>1, IndexInjective
  <2> QED
    BY <1>1, <2>3, <2>4 DEF Passed
<1>3. CASE ~(consumer.pos < Cardinality(active))
  <2>1. active' \in SUBSET Clients /\ NextEvent(consumer.last, consumer.upto, active')
    BY <1>1, <1>3 DEF Continue
  <2>2. n <= consumer.last
    BY <1>1, <2>1, NextEventPasses
  <2>3. Index(active, c) <= consumer.pos
    <3>1. Index(active, c) <= Cardinality(active)
      BY <1>1, IndexBound
    <3>2. IsFiniteSet(active)
      BY <1>1, OwedFinite
    <3>3. Cardinality(active) \in Nat
      BY <3>2, FS_CardinalityType
    <3> QED
      BY <1>1, <1>3, <3>1, <3>3
  <2> QED
    BY <1>1, <2>2, <2>3 DEF Passed
<1> QED
  BY <1>2, <1>3

-----------------------------------------------------------------------------
(* What is owed.                                                           *)

\* Steps that send nothing: nothing passes anybody by who was not passed by.
LEMMA OwedShrinks ==
    ASSUME IInv, OwedInv, UNCHANGED got,
           Gone \subseteq Gone',
           \A c \in Clients : conn'[c] = "open" /\ got[c] # <<>> =>
              conn[c] = "open" /\ \A n \in Events : Passed(c, n)' => Passed(c, n)
    PROVE  OwedInv'
<1>1. Owed' \subseteq Owed
  BY DEF Owed, Lacks
<1>2. IsFiniteSet(Owed) /\ IsFiniteSet(Owed') /\ IsFiniteSet(Gone) /\ IsFiniteSet(Gone')
  BY OwedFinite DEF Owed, Gone
<1>3. Cardinality(Owed') <= Cardinality(Owed) /\ Cardinality(Gone) <= Cardinality(Gone')
  BY <1>1, <1>2, FS_Subset
<1>4. /\ Cardinality(Owed) \in Nat /\ Cardinality(Owed') \in Nat
      /\ Cardinality(Gone) \in Nat /\ Cardinality(Gone') \in Nat
  BY <1>2, FS_CardinalityType
<1> HIDE DEF Owed, Gone
<1> QED
  BY <1>3, <1>4 DEF OwedInv

\* An index that grows passes nobody by.
LEMMA ConnectOwes ==
    ASSUME IInv, ListInv, OwedInv, NEW x \in Clients, Connect(x) PROVE OwedInv'
<1>1. Gone \subseteq Gone'
  BY DEF Connect, Gone, IInv, TypeOK
<1>2. ASSUME NEW c \in Clients, conn'[c] = "open", got[c] # <<>>
      PROVE  /\ conn[c] = "open"
             /\ \A n \in Events : Passed(c, n)' => Passed(c, n)
  <2>1. c # x
    BY <1>2 DEF Connect, IInv, NewLast
  <2>2. conn[c] = "open"
    BY <1>2, <2>1 DEF Connect, IInv, TypeOK
  <2>3. Index(active, c) <= Index(active', c)
    <3>1. active' \in SUBSET Clients /\ active \in SUBSET active'
      BY DEF Connect, IInv, TypeOK
    <3> QED
      BY <3>1, RemovalLowers
  <2>4. Index(active, c) \in Nat /\ Index(active', c) \in Nat
    BY IndexNat DEF Connect, IInv, TypeOK
  <2>5. consumer.pc = "send" => consumer.pos \in Nat
    BY DEF IInv, TypeOK, Sending, NotSending
  <2> QED
    BY <2>2, <2>3, <2>4, <2>5 DEF Connect, Passed
<1> QED
  BY <1>1, <1>2, OwedShrinks DEF Connect

\* The connection that leaves may move another one to the iterator's index;
\* what that one is not sent is owed for the one that left.
LEMMA DisconnectOwes ==
    ASSUME IInv, ListInv, OwedInv, NEW x \in Clients, Disconnect(x) PROVE OwedInv'
<1>1. /\ active \in SUBSET Clients /\ active' = active \ {x}
      /\ UNCHANGED <<got, consumer>>
      /\ x \notin Gone /\ Gone' = Gone \cup {x}
  BY DEF Disconnect, Gone, IInv, TypeOK
<1> DEFINE Skipped(c) == /\ c \in active \ {x} /\ consumer.pc = "send"
                         /\ Index(active, c) = consumer.pos + 1
<1>2. ASSUME NEW c \in Clients, NEW n \in Events, <<c, n>> \in Owed', <<c, n>> \notin Owed
      PROVE  Skipped(c) /\ n = consumer.last
  <2>1. /\ conn[c] = "open" /\ c # x /\ c \in active
        /\ Passed(c, n)' /\ ~Passed(c, n)
    BY <1>1, <1>2 DEF Owed, Lacks, Disconnect, IInv, TypeOK, ListInv, OpenListed
  <2>2. /\ consumer.pc = "send" /\ n = consumer.last
        /\ Index(active', c) <= consumer.pos /\ ~(Index(active, c) <= consumer.pos)
    BY <1>1, <2>1 DEF Passed
  <2>3. Index(active, c) <= Index(active', c) + 1
    BY <1>1, RemovalByOne
  <2>4. Index(active, c) \in Nat /\ Index(active', c) \in Nat /\ consumer.pos \in Nat
    BY <1>1, <2>2, IndexNat DEF IInv, TypeOK, Sending, NotSending
  <2> QED
    BY <2>1, <2>2, <2>3, <2>4
<1>3. PICK y : Owed' \subseteq Owed \cup {y}
  <2>1. CASE \E c \in Clients : Skipped(c)
    <3>1. PICK d \in Clients : Skipped(d)
      BY <2>1
    <3>2. ASSUME NEW c \in Clients, Skipped(c) PROVE c = d
      BY <1>1, <3>1, <3>2, IndexInjective
    <3>3. Owed' \subseteq Owed \cup {<<d, consumer.last>>}
      BY <1>2, <3>2 DEF Owed
    <3> QED
      BY <3>3
  <2>2. CASE ~\E c \in Clients : Skipped(c)
    <3>1. Owed' \subseteq Owed
      BY <1>2, <2>2 DEF Owed
    <3> QED
      BY <3>1
  <2> QED
    BY <2>1, <2>2
<1>4. IsFiniteSet(Owed) /\ IsFiniteSet(Owed') /\ IsFiniteSet(Gone)
  BY OwedFinite DEF Owed, Gone
<1>5. /\ Cardinality(Owed) \in Nat /\ Cardinality(Owed') \in Nat
      /\ Cardinality(Gone) \in Nat
  BY <1>4, FS_CardinalityType
<1>6. /\ IsFiniteSet(Owed \cup {y}) /\ Cardinality(Owed \cup {y}) \in Nat
      /\ Cardinality(Owed \cup {y}) <= Cardinality(Owed) + 1
  <2> HIDE DEF Owed
  <2>1. /\ IsFiniteSet(Owed \cup {y})
        /\ Cardinality(Owed \cup {y}) =
              IF y \in Owed THEN Cardinality(Owed) ELSE Cardinality(Owed) + 1
    BY <1>4, FS_AddElement
  <2> QED
    BY <1>5, <2>1
<1>7. Cardinality(Owed') <= Cardinality(Owed \cup {y})
  BY <1>3, <1>6, FS_Subset
<1>8. Cardinality(Gone') = Cardinality(Gone) + 1
  BY <1>1, <1>4, FS_AddElement
<1> HIDE DEF Owed, Gone
<1> QED
  BY <1>5, <1>6, <1>7, <1>8 DEF OwedInv

\* A read passes nobody by: whoever is open is listed.
LEMMA ReadOwes == ASSUME IInv, ListInv, OwedInv, Read PROVE OwedInv'
<1>1. /\ consumer.pc = "read" /\ consumer.last \in 0 .. MaxEvents
      /\ UNCHANGED <<active, conn, got>>
  BY DEF Read, At, IInv, TypeOK, Sending, NotSending
<1>2. PICK upto : NextEvent(consumer.last, upto, active')
  BY DEF Read
<1>3. ASSUME NEW c \in Clients, conn[c] = "open", NEW n \in Events, Passed(c, n)'
      PROVE  Passed(c, n)
  <2>1. active' \in SUBSET Clients /\ c \in active'
    BY <1>1, <1>3 DEF IInv, TypeOK, ListInv, OpenListed
  <2>2. n <= consumer.last
    BY <1>1, <1>2, <1>3, <2>1, NextEventPasses
  <2> QED
    BY <1>1, <2>2, TelemetryAssumption DEF Passed, Events
<1> QED
  BY <1>1, <1>3, OwedShrinks DEF Gone

LEMMA SendToClosedOwes ==
    ASSUME IInv, ListInv, ListInv', OwedInv, SendToClosed PROVE OwedInv'
<1>1. /\ consumer.pc = "send" /\ conn[consumer.to] # "open" /\ UNCHANGED <<conn, got>>
  BY DEF SendToClosed, At
<1>2. PICK dead : Continue(dead)
  BY DEF SendToClosed
<1>3. ASSUME NEW c \in Clients, conn[c] = "open", NEW n \in Events, Passed(c, n)'
      PROVE  Passed(c, n)
  <2>1. c \in active /\ c \in active' /\ c # consumer.to
    BY <1>1, <1>3 DEF ListInv, OpenListed
  <2> QED
    BY <1>1, <1>2, <1>3, <2>1, ContinuePasses
<1> QED
  BY <1>1, <1>3, OwedShrinks DEF Gone

\* What the connection lacks when it receives an event had passed it by.
LEMMA SendOwes == ASSUME IInv, ListInv, ListInv', OwedInv, Send PROVE OwedInv'
<1> DEFINE to == consumer.to
           last == consumer.last
<1>1. /\ consumer.pc = "send" /\ conn[to] = "open" /\ UNCHANGED conn
      /\ Continue(consumer.dead)
      /\ to \in Clients /\ last \in Events
      /\ got \in [Clients -> Seq(Events)]
      /\ got' = [got EXCEPT ![to] = Append(got[to], last)]
  BY DEF Send, At, IInv, TypeOK, Sending, NotSending, Events
<1>2. ASSUME NEW c \in Clients, NEW n \in Events, <<c, n>> \in Owed' PROVE <<c, n>> \in Owed
  <2>1. /\ Lacks(c, n)'
        /\ n < got'[c][Len(got'[c])] \/ (conn[c] = "open" /\ Passed(c, n)')
    BY <1>1, <1>2 DEF Owed
  <2>2. CASE c # to
    <3>1. got'[c] = got[c] /\ Lacks(c, n)
      BY <1>1, <2>1, <2>2 DEF Lacks
    <3>2. ASSUME conn[c] = "open", Passed(c, n)' PROVE Passed(c, n)
      <4>1. c \in active /\ c \in active'
        BY <1>1, <3>2 DEF ListInv, OpenListed
      <4> QED
        BY <1>1, <2>2, <3>2, <4>1, ContinuePasses
    <3> QED
      BY <2>1, <3>1, <3>2 DEF Owed
  <2>3. CASE c = to
    <3>1. /\ got'[to] = Append(got[to], last) /\ got[to] \in Seq(Events)
          /\ got'[to][Len(got'[to])] = last
          /\ DOMAIN got'[to] = 1 .. Len(got[to]) + 1 /\ DOMAIN got[to] = 1 .. Len(got[to])
          /\ \A i \in 1 .. Len(got[to]) : got'[to][i] = got[to][i]
          /\ got'[to][Len(got[to]) + 1] = last
          /\ Len(got[to]) \in Nat
      BY <1>1
    <3>2. n # last
      BY <2>1, <2>3, <3>1 DEF Lacks
    <3>3. n <= last
      <4>1. CASE n < got'[c][Len(got'[c])]
        BY <1>1, <2>3, <3>1, <4>1, TelemetryAssumption DEF Events
      <4>2. CASE Passed(c, n)'
        <5>1. c \in active /\ c \in active'
          BY <1>1, <2>3 DEF ListInv, OpenListed
        <5> QED
          BY <1>1, <4>2, <5>1, ContinuePasses
      <4> QED
        BY <2>1, <4>1, <4>2
    <3>4. n < last
      BY <1>1, <3>2, <3>3, TelemetryAssumption DEF Events
    <3>5. got[to] # <<>>
      <4>1. ASSUME got[to] = <<>> PROVE FALSE
        <5>1. got'[to][1] = last
          BY <3>1, <4>1
        <5> QED
          BY <1>1, <2>1, <2>3, <3>4, <5>1, TelemetryAssumption DEF Lacks, Events
      <4> QED
        BY <4>1
    <3>6. Len(got[to]) >= 1 /\ got'[to][1] = got[to][1]
      BY <3>1, <3>5
    <3>7. Lacks(c, n)
      BY <2>1, <2>3, <3>1, <3>5, <3>6 DEF Lacks
    <3> QED
      BY <1>1, <2>3, <3>4, <3>7 DEF Owed, Passed
  <2> QED
    BY <2>2, <2>3
<1>3. Owed' \subseteq Owed /\ Gone' = Gone
  BY <1>1, <1>2 DEF Owed, Gone
<1>4. IsFiniteSet(Owed) /\ IsFiniteSet(Owed') /\ IsFiniteSet(Gone)
  BY OwedFinite DEF Owed, Gone
<1>5. Cardinality(Owed') <= Cardinality(Owed)
  BY <1>3, <1>4, FS_Subset
<1>6. /\ Cardinality(Owed) \in Nat /\ Cardinality(Owed') \in Nat
      /\ Cardinality(Gone) \in Nat
  BY <1>4, FS_CardinalityType
<1> HIDE DEF Owed, Gone
<1> QED
  BY <1>3, <1>5, <1>6 DEF OwedInv

LEMMA NextOwedInv == IInv /\ ListInv /\ ListInv' /\ OwedInv /\ [Next]_vars => OwedInv'
<1> SUFFICES ASSUME IInv, ListInv, ListInv', OwedInv, [Next]_vars PROVE OwedInv'
  OBVIOUS
<1>1. CASE UNCHANGED vars
  BY <1>1, OwedShrinks DEF vars, Gone, Passed
<1>2. CASE Publish \/ Shutdown \/ ClosePools
  BY <1>2, OwedShrinks DEF Publish, Shutdown, ClosePools, Gone, Passed
<1>3. CASE Exit
  BY <1>3, OwedShrinks DEF Exit, Gone
<1>4. CASE ReadFails \/ Wake
  <2>1. /\ UNCHANGED <<active, conn, got>>
        /\ consumer \in NotSending /\ consumer' \in NotSending
        /\ consumer'.last = consumer.last
        /\ consumer.pc # "stopped"
    <3>1. consumer \in NotSending
      BY <1>4 DEF ReadFails, Wake, At, IInv, TypeOK, Sending
    <3> QED
      BY <1>4, <3>1 DEF ReadFails, Wake, At, NotSending
  <2> QED
    BY <2>1, OwedShrinks DEF NotSending, Gone, Passed
<1>5. CASE Stop
  BY <1>5, OwedShrinks DEF Stop, Gone, Passed
<1>6. CASE Restart
  <2>1. \A c \in Clients : conn[c] # "open"
    BY <1>6 DEF Restart, ListInv, OpenListed, IInv, StoppedLast
  <2> QED
    BY <1>6, <2>1, OwedShrinks DEF Restart, Gone
<1>7. CASE Drain
  BY <1>7, OwedShrinks DEF Drain, Gone, IInv, TypeOK
<1>8. ASSUME NEW c \in Clients, PeerCloses(c) PROVE OwedInv'
  BY <1>8, OwedShrinks DEF PeerCloses, Gone, Passed, IInv, TypeOK
<1>9. ASSUME NEW c \in Clients, Connect(c) \/ Disconnect(c) PROVE OwedInv'
  BY <1>9, ConnectOwes, DisconnectOwes
<1>10. CASE Read \/ Send \/ SendToClosed
  BY <1>10, ReadOwes, SendOwes, SendToClosedOwes
<1> QED
  BY <1>1, <1>2, <1>3, <1>4, <1>5, <1>6, <1>7, <1>8, <1>9, <1>10 DEF Next

LEMMA OwedInvariant == Spec => []OwedInv
<1>1. Init => OwedInv
  <2> SUFFICES ASSUME Init PROVE OwedInv
    OBVIOUS
  <2>1. Owed = {} /\ Gone = {}
    BY DEF Init, Owed, Lacks, Gone
  <2> QED
    BY <2>1, FS_EmptySet DEF OwedInv
<1>2. IInv /\ ListInv /\ ListInv' /\ OwedInv /\ [Next]_vars => OwedInv'
  BY NextOwedInv
<1> QED
  BY <1>1, <1>2, IInvariant, ListInvariant, PTL DEF Spec

-----------------------------------------------------------------------------

\* The stream, the list and the consumer are well typed; only connections
\* whose endpoint runs are listed.
THEOREM TelemetryTypes == Spec => []TypeOK
<1>1. IInv => TypeOK
  BY DEF IInv
<1> QED
  BY <1>1, IInvariant, PTL

\* No connection receives an event twice or out of order, although the list is
\* changed while it is iterated.
THEOREM EventsInOrder == Spec => []InOrderOnce
<1>1. IInv => InOrderOnce
  BY DEF IInv
<1> QED
  BY <1>1, IInvariant, PTL

\* However connections come, die and leave, a broadcast that iterates the live
\* list costs the others one event for every connection that has left, at most.
THEOREM MissedBounded == Spec => []MissedByDepartures
<1>1. IInv /\ OwedInv => MissedByDepartures
  <2> SUFFICES ASSUME IInv, OwedInv PROVE MissedByDepartures
    OBVIOUS
  <2>1. Missed \subseteq Owed
    BY DEF Missed, Owed, Lacks, Events
  <2>2. IsFiniteSet(Owed) /\ IsFiniteSet(Gone)
    BY OwedFinite DEF Owed, Gone
  <2>3. IsFiniteSet(Missed) /\ Cardinality(Missed) <= Cardinality(Owed)
    BY <2>1, <2>2, FS_Subset
  <2>4. /\ Cardinality(Missed) \in Nat /\ Cardinality(Owed) \in Nat
        /\ Cardinality(Gone) \in Nat
    BY <2>2, <2>3, FS_CardinalityType
  <2> HIDE DEF Missed, Owed
  <2> QED
    BY <2>3, <2>4 DEF OwedInv, Gone, MissedByDepartures
<1> QED
  BY <1>1, IInvariant, OwedInvariant, PTL
=============================================================================
