---------------------------- MODULE CausalProofs ----------------------------
(***************************************************************************)
(* For any number of sources and calls: types, the order of recording and  *)
(* analysis, the one direction of the shared cache, and what a walk finds. *)
(*                                                                         *)
(* The argument for the cache: what a task has read stays a set of edges,  *)
(* because edges are only added, and an install replaces the whole map.    *)
(* The argument for the walks: an edge is only added into a span nobody    *)
(* has been told of, or into what the split leaves of one; neither has     *)
(* children, so that nothing changes upstream of a call that is analysed,  *)
(* and no new way leads down to it.                                        *)
(***************************************************************************)
EXTENDS Causal, TLAPS

ReadsOK == \A c \in Calls : call[c].pairs \subseteq edges

\* A task that walks down knows where from.
Chosen(r) == r.pc \in {"downEdges", "downInstall", "handedOver"} => r.zero \in Names

ZeroChosen == \A c \in Calls : Chosen(call[c])

IInv == TypeOK /\ ZeroChosen /\ ReadsOK /\ OwnEdgeRecorded /\ CacheOneDirection

-----------------------------------------------------------------------------

LEMMA InverseInverse ==
    ASSUME NEW R \in SUBSET Pairs
    PROVE  Inverse(R) \in SUBSET Pairs /\ Inverse(Inverse(R)) = R
<1>1. ASSUME NEW e \in R
      PROVE  /\ e[1] \in Names /\ e[2] \in Names
             /\ e = <<e[1], e[2]>>
             /\ <<e[2], e[1]>>[1] = e[2] /\ <<e[2], e[1]>>[2] = e[1]
  BY DEF Pairs
<1>2. Inverse(R) \in SUBSET Pairs
  BY <1>1 DEF Inverse, Pairs
<1>3. ASSUME NEW e \in R PROVE e \in Inverse(Inverse(R))
  <2>1. <<e[2], e[1]>> \in Inverse(R)
    BY DEF Inverse
  <2> QED
    BY <1>1, <2>1 DEF Inverse
<1>4. ASSUME NEW e \in Inverse(Inverse(R)) PROVE e \in R
  <2>1. PICK d \in R : e = <<<<d[2], d[1]>>[2], <<d[2], d[1]>>[1]>>
    BY DEF Inverse
  <2> QED
    BY <1>1, <2>1
<1> QED
  BY <1>2, <1>3, <1>4

LEMMA InverseMonotone ==
    ASSUME NEW R, NEW S, R \subseteq S PROVE Inverse(R) \subseteq Inverse(S)
BY DEF Inverse

\* A cached map whose direction is right stays so while edges are added.
LEMMA DirectionStays ==
    ASSUME CacheOneDirection, edges \subseteq edges', cache'.map = cache.map
    PROVE  CacheOneDirection'
BY DEF CacheOneDirection

LEMMA NearestWithin ==
    ASSUME NEW map, NEW s, NEW C PROVE Nearest(map, s, C) \subseteq C
BY DEF Nearest

\* A walk visits names.
LEMMA ReachedNames ==
    ASSUME NEW R \in SUBSET Pairs, NEW s \in Names
    PROVE  Reached(R, s) \in SUBSET Names
BY DEF Reached, Pairs

LEMMA SpansAreNames == Calls \subseteq Names /\ Sources \subseteq Names /\ Spans \subseteq Names
BY DEF Names, Spans

\* The edge of a call is a pair of names, or none.
LEMMA EdgeIsPair ==
    ASSUME NEW c \in Calls, NEW E \in Edge(c)
    PROVE  /\ E \in SUBSET Pairs
           /\ \A e \in E : e[1] \in Known \cup Strangers /\ e[2] \in {c, Torn}
BY DEF Edge, Known, Pairs, Names, Spans

-----------------------------------------------------------------------------

LEMMA InitIInv == Init => IInv
<1> SUFFICES ASSUME Init PROVE IInv
  OBVIOUS
<1>1. NotCalled \in CallType
  BY DEF NotCalled, CallType, Recording
<1>2. TypeOK
  BY <1>1 DEF Init, TypeOK
<1>3. ZeroChosen /\ ReadsOK /\ OwnEdgeRecorded
  BY DEF Init, NotCalled, ZeroChosen, Chosen, ReadsOK, OwnEdgeRecorded, Analysing
<1>4. CacheOneDirection
  BY DEF Init, CacheOneDirection
<1> QED
  BY <1>2, <1>3, <1>4 DEF IInv

\* A step that changes the record of one call only keeps what is known of
\* every call, if it does of its own.
LEMMA OneCallKeeps ==
    ASSUME IInv, NEW c \in Calls, NEW r \in CallType,
           call' = [call EXCEPT ![c] = r],
           edges \subseteq edges',
           r.pairs \subseteq edges', Chosen(r),
           r.pc \in Analysing => r.edge \subseteq edges'
    PROVE  /\ call' \in [Calls -> CallType]
           /\ ZeroChosen' /\ ReadsOK' /\ OwnEdgeRecorded'
<1>1. /\ call' \in [Calls -> CallType]
      /\ call'[c] = r
      /\ \A d \in Calls \ {c} : call'[d] = call[d]
  BY DEF IInv, TypeOK
<1> QED
  BY <1>1 DEF IInv, ZeroChosen, Chosen, ReadsOK, OwnEdgeRecorded

LEMMA IngestKeeps ==
    ASSUME IInv, NEW s \in Sources, NEW p \in Spans \cup {NoSpan}, Ingest(s, p)
    PROVE  IInv'
<1>1. edges \subseteq edges' /\ edges' \in SUBSET Pairs
  BY SpansAreNames DEF Ingest, IInv, TypeOK, Pairs
<1>2. TypeOK'
  BY <1>1, SpansAreNames DEF Ingest, IInv, TypeOK
<1>3. ZeroChosen' /\ ReadsOK' /\ OwnEdgeRecorded'
  BY <1>1 DEF Ingest, IInv, ZeroChosen, Chosen, ReadsOK, OwnEdgeRecorded
<1>4. CacheOneDirection'
  BY <1>1, DirectionStays DEF Ingest, IInv
<1> QED
  BY <1>2, <1>3, <1>4 DEF IInv

LEMMA CallKeeps ==
    ASSUME IInv, NEW c \in Calls, NEW E \in Edge(c), Call(c, E)
    PROVE  IInv'
<1>1. PICK pc \in {IF E = {} THEN "scheduled" ELSE "edge", "lost"} :
         call' = [call EXCEPT ![c].pc = pc, ![c].edge = E]
  BY DEF Call
<1> DEFINE r == [call[c] EXCEPT !.pc = pc, !.edge = E]
<1>2. /\ pc \in Recording \cup Analysing \cup Ended
      /\ pc \in Analysing => E = {}
  BY DEF Recording, Analysing
<1>3. call' = [call EXCEPT ![c] = r]
  BY <1>1 DEF IInv, TypeOK
<1>4. r \in CallType /\ r.pairs = call[c].pairs /\ r.edge = E /\ r.pc = pc
  <2>1. call[c] \in CallType /\ E \in SUBSET Pairs
    BY EdgeIsPair DEF IInv, TypeOK
  <2> HIDE DEF Edge
  <2> QED
    BY <1>2, <2>1 DEF CallType
<1> HIDE DEF r
<1>5. call' \in [Calls -> CallType] /\ ZeroChosen' /\ ReadsOK' /\ OwnEdgeRecorded'
  <2>1. Chosen(r)
    BY <1>1, <1>4 DEF Chosen
  <2> QED
    BY <1>2, <1>3, <1>4, <2>1, OneCallKeeps DEF Call, IInv, ReadsOK
<1>6. TypeOK'
  BY <1>5, SpansAreNames DEF Call, IInv, TypeOK
<1>7. CacheOneDirection'
  BY DirectionStays DEF Call, IInv
<1> QED
  BY <1>5, <1>6, <1>7 DEF IInv

\* The edge is recorded, or the request fails and it may be.
LEMMA RecordEdgeKeeps ==
    ASSUME IInv, NEW c \in Calls, RecordEdge(c) \/ LoseEdge(c)  PROVE IInv'
<1>1. PICK pc \in {"scheduled", "lost"} :
         /\ call' = [call EXCEPT ![c].pc = pc]
         /\ edges' \in {edges, edges \cup call[c].edge}
         /\ pc = "scheduled" => call[c].edge \subseteq edges'
         /\ UNCHANGED <<node, cache>>
  BY DEF RecordEdge, LoseEdge
<1> DEFINE r == [call[c] EXCEPT !.pc = pc]
<1>2. r \in CallType /\ r.pairs = call[c].pairs /\ r.edge = call[c].edge /\ r.pc = pc
  <2>1. call[c] \in CallType
    BY DEF IInv, TypeOK
  <2>2. pc \in Recording \cup Analysing \cup Ended
    BY DEF Analysing, Recording
  <2> QED
    BY <2>1, <2>2 DEF CallType
<1>3. call' = [call EXCEPT ![c] = r]
  BY <1>1 DEF IInv, TypeOK
<1> HIDE DEF r
<1>4. edges \subseteq edges' /\ edges' \in SUBSET Pairs
  <2>1. call[c].edge \in SUBSET Pairs
    BY DEF IInv, TypeOK, CallType
  <2> QED
    BY <1>1, <2>1 DEF IInv, TypeOK
<1>5. call' \in [Calls -> CallType] /\ ZeroChosen' /\ ReadsOK' /\ OwnEdgeRecorded'
  <2>1. r.pc \in Analysing => r.edge \subseteq edges'
    BY <1>1, <1>2 DEF Analysing
  <2>2. r.pairs \subseteq edges'
    BY <1>2, <1>4 DEF IInv, ReadsOK
  <2> QED
    BY <1>2, <1>3, <1>4, <2>1, <2>2, OneCallKeeps DEF Chosen
<1>6. TypeOK'
  BY <1>1, <1>4, <1>5 DEF IInv, TypeOK
<1>7. CacheOneDirection'
  BY <1>1, <1>4, DirectionStays DEF IInv
<1> QED
  BY <1>5, <1>6, <1>7 DEF IInv

\* A step of one Sentinel task that leaves the DAG alone.
LEMMA SentinelStepKeeps ==
    ASSUME IInv, NEW c \in Calls, NEW r \in CallType,
           call' = [call EXCEPT ![c] = r],
           UNCHANGED edges,
           node' \in [Names -> {"NONE", "INPUT_INGEST", "TOOL_CALL"}],
           cache' \in [map : SUBSET Pairs, fresh : BOOLEAN],
           CacheOneDirection',
           call[c].pc \in Analysing,
           r.edge = call[c].edge, r.pairs \subseteq edges, Chosen(r)
    PROVE  IInv'
<1>1. call' \in [Calls -> CallType] /\ ZeroChosen' /\ ReadsOK' /\ OwnEdgeRecorded'
  BY OneCallKeeps DEF IInv, OwnEdgeRecorded
<1>2. TypeOK'
  BY <1>1 DEF IInv, TypeOK
<1> QED
  BY <1>1, <1>2 DEF IInv

LEMMA WalkKeeps ==
    ASSUME IInv, NEW c \in Calls, Walk(c)  PROVE IInv'
<1>1. call[c] \in CallType /\ cache.map \in SUBSET Pairs /\ CacheOneDirection'
  BY DEF Walk, IInv, TypeOK, CacheOneDirection
<1>2. CASE CacheHit
  <2> DEFINE r == [call[c] EXCEPT !.pc = "fetch", !.map = cache.map, !.origin = "cache"]
  <2>1. r \in CallType /\ r.edge = call[c].edge /\ r.pc = "fetch"
        /\ r.pairs = call[c].pairs
    BY <1>1 DEF CallType, Analysing
  <2>2. call' = [call EXCEPT ![c] = r]
    BY <1>2 DEF Walk, IInv, TypeOK
  <2> HIDE DEF r
  <2> QED
    BY <1>1, <2>1, <2>2, SentinelStepKeeps DEF Walk, IInv, TypeOK, ReadsOK, Analysing, Chosen
<1>3. CASE ~CacheHit
  <2> DEFINE r == [call[c] EXCEPT !.pc = "upEdges"]
  <2>1. r \in CallType /\ r.edge = call[c].edge /\ r.pc = "upEdges"
        /\ r.pairs = call[c].pairs
    BY <1>1 DEF CallType, Analysing
  <2>2. call' = [call EXCEPT ![c] = r]
    BY <1>3 DEF Walk, IInv, TypeOK
  <2> HIDE DEF r
  <2> QED
    BY <1>1, <2>1, <2>2, SentinelStepKeeps DEF Walk, IInv, TypeOK, ReadsOK, Analysing, Chosen
<1> QED
  BY <1>2, <1>3

LEMMA ReadEdgesKeeps ==
    ASSUME IInv, NEW c \in Calls, ReadEdges(c)  PROVE IInv'
<1> DEFINE r(pc) == [call[c] EXCEPT !.pc = pc, !.pairs = edges]
<1>1. call[c] \in CallType /\ edges \in SUBSET Pairs /\ CacheOneDirection'
  BY DEF ReadEdges, IInv, TypeOK, CacheOneDirection
<1>2. PICK pc \in {"upInstall", "downInstall"} :
         /\ call' = [call EXCEPT ![c] = r(pc)]
         /\ pc = "downInstall" => call[c].zero \in Names
  BY DEF ReadEdges, IInv, TypeOK, ZeroChosen, Chosen
<1>3. r(pc) \in CallType /\ r(pc).edge = call[c].edge /\ r(pc).pc = pc
      /\ r(pc).pairs = edges /\ Chosen(r(pc))
  BY <1>1, <1>2 DEF CallType, Analysing, Chosen
<1>4. call[c].pc \in Analysing
  BY DEF ReadEdges, Analysing
<1> HIDE DEF r
<1> QED
  BY <1>1, <1>2, <1>3, <1>4, SentinelStepKeeps DEF ReadEdges, IInv, TypeOK

LEMMA InstallUpKeeps ==
    ASSUME IInv, NEW c \in Calls, InstallUp(c)  PROVE IInv'
<1> DEFINE parents_of == Inverse(call[c].pairs)
           r == [call[c] EXCEPT !.pc = "fetch", !.pairs = {}, !.map = parents_of]
<1>1. call[c] \in CallType /\ call[c].pairs \in SUBSET Pairs /\ call[c].pairs \subseteq edges
  BY DEF IInv, TypeOK, CallType, ReadsOK
<1>2. parents_of \in SUBSET Pairs /\ Inverse(parents_of) = call[c].pairs
  BY <1>1, InverseInverse
<1>3. call' = [call EXCEPT ![c] = r] /\ cache' = [map |-> parents_of, fresh |-> TRUE]
  BY DEF InstallUp, IInv, TypeOK
<1>4. CacheOneDirection'
  BY <1>1, <1>2, <1>3 DEF CacheOneDirection, InstallUp
<1> HIDE DEF parents_of
<1>5. r \in CallType /\ r.edge = call[c].edge /\ r.pc = "fetch" /\ r.pairs = {}
  BY <1>1, <1>2 DEF CallType, Analysing
<1>6. call[c].pc \in Analysing
  BY DEF InstallUp, Analysing
<1>7. cache' \in [map : SUBSET Pairs, fresh : BOOLEAN]
  BY <1>2, <1>3
<1> HIDE DEF r
<1> QED
  BY <1>3, <1>4, <1>5, <1>6, <1>7, SentinelStepKeeps
  DEF InstallUp, IInv, TypeOK, Chosen

LEMMA FetchKeeps ==
    ASSUME IInv, NEW c \in Calls, Fetch(c)  PROVE IInv'
<1> DEFINE C == {s \in Reached(call[c].map, c) : node[s] = "INPUT_INGEST"}
           near == Nearest(call[c].map, c, C)
<1>1. call[c] \in CallType /\ call[c].pc \in Analysing /\ CacheOneDirection'
  BY DEF Fetch, IInv, TypeOK, Analysing, CacheOneDirection
<1>2. near \subseteq Names
  <2>1. call[c].map \in SUBSET Pairs /\ c \in Names
    BY SpansAreNames DEF IInv, TypeOK, CallType
  <2> QED
    BY <2>1, ReachedNames, NearestWithin
<1>3. CASE C = {}
  <2> DEFINE r == [call[c] EXCEPT !.pc = "none", !.map = {}]
  <2>1. r \in CallType /\ r.edge = call[c].edge /\ r.pc = "none"
        /\ r.pairs = call[c].pairs
    BY <1>1 DEF CallType, Ended
  <2>2. call' = [call EXCEPT ![c] = r]
    BY <1>3 DEF Fetch, IInv, TypeOK
  <2> HIDE DEF r
  <2> QED
    BY <1>1, <2>1, <2>2, SentinelStepKeeps
    DEF Fetch, IInv, TypeOK, ReadsOK, Chosen
<1>4. CASE C # {}
  <2> DEFINE r == [call[c] EXCEPT !.pc = "choose", !.map = {}, !.near = near]
  <2>1. call' = [call EXCEPT ![c] = r]
    BY <1>4 DEF Fetch, IInv, TypeOK
  <2> HIDE DEF near
  <2>2. r \in CallType /\ r.edge = call[c].edge /\ r.pc = "choose"
        /\ r.pairs = call[c].pairs
    BY <1>1, <1>2 DEF CallType, Analysing
  <2> HIDE DEF r
  <2> QED
    BY <1>1, <2>1, <2>2, SentinelStepKeeps
    DEF Fetch, IInv, TypeOK, ReadsOK, Chosen
<1> QED
  BY <1>3, <1>4

LEMMA ChooseKeeps ==
    ASSUME IInv, NEW c \in Calls, NEW z \in Names, Choose(c, z)  PROVE IInv'
<1> DEFINE D == Reached(cache.map, z)
<1>1. call[c] \in CallType /\ call[c].pc \in Analysing /\ CacheOneDirection'
  BY DEF Choose, IInv, TypeOK, Analysing, CacheOneDirection
<1>2. D \subseteq Names
  BY ReachedNames DEF IInv, TypeOK
<1>3. CASE CacheHit
  <2> DEFINE r == [call[c] EXCEPT !.pc = "handedOver", !.near = {}, !.zero = z,
                                  !.spans = D, !.origin = "cache"]
  <2>1. call' = [call EXCEPT ![c] = r]
    BY <1>3 DEF Choose, IInv, TypeOK
  <2> HIDE DEF D
  <2>2. r \in CallType /\ r.edge = call[c].edge /\ r.pc = "handedOver"
        /\ r.pairs = call[c].pairs /\ r.zero = z
    BY <1>1, <1>2 DEF CallType, Ended
  <2> HIDE DEF r
  <2> QED
    BY <1>1, <2>1, <2>2, SentinelStepKeeps
    DEF Choose, IInv, TypeOK, ReadsOK, Chosen
<1>4. CASE ~CacheHit
  <2> DEFINE r == [call[c] EXCEPT !.pc = "downEdges", !.near = {}, !.zero = z,
                                  !.origin = "redis"]
  <2>1. call' = [call EXCEPT ![c] = r]
    BY <1>4 DEF Choose, IInv, TypeOK
  <2>2. r \in CallType /\ r.edge = call[c].edge /\ r.pc = "downEdges"
        /\ r.pairs = call[c].pairs /\ r.zero = z
    BY <1>1 DEF CallType, Analysing
  <2> HIDE DEF r
  <2> QED
    BY <1>1, <2>1, <2>2, SentinelStepKeeps
    DEF Choose, IInv, TypeOK, ReadsOK, Chosen
<1> QED
  BY <1>3, <1>4

LEMMA InstallDownKeeps ==
    ASSUME IInv, NEW c \in Calls, InstallDown(c)  PROVE IInv'
<1> DEFINE D == Reached(call[c].pairs, call[c].zero)
           r == [call[c] EXCEPT !.pc = "handedOver", !.pairs = {}, !.spans = D]
<1>1. call[c] \in CallType /\ call[c].pairs \in SUBSET Pairs /\ call[c].pairs \subseteq edges
  BY DEF IInv, TypeOK, CallType, ReadsOK
<1>z. call[c].zero \in Names
  BY DEF InstallDown, IInv, ZeroChosen, Chosen
<1>2. D \subseteq Names
  BY <1>1, <1>z, ReachedNames
<1>3. call' = [call EXCEPT ![c] = r] /\ cache' = [map |-> call[c].pairs, fresh |-> TRUE]
  BY DEF InstallDown, IInv, TypeOK
<1>4. CacheOneDirection'
  BY <1>1, <1>3 DEF CacheOneDirection, InstallDown
<1> HIDE DEF D
<1>5. r \in CallType /\ r.edge = call[c].edge /\ r.pc = "handedOver" /\ r.pairs = {}
      /\ r.zero = call[c].zero
  BY <1>1, <1>2 DEF CallType, Ended
<1>6. call[c].pc \in Analysing
  BY DEF InstallDown, Analysing
<1>7. cache' \in [map : SUBSET Pairs, fresh : BOOLEAN]
  BY <1>1, <1>3
<1> HIDE DEF r
<1> QED
  BY <1>3, <1>4, <1>5, <1>6, <1>7, <1>z, SentinelStepKeeps
  DEF InstallDown, IInv, TypeOK, Chosen

\* The steps of a task that only end or move it.
LEMMA BareStepKeeps ==
    ASSUME IInv, NEW c \in Calls,
           Benign(c) \/ Flag(c) \/ SentinelFails(c)
    PROVE  IInv'
<1>1. call[c] \in CallType /\ UNCHANGED <<edges, cache>> /\ CacheOneDirection'
  BY DEF Benign, Flag, SentinelFails, IInv, TypeOK, CacheOneDirection
<1>2. node' \in [Names -> {"NONE", "INPUT_INGEST", "TOOL_CALL"}]
  BY SpansAreNames DEF Benign, Flag, SentinelFails, IInv, TypeOK
<1>3. ASSUME NEW pc \in {"benign", "walk"},
             call' = [call EXCEPT ![c].pc = pc],
             pc = "walk" => call[c].pc \in Analysing
      PROVE  IInv'
  <2> DEFINE r == [call[c] EXCEPT !.pc = pc]
  <2>1. r \in CallType /\ r.edge = call[c].edge /\ r.pc = pc
        /\ r.pairs = call[c].pairs
    BY <1>1 DEF CallType, Recording, Analysing, Ended
  <2>2. call' = [call EXCEPT ![c] = r]
    BY <1>3 DEF IInv, TypeOK
  <2>3. r.pc \in Analysing => call[c].pc \in Analysing
    BY <1>3, <2>1 DEF Analysing
  <2> HIDE DEF r
  <2>4. call' \in [Calls -> CallType] /\ ZeroChosen' /\ ReadsOK' /\ OwnEdgeRecorded'
    BY <1>1, <2>1, <2>2, <2>3, OneCallKeeps
    DEF IInv, ReadsOK, OwnEdgeRecorded, Chosen
  <2> QED
    BY <1>1, <1>2, <2>4 DEF IInv, TypeOK
<1>4. CASE Benign(c) \/ Flag(c)
  BY <1>3, <1>4 DEF Benign, Flag, Analysing
<1>5. CASE SentinelFails(c)
  <2> DEFINE r == [NotCalled EXCEPT !.pc = "gone", !.edge = call[c].edge]
  <2>1. r \in CallType /\ r.edge = call[c].edge /\ r.pc = "gone" /\ r.pairs = {}
    BY <1>1 DEF NotCalled, CallType, Ended
  <2>2. call' = [call EXCEPT ![c] = r] /\ call[c].pc \in Analysing
    BY <1>5 DEF SentinelFails
  <2> HIDE DEF r
  <2> QED
    BY <1>1, <1>2, <2>1, <2>2, SentinelStepKeeps DEF IInv, TypeOK, Chosen
<1> QED
  BY <1>4, <1>5

LEMMA ExpireKeeps == ASSUME IInv, Expire PROVE IInv'
<1>1. cache' \in [map : SUBSET Pairs, fresh : BOOLEAN] /\ cache'.map = {}
  BY DEF Expire
<1>2. CacheOneDirection'
  BY <1>1 DEF CacheOneDirection
<1> QED
  BY <1>1, <1>2
  DEF Expire, IInv, TypeOK, ZeroChosen, Chosen, ReadsOK, OwnEdgeRecorded

LEMMA NextIInv == IInv /\ [Next]_vars => IInv'
<1> SUFFICES ASSUME IInv, [Next]_vars PROVE IInv'
  OBVIOUS
<1>1. CASE UNCHANGED vars
  BY <1>1 DEF vars, IInv, TypeOK, ZeroChosen, Chosen, ReadsOK, OwnEdgeRecorded,
              CacheOneDirection
<1>2. ASSUME NEW s \in Sources, NEW p \in Spans \cup {NoSpan}, Ingest(s, p)
      PROVE  IInv'
  BY <1>2, IngestKeeps
<1>3. ASSUME NEW c \in Calls, NEW E \in Edge(c), Call(c, E)
      PROVE  IInv'
  BY <1>3, CallKeeps
<1>4. ASSUME NEW c \in Calls, NEW z \in Names, Choose(c, z)
      PROVE  IInv'
  BY <1>4, ChooseKeeps
<1>5. ASSUME NEW c \in Calls,
             \/ RecordEdge(c) \/ LoseEdge(c) \/ Benign(c) \/ Flag(c) \/ Walk(c)
             \/ ReadEdges(c) \/ InstallUp(c) \/ Fetch(c) \/ InstallDown(c)
             \/ SentinelFails(c)
      PROVE  IInv'
  BY <1>5, RecordEdgeKeeps, BareStepKeeps, WalkKeeps, ReadEdgesKeeps,
     InstallUpKeeps, FetchKeeps, InstallDownKeeps
<1>6. CASE Expire
  BY <1>6, ExpireKeeps
<1> QED
  BY <1>1, <1>2, <1>3, <1>4, <1>5, <1>6 DEF Next

LEMMA IInvariant == Spec => []IInv
<1>1. Init => IInv
  BY InitIInv
<1>2. IInv /\ [Next]_vars => IInv'
  BY NextIInv
<1> QED
  BY <1>1, <1>2, PTL DEF Spec

-----------------------------------------------------------------------------

(* Walks.                                                                  *)

LEMMA ReachedLeast ==
    ASSUME NEW R, NEW s, NEW C, s \in C, Closed(R, C)
    PROVE  Reached(R, s) \subseteq C
<1> DEFINE Heads == {e[2] : e \in R}
           D == C \cap Heads
<1>1. Closed(R, D \cup {s})
  BY DEF Closed
<1>2. D \in SUBSET Heads
  OBVIOUS
<1> QED
  BY <1>1, <1>2 DEF Reached

LEMMA ReachedClosed ==
    ASSUME NEW R, NEW s
    PROVE  s \in Reached(R, s) /\ Closed(R, Reached(R, s))
<1> DEFINE Heads == {e[2] : e \in R}
<1>1. ASSUME NEW e \in R, e[1] \in Reached(R, s) PROVE e[2] \in Reached(R, s)
  <2>1. e[2] \in Heads
    OBVIOUS
  <2>2. ASSUME NEW C \in SUBSET Heads, Closed(R, C \cup {s}), e[2] # s
        PROVE  e[2] \in C
    BY <1>1, <2>2 DEF Reached, Closed
  <2> QED
    BY <2>1, <2>2 DEF Reached
<1> QED
  BY <1>1 DEF Closed, Reached

LEMMA ReachedMonotone ==
    ASSUME NEW R, NEW S, R \subseteq S, NEW s
    PROVE  Reached(R, s) \subseteq Reached(S, s)
<1>1. s \in Reached(S, s) /\ Closed(R, Reached(S, s))
  BY ReachedClosed DEF Closed
<1> QED
  BY <1>1, ReachedLeast

\* The inverse of a map that holds inverted edges holds edges, and vice versa.
LEMMA InverseWithin ==
    ASSUME NEW R \in SUBSET Pairs, NEW S, Inverse(R) \subseteq S
    PROVE  R \subseteq Inverse(S)
BY InverseInverse, InverseMonotone

-----------------------------------------------------------------------------
(* What lies upstream of an analysed call does not change any more.        *)

Named == Known \cup Strangers

\* Only names that somebody can send have children.
ParentsKnown ==
    /\ \A e \in edges : e[1] \in Named
    /\ \A c \in Calls : call[c].pc = "edge" =>
          \A e \in call[c].edge : e[1] \in Named /\ e[2] \in {c, Torn}

\* The DAG grows by edges into X, names nobody can send.
GrowsAt(X) == /\ edges \subseteq edges'
              /\ \A e \in edges' \ edges : e[2] \in X

LEMMA UpstreamFrozen ==
    ASSUME ParentsKnown, NEW X, X \cap Named = {}, GrowsAt(X), NEW c, c \notin X
    PROVE  /\ X \cap Reached(Inverse(edges), c) = {}
           /\ Reached(Inverse(edges'), c) \subseteq Reached(Inverse(edges), c)
<1> DEFINE R == Reached(Inverse(edges), c)
<1>1. Closed(Inverse(edges), R \ X)
  <2> SUFFICES ASSUME NEW e \in edges, <<e[2], e[1]>>[1] \in R \ X
               PROVE  <<e[2], e[1]>>[2] \in R \ X
    BY DEF Closed, Inverse
  <2>1. <<e[2], e[1]>> \in Inverse(edges)
    BY DEF Inverse
  <2> QED
    BY <2>1, ReachedClosed DEF Closed, ParentsKnown
<1>2. c \in R /\ Closed(Inverse(edges), R)
  BY ReachedClosed
<1>3. R \cap X = {}
  BY <1>1, <1>2, ReachedLeast
<1>4. Closed(Inverse(edges'), R)
  <2> SUFFICES ASSUME NEW e \in edges', <<e[2], e[1]>>[1] \in R
               PROVE  <<e[2], e[1]>>[2] \in R
    BY DEF Closed, Inverse
  <2>1. CASE e \in edges
    <3>1. <<e[2], e[1]>> \in Inverse(edges)
      BY <2>1 DEF Inverse
    <3> QED
      BY <3>1, <1>2 DEF Closed
  <2>2. CASE e \notin edges
    BY <2>2, <1>3 DEF GrowsAt
  <2> QED
    BY <2>1, <2>2
<1> QED
  BY <1>2, <1>3, <1>4, ReachedLeast

LEMMA DownstreamFrozen ==
    ASSUME ParentsKnown, NEW X, X \cap Named = {}, GrowsAt(X),
           NEW c, c \notin X, NEW z, c \in Reached(edges', z)
    PROVE  c \in Reached(edges, z)
<1> DEFINE R == Reached(edges, z)
<1>1. z \in R /\ Closed(edges, R)
  BY ReachedClosed
<1>2. Closed(edges', R \cup X)
  <2> SUFFICES ASSUME NEW e \in edges', e[1] \in R \cup X
               PROVE  e[2] \in R \cup X
    BY DEF Closed
  <2>1. CASE e \in edges
    BY <1>1, <2>1 DEF Closed, ParentsKnown
  <2>2. CASE e \notin edges
    BY <2>2 DEF GrowsAt
  <2> QED
    BY <2>1, <2>2
<1>3. Reached(edges', z) \subseteq R \cup X
  BY <1>1, <1>2, ReachedLeast
<1> QED
  BY <1>3

-----------------------------------------------------------------------------
(* What a walk that reads the edges itself knows.                          *)

\* One call, for a record r of it.
UpSound(c, r) ==
    /\ r.pc = "upInstall" =>
          Reached(Inverse(edges), c) \subseteq Reached(Inverse(r.pairs), c)
    /\ r.pc = "fetch" /\ r.origin = "redis" =>
          /\ Reached(Inverse(edges), c) \subseteq Reached(r.map, c)
          /\ r.map \subseteq Inverse(edges)
    /\ r.pc = "choose" /\ r.origin = "redis" => r.near \subseteq Upstream(c)
    /\ r.pc = "none" /\ r.origin = "redis" => Upstream(c) = {}

DownSound(c, r) ==
    /\ r.pc = "downInstall" =>
          (c \in Reached(edges, r.zero) => c \in Reached(r.pairs, r.zero))
    /\ r.pc = "handedOver" /\ r.origin = "redis" =>
          (c \in Reached(edges, r.zero) => c \in r.spans)

Kin(r) ==
    r.pc = "handedOver" =>
        /\ r.zero \in r.spans
        /\ r.spans \subseteq Reached(edges, r.zero) \cup Reached(Inverse(edges), r.zero)

Sound == \A c \in Calls : UpSound(c, call[c]) /\ DownSound(c, call[c]) /\ Kin(call[c])

CallsNoSource == \A c \in Calls : node[c] # "INPUT_INGEST"

JInv == ParentsKnown /\ CallsNoSource /\ Sound

LEMMA InitJInv == Init => JInv
BY SpansAreNames
DEF Init, NotCalled, JInv, ParentsKnown, CallsNoSource, Sound, UpSound, DownSound, Kin

\* An edge into what nobody can name changes nothing for the tasks.
LEMMA GrowthKeeps ==
    ASSUME IInv, JInv, NEW X, X \cap Named = {}, GrowsAt(X),
           \A s \in Names : node'[s] = "INPUT_INGEST" => s \in X \/ node[s] = "INPUT_INGEST",
           \A s \in Names : node[s] = "INPUT_INGEST" => node'[s] = "INPUT_INGEST",
           NEW c \in Calls, c \notin X, UNCHANGED call[c]
    PROVE  UpSound(c, call[c])' /\ DownSound(c, call[c])' /\ Kin(call[c])'
<1> DEFINE r == call[c]
<1>1. ParentsKnown /\ edges \in SUBSET Pairs /\ c \in Names
  BY SpansAreNames DEF IInv, JInv, TypeOK
<1>2. /\ X \cap Reached(Inverse(edges), c) = {}
      /\ Reached(Inverse(edges'), c) \subseteq Reached(Inverse(edges), c)
  BY <1>1, UpstreamFrozen
<1>3. ASSUME NEW z, c \in Reached(edges', z) PROVE c \in Reached(edges, z)
  BY <1>1, <1>3, DownstreamFrozen
<1>4. UpSound(c, r) /\ DownSound(c, r) /\ Kin(r)
  BY DEF JInv, Sound
<1>5. edges \subseteq edges' /\ Inverse(edges) \subseteq Inverse(edges')
  BY InverseMonotone DEF GrowsAt
<1>6. UpSound(c, r)'
  <2>1. Reached(Inverse(edges), c) \in SUBSET Names
    BY <1>1, InverseInverse, ReachedNames
  <2>2. Reached(Inverse(edges'), c) = Reached(Inverse(edges), c)
    BY <1>2, <1>5, ReachedMonotone
  <2>3. Upstream(c)' = Upstream(c)
    BY <1>2, <2>1, <2>2 DEF Upstream
  <2> QED
    BY <1>4, <1>5, <2>2, <2>3 DEF UpSound
<1>7. DownSound(c, r)'
  BY <1>3, <1>4 DEF DownSound
<1>8. Kin(r)'
  <2>1. /\ Reached(edges, r.zero) \subseteq Reached(edges', r.zero)
        /\ Reached(Inverse(edges), r.zero) \subseteq Reached(Inverse(edges'), r.zero)
    BY <1>5, ReachedMonotone
  <2> QED
    BY <1>4, <2>1 DEF Kin
<1> QED
  BY <1>6, <1>7, <1>8

LEMMA IngestSound ==
    ASSUME IInv, JInv, NEW s \in Sources, NEW p \in Spans \cup {NoSpan}, Ingest(s, p)
    PROVE  JInv'
<1>1. s \notin Named /\ Known' = Known \cup {s} /\ s \in Names /\ UNCHANGED call
  BY SpansAssumption, SpansAreNames DEF Ingest, Known, Named, Spans, IInv, TypeOK
<1>2. GrowsAt({s}) /\ \A e \in edges' \ edges : e[1] \in Known
  BY DEF Ingest, GrowsAt
<1>3. /\ \A x \in Names : node'[x] = "INPUT_INGEST" => x = s \/ node[x] = "INPUT_INGEST"
      /\ \A x \in Names : node[x] = "INPUT_INGEST" => node'[x] = "INPUT_INGEST"
  BY DEF Ingest, IInv, TypeOK
<1>4. ParentsKnown'
  BY <1>1, <1>2 DEF JInv, ParentsKnown, Named
<1>5. CallsNoSource'
  BY <1>3, SpansAssumption, SpansAreNames DEF JInv, CallsNoSource
<1>6. ASSUME NEW c \in Calls
      PROVE  UpSound(c, call[c])' /\ DownSound(c, call[c])' /\ Kin(call[c])'
  <2>1. c \notin {s} /\ {s} \cap Named = {}
    BY <1>1, SpansAssumption
  <2> QED
    BY <1>1, <1>2, <1>3, <2>1, GrowthKeeps
<1> QED
  BY <1>4, <1>5, <1>6 DEF JInv, Sound

\* The edge of a call is recorded, or may be: it leads into the call, which nobody
\* has been told of, or into the torn name.
LEMMA RecordEdgeSound ==
    ASSUME IInv, JInv, NEW c \in Calls, RecordEdge(c) \/ LoseEdge(c) PROVE JInv'
<1> DEFINE X == {c, Torn}
<1>1. call[c].pc = "edge" /\ UNCHANGED node
  BY DEF RecordEdge, LoseEdge
<1>2. X \cap Named = {}
  BY <1>1, SpansAssumption DEF Named, Known, Names, Spans, Recording
<1>3. \A e \in call[c].edge : e[1] \in Named /\ e[2] \in X
  BY <1>1 DEF JInv, ParentsKnown
<1>4. GrowsAt(X) /\ \A e \in edges' : e \in edges \/ e \in call[c].edge
  BY <1>3 DEF RecordEdge, LoseEdge, GrowsAt
<1>5. /\ call'[c].pc \in {"scheduled", "lost"}
      /\ \A d \in Calls \ {c} : call'[d] = call[d]
  <2>1. PICK pc \in {"scheduled", "lost"} : call' = [call EXCEPT ![c].pc = pc]
    BY DEF RecordEdge, LoseEdge
  <2>2. call[c] \in CallType
    BY DEF IInv, TypeOK
  <2> QED
    BY <2>1, <2>2 DEF IInv, TypeOK, CallType
<1> HIDE DEF X
<1>6. Named \subseteq Named'
  BY <1>1, <1>5 DEF Named, Known, Recording
<1>7. ParentsKnown'
  BY <1>3, <1>4, <1>5, <1>6 DEF JInv, ParentsKnown
<1>8. CallsNoSource'
  BY <1>1 DEF JInv, CallsNoSource
<1>9. ASSUME NEW d \in Calls
      PROVE  UpSound(d, call[d])' /\ DownSound(d, call[d])' /\ Kin(call[d])'
  <2>1. CASE d # c
    <3>1. d \notin X
      BY <2>1, SpansAssumption DEF X, Spans
    <3> QED
      BY <1>1, <1>2, <1>4, <1>5, <2>1, <3>1, GrowthKeeps
  <2>2. CASE d = c
    BY <1>5, <2>2 DEF UpSound, DownSound, Kin
  <2> QED
    BY <2>1, <2>2
<1> QED
  BY <1>7, <1>8, <1>9 DEF JInv, Sound

\* A step of one task that leaves the edges alone and makes no source.
LEMMA TaskStepSound ==
    ASSUME IInv, JInv, UNCHANGED edges, NEW c \in Calls,
           \A d \in Calls \ {c} : call'[d] = call[d],
           \A s \in Names : node'[s] = "INPUT_INGEST" <=> node[s] = "INPUT_INGEST",
           \A s \in Sources : node[s] # "NONE" => node'[s] # "NONE",
           call[c].pc \notin Recording => call'[c].pc \notin Recording,
           call'[c].pc = "edge" =>
               \A e \in call'[c].edge : e[1] \in Named /\ e[2] \in {c, Torn},
           UpSound(c, call'[c]), DownSound(c, call'[c]), Kin(call'[c])
    PROVE  JInv'
<1>1. Named \subseteq Named'
  BY DEF Named, Known
<1>2. ParentsKnown' /\ CallsNoSource'
  BY <1>1, SpansAreNames DEF JInv, ParentsKnown, CallsNoSource
<1>3. ASSUME NEW d \in Calls, UpSound(d, call'[d]), DownSound(d, call'[d]), Kin(call'[d])
      PROVE  UpSound(d, call[d])' /\ DownSound(d, call[d])' /\ Kin(call[d])'
  <2>1. Reached(Inverse(edges), d) \in SUBSET Names
    BY SpansAreNames, InverseInverse, ReachedNames DEF IInv, TypeOK
  <2>2. Upstream(d)' = Upstream(d)
    BY <2>1 DEF Upstream
  <2> QED
    BY <1>3, <2>2 DEF UpSound, DownSound, Kin
<1>4. ASSUME NEW d \in Calls \ {c}
      PROVE  UpSound(d, call'[d]) /\ DownSound(d, call'[d]) /\ Kin(call'[d])
  BY DEF JInv, Sound
<1> QED
  BY <1>2, <1>3, <1>4 DEF JInv, Sound

LEMMA CallSound ==
    ASSUME IInv, JInv, NEW c \in Calls, NEW E \in Edge(c), Call(c, E)
    PROVE  JInv'
<1>1. PICK pc \in {IF E = {} THEN "scheduled" ELSE "edge", "lost"} :
         call' = [call EXCEPT ![c].pc = pc, ![c].edge = E]
  BY DEF Call
<1>2. /\ \A d \in Calls \ {c} : call'[d] = call[d]
      /\ call'[c].pc = pc /\ call'[c].edge = E /\ call[c].pc = "idle"
  BY <1>1 DEF Call, IInv, TypeOK, CallType
<1>3. /\ \A s \in Names : node'[s] = "INPUT_INGEST" <=> node[s] = "INPUT_INGEST"
      /\ \A s \in Sources : node[s] # "NONE" => node'[s] # "NONE"
      /\ UNCHANGED edges
  BY SpansAssumption, SpansAreNames DEF Call, IInv, JInv, CallsNoSource, TypeOK
<1>4. \A e \in E : e[1] \in Named /\ e[2] \in {c, Torn}
  BY EdgeIsPair DEF Named
<1>5. pc \in {"scheduled", "edge", "lost"}
  OBVIOUS
<1>6. UpSound(c, call'[c]) /\ DownSound(c, call'[c]) /\ Kin(call'[c])
  BY <1>2, <1>5 DEF UpSound, DownSound, Kin
<1>7. call[c].pc \in Recording
  BY <1>2 DEF Recording
<1> QED
  BY <1>2, <1>3, <1>4, <1>6, <1>7, TaskStepSound

LEMMA BareStepSound ==
    ASSUME IInv, JInv, NEW c \in Calls, Benign(c) \/ Flag(c) \/ SentinelFails(c)
    PROVE  JInv'
<1>1. /\ \A d \in Calls \ {c} : call'[d] = call[d]
      /\ call'[c].pc \in {"benign", "walk", "gone"}
      /\ call[c].pc \notin Recording => call'[c].pc \notin Recording
  <2>1. CASE Benign(c) \/ Flag(c)
    BY <2>1 DEF Benign, Flag, IInv, TypeOK, CallType, Recording
  <2>2. CASE SentinelFails(c)
    <3> DEFINE r == [NotCalled EXCEPT !.pc = "gone", !.edge = call[c].edge]
    <3>1. r.pc = "gone" /\ r.pc \notin Recording
      BY DEF NotCalled, Recording
    <3>2. call' = [call EXCEPT ![c] = r]
      BY <2>2 DEF SentinelFails
    <3> HIDE DEF r
    <3> QED
      BY <3>1, <3>2 DEF IInv, TypeOK
  <2> QED
    BY <2>1, <2>2
<1>2. /\ \A s \in Names : node'[s] = "INPUT_INGEST" <=> node[s] = "INPUT_INGEST"
      /\ \A s \in Sources : node[s] # "NONE" => node'[s] # "NONE"
      /\ UNCHANGED edges
  BY SpansAssumption, SpansAreNames
  DEF Benign, Flag, SentinelFails, IInv, JInv, CallsNoSource, TypeOK
<1>3. UpSound(c, call'[c]) /\ DownSound(c, call'[c]) /\ Kin(call'[c])
  BY <1>1 DEF UpSound, DownSound, Kin
<1> QED
  BY <1>1, <1>2, <1>3, TaskStepSound

LEMMA WalkSound == ASSUME IInv, JInv, NEW c \in Calls, Walk(c) PROVE JInv'
<1>1. /\ \A d \in Calls \ {c} : call'[d] = call[d]
      /\ \/ call'[c].pc = "fetch" /\ call'[c].origin = "cache"
         \/ call'[c].pc = "upEdges"
      /\ UNCHANGED <<node, edges>>
  BY DEF Walk, IInv, TypeOK, CallType
<1>2. UpSound(c, call'[c]) /\ DownSound(c, call'[c]) /\ Kin(call'[c])
  BY <1>1 DEF UpSound, DownSound, Kin
<1> QED
  BY <1>1, <1>2, TaskStepSound DEF Recording

LEMMA ReadEdgesSound == ASSUME IInv, JInv, NEW c \in Calls, ReadEdges(c) PROVE JInv'
<1>1. /\ \A d \in Calls \ {c} : call'[d] = call[d]
      /\ \/ call'[c].pc = "upInstall"
         \/ call[c].pc = "downEdges" /\ call'[c].pc = "downInstall"
      /\ call'[c].pairs = edges /\ call'[c].zero = call[c].zero
      /\ UNCHANGED <<node, edges>>
  BY DEF ReadEdges, IInv, TypeOK, CallType
<1>2. UpSound(c, call'[c]) /\ DownSound(c, call'[c]) /\ Kin(call'[c])
  BY <1>1 DEF UpSound, DownSound, Kin
<1> QED
  BY <1>1, <1>2, TaskStepSound DEF Recording

LEMMA InstallUpSound == ASSUME IInv, JInv, NEW c \in Calls, InstallUp(c) PROVE JInv'
<1>1. /\ \A d \in Calls \ {c} : call'[d] = call[d]
      /\ call[c].pc = "upInstall" /\ call'[c].pc = "fetch"
      /\ call'[c].map = Inverse(call[c].pairs)
      /\ UNCHANGED <<node, edges>>
  BY DEF InstallUp, IInv, TypeOK, CallType
<1>2. UpSound(c, call[c]) /\ Inverse(call[c].pairs) \subseteq Inverse(edges)
  BY InverseMonotone DEF JInv, Sound, IInv, ReadsOK
<1>3. UpSound(c, call'[c]) /\ DownSound(c, call'[c]) /\ Kin(call'[c])
  BY <1>1, <1>2 DEF UpSound, DownSound, Kin
<1> QED
  BY <1>1, <1>3, TaskStepSound DEF Recording

LEMMA FetchSound == ASSUME IInv, JInv, NEW c \in Calls, Fetch(c) PROVE JInv'
<1> DEFINE C == {s \in Reached(call[c].map, c) : node[s] = "INPUT_INGEST"}
<1>1. /\ \A d \in Calls \ {c} : call'[d] = call[d]
      /\ call[c].pc = "fetch"
      /\ \/ call'[c].pc = "none" /\ C = {} /\ call'[c].origin = call[c].origin
         \/ /\ call'[c].pc = "choose" /\ call'[c].origin = call[c].origin
            /\ call'[c].near = Nearest(call[c].map, c, C)
      /\ UNCHANGED <<node, edges>>
  BY DEF Fetch, IInv, TypeOK, CallType
<1>2. UpSound(c, call[c])
  BY DEF JInv, Sound
<1>3. UpSound(c, call'[c])
  <2>1. CASE call'[c].pc = "none"
    BY <1>1, <1>2, <2>1 DEF UpSound, Upstream
  <2>2. CASE call'[c].pc = "choose" /\ call[c].origin = "redis"
    <3>1. Reached(call[c].map, c) \subseteq Reached(Inverse(edges), c)
      BY <1>1, <1>2, <2>2, ReachedMonotone DEF UpSound
    <3>2. call'[c].near \subseteq C
      BY <1>1, <2>2, NearestWithin
    <3>3. call'[c].near \subseteq Upstream(c)
      BY <3>1, <3>2 DEF Upstream
    <3> QED
      BY <2>2, <3>3 DEF UpSound
  <2>3. CASE call'[c].pc = "choose" /\ call[c].origin # "redis"
    BY <1>1, <2>3 DEF UpSound
  <2> QED
    BY <1>1, <2>1, <2>2, <2>3
<1>4. DownSound(c, call'[c]) /\ Kin(call'[c])
  BY <1>1 DEF DownSound, Kin
<1> QED
  BY <1>1, <1>3, <1>4, TaskStepSound DEF Recording

LEMMA ChooseSound ==
    ASSUME IInv, JInv, NEW c \in Calls, NEW z \in Names, Choose(c, z) PROVE JInv'
<1> DEFINE D == Reached(cache.map, z)
<1>1. /\ \A d \in Calls \ {c} : call'[d] = call[d]
      /\ call'[c].zero = z
      /\ \/ /\ call'[c].pc = "handedOver" /\ call'[c].spans = D
            /\ call'[c].origin = "cache"
         \/ call'[c].pc = "downEdges"
      /\ UNCHANGED <<node, edges>>
  BY DEF Choose, IInv, TypeOK, CallType
<1>2. UpSound(c, call'[c]) /\ DownSound(c, call'[c])
  BY <1>1 DEF UpSound, DownSound
<1>3. z \in D
  BY ReachedClosed
<1>4. D \subseteq Reached(edges, z) \cup Reached(Inverse(edges), z)
  <2>1. cache.map \in SUBSET Pairs
    BY DEF IInv, TypeOK
  <2>2. CASE cache.map \subseteq edges
    BY <2>2, ReachedMonotone
  <2>3. CASE Inverse(cache.map) \subseteq edges
    <3>1. cache.map \subseteq Inverse(edges)
      BY <2>1, <2>3, InverseWithin
    <3> QED
      BY <3>1, ReachedMonotone
  <2> QED
    BY <2>2, <2>3 DEF IInv, CacheOneDirection
<1> HIDE DEF D
<1>5. Kin(call'[c])
  BY <1>1, <1>3, <1>4 DEF Kin
<1> QED
  BY <1>1, <1>2, <1>5, TaskStepSound DEF Recording

LEMMA InstallDownSound == ASSUME IInv, JInv, NEW c \in Calls, InstallDown(c) PROVE JInv'
<1> DEFINE D == Reached(call[c].pairs, call[c].zero)
<1>1. /\ \A d \in Calls \ {c} : call'[d] = call[d]
      /\ call[c].pc = "downInstall" /\ call'[c].pc = "handedOver"
      /\ call'[c].spans = D /\ call'[c].zero = call[c].zero
      /\ UNCHANGED <<node, edges>>
  BY DEF InstallDown, IInv, TypeOK, CallType
<1>2. DownSound(c, call[c]) /\ call[c].pairs \subseteq edges
  BY <1>1 DEF JInv, Sound, IInv, ReadsOK
<1>3. UpSound(c, call'[c]) /\ DownSound(c, call'[c])
  BY <1>1, <1>2 DEF UpSound, DownSound
<1>4. call[c].zero \in D
  BY ReachedClosed
<1>5. D \subseteq Reached(edges, call[c].zero)
  BY <1>2, ReachedMonotone
<1> HIDE DEF D
<1>6. Kin(call'[c])
  BY <1>1, <1>4, <1>5 DEF Kin
<1> QED
  BY <1>1, <1>2, <1>3, <1>6, TaskStepSound DEF Recording

LEMMA NextJInv == IInv /\ JInv /\ [Next]_vars => JInv'
<1> SUFFICES ASSUME IInv, JInv, [Next]_vars PROVE JInv'
  OBVIOUS
<1>1. CASE UNCHANGED <<node, edges, call>>
  BY <1>1 DEF JInv, ParentsKnown, CallsNoSource, Sound, UpSound, DownSound, Kin,
              Upstream, Named, Known
<1>2. ASSUME NEW s \in Sources, NEW p \in Spans \cup {NoSpan}, Ingest(s, p)
      PROVE  JInv'
  BY <1>2, IngestSound
<1>3. ASSUME NEW c \in Calls, NEW E \in Edge(c), Call(c, E)
      PROVE  JInv'
  BY <1>3, CallSound
<1>4. ASSUME NEW c \in Calls, NEW z \in Names, Choose(c, z)
      PROVE  JInv'
  BY <1>4, ChooseSound
<1>5. ASSUME NEW c \in Calls,
             \/ RecordEdge(c) \/ LoseEdge(c) \/ Benign(c) \/ Flag(c) \/ Walk(c)
             \/ ReadEdges(c) \/ InstallUp(c) \/ Fetch(c) \/ InstallDown(c)
             \/ SentinelFails(c)
      PROVE  JInv'
  BY <1>5, RecordEdgeSound, BareStepSound, WalkSound, ReadEdgesSound,
     InstallUpSound, FetchSound, InstallDownSound
<1>6. CASE Expire \/ UNCHANGED vars
  BY <1>1, <1>6 DEF Expire, vars
<1> QED
  BY <1>2, <1>3, <1>4, <1>5, <1>6 DEF Next

LEMMA JInvariant == Spec => []JInv
<1>1. Init => JInv
  BY InitJInv
<1>2. IInv /\ JInv /\ [Next]_vars => JInv'
  BY NextJInv
<1> QED
  BY <1>1, <1>2, IInvariant, PTL DEF Spec

-----------------------------------------------------------------------------

\* Every state of the DAG, the cache and the tasks is well typed.
THEOREM CausalTypes == Spec => []TypeOK
<1>1. IInv => TypeOK
  BY DEF IInv
<1> QED
  BY <1>1, IInvariant, PTL

\* The Sentinel of a call starts only when the call's own edge is recorded.
THEOREM EdgeBeforeAnalysis == Spec => []OwnEdgeRecorded
<1>1. IInv => OwnEdgeRecorded
  BY DEF IInv
<1> QED
  BY <1>1, IInvariant, PTL

\* The shared cache never mixes the two directions, nor holds anything that is
\* not an edge of the trace.
THEOREM CacheDirection == Spec => []CacheOneDirection
<1>1. IInv => CacheOneDirection
  BY DEF IInv
<1> QED
  BY <1>1, IInvariant, PTL

\* What is quarantined with patient zero is an ancestor or a descendant of it,
\* whichever direction the map had that the task found in the cache.
THEOREM KinQuarantined == Spec => []KinOnly
<1>1. JInv => KinOnly
  BY DEF JInv, Sound, Kin, KinOnly
<1> QED
  BY <1>1, JInvariant, PTL

\* A walk that reads the edges itself blames only sources upstream of the call
\* and misses none when there are any; and it finds the call among the
\* descendants of an upstream patient zero.
THEOREM UncachedWalksSound == Spec => []SoundWithoutCache
<1>1. JInv => SoundWithoutCache
  BY DEF JInv, Sound, UpSound, DownSound, SoundWithoutCache
<1> QED
  BY <1>1, JInvariant, PTL

=============================================================================
