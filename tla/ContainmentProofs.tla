-------------------------- MODULE ContainmentProofs --------------------------
(***************************************************************************)
(* For any agents, sources and calls, and any limit of a search.  Seen     *)
(* from the DAG, the composition behaves as Causal alone does, so that the *)
(* theorems about Causal hold of it.  The argument for the memories: what  *)
(* is excised is covered by an incident on record, what an incident covers *)
(* is never active again, and an incident covers what its task has handed  *)
(* over, which never changes any more.                                     *)
(***************************************************************************)
EXTENDS Containment, CausalProofs

\* Nothing is excised that no incident covers.
ExcisedCovered ==
    \A s \in Names : memory[s] = "EXCISED" \/ taint[s] = "EXCISED" =>
        \E c \in Calls : Recorded(c) /\ s \in incident[c].spans

HeldBack ==
    \A c \in Calls : Recorded(c) => \A s \in incident[c].spans : memory[s] # "ACTIVE"

AskedAfter == \A c \in query.after : Recorded(c)

MInv == /\ MeshTypeOK /\ ExcisedCovered /\ HeldBack
        /\ AskedAfter /\ PatientZeroNotFound

-----------------------------------------------------------------------------
(* Recording and analysis.                                                 *)

\* The composition is Causal with more variables.
LEMMA MeshIsCausal == MeshSpec => Spec
<1>1. MeshInit => Init
  BY DEF MeshInit
<1>2. [MeshNext]_meshVars => [Next]_vars
  BY DEF MeshNext, meshVars, Trace, Quarantine, Ask, Search, Leave
<1> QED
  BY <1>1, <1>2, PTL DEF MeshSpec, Spec

LEMMA MeshInvariant == MeshSpec => [](IInv /\ JInv)
BY MeshIsCausal, IInvariant, JInvariant, PTL

\* A task that has handed over its spans does nothing more.
LEMMA HandedOverStays ==
    ASSUME TypeOK, [Next]_vars, NEW c \in Calls, call[c].pc = "handedOver"
    PROVE  call'[c] = call[c]
<1>1. ASSUME NEW d \in Calls, NEW E, Call(d, E)  PROVE call'[c] = call[c]
  <2>1. d # c /\ \E pc : call' = [call EXCEPT ![d].pc = pc, ![d].edge = E]
    BY <1>1 DEF Call
  <2> QED
    BY <2>1 DEF TypeOK
<1>2. ASSUME NEW d \in Calls, RecordEdge(d) \/ LoseEdge(d) \/ Benign(d) \/ Flag(d)
      PROVE  call'[c] = call[c]
  BY <1>2 DEF RecordEdge, LoseEdge, Benign, Flag, TypeOK
<1>3. ASSUME NEW d \in Calls, Walk(d) \/ ReadEdges(d) \/ InstallUp(d) \/ Fetch(d)
      PROVE  call'[c] = call[c]
  <2>1. d # c /\ \E r : call' = [call EXCEPT ![d] = r]
    BY <1>3 DEF Walk, ReadEdges, InstallUp, Fetch
  <2> QED
    BY <2>1 DEF TypeOK
<1>4. ASSUME NEW d \in Calls, NEW z, Choose(d, z)  PROVE call'[c] = call[c]
  <2>1. d # c /\ \E r : call' = [call EXCEPT ![d] = r]
    BY <1>4 DEF Choose
  <2> QED
    BY <2>1 DEF TypeOK
<1>5. ASSUME NEW d \in Calls, InstallDown(d) \/ SentinelFails(d)
      PROVE  call'[c] = call[c]
  <2>1. d # c /\ \E r : call' = [call EXCEPT ![d] = r]
    BY <1>5 DEF InstallDown, SentinelFails, Analysing
  <2> QED
    BY <2>1 DEF TypeOK
<1>6. CASE UNCHANGED call
  BY <1>6
<1> QED
  BY <1>1, <1>2, <1>3, <1>4, <1>5, <1>6 DEF Next, vars, Ingest, Expire

-----------------------------------------------------------------------------
(* Initial states, and the steps.                                          *)

LEMMA MeshInitMInv == MeshInit => MInv
<1> SUFFICES ASSUME MeshInit PROVE MInv
  OBVIOUS
<1>1. \A c \in Calls : ~Recorded(c)
  BY DEF MeshInit, Recorded
<1>2. query = NoQuery /\ query.after = {} /\ query.found = {} /\ query \in QueryType
  BY DEF MeshInit, NoQuery, QueryType
<1>3. \A s \in Names : memory[s] # "EXCISED" /\ taint[s] # "EXCISED"
  BY DEF MeshInit
<1>4. MeshTypeOK
  BY <1>1, <1>2 DEF MeshInit, MeshTypeOK
<1> QED
  BY <1>1, <1>2, <1>3, <1>4
     DEF MInv, ExcisedCovered, HeldBack, AskedAfter, PatientZeroNotFound

LEMMA TraceKeeps ==
    ASSUME TypeOK, MInv, [Next]_vars, UNCHANGED <<tables, query>>
    PROVE  MInv'
<1>1. UNCHANGED <<registry, memory, taint, incident, query>>
  BY DEF tables
<1>2. \A c \in Calls : Recorded(c) => call'[c] = call[c]
  BY HandedOverStays DEF MInv, MeshTypeOK
<1>3. MeshTypeOK'
  BY <1>1, <1>2 DEF MInv, MeshTypeOK, Recorded
<1>4. ExcisedCovered' /\ HeldBack' /\ AskedAfter'
  BY <1>1 DEF MInv, ExcisedCovered, HeldBack, AskedAfter, Recorded
<1>5. PatientZeroNotFound'
  <2>1. \A c \in query.after : c \in Calls /\ call'[c] = call[c]
    BY <1>2 DEF MInv, AskedAfter, MeshTypeOK, QueryType
  <2> QED
    BY <1>1, <2>1 DEF MInv, PatientZeroNotFound
<1> QED
  BY <1>3, <1>4, <1>5 DEF MInv

LEMMA QuarantineKeepsMesh ==
    ASSUME TypeOK, MInv, NEW c \in Calls, Quarantine(c)
    PROVE  MInv'
<1> USE DEF MInv
<1>1. PICK a \in Agents : Tables!Quarantine(c, a, call[c].spans)
  BY DEF Quarantine
<1> DEFINE D == call[c].spans
           row == [status |-> "QUARANTINED", agent |-> a, spans |-> D]
<1>2. D \in SUBSET Names /\ call[c].pc = "handedOver" /\ UNCHANGED <<call, query>>
  BY DEF Quarantine, TypeOK, CallType, vars
<1>3. /\ incident[c] = Tables!NoIncident
      /\ incident' = [incident EXCEPT ![c] = row]
      /\ registry' = [registry EXCEPT ![a] = "INACTIVE"]
      /\ memory' = [s \in Names |-> IF s \in D /\ memory[s] = "ACTIVE" THEN "EXCISED"
                                    ELSE memory[s]]
      /\ taint' = [s \in Names |-> IF s \in D /\ taint[s] = "CLEAN" THEN "EXCISED"
                                   ELSE taint[s]]
  BY <1>1 DEF Tables!Quarantine, Tables!Excised
<1>4. row \in IncidentRow /\ row.spans = D /\ row # Tables!NoIncident
  BY <1>2 DEF IncidentRow, Tables!NoIncident
<1> HIDE DEF row
<1>5. /\ incident'[c] = row /\ Recorded(c)'
      /\ \A d \in Calls \ {c} : incident'[d] = incident[d]
  BY <1>3, <1>4 DEF MeshTypeOK, Recorded
<1>6. \A d \in Calls : Recorded(d) => Recorded(d)' /\ incident'[d] = incident[d]
  BY <1>3, <1>5 DEF Recorded
<1>7. MeshTypeOK'
  <2>1. registry' \in [Agents -> {"ACTIVE", "INACTIVE"}]
    BY <1>3 DEF MeshTypeOK
  <2>2. memory' \in [Names -> {"NONE", "ACTIVE", "EXCISED"}]
    BY <1>3 DEF MeshTypeOK
  <2>3. taint' \in [Names -> {"NONE", "CLEAN", "EXCISED"}]
    BY <1>3 DEF MeshTypeOK
  <2>4. incident' \in [Calls -> {Tables!NoIncident} \cup IncidentRow]
    BY <1>3, <1>4 DEF MeshTypeOK
  <2>5. \A d \in Calls : Recorded(d)' => /\ call'[d].pc = "handedOver"
                                         /\ incident'[d].spans = call'[d].spans
    BY <1>2, <1>4, <1>5 DEF MeshTypeOK, Recorded
  <2> QED
    BY <1>2, <2>1, <2>2, <2>3, <2>4, <2>5 DEF MeshTypeOK
<1>8. ExcisedCovered'
  <2> SUFFICES ASSUME NEW s \in Names, memory'[s] = "EXCISED" \/ taint'[s] = "EXCISED"
               PROVE  \E d \in Calls : Recorded(d)' /\ s \in incident'[d].spans
    BY DEF ExcisedCovered
  <2>1. CASE s \in D
    BY <1>4, <1>5, <2>1
  <2>2. CASE s \notin D
    <3>1. memory[s] = "EXCISED" \/ taint[s] = "EXCISED"
      BY <1>3, <2>2
    <3>2. PICK d \in Calls : Recorded(d) /\ s \in incident[d].spans
      BY <3>1 DEF ExcisedCovered
    <3> QED
      BY <1>6, <3>2
  <2> QED
    BY <2>1, <2>2
<1>9. HeldBack'
  <2> SUFFICES ASSUME NEW d \in Calls, Recorded(d)', NEW s \in incident'[d].spans
               PROVE  memory'[s] # "ACTIVE"
    BY DEF HeldBack
  <2>1. CASE d = c
    BY <1>2, <1>3, <1>4, <1>5, <2>1
  <2>2. CASE d # c
    <3>1. Recorded(d) /\ s \in incident[d].spans /\ s \in Names
      BY <1>5, <2>2 DEF Recorded, MeshTypeOK, IncidentRow
    <3> QED
      BY <1>3, <3>1 DEF HeldBack
  <2> QED
    BY <2>1, <2>2
<1>10. AskedAfter' /\ PatientZeroNotFound'
  BY <1>2, <1>6 DEF AskedAfter, PatientZeroNotFound, MeshTypeOK, QueryType
<1> QED
  BY <1>7, <1>8, <1>9, <1>10

LEMMA QueryKeeps ==
    ASSUME TypeOK, JInv, MInv, Ask \/ Search \/ Leave
    PROVE  MInv'
<1> USE DEF MInv
<1>1. UNCHANGED <<registry, memory, taint, incident, call>>
  BY DEF Ask, Search, Leave, tables, vars
<1>2. ExcisedCovered' /\ HeldBack'
  BY <1>1 DEF ExcisedCovered, HeldBack, Recorded
<1>3. ASSUME query' \in QueryType  PROVE MeshTypeOK'
  BY <1>1, <1>3 DEF MeshTypeOK, Recorded
<1>4. NoQuery \in QueryType /\ NoQuery.after = {} /\ NoQuery.found = {}
  BY DEF NoQuery, QueryType
<1>5. CASE Leave
  BY <1>1, <1>2, <1>3, <1>4, <1>5 DEF Leave, AskedAfter, PatientZeroNotFound
<1>6. CASE Ask
  <2>1. query' \in QueryType /\ query'.found = {} /\ query'.after = {c \in Calls : Recorded(c)}
    BY <1>6 DEF Ask, NoQuery, QueryType
  <2> QED
    BY <1>1, <1>2, <1>3, <2>1 DEF AskedAfter, PatientZeroNotFound, Recorded
<1>7. CASE Search
  <2>1. PICK F \in SUBSET {s \in Names : memory[s] = "ACTIVE"} : query' = Answered(F)
    BY <1>7 DEF Search
  <2>2. query' \in QueryType /\ query'.found = F /\ query'.after = query.after
    BY <2>1 DEF Answered, MeshTypeOK, QueryType
  <2>3. ASSUME NEW c \in query.after  PROVE call[c].zero \notin F
    <3>1. c \in Calls /\ Recorded(c)
      BY DEF AskedAfter, MeshTypeOK, QueryType
    <3>2. call[c].zero \in incident[c].spans
      BY <3>1 DEF MeshTypeOK, JInv, Sound, Kin
    <3> QED
      BY <2>1, <3>1, <3>2 DEF HeldBack
  <2>4. PatientZeroNotFound'
    BY <1>1, <2>2, <2>3 DEF PatientZeroNotFound
  <2>5. AskedAfter'
    BY <1>1, <2>2 DEF AskedAfter, Recorded
  <2> QED
    BY <1>2, <1>3, <2>2, <2>4, <2>5
<1> QED
  BY <1>5, <1>6, <1>7

LEMMA MInvariant == MeshSpec => []MInv
<1>1. IInv /\ JInv /\ MInv /\ [MeshNext]_meshVars => MInv'
  <2> SUFFICES ASSUME IInv, JInv, MInv, [MeshNext]_meshVars PROVE MInv'
    OBVIOUS
  <2>1. TypeOK
    BY DEF IInv
  <2>2. CASE Trace \/ UNCHANGED meshVars
    <3>1. [Next]_vars /\ UNCHANGED <<tables, query>>
      BY <2>2 DEF Trace, meshVars
    <3> QED
      BY <2>1, <3>1, TraceKeeps
  <2>3. CASE \E c \in Calls : Quarantine(c)
    BY <2>1, <2>3, QuarantineKeepsMesh
  <2>4. CASE Ask \/ Search \/ Leave
    BY <2>1, <2>4, QueryKeeps
  <2> QED
    BY <2>2, <2>3, <2>4 DEF MeshNext
<1> QED
  BY <1>1, MeshInitMInv, MeshInvariant, PTL DEF MeshSpec

-----------------------------------------------------------------------------

\* Tables and search are well typed, and an incident on record has exactly the
\* spans that its task has handed over (gateway.py, _run_sentinel_async).
THEOREM ContainmentTypes == MeshSpec => []MeshTypeOK
<1>1. MInv => MeshTypeOK
  BY DEF MInv
<1> QED
  BY <1>1, MInvariant, PTL

\* Whatever is excised is kin of the patient zero of an incident on record, in
\* the DAG as it is recorded, for any number of tasks that share the cache.
THEOREM OnlyKinExcised == MeshSpec => []ExcisedAreKin
<1>1. JInv /\ MInv => ExcisedAreKin
  <2> SUFFICES ASSUME JInv, MInv, NEW s \in Names,
                      memory[s] = "EXCISED" \/ taint[s] = "EXCISED"
               PROVE  \E c \in Calls : Recorded(c) /\ s \in Kinship(call[c].zero)
    BY DEF ExcisedAreKin
  <2>1. PICK c \in Calls : Recorded(c) /\ s \in incident[c].spans
    BY DEF MInv, ExcisedCovered
  <2>2. call[c].pc = "handedOver" /\ s \in call[c].spans
    BY <2>1 DEF MInv, MeshTypeOK
  <2>3. s \in Kinship(call[c].zero)
    BY <2>2 DEF JInv, Sound, Kin, Kinship
  <2> QED
    BY <2>1, <2>3
<1> QED
  BY <1>1, MeshInvariant, MInvariant, PTL

\* No search that comes after an incident finds a row of its patient zero, however
\* long after (memory_bank.py, semantic_search).
THEOREM BlamedSourceHidden == MeshSpec => []PatientZeroNotFound
<1>1. MInv => PatientZeroNotFound
  BY DEF MInv
<1> QED
  BY <1>1, MInvariant, PTL
=============================================================================
