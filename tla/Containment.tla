---------------------------- MODULE Containment ----------------------------
(***************************************************************************)
(* From the analysis of a call to what a later memory search finds: the    *)
(* Sentinel tasks of Causal hand patient zero and its spans over to a      *)
(* quarantine, here in the one step that QuarantineAbs promises and        *)
(* Quarantine implements; and agents search the memory bank all the time   *)
(* (gateway.memory_query, memory_bank.py).                                 *)
(*                                                                         *)
(* A source is a memory that was written: its rows are committed before    *)
(* its node is recorded.  A call has no rows.  A stranger may be a span of *)
(* another trace, which has rows.                                          *)
(***************************************************************************)
EXTENDS Causal

CONSTANTS
    Agents,
    K        \* the limit of a search

ASSUME SearchAssumption == K \in Nat \ {0}

VARIABLES registry, memory, taint, incident,   \* the tables of QuarantineAbs
          query                                \* one search of the memory bank

tables == <<registry, memory, taint, incident>>

meshVars == <<vars, tables, query>>

Tables == INSTANCE QuarantineAbs WITH Spans <- Names, Incidents <- Calls

\* `found` are the sources of the rows that the database returns to the search;
\* `after` is an observation: the incidents on record when the search came.
QueryType == [pc : {"idle", "asked", "answered", "error"}, after : SUBSET Calls,
              found : SUBSET Names]

IncidentRow == [status : {"QUARANTINED"}, agent : Agents, spans : SUBSET Names]

NoQuery == [pc |-> "idle", after |-> {}, found |-> {}]

MeshInit ==
    /\ Init
    /\ registry = [a \in Agents |-> "ACTIVE"]
    /\ memory = [s \in Names |-> IF s \in Sources \cup Strangers THEN "ACTIVE" ELSE "NONE"]
    /\ taint = [s \in Names |-> IF s \in Sources \cup Strangers THEN "CLEAN" ELSE "NONE"]
    /\ incident = [c \in Calls |-> Tables!NoIncident]
    /\ query = NoQuery

-----------------------------------------------------------------------------

\* Recording and analysis go on.
Trace == Next /\ UNCHANGED <<tables, query>>

\* Faulty variant: the agent is taken off, but the spans are not handed over.
QuarantineNothing(c) ==
    /\ call[c].pc = "handedOver"
    /\ taint[call[c].zero] # "NONE"
    /\ \E a \in Agents : Tables!Quarantine(c, a, {})
    /\ UNCHANGED <<vars, query>>

\* _run_sentinel_async hands over what its task has found, for the agent of the
\* call.  Without a provenance row of patient zero the incident's foreign key
\* fails, and the transaction leaves nothing behind; it may fail anyway.
Quarantine(c) ==
    /\ call[c].pc = "handedOver"
    /\ taint[call[c].zero] # "NONE"
    /\ \E a \in Agents : Tables!Quarantine(c, a, call[c].spans)
    /\ UNCHANGED <<vars, query>>

-----------------------------------------------------------------------------

Recorded(c) == incident[c] # Tables!NoIncident

\* /memory/query.
Ask ==
    /\ query.pc = "idle"
    /\ query' = [NoQuery EXCEPT !.pc = "asked", !.after = {c \in Calls : Recorded(c)}]
    /\ UNCHANGED <<vars, tables>>

\* What becomes of the rows that the database returns: a search on a Core connection
\* gets their first column, the memory_id, and `m.memory_id` of that raises; without
\* a row the answer is empty.
Answered(F) == [query EXCEPT !.pc = IF F = {} THEN "answered" ELSE "error", !.found = F]

\* Faulty variant: the status of a memory is not asked for.
SearchAll ==
    LET Found == {s \in Names : memory[s] # "NONE"} IN
    /\ query.pc = "asked"
    /\ \E F \in SUBSET Found : Cardinality(F) <= K /\ query' = Answered(F)
    /\ UNCHANGED <<vars, tables>>

\* semantic_search: the K closest of the active memories, or of those of one
\* agent; which they are is left open.
Search ==
    LET Active == {s \in Names : memory[s] = "ACTIVE"} IN
    /\ query.pc = "asked"
    /\ \E F \in SUBSET Active : Cardinality(F) <= K /\ query' = Answered(F)
    /\ UNCHANGED <<vars, tables>>

\* The response is sent, or the request fails.
Leave ==
    /\ query.pc # "idle"
    /\ query' = NoQuery
    /\ UNCHANGED <<vars, tables>>

-----------------------------------------------------------------------------

MeshNext ==
    \/ Trace
    \/ \E c \in Calls : Quarantine(c)
    \/ Ask \/ Search \/ Leave

MeshSpec == MeshInit /\ [][MeshNext]_meshVars

-----------------------------------------------------------------------------

\* Types, and an incident records what its task has found.
MeshTypeOK ==
    /\ registry \in [Agents -> {"ACTIVE", "INACTIVE"}]
    /\ memory \in [Names -> {"NONE", "ACTIVE", "EXCISED"}]
    /\ taint \in [Names -> {"NONE", "CLEAN", "EXCISED"}]
    /\ incident \in [Calls -> {Tables!NoIncident} \cup IncidentRow]
    /\ query \in QueryType
    /\ \A c \in Calls : Recorded(c) => /\ call[c].pc = "handedOver"
                                       /\ incident[c].spans = call[c].spans

Kinship(s) == Reached(edges, s) \cup Reached(Inverse(edges), s)

\* No memory is lost to an incident that it has nothing to do with: whatever is
\* excised is an ancestor or a descendant of some incident's patient zero, in
\* the DAG as it is recorded, whatever the caches held.
ExcisedAreKin ==
    \A s \in Names : memory[s] = "EXCISED" \/ taint[s] = "EXCISED" =>
        \E c \in Calls : Recorded(c) /\ s \in Kinship(call[c].zero)

\* The source that the analysis blames is out of the agents' sight for good: no
\* search that comes after the incident finds a row of patient zero.
PatientZeroNotFound == \A c \in query.after : call[c].zero \notin query.found
=============================================================================
