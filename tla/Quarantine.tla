----------------------------- MODULE Quarantine -----------------------------
(***************************************************************************)
(* quarantine_manager.py.  Every run of execute_quarantine is a database   *)
(* transaction of its own (gateway.py opens it with engine.begin()) that   *)
(* runs beside the others: a task with a program counter.                  *)
(*                                                                         *)
(* PostgreSQL runs at READ COMMITTED, its default: an UPDATE finds the     *)
(* committed rows that match its WHERE clause when it is sent, and visits  *)
(* them one by one: it waits for the open transaction that has locked the  *)
(* row, locks it until its own transaction ends, looks at the WHERE clause *)
(* again, and changes the row if it still holds.  Rows that come to match  *)
(* in the meantime are not seen.  What a transaction has changed is seen   *)
(* by the others when it commits.                                          *)
(*                                                                         *)
(* `todo` are the rows still to be visited, `mem` and `nodes` those that   *)
(* the task has locked; it holds its agent's row from its first UPDATE on. *)
(* Redis is outside the transaction.                                       *)
(*                                                                         *)
(* rollback_quarantine changes nothing: of an incident that is on record   *)
(* it gets the id, not the object, and raises at its next line.            *)
(*                                                                         *)
(* Every span has at most one memory and one provenance row.  Rows are     *)
(* inserted before the spans of a quarantine are collected, so the tables  *)
(* have all their rows from the start, and nothing deletes them.           *)
(***************************************************************************)
CONSTANTS
    Agents,
    Spans,
    Quarantines,  \* runs of execute_quarantine; also their incident ids
    Rollbacks     \* runs of rollback_quarantine

VARIABLES
    registry,  \* registry[a]: committed row of agent_registry
    memory,    \* memory[s]: committed row of agent_memory_bank
    taint,     \* taint[s]: committed row of provenance_nodes
    incident,  \* incident[i]: committed row of security_incidents
    task,      \* task[t]: the transaction of quarantine t
    denied,    \* the quarantines whose trigger jti is on the deny-list
    events,    \* the quarantines whose event is on the telemetry stream
    request    \* request[k]: what became of rollback k

vars == <<registry, memory, taint, incident, task, denied, events, request>>

NoIncident == [status |-> "NONE"]

IncidentRow == [status : {"QUARANTINED"}, agent : Agents, spans : SUBSET Spans]

\* A task is not started, open at a statement, or ended.  "excise" is before the
\* UPDATE of the memories, "excising" within it, and so on.
OpenPcs == {"deactivate", "revoke", "excise", "excising", "marking",
            "broadcast", "commit"}

EndedPcs == {"done", "failed"}

NotStarted == [pc |-> "idle"]

QuarantineTx == [pc : OpenPcs \cup EndedPcs, agent : Agents, zero : Spans,
                 spans : SUBSET Spans, todo : SUBSET Spans,
                 mem : SUBSET Spans, nodes : SUBSET Spans]

\* A rollback is not asked for, or ended with an exception of one kind or the
\* other: ValueError, AttributeError.
NotAsked  == [pc |-> "notAsked"]
NotFound  == [pc |-> "notFound"]
Raised(i) == [pc |-> "raised", incident |-> i]

Open(t) == task[t].pc \in OpenPcs

Goto(t, pc) == task' = [task EXCEPT ![t].pc = pc]

\* The transaction is over, and its rows are free.
End(t, pc) ==
    task' = [task EXCEPT ![t].pc = pc, ![t].todo = {},
                         ![t].mem = {}, ![t].nodes = {}]

Init ==
    /\ registry \in [Agents -> {"NONE", "ACTIVE"}]
    /\ memory \in [Spans -> {"NONE", "ACTIVE"}]
    /\ taint \in [Spans -> {"NONE", "CLEAN"}]
    /\ \A s \in Spans : memory[s] # "NONE" => taint[s] # "NONE"
    /\ incident = [i \in Quarantines |-> NoIncident]
    /\ task = [t \in Quarantines |-> NotStarted]
    /\ denied = {}
    /\ events = {}
    /\ request = [k \in Rollbacks |-> NotAsked]

tables == <<registry, memory, taint, incident>>

-----------------------------------------------------------------------------
(* Row locks.                                                              *)

\* Faulty variant: a connection is handed back with its transaction open.
HoldsAgentForever(u, a) ==
    /\ task[u].pc \notin {"idle", "deactivate"}
    /\ task[u].agent = a

HoldsAgent(u, a) == /\ Open(u)
                    /\ task[u].pc # "deactivate"
                    /\ task[u].agent = a

\* Faulty variant: an UPDATE of the registry waits for nobody.
AgentRowUnguarded(t) == TRUE

\* The UPDATE of the agent's row does not wait; no row, nothing to wait for.
AgentRowFree(t) ==
    registry[task[t].agent] # "NONE" =>
        \A u \in Quarantines \ {t} : ~HoldsAgent(u, task[t].agent)

HoldsMemory(u, s) == Open(u) /\ s \in task[u].mem

HoldsNode(u, s) == Open(u) /\ s \in task[u].nodes

\* An UPDATE is sent, and S are the rows that match.
Find(t, pc, S) == task' = [task EXCEPT ![t].pc = pc, ![t].todo = S]

\* Faulty variant: the UPDATE does not wait for the row, it passes it over.
VisitMemorySkippingLocked(t, s) ==
    /\ s \in task[t].todo
    /\ task' = [task EXCEPT ![t].todo = @ \ {s},
                  ![t].mem = IF \E u \in Quarantines \ {t} : HoldsMemory(u, s)
                             THEN @ ELSE @ \cup {s}]

\* It visits one of them, in an order of its own, and locks it.
VisitMemory(t, s) ==
    /\ s \in task[t].todo
    /\ \A u \in Quarantines \ {t} : ~HoldsMemory(u, s)
    /\ task' = [task EXCEPT ![t].todo = @ \ {s}, ![t].mem = @ \cup {s}]

VisitNode(t, s) ==
    /\ s \in task[t].todo
    /\ \A u \in Quarantines \ {t} : ~HoldsNode(u, s)
    /\ task' = [task EXCEPT ![t].todo = @ \ {s}, ![t].nodes = @ \cup {s}]

-----------------------------------------------------------------------------
(* execute_quarantine.                                                     *)

\* The Sentinel opens the transaction with what its analysis found.  The set
\* of spans includes patient zero, so `if descendant_spans` always holds.
StartQuarantine(t, a, z, D) ==
    /\ task[t] = NotStarted
    /\ z \in D
    /\ task' = [task EXCEPT ![t] =
                   [pc |-> "deactivate", agent |-> a, zero |-> z, spans |-> D,
                    todo |-> {}, mem |-> {}, nodes |-> {}]]
    /\ UNCHANGED <<tables, denied, events, request>>

\* UPDATE agent_registry SET is_active = false
Deactivate(t) ==
    /\ task[t].pc = "deactivate"
    /\ AgentRowFree(t)
    /\ Goto(t, "revoke")
    /\ UNCHANGED <<tables, denied, events, request>>

\* Faulty variant: the call is scheduled as a task of its own, which may be lost.
RevokeTokenUnawaited(t) ==
    /\ task[t].pc = "revoke"
    /\ denied' \in {denied, denied \cup {t}}
    /\ Goto(t, "excise")
    /\ UNCHANGED <<tables, events, request>>

\* revoke_jwt(trigger_jti): takes effect at once, whatever becomes of the
\* transaction.
RevokeToken(t) ==
    /\ task[t].pc = "revoke"
    /\ denied' = denied \cup {t}
    /\ Goto(t, "excise")
    /\ UNCHANGED <<tables, events, request>>

\* Redis does not answer.  The call is in no `try`: the exception leaves the
\* function and the transaction rolls back.  The key may have been set.
RevokeFails(t) ==
    /\ task[t].pc = "revoke"
    /\ denied' \in {denied, denied \cup {t}}
    /\ End(t, "failed")
    /\ UNCHANGED <<tables, events, request>>

\* UPDATE agent_memory_bank ... WHERE quarantine_status = 'ACTIVE': the
\* statement and each row.
Excise(t) ==
    /\ task[t].pc = "excise"
    /\ Find(t, "excising", {s \in task[t].spans : memory[s] = "ACTIVE"})
    /\ UNCHANGED <<tables, denied, events, request>>

ExciseRow(t, s) ==
    /\ task[t].pc = "excising"
    /\ VisitMemory(t, s)
    /\ UNCHANGED <<tables, denied, events, request>>

\* UPDATE provenance_nodes ... WHERE taint_status != 'EXCISED'
Mark(t) ==
    /\ task[t].pc = "excising"
    /\ task[t].todo = {}
    /\ Find(t, "marking", {s \in task[t].spans : taint[s] = "CLEAN"})
    /\ UNCHANGED <<tables, denied, events, request>>

MarkRow(t, s) ==
    /\ task[t].pc = "marking"
    /\ VisitNode(t, s)
    /\ UNCHANGED <<tables, denied, events, request>>

\* INSERT INTO security_incidents: its foreign keys are the agent and patient
\* zero, which may exist in a token and in Redis only.
RecordIncident(t) ==
    /\ task[t].pc = "marking"
    /\ task[t].todo = {}
    /\ IF registry[task[t].agent] # "NONE" /\ taint[task[t].zero] # "NONE"
       THEN Goto(t, "broadcast")
       ELSE End(t, "failed")
    /\ UNCHANGED <<tables, denied, events, request>>

\* xadd to the telemetry stream; a failure of it is swallowed.
Broadcast(t) ==
    /\ task[t].pc = "broadcast"
    /\ events' \in {events, events \cup {t}}
    /\ Goto(t, "commit")
    /\ UNCHANGED <<tables, denied, request>>

\* `table` with the rows S changed from one state to the other.  A row has the
\* state that it was locked in: no one else could change it.
Written(table, S, from, to) ==
    [s \in Spans |-> IF s \in S /\ table[s] = from THEN to ELSE table[s]]

\* Faulty variant: the provenance rows are written in another transaction,
\* which is lost.
CommitQuarantineInPart(t) ==
    /\ task[t].pc = "commit"
    /\ registry' = [registry EXCEPT ![task[t].agent] = "INACTIVE"]
    /\ memory' = Written(memory, task[t].mem, "ACTIVE", "EXCISED")
    /\ incident' = [incident EXCEPT ![t] =
                       [status |-> "QUARANTINED", agent |-> task[t].agent,
                        spans |-> task[t].spans]]
    /\ End(t, "done")
    /\ UNCHANGED <<taint, denied, events, request>>

\* Faulty variant: the incident is recorded as its own excision.
CommitQuarantineAsExcised(t) ==
    /\ task[t].pc = "commit"
    /\ registry' = [registry EXCEPT ![task[t].agent] = "INACTIVE"]
    /\ memory' = Written(memory, task[t].mem, "ACTIVE", "EXCISED")
    /\ taint' = Written(taint, task[t].nodes, "CLEAN", "EXCISED")
    /\ incident' = [incident EXCEPT ![t] =
                       [status |-> "EXCISED", agent |-> task[t].agent,
                        spans |-> task[t].spans]]
    /\ End(t, "done")
    /\ UNCHANGED <<denied, events, request>>

\* COMMIT is applied, or it is applied and its reply is lost: then the caller
\* gets an error although everything is written.
CommitQuarantine(t) ==
    /\ task[t].pc = "commit"
    /\ registry' = [registry EXCEPT ![task[t].agent] = "INACTIVE"]
    /\ memory' = Written(memory, task[t].mem, "ACTIVE", "EXCISED")
    /\ taint' = Written(taint, task[t].nodes, "CLEAN", "EXCISED")
    /\ incident' = [incident EXCEPT ![t] =
                       [status |-> "QUARANTINED", agent |-> task[t].agent,
                        spans |-> task[t].spans]]
    /\ \E pc \in EndedPcs : End(t, pc)
    /\ UNCHANGED <<denied, events, request>>

\* A statement fails, COMMIT fails, or the process dies: nothing is written.
Abort(t) ==
    /\ Open(t)
    /\ End(t, "failed")
    /\ UNCHANGED <<tables, denied, events, request>>

-----------------------------------------------------------------------------
(* rollback_quarantine.                                                    *)

\* The SELECT goes through a Core connection, so scalar_one_or_none() is the
\* first column of the row, its incident_id.  `incident.status` raises, and
\* nothing after it is ever reached.
Rollback(k, i) ==
    /\ request[k] = NotAsked
    /\ request' = [request EXCEPT ![k] =
                      IF incident[i] = NoIncident THEN NotFound ELSE Raised(i)]
    /\ UNCHANGED <<tables, task, denied, events>>

-----------------------------------------------------------------------------

\* The steps that an open transaction takes while nothing fails.
Statement(t) ==
    \/ Deactivate(t) \/ RevokeToken(t) \/ Excise(t) \/ Mark(t)
    \/ RecordIncident(t) \/ Broadcast(t) \/ CommitQuarantine(t)
    \/ \E s \in Spans : ExciseRow(t, s) \/ MarkRow(t, s)

Next ==
    \/ \E t \in Quarantines :
          \/ \E a \in Agents, z \in Spans, D \in SUBSET Spans :
                StartQuarantine(t, a, z, D)
          \/ Statement(t)
          \/ RevokeFails(t)
          \/ Abort(t)
    \/ \E k \in Rollbacks, i \in Quarantines : Rollback(k, i)

Spec == Init /\ [][Next]_vars

\* All that t has still to visit is held by members of W.  (A task that waits
\* for its agent's row holds no row yet, so nobody waits for it.)
Stuck(t, W) ==
    /\ Open(t)
    /\ task[t].todo # {}
    /\ \A s \in task[t].todo : \E u \in W \ {t} :
          IF task[t].pc = "excising" THEN HoldsMemory(u, s) ELSE HoldsNode(u, s)

Deadlock(W) == W # {} /\ \A t \in W : Stuck(t, W)

\* PostgreSQL ends one of a set of transactions that wait for each other.
Victim == \E W \in SUBSET Quarantines : Deadlock(W) /\ \E t \in W : Abort(t)

\* The event loop resumes every coroutine whose statement has an answer,
\* PostgreSQL answers every statement that waits for no lock, and detects
\* deadlocks.
Fairness == (\A t \in Quarantines : WF_vars(Statement(t))) /\ WF_vars(Victim)

FairSpec == Spec /\ Fairness

-----------------------------------------------------------------------------

\* Types, and a span's memory always has its provenance row.
TypeOK ==
    /\ registry \in [Agents -> {"NONE", "ACTIVE", "INACTIVE"}]
    /\ memory \in [Spans -> {"NONE", "ACTIVE", "EXCISED"}]
    /\ taint \in [Spans -> {"NONE", "CLEAN", "EXCISED"}]
    /\ \A s \in Spans : memory[s] # "NONE" => taint[s] # "NONE"
    /\ incident \in [Quarantines -> {NoIncident} \cup IncidentRow]
    /\ task \in [Quarantines -> {NotStarted} \cup QuarantineTx]
    /\ denied \in SUBSET Quarantines
    /\ events \in SUBSET Quarantines
    /\ request \in [Rollbacks ->
                       {NotAsked, NotFound} \cup {Raised(i) : i \in Quarantines}]

Recorded(i) == incident[i] # NoIncident

\* A quarantine holds for good: from its commit on its agent is inactive and
\* every memory and provenance row that it covers is out of use, also the rows
\* that another transaction had locked or was excising beside it.
Contained ==
    \A i \in Quarantines : Recorded(i) =>
        /\ registry[incident[i].agent] = "INACTIVE"
        /\ \A s \in incident[i].spans : memory[s] # "ACTIVE" /\ taint[s] # "CLEAN"

\* No incident is on record whose trigger token could still be used: the
\* revocation is not part of the transaction, yet the transaction goes on only
\* when Redis has confirmed it.  (The docstring, quarantine_manager.py:122-123,
\* has it the other way round: see RevocationBestEffort.)
RecordedMeansRevoked == \A i \in Quarantines : Recorded(i) => i \in denied

\* An event is published before its transaction commits.  Of the events of one
\* agent at most one is ahead of its commit, so they are on the stream in the
\* order of the commits, however many Sentinels quarantine the agent at a time.
OneEventAhead ==
    \A t, u \in events :
        t # u /\ Open(t) /\ Open(u) => task[t].agent # task[u].agent

\* Quarantines take effect whole and in one step: the interleaved transactions
\* implement QuarantineAbs.
Abs == INSTANCE QuarantineAbs WITH Incidents <- Quarantines
AbsSpec == Abs!Spec

\* Transactions about one agent never wait for each other in a circle, whatever
\* rows they visit in whatever order: the agent's row is the first lock that
\* both take.  Only an agent without a row has no such protection.
DeadlocksCrossAgents ==
    \A W \in SUBSET Quarantines : Deadlock(W) =>
        \/ \E t, u \in W : task[t].agent # task[u].agent
        \/ \E t \in W : registry[task[t].agent] = "NONE"

\* Every transaction ends: what waits for a lock gets it, or is chosen to end a
\* deadlock.
TasksFinish == \A t \in Quarantines : Open(t) ~> ~Open(t)

-----------------------------------------------------------------------------
(* What the source says of itself and the code does not do.                *)

\* "Redis operations (revocation, stream) are best-effort [...] if they fail,
\* the incident is still recorded" (quarantine_manager.py:122-123): a failed
\* revocation does not end the transaction.
RevocationBestEffort ==
    [][\A t \in Quarantines : RevokeFails(t) => Open(t)']_vars

\* "Rollback a quarantine: reactivate agent, restore memories to ACTIVE"
\* (quarantine_manager.py:224): a rollback that has found its incident leaves
\* the agent active.
RollbackRestores ==
    \A k \in Rollbacks, i \in Quarantines :
        request[k] = Raised(i) => registry[incident[i].agent] = "ACTIVE"
=============================================================================
