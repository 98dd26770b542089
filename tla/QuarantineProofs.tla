-------------------------- MODULE QuarantineProofs --------------------------
(***************************************************************************)
(* Safety of the quarantine protocol for any agents, spans, quarantines    *)
(* and rollbacks, and its refinement of QuarantineAbs.                     *)
(*                                                                         *)
(* The argument: a row that is out of use stays so, because every commit   *)
(* only takes rows out of use.  A row that a task's UPDATE is through with *)
(* is therefore either locked by the task, and will be written, or is out  *)
(* of use for good (DoneOK): whatever was locked by others when the UPDATE *)
(* came to it was waited for.  And two open tasks hold the same agent's    *)
(* row only if there is no such row (AgentsApart).                         *)
(***************************************************************************)
EXTENDS Quarantine, TLAPS

\* The memories, and the provenance rows, that the UPDATE of tx is through with.
MemoriesDone(tx) ==
    CASE tx.pc = "excising" -> tx.spans \ tx.todo
      [] tx.pc \in {"marking", "broadcast", "commit"} -> tx.spans
      [] OTHER -> {}

NodesDone(tx) ==
    CASE tx.pc = "marking" -> tx.spans \ tx.todo
      [] tx.pc \in {"broadcast", "commit"} -> tx.spans
      [] OTHER -> {}

DoneOK(tx) ==
    /\ tx.todo \subseteq tx.spans
    /\ tx.todo # {} => tx.pc \in {"excising", "marking"}
    /\ tx.mem \subseteq tx.spans /\ tx.nodes \subseteq tx.spans
    /\ \A s \in MemoriesDone(tx) : s \in tx.mem \/ memory[s] # "ACTIVE"
    /\ \A s \in NodesDone(tx) : s \in tx.nodes \/ taint[s] # "CLEAN"

TaskOK(t) ==
    /\ Recorded(t) => task[t].pc \in EndedPcs /\ t \in denied
    /\ task[t].pc \in {"excise", "excising", "marking", "broadcast", "commit"}
          => t \in denied
    /\ task[t].pc \in {"broadcast", "commit"} => registry[task[t].agent] # "NONE"
    /\ Open(t) => DoneOK(task[t])

AgentsApart ==
    \A t, u \in Quarantines, a \in Agents :
        t # u /\ HoldsAgent(t, a) /\ HoldsAgent(u, a) => registry[a] = "NONE"

IInv ==
    /\ TypeOK
    /\ Contained
    /\ \A t \in Quarantines : TaskOK(t)
    /\ AgentsApart

-----------------------------------------------------------------------------
(* Initial states.                                                         *)

LEMMA InitIInv == Init => IInv
<1> SUFFICES ASSUME Init PROVE IInv
  OBVIOUS
<1>1. TypeOK
  BY DEF Init, TypeOK
<1>2. \A i \in Quarantines : ~Recorded(i)
  BY DEF Init, Recorded
<1>3. \A t \in Quarantines : ~Open(t) /\ task[t].pc = "idle"
  BY DEF Init, Open, OpenPcs, NotStarted
<1> QED
  BY <1>1, <1>2, <1>3
  DEF IInv, Contained, TaskOK, AgentsApart, HoldsAgent

-----------------------------------------------------------------------------
(* What a step of one task leaves of the others.                           *)

\* No row comes into use, and no agent gains or loses its row.
Advance ==
    /\ \A a \in Agents : registry'[a] = "NONE" <=> registry[a] = "NONE"
    /\ \A s \in Spans : /\ memory[s] # "ACTIVE" => memory'[s] # "ACTIVE"
                        /\ taint[s] # "CLEAN" => taint'[s] # "CLEAN"

\* An open task has the record of a transaction.
LEMMA OpenRecord ==
    ASSUME TypeOK, NEW t \in Quarantines, Open(t)
    PROVE  task[t] \in QuarantineTx
BY DEF TypeOK, Open, OpenPcs, NotStarted

\* The others notice nothing of a step of t that moves the tables forward, so it
\* preserves the invariant if what it says of t holds again.
LEMMA StepKeeps ==
    ASSUME IInv, TypeOK', Contained', NEW t \in Quarantines, Advance,
           \A u \in Quarantines \ {t} :
              task'[u] = task[u] /\ incident'[u] = incident[u],
           denied \subseteq denied',
           TaskOK(t)',
           \A u \in Quarantines \ {t}, a \in Agents :
              HoldsAgent(t, a)' /\ HoldsAgent(u, a) => registry[a] = "NONE"
    PROVE  IInv'
<1>1. ASSUME NEW u \in Quarantines \ {t}
      PROVE  TaskOK(u)'
  <2>1. TaskOK(u) /\ task'[u] = task[u] /\ incident'[u] = incident[u]
    BY DEF IInv
  <2>2. Open(u) => task[u] \in QuarantineTx
    BY OpenRecord DEF IInv
  <2>3. Open(u) => /\ MemoriesDone(task[u]) \subseteq Spans
                   /\ NodesDone(task[u]) \subseteq Spans
    BY <2>2 DEF MemoriesDone, NodesDone, QuarantineTx
  <2>4. Open(u) => DoneOK(task[u])'
    BY <2>1, <2>3 DEF TaskOK, DoneOK, Advance, MemoriesDone, NodesDone
  <2>5. task[u].pc \in {"broadcast", "commit"} => registry'[task[u].agent] # "NONE"
    BY <2>1, <2>2 DEF TaskOK, Advance, QuarantineTx, Open, OpenPcs
  <2> QED
    BY <2>1, <2>4, <2>5 DEF TaskOK, Recorded, Open
<1>2. AgentsApart'
  <2> SUFFICES ASSUME NEW u \in Quarantines, NEW v \in Quarantines, NEW a \in Agents,
                      u # v, HoldsAgent(u, a)', HoldsAgent(v, a)'
               PROVE  registry[a] = "NONE"
    BY DEF AgentsApart, Advance
  <2>1. \A w \in Quarantines \ {t} : HoldsAgent(w, a)' = HoldsAgent(w, a)
    BY DEF HoldsAgent, Open
  <2> QED
    BY <2>1 DEF IInv, AgentsApart
<1> QED
  BY <1>1, <1>2 DEF IInv

\* A step of an open task t that leaves the tables alone: its record becomes tx.
LEMMA MoveKeeps ==
    ASSUME IInv, NEW t \in Quarantines, Open(t),
           NEW tx \in QuarantineTx, tx.agent = task[t].agent,
           task' = [task EXCEPT ![t] = tx],
           UNCHANGED <<tables, request>>,
           denied \subseteq denied', denied' \subseteq Quarantines,
           events' \subseteq Quarantines,
           task[t].pc = "deactivate" /\ tx.pc \in OpenPcs => AgentRowFree(t),
           tx.pc \in {"excise", "excising", "marking", "broadcast", "commit"}
              => t \in denied',
           tx.pc \in {"broadcast", "commit"} => registry[tx.agent] # "NONE",
           tx.pc \in OpenPcs => DoneOK(tx)
    PROVE  IInv'
<1>1. /\ task'[t] = tx
      /\ \A u \in Quarantines \ {t} : task'[u] = task[u]
      /\ task' \in [Quarantines -> {NotStarted} \cup QuarantineTx]
  BY DEF IInv, TypeOK
<1>2. TypeOK' /\ Contained' /\ Advance
  BY <1>1 DEF IInv, TypeOK, Contained, Recorded, Advance, tables
<1>3. ~Recorded(t)'
  BY DEF IInv, TaskOK, Recorded, Open, OpenPcs, EndedPcs, tables
<1>4. TaskOK(t)'
  BY <1>1, <1>3 DEF TaskOK, DoneOK, Open, tables
<1>5. ASSUME NEW u \in Quarantines \ {t}, NEW a \in Agents,
             HoldsAgent(t, a)', HoldsAgent(u, a)
      PROVE  registry[a] = "NONE"
  <2>1. a = task[t].agent /\ tx.pc \in OpenPcs
    BY <1>1, <1>5 DEF HoldsAgent, Open
  <2>2. CASE task[t].pc = "deactivate"
    BY <1>5, <2>1, <2>2 DEF AgentRowFree
  <2>3. CASE task[t].pc # "deactivate"
    BY <1>5, <2>1, <2>3 DEF IInv, AgentsApart, HoldsAgent
  <2> QED
    BY <2>2, <2>3
<1> QED
  BY <1>1, <1>2, <1>4, <1>5, StepKeeps DEF tables

-----------------------------------------------------------------------------
(* The steps of a task before its commit.                                  *)

LEMMA StartQuarantineKeeps ==
    ASSUME IInv, NEW t \in Quarantines, NEW a \in Agents, NEW z \in Spans,
           NEW D \in SUBSET Spans, StartQuarantine(t, a, z, D)
    PROVE  IInv'
<1>1. /\ task'[t] = [pc |-> "deactivate", agent |-> a, zero |-> z, spans |-> D,
                     todo |-> {}, mem |-> {}, nodes |-> {}]
      /\ \A u \in Quarantines \ {t} : task'[u] = task[u]
      /\ task' \in [Quarantines -> {NotStarted} \cup QuarantineTx]
  BY DEF StartQuarantine, IInv, TypeOK, QuarantineTx, OpenPcs
<1>2. TypeOK' /\ Contained' /\ Advance
  BY <1>1 DEF StartQuarantine, IInv, TypeOK, Contained, Recorded, Advance, tables
<1>3. ~Recorded(t)'
  BY DEF StartQuarantine, IInv, TaskOK, Recorded, NotStarted, EndedPcs, tables
<1>4. TaskOK(t)'
  BY <1>1, <1>3 DEF TaskOK, DoneOK, MemoriesDone, NodesDone
<1>5. \A b \in Agents : ~HoldsAgent(t, b)'
  BY <1>1 DEF HoldsAgent
<1> QED
  BY <1>1, <1>2, <1>4, <1>5, StepKeeps DEF StartQuarantine, tables

\* The end of a transaction that writes nothing.
LEMMA EndKeeps ==
    ASSUME IInv, NEW t \in Quarantines, Open(t), End(t, "failed"),
           UNCHANGED <<tables, request>>, denied \subseteq denied',
           denied' \subseteq Quarantines, events' \subseteq Quarantines
    PROVE  IInv'
<1> DEFINE tx == [task[t] EXCEPT !.pc = "failed", !.todo = {}, !.mem = {}, !.nodes = {}]
<1>1. task[t] \in QuarantineTx
  BY OpenRecord DEF IInv
<1>2. tx \in QuarantineTx /\ tx.agent = task[t].agent /\ tx.pc = "failed"
  BY <1>1 DEF QuarantineTx, EndedPcs
<1>3. task' = [task EXCEPT ![t] = tx]
  BY DEF End
<1> HIDE DEF tx
<1> QED
  BY <1>2, <1>3, MoveKeeps DEF OpenPcs

\* A statement of t that touches no memory and no provenance row.
LEMMA GotoKeeps ==
    ASSUME IInv, NEW t \in Quarantines, Open(t), NEW pc \in OpenPcs, Goto(t, pc),
           \/ task[t].pc \in {"deactivate", "revoke"} /\ pc \in {"revoke", "excise"}
           \/ task[t].pc = "marking" /\ task[t].todo = {} /\ pc = "broadcast"
           \/ task[t].pc = "broadcast" /\ pc = "commit",
           task[t].pc = "deactivate" => AgentRowFree(t),
           pc \in {"excise", "broadcast", "commit"} => t \in denied',
           pc \in {"broadcast", "commit"} => registry[task[t].agent] # "NONE",
           UNCHANGED <<tables, request>>, denied \subseteq denied',
           denied' \subseteq Quarantines, events' \subseteq Quarantines
    PROVE  IInv'
<1> DEFINE tx == [task[t] EXCEPT !.pc = pc]
<1>1. task[t] \in QuarantineTx /\ DoneOK(task[t])
  BY OpenRecord DEF IInv, TaskOK
<1>2. /\ tx \in QuarantineTx /\ tx.pc = pc /\ tx.agent = task[t].agent
      /\ tx.spans = task[t].spans /\ tx.todo = task[t].todo
      /\ tx.mem = task[t].mem /\ tx.nodes = task[t].nodes
  BY <1>1 DEF QuarantineTx
<1>3. task' = [task EXCEPT ![t] = tx]
  BY DEF Goto
<1> HIDE DEF tx
<1>4. /\ MemoriesDone(tx) = MemoriesDone(task[t])
      /\ NodesDone(tx) = NodesDone(task[t])
  BY <1>2 DEF MemoriesDone, NodesDone
<1>5. DoneOK(tx)
  BY <1>1, <1>2, <1>4 DEF DoneOK
<1> QED
  BY <1>2, <1>3, <1>5, MoveKeeps

LEMMA DeactivateKeeps ==
    ASSUME IInv, NEW t \in Quarantines, Deactivate(t)  PROVE IInv'
BY GotoKeeps DEF Deactivate, Open, OpenPcs, IInv, TypeOK

LEMMA RevokeTokenKeeps ==
    ASSUME IInv, NEW t \in Quarantines, RevokeToken(t)  PROVE IInv'
BY GotoKeeps DEF RevokeToken, Open, OpenPcs, IInv, TypeOK

LEMMA RevokeFailsKeeps ==
    ASSUME IInv, NEW t \in Quarantines, RevokeFails(t)  PROVE IInv'
BY EndKeeps DEF RevokeFails, Open, OpenPcs, IInv, TypeOK

LEMMA AbortKeeps ==
    ASSUME IInv, NEW t \in Quarantines, Abort(t)  PROVE IInv'
BY EndKeeps DEF Abort, IInv, TypeOK

LEMMA RecordIncidentKeeps ==
    ASSUME IInv, NEW t \in Quarantines, RecordIncident(t)  PROVE IInv'
<1>1. /\ Open(t) /\ t \in denied /\ task[t].pc = "marking" /\ task[t].todo = {}
      /\ UNCHANGED <<tables, denied, events, request>>
  BY DEF RecordIncident, Open, OpenPcs, IInv, TaskOK
<1>2. CASE registry[task[t].agent] # "NONE" /\ taint[task[t].zero] # "NONE"
  <2>1. Goto(t, "broadcast")
    BY <1>2 DEF RecordIncident
  <2> QED
    BY <1>1, <1>2, <2>1, GotoKeeps DEF OpenPcs, IInv, TypeOK
<1>3. CASE ~(registry[task[t].agent] # "NONE" /\ taint[task[t].zero] # "NONE")
  <2>1. End(t, "failed")
    BY <1>3 DEF RecordIncident
  <2> QED
    BY <1>1, <2>1, EndKeeps DEF IInv, TypeOK
<1> QED
  BY <1>2, <1>3

LEMMA BroadcastKeeps ==
    ASSUME IInv, NEW t \in Quarantines, Broadcast(t)  PROVE IInv'
<1>1. Open(t) /\ t \in denied /\ registry[task[t].agent] # "NONE"
  BY DEF Broadcast, Open, OpenPcs, IInv, TaskOK
<1> QED
  BY <1>1, GotoKeeps DEF Broadcast, OpenPcs, IInv, TypeOK

\* When an UPDATE is sent, the rows that it does not find do not match.
LEMMA ExciseKeeps ==
    ASSUME IInv, NEW t \in Quarantines, Excise(t)  PROVE IInv'
<1> DEFINE S == {s \in task[t].spans : memory[s] = "ACTIVE"}
           tx == [task[t] EXCEPT !.pc = "excising", !.todo = S]
<1>1. Open(t) /\ task[t] \in QuarantineTx /\ t \in denied /\ DoneOK(task[t])
  BY OpenRecord DEF Excise, Open, OpenPcs, IInv, TaskOK
<1>2. /\ tx \in QuarantineTx /\ tx.pc = "excising" /\ tx.agent = task[t].agent
      /\ tx.spans = task[t].spans /\ tx.todo = S
      /\ tx.mem = task[t].mem /\ tx.nodes = task[t].nodes
  BY <1>1 DEF QuarantineTx, OpenPcs
<1>3. task' = [task EXCEPT ![t] = tx]
  BY DEF Excise, Find
<1> HIDE DEF tx
<1>4. DoneOK(tx)
  BY <1>1, <1>2 DEF DoneOK, MemoriesDone, NodesDone
<1> QED
  BY <1>1, <1>2, <1>3, <1>4, MoveKeeps DEF Excise, IInv, TypeOK

LEMMA MarkKeeps ==
    ASSUME IInv, NEW t \in Quarantines, Mark(t)  PROVE IInv'
<1> DEFINE S == {s \in task[t].spans : taint[s] = "CLEAN"}
           tx == [task[t] EXCEPT !.pc = "marking", !.todo = S]
<1>1. Open(t) /\ task[t] \in QuarantineTx /\ t \in denied /\ DoneOK(task[t])
  BY OpenRecord DEF Mark, Open, OpenPcs, IInv, TaskOK
<1>2. /\ tx \in QuarantineTx /\ tx.pc = "marking" /\ tx.agent = task[t].agent
      /\ tx.spans = task[t].spans /\ tx.todo = S
      /\ tx.mem = task[t].mem /\ tx.nodes = task[t].nodes
  BY <1>1 DEF QuarantineTx, OpenPcs
<1>3. task' = [task EXCEPT ![t] = tx]
  BY DEF Mark, Find
<1> HIDE DEF tx
<1>4. DoneOK(tx)
  BY <1>1, <1>2 DEF Mark, DoneOK, MemoriesDone, NodesDone
<1> QED
  BY <1>1, <1>2, <1>3, <1>4, MoveKeeps DEF Mark, IInv, TypeOK

\* A row that is visited is locked.
LEMMA ExciseRowKeeps ==
    ASSUME IInv, NEW t \in Quarantines, NEW s \in Spans, ExciseRow(t, s)  PROVE IInv'
<1> DEFINE T == task[t].todo \ {s}
           M == task[t].mem \cup {s}
           tx == [task[t] EXCEPT !.todo = T, !.mem = M]
<1>1. Open(t) /\ task[t] \in QuarantineTx /\ t \in denied /\ DoneOK(task[t])
  BY OpenRecord DEF ExciseRow, Open, OpenPcs, IInv, TaskOK
<1>2. /\ tx \in QuarantineTx /\ tx.pc = "excising" /\ tx.agent = task[t].agent
      /\ tx.spans = task[t].spans /\ tx.todo = T
      /\ tx.mem = M /\ tx.nodes = task[t].nodes
  BY <1>1 DEF ExciseRow, QuarantineTx
<1>3. task' = [task EXCEPT ![t] = tx]
  BY DEF ExciseRow, VisitMemory
<1>4. s \in task[t].spans
  BY <1>1 DEF ExciseRow, VisitMemory, DoneOK
<1> HIDE DEF tx
<1>5. DoneOK(tx)
  BY <1>1, <1>2, <1>4 DEF ExciseRow, DoneOK, MemoriesDone, NodesDone
<1> QED
  BY <1>1, <1>2, <1>3, <1>5, MoveKeeps DEF ExciseRow, IInv, TypeOK

LEMMA MarkRowKeeps ==
    ASSUME IInv, NEW t \in Quarantines, NEW s \in Spans, MarkRow(t, s)  PROVE IInv'
<1> DEFINE T == task[t].todo \ {s}
           N == task[t].nodes \cup {s}
           tx == [task[t] EXCEPT !.todo = T, !.nodes = N]
<1>1. Open(t) /\ task[t] \in QuarantineTx /\ t \in denied /\ DoneOK(task[t])
  BY OpenRecord DEF MarkRow, Open, OpenPcs, IInv, TaskOK
<1>2. /\ tx \in QuarantineTx /\ tx.pc = "marking" /\ tx.agent = task[t].agent
      /\ tx.spans = task[t].spans /\ tx.todo = T
      /\ tx.mem = task[t].mem /\ tx.nodes = N
  BY <1>1 DEF MarkRow, QuarantineTx
<1>3. task' = [task EXCEPT ![t] = tx]
  BY DEF MarkRow, VisitNode
<1>4. s \in task[t].spans
  BY <1>1 DEF MarkRow, VisitNode, DoneOK
<1> HIDE DEF tx
<1>5. DoneOK(tx)
  BY <1>1, <1>2, <1>4 DEF MarkRow, DoneOK, MemoriesDone, NodesDone
<1> QED
  BY <1>1, <1>2, <1>3, <1>5, MoveKeeps DEF MarkRow, IInv, TypeOK

-----------------------------------------------------------------------------
(* The commit.                                                             *)

\* What t, about to commit, is: every row that it covers is locked by it or
\* already out of use.
LEMMA AtCommit ==
    ASSUME IInv, NEW t \in Quarantines, task[t].pc = "commit"
    PROVE  /\ Open(t) /\ task[t] \in QuarantineTx /\ ~Recorded(t) /\ t \in denied
           /\ registry[task[t].agent] # "NONE"
           /\ task[t].mem \subseteq task[t].spans /\ task[t].nodes \subseteq task[t].spans
           /\ \A s \in task[t].spans : /\ s \in task[t].mem \/ memory[s] # "ACTIVE"
                                       /\ s \in task[t].nodes \/ taint[s] # "CLEAN"
<1>1. Open(t) /\ TaskOK(t)
  BY DEF IInv, Open, OpenPcs
<1> QED
  BY <1>1, OpenRecord
  DEF IInv, TaskOK, EndedPcs, DoneOK, MemoriesDone, NodesDone

\* Of the rows that t covers, those in use are the ones that it writes.
LEMMA WritesExactly ==
    ASSUME IInv, NEW t \in Quarantines, CommitQuarantine(t)
    PROVE  /\ memory' = Abs!Excised(memory, task[t].spans, "ACTIVE")
           /\ taint' = Abs!Excised(taint, task[t].spans, "CLEAN")
BY AtCommit DEF CommitQuarantine, Written, Abs!Excised

LEMMA CommitQuarantineKeeps ==
    ASSUME IInv, NEW t \in Quarantines, CommitQuarantine(t)  PROVE IInv'
<1> DEFINE a == task[t].agent
           D == task[t].spans
<1>1. /\ task[t] \in QuarantineTx /\ ~Recorded(t) /\ t \in denied
      /\ registry[a] # "NONE" /\ a \in Agents /\ D \subseteq Spans
      /\ UNCHANGED <<denied, events, request>>
  BY AtCommit DEF CommitQuarantine, QuarantineTx
<1>2. PICK pc \in EndedPcs : End(t, pc)
  BY DEF CommitQuarantine
<1>3. /\ task'[t] \in QuarantineTx /\ task'[t].pc = pc
      /\ \A u \in Quarantines \ {t} : task'[u] = task[u]
      /\ task' \in [Quarantines -> {NotStarted} \cup QuarantineTx]
  <2> DEFINE tx == [task[t] EXCEPT !.pc = pc, !.todo = {}, !.mem = {}, !.nodes = {}]
  <2>1. tx \in QuarantineTx /\ tx.pc = pc
    BY <1>1 DEF QuarantineTx
  <2>2. task' = [task EXCEPT ![t] = tx]
    BY <1>2 DEF End
  <2> HIDE DEF tx
  <2> QED
    BY <2>1, <2>2 DEF IInv, TypeOK
<1>4. /\ incident'[t] = [status |-> "QUARANTINED", agent |-> a, spans |-> D]
      /\ \A i \in Quarantines \ {t} : incident'[i] = incident[i]
      /\ incident' \in [Quarantines -> {NoIncident} \cup IncidentRow]
  BY <1>1 DEF CommitQuarantine, IInv, TypeOK, IncidentRow
<1>5. /\ registry' \in [Agents -> {"NONE", "ACTIVE", "INACTIVE"}]
      /\ registry'[a] = "INACTIVE"
      /\ \A b \in Agents \ {a} : registry'[b] = registry[b]
  BY <1>1 DEF CommitQuarantine, IInv, TypeOK
<1>6. /\ memory' \in [Spans -> {"NONE", "ACTIVE", "EXCISED"}]
      /\ \A s \in Spans : memory'[s] = IF s \in D /\ memory[s] = "ACTIVE"
                                       THEN "EXCISED" ELSE memory[s]
  BY WritesExactly DEF Abs!Excised, IInv, TypeOK
<1>7. /\ taint' \in [Spans -> {"NONE", "CLEAN", "EXCISED"}]
      /\ \A s \in Spans : taint'[s] = IF s \in D /\ taint[s] = "CLEAN"
                                      THEN "EXCISED" ELSE taint[s]
  BY WritesExactly DEF Abs!Excised, IInv, TypeOK
<1>8. TypeOK'
  <2>1. \A s \in Spans : memory'[s] # "NONE" => taint'[s] # "NONE"
    BY <1>6, <1>7 DEF IInv, TypeOK
  <2> QED
    BY <1>1, <1>3, <1>4, <1>5, <1>6, <1>7, <2>1 DEF IInv, TypeOK
<1>9. Advance
  BY <1>1, <1>5, <1>6, <1>7 DEF Advance
<1>10. Contained'
  <2> SUFFICES ASSUME NEW i \in Quarantines, Recorded(i)'
               PROVE  /\ registry'[incident'[i].agent] = "INACTIVE"
                      /\ \A s \in incident'[i].spans :
                            memory'[s] # "ACTIVE" /\ taint'[s] # "CLEAN"
    BY DEF Contained
  <2>1. CASE i = t
    BY <1>1, <1>4, <1>5, <1>6, <1>7, <2>1
  <2>2. CASE i # t
    <3>1. Recorded(i) /\ incident'[i] = incident[i]
      BY <1>4, <2>2 DEF Recorded
    <3>2. incident[i].agent \in Agents /\ incident[i].spans \subseteq Spans
      BY <3>1 DEF IInv, TypeOK, Recorded, IncidentRow
    <3>3. /\ registry[incident[i].agent] = "INACTIVE"
          /\ \A s \in incident[i].spans : memory[s] # "ACTIVE" /\ taint[s] # "CLEAN"
      BY <3>1 DEF IInv, Contained
    <3> QED
      BY <1>5, <1>9, <3>1, <3>2, <3>3 DEF Advance
  <2> QED
    BY <2>1, <2>2
<1>11. ~Open(t)'
  BY <1>3 DEF Open, OpenPcs, EndedPcs
<1>12. TaskOK(t)'
  BY <1>1, <1>3, <1>11 DEF TaskOK, EndedPcs
<1> QED
  BY <1>1, <1>3, <1>4, <1>8, <1>9, <1>10, <1>11, <1>12, StepKeeps DEF HoldsAgent

-----------------------------------------------------------------------------
(* The invariant.                                                          *)

\* A request for a rollback concerns no task and no table.
LEMMA RollbackKeeps ==
    ASSUME IInv, NEW k \in Rollbacks, NEW i \in Quarantines, Rollback(k, i)
    PROVE  IInv'
<1>1. UNCHANGED <<tables, task, denied, events>>
  BY DEF Rollback
<1>2. request' \in [Rollbacks -> {NotAsked, NotFound} \cup {Raised(j) : j \in Quarantines}]
  BY DEF Rollback, IInv, TypeOK
<1>3. TypeOK'
  BY <1>1, <1>2 DEF IInv, TypeOK, tables
<1>4. Contained' /\ AgentsApart'
  BY <1>1 DEF IInv, Contained, Recorded, AgentsApart, HoldsAgent, Open, tables
<1>5. \A t \in Quarantines : TaskOK(t)'
  BY <1>1 DEF IInv, TaskOK, Recorded, Open, DoneOK, tables
<1> QED
  BY <1>3, <1>4, <1>5 DEF IInv

LEMMA NextIInv == IInv /\ [Next]_vars => IInv'
<1> SUFFICES ASSUME IInv, [Next]_vars PROVE IInv'
  OBVIOUS
<1>1. ASSUME NEW t \in Quarantines, NEW a \in Agents, NEW z \in Spans,
             NEW D \in SUBSET Spans, StartQuarantine(t, a, z, D)
      PROVE  IInv'
  BY <1>1, StartQuarantineKeeps
<1>2. ASSUME NEW t \in Quarantines, Statement(t)
      PROVE  IInv'
  BY <1>2, DeactivateKeeps, RevokeTokenKeeps, ExciseKeeps, ExciseRowKeeps,
     MarkKeeps, MarkRowKeeps, RecordIncidentKeeps, BroadcastKeeps,
     CommitQuarantineKeeps
  DEF Statement
<1>3. ASSUME NEW t \in Quarantines, RevokeFails(t) \/ Abort(t)
      PROVE  IInv'
  BY <1>3, RevokeFailsKeeps, AbortKeeps
<1>4. ASSUME NEW k \in Rollbacks, NEW i \in Quarantines, Rollback(k, i)
      PROVE  IInv'
  BY <1>4, RollbackKeeps
<1>5. CASE UNCHANGED vars
  <2>1. TypeOK' /\ Contained' /\ AgentsApart'
    BY <1>5 DEF vars, IInv, TypeOK, Contained, Recorded, AgentsApart, HoldsAgent, Open
  <2>2. \A t \in Quarantines : TaskOK(t)'
    BY <1>5 DEF vars, IInv, TaskOK, Recorded, Open, DoneOK
  <2> QED
    BY <2>1, <2>2 DEF IInv
<1> QED
  BY <1>1, <1>2, <1>3, <1>4, <1>5 DEF Next

LEMMA IInvariant == Spec => []IInv
BY InitIInv, NextIInv, PTL DEF Spec

-----------------------------------------------------------------------------
(* What follows.                                                           *)

\* Every state of the protocol is well typed, and no memory is without its
\* provenance row (the foreign key of models.py).
THEOREM QuarantineTypes == Spec => []TypeOK
<1>1. IInv => TypeOK
  BY DEF IInv
<1> QED
  BY <1>1, IInvariant, PTL

\* A quarantine holds for good: its agent is inactive and its rows are out of
\* use from the commit of execute_quarantine on, whatever runs beside it.
THEOREM QuarantineContains == Spec => []Contained
<1>1. IInv => Contained
  BY DEF IInv
<1> QED
  BY <1>1, IInvariant, PTL

\* An incident is on record only when its trigger token is on the deny-list:
\* the revocation comes before the insert and an exception in it aborts both.
THEOREM RecordedRevoked == Spec => []RecordedMeansRevoked
<1>1. IInv => RecordedMeansRevoked
  BY DEF IInv, RecordedMeansRevoked, TaskOK
<1> QED
  BY <1>1, IInvariant, PTL

\* A task whose event is on the stream is before its commit or has ended.
EventOK == \A t \in events : task[t].pc \in {"commit"} \cup EndedPcs

LEMMA EventStep == IInv /\ EventOK /\ [Next]_vars => EventOK'
<1> DEFINE Past == {"commit"} \cup EndedPcs
<1> SUFFICES ASSUME IInv, EventOK, [Next]_vars, NEW u \in events'
             PROVE  task'[u].pc \in Past
  BY DEF EventOK
<1>1. task \in [Quarantines -> {NotStarted} \cup QuarantineTx]
      /\ events \subseteq Quarantines
  BY DEF IInv, TypeOK
<1>2. ASSUME u \in events, task'[u] = task[u]
      PROVE  task'[u].pc \in Past
  BY <1>2 DEF EventOK
<1>3. ASSUME NEW t \in Quarantines, Statement(t)
      PROVE  task'[u].pc \in Past
  <2>1. CASE Broadcast(t)
    <3>1. task'[t].pc = "commit" /\ \A w \in Quarantines \ {t} : task'[w] = task[w]
      BY <1>1, <2>1 DEF Broadcast, Goto
    <3> QED
      BY <1>1, <1>2, <2>1, <3>1 DEF Broadcast
  <2>2. CASE CommitQuarantine(t)
    <3>1. task'[t].pc \in EndedPcs /\ \A w \in Quarantines \ {t} : task'[w] = task[w]
      BY <1>1, <2>2 DEF CommitQuarantine, End
    <3> QED
      BY <1>1, <1>2, <2>2, <3>1 DEF CommitQuarantine
  <2>3. CASE ~Broadcast(t) /\ ~CommitQuarantine(t)
    <3>1. task[t].pc \notin Past /\ u \in events
      BY <1>3, <2>3
      DEF EndedPcs, Statement, Deactivate, RevokeToken, Excise, Mark, RecordIncident,
          ExciseRow, MarkRow
    <3>2. u # t
      BY <3>1 DEF EventOK
    <3>3. \A w \in Quarantines \ {t} : task'[w] = task[w]
      BY <1>1, <1>3, <2>3
      DEF Statement, Deactivate, RevokeToken, Excise, Mark, RecordIncident, ExciseRow,
          MarkRow, Goto, End, Find, VisitMemory, VisitNode
    <3> QED
      BY <1>1, <1>2, <3>1, <3>2, <3>3
  <2> QED
    BY <2>1, <2>2, <2>3
<1>4. ASSUME NEW t \in Quarantines, RevokeFails(t) \/ Abort(t)
      PROVE  task'[u].pc \in Past
  <2>1. u \in events /\ \A w \in Quarantines \ {t} : task'[w] = task[w]
    BY <1>1, <1>4 DEF RevokeFails, Abort, End
  <2>2. task'[t].pc = "failed"
    <3>1. Open(t) /\ End(t, "failed")
      BY <1>4 DEF RevokeFails, Abort, Open, OpenPcs
    <3>2. task[t] \in QuarantineTx
      BY <3>1, OpenRecord DEF IInv
    <3> QED
      BY <1>1, <3>1, <3>2 DEF End, QuarantineTx
  <2> QED
    BY <1>1, <1>2, <2>1, <2>2 DEF EndedPcs
<1>5. ASSUME NEW t \in Quarantines, NEW a \in Agents, NEW z \in Spans,
             NEW D \in SUBSET Spans, StartQuarantine(t, a, z, D)
      PROVE  task'[u].pc \in Past
  <2>1. u \in events /\ u # t
    BY <1>5 DEF StartQuarantine, EventOK, NotStarted, EndedPcs
  <2>2. task'[u] = task[u]
    BY <1>1, <1>5, <2>1 DEF StartQuarantine
  <2> QED
    BY <1>2, <2>1, <2>2
<1>6. ASSUME NEW k \in Rollbacks, NEW i \in Quarantines, Rollback(k, i)
      PROVE  task'[u].pc \in Past
  BY <1>2, <1>6 DEF Rollback
<1>7. CASE UNCHANGED vars
  BY <1>2, <1>7 DEF vars
<1> QED
  BY <1>3, <1>4, <1>5, <1>6, <1>7 DEF Next

\* Of the events of one agent at most one is ahead of its commit: a task that
\* has published holds the row of its agent until it ends.
THEOREM EventsInCommitOrder == Spec => []OneEventAhead
<1>1. ASSUME IInv, EventOK
      PROVE  OneEventAhead
  <2> SUFFICES ASSUME NEW t \in events, NEW u \in events, t # u, Open(t), Open(u),
                      task[t].agent = task[u].agent
               PROVE  FALSE
    BY DEF OneEventAhead
  <2>1. t \in Quarantines /\ u \in Quarantines
    BY <1>1 DEF IInv, TypeOK
  <2>2. task[t].pc = "commit" /\ task[u].pc = "commit"
    BY <1>1, <2>1 DEF EventOK, Open, OpenPcs, EndedPcs
  <2>3. task[t].agent \in Agents /\ registry[task[t].agent] # "NONE"
    BY <1>1, <2>1, <2>2, AtCommit DEF QuarantineTx
  <2>4. HoldsAgent(t, task[t].agent) /\ HoldsAgent(u, task[t].agent)
    BY <2>2 DEF HoldsAgent
  <2> QED
    BY <1>1, <2>1, <2>3, <2>4 DEF IInv, AgentsApart
<1>2. Init => EventOK
  BY DEF Init, EventOK
<1>3. IInv /\ EventOK /\ [Next]_vars => EventOK'
  BY EventStep
<1> QED
  BY <1>1, <1>2, <1>3, IInvariant, PTL DEF Spec

\* A task that still has rows to visit holds its agent's row, so tasks that wait
\* for each other hold different ones: the UPDATE of the row comes first in each.
THEOREM DeadlocksOnlyAcross == Spec => []DeadlocksCrossAgents
<1>1. ASSUME IInv, NEW W \in SUBSET Quarantines, Deadlock(W),
             \A t \in W : registry[task[t].agent] # "NONE"
      PROVE  \E t, u \in W : task[t].agent # task[u].agent
  <2>1. ASSUME NEW t \in W
        PROVE  HoldsAgent(t, task[t].agent) /\ task[t].agent \in Agents
    <3>1. Open(t) /\ task[t].todo # {}
      BY <1>1 DEF Deadlock, Stuck
    <3> QED
      BY <1>1, <3>1, OpenRecord DEF IInv, TaskOK, DoneOK, HoldsAgent, QuarantineTx
  <2>2. PICK t \in W : Stuck(t, W)
    BY <1>1 DEF Deadlock
  <2>3. PICK u \in W \ {t} : TRUE
    BY <2>2 DEF Stuck
  <2> QED
    BY <1>1, <2>1, <2>3 DEF IInv, AgentsApart
<1>2. IInv => DeadlocksCrossAgents
  BY <1>1 DEF DeadlocksCrossAgents
<1> QED
  BY <1>2, IInvariant, PTL

-----------------------------------------------------------------------------
(* The refinement.                                                         *)

\* Interleaved quarantines take effect whole and one at a time.
THEOREM ImplementsAbstract == Spec => AbsSpec
<1>1. Init => Abs!Init
  BY DEF Init, Abs!Init, NoIncident, Abs!NoIncident
<1>2. IInv /\ [Next]_vars => [Abs!Next]_(Abs!vars)
  <2> SUFFICES ASSUME IInv, [Next]_vars PROVE [Abs!Next]_(Abs!vars)
    OBVIOUS
  <2>1. CASE UNCHANGED tables
    BY <2>1 DEF tables, Abs!vars
  <2>2. ASSUME NEW t \in Quarantines, CommitQuarantine(t)
        PROVE  Abs!Next
    <3>1. /\ task[t].agent \in Agents /\ task[t].spans \in SUBSET Spans
          /\ ~Recorded(t) /\ registry[task[t].agent] # "NONE"
      BY <2>2, AtCommit DEF CommitQuarantine, QuarantineTx
    <3>2. Abs!Quarantine(t, task[t].agent, task[t].spans)
      BY <2>2, <3>1, WritesExactly
      DEF CommitQuarantine, Recorded, NoIncident, Abs!NoIncident, Abs!Quarantine
    <3> QED
      BY <3>1, <3>2 DEF Abs!Next
  <2>3. UNCHANGED tables \/ \E t \in Quarantines : CommitQuarantine(t)
    BY DEF Next, Statement, StartQuarantine, Deactivate, RevokeToken, Excise,
           Mark, RecordIncident, Broadcast, ExciseRow, MarkRow, RevokeFails,
           Abort, Rollback, vars, tables
  <2> QED
    BY <2>1, <2>2, <2>3
<1> QED
  BY <1>1, <1>2, IInvariant, PTL DEF Spec, AbsSpec, Abs!Spec
=============================================================================
