--------------------------- MODULE QuarantineAbs ---------------------------
(***************************************************************************)
(* What the quarantine protocol promises: a quarantine happens in one step *)
(* to the agent, the memories and the provenance nodes of one incident     *)
(* together, and never in part.                                            *)
(***************************************************************************)
CONSTANTS Agents, Spans, Incidents

VARIABLES
    registry,  \* registry[a]: "NONE" (not registered), "ACTIVE" or "INACTIVE"
    memory,    \* memory[s]: the memory whose source is span s, or "NONE"
    taint,     \* taint[s]: the provenance row of span s, or "NONE"
    incident   \* incident[i]: the security_incidents row, or NoIncident

vars == <<registry, memory, taint, incident>>

NoIncident == [status |-> "NONE"]

Init ==
    /\ registry \in [Agents -> {"NONE", "ACTIVE"}]
    /\ memory \in [Spans -> {"NONE", "ACTIVE"}]
    /\ taint \in [Spans -> {"NONE", "CLEAN"}]
    /\ \A s \in Spans : memory[s] # "NONE" => taint[s] # "NONE"
    /\ incident = [i \in Incidents |-> NoIncident]

-----------------------------------------------------------------------------

\* The rows D of a table that are in use, in state `from`, are taken out of it.
Excised(table, D, from) ==
    [s \in Spans |-> IF s \in D /\ table[s] = from THEN "EXCISED" ELSE table[s]]

Quarantine(i, a, D) ==
    /\ incident[i] = NoIncident
    /\ registry[a] # "NONE"
    /\ registry' = [registry EXCEPT ![a] = "INACTIVE"]
    /\ memory' = Excised(memory, D, "ACTIVE")
    /\ taint' = Excised(taint, D, "CLEAN")
    /\ incident' = [incident EXCEPT ![i] =
                       [status |-> "QUARANTINED", agent |-> a, spans |-> D]]

Next ==
    \E i \in Incidents, a \in Agents, D \in SUBSET Spans : Quarantine(i, a, D)

Spec == Init /\ [][Next]_vars
=============================================================================
