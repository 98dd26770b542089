---------------------------- MODULE MCQuarantine ----------------------------
(* Two agents and two spans, so that incidents may share the agent, a span, *)
(* both or neither.  The first agent and the first span have all their rows *)
(* (names are interchangeable); the second ones may lack theirs.            *)
EXTENDS Quarantine

CONSTANTS a1, a2, s1, s2, q1, q2, k1

MCInit == Init /\ registry[a1] = "ACTIVE" /\ memory[s1] = "ACTIVE"

MCSpec == MCInit /\ [][Next]_vars /\ Fairness
=============================================================================
