----------------------------- MODULE MCRegistry -----------------------------
(* Two requests, two Sentinel tasks and two tokens: an incident may fall    *)
(* between the checks of a call that carries its token or the other one.    *)
EXTENDS Registry, TLC

CONSTANTS r1, r2, t1, t2, j1, j2

\* Sound: the run checks safety only, and no definition picks a name.
Symmetry == Permutations(Requests) \cup Permutations(Sentinels)
                \cup Permutations(Tokens)
=============================================================================
