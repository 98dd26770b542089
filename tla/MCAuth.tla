------------------------------- MODULE MCAuth -------------------------------
(* Two tokens and two requests; a token lives two seconds of two ticks     *)
(* each, and the clock runs past the life of a token issued late.          *)
EXTENDS Auth, TLC

CONSTANTS j1, j2, r1, r2

Symmetry == Permutations({j1, j2}) \cup Permutations({r1, r2})
=============================================================================
