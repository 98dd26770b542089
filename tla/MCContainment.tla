--------------------------- MODULE MCContainment ---------------------------
(* Two sources and two calls: chains, forks and joins of up to four spans,  *)
(* two analyses that share the cache, and two incidents that may share      *)
(* spans; one stranger, for a parent that is none.  A search for one        *)
(* memory, so that each may be the one it finds.                            *)
EXTENDS Containment, TLC

CONSTANTS s1, s2, c1, c2, x1, a1

Symmetry == Permutations(Sources) \cup Permutations(Calls)
=============================================================================
