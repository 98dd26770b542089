------------------------------ MODULE MCCausal ------------------------------
(* The recording and the analysis by themselves: one call and its source   *)
(* are enough to see the downward walk take the map of the upward one.     *)
EXTENDS Causal

CONSTANTS s1, c1
=============================================================================
