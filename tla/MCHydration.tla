---------------------------- MODULE MCHydration ----------------------------
(* TLC instances of Hydration: two stores, the merges of the second fail. *)
EXTENDS Hydration

CONSTANTS s1, s2
=============================================================================
