---------------------------- MODULE MCStoreBatch ----------------------------
(* TLC instance of StoreBatch: two stores.                                  *)
EXTENDS StoreBatch

CONSTANTS s1, s2
=============================================================================
