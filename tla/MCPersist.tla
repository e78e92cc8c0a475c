----------------------------- MODULE MCPersist -----------------------------
(* TLC instances of Persist: one store, reloads and deletions in between. *)
EXTENDS Persist
=============================================================================
