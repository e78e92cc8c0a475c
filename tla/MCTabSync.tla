----------------------------- MODULE MCTabSync -----------------------------
(* TLC instances of TabSync: three tabs, of which one or two may be closed. *)
EXTENDS TabSync
=============================================================================
