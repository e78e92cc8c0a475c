--------------------------- MODULE MCRequestScope ---------------------------
(* TLC instances of RequestScope: hydrates of one request, one after another. *)
EXTENDS RequestScope

CONSTANTS a, b
=============================================================================
