---------------------------- MODULE MCAsyncFetch ----------------------------
(* TLC instances of AsyncFetch: one store with two cache slots.             *)
EXTENDS AsyncFetch

CONSTANTS k1, k2
=============================================================================
