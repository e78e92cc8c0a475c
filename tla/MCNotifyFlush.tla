--------------------------- MODULE MCNotifyFlush ---------------------------
(* TLC instances of NotifyFlush: two stores, the second computed from the   *)
(* first, two subscribers and two chunked flushes that may overlap.         *)
EXTENDS NotifyFlush, TLC

CONSTANTS s1, s2, b1, b2, f1, f2

MCComputedOf == s1 :> {s2} @@ s2 :> {}
MCNoComputed == s1 :> {}

\* Subscribers and flights are interchangeable (safety runs only).
MCSymmetry == Permutations(Subs) \cup Permutations(Flights)
=============================================================================
