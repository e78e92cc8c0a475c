---------------------------- MODULE MCAsyncSlots ----------------------------
(* TLC instances of AsyncSlots: a store ns with a cacheKey, and ns::child.  *)
EXTENDS AsyncSlots

CONSTANTS ns, child, nsSlot, nsKeySlot, childSlot, r1, r2

MCSlotsOf == [n \in {ns, child} |-> IF n = ns THEN {nsSlot, nsKeySlot} ELSE {childSlot}]
MCLooksLike == [n \in {ns, child} |-> IF n = ns THEN {nsSlot, nsKeySlot, childSlot}
                                      ELSE {childSlot}]
MCBaseSlot == [n \in {ns, child} |-> IF n = ns THEN nsSlot ELSE childSlot]

MCSymmetry == Permutations(Requests)
=============================================================================
