----------------------------- MODULE Reconcile -----------------------------
(***************************************************************************)
(* What a write makes of a hydrated store (hydration-consistency/reconcile)*)
(*                                                                         *)
(* A value is the set of its keys; every write and every snapshot brings a *)
(* key of its own, so that equal values are equal sets.  A store is its    *)
(* value, its initial value and its hydration entry, which is NoEntry when *)
(* the last hydrateStores call did not name the store.                     *)
(***************************************************************************)
EXTENDS Naturals, FiniteSets

CONSTANTS
  Stores,
  BadMerge,     \* stores whose merge throws, or whose merged value is refused by validate
  MaxKey        \* bound on the keys

ASSUME ReconcileAssumption == BadMerge \subseteq Stores /\ MaxKey \in Nat

Keys == 1 .. MaxKey
Values == SUBSET Keys
Policies == {"server_wins", "client_wins", "merge", "invalidate_and_refetch"}
Sources == {"effect", "network", "storage", "sync", "hydrate"}
Kinds == {"patch", "replace", "reset"}

\* valid: validate accepts the baseline.
Entry == [policy : Policies, baseline : Values, invalidated : BOOLEAN, valid : BOOLEAN]
NoEntry == [policy |-> "none"]
Store == [value : Values, initial : Values, entry : Entry \cup {NoEntry}]
Write == [store : Stores, kind : Kinds, source : Sources, key : Keys]

\* What the caller asks the store to become.
Wanted(st, w) ==
  CASE w.kind = "patch"   -> st.value \cup {w.key}
    [] w.kind = "replace" -> {w.key}
    [] w.kind = "reset"   -> st.initial

\* The value the policy of entry e lets through when v differs from the baseline.
Resolved(s, e, v) ==
  CASE e.policy = "server_wins"            -> e.baseline
    [] e.policy = "client_wins"            -> v
    [] e.policy = "merge"                  -> IF s \in BadMerge \/ ~e.valid THEN e.baseline
                                              ELSE e.baseline \cup v
    [] e.policy = "invalidate_and_refetch" -> v

\* Mutant of ReconcileValue: a store that is back at the baseline stays invalidated.
ReconcileKeepsMark(s, st, v, source) ==
  LET e == st.entry
  IN  IF e = NoEntry \/ v = e.baseline
      THEN [st EXCEPT !.value = v]
      ELSE IF e.policy = "invalidate_and_refetch" /\ source = "network"
      THEN [st EXCEPT !.value = v, !.entry.baseline = v, !.entry.invalidated = FALSE]
      ELSE [st EXCEPT !.value = Resolved(s, e, v),
                      !.entry.invalidated = @ \/ e.policy = "invalidate_and_refetch"]

\* reconcileHydrationValue, for a write of value v to store s.
ReconcileValue(s, st, v, source) ==
  LET e == st.entry
  IN  IF e = NoEntry
      THEN [st EXCEPT !.value = v]
      ELSE IF e.policy = "invalidate_and_refetch" /\ source = "network"
      THEN [st EXCEPT !.value = v, !.entry.baseline = v, !.entry.invalidated = FALSE]
      ELSE IF v = e.baseline
      THEN [st EXCEPT !.value = v, !.entry.invalidated = FALSE]
      ELSE [st EXCEPT !.value = Resolved(s, e, v),
                      !.entry.invalidated = @ \/ e.policy = "invalidate_and_refetch"]

\* One write, applied to store st.
ApplyWrite(st, w) == ReconcileValue(w.store, st, Wanted(st, w), w.source)

\* The entry hydrateStores makes for a store whose snapshot is v.
FreshEntry(p, v) == [policy |-> p, baseline |-> v, invalidated |-> FALSE, valid |-> TRUE]
=============================================================================
