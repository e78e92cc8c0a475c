------------------------- MODULE ImmediateHydration -------------------------
(***************************************************************************)
(* What the boot window promises: deferring a write changes nothing but the*)
(* time.  Here every write is reconciled and applied at once; a snapshot   *)
(* replaces the stores it names and sets their baselines; a load from      *)
(* persistence is applied only while nothing wrote the store since it      *)
(* began.                                                                  *)
(***************************************************************************)
EXTENDS Reconcile

CONSTANT Persisted    \* stores that load their value when they are created

VARIABLES
  key,        \* the last key given away
  store,      \* the stores that exist
  loading,    \* stores with a load under way that nothing has overtaken
  loaded      \* stores whose load was applied

vars == <<key, store, loading, loaded>>

TypeOK ==
  /\ key \in 0 .. MaxKey
  /\ DOMAIN store \subseteq Stores
  /\ \A s \in DOMAIN store : store[s] \in Store
  /\ loading \subseteq DOMAIN store
  /\ loaded \subseteq DOMAIN store

Init == key = 0 /\ store = [s \in {} |-> 0] /\ loading = {} /\ loaded = {}

NewKey == key < MaxKey /\ key' = key + 1

Create(s) ==
  /\ s \notin DOMAIN store
  /\ NewKey
  /\ store' = [t \in DOMAIN store \cup {s} |->
       IF t = s THEN [value |-> {key'}, initial |-> {key'}, entry |-> NoEntry] ELSE store[t]]
  /\ loading' = loading \cup ({s} \cap Persisted)
  /\ UNCHANGED loaded

Delete(s) ==
  /\ s \in DOMAIN store
  /\ store' = [t \in DOMAIN store \ {s} |-> store[t]]
  /\ loading' = loading \ {s}
  /\ loaded' = loaded \ {s}
  /\ UNCHANGED key

DoWrite(s) ==
  /\ s \in DOMAIN store
  /\ NewKey
  /\ \E k \in Kinds, src \in Sources \ {"hydrate", "storage"} :
       store' = [store EXCEPT
         ![s] = ApplyWrite(@, [store |-> s, kind |-> k, source |-> src, key |-> key'])]
  /\ loading' = loading \ {s}
  /\ UNCHANGED loaded

\* The load of s is applied.
Load(s) ==
  /\ s \in loading
  /\ NewKey
  /\ \E k \in {"replace", "reset"} :
       store' = [store EXCEPT
         ![s] = ApplyWrite(@, [store |-> s, kind |-> k, source |-> "storage", key |-> key'])]
  /\ loading' = loading \ {s}
  /\ loaded' = loaded \cup {s}

\* The load of s finds nothing to apply.
LoadNothing(s) ==
  /\ s \in loading
  /\ loading' = loading \ {s}
  /\ UNCHANGED <<key, store, loaded>>

\* Snapshot key' for the stores of names; their entries are as given, and no other
\* store has one.
Hydrate(names, entry) ==
  /\ NewKey
  /\ LET old == store
     IN  /\ store' = [s \in DOMAIN old \cup names |->
              IF s \in names
              THEN [value |-> {key'},
                    initial |-> IF s \in DOMAIN old THEN old[s].initial ELSE {key'},
                    entry |-> entry[s]]
              ELSE [old[s] EXCEPT !.entry = NoEntry]]
         /\ loading' = (loading \ names) \cup ((names \ DOMAIN old) \cap Persisted)
  /\ UNCHANGED loaded

Next ==
  \/ \E s \in Stores : Create(s) \/ Delete(s) \/ DoWrite(s) \/ Load(s) \/ LoadNothing(s)
  \/ \E names \in (SUBSET Stores) \ {{}} :
       \/ Hydrate(names, [s \in names |-> NoEntry])
       \/ \E p \in [names -> Policies] : Hydrate(names, [s \in names |-> FreshEntry(p[s], {key'})])

Spec == Init /\ [][Next]_vars
=============================================================================
