---------------------------- MODULE AtomicBatch ----------------------------
(***************************************************************************)
(* What setStoreBatch and applyStorePatchesAtomic promise: a batch takes   *)
(* effect in one step or not at all, and a batch in which a write failed   *)
(* never takes effect.                                                     *)
(*                                                                         *)
(* Store hooks run while a batch commits and may themselves write, create  *)
(* or delete stores; what they do becomes visible together with the batch. *)
(* Values are stamps, so what a hook wrote is newer than the batch itself. *)
(***************************************************************************)
EXTENDS Naturals

CONSTANT Stores

VARIABLES
  clock,     \* the last stamp given to a write
  db,        \* the committed value of every store, Absent when there is none
  owed,      \* stores whose subscribers will be notified
  phase,     \* "none", "open" (the batch function runs) or "committing"
  writes,    \* the batch's last write to every store, Absent when none
  doomed,    \* a write of the batch failed, or its function threw
  sealed     \* the clock when the batch function returned

batchVars == <<phase, writes, doomed, sealed>>
vars == <<clock, db, owed, batchVars>>

Absent == 0
Nothing == [s \in Stores |-> Absent]

Init ==
  /\ clock \in Nat
  /\ db \in [Stores -> {Absent, clock}]
  /\ owed = {}
  /\ phase = "none" /\ writes = Nothing /\ doomed = FALSE /\ sealed = 0

\* One store is written, created or deleted outside any batch.
Direct(s) ==
  /\ phase = "none"
  /\ clock' \in {clock, clock + 1}
  /\ \E v \in {Absent, clock'} : db' = [db EXCEPT ![s] = v]
  /\ owed' \in {owed, owed \cup {s}, owed \ {s}}
  /\ UNCHANGED batchVars

\* Subscribers are told, outside any batch.
Notify(s) == phase = "none" /\ owed' = owed \cup {s} /\ UNCHANGED <<clock, db, batchVars>>
Flush == phase = "none" /\ owed' = {} /\ UNCHANGED <<clock, db, batchVars>>

Begin ==
  /\ phase = "none" /\ phase' = "open"
  /\ UNCHANGED <<clock, db, owed, writes, doomed, sealed>>

Stage(s) ==
  /\ phase = "open"
  /\ clock' = clock + 1
  /\ writes' = [writes EXCEPT ![s] = clock']
  /\ UNCHANGED <<db, owed, phase, doomed, sealed>>

Fail == phase = "open" /\ doomed' = TRUE /\ UNCHANGED <<clock, db, owed, phase, writes, sealed>>

Seal ==
  /\ phase = "open" /\ ~doomed
  /\ phase' = "committing" /\ sealed' = clock
  /\ UNCHANGED <<clock, db, owed, writes, doomed>>

HookWrites ==
  /\ phase = "committing"
  /\ clock' = clock + 1
  /\ UNCHANGED <<db, owed, batchVars>>

EndBatch == phase' = "none" /\ writes' = Nothing /\ doomed' = FALSE /\ sealed' = 0

\* Every store has the value the batch gave it last or, if it gave none, the
\* value it had, unless a hook wrote or deleted it; a store that took its value
\* from the batch is notified.
Commit ==
  /\ phase = "committing"
  /\ \A s \in Stores :
       LET own == IF writes[s] # Absent THEN writes[s] ELSE db[s]
       IN /\ db'[s] \in {own, Absent} \cup (sealed + 1 .. clock)
          /\ db'[s] # Absent /\ db'[s] = own /\ (writes[s] # Absent \/ s \in owed)
               => s \in owed'
  /\ UNCHANGED clock
  /\ EndBatch

Abort ==
  /\ phase # "none"
  /\ UNCHANGED <<clock, db, owed>>
  /\ EndBatch

Next ==
  \/ \E s \in Stores : Direct(s) \/ Notify(s) \/ Stage(s)
  \/ Flush \/ Begin \/ Fail \/ Seal \/ HookWrites \/ Commit \/ Abort

Spec == Init /\ [][Next]_vars
=============================================================================
