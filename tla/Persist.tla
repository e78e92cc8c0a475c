------------------------------ MODULE Persist ------------------------------
(***************************************************************************)
(* The persist feature (features/persist): one store saved under one key.  *)
(* Saves are debounced by a timer, chained one behind the other, numbered, *)
(* and dropped when a newer one was started; a store that is created loads *)
(* what the key holds; hiding the page starts a save at once.  The page    *)
(* can be reloaded at any moment: then only the storage survives.          *)
(*                                                                         *)
(* A step is what runs between two awaits.  With a synchronous driver and  *)
(* synchronous encryption (~slow) every await is a microtask, so all of    *)
(* them end before the next task; a slow one is overtaken by anything.     *)
(* Values are stamps in the order of the writes; 0 is the initial value.   *)
(***************************************************************************)
EXTENDS Naturals, SequencesExt

CONSTANTS
  MaxWrites,          \* bound on the application's writes
  MaxCreates,         \* bound on creations of the store
  MaxHides,           \* bound on pagehide and beforeunload events
  Faults,             \* may setItem fail, and may a payload be rejected when it is loaded?
  HideWhileLoading,   \* may the page be hidden before the load has ended?
  HideAgain,          \* may the page be hidden again after it came back?
  RecreateBusy        \* may the store be created while a save or load of the last one runs?

ASSUME PersistAssumption ==
  /\ {MaxWrites, MaxCreates, MaxHides} \subseteq Nat
  /\ {Faults, HideWhileLoading, HideAgain, RecreateBusy} \subseteq BOOLEAN

VARIABLES
  slow,             \* are the driver or the encryption asynchronous?
  alive, value,     \* the store exists; its value
  updateCount,      \* of its metadata
  incarnation,      \* creations so far: the identity of the options the store has
  storage,          \* what the key holds
  timer,            \* persistTimers: none, due, or fired with its write still under way
  persistSequence,
  writes,           \* the writes under way, in the order they were started
  loads,            \* the loads under way
  loading,          \* persistLoadState: "no", "loading", "pendingSave"
  listening,        \* the pagehide and beforeunload listeners are there
  stamp,            \* the last stamp given to a write
  hides,            \* page hides so far
  hidden,           \* ghost: the page was hidden and the store not changed since
  failed,           \* ghost: the last setItem failed
  rejected          \* ghost: the load was rejected and nothing saved since

storeVars == <<alive, value, updateCount, incarnation>>
saveVars == <<timer, persistSequence, writes>>
loadVars == <<loads, loading>>
hideVars == <<listening, hides, hidden>>
ghosts == <<failed, rejected>>
vars == <<slow, storeVars, storage, saveVars, loadVars, hideVars, stamp, ghosts>>

Stamps == 0 .. MaxWrites
None == MaxWrites + 1       \* the key holds nothing

\* A write under way: whose timer started it, whether that timer is still the
\* current one, whether it waits for the write before it.
WriteRecord ==
  [incarnation : 1 .. MaxCreates, sequence : Nat, timed : {"no", "current", "superseded"},
   behind : BOOLEAN, stage : {"wait", "sealing", "sent", "stored"}, payload : Stamps]

TypeOK ==
  /\ {slow, alive, listening, hidden, failed, rejected} \subseteq BOOLEAN
  /\ value \in Stamps /\ stamp \in Stamps
  /\ updateCount \in Nat /\ persistSequence \in Nat
  /\ incarnation \in 0 .. MaxCreates /\ hides \in 0 .. MaxHides
  /\ storage \in Stamps \cup {None}
  /\ timer \in {"none", "due", "fired"}
  /\ writes \in Seq(WriteRecord)
  /\ loads \subseteq [incarnation : 1 .. MaxCreates, raw : Stamps \cup {None}]
  /\ loading \in {"no", "loading", "pendingSave"}
  /\ timer = "fired" <=> \E i \in DOMAIN writes : writes[i].timed = "current"

Init ==
  /\ slow \in BOOLEAN
  /\ alive = FALSE /\ value = 0 /\ updateCount = 0 /\ incarnation = 0
  /\ storage = None
  /\ timer = "none" /\ persistSequence = 0 /\ writes = <<>>
  /\ loads = {} /\ loading = "no"
  /\ listening = FALSE /\ hides = 0 /\ hidden = FALSE
  /\ stamp = 0
  /\ failed = FALSE /\ rejected = FALSE

-----------------------------------------------------------------------------
(***************************************************************************)
(* Saving.                                                                 *)
(***************************************************************************)

\* A task starts when the microtasks have run.
TaskMayRun == slow \/ writes = <<>>

\* The current timer is no longer that of any write.
Supersede(ws) ==
  [i \in DOMAIN ws |-> [ws[i] EXCEPT !.timed = IF @ = "current" THEN "superseded" ELSE @]]

\* Mutant of PersistSave: a timer that is set is left alone.
PersistSaveOnce ==
  /\ timer' = IF timer = "none" THEN "due" ELSE timer
  /\ UNCHANGED writes

\* persistSave: a new timer takes the place of the old one.
PersistSave ==
  /\ timer' = "due"
  /\ writes' = Supersede(writes)

\* persistInFlight, in ws
InFlight(ws) == \E i \in DOMAIN ws : ws[i].incarnation = incarnation

\* Mutant of StartWrite: it does not wait for the write under way.
StartWriteAtOnce(ws, timed) ==
  /\ persistSequence' = persistSequence + 1
  /\ writes' = Append(ws, [incarnation |-> incarnation, sequence |-> persistSequence',
       timed |-> timed, behind |-> FALSE, stage |-> "sealing", payload |-> value])

\* startWrite, after the writes ws: at once, or behind the last of them.
StartWrite(ws, timed) ==
  /\ persistSequence' = persistSequence + 1
  /\ writes' = Append(ws, [incarnation |-> incarnation, sequence |-> persistSequence',
       timed |-> timed, behind |-> InFlight(ws),
       stage |-> IF InFlight(ws) THEN "wait" ELSE "sealing",
       payload |-> IF InFlight(ws) THEN 0 ELSE value])

FireTimer ==
  /\ TaskMayRun
  /\ timer = "due"
  /\ timer' = "fired"
  /\ StartWrite(writes, "current")
  /\ UNCHANGED <<slow, storeVars, storage, loadVars, hideVars, stamp, ghosts>>

\* Mutant of FinishWrite: persistTimers keeps the timer of a write that ended.
FinishWriteOnly(i) ==
  /\ writes' = [j \in DOMAIN RemoveAt(writes, i) |->
       [RemoveAt(writes, i)[j] EXCEPT !.behind = @ /\ j # i]]
  /\ UNCHANGED timer

\* The finally handler of write i; the one behind it goes on.
FinishWrite(i) ==
  /\ writes' = [j \in DOMAIN RemoveAt(writes, i) |->
       [RemoveAt(writes, i)[j] EXCEPT !.behind = @ /\ j # i]]
  /\ timer' = IF writes[i].timed = "current" THEN "none" ELSE timer

IsLatest(w) == w.sequence = persistSequence

\* A write that waited looks whether it is still wanted, and reads the store.
Continue(i) ==
  /\ writes[i].stage = "wait" /\ ~writes[i].behind
  /\ IF /\ writes[i].timed # "superseded"
        /\ IsLatest(writes[i])
        /\ alive /\ writes[i].incarnation = incarnation
     THEN /\ writes' = [writes EXCEPT ![i].stage = "sealing", ![i].payload = value]
          /\ UNCHANGED timer
     ELSE FinishWrite(i)
  /\ UNCHANGED <<slow, storeVars, storage, persistSequence, loadVars, hideVars, stamp, ghosts>>

\* The payload is checksummed and encrypted: it goes to the driver if no newer
\* write started.
Sealed(i) ==
  /\ writes[i].stage = "sealing"
  /\ IF IsLatest(writes[i])
     THEN writes' = [writes EXCEPT ![i].stage = "sent"] /\ UNCHANGED timer
     ELSE FinishWrite(i)
  /\ UNCHANGED <<slow, storeVars, storage, persistSequence, loadVars, hideVars, stamp, ghosts>>

\* setItem takes effect, or fails: at any time before the driver answers.
SetItem(i) ==
  /\ writes[i].stage = "sent"
  /\ \/ /\ storage' = writes[i].payload
        /\ failed' = FALSE /\ rejected' = FALSE
        /\ writes' = [writes EXCEPT ![i].stage = "stored"]
        /\ UNCHANGED timer
     \/ /\ Faults
        /\ failed' = TRUE
        /\ FinishWrite(i)
        /\ UNCHANGED <<storage, rejected>>
  /\ UNCHANGED <<slow, storeVars, persistSequence, loadVars, hideVars, stamp>>

\* The driver has answered.
Answered(i) ==
  /\ writes[i].stage = "stored"
  /\ FinishWrite(i)
  /\ UNCHANGED <<slow, storeVars, storage, persistSequence, loadVars, hideVars, stamp, ghosts>>

-----------------------------------------------------------------------------
(***************************************************************************)
(* The store and the page.                                                 *)
(***************************************************************************)

\* onStoreCreate: load, or save the initial value if there is nothing to load.
CreateStore ==
  /\ TaskMayRun
  /\ ~alive
  /\ incarnation < MaxCreates
  /\ RecreateBusy \/ (writes = <<>> /\ loads = {})
  /\ alive' = TRUE
  /\ incarnation' = incarnation + 1
  /\ listening' = TRUE
  /\ hidden' = FALSE
  /\ failed' = FALSE
  /\ \/ /\ slow
        /\ loads' = loads \cup {[incarnation |-> incarnation', raw |-> storage]}
        /\ loading' = "loading"
        /\ value' = 0 /\ updateCount' = 0 /\ rejected' = FALSE
        /\ UNCHANGED <<timer, writes>>
     \/ /\ ~slow
        /\ storage = None
        /\ PersistSave
        /\ value' = 0 /\ updateCount' = 0 /\ rejected' = FALSE
        /\ UNCHANGED loadVars
     \/ /\ ~slow
        /\ storage # None
        /\ value' = storage /\ updateCount' = 1 /\ rejected' = FALSE
        /\ UNCHANGED <<loadVars, timer, writes>>
     \/ /\ ~slow
        /\ storage # None
        /\ Faults
        /\ value' = 0 /\ updateCount' = 1 /\ rejected' = TRUE
        /\ UNCHANGED <<loadVars, timer, writes>>
  /\ UNCHANGED <<slow, storage, persistSequence, hides, stamp>>

\* shouldApply: the store has not been written since the load started.
ShouldApply == alive /\ updateCount = 0

\* A slow load ends.  persistLoadState is found by name.
FinishLoad(l) ==
  /\ l \in loads
  /\ loads' = loads \ {l}
  /\ \/ /\ l.raw # None
        /\ ShouldApply
        /\ value' = l.raw
        /\ updateCount' = updateCount + 1
        /\ UNCHANGED rejected
     \/ /\ l.raw # None
        /\ Faults
        /\ ShouldApply
        /\ value' = 0
        /\ updateCount' = updateCount + 1
        /\ rejected' = TRUE
     \/ /\ l.raw = None \/ ~ShouldApply
        /\ UNCHANGED <<value, updateCount, rejected>>
  /\ hidden' = (hidden /\ value' = value)
  /\ loading' = "no"
  /\ \/ /\ loading = "pendingSave" \/ (loading = "loading" /\ l.raw = None)
        /\ PersistSave
     \/ /\ loading = "no" \/ (loading = "loading" /\ l.raw # None)
        /\ UNCHANGED <<timer, writes>>
  /\ UNCHANGED <<slow, alive, incarnation, storage, persistSequence, listening, hides, stamp, failed>>

\* Mutant of Write: a write while the load is under way is not remembered.
WriteUnsaved ==
  /\ TaskMayRun
  /\ alive
  /\ stamp < MaxWrites
  /\ stamp' = stamp + 1
  /\ value' = stamp'
  /\ updateCount' = updateCount + 1
  /\ hidden' = FALSE
  /\ \/ loading # "no" /\ UNCHANGED <<loading, timer, writes>>
     \/ loading = "no" /\ PersistSave /\ UNCHANGED loading
  /\ UNCHANGED <<slow, alive, incarnation, storage, persistSequence, loads, listening, hides, ghosts>>

\* A write of the application and onStoreWrite.
Write ==
  /\ TaskMayRun
  /\ alive
  /\ stamp < MaxWrites
  /\ stamp' = stamp + 1
  /\ value' = stamp'
  /\ updateCount' = updateCount + 1
  /\ hidden' = FALSE
  /\ \/ loading # "no" /\ loading' = "pendingSave" /\ UNCHANGED <<timer, writes>>
     \/ loading = "no" /\ PersistSave /\ UNCHANGED loading
  /\ UNCHANGED <<slow, alive, incarnation, storage, persistSequence, loads, listening, hides, ghosts>>

\* flushPersistImmediately
FlushPersistImmediately ==
  /\ timer' = "none"
  /\ StartWrite(Supersede(writes), "no")

\* pagehide or beforeunload: the listeners are removed, a save is started.  A page
\* that came back, or stayed, and is hidden again finds nobody listening.
PageHide ==
  /\ TaskMayRun
  /\ alive
  /\ listening \/ HideAgain
  /\ hides < MaxHides
  /\ HideWhileLoading \/ loading = "no"
  /\ hides' = hides + 1
  /\ hidden' = TRUE
  /\ listening' = FALSE
  /\ IF listening THEN FlushPersistImmediately ELSE UNCHANGED saveVars
  /\ UNCHANGED <<slow, storeVars, storage, loadVars, stamp, ghosts>>

\* beforeStoreDelete
DeleteStore ==
  /\ TaskMayRun
  /\ alive
  /\ alive' = FALSE
  /\ storage' = None
  /\ timer' = "none"
  /\ writes' = Supersede(writes)
  /\ persistSequence' = 0
  /\ loading' = "no"
  /\ listening' = FALSE
  /\ hidden' = FALSE
  /\ UNCHANGED <<slow, value, updateCount, incarnation, loads, hides, stamp, ghosts>>

\* The page goes: everything but the storage is gone.
Reload ==
  /\ alive
  /\ alive' = FALSE
  /\ timer' = "none" /\ writes' = <<>> /\ persistSequence' = 0
  /\ loads' = {} /\ loading' = "no"
  /\ listening' = FALSE
  /\ hidden' = FALSE
  /\ UNCHANGED <<slow, value, updateCount, incarnation, storage, hides, stamp, ghosts>>

-----------------------------------------------------------------------------
Next ==
  \/ CreateStore \/ Write \/ FireTimer
  \/ PageHide \/ DeleteStore \/ Reload
  \/ \E l \in loads : FinishLoad(l)
  \/ \E i \in DOMAIN writes : Continue(i) \/ Sealed(i) \/ SetItem(i) \/ Answered(i)

\* Timers fire; the driver and the encryption answer.
Fairness ==
  /\ WF_vars(FireTimer)
  /\ WF_vars(\E l \in loads : FinishLoad(l))
  /\ WF_vars(\E i \in DOMAIN writes : Continue(i) \/ Sealed(i) \/ SetItem(i) \/ Answered(i))

Spec == Init /\ [][Next]_vars /\ Fairness

-----------------------------------------------------------------------------
(***************************************************************************)
(* Properties.                                                             *)
(***************************************************************************)

\* Nothing is forgotten: when no timer, load or write is left, the storage holds
\* what the store holds, unless the last setItem failed or the load was rejected.  With
\* a synchronous driver that is so after pagehide as soon as the microtasks have run,
\* so that the page may go.
SavedWhenIdle ==
  /\ alive /\ timer = "none" /\ writes = <<>> /\ loads = {} /\ ~failed /\ ~rejected
       => storage = value
  /\ hidden /\ ~slow /\ writes = <<>> /\ ~failed => storage = value

\* An older state never replaces a newer one.  Not in the storage, the initial value
\* least of all: saves are stored in the order of the writes, a load that has not
\* ended is not overwritten, and what was dropped stays dropped.  And not in the
\* store: a load never takes a write of the application back.
NeverGoesBack ==
  [][/\ storage # None /\ storage' # None /\ ~rejected => storage' >= storage
     /\ alive /\ alive' /\ incarnation' = incarnation => value' >= value]_vars

\* Every state the store keeps reaches the storage.
SavedEventually ==
  (alive /\ storage # value) ~> (~alive \/ storage = value \/ failed \/ rejected)
=============================================================================
