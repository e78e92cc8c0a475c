----------------------------- MODULE Hydration -----------------------------
(***************************************************************************)
(* Hydration consistency (core/hydration-consistency, hydrateStores): after*)
(* a snapshot of the server replaced some stores, writes that drift from it*)
(* are reconciled by policy, and while the boot window is open they are    *)
(* queued, to be replayed when a control or the timer closes it.           *)
(*                                                                         *)
(* A step is one synchronous call: an API call outside setStoreBatch, the  *)
(* timer's callback, or the notification flush of one store.  A write is   *)
(* one of setStore (source "effect", or "network" from fetchStore),        *)
(* replaceStore, resetStore, or the state a feature applies: the message of*)
(* another tab ("sync"), or what persistence loads ("storage"), some time  *)
(* after the store is created: the load that ends within createStore, with *)
(* a driver and a decryption that are synchronous, is left out.  Every     *)
(* boot window has token 1, so that every control ever returned closes the *)
(* window of today.                                                        *)
(***************************************************************************)
EXTENDS Reconcile, Sequences, SequencesExt

CONSTANTS
  Persisted,          \* stores with option persist whose load is asynchronous
  LoadBehindWrites,   \* may a load end while a write of its store is deferred?
  HydrateAgain,       \* may a store be hydrated again under a policy that keeps the old
                      \* baseline, or leaving queued writes of other stores behind?
  RejectedSnapshots   \* may validate refuse the snapshot of a store?

ASSUME HydrationAssumption ==
  /\ Persisted \subseteq Stores
  /\ {LoadBehindWrites, HydrateAgain, RejectedSnapshots} \subseteq BOOLEAN

VARIABLES
  key,                \* the last key given away
  alive,              \* the stores that exist
  state,              \* value, initial value and hydration entry of every store
  loading,            \* stores with a load under way and the updateCount it began with
  queue,              \* deferred writes
  bootWindowActive, bootWindowTimer,
  bootWindowToken,    \* a window was opened since the last reset: controls work
  dirty,              \* stores with a pending notification
  told,               \* the value the subscribers of a store saw last
  unannounced,        \* ghost: stores whose value a load, or the replay of a feature's
                      \* state, set without notifying
  loaded,             \* ghost: stores whose load was applied
  rejected            \* ghost: the snapshots refused, by store and key

storeVars == <<alive, state, loading>>
windowVars == <<bootWindowActive, bootWindowTimer, bootWindowToken>>
notifyVars == <<dirty, told, unannounced>>
vars == <<key, storeVars, queue, windowVars, notifyVars, loaded, rejected>>

\* No deferred write is left behind: there is one only while a window is open that
\* will replay it.
NoStrandedWrite == queue # <<>> => bootWindowActive

\* A deferred write is of a store that exists and was hydrated.
TypeOK ==
  /\ key \in 0 .. MaxKey
  /\ alive \subseteq Stores
  /\ state \in [Stores -> Store]
  /\ loading \subseteq alive
  /\ \A i \in DOMAIN queue :
       /\ queue[i] \in Write
       /\ queue[i].store \in alive
       /\ state[queue[i].store].entry # NoEntry
  /\ {bootWindowActive, bootWindowTimer, bootWindowToken} \subseteq BOOLEAN
  /\ NoStrandedWrite
  /\ dirty \subseteq alive
  /\ told \in [Stores -> Values]
  /\ unannounced \subseteq alive
  /\ loaded \subseteq alive
  /\ rejected \subseteq Stores \X Keys

\* The stores st after the deferred write w, and after the writes ws in their order.
ReplayOne(st, w) == [st EXCEPT ![w.store] = ApplyWrite(@, w)]

Replay(st, ws) ==
  LET after[i \in 0 .. Len(ws)] == IF i = 0 THEN st ELSE ReplayOne(after[i - 1], ws[i])
  IN  after[Len(ws)]

\* The deferred writes ws but those of store s.
KeepOther(kept, w, s) == IF w.store = s THEN kept ELSE Append(kept, w)

Others(ws, s) ==
  LET kept[i \in 0 .. Len(ws)] == IF i = 0 THEN <<>> ELSE KeepOther(kept[i - 1], ws[i], s)
  IN  kept[Len(ws)]

Absent == [value |-> {}, initial |-> {}, entry |-> NoEntry]

Init ==
  /\ key = 0
  /\ alive = {}
  /\ state = [s \in Stores |-> Absent]
  /\ loading = {}
  /\ queue = <<>>
  /\ bootWindowActive = FALSE /\ bootWindowTimer = FALSE /\ bootWindowToken = FALSE
  /\ dirty = {} /\ told = [s \in Stores |-> {}] /\ unannounced = {}
  /\ loaded = {} /\ rejected = {}

NewKey == key < MaxKey /\ key' = key + 1

-----------------------------------------------------------------------------
(***************************************************************************)
(* Stores and writes.                                                      *)
(***************************************************************************)

\* createStore, which starts the load of a persisted store.  An entry may be there:
\* hydrateStores failed to create the store.
CreateStore(s) ==
  /\ s \notin alive
  /\ NewKey
  /\ alive' = alive \cup {s}
  /\ state' = [state EXCEPT ![s].value = {key'}, ![s].initial = {key'}]
  /\ loading' = loading \cup ({s} \cap Persisted)
  /\ told' = [told EXCEPT ![s] = {key'}]
  /\ UNCHANGED <<queue, windowVars, dirty, unannounced, loaded, rejected>>

\* Mutant of DeleteStore: the deferred writes of the store stay.
DeleteStoreOnly(s) ==
  /\ s \in alive
  /\ alive' = alive \ {s}
  /\ state' = [state EXCEPT ![s] = Absent]
  /\ loading' = loading \ {s}
  /\ dirty' = dirty \ {s}
  /\ told' = [told EXCEPT ![s] = {}]
  /\ unannounced' = unannounced \ {s}
  /\ loaded' = loaded \ {s}
  /\ UNCHANGED <<key, queue, windowVars, rejected>>

\* deleteStore, with clearHydrationStateForStore.
DeleteStore(s) ==
  /\ s \in alive
  /\ alive' = alive \ {s}
  /\ state' = [state EXCEPT ![s] = Absent]
  /\ loading' = loading \ {s}
  /\ queue' = Others(queue, s)
  /\ dirty' = dirty \ {s}
  /\ told' = [told EXCEPT ![s] = {}]
  /\ unannounced' = unannounced \ {s}
  /\ loaded' = loaded \ {s}
  /\ UNCHANGED <<key, windowVars, rejected>>

\* shouldQueueHydrationWrite: every source but "hydrate" is deferred.
ShouldQueue(s) == bootWindowActive /\ state[s].entry # NoEntry

Defer(w) == queue' = Append(queue, w) /\ UNCHANGED <<state, loading>>

\* A committed write counts in updateCount, and overtakes the load.
Commit(w) ==
  /\ state' = [state EXCEPT ![w.store] = ApplyWrite(@, w)]
  /\ loading' = loading \ {w.store}
  /\ UNCHANGED queue

\* A write of s by the application or by fetchStore.
SetStore(s) ==
  \E w \in [store : {s}, kind : Kinds, source : {"effect", "network"}, key : {key'}] :
    /\ w.kind = "reset" => w.source = "effect"
    /\ IF ShouldQueue(s) THEN Defer(w) /\ UNCHANGED dirty
                         ELSE Commit(w) /\ dirty' = dirty \cup {s}

\* The message of another tab: applyFeatureState, and the notify of the channel.
AcceptSync(s) ==
  \E w \in [store : {s}, kind : {"replace"}, source : {"sync"}, key : {key'}] :
    /\ IF ShouldQueue(s) THEN Defer(w) ELSE Commit(w)
    /\ dirty' = dirty \cup {s}

WriteStore(s) ==
  /\ s \in alive
  /\ NewKey
  /\ SetStore(s) \/ AcceptSync(s)
  /\ UNCHANGED <<alive, windowVars, told, unannounced, loaded, rejected>>

\* The load of s ends with a value, or with the initial value after an envelope that
\* cannot be used: applyFeatureState, and nobody is notified.
LoadPersisted(s) ==
  /\ s \in loading
  /\ LoadBehindWrites \/ \A i \in DOMAIN queue : queue[i].store # s
  /\ NewKey
  /\ \E w \in [store : {s}, kind : {"replace", "reset"}, source : {"storage"}, key : {key'}] :
       IF ShouldQueue(s)
       THEN /\ queue' = Append(queue, w)
            /\ loading' = loading \ {s}
            /\ UNCHANGED <<state, unannounced>>
       ELSE Commit(w) /\ unannounced' = unannounced \cup {s}
  /\ loaded' = loaded \cup {s}
  /\ UNCHANGED <<alive, windowVars, dirty, told, rejected>>

\* The load of s ends with nothing stored, or fails.
LoadNothing(s) ==
  /\ s \in loading
  /\ loading' = loading \ {s}
  /\ UNCHANGED <<key, alive, state, queue, windowVars, notifyVars, loaded, rejected>>

\* The notification flush: the subscribers of s read its value.
Notify(s) ==
  /\ s \in dirty
  /\ dirty' = dirty \ {s}
  /\ told' = [told EXCEPT ![s] = state[s].value]
  /\ unannounced' = unannounced \ {s}
  /\ UNCHANGED <<key, storeVars, queue, windowVars, loaded, rejected>>

-----------------------------------------------------------------------------
(***************************************************************************)
(* The boot window.                                                        *)
(***************************************************************************)

QueuedStores == {queue[i].store : i \in DOMAIN queue}

\* Mutant of Flush: the last write in is the first one out.
FlushLastFirst ==
  /\ bootWindowActive' = FALSE /\ bootWindowTimer' = FALSE
  /\ state' = Replay(state, Reverse(queue))
  /\ LET set(sources) == {queue[i].store : i \in {j \in DOMAIN queue : queue[j].source \in sources}}
     IN  /\ dirty' = dirty \cup set({"effect", "network"})
         /\ unannounced' = unannounced \cup set({"storage", "sync"})
  /\ loading' = loading \ QueuedStores
  /\ queue' = <<>>

\* Mutant of Flush: the replayed writes do not notify.
FlushSilently ==
  /\ bootWindowActive' = FALSE /\ bootWindowTimer' = FALSE
  /\ state' = Replay(state, queue)
  /\ unannounced' = unannounced
       \cup {queue[i].store : i \in {j \in DOMAIN queue : queue[j].source \in {"storage", "sync"}}}
  /\ loading' = loading \ QueuedStores
  /\ queue' = <<>>
  /\ UNCHANGED dirty

\* flushHydrationWriteQueue: the replayed writes of the application commit and
\* notify; the states of the features are set, and nobody is told.
Flush ==
  /\ bootWindowActive' = FALSE /\ bootWindowTimer' = FALSE
  /\ state' = Replay(state, queue)
  /\ LET set(sources) == {queue[i].store : i \in {j \in DOMAIN queue : queue[j].source \in sources}}
     IN  /\ dirty' = dirty \cup set({"effect", "network"})
         /\ unannounced' = unannounced \cup set({"storage", "sync"})
  /\ loading' = loading \ QueuedStores
  /\ queue' = <<>>

\* close() of a control.
CloseBootWindow ==
  /\ bootWindowToken
  /\ bootWindowActive \/ queue # <<>>
  /\ Flush
  /\ UNCHANGED <<key, alive, bootWindowToken, told, loaded, rejected>>

FireBootWindowTimer ==
  /\ bootWindowTimer
  /\ Flush
  /\ UNCHANGED <<key, alive, bootWindowToken, told, loaded, rejected>>

-----------------------------------------------------------------------------
(***************************************************************************)
(* hydrateStores.                                                          *)
(***************************************************************************)

\* The stores as the snapshot key' leaves them: replaced, under the entries of the
\* hydration before, or created, unless validate refuses; then the entries are new.
\* A created store loads like any other, over the snapshot.
Snapshot(names, bad, entry) ==
  LET taken == names \ bad
      after(s) ==
        IF s \notin taken THEN state[s]
        ELSE IF s \in alive THEN ReconcileValue(s, state[s], {key'}, "hydrate")
        ELSE [state[s] EXCEPT !.value = {key'}, !.initial = {key'}]
  IN  /\ alive' = alive \cup taken
      /\ state' = [s \in Stores |-> [after(s) EXCEPT !.entry = entry[s]]]
      /\ loading' = (loading \ taken) \cup ((taken \ alive) \cap Persisted)
      /\ dirty' = dirty \cup (taken \cap alive)
      /\ told' = [s \in Stores |-> IF s \in taken \ alive THEN {key'} ELSE told[s]]
      /\ rejected' = rejected \cup (bad \X {key'})
      /\ UNCHANGED <<unannounced, loaded>>

\* The entries of initializeHydrationConsistency, under the policies p.
Entries(names, bad, p) ==
  [s \in Stores |-> IF s \in names THEN [FreshEntry(p[s], {key'}) EXCEPT !.valid = s \notin bad]
                    ELSE NoEntry]

\* A hydration the old entries do not interfere with, that forgets no write.
Undisturbed(names) ==
  /\ \A s \in names \cap alive :
       state[s].entry.policy \in {"none", "client_wins", "invalidate_and_refetch"}
  /\ \A i \in DOMAIN queue : queue[i].store \in names

\* resetHydrationRuntimeState drops the deferred writes.
ForgetHydration == queue' = <<>>

\* Without consistency options there are no entries and no window; with them, a
\* window that a control or a timer or both close, or none.
HydrateStores(names, bad) ==
  /\ bad # {} => RejectedSnapshots
  /\ HydrateAgain \/ Undisturbed(names)
  /\ NewKey
  /\ ForgetHydration
  /\ \/ /\ Snapshot(names, bad, [s \in Stores |-> NoEntry])
        /\ bootWindowActive' = FALSE /\ bootWindowTimer' = FALSE
     \/ /\ \E p \in [names -> Policies] : Snapshot(names, bad, Entries(names, bad, p))
        /\ bootWindowActive' \in BOOLEAN
        /\ bootWindowTimer' \in {FALSE, bootWindowActive'}
  /\ bootWindowToken' = bootWindowActive'

-----------------------------------------------------------------------------
Next ==
  \/ \E s \in Stores :
       \/ CreateStore(s) \/ DeleteStore(s) \/ WriteStore(s) \/ Notify(s)
       \/ LoadPersisted(s) \/ LoadNothing(s)
  \/ \E names \in (SUBSET Stores) \ {{}} : \E bad \in SUBSET names : HydrateStores(names, bad)
  \/ CloseBootWindow \/ FireBootWindowTimer

Spec == Init /\ [][Next]_vars

-----------------------------------------------------------------------------
(***************************************************************************)
(* Properties.                                                             *)
(***************************************************************************)

\* A store always obeys its policy, whatever wrote it: the server's value stays, a
\* merge keeps what the server sent, and a store is marked invalidated exactly while
\* it differs from the value the server sent last.
PolicyHolds ==
  \A s \in alive :
    LET st == state[s]
        e == st.entry
    IN  /\ e.policy = "server_wins" => st.value = e.baseline
        /\ e.policy = "merge" => e.baseline \subseteq st.value
        /\ e.policy = "invalidate_and_refetch" => (e.invalidated <=> st.value # e.baseline)

\* When no notification is pending the subscribers have seen the store's value, but
\* for what persistence loaded and the states of features that a replay set, until the
\* next notification of the store.
SubscribersCaughtUp ==
  \A s \in alive \ (dirty \cup unannounced) : told[s] = state[s].value

\* The same without the exception.
SubscribersToldAll == \A s \in alive \ dirty : told[s] = state[s].value

\* validate keeps a refused value out of a store: no write installs it.
RefusedStaysOut == \A s \in alive, k \in Keys : <<s, k>> \in rejected => k \notin state[s].value

\* Deferring changes nothing but the time: with the deferred writes replayed in
\* order, the stores are those of a program that applies every write at once.
Immediate == INSTANCE ImmediateHydration WITH
  store <- Restrict(Replay(state, queue), alive),
  loading <- loading \ QueuedStores

AsIfImmediate == Immediate!Spec
=============================================================================
