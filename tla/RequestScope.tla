---------------------------- MODULE RequestScope ----------------------------
(***************************************************************************)
(* The scope of a server request (server/index.ts): createStoreForRequest  *)
(* gives a registry of its own and a buffer; hydrate runs the rendering on *)
(* a carrier, a copy of the buffer that holds the values while the registry*)
(* holds everything else, and puts what was rendered back into the buffer. *)
(*                                                                         *)
(* A step is one callback, or one operation of a callback.  Which carrier  *)
(* an operation uses does not depend on who does it: it is the one kept for*)
(* the registry.  A value is a stamp no other write has; 0 is undefined.   *)
(* The other requests of the process have other registries.                *)
(***************************************************************************)
EXTENDS Naturals, FiniteSets

CONSTANTS
  Names,
  MaxHydrates,    \* bound on the calls of hydrate
  MaxStamp,       \* bound on the writes
  Overlap,        \* may hydrate be called again before it is over?
  LateCalls,      \* may other callbacks run in the microtasks in which hydrate ends?
  SyncInFlush,    \* may a synchronous hydrate find a chunked flush under way?
  BoundOutlives   \* may a bound asynchronous callback outlive the rendering?

ASSUME RequestAssumption ==
  /\ MaxHydrates \in Nat /\ MaxStamp \in Nat \ {0}
  /\ {Overlap, LateCalls, SyncInFlush, BoundOutlives} \subseteq BOOLEAN

VARIABLES
  stamp,            \* the last stamp given to a write
  buffer,           \* what snapshot() returns
  metaEntries,      \* the stores of the registry
  stores,           \* registry.stores: the values set without a carrier
  phase,            \* of every hydrate
  synchronous,      \* the hydrates whose render function returned no promise
  carrier,          \* the carrier of every hydrate
  memo,             \* memoizedCarrierByRegistry: a hydrate, or 0
  previous,         \* previousCarrier of every hydrate
  cleaning,         \* the hydrates whose carrier is to be cleared
  bound,            \* the carriers that asynchronous bound callbacks will put back
  pending,          \* pendingNotifications
  chunks,           \* what the chunked flush under way has still to deliver
  owed,             \* ghost: what the request made of every store
  loose,            \* ghost: the stores detached code touched last
  due               \* ghost: stores the request wrote and nobody was told of

valueVars == <<stamp, metaEntries, stores, carrier>>
hydrateVars == <<buffer, phase, synchronous, memo, previous, cleaning, bound>>
queueVars == <<pending, chunks>>
ghosts == <<owed, loose, due>>
vars == <<valueVars, hydrateVars, queueVars, ghosts>>

Hydrates == 1 .. MaxHydrates
Stamps == 0 .. MaxStamp
Snapshot == [Names -> Stamps]
Nothing == [n \in Names |-> 0]

\* activeHydrateDepth counts them
Active == {h \in Hydrates : phase[h] \in {"render", "settling", "idle", "synced"}}
Over == \A h \in Hydrates : phase[h] \in {"new", "done"}

\* The carrier kept for the registry is that of a hydrate that is not over, and the
\* notifications owed to subscribers are queued.
TypeOK ==
  /\ stamp \in Stamps
  /\ buffer \in Snapshot /\ stores \in Snapshot
  /\ metaEntries \subseteq Names
  /\ phase \in [Hydrates -> {"new", "render", "settling", "idle", "synced", "left", "done"}]
  /\ synchronous \subseteq Hydrates
  /\ carrier \in [Hydrates -> Snapshot]
  /\ memo \in Hydrates \cup {0}
  /\ memo # 0 => phase[memo] \notin {"new", "done"}
  /\ previous \in [Hydrates -> Hydrates \cup {0}]
  /\ cleaning \subseteq Hydrates /\ bound \subseteq Hydrates
  /\ pending \subseteq metaEntries /\ chunks \subseteq metaEntries
  /\ owed \in Snapshot
  /\ loose \subseteq Names
  /\ due \subseteq pending \cup chunks

Init ==
  /\ stamp = 1
  /\ buffer \in [Names -> {0, stamp}]
  /\ metaEntries = {} /\ stores = Nothing
  /\ phase = [h \in Hydrates |-> "new"]
  /\ synchronous = {}
  /\ carrier = [h \in Hydrates |-> Nothing]
  /\ memo = 0 /\ previous = [h \in Hydrates |-> 0]
  /\ cleaning = {} /\ bound = {}
  /\ pending = {} /\ chunks = {}
  /\ owed = buffer /\ loose = {} /\ due = {}

-----------------------------------------------------------------------------
(***************************************************************************)
(* Operations on the stores, by whoever is running.                        *)
(***************************************************************************)

\* A synchronous rendering is on the stack; it is the last one called.
OnStack == {h \in synchronous : phase[h] \in {"render", "settling"}}
Running(h) ==
  IF h \in synchronous THEN \A g \in OnStack : g <= h ELSE OnStack = {}

\* setStoreValueInternal
SetValue(n, v) ==
  IF memo # 0
  THEN carrier' = [carrier EXCEPT ![memo][n] = v] /\ UNCHANGED stores
  ELSE stores' = [stores EXCEPT ![n] = v] /\ UNCHANGED carrier

NewStamp == stamp < MaxStamp /\ stamp' = stamp + 1

WriteStore(n) ==
  /\ n \in metaEntries
  /\ NewStamp
  /\ SetValue(n, stamp')
  /\ pending' = pending \cup {n}
  /\ UNCHANGED <<metaEntries, chunks>>

\* createStore: who subscribed before is notified.
CreateStore(n) ==
  /\ n \notin metaEntries
  /\ NewStamp
  /\ SetValue(n, stamp')
  /\ metaEntries' = metaEntries \cup {n}
  /\ pending' \in {pending, pending \cup {n}}
  /\ UNCHANGED chunks

DeleteStore(n) ==
  /\ n \in metaEntries
  /\ metaEntries' = metaEntries \ {n}
  /\ carrier' = IF memo # 0 THEN [carrier EXCEPT ![memo][n] = 0] ELSE carrier
  /\ stores' = [stores EXCEPT ![n] = 0]
  /\ pending' = pending \ {n} /\ chunks' = chunks \ {n}
  /\ UNCHANGED stamp

Operation(n) == WriteStore(n) \/ CreateStore(n) \/ DeleteStore(n)

\* The request makes of store n what the operation makes of it.
Owe(n) ==
  /\ owed' = [owed EXCEPT ![n] = IF n \in metaEntries' THEN stamp' ELSE 0]
  /\ loose' = loose \ {n}
  /\ due' = IF n \in pending' THEN due \cup {n} ELSE due \ {n}

\* Nobody owes what detached code does.
OweNothing(n) ==
  /\ loose' = loose \cup {n}
  /\ due' = due \cap (pending' \cup chunks')
  /\ UNCHANGED owed

\* The rendering, or what it awaits.
Render(h, n) ==
  /\ phase[h] = "render" /\ Running(h)
  /\ Operation(n)
  /\ Owe(n)
  /\ UNCHANGED hydrateVars

\* hydrate is about to end: its pipeline was found idle.
Ending == \E h \in Hydrates : phase[h] \in {"idle", "synced", "left"}

\* A callback of bind, called from anywhere, which keeps the carrier for the registry
\* until it settles.  Outside of hydrate it throws.
BoundCallback(n) ==
  /\ Active # {} /\ memo # 0
  /\ LateCalls \/ ~Ending
  /\ Operation(n)
  /\ Owe(n)
  /\ \/ UNCHANGED bound
     \/ /\ BoundOutlives \/ (phase[memo] = "render" /\ memo \notin synchronous)
        /\ bound' = bound \cup {memo}
  /\ UNCHANGED <<buffer, phase, synchronous, memo, previous, cleaning>>

BoundSettles(h) ==
  /\ OnStack = {}
  /\ h \in bound
  /\ bound' = bound \ {h}
  /\ memo' = h
  /\ UNCHANGED <<valueVars, buffer, phase, synchronous, previous, cleaning, queueVars, ghosts>>

\* What the rendering started and did not await.
Detached(h, n) ==
  /\ phase[h] \notin {"new", "render"}
  /\ OnStack = {}
  /\ LateCalls \/ ~Ending
  /\ Operation(n)
  /\ OweNothing(n)
  /\ UNCHANGED hydrateVars

-----------------------------------------------------------------------------
(***************************************************************************)
(* Notifications.  A subscriber may write a store.                         *)
(***************************************************************************)

\* The subscribers of n, in the queues p and c when they return.
Deliver(n, p, c) ==
  \/ /\ pending' = p /\ chunks' = c
     /\ due' = due \ {n}
     /\ UNCHANGED <<valueVars, owed, loose>>
  \/ \E m \in metaEntries :
       /\ NewStamp
       /\ SetValue(m, stamp')
       /\ pending' = p \cup {m} /\ chunks' = c
       /\ IF memo # 0
          THEN /\ owed' = [owed EXCEPT ![m] = stamp']
               /\ loose' = loose \ {m}
               /\ due' = (due \ {n}) \cup {m}
          ELSE /\ loose' = loose \cup {m}
               /\ due' = due \ {n}
               /\ UNCHANGED owed
       /\ UNCHANGED metaEntries

\* The microtask of scheduleFlush.
StartFlush ==
  /\ OnStack = {}
  /\ chunks = {} /\ pending # {}
  /\ chunks' = pending /\ pending' = {}
  /\ UNCHANGED <<valueVars, hydrateVars, ghosts>>

ChunkDeliver(n) ==
  /\ OnStack = {}
  /\ LateCalls \/ ~Ending
  /\ n \in chunks
  /\ Deliver(n, pending, chunks \ {n})
  /\ UNCHANGED hydrateVars

\* flushPendingNotificationsInline, for a hydrate whose rendering is over.
InlineDeliver(n) ==
  /\ \E h \in Hydrates : phase[h] = "settling" /\ Running(h)
  /\ chunks = {} /\ n \in pending
  /\ Deliver(n, pending \ {n}, {})
  /\ UNCHANGED hydrateVars

-----------------------------------------------------------------------------
(***************************************************************************)
(* hydrate.                                                                *)
(***************************************************************************)

\* A copy of the buffer is the carrier; hydrateStores replaces what is there and
\* creates what is not.
Hydrate(h, sync) ==
  LET names == {n \in Names : buffer[n] # 0}
  IN  /\ phase[h] = "new" /\ \A g \in Hydrates : g < h => phase[g] # "new"
      /\ Overlap \/ Over
      /\ sync => SyncInFlush \/ chunks = {}
      /\ phase' = [phase EXCEPT ![h] = "render"]
      /\ synchronous' = IF sync THEN synchronous \cup {h} ELSE synchronous
      /\ carrier' = [carrier EXCEPT ![h] = buffer]
      /\ previous' = [previous EXCEPT ![h] = memo]
      /\ memo' = h
      /\ metaEntries' = metaEntries \cup names
      /\ pending' = pending \cup (names \cap metaEntries)
      /\ owed' = [n \in Names |-> IF n \in names THEN buffer[n] ELSE owed[n]]
      /\ loose' = loose \ names
      /\ due' = due \cup (names \cap metaEntries)
      /\ UNCHANGED <<stamp, stores, buffer, cleaning, bound, chunks>>

\* The render function returns, or its promise settles.
RenderEnds(h) ==
  /\ phase[h] = "render" /\ Running(h)
  /\ BoundOutlives \/ bound = {}
  /\ phase' = [phase EXCEPT ![h] = "settling"]
  /\ UNCHANGED <<valueVars, buffer, synchronous, memo, previous, cleaning, bound, queueVars, ghosts>>

\* captureRequestScopeFromRegistry, on the carrier of h.
Capture(h) ==
  [n \in Names |-> IF n \notin metaEntries THEN 0
                   ELSE IF carrier[h][n] # 0 THEN carrier[h][n] ELSE stores[n]]

\* finalizeHydrateSync, which drained the queue unless a chunked flush is under way,
\* and the end of withCarrierMemo.
FinalizeHydrateSync(h) ==
  /\ h \in synchronous /\ phase[h] = "settling" /\ Running(h)
  /\ pending = {} \/ chunks # {}
  /\ buffer' = Capture(h)
  /\ cleaning' = cleaning \cup {h}
  /\ phase' = [phase EXCEPT ![h] = "done"]
  /\ memo' = previous[h]
  /\ UNCHANGED <<valueVars, synchronous, previous, bound, queueVars, ghosts>>

\* Mutant of NotificationsIdle: a chunked flush is not waited for.
NothingPending == pending = {}

\* waitForNotificationIdle resolves.
NotificationsIdle == pending = {} /\ chunks = {}

Settled(h) ==
  /\ h \notin synchronous /\ phase[h] = "settling" /\ Running(h)
  /\ NotificationsIdle
  /\ phase' = [phase EXCEPT ![h] = "idle"]
  /\ UNCHANGED <<valueVars, buffer, synchronous, memo, previous, cleaning, bound, queueVars, ghosts>>

\* Mutant of SyncBuffer: the buffer is not emptied first.
SyncBufferInto(h) ==
  /\ phase[h] = "idle" /\ Running(h)
  /\ buffer' = [n \in Names |-> IF Capture(h)[n] = 0 THEN buffer[n] ELSE Capture(h)[n]]
  /\ cleaning' = cleaning \cup {h}
  /\ phase' = [phase EXCEPT ![h] = "synced"]
  /\ UNCHANGED <<valueVars, synchronous, memo, previous, bound, queueVars, ghosts>>

\* The rest of finalizeHydrateAsync.
SyncBuffer(h) ==
  /\ phase[h] = "idle" /\ Running(h)
  /\ buffer' = Capture(h)
  /\ cleaning' = cleaning \cup {h}
  /\ phase' = [phase EXCEPT ![h] = "synced"]
  /\ UNCHANGED <<valueVars, synchronous, memo, previous, bound, queueVars, ghosts>>

\* activeHydrateDepth -= 1
LeaveHydrate(h) ==
  /\ phase[h] = "synced" /\ Running(h)
  /\ phase' = [phase EXCEPT ![h] = "left"]
  /\ UNCHANGED <<valueVars, buffer, synchronous, memo, previous, cleaning, bound, queueVars, ghosts>>

\* Mutant of Restore: the carrier stays the one of the registry.
RestoreNothing(h) ==
  /\ phase[h] = "left" /\ Running(h)
  /\ phase' = [phase EXCEPT ![h] = "done"]
  /\ UNCHANGED <<valueVars, buffer, synchronous, memo, previous, cleaning, bound, queueVars, ghosts>>

\* restore of withCarrierMemo
Restore(h) ==
  /\ phase[h] = "left" /\ Running(h)
  /\ phase' = [phase EXCEPT ![h] = "done"]
  /\ memo' = previous[h]
  /\ UNCHANGED <<valueVars, buffer, synchronous, previous, cleaning, bound, queueVars, ghosts>>

\* Mutant of ClearCarrierBuffer: there is one attempt.
ClearOnce(h) ==
  /\ h \in cleaning /\ OnStack = {}
  /\ carrier' = IF pending = {} /\ chunks = {} THEN [carrier EXCEPT ![h] = Nothing] ELSE carrier
  /\ cleaning' = cleaning \ {h}
  /\ UNCHANGED <<stamp, metaEntries, stores, buffer, phase, synchronous, memo, previous, bound,
                 queueVars, ghosts>>

\* attempt of scheduleCarrierCleanup; when the queue is not idle it is scheduled again.
ClearCarrierBuffer(h) ==
  /\ h \in cleaning /\ OnStack = {}
  /\ pending = {} /\ chunks = {}
  /\ carrier' = [carrier EXCEPT ![h] = Nothing]
  /\ cleaning' = cleaning \ {h}
  /\ UNCHANGED <<stamp, metaEntries, stores, buffer, phase, synchronous, memo, previous, bound,
                 queueVars, ghosts>>

-----------------------------------------------------------------------------
Next ==
  \/ \E h \in Hydrates :
       \/ \E sync \in BOOLEAN : Hydrate(h, sync)
       \/ \E n \in Names : Render(h, n) \/ Detached(h, n)
       \/ BoundSettles(h) \/ RenderEnds(h) \/ FinalizeHydrateSync(h)
       \/ Settled(h) \/ SyncBuffer(h) \/ LeaveHydrate(h) \/ Restore(h) \/ ClearCarrierBuffer(h)
  \/ \E n \in Names : BoundCallback(n) \/ ChunkDeliver(n) \/ InlineDeliver(n)
  \/ StartFlush

\* The event loop runs microtasks and timers, and synchronous code returns.  Nothing
\* makes a promise of the rendering settle.
Fairness ==
  /\ WF_vars(StartFlush)
  /\ WF_vars(\E n \in Names : ChunkDeliver(n) \/ InlineDeliver(n))
  /\ \A h \in Hydrates :
       WF_vars(\/ h \in synchronous /\ RenderEnds(h)
               \/ FinalizeHydrateSync(h) \/ Settled(h) \/ SyncBuffer(h) \/ LeaveHydrate(h)
               \/ Restore(h) \/ ClearCarrierBuffer(h))

Spec == Init /\ [][Next]_vars /\ Fairness

-----------------------------------------------------------------------------
(***************************************************************************)
(* Properties.                                                             *)
(***************************************************************************)

\* What capture() returns.
Captured == IF memo # 0 THEN Capture(memo) ELSE buffer

\* capture(), and snapshot() when no hydrate is active, show all the request did, also
\* what bound callbacks and subscribers of chunked flushes did after the rendering;
\* but in the microtasks in which a carrier is cleared and put away.
CaptureIsCurrent ==
  ~Ending => \A n \in Names \ loose : Captured[n] = owed[n]

\* Before hydrate is over, queued notification work is done: no subscriber of a store
\* the request wrote is left for a flush that has no carrier.
QueueFinalized == Over => due = {}

\* The request's values are scrubbed: in the end its carrier is empty.
Scrubbed == \A h \in Hydrates : phase[h] = "settling" ~> carrier[h] = Nothing
=============================================================================
