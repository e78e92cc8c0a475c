----------------------------- MODULE AsyncSlots -----------------------------
(***************************************************************************)
(* The tables of the asynchronous layer (async/registry.ts) for several    *)
(* stores: in-flight entries, request versions and sequences, cached       *)
(* entries and rate windows, all keyed by slot, and the index of slots by  *)
(* store that deletion, pruning and the limits go by (async/cache.ts).     *)
(* AsyncFetch has what one request does to its store; here a request is    *)
(* what it does to the tables.                                             *)
(*                                                                         *)
(* The slots of a store are its name and name:cacheKey, so those of a      *)
(* namespaced store ns::child look like slots of the store ns.  Time is    *)
(* abstracted: which cached entries have expired, which rate windows are   *)
(* over or full are choices.                                               *)
(***************************************************************************)
EXTENDS Naturals, Sequences, FiniteSets, SequencesExt

CONSTANTS
  Stores, NoStore,
  SlotsOf,              \* the slots that a store's calls use
  LooksLike,            \* isStoreSlot: the slots that begin like the store's
  BaseSlot,             \* the slot of a call without a cacheKey: the store's name
  MaxSlots,             \* MAX_CACHE_SLOTS_PER_STORE
  MaxInflight,          \* MAX_INFLIGHT_SLOTS_PER_STORE
  PruneInterval,        \* CACHE_PRUNE_INTERVAL_WRITES
  Requests,             \* bound: as many requests under way at a time
  MaxVersion,           \* bound on the request versions of a slot
  DeleteWhileShowing    \* may hooks delete a store whose call shows a cached entry?

Slots == UNION {SlotsOf[n] : n \in Stores}

ASSUME SlotsAssumption ==
  /\ NoStore \notin Stores
  /\ \A n \in Stores : BaseSlot[n] \in SlotsOf[n] /\ SlotsOf[n] \subseteq LooksLike[n]
  /\ DeleteWhileShowing \in BOOLEAN
  /\ {MaxSlots, MaxInflight, PruneInterval, MaxVersion} \subseteq Nat \ {0}

VARIABLES
  existing,             \* the stores that exist
  inflight, requestVersion, requestSequence,
  cacheMeta,            \* slots with a cached entry, by timestamp, the oldest first
  rateWindows,          \* slots with a rate window
  ratePruneTimer,       \* is the timer set?
  slotOwners, slotsByStore,
  cachePruneCounters,
  call,                 \* the fetchStore call on the stack, if any
  request               \* requests that have not settled

index == <<slotOwners, slotsByStore>>
versions == <<requestVersion, requestSequence>>
slotsVars == <<existing, inflight, versions, cacheMeta, rateWindows, ratePruneTimer, index,
               cachePruneCounters, call, request>>

Version == 0 .. MaxVersion
None == [phase |-> "none"]

\* A call may show a cached entry; it shows that it is loading, then runs the request
\* up to its first await.  A request runs, and is over when only its finally handler
\* is left.
Request == [phase : {"cached", "loading", "starting", "running", "over"}, store : Stores,
            slot : Slots, version : Version, aborted : BOOLEAN]

\* hasSlotReferences: slots that some table holds.
Referenced ==
  inflight \cup Range(cacheMeta) \cup rateWindows
    \cup {s \in Slots : requestVersion[s] # 0 \/ requestSequence[s] # 0}

\* The limits hold at every moment, between two prunings too.
SlotsTypeOK ==
  /\ existing \subseteq Stores
  /\ inflight \subseteq Slots /\ rateWindows \subseteq Slots
  /\ requestVersion \in [Slots -> Version] /\ requestSequence \in [Slots -> Version]
  /\ cacheMeta \in Seq(Slots) /\ IsInjective(cacheMeta)
  /\ ratePruneTimer \in BOOLEAN
  /\ slotOwners \in [Slots -> Stores \cup {NoStore}]
  /\ slotsByStore \in [Stores -> SUBSET Slots]
  /\ cachePruneCounters \in [Stores -> 0 .. PruneInterval - 1]
  /\ call \in Request \cup {None}
  /\ \A n \in Stores : /\ Cardinality(SlotsOf[n] \cap Range(cacheMeta)) <= MaxSlots
                       /\ Cardinality(SlotsOf[n] \cap inflight) <= MaxInflight
  /\ request \in [Requests -> Request \cup {None}]

NoVersions == [s \in Slots |-> 0]
Unowned == [s \in Slots |-> NoStore]
NoSlots == [n \in Stores |-> {}]

SlotsInit ==
  /\ existing = {}
  /\ inflight = {} /\ requestVersion = NoVersions /\ requestSequence = NoVersions
  /\ cacheMeta = <<>> /\ rateWindows = {} /\ ratePruneTimer = FALSE
  /\ slotOwners = Unowned /\ slotsByStore = NoSlots
  /\ cachePruneCounters = [n \in Stores |-> 0]
  /\ call = None
  /\ request = [r \in Requests |-> None]

-----------------------------------------------------------------------------
(***************************************************************************)
(* The index.                                                              *)
(***************************************************************************)

\* Slots of X that no table holds after this step, s aside, leave the index
\* (releaseAsyncSlotIfOrphaned); s becomes a slot of n (trackAsyncSlot).
ReleaseThenTrack(X, n, s) ==
  \E gone \in {X \ ({s} \cup Referenced')} :
  /\ slotOwners' = [x \in Slots |-> IF x = s THEN n
                                    ELSE IF x \in gone THEN NoStore ELSE slotOwners[x]]
  /\ slotsByStore' = [m \in Stores |->
       {x \in slotsByStore[m] : x # s /\ (x \in gone => slotOwners[x] # m)}
         \cup (IF m = n THEN {s} ELSE {})]

\* Mutant: only entries in flight or cached count as references.
ReleaseWhenIdle(X) ==
  \E gone \in {X \ (inflight' \cup Range(cacheMeta'))} :
  /\ slotOwners' = [x \in Slots |-> IF x \in gone THEN NoStore ELSE slotOwners[x]]
  /\ slotsByStore' = [m \in Stores |-> {x \in slotsByStore[m] : x \in gone => slotOwners[x] # m}]

\* releaseAsyncSlotIfOrphaned, for the slots of X.
Release(X) ==
  \E gone \in {X \ Referenced'} :
  /\ slotOwners' = [x \in Slots |-> IF x \in gone THEN NoStore ELSE slotOwners[x]]
  /\ slotsByStore' = [m \in Stores |-> {x \in slotsByStore[m] : x \in gone => slotOwners[x] # m}]

\* collectStoreSlotsByScan: slots of n, and those that look like it and have no owner.
Scan(n) ==
  {s \in Slots : slotOwners[s] = n}
    \cup {s \in LooksLike[n] \cap Referenced : slotOwners[s] = NoStore}

\* countInflightSlots.  It is called when the slot at hand is in the index, so that
\* the scan of a store without slots is not reached.
CountInflight(n) == Cardinality(inflight \cap slotsByStore[n])

-----------------------------------------------------------------------------
(***************************************************************************)
(* fetchStore, up to its return.                                           *)
(***************************************************************************)

Without(seq, X) ==
  LET kept[i \in 0 .. Len(seq)] ==
        IF i = 0 THEN <<>>
        ELSE IF seq[i] \in X THEN kept[i - 1] ELSE Append(kept[i - 1], seq[i])
  IN kept[Len(seq)]

\* A call with stale-while-revalidate shows the cached entry first, if it is fresh.
ShowCached(n, s) ==
  /\ call = None /\ n \in existing /\ s \in Range(cacheMeta)
  /\ call' = [phase |-> "cached", store |-> n, slot |-> s, version |-> 0, aborted |-> FALSE]
  /\ UNCHANGED <<existing, inflight, versions, cacheMeta, rateWindows, ratePruneTimer, index,
                 cachePruneCounters, request>>

\* Up to the lookup.  The store is created if it is missing; shouldUseCache drops the
\* slot's entry if it finds it expired.
Lookup(n, s) ==
  \/ call = None /\ existing' = existing \cup {n} /\ UNCHANGED cacheMeta
  \/ call = None /\ existing' = existing \cup {n}
       /\ s \in Range(cacheMeta) /\ cacheMeta' = Without(cacheMeta, {s})
  \/ call.phase = "cached" /\ call.store = n /\ call.slot = s /\ UNCHANGED <<existing, cacheMeta>>

\* The call joins the slot's request.
Join(n, s) ==
  /\ s \in inflight
  /\ Lookup(n, s)
  /\ call' = None
  /\ UNCHANGED <<inflight, versions, rateWindows, ratePruneTimer, cachePruneCounters, request>>
  /\ Release({s})

\* pruneRateCounters drops the windows of X, which are over; a full window
\* refuses the call, otherwise it is counted, in a new window or the old one.
RateHit(n, s, X) ==
  /\ rateWindows' = (rateWindows \ X) \cup {s}
  /\ ReleaseThenTrack(X \cup {s}, n, s)

\* Too many of the store's slots are in flight.
NoSlotLeft(n, s) == s \notin inflight /\ CountInflight(n) >= MaxInflight

\* The call starts a request or is refused.
Call(n, s, X) ==
  /\ \E r \in Requests : request[r] = None
  /\ Lookup(n, s)
  /\ ratePruneTimer' = TRUE
  /\ UNCHANGED inflight
  /\ \/ s \in rateWindows \ X /\ call' = None /\ UNCHANGED versions
     \/ NoSlotLeft(n, s) /\ call' = None /\ UNCHANGED versions
     \/ /\ ~NoSlotLeft(n, s)
        /\ requestSequence[s] < MaxVersion
        /\ requestSequence' = [requestSequence EXCEPT ![s] = @ + 1]
        /\ requestVersion' = [requestVersion EXCEPT ![s] = requestSequence[s] + 1]
        /\ call' = [phase |-> "loading", store |-> n, slot |-> s, aborted |-> FALSE,
                    version |-> requestSequence[s] + 1]
  /\ RateHit(n, s, X)
  /\ UNCHANGED <<cachePruneCounters, request>>

\* The store shows that it is loading, then the request's clean-up is registered.
RegisterCleanup ==
  /\ call.phase = "loading"
  /\ call' = [call EXCEPT !.phase = "starting"]
  /\ UNCHANGED <<existing, inflight, versions, cacheMeta, rateWindows, ratePruneTimer, index,
                 cachePruneCounters, request>>

\* The request has started: it is in flight.
Enter ==
  /\ call.phase = "starting"
  /\ \E r \in Requests :
       /\ request[r] = None
       /\ request' = [request EXCEPT ![r] = [call EXCEPT !.phase = "running"]]
  /\ inflight' = inflight \cup {call.slot}
  /\ call' = None
  /\ UNCHANGED <<existing, versions, cacheMeta, rateWindows, ratePruneTimer, cachePruneCounters>>
  /\ ReleaseThenTrack({}, call.store, call.slot)

-----------------------------------------------------------------------------
(***************************************************************************)
(* Requests under way.                                                     *)
(***************************************************************************)

\* Mutant: only every so many writes.
NoteWriteByCount(n, tracked) == cachePruneCounters[n] + 1 >= PruneInterval

\* noteAsyncCacheWrite: is it time to prune?
NoteWrite(n, tracked) ==
  \/ Cardinality(tracked) > MaxSlots
  \/ cachePruneCounters[n] + 1 >= PruneInterval

\* pruneAsyncCache: the expired entries and, of the others, the oldest ones
\* beyond the limit, among the slots tracked for n.
Pruned(cache, tracked, expired) ==
  LET rest == Without(cache, Slots \ (tracked \ expired))
      overflow == IF Len(rest) > MaxSlots THEN Len(rest) - MaxSlots ELSE 0
  IN expired \cup Range(SubSeq(rest, 1, overflow))

\* The answer is cached, if the request is current and was not aborted.
Answer(r, expired) ==
  LET s == request[r].slot
      n == request[r].store
      cache == Append(Without(cacheMeta, {s}), s)
      tracked == slotsByStore[n] \cup {s}
      drop == IF NoteWrite(n, tracked) THEN Pruned(cache, tracked, expired) ELSE {}
  IN
  /\ call = None
  /\ request[r].phase = "running"
  /\ ~request[r].aborted /\ requestVersion[s] = request[r].version
  /\ expired \subseteq (Range(cacheMeta) \cap tracked) \ {s}
  /\ NoteWrite(n, tracked) \/ expired = {}
  /\ request' = [request EXCEPT ![r].phase = "over"]
  /\ cacheMeta' = Without(cache, drop)
  /\ requestVersion' = [x \in Slots |-> IF x \in drop THEN 0 ELSE requestVersion[x]]
  /\ requestSequence' = [x \in Slots |-> IF x \in drop THEN 0 ELSE requestSequence[x]]
  /\ cachePruneCounters' = [cachePruneCounters EXCEPT
                              ![n] = IF NoteWrite(n, tracked) THEN 0 ELSE @ + 1]
  /\ UNCHANGED <<existing, inflight, rateWindows, ratePruneTimer, call>>
  /\ ReleaseThenTrack(drop, n, s)

\* The request ends otherwise: it fails, it is aborted, its answer is stale.
EndWithoutAnswer(r) ==
  /\ call = None
  /\ request[r].phase = "running"
  /\ request' = [request EXCEPT ![r].phase = "over"]
  /\ UNCHANGED <<existing, inflight, versions, cacheMeta, rateWindows, ratePruneTimer, index,
                 cachePruneCounters, call>>

\* clearInflightEntry, whosever the entry is, and clearRequestVersion.
Settle(r) ==
  /\ call = None
  /\ request[r].phase = "over"
  /\ request' = [request EXCEPT ![r] = None]
  /\ inflight' = inflight \ {request[r].slot}
  /\ requestVersion' = [requestVersion EXCEPT ![request[r].slot] =
                          IF @ = request[r].version THEN 0 ELSE @]
  /\ UNCHANGED <<existing, requestSequence, cacheMeta, rateWindows, ratePruneTimer,
                 cachePruneCounters, call>>
  /\ Release({request[r].slot})

\* The timer of scheduleRatePrune; the windows of X are over.
RatePruneTimer(X) ==
  /\ call = None /\ ratePruneTimer
  /\ ratePruneTimer' = FALSE
  /\ rateWindows' = rateWindows \ X
  /\ UNCHANGED <<existing, inflight, versions, cacheMeta, cachePruneCounters,
                 call, request>>
  /\ Release(X)

-----------------------------------------------------------------------------
(***************************************************************************)
(* Stores come and go.                                                     *)
(***************************************************************************)

\* At the top level or in a callback of a call: hooks of the write that shows it is
\* loading, the factory.
Create(n) ==
  /\ n \notin existing
  /\ existing' = existing \cup {n}
  /\ UNCHANGED <<inflight, versions, cacheMeta, rateWindows, ratePruneTimer, index,
                 cachePruneCounters, call, request>>

\* The clean-ups of the requests of the stores of N abort them.
Abort(N) ==
  LET aborted(q) == IF q.phase # "none" /\ q.store \in N THEN [q EXCEPT !.aborted = TRUE] ELSE q IN
  /\ request' = [r \in Requests |-> aborted(request[r])]
  /\ call' = IF call.phase = "starting" THEN aborted(call) ELSE call

\* Mutant: the rate windows stay.
ClearAllButRates(S) ==
  /\ inflight' = inflight \ S
  /\ requestVersion' = [s \in Slots |-> IF s \in S THEN 0 ELSE requestVersion[s]]
  /\ requestSequence' = [s \in Slots |-> IF s \in S THEN 0 ELSE requestSequence[s]]
  /\ cacheMeta' = Without(cacheMeta, S)
  /\ UNCHANGED rateWindows

\* What clearAsyncMeta removes of slots S.
ClearSlots(S) ==
  /\ inflight' = inflight \ S
  /\ requestVersion' = [s \in Slots |-> IF s \in S THEN 0 ELSE requestVersion[s]]
  /\ requestSequence' = [s \in Slots |-> IF s \in S THEN 0 ELSE requestSequence[s]]
  /\ cacheMeta' = Without(cacheMeta, S)
  /\ rateWindows' = rateWindows \ S

\* deleteStore, as far as the tables go: the clean-ups, then clearAsyncMeta.
Delete(n) ==
  LET S == {BaseSlot[n]} \cup IF slotsByStore[n] # {} THEN slotsByStore[n] ELSE Scan(n) IN
  /\ n \in existing
  /\ call.phase = "cached" /\ call.store = n => DeleteWhileShowing
  /\ existing' = existing \ {n}
  /\ Abort({n})
  /\ ClearSlots(S)
  /\ slotOwners' = [s \in Slots |-> IF s \in S THEN NoStore ELSE slotOwners[s]]
  /\ slotsByStore' = [slotsByStore EXCEPT ![n] = {}]
  /\ cachePruneCounters' = [cachePruneCounters EXCEPT ![n] = 0]
  /\ UNCHANGED ratePruneTimer

\* resetAsyncState: every clean-up runs, every table is emptied.
ResetAsyncState ==
  /\ call = None
  /\ Abort(Stores)
  /\ inflight' = {} /\ requestVersion' = NoVersions /\ requestSequence' = NoVersions
  /\ cacheMeta' = <<>> /\ rateWindows' = {} /\ ratePruneTimer' = FALSE
  /\ slotOwners' = Unowned /\ slotsByStore' = NoSlots
  /\ cachePruneCounters' = [n \in Stores |-> 0]
  /\ UNCHANGED existing

-----------------------------------------------------------------------------
SlotsNext ==
  \/ \E n \in Stores : \E s \in SlotsOf[n] :
       ShowCached(n, s) \/ Join(n, s) \/ \E X \in SUBSET rateWindows : Call(n, s, X)
  \/ RegisterCleanup \/ Enter
  \/ \E r \in Requests :
       \/ \E expired \in SUBSET Slots : Answer(r, expired)
       \/ EndWithoutAnswer(r) \/ Settle(r)
  \/ \E X \in SUBSET rateWindows : RatePruneTimer(X)
  \/ \E n \in Stores : Create(n) \/ Delete(n)
  \/ ResetAsyncState

SlotsSpec == SlotsInit /\ [][SlotsNext]_slotsVars

-----------------------------------------------------------------------------
(***************************************************************************)
(* Properties.                                                             *)
(***************************************************************************)

\* The index never loses a slot that a table still holds, whatever order requests
\* end, are pruned and rate windows close in, and its two halves agree: deletion,
\* pruning and the limits look nowhere else.
IndexComplete ==
  /\ \A s \in Slots, n \in Stores : slotOwners[s] = n <=> s \in slotsByStore[n]
  /\ \A s \in Referenced : slotOwners[s] # NoStore /\ s \in SlotsOf[slotOwners[s]]

\* Nothing is left of a store that is gone and whose requests have settled.
NothingLeaks ==
  \A n \in Stores \ existing :
    call = None /\ (\A r \in Requests : request[r] # None => request[r].store # n)
      => SlotsOf[n] \cap Referenced = {} /\ slotsByStore[n] = {}

\* The store's slots go with it, also when it was deleted from within a call or its
\* requests settle later; and no slot of another store goes, though the slots of
\* ns::child look like slots of ns.
DeletionIsExact ==
  [][/\ NothingLeaks'
     /\ \A n \in existing \ existing' : \A s \in Referenced \ SlotsOf[n] :
          /\ s \in Referenced'
          /\ s \in inflight <=> s \in inflight'
          /\ requestVersion'[s] = requestVersion[s]]_slotsVars
=============================================================================
