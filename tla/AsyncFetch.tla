----------------------------- MODULE AsyncFetch -----------------------------
(***************************************************************************)
(* fetchStore (async/fetch/fetch-store.ts) on one store: the request life  *)
(* cycle with caching, deduplication, retries, aborts and the 60 second    *)
(* timeout; request versions and in-flight entries (async/inflight.ts);    *)
(* cache pruning and the clean-up when the store is deleted                *)
(* (async/cache.ts); applyAsyncState and settleAbort (async/fetch/shared). *)
(* refetchStore and focus revalidation are calls of fetchStore again.      *)
(*                                                                         *)
(* Requests are numbered in the order they start; the data of an answer is *)
(* the number of its request.  A step is what runs between two awaits.     *)
(* What can happen at any moment as far as the store is concerned (an      *)
(* answer, a caller's abort, expiry of a cached entry, a full rate window) *)
(* is a choice.                                                            *)
(***************************************************************************)
EXTENDS Naturals

CONSTANTS
  Slots,                \* cache slots of the store: its name, or name:cacheKey
  MaxRequests,          \* bound on requests started
  MaxRetry              \* retryPolicy.retry

ASSUME FetchAssumption ==
  /\ Slots # {}
  /\ MaxRequests \in Nat /\ MaxRetry \in Nat

VARIABLES
  exists,               \* the backing store is there
  state,                \* its AsyncState
  count,                \* requests started so far
  request,              \* the closures of every fetchStore call that started a request
  requestSequence, requestVersion, inflight, cacheMeta,  \* registry.async, by slot; 0: no entry
  created,              \* ghost: requests started before the store was last created
  irregular             \* ghost: what has happened that some promises do not survive

tables == <<requestSequence, requestVersion, inflight, cacheMeta>>
storeVars == <<exists, created>>
vars == <<storeVars, state, count, request, tables, irregular>>

Started == 1 .. count

\* A revalidating call that started no request and found none that will end what it
\* shows; a factory that returned what cannot be fetched; a store created again before its
\* old requests were over; a pruning that hit a slot in use.
Irregularities == {"unanswered", "invalid", "reused", "pruned"}

\* data: the request whose answer is shown, 0 for null.  by: the request that
\* wrote the record last (0: fetchStore answered from the cache, or nobody yet).
AsyncState == [status : {"idle", "loading", "success", "error", "aborted"},
               loading : BOOLEAN, data : Nat, by : Nat]

Idle == [status |-> "idle", loading |-> FALSE, data |-> 0, by |-> 0]

\* run is executeFetch: not started, awaiting an answer, in a retry delay, done.
\* race is the promise fetchStore returns: undecided, rejected with the catch
\* handler to run, over with the finally handler to run, settled.
Request == [run : {"none", "fetching", "waiting", "done"},
            race : {"open", "rejected", "over", "settled"},
            slot : Slots, version : Nat, attempts : 0 .. MaxRetry,
            background : BOOLEAN,     \* stale-while-revalidate after a cache hit
            signal : BOOLEAN,         \* the caller passed an AbortSignal
            aborted : BOOLEAN]        \* mergedSignal.aborted

NoRequest == [run |-> "none", race |-> "open", slot |-> CHOOSE s \in Slots : TRUE,
              version |-> 0, attempts |-> 0, background |-> FALSE, signal |-> FALSE,
              aborted |-> FALSE]

TypeOK ==
  /\ exists \in BOOLEAN
  /\ created \in 0 .. count
  /\ irregular \subseteq Irregularities
  /\ state \in AsyncState
  /\ count \in 0 .. MaxRequests
  /\ request \in [1 .. MaxRequests -> Request]
  /\ requestSequence \in [Slots -> Nat]
  /\ requestVersion \in [Slots -> Nat]
  /\ inflight \in [Slots -> 0 .. count]
  /\ cacheMeta \in [Slots -> 0 .. count]

Nothing == [s \in Slots |-> 0]

Init ==
  /\ exists \in BOOLEAN
  /\ created = 0
  /\ irregular = {}
  /\ state = Idle
  /\ count = 0
  /\ request = [r \in 1 .. MaxRequests |-> NoRequest]
  /\ requestSequence = Nothing /\ requestVersion = Nothing
  /\ inflight = Nothing /\ cacheMeta = Nothing

-----------------------------------------------------------------------------
(***************************************************************************)
(* What a request writes.                                                  *)
(***************************************************************************)

\* Mutant: any request is current while one is.
IsCurrentUnversioned(r) == requestVersion[request[r].slot] # 0

\* isCurrentRequest
IsCurrent(r) == requestVersion[request[r].slot] = request[r].version

Success(r) == [status |-> "success", loading |-> FALSE, data |-> r, by |-> r]

\* A failed background revalidation keeps showing what is cached, if anything is.
Error(r) == [status |-> "error", loading |-> FALSE, by |-> r,
             data |-> IF request[r].background THEN cacheMeta[request[r].slot] ELSE 0]

Aborted(r) == [state EXCEPT !.status = "aborted", !.loading = FALSE, !.by = r]

\* applyAsyncState: nothing is written when the store is gone.
ApplyState(next) == state' = IF exists THEN next ELSE state

\* settleAbort
SettleAbort(r) == IF IsCurrent(r) THEN ApplyState(Aborted(r)) ELSE UNCHANGED state

\* executeFetch is done, which decides the race if the timeout has not.
Returns(r, outcome) ==
  request' = [request EXCEPT ![r].run = "done",
                             ![r].race = IF @ = "open" THEN outcome ELSE @]

\* Work of request r that has yet to happen and may write the state.
Live(r) == \/ request[r].run \in {"fetching", "waiting"} /\ request[r].race = "open"
           \/ request[r].race = "rejected"

Over(r) == request[r].run = "done" /\ request[r].race = "settled"

-----------------------------------------------------------------------------
(***************************************************************************)
(* fetchStore: the synchronous part of a call.                             *)
(***************************************************************************)

\* This is one more irregularity, if c holds.
MarkIrregular(kind, c) == irregular' = irregular \cup (IF c THEN {kind} ELSE {})

\* The record at the start of a call, the store having been created if needed.
StateNow == IF exists THEN state ELSE Idle

\* createStore by the application or, with autoCreate, by fetchStore itself.
EnsureStore ==
  /\ exists' = TRUE
  /\ created' = IF exists THEN created ELSE count

\* The store is created again before its old requests are over.
ReusedInFlight == ~exists /\ \E r \in Started : ~Over(r)

\* shouldUseCache: no entry of use, one that is fresh, or one found expired.
Lookups(s) == IF cacheMeta[s] = 0 THEN {"miss"} ELSE {"miss", "fresh", "expired"}

\* Answered from the cache, without stale-while-revalidate.
FetchCached(s) ==
  /\ exists
  /\ cacheMeta[s] # 0
  /\ state' = [status |-> "success", loading |-> FALSE, data |-> cacheMeta[s], by |-> 0]
  /\ UNCHANGED <<storeVars, count, request, tables, irregular>>

\* With stale-while-revalidate a fresh entry is shown as loading.
AfterLookup(s, lookup) ==
  IF lookup = "fresh"
  THEN [status |-> "success", loading |-> TRUE, data |-> cacheMeta[s], by |-> 0]
  ELSE StateNow

ExpireEntry(s, lookup) ==
  cacheMeta' = IF lookup = "expired" THEN [cacheMeta EXCEPT ![s] = 0] ELSE cacheMeta

\* The slot's in-flight request will end what a call shows as loading.
Answerable(s) == inflight[s] # 0 /\ Live(inflight[s]) /\ IsCurrent(inflight[s])

\* No request is started: the call joins the slot's in-flight request, whether
\* or not their contracts agree, or it is rate limited, or too many slots are in
\* flight.
FetchWithoutRequest(s) ==
  /\ EnsureStore
  /\ \E lookup \in Lookups(s) :
       /\ irregular' = irregular \cup (IF ReusedInFlight THEN {"reused"} ELSE {})
            \cup (IF lookup = "fresh" /\ ~Answerable(s) THEN {"unanswered"} ELSE {})
       /\ state' = AfterLookup(s, lookup)
       /\ ExpireEntry(s, lookup)
  /\ UNCHANGED <<count, request, requestSequence, requestVersion, inflight>>

\* What executeFetch comes to before its first await.
Outcomes == {"fetching", "aborted", "throws", "invalid"}

\* A request starts: its version is reserved, the store shows it is loading,
\* executeFetch runs up to its first await (the caller's signal may be aborted
\* already; the factory may throw or return what cannot be fetched, which is
\* reported and nothing else), and it becomes the slot's in-flight request.
StartRequest(s, dedupe, signal, outcome) ==
  /\ count < MaxRequests
  /\ EnsureStore
  /\ irregular' = irregular \cup (IF ReusedInFlight THEN {"reused"} ELSE {})
       \cup (IF outcome = "invalid" THEN {"invalid"} ELSE {})
  /\ dedupe => inflight[s] = 0
  /\ outcome = "aborted" => signal
  /\ count' = count + 1
  /\ requestSequence' = [requestSequence EXCEPT ![s] = @ + 1]
  /\ requestVersion' = [requestVersion EXCEPT ![s] = requestSequence[s] + 1]
  /\ inflight' = [inflight EXCEPT ![s] = count']
  /\ \E lookup \in Lookups(s) :
       /\ ExpireEntry(s, lookup)
       /\ request' = [request EXCEPT ![count'] =
            [run |-> IF outcome = "fetching" THEN "fetching" ELSE "done",
             race |-> CASE outcome = "fetching" -> "open"
                        [] outcome = "throws" -> "rejected"
                        [] OTHER -> "over",
             slot |-> s, version |-> requestSequence[s] + 1, attempts |-> 0,
             background |-> lookup = "fresh", signal |-> signal,
             aborted |-> outcome = "aborted"]]
       /\ LET shown == IF lookup = "fresh" THEN AfterLookup(s, lookup)
                       ELSE [StateNow EXCEPT !.status = "loading", !.loading = TRUE,
                                             !.by = count']
          IN state' = IF outcome = "aborted"
                      THEN [shown EXCEPT !.status = "aborted", !.loading = FALSE, !.by = count']
                      ELSE shown

-----------------------------------------------------------------------------
(***************************************************************************)
(* A request under way.                                                    *)
(***************************************************************************)

\* pruneAsyncCache, when it runs: the slots of X have expired or overflow.
Prune(X, cache) ==
  /\ cacheMeta' = [s \in Slots |-> IF s \in X THEN 0 ELSE cache[s]]
  /\ requestVersion' = [s \in Slots |-> IF s \in X THEN 0 ELSE requestVersion[s]]
  /\ requestSequence' = [s \in Slots |-> IF s \in X THEN 0 ELSE requestSequence[s]]

Prunable(s) == {x \in Slots \ {s} : cacheMeta[x] # 0}

\* A slot of X has a request that is not over.
InUse(X) == \E r \in Started : request[r].slot \in X /\ ~Over(r)

\* The answer arrives: ignored when aborted or stale, else cached and shown.
Answer(r) ==
  /\ request[r].run = "fetching"
  /\ Returns(r, "over")
  /\ CASE request[r].aborted ->
            SettleAbort(r) /\ UNCHANGED <<requestSequence, requestVersion, cacheMeta, irregular>>
       [] ~request[r].aborted /\ ~IsCurrent(r) ->
            UNCHANGED <<state, requestSequence, requestVersion, cacheMeta, irregular>>
       [] OTHER ->
            /\ \E X \in SUBSET Prunable(request[r].slot) :
                 /\ Prune(X, [cacheMeta EXCEPT ![request[r].slot] = r])
                 /\ MarkIrregular("pruned", InUse(X))
            /\ ApplyState(Success(r))
  /\ UNCHANGED <<storeVars, count, inflight>>

\* Mutant: one retry too many.
FailOnceMore(r) ==
  /\ request[r].run = "fetching"
  /\ \/ /\ request[r].attempts <= MaxRetry /\ ~request[r].aborted
        /\ request' = [request EXCEPT ![r].run = "waiting", ![r].attempts = @ + 1]
        /\ UNCHANGED state
     \/ Returns(r, "over") /\ SettleAbort(r)
     \/ Returns(r, "over") /\ IF IsCurrent(r) THEN ApplyState(Error(r)) ELSE UNCHANGED state
  /\ UNCHANGED <<storeVars, count, tables, irregular>>

\* The request fails.  It is retried while attempts are left, unless it is a
\* promise, which cannot be; an AbortError, or an error when a retry would be due
\* but the signal is aborted, settles as aborted; otherwise the error is shown if
\* the request is current.  A transform that returns a promise is an error too.
Fail(r) ==
  /\ request[r].run = "fetching"
  /\ \/ /\ request[r].attempts < MaxRetry /\ ~request[r].aborted
        /\ request' = [request EXCEPT ![r].run = "waiting", ![r].attempts = @ + 1]
        /\ UNCHANGED state
     \/ Returns(r, "over") /\ SettleAbort(r)
     \/ Returns(r, "over") /\ IF IsCurrent(r) THEN ApplyState(Error(r)) ELSE UNCHANGED state
  /\ UNCHANGED <<storeVars, count, tables, irregular>>

\* The retry delay is over, or cut short by an abort.  The factory is called
\* again outside the try block: if it throws, executeFetch rejects; if it
\* returns what cannot be fetched, executeFetch is over.
Retry(r) ==
  /\ request[r].run = "waiting"
  /\ IF request[r].aborted
     THEN Returns(r, "over") /\ SettleAbort(r) /\ UNCHANGED irregular
     ELSE /\ \/ request' = [request EXCEPT ![r].run = "fetching"] /\ UNCHANGED irregular
             \/ Returns(r, "rejected") /\ UNCHANGED irregular
             \/ Returns(r, "over") /\ MarkIrregular("invalid", TRUE)
          /\ UNCHANGED state
  /\ UNCHANGED <<storeVars, count, tables>>

\* The caller aborts; the relay is detached when the promise settles.
CallerAborts(r) ==
  /\ request[r].signal /\ ~request[r].aborted
  /\ request[r].race # "settled"
  /\ request' = [request EXCEPT ![r].aborted = TRUE]
  /\ UNCHANGED <<storeVars, state, count, tables, irregular>>

\* Mutant: the timeout aborts, and leaves it to the request to notice.
TimeoutOnlyAborts(r) ==
  /\ request[r].run \in {"fetching", "waiting"} /\ request[r].race = "open"
  /\ ~request[r].signal
  /\ request' = [request EXCEPT ![r].aborted = TRUE]
  /\ UNCHANGED <<storeVars, state, count, tables, irregular>>

\* 60 seconds have passed, without a caller's signal.
Timeout(r) ==
  /\ request[r].run \in {"fetching", "waiting"} /\ request[r].race = "open"
  /\ ~request[r].signal
  /\ request' = [request EXCEPT ![r].aborted = TRUE, ![r].race = "rejected"]
  /\ UNCHANGED <<storeVars, state, count, tables, irregular>>

\* The catch handler of the race writes the error, current or not.
Catch(r) ==
  /\ request[r].race = "rejected"
  /\ request' = [request EXCEPT ![r].race = "over"]
  /\ ApplyState(Error(r))
  /\ UNCHANGED <<storeVars, count, tables, irregular>>

\* Mutant: a request that is no longer current leaves the tables alone.
SettleIfCurrent(r) ==
  /\ request[r].race = "over"
  /\ request' = [request EXCEPT ![r].race = "settled"]
  /\ inflight' = IF IsCurrent(r) THEN [inflight EXCEPT ![request[r].slot] = 0] ELSE inflight
  /\ requestVersion' = [requestVersion EXCEPT ![request[r].slot] =
                          IF @ = request[r].version THEN 0 ELSE @]
  /\ UNCHANGED <<storeVars, state, count, requestSequence, cacheMeta, irregular>>

\* The finally handler: clearInflightEntry, which takes any entry of the slot,
\* and clearRequestVersion, which takes only this request's.
Settle(r) ==
  /\ request[r].race = "over"
  /\ request' = [request EXCEPT ![r].race = "settled"]
  /\ inflight' = [inflight EXCEPT ![request[r].slot] = 0]
  /\ requestVersion' = [requestVersion EXCEPT ![request[r].slot] =
                          IF @ = request[r].version THEN 0 ELSE @]
  /\ UNCHANGED <<storeVars, state, count, requestSequence, cacheMeta, irregular>>

-----------------------------------------------------------------------------
(***************************************************************************)
(* The store comes and goes.                                               *)
(***************************************************************************)

CreateStore ==
  /\ ~exists
  /\ EnsureStore
  /\ MarkIrregular("reused", ReusedInFlight)
  /\ state' = Idle
  /\ UNCHANGED <<count, request, tables>>

\* Mutant: the clean-ups do not run.
DeleteWithoutAborting ==
  /\ exists
  /\ exists' = FALSE
  /\ state' = Idle
  /\ requestSequence' = Nothing /\ requestVersion' = Nothing
  /\ inflight' = Nothing /\ cacheMeta' = Nothing
  /\ UNCHANGED <<created, count, request, irregular>>

\* deleteStore: the clean-ups of unsettled requests abort them, clearAsyncMeta
\* empties the tables.
DeleteStore ==
  /\ exists
  /\ exists' = FALSE
  /\ state' = Idle
  /\ request' = [r \in 1 .. MaxRequests |->
                   IF r \in Started /\ request[r].race # "settled"
                   THEN [request[r] EXCEPT !.aborted = TRUE] ELSE request[r]]
  /\ requestSequence' = Nothing /\ requestVersion' = Nothing
  /\ inflight' = Nothing /\ cacheMeta' = Nothing
  /\ UNCHANGED <<created, count, irregular>>

-----------------------------------------------------------------------------
Next ==
  \/ \E s \in Slots : FetchCached(s) \/ FetchWithoutRequest(s)
  \/ \E s \in Slots, dedupe, signal \in BOOLEAN, outcome \in Outcomes :
       StartRequest(s, dedupe, signal, outcome)
  \/ \E r \in Started : \/ Answer(r) \/ Fail(r) \/ Retry(r)
                        \/ CallerAborts(r) \/ Timeout(r) \/ Catch(r) \/ Settle(r)
  \/ CreateStore \/ DeleteStore

Spec == Init /\ [][Next]_vars

\* Timers fire and promise handlers run.  Nothing is assumed of the network: an
\* answer may never come.
FairSpec ==
  /\ Spec
  /\ \A r \in 1 .. MaxRequests :
       /\ WF_vars(r \in Started /\ Timeout(r))
       /\ WF_vars(r \in Started /\ Retry(r))
       /\ WF_vars(r \in Started /\ (Catch(r) \/ Settle(r)))

-----------------------------------------------------------------------------
(***************************************************************************)
(* Properties.                                                             *)
(***************************************************************************)

\* A deleted store's requests never deliver their data: what the store shows,
\* and what is cached for it, was fetched since it was created, however late old
\* answers arrive and though versions are counted from the start again.
NoAnswerAcrossDeletion ==
  exists => /\ state.data # 0 => state.data > created
            /\ \A s \in Slots : cacheMeta[s] # 0 => cacheMeta[s] > created

\* An in-flight entry never outlives its request: a call deduplicated onto a
\* settled promise would get an old answer, and so would every later call.
InflightIsUnsettled ==
  \A s \in Slots : inflight[s] # 0 =>
    request[inflight[s]].slot = s /\ request[inflight[s]].race # "settled"

\* No request of the slot is younger.
IsNewest(r) == \A q \in Started : request[q].slot = request[r].slot => q <= r

\* Answers that arrive out of order are sorted out: only the newest request of a
\* slot puts its answer into the cache and the store, until a pruning hits a slot in
\* use and its versions are counted from the start again.
StaleAnswersIgnored ==
  [][\A r \in Started :
       "pruned" \notin irregular /\ (\E s \in Slots : cacheMeta'[s] = r /\ cacheMeta[s] # r)
         => IsNewest(r)]_vars

\* Stale requests leave the store alone: the code says "stale, ignore".
StaleRequestsIgnored ==
  [][\A r \in Started : state'.by = r /\ state.by # r => IsNewest(r)]_vars

Loading == exists /\ state.loading

\* The store never says it is loading when no request is left that will end it:
\* one that may still write, and is current or about to report its rejection.
LoadingHasRequest ==
  Loading /\ irregular = {} => \E r \in Started : Live(r) /\ (IsCurrent(r) \/ request[r].race = "rejected")

\* A request that only its caller's signal can end, the network being silent.
WaitsForCaller == \E r \in Started : request[r].signal /\ request[r].run = "fetching"

\* Loading ends, whatever the network does, unless the caller took it on itself
\* to abort: the timeout ends every other request, and there always is one to end it.
LoadingEnds ==
  /\ []LoadingHasRequest
  /\ Loading /\ irregular = {} ~> ~Loading \/ WaitsForCaller \/ irregular # {}
=============================================================================
