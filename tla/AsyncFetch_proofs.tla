-------------------------- MODULE AsyncFetch_proofs --------------------------
(***************************************************************************)
(* Proofs about AsyncFetch, for any cache slots, any number of requests    *)
(* and any number of retries.                                              *)
(*                                                                         *)
(* Then proofs about Computed, for any names, any dependencies, any values *)
(* and any compute functions.                                              *)
(***************************************************************************)
EXTENDS AsyncFetch, Computed, SequenceTheorems, FiniteSetTheorems, WellFoundedInduction, TLAPS

-----------------------------------------------------------------------------
(***************************************************************************)
(* Types.                                                                  *)
(***************************************************************************)

LEMMA InitType == Init => TypeOK
<1> SUFFICES ASSUME Init PROVE TypeOK
  OBVIOUS
<1>1. NoRequest \in Request
  BY FetchAssumption DEF NoRequest, Request
<1>2. Idle \in AsyncState
  BY DEF Idle, AsyncState
<1>3. Nothing \in [Slots -> {0}]
  BY DEF Nothing
<1> QED
  BY <1>1, <1>2, <1>3, FetchAssumption DEF Init, TypeOK, Irregularities

\* A state that a request writes.
LEMMA WrittenType ==
  ASSUME TypeOK, NEW r \in Started
  PROVE  Success(r) \in AsyncState /\ Error(r) \in AsyncState /\ Aborted(r) \in AsyncState
<1>1. r \in Nat /\ r \in 1 .. MaxRequests
  BY FetchAssumption DEF Started, TypeOK
<1>2. request[r].slot \in Slots
  BY <1>1 DEF TypeOK, Request
<1>3. cacheMeta[request[r].slot] \in Nat
  BY <1>2 DEF TypeOK
<1>4. state \in AsyncState
  BY DEF TypeOK
<1>5. Success(r) \in AsyncState
  BY <1>1 DEF Success, AsyncState
<1>6. Error(r) \in AsyncState
  BY <1>1, <1>3 DEF Error, AsyncState
<1>7. Aborted(r) \in AsyncState
  BY <1>1, <1>4 DEF Aborted, AsyncState
<1> QED BY <1>5, <1>6, <1>7

\* A retry, an abort, a promise that settles: no request gets an impossible record.
LEMMA ReturnsType ==
  ASSUME TypeOK, NEW r \in Started, NEW outcome \in {"rejected", "over"}, Returns(r, outcome)
  PROVE  request' \in [1 .. MaxRequests -> Request]
<1> DEFINE old == request[r]
           next == [old EXCEPT !.run = "done", !.race = IF @ = "open" THEN outcome ELSE @]
<1>1. r \in 1 .. MaxRequests /\ old \in Request
  BY FetchAssumption DEF Started, TypeOK
<1>2. next \in Request
  <2>1. (IF old.race = "open" THEN outcome ELSE old.race) \in {"open", "rejected", "over", "settled"}
    BY <1>1 DEF Request
  <2> QED BY <1>1, <2>1 DEF Request
<1>3. request' = [request EXCEPT ![r] = next]
  BY DEF Returns
<1> QED BY <1>1, <1>2, <1>3 DEF TypeOK

\* What starts a request has the types.
LEMMA StartType ==
  ASSUME TypeOK, NEW s \in Slots, NEW dedupe \in BOOLEAN, NEW signal \in BOOLEAN,
         NEW outcome \in Outcomes, StartRequest(s, dedupe, signal, outcome)
  PROVE  TypeOK'
<1> DEFINE new == count + 1
<1>1. new \in 1 .. MaxRequests /\ new \in Nat /\ count' = new /\ count \in Nat
  BY FetchAssumption DEF StartRequest, TypeOK
<1>2. exists' \in BOOLEAN /\ created' \in 0 .. count' /\ irregular' \subseteq Irregularities
  BY <1>1 DEF StartRequest, EnsureStore, TypeOK, Irregularities
<1>3. requestSequence' \in [Slots -> Nat] /\ requestVersion' \in [Slots -> Nat]
  BY DEF StartRequest, TypeOK
<1>4. inflight' \in [Slots -> 0 .. count']
  BY <1>1 DEF StartRequest, TypeOK
<1>5. PICK lookup \in Lookups(s) :
        /\ ExpireEntry(s, lookup)
        /\ request' = [request EXCEPT ![count'] =
             [run |-> IF outcome = "fetching" THEN "fetching" ELSE "done",
              race |-> CASE outcome = "fetching" -> "open"
                         [] outcome = "throws" -> "rejected"
                         [] OTHER -> "over",
              slot |-> s, version |-> requestSequence[s] + 1, attempts |-> 0,
              background |-> lookup = "fresh", signal |-> signal,
              aborted |-> outcome = "aborted"]]
        /\ LET shown == IF lookup = "fresh" THEN AfterLookup(s, lookup)
                        ELSE [StateNow EXCEPT !.status = "loading", !.loading = TRUE,
                                              !.by = count']
           IN state' = IF outcome = "aborted"
                       THEN [shown EXCEPT !.status = "aborted", !.loading = FALSE, !.by = count']
                       ELSE shown
  BY DEF StartRequest
<1>6. cacheMeta' \in [Slots -> 0 .. count']
  BY <1>1, <1>5 DEF ExpireEntry, TypeOK
<1>7. request' \in [1 .. MaxRequests -> Request]
  <2>1. requestSequence[s] + 1 \in Nat /\ 0 \in 0 .. MaxRetry
    BY FetchAssumption DEF TypeOK
  <2> QED BY <1>1, <1>5, <2>1 DEF TypeOK, Request
<1>8. state' \in AsyncState
  <2>1. StateNow \in AsyncState
    BY DEF StateNow, Idle, AsyncState, TypeOK
  <2>2. AfterLookup(s, lookup) \in AsyncState
    BY <2>1 DEF AfterLookup, AsyncState, TypeOK
  <2> QED BY <1>1, <1>5, <2>1, <2>2 DEF AsyncState
<1> QED BY <1>1, <1>2, <1>3, <1>4, <1>6, <1>7, <1>8 DEF TypeOK

\* Pruning clears entries.
LEMMA PruneType ==
  ASSUME TypeOK, NEW X \in SUBSET Slots, NEW cache \in [Slots -> 0 .. count], Prune(X, cache)
  PROVE  /\ cacheMeta' \in [Slots -> 0 .. count]
         /\ requestVersion' \in [Slots -> Nat] /\ requestSequence' \in [Slots -> Nat]
<1>1. 0 \in 0 .. count /\ 0 \in Nat
  BY FetchAssumption DEF TypeOK
<1> QED BY <1>1 DEF Prune, TypeOK

\* A request writes the state, if the store is there.
LEMMA AppliedType ==
  ASSUME TypeOK, NEW next \in AsyncState, ApplyState(next)
  PROVE  state' \in AsyncState
BY DEF ApplyState, TypeOK

LEMMA SettleAbortType ==
  ASSUME TypeOK, NEW r \in Started, SettleAbort(r)
  PROVE  state' \in AsyncState
BY WrittenType, AppliedType DEF SettleAbort, TypeOK

LEMMA AnswerType ==
  ASSUME TypeOK, NEW r \in Started, Answer(r)
  PROVE  TypeOK'
<1>1. request' \in [1 .. MaxRequests -> Request]
  BY ReturnsType DEF Answer
<1>2. UNCHANGED <<exists, created, count, inflight>>
  BY DEF Answer, storeVars
<1>3. CASE request[r].aborted \/ ~IsCurrent(r)
  <2>1. UNCHANGED <<requestSequence, requestVersion, cacheMeta, irregular>>
    BY <1>3 DEF Answer
  <2>2. state' \in AsyncState
    BY <1>3, SettleAbortType DEF Answer, TypeOK
  <2> QED BY <1>1, <1>2, <2>1, <2>2 DEF TypeOK
<1>4. CASE ~request[r].aborted /\ IsCurrent(r)
  <2>1. PICK X \in SUBSET Prunable(request[r].slot) :
          /\ Prune(X, [cacheMeta EXCEPT ![request[r].slot] = r])
          /\ MarkIrregular("pruned", InUse(X))
    BY <1>4 DEF Answer
  <2>2. X \in SUBSET Slots
    BY DEF Prunable
  <2>3. [cacheMeta EXCEPT ![request[r].slot] = r] \in [Slots -> 0 .. count]
    <3>1. r \in 0 .. count
      BY FetchAssumption DEF TypeOK, Started
    <3> QED BY <3>1 DEF TypeOK
  <2>4. irregular' \subseteq Irregularities
    BY <2>1 DEF MarkIrregular, Irregularities, TypeOK
  <2>5. state' \in AsyncState
    BY <1>4, WrittenType, AppliedType DEF Answer
  <2> QED BY <1>1, <1>2, <2>1, <2>2, <2>3, <2>4, <2>5, PruneType DEF TypeOK
<1> QED BY <1>3, <1>4

\* A request that changes its own record, in a field of which next is a value.
LEMMA RecordType ==
  ASSUME TypeOK, NEW r \in Started
  PROVE  /\ r \in 1 .. MaxRequests
         /\ request[r] \in Request
         /\ \A next \in Request : [request EXCEPT ![r] = next] \in [1 .. MaxRequests -> Request]
BY FetchAssumption DEF TypeOK, Started

LEMMA FailType ==
  ASSUME TypeOK, NEW r \in Started, Fail(r)
  PROVE  TypeOK'
<1>1. UNCHANGED <<exists, created, count, tables, irregular>>
  BY DEF Fail, storeVars
<1>2. CASE /\ request[r].attempts < MaxRetry
           /\ request' = [request EXCEPT ![r].run = "waiting", ![r].attempts = @ + 1]
           /\ UNCHANGED state
  <2> DEFINE next == [request[r] EXCEPT !.run = "waiting", !.attempts = @ + 1]
  <2>1. next \in Request
    BY <1>2, RecordType, FetchAssumption DEF Request
  <2>2. request' = [request EXCEPT ![r] = next]
    BY <1>2
  <2>3. request' \in [1 .. MaxRequests -> Request]
    BY <2>1, <2>2, RecordType
  <2> QED BY <1>1, <1>2, <2>3 DEF TypeOK, tables
<1>3. CASE Returns(r, "over") /\ (\/ SettleAbort(r)
                                  \/ IF IsCurrent(r) THEN ApplyState(Error(r)) ELSE UNCHANGED state)
  <2>1. state' \in AsyncState
    BY <1>3, WrittenType, AppliedType, SettleAbortType DEF TypeOK
  <2> QED BY <1>1, <1>3, <2>1, ReturnsType DEF TypeOK, tables
<1> QED BY <1>2, <1>3 DEF Fail

LEMMA RetryType ==
  ASSUME TypeOK, NEW r \in Started, Retry(r)
  PROVE  TypeOK'
<1>1. UNCHANGED <<exists, created, count, tables>>
  BY DEF Retry, storeVars
<1>2. irregular' \subseteq Irregularities
  BY DEF Retry, MarkIrregular, Irregularities, TypeOK
<1>3. state' \in AsyncState
  BY SettleAbortType DEF Retry, TypeOK
<1>4. request' \in [1 .. MaxRequests -> Request]
  <2>1. CASE request' = [request EXCEPT ![r].run = "fetching"]
    <3> DEFINE next == [request[r] EXCEPT !.run = "fetching"]
    <3>1. next \in Request
      BY RecordType DEF Request
    <3> QED BY <2>1, <3>1, RecordType
  <2>2. CASE Returns(r, "over") \/ Returns(r, "rejected")
    BY <2>2, ReturnsType
  <2> QED BY <2>1, <2>2 DEF Retry
<1> QED BY <1>1, <1>2, <1>3, <1>4 DEF TypeOK, tables

\* The caller aborts, time is up, the promise's handlers run.
LEMMA PromiseType ==
  ASSUME TypeOK, NEW r \in Started, CallerAborts(r) \/ Timeout(r) \/ Catch(r) \/ Settle(r)
  PROVE  TypeOK'
<1>1. UNCHANGED <<exists, created, count, requestSequence, cacheMeta, irregular>>
  BY DEF CallerAborts, Timeout, Catch, Settle, storeVars, tables
<1>2. PICK race \in {"open", "rejected", "over", "settled"}, aborted \in BOOLEAN :
        request' = [request EXCEPT ![r] = [request[r] EXCEPT !.race = race, !.aborted = aborted]]
  <2> DEFINE old == request[r]
  <2>1. /\ old.race \in {"open", "rejected", "over", "settled"}
        /\ old.aborted \in BOOLEAN
        /\ old = [old EXCEPT !.race = old.race]
        /\ old = [old EXCEPT !.aborted = old.aborted]
        /\ request \in [1 .. MaxRequests -> Request] /\ r \in 1 .. MaxRequests
    BY RecordType DEF Request, TypeOK
  <2>2. CASE CallerAborts(r)
    <3>1. request' = [request EXCEPT ![r] = [old EXCEPT !.race = old.race, !.aborted = TRUE]]
      BY <2>1, <2>2 DEF CallerAborts
    <3> QED BY <2>1, <3>1
  <2>3. CASE Timeout(r)
    <3>1. request' = [request EXCEPT ![r] = [old EXCEPT !.race = "rejected", !.aborted = TRUE]]
      BY <2>1, <2>3 DEF Timeout, Request
    <3> QED BY <3>1
  <2>4. CASE Catch(r)
    <3>1. request' = [request EXCEPT ![r] = [old EXCEPT !.race = "over", !.aborted = old.aborted]]
      BY <2>1, <2>4 DEF Catch, Request
    <3> QED BY <2>1, <3>1
  <2>5. CASE Settle(r)
    <3>1. request' = [request EXCEPT ![r] = [old EXCEPT !.race = "settled", !.aborted = old.aborted]]
      BY <2>1, <2>5 DEF Settle, Request
    <3> QED BY <2>1, <3>1
  <2> QED BY <2>2, <2>3, <2>4, <2>5
<1>3. request' \in [1 .. MaxRequests -> Request]
  <2>1. [request[r] EXCEPT !.race = race, !.aborted = aborted] \in Request
    BY RecordType DEF Request
  <2> QED BY <1>2, <2>1, RecordType
<1>4. state' \in AsyncState
  <2>1. CASE Catch(r)
    BY <2>1, WrittenType, AppliedType DEF Catch
  <2>2. CASE CallerAborts(r) \/ Timeout(r) \/ Settle(r)
    BY <2>2 DEF CallerAborts, Timeout, Settle, TypeOK
  <2> QED BY <2>1, <2>2
<1>5. inflight' \in [Slots -> 0 .. count] /\ requestVersion' \in [Slots -> Nat]
  <2>1. CASE Settle(r)
    <3>1. 0 \in 0 .. count /\ 0 \in Nat
      BY FetchAssumption DEF TypeOK
    <3> QED BY <2>1, <3>1 DEF Settle, TypeOK
  <2>2. CASE CallerAborts(r) \/ Timeout(r) \/ Catch(r)
    BY <2>2 DEF CallerAborts, Timeout, Catch, tables, TypeOK
  <2> QED BY <2>1, <2>2
<1> QED BY <1>1, <1>3, <1>4, <1>5 DEF TypeOK

LEMMA DeleteType ==
  ASSUME TypeOK, DeleteStore
  PROVE  TypeOK'
<1>1. Nothing \in [Slots -> 0 .. count] /\ Nothing \in [Slots -> Nat]
  BY FetchAssumption DEF Nothing, TypeOK
<1>2. request' \in [1 .. MaxRequests -> Request]
  <2>1. \A q \in Request : [q EXCEPT !.aborted = TRUE] \in Request
    BY DEF Request
  <2> QED BY <2>1 DEF DeleteStore, TypeOK
<1> QED BY <1>1, <1>2 DEF DeleteStore, TypeOK, Idle, AsyncState

\* Every step keeps the types.
LEMMA NextType == TypeOK /\ [Next]_vars => TypeOK'
<1> SUFFICES ASSUME TypeOK, [Next]_vars PROVE TypeOK'
  OBVIOUS
<1>1. ASSUME NEW s \in Slots, FetchCached(s) PROVE TypeOK'
  <2>1. cacheMeta[s] \in Nat
    BY DEF TypeOK
  <2> QED BY <1>1, <2>1 DEF FetchCached, TypeOK, AsyncState, storeVars, tables
<1>2. ASSUME NEW s \in Slots, FetchWithoutRequest(s) PROVE TypeOK'
  <2>1. exists' \in BOOLEAN /\ created' \in 0 .. count
    BY <1>2, FetchAssumption DEF FetchWithoutRequest, EnsureStore, TypeOK
  <2>2. irregular' \subseteq Irregularities
    BY <1>2 DEF FetchWithoutRequest, TypeOK, Irregularities
  <2>3. state' \in AsyncState
    BY <1>2 DEF FetchWithoutRequest, AfterLookup, StateNow, Idle, AsyncState, TypeOK
  <2>4. cacheMeta' \in [Slots -> 0 .. count]
    BY <1>2, FetchAssumption DEF FetchWithoutRequest, ExpireEntry, TypeOK
  <2> QED BY <1>2, <2>1, <2>2, <2>3, <2>4 DEF FetchWithoutRequest, TypeOK
<1>3. CASE CreateStore
  BY <1>3, FetchAssumption
  DEF CreateStore, EnsureStore, MarkIrregular, Irregularities, Idle, AsyncState, tables, TypeOK
<1>4. CASE UNCHANGED vars
  BY <1>4 DEF vars, storeVars, tables, TypeOK
<1> QED
  BY <1>1, <1>2, <1>3, <1>4, StartType, AnswerType, FailType, RetryType, PromiseType, DeleteType
  DEF Next

\* Every variable keeps its type: no retry is one too many, no table holds a request
\* that was never started.
THEOREM TypeCorrect == Spec => []TypeOK
BY InitType, NextType, PTL DEF Spec

-----------------------------------------------------------------------------
(***************************************************************************)
(* What a step of a request does to its record.                            *)
(***************************************************************************)

RequestStep(r) ==
  \/ Answer(r) \/ Fail(r) \/ Retry(r)
  \/ CallerAborts(r) \/ Timeout(r) \/ Catch(r) \/ Settle(r)

\* The request's answer, if one comes, may be used.
Fresh(r) == request[r].run # "done" /\ ~request[r].aborted

\* A request changes its own record alone, in which slot and version stay; it is not
\* fresh again, nor once it decides its promise; and only Settle settles the promise.
LEMMA OwnRecord ==
  ASSUME TypeOK, NEW r \in Started, RequestStep(r)
  PROVE  /\ \A q \in Started : q # r => request'[q] = request[q]
         /\ request'[r].slot = request[r].slot /\ request'[r].version = request[r].version
         /\ Fresh(r)' => Fresh(r) /\ (request[r].race = "open" => request'[r].race = "open")
         /\ ~Settle(r) /\ request[r].race # "settled" => request'[r].race # "settled"
<1>1. /\ r \in DOMAIN request /\ Started \subseteq DOMAIN request
      /\ request = [q \in DOMAIN request |-> request[q]] /\ request[r] \in Request
  BY FetchAssumption DEF TypeOK, Started
<1>2. ASSUME NEW outcome \in {"rejected", "over"}, Returns(r, outcome)
      PROVE  /\ \A q \in Started : q # r => request'[q] = request[q]
             /\ request'[r].slot = request[r].slot /\ request'[r].version = request[r].version
             /\ request'[r].run = "done"
             /\ request[r].race # "settled" => request'[r].race # "settled"
  BY <1>1, <1>2 DEF Returns, Request
<1>3. CASE Answer(r)
  BY <1>2, <1>3 DEF Answer, Fresh
<1>4. CASE Fail(r)
  <2>1. CASE request' = [request EXCEPT ![r].run = "waiting", ![r].attempts = @ + 1]
    BY <1>1, <1>4, <2>1 DEF Fail, Fresh, Request
  <2>2. CASE Returns(r, "over")
    BY <1>2, <2>2 DEF Fresh
  <2> QED BY <1>4, <2>1, <2>2 DEF Fail
<1>5. CASE Retry(r)
  <2>1. CASE request' = [request EXCEPT ![r].run = "fetching"]
    BY <1>1, <1>5, <2>1 DEF Retry, Fresh, Request
  <2>2. CASE Returns(r, "over") \/ Returns(r, "rejected")
    BY <1>2, <2>2 DEF Fresh
  <2> QED BY <1>5, <2>1, <2>2 DEF Retry
<1>6. CASE CallerAborts(r)
  BY <1>1, <1>6 DEF CallerAborts, Fresh, Request
<1>7. CASE Timeout(r)
  BY <1>1, <1>7 DEF Timeout, Fresh, Request
<1>8. CASE Catch(r)
  BY <1>1, <1>8 DEF Catch, Fresh, Request
<1>9. CASE Settle(r)
  BY <1>1, <1>9 DEF Settle, Fresh, Request
<1> QED BY <1>3, <1>4, <1>5, <1>6, <1>7, <1>8, <1>9 DEF RequestStep

-----------------------------------------------------------------------------
(***************************************************************************)
(* In-flight entries.                                                      *)
(***************************************************************************)

LEMMA NextInflight == TypeOK /\ InflightIsUnsettled /\ [Next]_vars => InflightIsUnsettled'
<1> SUFFICES ASSUME TypeOK, InflightIsUnsettled, [Next]_vars PROVE InflightIsUnsettled'
  OBVIOUS
<1>1. \A s \in Slots : inflight[s] # 0 => inflight[s] \in Started /\ inflight[s] \in 1 .. MaxRequests
  BY FetchAssumption DEF TypeOK, Started
<1>2. ASSUME UNCHANGED inflight,
             \A q \in Started : /\ request'[q].slot = request[q].slot
                                /\ request[q].race # "settled" => request'[q].race # "settled"
      PROVE  InflightIsUnsettled'
  BY <1>1, <1>2 DEF InflightIsUnsettled
<1>3. ASSUME NEW s \in Slots, FetchCached(s) \/ FetchWithoutRequest(s) PROVE InflightIsUnsettled'
  BY <1>2, <1>3 DEF FetchCached, FetchWithoutRequest, tables
<1>4. ASSUME NEW s \in Slots, NEW dedupe \in BOOLEAN, NEW signal \in BOOLEAN,
             NEW outcome \in Outcomes, StartRequest(s, dedupe, signal, outcome)
      PROVE  InflightIsUnsettled'
  <2>1. /\ count' = count + 1 /\ count' \in 1 .. MaxRequests
        /\ inflight' = [inflight EXCEPT ![s] = count']
        /\ \A q \in Started : request'[q] = request[q]
        /\ request'[count'].slot = s /\ request'[count'].race # "settled"
    BY <1>4, FetchAssumption DEF StartRequest, TypeOK, Started
  <2> QED BY <1>1, <2>1, FetchAssumption DEF InflightIsUnsettled, TypeOK
<1>5. ASSUME NEW r \in Started, RequestStep(r), ~Settle(r) PROVE InflightIsUnsettled'
  <2>1. UNCHANGED inflight
    BY <1>5 DEF RequestStep, Answer, Fail, Retry, CallerAborts, Timeout, Catch, tables
  <2> QED BY <1>2, <1>5, <2>1, OwnRecord
<1>6. ASSUME NEW r \in Started, Settle(r) PROVE InflightIsUnsettled'
  <2>1. inflight' = [inflight EXCEPT ![request[r].slot] = 0]
    BY <1>6 DEF Settle
  <2>2. /\ \A q \in Started : q # r => request'[q] = request[q]
        /\ request'[r].slot = request[r].slot
    BY <1>6, OwnRecord DEF RequestStep
  <2> QED BY <1>1, <2>1, <2>2 DEF InflightIsUnsettled, TypeOK
<1>7. CASE DeleteStore
  BY <1>7 DEF DeleteStore, Nothing, InflightIsUnsettled
<1>8. CASE CreateStore \/ UNCHANGED vars
  BY <1>2, <1>8 DEF CreateStore, vars, tables
<1> QED BY <1>3, <1>4, <1>5, <1>6, <1>7, <1>8 DEF Next, RequestStep

\* clearInflightEntry takes any entry of its slot, so that none outlives its request: no
\* call is deduplicated onto a settled promise, whatever is aborted, pruned or deleted.
THEOREM InflightEntriesAreLive == Spec => []InflightIsUnsettled
<1>1. Init => InflightIsUnsettled
  BY DEF Init, Nothing, InflightIsUnsettled
<1> QED BY <1>1, InitType, NextType, NextInflight, PTL DEF Spec

-----------------------------------------------------------------------------
(***************************************************************************)
(* Answers.                                                                *)
(***************************************************************************)

\* A promise that is decided is decided because its request is done or aborted.
DecidedIsOver == \A r \in Started : request[r].race # "open" => ~Fresh(r)

\* A deletion leaves no fresh request, and nothing in the cache.
DeletedIsOver ==
  /\ \A r \in Started : r <= created \/ ~exists => ~Fresh(r)
  /\ ~exists => state.data = 0 /\ \A s \in Slots : cacheMeta[s] = 0

\* The version of a fresh request is not ahead of its slot's, and current only if no
\* request of the slot is younger, until a pruning hits a slot in use.
VersionsAreOrdered ==
  "pruned" \notin irregular =>
    \A q \in Started : Fresh(q) =>
      /\ 1 <= request[q].version /\ request[q].version <= requestSequence[request[q].slot]
      /\ IsCurrent(q) => IsNewest(q)

AnswerInv == DecidedIsOver /\ DeletedIsOver /\ NoAnswerAcrossDeletion /\ VersionsAreOrdered

\* Steps that leave the requests alone, and empty slots of the cache at most.
LEMMA IdleStepKeepsAnswers ==
  ASSUME TypeOK, AnswerInv, UNCHANGED <<count, request, requestVersion, requestSequence>>,
         irregular \subseteq irregular',
         \/ UNCHANGED <<exists, created>>
         \/ ~exists /\ exists' /\ created' = count /\ state'.data = 0,
         \A s \in Slots : cacheMeta'[s] \in {0, cacheMeta[s]},
         exists /\ exists' => state'.data = state.data \/ \E s \in Slots : state'.data = cacheMeta[s],
         ~exists' => UNCHANGED state
  PROVE  AnswerInv'
<1>1. DecidedIsOver'
  BY DEF AnswerInv, DecidedIsOver, Fresh, Started
<1>2. DeletedIsOver'
  <2>1. \A r \in Started : r \in Nat /\ r <= count
    BY DEF Started, TypeOK
  <2> QED BY <2>1 DEF AnswerInv, DeletedIsOver, Fresh, Started
<1>3. NoAnswerAcrossDeletion'
  <2>1. CASE exists /\ exists'
    <3>1. created' = created
      BY <2>1
    <3>2. /\ state.data # 0 => state.data > created
          /\ \A s \in Slots : cacheMeta[s] # 0 => cacheMeta[s] > created
      BY <2>1 DEF AnswerInv, NoAnswerAcrossDeletion
    <3>3. state'.data = state.data \/ \E s \in Slots : state'.data = cacheMeta[s]
      BY <2>1
    <3> QED BY <3>1, <3>2, <3>3 DEF NoAnswerAcrossDeletion
  <2>2. CASE ~exists /\ exists'
    <3>1. state'.data = 0 /\ \A s \in Slots : cacheMeta[s] = 0
      BY <2>2 DEF AnswerInv, DeletedIsOver
    <3> QED BY <3>1 DEF NoAnswerAcrossDeletion
  <2> QED BY <2>1, <2>2 DEF NoAnswerAcrossDeletion
<1>4. VersionsAreOrdered'
  BY DEF AnswerInv, VersionsAreOrdered, Fresh, IsCurrent, IsNewest, Started
<1> QED BY <1>1, <1>2, <1>3, <1>4 DEF AnswerInv

LEMMA StartKeepsAnswers ==
  ASSUME TypeOK, AnswerInv, NEW s \in Slots, NEW dedupe \in BOOLEAN, NEW signal \in BOOLEAN,
         NEW outcome \in Outcomes, StartRequest(s, dedupe, signal, outcome)
  PROVE  AnswerInv'
<1>0. PICK new \in Nat : new = count + 1
  BY DEF TypeOK
<1>1. /\ count \in Nat /\ new \in 1 .. MaxRequests /\ count' = new /\ new \notin Started
      /\ Started' = Started \cup {new}
      /\ \A r \in Started : r \in Nat /\ r <= count
  BY <1>0, FetchAssumption DEF StartRequest, TypeOK, Started
<1>2. PICK lookup \in Lookups(s) :
        /\ ExpireEntry(s, lookup)
        /\ request' = [request EXCEPT ![count'] =
             [run |-> IF outcome = "fetching" THEN "fetching" ELSE "done",
              race |-> CASE outcome = "fetching" -> "open"
                         [] outcome = "throws" -> "rejected"
                         [] OTHER -> "over",
              slot |-> s, version |-> requestSequence[s] + 1, attempts |-> 0,
              background |-> lookup = "fresh", signal |-> signal,
              aborted |-> outcome = "aborted"]]
        /\ LET shown == IF lookup = "fresh" THEN AfterLookup(s, lookup)
                        ELSE [StateNow EXCEPT !.status = "loading", !.loading = TRUE,
                                              !.by = count']
           IN state' = IF outcome = "aborted"
                       THEN [shown EXCEPT !.status = "aborted", !.loading = FALSE, !.by = count']
                       ELSE shown
  BY DEF StartRequest
<1>3. /\ \A r \in Started : request'[r] = request[r]
      /\ request'[new].slot = s /\ request'[new].version = requestSequence[s] + 1
      /\ Fresh(new)' => request'[new].race = "open"
  <2>1. request \in [1 .. MaxRequests -> Request] /\ Started \subseteq 1 .. MaxRequests
    BY RecordType DEF TypeOK
  <2>2. \A r \in Started : request'[r] = request[r]
    BY <1>1, <1>2, <2>1
  <2>3. request'[new] = [run |-> IF outcome = "fetching" THEN "fetching" ELSE "done",
              race |-> CASE outcome = "fetching" -> "open"
                         [] outcome = "throws" -> "rejected"
                         [] OTHER -> "over",
              slot |-> s, version |-> requestSequence[s] + 1, attempts |-> 0,
              background |-> lookup = "fresh", signal |-> signal,
              aborted |-> outcome = "aborted"]
    BY <1>1, <1>2, <2>1
  <2>4. CASE outcome = "fetching"
    BY <2>2, <2>3, <2>4 DEF Fresh
  <2>5. CASE outcome # "fetching"
    <3>1. request'[new].run = "done"
      BY <2>3, <2>5
    <3> QED BY <2>2, <2>3, <3>1 DEF Fresh
  <2> QED BY <2>4, <2>5
<1>4. /\ exists' /\ created' <= count /\ created' \in Nat
      /\ exists => created' = created
  BY <1>1 DEF StartRequest, EnsureStore, TypeOK
<1>5. DecidedIsOver'
  <2> SUFFICES ASSUME NEW r \in Started', request'[r].race # "open" PROVE ~Fresh(r)'
    BY DEF DecidedIsOver
  <2>1. CASE r = new
    BY <1>3, <2>1 DEF Fresh
  <2>2. CASE r \in Started
    BY <1>3, <2>2 DEF AnswerInv, DecidedIsOver, Fresh
  <2> QED BY <1>1, <2>1, <2>2
<1>6. DeletedIsOver'
  <2> SUFFICES ASSUME NEW r \in Started', r <= created' PROVE ~Fresh(r)'
    BY <1>4 DEF DeletedIsOver
  <2>1. r \in Started
    BY <1>0, <1>1, <1>4
  <2>2. r <= created \/ ~exists
    BY <1>4
  <2>3. ~Fresh(r)
    BY <2>1, <2>2 DEF AnswerInv, DeletedIsOver
  <2> QED BY <1>3, <2>1, <2>3 DEF Fresh
<1>7. NoAnswerAcrossDeletion'
  <2>1. \A x \in Slots : cacheMeta'[x] \in {0, cacheMeta[x]}
    BY <1>2 DEF ExpireEntry, TypeOK
  <2>2. state'.data \in {StateNow.data, cacheMeta[s]}
    <3>1. StateNow \in AsyncState
      BY DEF StateNow, Idle, AsyncState, TypeOK
    <3>2. AfterLookup(s, lookup).data \in {StateNow.data, cacheMeta[s]}
      BY DEF AfterLookup
    <3>3. AfterLookup(s, lookup) \in AsyncState
      BY <3>1 DEF AfterLookup, AsyncState, TypeOK
    <3> QED BY <1>2, <3>1, <3>2, <3>3 DEF AsyncState
  <2> QED BY <1>4, <2>1, <2>2 DEF AnswerInv, NoAnswerAcrossDeletion, DeletedIsOver, StateNow, Idle
<1>8. VersionsAreOrdered'
  <2> SUFFICES ASSUME "pruned" \notin irregular', NEW q \in Started', Fresh(q)'
               PROVE  /\ 1 <= request'[q].version
                      /\ request'[q].version <= requestSequence'[request'[q].slot]
                      /\ IsCurrent(q)' => IsNewest(q)'
    BY DEF VersionsAreOrdered
  <2>1. "pruned" \notin irregular
    BY DEF StartRequest
  <2>2. /\ requestSequence' = [requestSequence EXCEPT ![s] = @ + 1]
        /\ requestVersion' = [requestVersion EXCEPT ![s] = requestSequence[s] + 1]
        /\ requestSequence \in [Slots -> Nat] /\ requestVersion \in [Slots -> Nat]
    BY DEF StartRequest, TypeOK
  <2>3. CASE q = new
    <3>1. requestSequence[s] \in Nat /\ requestSequence'[s] = requestSequence[s] + 1
      BY <2>2
    <3>2. \A p \in Started' : p <= new
      BY <1>0, <1>1
    <3> QED BY <1>3, <2>3, <3>1, <3>2 DEF IsNewest
  <2>4. CASE q \in Started
    <3>1. /\ request'[q] = request[q] /\ Fresh(q) /\ request[q].slot \in Slots
          /\ request[q].version \in Nat
      BY <1>3, <2>4, RecordType DEF Fresh, Request
    <3>2. /\ 1 <= request[q].version /\ request[q].version <= requestSequence[request[q].slot]
          /\ IsCurrent(q) => IsNewest(q)
      BY <2>1, <2>4, <3>1 DEF AnswerInv, VersionsAreOrdered
    <3>3. CASE request[q].slot = s
      <4>1. /\ requestSequence[s] \in Nat /\ requestSequence'[s] = requestSequence[s] + 1
            /\ requestVersion'[s] = requestSequence[s] + 1
        BY <2>2
      <4>2. ~IsCurrent(q)'
        BY <3>1, <3>2, <3>3, <4>1 DEF IsCurrent
      <4> QED BY <3>1, <3>2, <3>3, <4>1, <4>2
    <3>4. CASE request[q].slot # s
      <4>1. /\ requestSequence'[request[q].slot] = requestSequence[request[q].slot]
            /\ requestVersion'[request[q].slot] = requestVersion[request[q].slot]
        BY <2>2, <3>1, <3>4
      <4>2. ASSUME IsCurrent(q)' PROVE IsNewest(q)'
        <5>1. IsNewest(q)
          BY <3>1, <3>2, <4>1, <4>2 DEF IsCurrent
        <5> SUFFICES ASSUME NEW p \in Started', request'[p].slot = request'[q].slot PROVE p <= q
          BY DEF IsNewest
        <5>2. p \in Started /\ request[p].slot = request[q].slot
          BY <1>1, <1>3, <3>1, <3>4
        <5> QED BY <5>1, <5>2 DEF IsNewest
      <4> QED BY <3>1, <3>2, <4>1, <4>2
    <3> QED BY <3>3, <3>4
  <2> QED BY <1>1, <2>3, <2>4
<1> QED BY <1>5, <1>6, <1>7, <1>8 DEF AnswerInv

\* A step of a request that caches nothing: it writes what it found, or nothing.
LEMMA QuietStepKeepsAnswers ==
  ASSUME TypeOK, AnswerInv, NEW r \in Started, RequestStep(r),
         UNCHANGED <<exists, created, count, requestSequence, cacheMeta>>,
         irregular \subseteq irregular',
         \A s \in Slots : requestVersion'[s] \in {0, requestVersion[s]},
         \/ UNCHANGED state
         \/ exists /\ state'.data \in {0, state.data, cacheMeta[request[r].slot]}
  PROVE  AnswerInv'
<1>1. Started' = Started /\ request[r].slot \in Slots
  BY FetchAssumption DEF Started, TypeOK, Request
<1>2. \A q \in Started : /\ Fresh(q)' => Fresh(q)
                         /\ request'[q].slot = request[q].slot
                         /\ request'[q].version = request[q].version
  BY OwnRecord DEF Fresh
<1>3. DecidedIsOver'
  BY <1>1, <1>2, OwnRecord DEF AnswerInv, DecidedIsOver, Fresh
<1>4. DeletedIsOver'
  BY <1>1, <1>2 DEF AnswerInv, DeletedIsOver
<1>5. NoAnswerAcrossDeletion'
  BY <1>1 DEF AnswerInv, NoAnswerAcrossDeletion
<1>6. VersionsAreOrdered'
  <2> SUFFICES ASSUME "pruned" \notin irregular', NEW q \in Started, Fresh(q)'
               PROVE  /\ 1 <= request'[q].version
                      /\ request'[q].version <= requestSequence'[request'[q].slot]
                      /\ IsCurrent(q)' => IsNewest(q)'
    BY <1>1 DEF VersionsAreOrdered
  <2>1. request[q].slot \in Slots /\ request[q].version \in Nat
    BY RecordType DEF Request
  <2>2. /\ 1 <= request[q].version /\ request[q].version <= requestSequence[request[q].slot]
        /\ IsCurrent(q) => IsNewest(q)
    BY <1>2 DEF AnswerInv, VersionsAreOrdered
  <2>3. IsCurrent(q)' => IsCurrent(q)
    BY <1>2, <2>1, <2>2 DEF IsCurrent
  <2>4. IsNewest(q) => IsNewest(q)'
    <3> SUFFICES ASSUME IsNewest(q), NEW p \in Started, request'[p].slot = request'[q].slot
                 PROVE  p <= q
      BY <1>1 DEF IsNewest
    <3>1. request[p].slot = request[q].slot
      BY <1>2
    <3> QED BY <3>1 DEF IsNewest
  <2> QED BY <1>2, <2>2, <2>3, <2>4
<1> QED BY <1>3, <1>4, <1>5, <1>6 DEF AnswerInv

\* The answer of a fresh request of a store that is there, cached and shown.
LEMMA AnswerKeepsAnswers ==
  ASSUME TypeOK, AnswerInv, NEW r \in Started, Answer(r), ~request[r].aborted, IsCurrent(r)
  PROVE  AnswerInv'
<1>1. PICK X \in SUBSET Prunable(request[r].slot) :
        /\ Prune(X, [cacheMeta EXCEPT ![request[r].slot] = r])
        /\ MarkIrregular("pruned", InUse(X))
  BY DEF Answer
<1>2. /\ UNCHANGED <<exists, created, count>> /\ ApplyState(Success(r))
      /\ Started' = Started /\ Fresh(r) /\ r \in Nat /\ created \in Nat
  BY FetchAssumption DEF Answer, storeVars, Fresh, Started, TypeOK
<1>3. exists /\ r > created
  BY <1>2 DEF AnswerInv, DeletedIsOver
<1>4. \A q \in Started : /\ Fresh(q)' => Fresh(q)
                         /\ request'[q].slot = request[q].slot
                         /\ request'[q].version = request[q].version
                         /\ request[q].slot \in Slots
  BY OwnRecord, RecordType DEF RequestStep, Fresh, Request
<1>5. DecidedIsOver'
  BY <1>2, OwnRecord DEF AnswerInv, DecidedIsOver, Fresh, RequestStep
<1>6. DeletedIsOver'
  BY <1>2, <1>3, <1>4 DEF AnswerInv, DeletedIsOver
<1>7. NoAnswerAcrossDeletion'
  <2>1. state'.data = r
    BY <1>2, <1>3 DEF ApplyState, Success
  <2>2. \A s \in Slots : cacheMeta'[s] \in {0, cacheMeta[s], r}
    BY <1>1 DEF Prune, TypeOK
  <2> QED BY <1>2, <1>3, <2>1, <2>2 DEF AnswerInv, NoAnswerAcrossDeletion
<1>8. VersionsAreOrdered'
  <2> SUFFICES ASSUME "pruned" \notin irregular', NEW q \in Started, Fresh(q)'
               PROVE  /\ 1 <= request'[q].version
                      /\ request'[q].version <= requestSequence'[request'[q].slot]
                      /\ IsCurrent(q)' => IsNewest(q)'
    BY <1>2 DEF VersionsAreOrdered
  <2>1. "pruned" \notin irregular /\ ~InUse(X)
    BY <1>1 DEF MarkIrregular
  <2>2. request[q].slot \notin X
    BY <1>4, <2>1 DEF InUse, Over, Fresh
  <2>3. /\ requestSequence'[request[q].slot] = requestSequence[request[q].slot]
        /\ requestVersion'[request[q].slot] = requestVersion[request[q].slot]
    BY <1>1, <1>4, <2>2 DEF Prune
  <2>4. /\ 1 <= request[q].version /\ request[q].version <= requestSequence[request[q].slot]
        /\ IsCurrent(q) => IsNewest(q)
    BY <1>4, <2>1 DEF AnswerInv, VersionsAreOrdered
  <2>5. IsCurrent(q)' => IsCurrent(q)
    BY <1>4, <2>3 DEF IsCurrent
  <2>6. IsNewest(q) => IsNewest(q)'
    <3> SUFFICES ASSUME IsNewest(q), NEW p \in Started, request'[p].slot = request'[q].slot
                 PROVE  p <= q
      BY <1>2 DEF IsNewest
    <3>1. request[p].slot = request[q].slot
      BY <1>4
    <3> QED BY <3>1 DEF IsNewest
  <2> QED BY <1>4, <2>3, <2>4, <2>5, <2>6
<1> QED BY <1>5, <1>6, <1>7, <1>8 DEF AnswerInv

\* Every other step of a request is quiet.
LEMMA RequestKeepsAnswers ==
  ASSUME TypeOK, AnswerInv, NEW r \in Started, RequestStep(r)
  PROVE  AnswerInv'
<1> DEFINE StateIsQuiet ==
      \/ UNCHANGED state
      \/ exists /\ state'.data \in {0, state.data, cacheMeta[request[r].slot]}
<1>1. SettleAbort(r) => StateIsQuiet
  BY DEF SettleAbort, ApplyState, Aborted, TypeOK, AsyncState
<1>2. ApplyState(Error(r)) => StateIsQuiet
  BY DEF ApplyState, Error
<1>3. CASE Answer(r) /\ (request[r].aborted \/ ~IsCurrent(r))
  <2>1. /\ UNCHANGED <<exists, created, count, requestSequence, requestVersion, cacheMeta, irregular>>
        /\ StateIsQuiet
    BY <1>1, <1>3 DEF Answer, storeVars
  <2> QED BY <2>1, QuietStepKeepsAnswers
<1>4. CASE Fail(r) \/ Retry(r) \/ CallerAborts(r) \/ Timeout(r) \/ Catch(r)
  <2>1. /\ UNCHANGED <<exists, created, count, requestSequence, requestVersion, cacheMeta>>
        /\ irregular \subseteq irregular'
    BY <1>4 DEF Fail, Retry, CallerAborts, Timeout, Catch, storeVars, tables, MarkIrregular
  <2>2. StateIsQuiet
    BY <1>1, <1>2, <1>4 DEF Fail, Retry, CallerAborts, Timeout, Catch
  <2> QED BY <2>1, <2>2, QuietStepKeepsAnswers
<1>5. CASE Settle(r)
  <2>1. UNCHANGED <<exists, created, state, count, requestSequence, cacheMeta, irregular>>
    BY <1>5 DEF Settle, storeVars
  <2>2. \A s \in Slots : requestVersion'[s] \in {0, requestVersion[s]}
    BY <1>5 DEF Settle, TypeOK
  <2> QED BY <2>1, <2>2, QuietStepKeepsAnswers
<1> QED BY <1>3, <1>4, <1>5, AnswerKeepsAnswers DEF RequestStep

\* A deletion aborts what is not settled, and what is settled is over.
LEMMA DeleteKeepsAnswers ==
  ASSUME TypeOK, AnswerInv, DeleteStore
  PROVE  AnswerInv'
<1>1. /\ Started' = Started /\ created' = created /\ ~exists'
      /\ state'.data = 0 /\ \A s \in Slots : cacheMeta'[s] = 0
  BY DEF DeleteStore, Started, Idle, Nothing
<1>2. \A r \in Started : ~Fresh(r)'
  <2> SUFFICES ASSUME NEW r \in Started PROVE ~Fresh(r)'
    OBVIOUS
  <2>1. r \in 1 .. MaxRequests /\ request[r] \in Request
    BY RecordType
  <2>2. CASE request[r].race # "settled"
    <3>1. request'[r] = [request[r] EXCEPT !.aborted = TRUE]
      BY <2>1, <2>2 DEF DeleteStore
    <3> QED BY <2>1, <3>1 DEF Fresh, Request
  <2>3. CASE request[r].race = "settled"
    <3>1. request'[r] = request[r] /\ ~Fresh(r)
      BY <2>1, <2>3 DEF DeleteStore, AnswerInv, DecidedIsOver
    <3> QED BY <3>1 DEF Fresh
  <2> QED BY <2>2, <2>3
<1> QED BY <1>1, <1>2 DEF AnswerInv, DecidedIsOver, DeletedIsOver, NoAnswerAcrossDeletion, VersionsAreOrdered

LEMMA NextAnswers == TypeOK /\ AnswerInv /\ [Next]_vars => AnswerInv'
<1> SUFFICES ASSUME TypeOK, AnswerInv, [Next]_vars PROVE AnswerInv'
  OBVIOUS
<1>1. ASSUME NEW s \in Slots, FetchCached(s) PROVE AnswerInv'
  <2>1. /\ exists /\ state'.data = cacheMeta[s]
        /\ UNCHANGED <<exists, created, count, request, requestVersion, requestSequence, cacheMeta, irregular>>
    BY <1>1 DEF FetchCached, storeVars, tables
  <2> QED BY <2>1, IdleStepKeepsAnswers
<1>2. ASSUME NEW s \in Slots, FetchWithoutRequest(s) PROVE AnswerInv'
  <2>1. /\ UNCHANGED <<count, request, requestVersion, requestSequence>>
        /\ irregular \subseteq irregular' /\ exists'
        /\ exists => created' = created
        /\ ~exists => created' = count
    BY <1>2 DEF FetchWithoutRequest, EnsureStore
  <2>2. PICK lookup \in Lookups(s) : state' = AfterLookup(s, lookup) /\ ExpireEntry(s, lookup)
    BY <1>2 DEF FetchWithoutRequest
  <2>3. \A x \in Slots : cacheMeta'[x] \in {0, cacheMeta[x]}
    BY <2>2 DEF ExpireEntry, TypeOK
  <2>4. state'.data \in {StateNow.data, cacheMeta[s]}
    BY <2>2 DEF AfterLookup
  <2>5. CASE exists
    BY <2>1, <2>3, <2>4, <2>5, IdleStepKeepsAnswers DEF StateNow
  <2>6. CASE ~exists
    <3>1. state'.data = 0
      BY <2>4, <2>6 DEF StateNow, Idle, AnswerInv, DeletedIsOver
    <3> QED BY <2>1, <2>3, <2>6, <3>1, IdleStepKeepsAnswers
  <2> QED BY <2>5, <2>6
<1>3. CASE CreateStore
  <2>1. /\ ~exists /\ exists' /\ created' = count /\ state'.data = 0 /\ irregular \subseteq irregular'
        /\ UNCHANGED <<count, request, requestVersion, requestSequence, cacheMeta>>
    BY <1>3 DEF CreateStore, EnsureStore, MarkIrregular, Idle, tables
  <2> QED BY <2>1, IdleStepKeepsAnswers
<1>4. CASE UNCHANGED vars
  BY <1>4, IdleStepKeepsAnswers DEF vars, storeVars, tables
<1>5. ASSUME NEW r \in Started, RequestStep(r) PROVE AnswerInv'
  BY <1>5, RequestKeepsAnswers
<1> QED
  BY <1>1, <1>2, <1>3, <1>4, <1>5, StartKeepsAnswers, DeleteKeepsAnswers DEF Next, RequestStep

LEMMA InitAnswers == Init => AnswerInv
BY DEF Init, Idle, Nothing, Started, Fresh, NoRequest,
       AnswerInv, DecidedIsOver, DeletedIsOver, NoAnswerAcrossDeletion, VersionsAreOrdered

\* deleteStore's clean-ups abort every request that is not settled, so what a store shows
\* or has cached was fetched since it was created, however late old answers arrive.
THEOREM NothingCrossesDeletion == Spec => []NoAnswerAcrossDeletion
<1>1. AnswerInv => NoAnswerAcrossDeletion
  BY DEF AnswerInv
<1> QED BY <1>1, InitType, NextType, InitAnswers, NextAnswers, PTL DEF Spec

\* Request versions sort out answers that arrive out of order: only the newest request of
\* its slot is cached, until pruneAsyncCache hits a slot in use.
THEOREM AnswersInOrder == Spec => StaleAnswersIgnored
<1> DEFINE Newest == \A r \in Started :
      "pruned" \notin irregular /\ (\E s \in Slots : cacheMeta'[s] = r /\ cacheMeta[s] # r)
        => IsNewest(r)
<1>1. TypeOK /\ AnswerInv /\ [Next]_vars => [Newest]_vars
  <2> SUFFICES ASSUME TypeOK, AnswerInv, Next, NEW r \in Started, "pruned" \notin irregular,
                      NEW s \in Slots, cacheMeta'[s] = r, cacheMeta[s] # r
               PROVE  IsNewest(r)
    OBVIOUS
  <2>1. r # 0
    BY FetchAssumption DEF Started, TypeOK
  <2>2. ~\A x \in Slots : cacheMeta'[x] \in {0, cacheMeta[x]}
    BY <2>1
  <2>3. PICK q \in Started : Answer(q) /\ ~request[q].aborted /\ IsCurrent(q)
    <3>1. \A x \in Slots : FetchCached(x) \/ FetchWithoutRequest(x)
                             => \A y \in Slots : cacheMeta'[y] \in {0, cacheMeta[y]}
      BY DEF FetchCached, FetchWithoutRequest, ExpireEntry, tables, TypeOK
    <3>2. \A x \in Slots, dedupe, signal \in BOOLEAN, outcome \in Outcomes :
            StartRequest(x, dedupe, signal, outcome)
              => \A y \in Slots : cacheMeta'[y] \in {0, cacheMeta[y]}
      BY DEF StartRequest, ExpireEntry, TypeOK
    <3>3. \A q \in Started : Fail(q) \/ Retry(q) \/ CallerAborts(q) \/ Timeout(q) \/ Catch(q) \/ Settle(q)
                               => UNCHANGED cacheMeta
      BY DEF Fail, Retry, CallerAborts, Timeout, Catch, Settle, tables
    <3>4. CreateStore \/ DeleteStore => \A y \in Slots : cacheMeta'[y] \in {0, cacheMeta[y]}
      BY DEF CreateStore, DeleteStore, Nothing, tables
    <3>5. \A q \in Started : Answer(q) /\ (request[q].aborted \/ ~IsCurrent(q)) => UNCHANGED cacheMeta
      BY DEF Answer
    <3> QED BY <2>2, <3>1, <3>2, <3>3, <3>4, <3>5 DEF Next
  <2>4. PICK X \in SUBSET Prunable(request[q].slot) : Prune(X, [cacheMeta EXCEPT ![request[q].slot] = q])
    BY <2>3 DEF Answer
  <2>5. r = q
    BY <2>1, <2>4 DEF Prune, TypeOK
  <2>6. Fresh(q)
    BY <2>3 DEF Answer, Fresh
  <2> QED BY <2>3, <2>5, <2>6 DEF AnswerInv, VersionsAreOrdered
<1>2. Spec => [][Newest]_vars
  BY <1>1, InitType, NextType, InitAnswers, NextAnswers, PTL DEF Spec
<1> QED BY <1>2 DEF StaleAnswersIgnored

-----------------------------------------------------------------------------
(***************************************************************************)
(* Computed.  First the library's operators on sequences, and the          *)
(* recursive functions.                                                    *)
(***************************************************************************)

\* A set of numbers that is not empty has a least one.
LEMMA LeastExists ==
  ASSUME NEW S \in SUBSET Nat, S # {}
  PROVE  \E i \in S : \A j \in S : i <= j
<1>1. PICK R : R = OpToRel(<, Nat)
  OBVIOUS
<1>2. IsWellFoundedOn(R, Nat)
  BY <1>1, NatLessThanWellFounded
<1>3. \A i, j \in Nat : i < j => <<i, j>> \in R
  BY <1>1 DEF OpToRel
<1>4. PICK i \in S : \A j \in S : <<j, i>> \notin R
  BY <1>2, WFMin
<1>5. \A j \in S : ~(j < i)
  BY <1>3, <1>4
<1> QED BY <1>5

\* A set of numbers that holds 0, and with a number below N its successor, holds those up to N.
LEMMA UpTo ==
  ASSUME NEW N \in Nat, NEW P, 0 \in P, \A n \in 1 .. N : n - 1 \in P => n \in P
  PROVE  \A n \in 0 .. N : n \in P
<1> DEFINE bad == {n \in 0 .. N : n \notin P}
<1> SUFFICES ASSUME bad # {} PROVE FALSE
  OBVIOUS
<1>0. bad \in SUBSET Nat
  OBVIOUS
<1> HIDE DEF bad
<1>1. PICK n \in bad : \A m \in bad : n <= m
  BY <1>0, LeastExists
<1> USE DEF bad
<1>2. n \in 1 .. N /\ n - 1 \in 0 .. N /\ ~(n <= n - 1)
  BY <1>1
<1> QED BY <1>1, <1>2

\* A function given by its value at 0 and by a step.
Iterates(f, N, S, a, step) ==
  f \in [0 .. N -> S] /\ f[0] = a /\ \A i \in 1 .. N : f[i] = step[i][f[i - 1]]

LEMMA Iterated ==
  ASSUME NEW N \in Nat, NEW S, NEW a \in S, NEW step \in [1 .. N -> [S -> S]]
  PROVE  \E f : Iterates(f, N, S, a, step)
<1> DEFINE Upto(n) == \E f \in [0 .. n -> S] :
                        f[0] = a /\ \A i \in 1 .. n : f[i] = step[i][f[i - 1]]
           good == {n \in 0 .. N : Upto(n)}
<1>1. 0 \in good
  <2>1. PICK g : g = [i \in 0 .. 0 |-> a]
    OBVIOUS
  <2>2. g \in [0 .. 0 -> S] /\ g[0] = a
    BY <2>1
  <2>3. \A i \in 1 .. 0 : g[i] = step[i][g[i - 1]]
    OBVIOUS
  <2>4. Upto(0)
    BY <2>2, <2>3
  <2> QED BY <2>4
<1>2. ASSUME NEW n \in 1 .. N, n - 1 \in good PROVE n \in good
  <2>1. PICK f \in [0 .. n - 1 -> S] :
          f[0] = a /\ \A i \in 1 .. n - 1 : f[i] = step[i][f[i - 1]]
    BY <1>2
  <2>2. f[n - 1] \in S /\ step[n][f[n - 1]] \in S
    BY <2>1
  <2> DEFINE g == [i \in 0 .. n |-> IF i = n THEN step[n][f[n - 1]] ELSE f[i]]
  <2>3. g \in [0 .. n -> S]
    <3>1. \A i \in 0 .. n : i # n => i \in 0 .. n - 1
      OBVIOUS
    <3> QED BY <2>1, <2>2, <3>1
  <2>4. g[0] = a
    BY <2>1
  <2>5. ASSUME NEW i \in 1 .. n PROVE g[i] = step[i][g[i - 1]]
    <3>1. CASE i = n
      <4>1. g[i] = step[n][f[n - 1]] /\ g[i - 1] = f[n - 1]
        BY <3>1
      <4> QED BY <3>1, <4>1
    <3>2. CASE i # n
      <4>1. i \in 1 .. n - 1 /\ g[i] = f[i] /\ g[i - 1] = f[i - 1]
        BY <3>2
      <4> QED BY <2>1, <4>1
    <3> QED BY <3>1, <3>2
  <2> HIDE DEF g
  <2>6. Upto(n)
    BY <2>3, <2>4, <2>5
  <2> QED BY <2>6, <1>2
<1>3. N \in good
  <2> HIDE DEF good
  <2>1. \A n \in 0 .. N : n \in good
    BY <1>1, <1>2, UpTo
  <2> QED BY <2>1
<1> QED BY <1>3 DEF Iterates

\* What a sequence without repetitions is.
LEMMA DistinctIs ==
  ASSUME NEW S, NEW q \in DistinctSeq(S)
  PROVE  \E N \in Nat : /\ Len(q) = N /\ DOMAIN q = 1 .. N /\ q = [i \in 1 .. N |-> q[i]]
                        /\ \A i \in 1 .. N : q[i] \in S
                        /\ \A i, j \in 1 .. N : q[i] = q[j] => i = j
                        /\ q \in Seq(S)
                        /\ ToSet(q) = {q[i] : i \in 1 .. N}
<1>1. q \in Seq(S) /\ IsInjective(q)
  BY DEF DistinctSeq
<1>2. PICK N \in Nat : Len(q) = N /\ DOMAIN q = 1 .. N
  BY <1>1, LenProperties
<1>3. q = [i \in 1 .. N |-> q[i]] /\ \A i \in 1 .. N : q[i] \in S
  BY <1>1, <1>2, ElementOfSeq, LenProperties
<1>4. \A i, j \in 1 .. N : q[i] = q[j] => i = j
  BY <1>1, <1>2 DEF IsInjective
<1> QED BY <1>1, <1>2, <1>3, <1>4 DEF ToSet

LEMMA IsDistinct ==
  ASSUME NEW S, NEW N \in Nat, NEW f, f = [i \in 1 .. N |-> f[i]], \A i \in 1 .. N : f[i] \in S,
         \A i, j \in 1 .. N : f[i] = f[j] => i = j
  PROVE  f \in DistinctSeq(S) /\ Len(f) = N /\ ToSet(f) = {f[i] : i \in 1 .. N}
<1>1. f \in [1 .. N -> S]
  OBVIOUS
<1>2. f \in Seq(S) /\ Len(f) = N
  BY <1>1
<1> QED BY <1>2 DEF DistinctSeq, IsInjective, ToSet

LEMMA ContainsIs ==
  ASSUME NEW S, NEW q \in DistinctSeq(S), NEW e
  PROVE  /\ Contains(q, e) <=> e \in ToSet(q)
         /\ ToSet(q) \subseteq S
         /\ q = <<>> <=> ToSet(q) = {}
<1>1. PICK N \in Nat : /\ Len(q) = N /\ DOMAIN q = 1 .. N
                       /\ \A i \in 1 .. N : q[i] \in S
                       /\ q \in Seq(S)
                       /\ ToSet(q) = {q[i] : i \in 1 .. N}
  BY DistinctIs
<1>2. q = <<>> <=> N = 0
  BY <1>1, EmptySeq
<1>3. N # 0 <=> 1 \in 1 .. N
  OBVIOUS
<1>4. Contains(q, e) <=> e \in ToSet(q)
  BY <1>1 DEF Contains
<1>5. ToSet(q) \subseteq S
  BY <1>1
<1>6. ToSet(q) = {} <=> N = 0
  BY <1>1, <1>3
<1> QED BY <1>2, <1>4, <1>5, <1>6

\* A store notified once more is pending once.
LEMMA NotifiedIs ==
  ASSUME NEW S, NEW q \in DistinctSeq(S), NEW e \in S
  PROVE  Notified(q, e) \in DistinctSeq(S) /\ ToSet(Notified(q, e)) = ToSet(q) \cup {e}
<1>1. CASE Contains(q, e)
  BY <1>1, ContainsIs DEF Notified
<1>2. CASE ~Contains(q, e)
  <2>1. PICK N \in Nat : /\ Len(q) = N /\ DOMAIN q = 1 .. N
                         /\ \A i \in 1 .. N : q[i] \in S
                         /\ \A i, j \in 1 .. N : q[i] = q[j] => i = j
                         /\ q \in Seq(S)
                         /\ ToSet(q) = {q[i] : i \in 1 .. N}
    BY DistinctIs
  <2>2. PICK m : m = Append(q, e)
    OBVIOUS
  <2>3. /\ m \in Seq(S) /\ Len(m) = N + 1 /\ m[N + 1] = e
        /\ \A i \in 1 .. N : m[i] = q[i]
    BY <2>1, <2>2, AppendProperties
  <2>4. DOMAIN m = 1 .. N + 1
    BY <2>3, LenProperties
  <2>5. \A i \in 1 .. N : q[i] # e
    BY <1>2, <2>1 DEF Contains
  <2>6. \A i \in 1 .. N + 1 : i = N + 1 \/ i \in 1 .. N
    BY <2>1
  <2>7. \A i, j \in 1 .. N + 1 : m[i] = m[j] => i = j
    BY <2>1, <2>3, <2>5, <2>6
  <2>8. m \in DistinctSeq(S)
    BY <2>3, <2>4, <2>7 DEF DistinctSeq, IsInjective
  <2>9. {m[i] : i \in 1 .. N + 1} = {q[i] : i \in 1 .. N} \cup {e}
    <3>1. 1 .. N \subseteq 1 .. N + 1 /\ N + 1 \in 1 .. N + 1
      BY <2>1
    <3> QED BY <2>3, <2>6, <3>1
  <2> QED BY <1>2, <2>1, <2>2, <2>4, <2>8, <2>9 DEF Notified, ToSet
<1> QED BY <1>1, <1>2

LEMMA WiderDistinct ==
  ASSUME NEW S, NEW T, S \subseteq T, NEW q \in DistinctSeq(S)
  PROVE  q \in DistinctSeq(T)
<1>1. q \in Seq(S) /\ IsInjective(q)
  BY DEF DistinctSeq
<1>2. q \in Seq(T)
  BY <1>1, SeqMonotonic
<1> QED BY <1>1, <1>2 DEF DistinctSeq

LEMMA NarrowerDistinct ==
  ASSUME NEW S, NEW T, NEW q \in DistinctSeq(S), ToSet(q) \subseteq T
  PROVE  q \in DistinctSeq(T)
<1>1. PICK N \in Nat : /\ q = [i \in 1 .. N |-> q[i]]
                       /\ \A i, j \in 1 .. N : q[i] = q[j] => i = j
                       /\ ToSet(q) = {q[i] : i \in 1 .. N}
  BY DistinctIs
<1>2. \A i \in 1 .. N : q[i] \in T
  BY <1>1
<1> QED BY <1>1, <1>2, IsDistinct

\* A store deleted is not pending.
LEMMA RemovedIs ==
  ASSUME NEW S, NEW q \in DistinctSeq(S), NEW e
  PROVE  RemoveFirst(q, e) \in DistinctSeq(S) /\ ToSet(RemoveFirst(q, e)) = ToSet(q) \ {e}
<1>1. PICK N \in Nat : /\ Len(q) = N /\ DOMAIN q = 1 .. N
                       /\ \A i \in 1 .. N : q[i] \in S
                       /\ \A i, j \in 1 .. N : q[i] = q[j] => i = j
                       /\ q \in Seq(S)
                       /\ ToSet(q) = {q[i] : i \in 1 .. N}
  BY DistinctIs
<1>2. CASE \A i \in 1 .. N : q[i] # e
  <2>1. RemoveFirst(q, e) = q
    BY <1>1, <1>2 DEF RemoveFirst
  <2>2. ToSet(q) \ {e} = ToSet(q)
    BY <1>1, <1>2
  <2> QED BY <2>1, <2>2
<1>3. CASE \E i \in 1 .. N : q[i] = e
  <2>1. PICK p \in 1 .. N : q[p] = e
    BY <1>3
  <2>2. {i \in 1 .. N : q[i] = e} = {p}
    BY <1>1, <2>1
  <2>3. Min({p}) = p
    BY DEF Min
  <2>4. SelectInSeq(q, LAMBDA v : v = e) = p
    BY <1>1, <2>2, <2>3 DEF SelectInSeq
  <2>5. PICK a, b : a = SubSeq(q, 1, p - 1) /\ b = SubSeq(q, p + 1, N)
    OBVIOUS
  <2>6. a \in Seq(S) /\ Len(a) = p - 1 /\ \A i \in 1 .. p - 1 : a[i] = q[i]
    <3>1. 1 \in Int /\ p - 1 \in Int /\ \A i \in 1 .. p - 1 : q[i] \in S
      BY <1>1
    <3>2. Len(a) = (IF 1 <= p - 1 THEN p - 1 - 1 + 1 ELSE 0) /\ a \in Seq(S)
          /\ \A i \in 1 .. p - 1 - 1 + 1 : a[i] = q[1 + i - 1]
      BY <2>5, <3>1, SubSeqProperties
    <3> QED BY <3>2
  <2>7. b \in Seq(S) /\ Len(b) = N - p /\ \A i \in 1 .. N - p : b[i] = q[p + i]
    <3>1. N \in Int /\ p + 1 \in Int /\ \A i \in p + 1 .. N : q[i] \in S
      BY <1>1
    <3>2. Len(b) = (IF p + 1 <= N THEN N - (p + 1) + 1 ELSE 0) /\ b \in Seq(S)
          /\ \A i \in 1 .. N - (p + 1) + 1 : b[i] = q[p + 1 + i - 1]
      BY <2>5, <3>1, SubSeqProperties
    <3>3. N - (p + 1) + 1 = N - p /\ (p + 1 <= N \/ N - p = 0)
      BY <1>1
    <3>4. ASSUME NEW i \in 1 .. N - p PROVE b[i] = q[p + i]
      <4>1. p + 1 + i - 1 = p + i
        BY <1>1
      <4>2. b[i] = q[p + 1 + i - 1]
        BY <3>2, <3>3
      <4> QED BY ONLY <4>1, <4>2
    <3>5. Len(b) = N - p
      BY <3>2, <3>3
    <3> QED BY <3>2, <3>4, <3>5
  <2>8. PICK r : r = a \o b
    OBVIOUS
  <2>9. /\ r \in Seq(S) /\ Len(r) = N - 1
        /\ \A i \in 1 .. N - 1 : r[i] = IF i <= p - 1 THEN q[i] ELSE q[i + 1]
    <3>1. /\ r \in Seq(S) /\ Len(r) = Len(a) + Len(b)
          /\ \A i \in 1 .. Len(a) + Len(b) : r[i] = IF i <= Len(a) THEN a[i] ELSE b[i - Len(a)]
      BY ONLY <2>6, <2>7, <2>8, ConcatProperties
    <3>2. Len(a) = p - 1 /\ Len(a) + Len(b) = N - 1
      BY <1>1, <2>6, <2>7
    <3>3. ASSUME NEW i \in 1 .. N - 1 PROVE r[i] = IF i <= p - 1 THEN q[i] ELSE q[i + 1]
      <4>1. CASE i <= p - 1
        BY <2>6, <3>1, <3>2, <4>1
      <4>2. CASE ~(i <= p - 1)
        <5>1. i - (p - 1) \in 1 .. N - p /\ p + (i - (p - 1)) = i + 1
          BY <4>2
        <5>2. r[i] = b[i - (p - 1)]
          BY <3>1, <3>2, <4>2
        <5> QED BY <2>7, <4>2, <5>1, <5>2
      <4> QED BY <4>1, <4>2
    <3> QED BY <3>1, <3>2, <3>3
  <2>10. N - 1 \in Nat /\ DOMAIN r = 1 .. N - 1
    BY <1>1, <2>9, LenProperties
  <2>11. \A i \in 1 .. N - 1 : i \in 1 .. N /\ i + 1 \in 1 .. N
    BY <1>1
  <2>12. \A i, j \in 1 .. N - 1 : r[i] = r[j] => i = j
    <3> SUFFICES ASSUME NEW i \in 1 .. N - 1, NEW j \in 1 .. N - 1, r[i] = r[j] PROVE i = j
      OBVIOUS
    <3>1. i \in Nat /\ j \in Nat /\ p \in Nat
      OBVIOUS
    <3> QED BY <1>1, <2>9, <2>11, <3>1
  <2>13. r \in DistinctSeq(S)
    BY <2>9, <2>10, <2>12 DEF DistinctSeq, IsInjective
  <2>14. {r[i] : i \in 1 .. N - 1} = ToSet(q) \ {e}
    <3>1. ASSUME NEW i \in 1 .. N - 1 PROVE r[i] \in ToSet(q) /\ r[i] # e
      <4>1. (i # p /\ i <= p - 1) \/ (i + 1 # p /\ ~(i <= p - 1))
        OBVIOUS
      <4> QED BY <1>1, <2>1, <2>9, <2>11, <4>1
    <3>2. ASSUME NEW x \in ToSet(q) \ {e} PROVE \E i \in 1 .. N - 1 : x = r[i]
      <4>1. PICK k \in 1 .. N : x = q[k]
        BY <1>1
      <4>2. k # p
        BY <2>1, <4>1
      <4>3. CASE k < p
        <5>1. k \in 1 .. N - 1 /\ k <= p - 1
          BY <4>3
        <5> QED BY <2>9, <4>1, <5>1
      <4>4. CASE k > p
        <5>1. k - 1 \in 1 .. N - 1 /\ ~(k - 1 <= p - 1) /\ k - 1 + 1 = k
          BY <4>4
        <5> QED BY <2>9, <4>1, <5>1
      <4> QED BY <4>2, <4>3, <4>4
    <3> QED BY <3>1, <3>2
  <2>15. RemoveFirst(q, e) = r
    BY <1>1, <2>1, <2>4, <2>5, <2>8 DEF RemoveFirst, RemoveAt
  <2> QED BY <2>10, <2>13, <2>14, <2>15 DEF ToSet
<1> QED BY <1>2, <1>3

LEMMA JoinedIs ==
  ASSUME NEW S, NEW p \in DistinctSeq(S), NEW q \in DistinctSeq(S), ToSet(p) \cap ToSet(q) = {}
  PROVE  p \o q \in DistinctSeq(S) /\ ToSet(p \o q) = ToSet(p) \cup ToSet(q)
<1>1. PICK M \in Nat : /\ Len(p) = M /\ p \in Seq(S) /\ ToSet(p) = {p[i] : i \in 1 .. M}
                       /\ \A i, j \in 1 .. M : p[i] = p[j] => i = j
  BY DistinctIs
<1>2. PICK N \in Nat : /\ Len(q) = N /\ q \in Seq(S) /\ ToSet(q) = {q[i] : i \in 1 .. N}
                       /\ \A i, j \in 1 .. N : q[i] = q[j] => i = j
  BY DistinctIs
<1>3. PICK r : r = p \o q
  OBVIOUS
<1>4. /\ r \in Seq(S) /\ Len(r) = M + N
      /\ \A i \in 1 .. M + N : r[i] = IF i <= M THEN p[i] ELSE q[i - M]
  <2>1. /\ r \in Seq(S) /\ Len(r) = Len(p) + Len(q)
        /\ \A i \in 1 .. Len(p) + Len(q) : r[i] = IF i <= Len(p) THEN p[i] ELSE q[i - Len(p)]
    <3>1. p \in Seq(S) /\ q \in Seq(S)
      BY <1>1, <1>2
    <3> QED BY ONLY <1>3, <3>1, ConcatProperties
  <2> QED BY <1>1, <1>2, <2>1
<1>5. DOMAIN r = 1 .. M + N
  BY <1>4, LenProperties
<1>6. \A i \in 1 .. M : i \in 1 .. M + N /\ r[i] = p[i] /\ r[i] \in ToSet(p)
  BY <1>1, <1>4
<1>7. ASSUME NEW i \in 1 .. M + N, ~(i <= M)
      PROVE  i - M \in 1 .. N /\ r[i] = q[i - M] /\ r[i] \in ToSet(q)
  <2>1. i - M \in 1 .. N
    BY <1>7
  <2>2. r[i] = q[i - M]
    BY <1>4, <1>7
  <2> QED BY <1>2, <2>1, <2>2
<1>8. \A i \in 1 .. M + N : i <= M => i \in 1 .. M
  OBVIOUS
<1>9. ASSUME NEW i \in 1 .. M + N, NEW j \in 1 .. M + N, r[i] = r[j] PROVE i = j
  <2>1. CASE i <= M /\ j <= M
    BY <1>1, <1>6, <1>8, <1>9, <2>1
  <2>2. CASE ~(i <= M) /\ ~(j <= M)
    <3>1. i - M = j - M
      BY <1>2, <1>7, <1>9, <2>2
    <3> QED BY <3>1
  <2>3. CASE ~(i <= M <=> j <= M)
    BY <1>6, <1>7, <1>8, <1>9, <2>3
  <2> QED BY <2>1, <2>2, <2>3
<1>10. r \in DistinctSeq(S)
  BY <1>4, <1>5, <1>9 DEF DistinctSeq, IsInjective
<1>11. {r[i] : i \in 1 .. M + N} = ToSet(p) \cup ToSet(q)
  <2>1. \A i \in 1 .. M + N : r[i] \in ToSet(p) \cup ToSet(q)
    BY <1>6, <1>7, <1>8
  <2>2. \A x \in ToSet(p) : \E i \in 1 .. M + N : x = r[i]
    BY <1>1, <1>6
  <2>3. ASSUME NEW x \in ToSet(q) PROVE \E i \in 1 .. M + N : x = r[i]
    <3>1. PICK k \in 1 .. N : x = q[k]
      BY <1>2
    <3>2. M + k \in 1 .. M + N /\ ~(M + k <= M) /\ M + k - M = k
      OBVIOUS
    <3> QED BY <1>4, <3>1, <3>2
  <2> QED BY <2>1, <2>2, <2>3
<1> QED BY <1>3, <1>5, <1>10, <1>11 DEF ToSet

LEMMA TailIs ==
  ASSUME NEW S, NEW q \in DistinctSeq(S), q # <<>>
  PROVE  /\ Head(q) \in S /\ Head(q) = q[1] /\ 1 \in DOMAIN q
         /\ Tail(q) \in DistinctSeq(S)
         /\ ToSet(q) = {Head(q)} \cup ToSet(Tail(q))
<1>1. PICK N \in Nat : /\ Len(q) = N /\ q \in Seq(S) /\ ToSet(q) = {q[i] : i \in 1 .. N}
                       /\ \A i, j \in 1 .. N : q[i] = q[j] => i = j
                       /\ DOMAIN q = 1 .. N
  BY DistinctIs
<1>2. N # 0 /\ 1 \in 1 .. N /\ N - 1 \in Nat
  BY <1>1, EmptySeq
<1>3. PICK t : t = Tail(q)
  OBVIOUS
<1>4. /\ Head(q) \in S /\ t \in Seq(S) /\ Len(t) = N - 1
      /\ \A i \in 1 .. N - 1 : t[i] = q[i + 1]
  BY <1>1, <1>3, HeadTailProperties
<1>5. DOMAIN t = 1 .. N - 1
  BY <1>4, LenProperties
<1>6. Head(q) = q[1]
  OBVIOUS
<1>7. \A i \in 1 .. N - 1 : i + 1 \in 1 .. N
  BY <1>1
<1>8. \A i, j \in 1 .. N - 1 : t[i] = t[j] => i = j
  <2> SUFFICES ASSUME NEW i \in 1 .. N - 1, NEW j \in 1 .. N - 1, t[i] = t[j] PROVE i = j
    OBVIOUS
  <2>1. i + 1 = j + 1
    BY <1>1, <1>4, <1>7
  <2> QED BY <2>1
<1>9. t \in DistinctSeq(S)
  BY <1>4, <1>5, <1>8 DEF DistinctSeq, IsInjective
<1>10. ASSUME NEW i \in 1 .. N PROVE i = 1 \/ \E j \in 1 .. N - 1 : q[i] = t[j]
  <2>1. i # 1 => i - 1 \in 1 .. N - 1 /\ i - 1 + 1 = i
    OBVIOUS
  <2> QED BY <1>4, <2>1
<1>11. \A j \in 1 .. N - 1 : t[j] \in ToSet(q)
  BY <1>1, <1>4, <1>7
<1>12. ToSet(q) = {q[1]} \cup {t[j] : j \in 1 .. N - 1}
  BY <1>1, <1>2, <1>10, <1>11
<1>13. ToSet(t) = {t[j] : j \in 1 .. N - 1}
  BY <1>5 DEF ToSet
<1>14. ToSet(q) = {Head(q)} \cup ToSet(Tail(q))
  BY <1>3, <1>6, <1>12, <1>13
<1> QED BY <1>1, <1>2, <1>3, <1>4, <1>6, <1>9, <1>14

-----------------------------------------------------------------------------
(***************************************************************************)
(* What a recomputation and a flush are made of.                           *)
(***************************************************************************)

\* What a recomputation may leave, when the stores of E are there.
CellsOf(E) ==
  {cells \in [value : [Names -> Value], lastOutput : [Computeds -> Value],
              pending : DistinctSeq(E), threw : SUBSET Computeds] :
     \A n \in Names : cells.value[n] # Null => n \in E}

LEMMA ComputeType ==
  ASSUME NEW c \in Computeds, NEW ds \in SUBSET Names, NEW v \in [Names -> Value]
  PROVE  Compute(c, ds, v) \in Value /\ Compute(c, ds, v) # Null
<1>1. [d \in ds |-> v[d]] \in [ds -> Value]
  OBVIOUS
<1>2. Compute(c, ds, v) \in Values
  BY <1>1, ComputedAssumption DEF Compute
<1> QED BY <1>2, ComputedAssumption DEF Value

LEMMA RunComputeType ==
  ASSUME NEW c \in Computeds, NEW ds \in SUBSET Names, NEW v \in [Names -> Value], NEW faulty
  PROVE  RunCompute(c, ds, v, faulty) \in Value
BY ComputeType DEF RunCompute, Names

\* The two outcomes of a recomputation.
Recomputed(done, cells, c, ds, faulty, next) ==
  /\ next = RunCompute(c, ds, cells.value, faulty)
  /\ done = [value |-> done.value, lastOutput |-> done.lastOutput,
             pending |-> done.pending, threw |-> done.threw]
  /\ done.threw = IF c \in faulty THEN cells.threw \cup {c} ELSE cells.threw \ {c}
  /\ next \in {cells.lastOutput[c], cells.value[c]} =>
       /\ done.value = cells.value /\ done.lastOutput = cells.lastOutput
       /\ done.pending = cells.pending
  /\ next \notin {cells.lastOutput[c], cells.value[c]} =>
       /\ done.value = [cells.value EXCEPT ![c] = next]
       /\ done.lastOutput = [cells.lastOutput EXCEPT ![c] = next]
       /\ done.pending = Notified(cells.pending, c)

LEMMA RecomputeIs ==
  ASSUME NEW E, NEW cells \in CellsOf(E), NEW c \in Computeds, NEW ds \in SUBSET Names, NEW faulty,
         Registered(c)
  PROVE  \E next \in Value : Recomputed(Recompute(cells, c, ds, faulty), cells, c, ds, faulty, next)
<1>1. cells \in [value : [Names -> Value], lastOutput : [Computeds -> Value],
                 pending : DistinctSeq(E), threw : SUBSET Computeds]
  BY DEF CellsOf
<1>2. PICK next : next = RunCompute(c, ds, cells.value, faulty)
  OBVIOUS
<1>3. next \in Value
  BY <1>1, <1>2, RunComputeType
<1>4. PICK t : t = IF c \in faulty THEN cells.threw \cup {c} ELSE cells.threw \ {c}
  OBVIOUS
<1>5. PICK ran : ran = [cells EXCEPT !.threw = t]
  OBVIOUS
<1>6. t \in SUBSET Computeds
  BY <1>1, <1>4
<1>7. /\ ran.value = cells.value /\ ran.lastOutput = cells.lastOutput
      /\ ran.pending = cells.pending /\ ran.threw = t
      /\ ran = [value |-> ran.value, lastOutput |-> ran.lastOutput,
                pending |-> ran.pending, threw |-> ran.threw]
      /\ ran \in [value : [Names -> Value], lastOutput : [Computeds -> Value],
                  pending : DistinctSeq(E), threw : SUBSET Computeds]
  BY <1>1, <1>5, <1>6
<1>8. ran = [cells EXCEPT !.threw = IF c \in faulty THEN @ \cup {c} ELSE @ \ {c}]
  BY <1>1, <1>4, <1>5
<1>9. PICK done : done = Recompute(cells, c, ds, faulty)
  OBVIOUS
<1>10. ASSUME next \in {cells.lastOutput[c], cells.value[c]}
       PROVE  Recomputed(done, cells, c, ds, faulty, next)
  <2>1. done = ran
    BY <1>2, <1>8, <1>9, <1>10 DEF Recompute
  <2> QED BY <1>2, <1>4, <1>7, <1>10, <2>1 DEF Recomputed
<1>11. ASSUME next \notin {cells.lastOutput[c], cells.value[c]}
       PROVE  Recomputed(done, cells, c, ds, faulty, next)
  <2>1. done = [ran EXCEPT !.value[c] = next, !.lastOutput[c] = next, !.pending = Notified(@, c)]
    BY <1>2, <1>8, <1>9, <1>11 DEF Recompute
  <2>2. /\ done.value = [cells.value EXCEPT ![c] = next]
        /\ done.lastOutput = [cells.lastOutput EXCEPT ![c] = next]
        /\ done.pending = Notified(cells.pending, c) /\ done.threw = t
        /\ done = [value |-> done.value, lastOutput |-> done.lastOutput,
                   pending |-> done.pending, threw |-> done.threw]
    BY <1>7, <2>1
  <2> QED BY <1>2, <1>4, <1>11, <2>2 DEF Recomputed
<1>12. Recomputed(done, cells, c, ds, faulty, next)
  BY <1>10, <1>11
<1> QED BY <1>3, <1>9, <1>12

LEMMA RecomputeType ==
  ASSUME NEW E, NEW cells \in CellsOf(E), NEW c \in Computeds, NEW ds \in SUBSET Names, NEW faulty,
         Registered(c) => c \in E
  PROVE  Recompute(cells, c, ds, faulty) \in CellsOf(E)
<1>1. CASE ~Registered(c)
  BY <1>1 DEF Recompute
<1>2. CASE Registered(c)
  <2>1. PICK done : done = Recompute(cells, c, ds, faulty)
    OBVIOUS
  <2>2. PICK next \in Value : Recomputed(done, cells, c, ds, faulty, next)
    BY <1>2, <2>1, RecomputeIs
  <2>3. /\ cells.value \in [Names -> Value] /\ cells.lastOutput \in [Computeds -> Value]
        /\ cells.pending \in DistinctSeq(E) /\ cells.threw \in SUBSET Computeds
        /\ \A n \in Names : cells.value[n] # Null => n \in E
    BY DEF CellsOf
  <2>4. done.value \in [Names -> Value] /\ done.lastOutput \in [Computeds -> Value]
    BY <2>2, <2>3 DEF Recomputed
  <2>5. done.pending \in DistinctSeq(E)
    BY <1>2, <2>2, <2>3, NotifiedIs DEF Recomputed
  <2>6. done.threw \in SUBSET Computeds
    BY <2>2, <2>3 DEF Recomputed
  <2>7. \A n \in Names : done.value[n] # Null => n \in E
    BY <1>2, <2>2, <2>3 DEF Recomputed
  <2>8. done = [value |-> done.value, lastOutput |-> done.lastOutput,
                pending |-> done.pending, threw |-> done.threw]
    BY <2>2 DEF Recomputed
  <2>9. done \in [value : [Names -> Value], lastOutput : [Computeds -> Value],
                  pending : DistinctSeq(E), threw : SUBSET Computeds]
    BY <2>4, <2>5, <2>6, <2>8
  <2> QED BY <2>1, <2>7, <2>9 DEF CellsOf
<1> QED BY <1>1, <1>2

\* What every subscriber of a store preserves holds once they are all told.
Tells(f, n, faulty, N) ==
  f = [i \in 0 .. N |->
        IF i = 0 THEN Cells
        ELSE Recompute(f[i - 1], subscribers[n][i], deps[subscribers[n][i]], faulty)]

LEMMA ToldIs ==
  ASSUME NEW n, NEW faulty, NEW S, subscribers[n] \in DistinctSeq(Computeds), Cells \in S,
         \A cells \in S : \A i \in DOMAIN subscribers[n] :
           Recompute(cells, subscribers[n][i], deps[subscribers[n][i]], faulty) \in S
  PROVE  Told(n, faulty) \in S
<1>1. PICK N \in Nat : Len(subscribers[n]) = N /\ DOMAIN subscribers[n] = 1 .. N
  BY DistinctIs
<1>2. \E f : Tells(f, n, faulty, N)
  <2>1. PICK step : step = [i \in 1 .. N |-> [cells \in S |->
                     Recompute(cells, subscribers[n][i], deps[subscribers[n][i]], faulty)]]
    OBVIOUS
  <2>2. step \in [1 .. N -> [S -> S]]
    BY <1>1, <2>1
  <2>3. PICK f \in [0 .. N -> S] : f[0] = Cells /\ \A i \in 1 .. N : f[i] = step[i][f[i - 1]]
    <3>1. PICK f : Iterates(f, N, S, Cells, step)
      BY <2>2, Iterated
    <3> QED BY <3>1 DEF Iterates
  <2>4. ASSUME NEW i \in 1 .. N
        PROVE  f[i] = Recompute(f[i - 1], subscribers[n][i], deps[subscribers[n][i]], faulty)
    <3>1. i - 1 \in 0 .. N /\ f[i - 1] \in S
      BY <1>1, <2>3
    <3>3. step[i][f[i - 1]] = Recompute(f[i - 1], subscribers[n][i], deps[subscribers[n][i]], faulty)
      BY <2>1, <3>1
    <3> QED BY <2>3, <3>3
  <2>5. \A i \in 0 .. N : i # 0 => i \in 1 .. N
    BY <1>1
  <2>6. Tells(f, n, faulty, N)
    BY <2>3, <2>4, <2>5 DEF Tells
  <2> QED BY <2>6
<1>3. PICK f : f = CHOOSE g : Tells(g, n, faulty, N)
  OBVIOUS
<1>4. Tells(f, n, faulty, N)
  BY <1>2, <1>3
<1>5. Told(n, faulty) = f[N]
  BY <1>1, <1>3 DEF Told, Tells
<1>6. f[0] = Cells
  BY <1>1, <1>4 DEF Tells
<1>7. ASSUME NEW i \in 1 .. N, f[i - 1] \in S PROVE f[i] \in S
  <2>1. i \in 0 .. N /\ i # 0
    BY <1>1
  <2>2. f[i] = Recompute(f[i - 1], subscribers[n][i], deps[subscribers[n][i]], faulty)
    BY <1>4, <2>1 DEF Tells
  <2> QED BY <1>1, <1>7, <2>2
<1> DEFINE good == {i \in 0 .. N : f[i] \in S}
<1>8. 0 \in good
  BY <1>1, <1>6
<1>9. \A i \in 1 .. N : i - 1 \in good => i \in good
  BY <1>1, <1>7
<1>10. N \in good
  <2> HIDE DEF good
  <2>1. \A i \in 0 .. N : i \in good
    BY <1>1, <1>8, <1>9, UpTo
  <2> QED BY <1>1, <2>1
<1> QED BY <1>5, <1>10

-----------------------------------------------------------------------------
(***************************************************************************)
(* The graph.  What the stores S depend on is the least set that holds     *)
(* them and what its members depend on.                                    *)
(***************************************************************************)

Closed(d, U) == \A c \in U \cap Computeds : d[c] \subseteq U

Reaches(f) ==
  f = [T \in SUBSET Names |->
        IF UNION {deps[c] : c \in T \cap Computeds} \subseteq T THEN T
        ELSE f[T \cup UNION {deps[c] : c \in T \cap Computeds}]]

Least(d, S, T) ==
  /\ T \in SUBSET Names /\ S \subseteq T /\ Closed(d, T)
  /\ \A U \in SUBSET Names : S \subseteq U /\ Closed(d, U) => T \subseteq U

UpstreamIsLeast == \A S \in SUBSET Names : Least(deps, S, Upstream(S))

LEMMA NamesFinite == IsFiniteSet(Names)
BY ComputedAssumption, FS_Union DEF Names

LEMMA ReachesExists ==
  ASSUME deps \in [Computeds -> SUBSET Names]
  PROVE  \E f : Reaches(f)
<1> DEFINE Inputs(T) == UNION {deps[c] : c \in T \cap Computeds}
           least(T) == {n \in Names : \A U \in SUBSET Names : T \subseteq U /\ Inputs(U) \subseteq U => n \in U}
<1>1. \A T \in SUBSET Names : Inputs(T) \in SUBSET Names
  OBVIOUS
<1>2. \A T, U : T \subseteq U => Inputs(T) \subseteq Inputs(U)
  OBVIOUS
<1> HIDE DEF Inputs
<1>3. ASSUME NEW T \in SUBSET Names, Inputs(T) \subseteq T PROVE least(T) = T
  BY <1>3
<1>4. ASSUME NEW T \in SUBSET Names PROVE least(T) = least(T \cup Inputs(T))
  BY <1>2
<1>5. PICK f : f = [T \in SUBSET Names |-> least(T)]
  OBVIOUS
<1>6. f = [T \in SUBSET Names |-> IF Inputs(T) \subseteq T THEN T ELSE f[T \cup Inputs(T)]]
  <2>1. ASSUME NEW T \in SUBSET Names
        PROVE  least(T) = IF Inputs(T) \subseteq T THEN T ELSE f[T \cup Inputs(T)]
    <3>1. f[T \cup Inputs(T)] = least(T \cup Inputs(T))
      <4>1. T \cup Inputs(T) \in SUBSET Names
        BY <1>1
      <4> HIDE DEF least
      <4> QED BY <1>5, <4>1
    <3> HIDE DEF least
    <3> QED BY <1>3, <1>4, <3>1
  <2> HIDE DEF least
  <2> QED BY <1>5, <2>1
<1>7. Reaches(f)
  BY <1>6 DEF Reaches, Inputs
<1> QED BY <1>7

LEMMA ReachesLeast ==
  ASSUME deps \in [Computeds -> SUBSET Names], NEW f, Reaches(f), NEW S \in SUBSET Names
  PROVE  Least(deps, S, f[S])
<1> DEFINE Inputs(T) == UNION {deps[c] : c \in T \cap Computeds}
           bad == {T \in SUBSET Names : ~Least(deps, T, f[T])}
           left(T) == Cardinality(Names \ T)
           sizes == {left(T) : T \in bad}
<1>1. \A T \in SUBSET Names : Inputs(T) \in SUBSET Names
  OBVIOUS
<1>2. \A T, U : T \subseteq U => Inputs(T) \subseteq Inputs(U)
  OBVIOUS
<1>3. \A U : Closed(deps, U) <=> Inputs(U) \subseteq U
  BY DEF Closed
<1>4. \A T \in SUBSET Names : f[T] = IF Inputs(T) \subseteq T THEN T ELSE f[T \cup Inputs(T)]
  BY DEF Reaches
<1> HIDE DEF Inputs
<1>5. \A T \in SUBSET Names : IsFiniteSet(Names \ T) /\ left(T) \in Nat
  BY NamesFinite, FS_Subset, FS_CardinalityType
<1>6. SUFFICES ASSUME bad # {} PROVE FALSE
  OBVIOUS
<1>7. PICK T \in bad : \A U \in bad : left(T) <= left(U)
  <2>1. sizes \in SUBSET Nat /\ sizes # {}
    BY <1>5, <1>6
  <2>2. PICK n \in sizes : \A m \in sizes : n <= m
    <3> HIDE DEF sizes
    <3> QED BY <2>1, LeastExists
  <2> QED BY <2>2
<1>8. T \in SUBSET Names /\ ~Least(deps, T, f[T])
  BY <1>7
<1>9. ~(Inputs(T) \subseteq T)
  <2> SUFFICES ASSUME Inputs(T) \subseteq T PROVE Least(deps, T, T)
    BY <1>4, <1>8
  <2> QED BY <1>3, <1>8 DEF Least
<1>10. PICK U : U = T \cup Inputs(T)
  OBVIOUS
<1>11. U \in SUBSET Names /\ f[U] = f[T]
  BY <1>1, <1>4, <1>8, <1>9, <1>10
<1>12. ~(left(T) <= left(U))
  <2>1. PICK n \in Inputs(T) : n \notin T
    BY <1>9
  <2>2. Names \ U \subseteq Names \ T /\ Names \ U # Names \ T
    BY <1>1, <1>8, <1>10, <2>1
  <2>3. left(U) < left(T)
    <3>1. IsFiniteSet(Names \ T) /\ left(T) \in Nat /\ left(U) \in Nat
      BY <1>5, <1>8, <1>11
    <3>2. left(U) <= left(T) /\ left(U) # left(T)
      BY <2>2, <3>1, FS_Subset
    <3> QED BY <3>1, <3>2
  <2> QED BY <1>5, <1>8, <1>11, <2>3
<1>13. Least(deps, U, f[U])
  BY <1>7, <1>11, <1>12
<1>14. Least(deps, T, f[T])
  <2>1. \A W \in SUBSET Names : T \subseteq W /\ Closed(deps, W) => U \subseteq W
    BY <1>2, <1>3, <1>10
  <2>2. T \subseteq U
    BY <1>10
  <2> QED BY <1>11, <1>13, <2>1, <2>2 DEF Least
<1> QED BY <1>8, <1>14

LEMMA UpstreamIs == deps \in [Computeds -> SUBSET Names] => UpstreamIsLeast
<1> SUFFICES ASSUME deps \in [Computeds -> SUBSET Names], NEW S \in SUBSET Names
             PROVE  Least(deps, S, Upstream(S))
  BY DEF UpstreamIsLeast
<1>1. PICK f : f = CHOOSE g : Reaches(g)
  OBVIOUS
<1>2. Reaches(f)
  BY <1>1, ReachesExists
<1>3. Upstream(S) = f[S]
  BY <1>1 DEF Upstream, Closure, Reaches
<1> QED BY <1>2, <1>3, ReachesLeast

-----------------------------------------------------------------------------
(***************************************************************************)
(* What a flush delivers after the stores S: computed stores, each once,   *)
(* none of them of S.                                                      *)
(***************************************************************************)

Ready(rest) == {c \in rest : deps[c] \cap rest = {}}
FirstOf(rest) == CHOOSE c \in Ready(rest) : \A d \in Ready(rest) : c <= d

SortStep(rest, S, tail) ==
  IF Ready(rest) = {} THEN <<>>
  ELSE (IF FirstOf(rest) \in S THEN <<>> ELSE <<FirstOf(rest)>>) \o tail

Sorts(f, S) ==
  f = [rest \in SUBSET Computeds |-> SortStep(rest, S, f[rest \ {FirstOf(rest)}])]

LEMMA FirstIs ==
  ASSUME NEW rest \in SUBSET Computeds, Ready(rest) # {}
  PROVE  FirstOf(rest) \in rest
<1>1. Ready(rest) \in SUBSET Nat
  BY ComputedAssumption DEF Ready
<1>2. \E c \in Ready(rest) : \A d \in Ready(rest) : c <= d
  BY <1>1, LeastExists
<1>3. FirstOf(rest) \in Ready(rest)
  BY <1>2 DEF FirstOf
<1> QED BY <1>3 DEF Ready

LEMMA SubsetSize ==
  ASSUME NEW rest \in SUBSET Computeds
  PROVE  /\ Cardinality(rest) \in 0 .. Cardinality(Computeds)
         /\ Cardinality(Computeds) \in Nat
         /\ Cardinality(rest) = 0 <=> rest = {}
         /\ \A c \in rest : Cardinality(rest \ {c}) = Cardinality(rest) - 1
<1>1. IsFiniteSet(Computeds) /\ Cardinality(Computeds) \in Nat
  BY ComputedAssumption, FS_CardinalityType
<1>2. IsFiniteSet(rest) /\ Cardinality(rest) <= Cardinality(Computeds)
  BY <1>1, FS_Subset
<1>3. Cardinality(rest) \in Nat
  BY <1>2, FS_CardinalityType
<1>4. Cardinality(rest) = 0 <=> rest = {}
  BY <1>2, FS_EmptySet
<1>5. \A c \in rest : Cardinality(rest \ {c}) = Cardinality(rest) - 1
  BY <1>2, FS_RemoveElement
<1> QED BY <1>1, <1>2, <1>3, <1>4, <1>5

LEMMA SortsExists ==
  ASSUME NEW S
  PROVE  \E f : Sorts(f, S)
<1> DEFINE Tails == [SUBSET Computeds -> Seq(Computeds)]
<1>1. PICK N \in Nat : N = Cardinality(Computeds)
  BY SubsetSize
<1>2. PICK start : start = [rest \in SUBSET Computeds |-> <<>>]
  OBVIOUS
<1>3. start \in Tails
  BY <1>2
<1>4. PICK step : step = [i \in 1 .. N |-> [g \in Tails |-> [rest \in SUBSET Computeds |->
                            SortStep(rest, S, g[rest \ {FirstOf(rest)}])]]]
  OBVIOUS
<1>5. ASSUME NEW g \in Tails, NEW rest \in SUBSET Computeds
      PROVE  SortStep(rest, S, g[rest \ {FirstOf(rest)}]) \in Seq(Computeds)
  <2>1. PICK t : t = g[rest \ {FirstOf(rest)}]
    OBVIOUS
  <2>2. t \in Seq(Computeds)
    BY <2>1
  <2>3. CASE Ready(rest) = {}
    BY <2>1, <2>3 DEF SortStep
  <2>4. CASE Ready(rest) # {}
    <3>1. PICK h : h = IF FirstOf(rest) \in S THEN <<>> ELSE <<FirstOf(rest)>>
      OBVIOUS
    <3>2. h \in Seq(Computeds)
      BY <2>4, <3>1, FirstIs
    <3>3. h \o t \in Seq(Computeds)
      BY <2>2, <3>2, ConcatProperties
    <3> QED BY <2>1, <2>4, <3>1, <3>3 DEF SortStep
  <2> QED BY <2>3, <2>4
<1> HIDE DEF Tails
<1>6. step \in [1 .. N -> [Tails -> Tails]]
  <2>1. ASSUME NEW g \in Tails
        PROVE  [rest \in SUBSET Computeds |-> SortStep(rest, S, g[rest \ {FirstOf(rest)}])] \in Tails
    BY <1>5 DEF Tails
  <2> QED BY <1>4, <2>1
<1>7. PICK h : Iterates(h, N, Tails, start, step)
  BY <1>3, <1>6, Iterated
<1>8. PICK f : f = [rest \in SUBSET Computeds |-> h[Cardinality(rest)][rest]]
  OBVIOUS
<1>9. ASSUME NEW rest \in SUBSET Computeds
      PROVE  f[rest] = SortStep(rest, S, f[rest \ {FirstOf(rest)}])
  <2>1. PICK k \in 0 .. N : k = Cardinality(rest)
    BY <1>1, SubsetSize
  <2>2. f[rest] = h[k][rest]
    BY <1>8, <2>1
  <2>3. CASE k = 0
    <3>1. Ready(rest) = {}
      BY <2>1, <2>3, SubsetSize DEF Ready
    <3>2. h[0] = start /\ start[rest] = <<>>
      BY <1>2, <1>7 DEF Iterates
    <3>3. f[rest] = <<>>
      BY <2>2, <2>3, <3>2
    <3> QED BY <3>1, <3>3 DEF SortStep
  <2>4. CASE k # 0
    <3>1. k \in 1 .. N /\ k - 1 \in 0 .. N
      BY <2>4
    <3>2. h[k] = step[k][h[k - 1]] /\ h[k - 1] \in Tails
      BY <1>7, <3>1 DEF Iterates
    <3>3. h[k][rest] = SortStep(rest, S, h[k - 1][rest \ {FirstOf(rest)}])
      BY <1>4, <3>1, <3>2
    <3>4. CASE Ready(rest) = {}
      BY <2>2, <3>3, <3>4 DEF SortStep
    <3>5. CASE Ready(rest) # {}
      <4>1. Cardinality(rest \ {FirstOf(rest)}) = k - 1
        BY <2>1, <3>5, FirstIs, SubsetSize
      <4>2. f[rest \ {FirstOf(rest)}] = h[k - 1][rest \ {FirstOf(rest)}]
        BY <1>8, <4>1
      <4> QED BY <2>2, <3>3, <4>2
    <3> QED BY <3>4, <3>5
  <2> QED BY <2>3, <2>4
<1>10. Sorts(f, S)
  BY <1>8, <1>9 DEF Sorts
<1> QED BY <1>10

LEMMA SortedIs ==
  ASSUME NEW S, NEW f, Sorts(f, S), NEW all \in SUBSET Computeds
  PROVE  f[all] \in DistinctSeq(all \ S)
<1> DEFINE good == {k \in Nat : \A rest \in SUBSET Computeds :
                                  Cardinality(rest) = k => f[rest] \in DistinctSeq(rest \ S)}
<1>1. PICK N \in Nat : N = Cardinality(Computeds)
  BY SubsetSize
<1>2. \A rest \in SUBSET Computeds : f[rest] = SortStep(rest, S, f[rest \ {FirstOf(rest)}])
  BY DEF Sorts
<1>3. \A T : <<>> \in DistinctSeq(T) /\ ToSet(<<>>) = {}
  <2>1. \A T : <<>> \in Seq(T) /\ DOMAIN <<>> = {}
    BY EmptySeq
  <2> QED BY <2>1 DEF DistinctSeq, IsInjective, ToSet
<1>4. 0 \in good
  <2>1. ASSUME NEW rest \in SUBSET Computeds, Cardinality(rest) = 0
        PROVE  f[rest] \in DistinctSeq(rest \ S)
    <3>1. Ready(rest) = {}
      BY <2>1, SubsetSize DEF Ready
    <3>2. f[rest] = <<>>
      BY <1>2, <3>1 DEF SortStep
    <3> QED BY <1>3, <3>2
  <2> QED BY <2>1
<1>5. ASSUME NEW k \in 1 .. N, k - 1 \in good PROVE k \in good
  <2> SUFFICES ASSUME NEW rest \in SUBSET Computeds, Cardinality(rest) = k
               PROVE  f[rest] \in DistinctSeq(rest \ S)
    OBVIOUS
  <2>1. CASE Ready(rest) = {}
    <3>1. f[rest] = <<>>
      BY <1>2, <2>1 DEF SortStep
    <3> QED BY <1>3, <3>1
  <2>2. CASE Ready(rest) # {}
    <3>1. PICK c \in rest : c = FirstOf(rest)
      BY <2>2, FirstIs
    <3>2. Cardinality(rest \ {c}) = k - 1
      BY SubsetSize
    <3>3. PICK t : t = f[rest \ {c}]
      OBVIOUS
    <3>4. t \in DistinctSeq((rest \ {c}) \ S)
      BY <1>5, <3>2, <3>3
    <3>5. PICK h : h = IF c \in S THEN <<>> ELSE <<c>>
      OBVIOUS
    <3>6. f[rest] = h \o t
      BY <1>2, <2>2, <3>1, <3>3, <3>5 DEF SortStep
    <3>7. h \in DistinctSeq(rest \ S) /\ ToSet(h) \subseteq {c}
      <4>1. CASE c \in S
        BY <1>3, <3>5, <4>1
      <4>2. CASE c \notin S
        <5>1. h = <<c>> /\ h \in Seq(rest \ S) /\ DOMAIN h = 1 .. 1 /\ h[1] = c
          BY <3>5, <4>2
        <5> QED BY <5>1 DEF DistinctSeq, IsInjective, ToSet
      <4> QED BY <4>1, <4>2
    <3>8. t \in DistinctSeq(rest \ S) /\ ToSet(t) \subseteq rest \ {c}
      <4>1. ToSet(t) \subseteq (rest \ {c}) \ S
        BY <3>4, ContainsIs
      <4>2. (rest \ {c}) \ S \subseteq rest \ S
        OBVIOUS
      <4>3. t \in DistinctSeq(rest \ S)
        BY <3>4, <4>2, WiderDistinct
      <4> QED BY <4>1, <4>3
    <3>9. ToSet(h) \cap ToSet(t) = {}
      BY <3>7, <3>8
    <3>10. h \o t \in DistinctSeq(rest \ S)
      BY <3>7, <3>8, <3>9, JoinedIs
    <3> QED BY <3>6, <3>10
  <2> QED BY <2>1, <2>2
<1>6. Cardinality(all) \in good
  <2> HIDE DEF good
  <2>1. \A k \in 0 .. N : k \in good
    BY <1>4, <1>5, UpTo
  <2> QED BY <1>1, <2>1, SubsetSize
<1> QED BY <1>6

LEMMA TopoOrderIs ==
  ASSUME NEW S
  PROVE  TopoOrder(S) \in DistinctSeq(Computeds \ S)
<1>1. PICK f : f = CHOOSE g : Sorts(g, S)
  OBVIOUS
<1>2. Sorts(f, S)
  BY <1>1, SortsExists
<1>3. TopoOrder(S) = f[Affected(S)]
  BY <1>1 DEF TopoOrder, Sorts, SortStep, FirstOf, Ready
<1>4. Affected(S) \in SUBSET Computeds
  BY DEF Affected, Registered
<1>5. f[Affected(S)] \in DistinctSeq(Affected(S) \ S)
  BY <1>2, <1>4, SortedIs
<1>6. Affected(S) \ S \subseteq Computeds \ S
  BY <1>4
<1> QED BY <1>3, <1>5, <1>6, WiderDistinct

-----------------------------------------------------------------------------
(***************************************************************************)
(* Types.                                                                  *)
(***************************************************************************)

\* No store depends on itself: some closed set holds what it depends on, without it.
NoCycle(d) ==
  \A c \in Computeds : d[c] # {} =>
    \E U \in SUBSET Names : d[c] \subseteq U /\ Closed(d, U) /\ c \notin U

GraphOK ==
  /\ deps \in [Computeds -> SUBSET Names]
  /\ subscribers \in [Names -> DistinctSeq(Computeds)]
  /\ NoCycle(deps)
  /\ \A c \in Computeds : deps[c] # {} => c \in existing
  /\ \A n \in Names : \A c \in ToSet(subscribers[n]) : n \in deps[c]

FlushOK ==
  /\ isFlushing \in BOOLEAN
  /\ order \in DistinctSeq(Names)
  /\ callbacks \in DistinctSeq([name : Computeds, deps : SUBSET Names])
  /\ recomputed \subseteq Computeds

\* NoOrphans, while some dependents of a deleted store have still to be looked at.
Kept ==
  \A c \in Computeds \ doomed :
    Orphaned(c) => \A n \in deps[c] : c \in ToSet(subscribers[n])

ComputedTypeInv ==
  /\ calls \in 0 .. MaxCalls
  /\ existing \subseteq Names
  /\ Cells \in CellsOf(existing)
  /\ GraphOK
  /\ FlushOK
  /\ doomed \subseteq Computeds
  /\ Kept

LEMMA AttachedIs ==
  GraphOK => \A c \in Computeds :
    Attached(c) <=> deps[c] # {} /\ \A n \in deps[c] : c \in ToSet(subscribers[n])
<1> SUFFICES ASSUME GraphOK, NEW c \in Computeds
             PROVE  Attached(c) <=> deps[c] # {} /\ \A n \in deps[c] : c \in ToSet(subscribers[n])
  OBVIOUS
<1>1. ASSUME NEW n \in deps[c] PROVE Contains(subscribers[n], c) <=> c \in ToSet(subscribers[n])
  BY ContainsIs DEF GraphOK
<1> QED BY <1>1 DEF Attached, Registered

\* Nothing a store depends on, directly or not, depends on the store.
LEMMA NoCycleIs ==
  ASSUME GraphOK, NEW c \in Computeds, deps[c] # {}
  PROVE  c \notin Upstream(deps[c]) /\ c \notin deps[c]
<1>1. Least(deps, deps[c], Upstream(deps[c]))
  BY UpstreamIs DEF GraphOK, UpstreamIsLeast
<1> QED BY <1>1 DEF GraphOK, NoCycle, Least

LEMMA CellsType ==
  ASSUME Cells \in CellsOf(existing)
  PROVE  /\ value \in [Names -> Value] /\ lastOutput \in [Computeds -> Value]
         /\ pending \in DistinctSeq(existing) /\ threw \subseteq Computeds
         /\ \A n \in Names : value[n] # Null => n \in existing
BY DEF Cells, CellsOf

LEMMA ComputedTypeHolds == ComputedTypeInv => ComputedTypeOK
<1> SUFFICES ASSUME ComputedTypeInv PROVE ComputedTypeOK
  OBVIOUS
<1>1. \A c \in Computeds : Registered(c) => c \in existing /\ c \notin Upstream(deps[c])
  BY NoCycleIs DEF ComputedTypeInv, GraphOK, Registered
<1>2. NoOrphans
  BY AttachedIs DEF ComputedTypeInv, NoOrphans, Kept, Orphaned, Registered
<1>3. /\ value \in [Names -> Value] /\ lastOutput \in [Computeds -> Value]
      /\ pending \in DistinctSeq(existing) /\ threw \subseteq Computeds
      /\ \A n \in Names : value[n] # Null => n \in existing
  BY CellsType DEF ComputedTypeInv
<1> QED BY <1>1, <1>2, <1>3 DEF ComputedTypeInv, ComputedTypeOK, GraphOK, FlushOK

LEMMA ComputedInitType == ComputedInit => ComputedTypeInv
<1> SUFFICES ASSUME ComputedInit PROVE ComputedTypeInv
  OBVIOUS
<1>1. \A T : <<>> \in DistinctSeq(T) /\ ToSet(<<>>) = {}
  <2>1. \A T : <<>> \in Seq(T) /\ DOMAIN <<>> = {}
    BY EmptySeq
  <2> QED BY <2>1 DEF DistinctSeq, IsInjective, ToSet
<1>2. Cells \in CellsOf(existing)
  <2>1. value \in [Names -> Value] /\ lastOutput \in [Computeds -> Value]
    BY DEF ComputedInit, Value
  <2> QED BY <1>1, <2>1 DEF ComputedInit, Cells, CellsOf
<1>3. GraphOK
  BY <1>1 DEF ComputedInit, GraphOK, NoCycle
<1>4. FlushOK
  BY <1>1 DEF ComputedInit, FlushOK
<1>5. Kept
  BY DEF ComputedInit, Kept, Orphaned, Registered
<1> QED BY <1>2, <1>3, <1>4, <1>5, ComputedAssumption DEF ComputedInit, ComputedTypeInv

\* A computed store torn down, a store deleted: the rest of the graph is as it was.
LEMMA GraphShrinks ==
  ASSUME GraphOK, deps' \in [Computeds -> SUBSET Names],
         subscribers' \in [Names -> DistinctSeq(Computeds)],
         \A c \in Computeds : deps'[c] \in {deps[c], {}},
         \A c \in Computeds : deps'[c] # {} => c \in existing',
         \A n \in Names : \A c \in ToSet(subscribers'[n]) :
           c \in ToSet(subscribers[n]) /\ deps'[c] = deps[c]
  PROVE  GraphOK'
<1>1. NoCycle(deps')
  <2> SUFFICES ASSUME NEW c \in Computeds, deps'[c] # {}
               PROVE  \E U \in SUBSET Names : deps'[c] \subseteq U /\ Closed(deps', U) /\ c \notin U
    BY DEF NoCycle
  <2>1. PICK U \in SUBSET Names : deps[c] \subseteq U /\ Closed(deps, U) /\ c \notin U
    BY DEF GraphOK, NoCycle
  <2>2. Closed(deps', U)
    BY <2>1 DEF Closed
  <2> QED BY <2>1, <2>2
<1> QED BY <1>1 DEF GraphOK

LEMMA UnsubscribedIs ==
  ASSUME GraphOK, NEW c
  PROVE  /\ Unsubscribed(c) \in [Names -> DistinctSeq(Computeds)]
         /\ \A n \in Names : ToSet(Unsubscribed(c)[n]) = ToSet(subscribers[n]) \ {c}
BY RemovedIs DEF GraphOK, Unsubscribed

\* A new computed store does not close a cycle.
LEMMA NewNoCycle ==
  ASSUME GraphOK, NEW c \in Computeds, NEW ds \in SUBSET Names, ~MakesCycle(c, ds),
         deps' = [deps EXCEPT ![c] = ds]
  PROVE  NoCycle(deps') /\ c \notin ds
<1>1. PICK U : U = Upstream(ds)
  OBVIOUS
<1>2. Least(deps, ds, U) /\ c \notin U
  BY <1>1, UpstreamIs DEF GraphOK, UpstreamIsLeast, MakesCycle
<1>3. U \in SUBSET Names /\ ds \subseteq U /\ Closed(deps, U) /\ Closed(deps', U)
  BY <1>2 DEF Least, Closed, GraphOK
<1>4. ASSUME NEW e \in Computeds, deps'[e] # {}
      PROVE  \E W \in SUBSET Names : deps'[e] \subseteq W /\ Closed(deps', W) /\ e \notin W
  <2>1. CASE e = c
    BY <1>2, <1>3, <2>1 DEF GraphOK
  <2>2. CASE e # c
    <3>1. deps'[e] = deps[e]
      BY <2>2 DEF GraphOK
    <3>2. PICK V \in SUBSET Names : deps[e] \subseteq V /\ Closed(deps, V) /\ e \notin V
                                    /\ \A W \in SUBSET Names : deps[e] \subseteq W /\ Closed(deps, W) => V \subseteq W
      <4>1. Least(deps, deps[e], Upstream(deps[e]))
        BY UpstreamIs DEF GraphOK, UpstreamIsLeast
      <4>2. e \notin Upstream(deps[e])
        BY <1>4, <3>1, NoCycleIs
      <4> QED BY <4>1, <4>2 DEF Least
    <3>3. CASE c \notin V
      <4>1. Closed(deps', V)
        BY <3>2, <3>3 DEF Closed, GraphOK
      <4> QED BY <3>1, <3>2, <4>1
    <3>4. CASE c \in V
      <4>1. e \notin U
        <5> SUFFICES ASSUME e \in U PROVE FALSE
          OBVIOUS
        <5>1. deps[e] \subseteq U
          BY <1>3 DEF Closed
        <5>2. V \subseteq U
          BY <1>3, <3>2, <5>1
        <5> QED BY <1>2, <3>4, <5>2
      <4>2. Closed(deps', V \cup U)
        BY <1>3, <3>2 DEF Closed, GraphOK
      <4>3. V \cup U \in SUBSET Names /\ deps'[e] \subseteq V \cup U /\ e \notin V \cup U
        BY <1>3, <3>1, <3>2, <4>1
      <4> QED BY <4>2, <4>3
    <3> QED BY <3>3, <3>4
  <2> QED BY <2>1, <2>2
<1> QED BY <1>2, <1>3, <1>4 DEF NoCycle

LEMMA SetCellsIs ==
  ASSUME NEW E, NEW cells \in CellsOf(E), SetCells(cells)
  PROVE  Cells' = cells
<1>1. cells = [value |-> cells.value, lastOutput |-> cells.lastOutput,
               pending |-> cells.pending, threw |-> cells.threw]
  BY DEF CellsOf
<1> QED BY <1>1 DEF SetCells, Cells

\* Steps that leave the graph alone.
LEMMA QuietType ==
  ASSUME ComputedTypeInv, UNCHANGED <<existing, graphVars, doomed>>, calls' \in 0 .. MaxCalls,
         Cells' \in CellsOf(existing), FlushOK'
  PROVE  ComputedTypeInv'
<1>1. GraphOK'
  BY DEF ComputedTypeInv, GraphOK, graphVars
<1>2. Kept'
  BY DEF ComputedTypeInv, Kept, Orphaned, Registered, graphVars
<1> QED BY <1>1, <1>2 DEF ComputedTypeInv

LEMMA RecomputeAndFlushType ==
  ASSUME ComputedTypeInv, NEW c \in Computeds, NEW ds \in SUBSET Names, RecomputeAndFlush(c, ds)
  PROVE  Cells' \in CellsOf(existing) /\ recomputed' \subseteq Computeds
<1>1. CASE isFlushing /\ c \in recomputed
  BY <1>1 DEF RecomputeAndFlush, Cells, ComputedTypeInv, FlushOK
<1>2. CASE ~(isFlushing /\ c \in recomputed)
  <2>1. PICK faulty \in SUBSET {c} : SetCells(Recompute(Cells, c, ds, faulty))
    BY <1>2 DEF RecomputeAndFlush
  <2>2. PICK done : done = Recompute(Cells, c, ds, faulty)
    OBVIOUS
  <2>3. done \in CellsOf(existing)
    BY <2>2, RecomputeType DEF ComputedTypeInv, GraphOK, Registered
  <2>4. Cells' = done
    BY <2>1, <2>2, <2>3, SetCellsIs
  <2>5. recomputed' \subseteq Computeds
    BY <1>2 DEF RecomputeAndFlush, ComputedTypeInv, FlushOK
  <2> QED BY <2>3, <2>4, <2>5
<1> QED BY <1>1, <1>2

LEMMA StartFlushType == ComputedTypeInv /\ StartFlush => ComputedTypeInv'
<1> SUFFICES ASSUME ComputedTypeInv, StartFlush PROVE ComputedTypeInv'
  OBVIOUS
<1>1. pending \in DistinctSeq(existing) /\ existing \subseteq Names
  BY CellsType DEF ComputedTypeInv
<1>2. PICK t : t = TopoOrder(ToSet(pending))
  OBVIOUS
<1>3. t \in DistinctSeq(Computeds \ ToSet(pending))
  BY <1>2, TopoOrderIs
<1>4. t \in DistinctSeq(Names) /\ pending \in DistinctSeq(Names) /\ ToSet(pending) \cap ToSet(t) = {}
  <2>1. ToSet(t) \subseteq Computeds \ ToSet(pending)
    BY <1>3, ContainsIs
  <2>2. Computeds \ ToSet(pending) \subseteq Names
    BY DEF Names
  <2>3. t \in DistinctSeq(Names)
    BY <1>3, <2>2, WiderDistinct
  <2>4. pending \in DistinctSeq(Names)
    BY <1>1, WiderDistinct
  <2> QED BY <2>1, <2>3, <2>4
<1>5. order' \in DistinctSeq(Names)
  BY <1>2, <1>4, JoinedIs DEF StartFlush
<1>6. FlushOK'
  BY <1>5 DEF StartFlush, FlushOK, ComputedTypeInv
<1>7. Cells' \in CellsOf(existing)
  <2>1. <<>> \in DistinctSeq(existing)
    <3>1. <<>> \in Seq(existing) /\ DOMAIN <<>> = {}
      BY EmptySeq
    <3> QED BY <3>1 DEF DistinctSeq, IsInjective
  <2> QED BY <2>1, CellsType DEF StartFlush, ComputedTypeInv, Cells, CellsOf, cellVars
<1> QED BY <1>6, <1>7, QuietType DEF StartFlush, ComputedTypeInv, cellVars

\* The callbacks for a store: its subscribers, each once, with what they depend on now.
LEMMA CallbacksAre ==
  ASSUME GraphOK, NEW n \in Names,
         callbacks' = [i \in DOMAIN subscribers[n] |->
                        LET c == subscribers[n][i] IN [name |-> c, deps |-> deps[c]]]
  PROVE  /\ callbacks' \in DistinctSeq([name : Computeds, deps : SUBSET Names])
         /\ ToSet(callbacks') = {[name |-> c, deps |-> deps[c]] : c \in ToSet(subscribers[n])}
<1>1. PICK q : q = subscribers[n]
  OBVIOUS
<1>2. q \in DistinctSeq(Computeds) /\ deps \in [Computeds -> SUBSET Names]
  BY <1>1 DEF GraphOK
<1>3. PICK N \in Nat : /\ DOMAIN q = 1 .. N /\ ToSet(q) = {q[i] : i \in 1 .. N}
                       /\ \A i \in 1 .. N : q[i] \in Computeds
                       /\ \A i, j \in 1 .. N : q[i] = q[j] => i = j
  BY <1>2, DistinctIs
<1>4. PICK m : m = callbacks'
  OBVIOUS
<1>5. m = [i \in 1 .. N |-> [name |-> q[i], deps |-> deps[q[i]]]]
  BY <1>1, <1>3, <1>4
<1>6. \A i \in 1 .. N : m[i] = [name |-> q[i], deps |-> deps[q[i]]] /\ m[i].name = q[i]
                        /\ m[i] \in [name : Computeds, deps : SUBSET Names]
  BY <1>2, <1>3, <1>5
<1>7. m = [i \in 1 .. N |-> m[i]] /\ \A i, j \in 1 .. N : m[i] = m[j] => i = j
  BY <1>3, <1>5, <1>6
<1>8. m \in DistinctSeq([name : Computeds, deps : SUBSET Names]) /\ ToSet(m) = {m[i] : i \in 1 .. N}
  <2>1. PICK R : R = [name : Computeds, deps : SUBSET Names]
    OBVIOUS
  <2>2. \A i \in 1 .. N : m[i] \in R
    BY <1>6, <2>1
  <2>3. m \in DistinctSeq(R) /\ ToSet(m) = {m[i] : i \in 1 .. N}
    BY ONLY <1>7, <2>2, N \in Nat, IsDistinct
  <2> QED BY <2>1, <2>3
<1>9. {m[i] : i \in 1 .. N} = {[name |-> c, deps |-> deps[c]] : c \in ToSet(q)}
  <2> DEFINE called(c) == [name |-> c, deps |-> deps[c]]
  <2>1. \A i \in 1 .. N : m[i] = called(q[i])
    BY <1>6
  <2> HIDE DEF called
  <2>2. {m[i] : i \in 1 .. N} = {called(c) : c \in ToSet(q)}
    BY <1>3, <2>1
  <2> QED BY <2>2 DEF called
<1> QED BY <1>1, <1>4, <1>8, <1>9

LEMMA TakeNameType == ComputedTypeInv /\ TakeName => ComputedTypeInv'
<1> SUFFICES ASSUME ComputedTypeInv, TakeName PROVE ComputedTypeInv'
  OBVIOUS
<1>1. order \in DistinctSeq(Names) /\ order # <<>> /\ GraphOK
  BY DEF ComputedTypeInv, FlushOK, TakeName
<1>2. Head(order) \in Names /\ Tail(order) \in DistinctSeq(Names)
  BY <1>1, TailIs
<1>3. callbacks' \in DistinctSeq([name : Computeds, deps : SUBSET Names])
  BY <1>1, <1>2, CallbacksAre DEF TakeName
<1>4. FlushOK'
  BY <1>2, <1>3 DEF TakeName, FlushOK, ComputedTypeInv
<1>5. Cells' \in CellsOf(existing)
  BY DEF TakeName, ComputedTypeInv, Cells, cellVars
<1> QED BY <1>4, <1>5, QuietType DEF TakeName, ComputedTypeInv, cellVars

LEMMA RunCallbackType == ComputedTypeInv /\ RunCallback => ComputedTypeInv'
<1> SUFFICES ASSUME ComputedTypeInv, RunCallback PROVE ComputedTypeInv'
  OBVIOUS
<1>1. callbacks \in DistinctSeq([name : Computeds, deps : SUBSET Names]) /\ callbacks # <<>>
  BY DEF ComputedTypeInv, FlushOK, RunCallback
<1>2. /\ Head(callbacks) \in [name : Computeds, deps : SUBSET Names]
      /\ Tail(callbacks) \in DistinctSeq([name : Computeds, deps : SUBSET Names])
  BY <1>1, TailIs
<1>3. Cells' \in CellsOf(existing) /\ recomputed' \subseteq Computeds
  BY <1>2, RecomputeAndFlushType DEF RunCallback
<1>4. FlushOK'
  BY <1>2, <1>3 DEF RunCallback, FlushOK, ComputedTypeInv
<1> QED BY <1>3, <1>4, QuietType DEF RunCallback, ComputedTypeInv

LEMMA FinishFlushType == ComputedTypeInv /\ FinishFlush => ComputedTypeInv'
<1> SUFFICES ASSUME ComputedTypeInv, FinishFlush PROVE ComputedTypeInv'
  OBVIOUS
<1>1. FlushOK'
  BY DEF FinishFlush, FlushOK, ComputedTypeInv
<1>2. Cells' \in CellsOf(existing)
  BY DEF FinishFlush, ComputedTypeInv, Cells, cellVars
<1> QED BY <1>1, <1>2, QuietType DEF FinishFlush, ComputedTypeInv, cellVars

LEMMA CallType ==
  ASSUME ComputedTypeInv, Call
  PROVE  calls' \in 0 .. MaxCalls /\ doomed = {}
BY ComputedAssumption DEF ComputedTypeInv, Call

LEMMA WriteType == ComputedTypeInv /\ (\E n \in Names : Write(n)) => ComputedTypeInv'
<1> SUFFICES ASSUME ComputedTypeInv, NEW n \in Names, Write(n) PROVE ComputedTypeInv'
  OBVIOUS
<1>1. /\ value \in [Names -> Value] /\ lastOutput \in [Computeds -> Value]
      /\ pending \in DistinctSeq(existing) /\ threw \subseteq Computeds
      /\ \A m \in Names : value[m] # Null => m \in existing
  BY CellsType DEF ComputedTypeInv
<1>2. PICK v \in Values : value' = [value EXCEPT ![n] = v]
  BY DEF Write
<1>3. pending' \in DistinctSeq(existing)
  BY <1>1, NotifiedIs DEF Write
<1>4. value' \in [Names -> Value] /\ \A m \in Names : value'[m] # Null => m \in existing
  BY <1>1, <1>2 DEF Write, Value
<1>5. Cells' \in CellsOf(existing)
  BY <1>1, <1>3, <1>4 DEF Write, Cells, CellsOf
<1>6. FlushOK'
  BY DEF Write, flushVars, FlushOK, ComputedTypeInv
<1>7. calls' \in 0 .. MaxCalls
  BY CallType DEF Write
<1> QED BY <1>5, <1>6, <1>7, QuietType DEF Write

LEMMA InvalidateType == ComputedTypeInv /\ (\E c \in Computeds : InvalidateComputed(c)) => ComputedTypeInv'
<1> SUFFICES ASSUME ComputedTypeInv, NEW c \in Computeds, InvalidateComputed(c) PROVE ComputedTypeInv'
  OBVIOUS
<1>1. calls' \in 0 .. MaxCalls
  BY CallType DEF InvalidateComputed
<1>2. deps[c] \in SUBSET Names /\ Registered(c) /\ c \in existing
  BY DEF InvalidateComputed, ComputedTypeInv, GraphOK, Registered
<1>3. PICK fails \in {FALSE, RolledBack} :
       IF fails
       THEN /\ ~isFlushing
            /\ \E n \in {d \in deps[c] : value[d] # Null} : \E v \in Values \ {value[n]} :
                 LET staged == [Cells EXCEPT !.value[n] = v]
                 IN  lastOutput' = Recompute(staged, c, deps[c], {}).lastOutput
            /\ UNCHANGED <<value, pending, threw, recomputed>>
       ELSE RecomputeAndFlush(c, deps[c])
  BY DEF InvalidateComputed
<1>4. ASSUME fails PROVE Cells' \in CellsOf(existing) /\ recomputed' \subseteq Computeds
  <2>1. PICK n \in deps[c], v \in Values : value[n] # Null /\
          lastOutput' = Recompute([Cells EXCEPT !.value[n] = v], c, deps[c], {}).lastOutput
    BY <1>3, <1>4
  <2>2. PICK staged : staged = [Cells EXCEPT !.value[n] = v]
    OBVIOUS
  <2>3. /\ value \in [Names -> Value] /\ lastOutput \in [Computeds -> Value]
        /\ pending \in DistinctSeq(existing) /\ threw \subseteq Computeds
        /\ \A m \in Names : value[m] # Null => m \in existing
    BY CellsType DEF ComputedTypeInv
  <2>4. staged = [value |-> [value EXCEPT ![n] = v], lastOutput |-> lastOutput,
                  pending |-> pending, threw |-> threw]
    BY <2>2 DEF Cells
  <2>5. [value EXCEPT ![n] = v] \in [Names -> Value]
        /\ \A m \in Names : [value EXCEPT ![n] = v][m] # Null => m \in existing
    BY <1>2, <2>1, <2>3 DEF Value
  <2>6. staged \in CellsOf(existing)
    BY <2>3, <2>4, <2>5 DEF CellsOf
  <2>7. PICK done : done = Recompute(staged, c, deps[c], {})
    OBVIOUS
  <2>8. done \in CellsOf(existing)
    BY <1>2, <2>6, <2>7, RecomputeType
  <2>9. lastOutput' \in [Computeds -> Value]
    BY <2>1, <2>2, <2>7, <2>8 DEF CellsOf
  <2> QED BY <1>3, <1>4, <2>3, <2>9 DEF Cells, CellsOf, ComputedTypeInv, FlushOK
<1>5. ASSUME ~fails PROVE Cells' \in CellsOf(existing) /\ recomputed' \subseteq Computeds
  BY <1>2, <1>3, <1>5, RecomputeAndFlushType
<1>6. Cells' \in CellsOf(existing) /\ recomputed' \subseteq Computeds
  BY <1>4, <1>5
<1>7. FlushOK'
  BY <1>6 DEF InvalidateComputed, FlushOK, ComputedTypeInv
<1> QED BY <1>1, <1>6, <1>7, QuietType DEF InvalidateComputed

LEMMA CreateType == ComputedTypeInv /\ (\E n \in Leaves : Create(n)) => ComputedTypeInv'
<1> SUFFICES ASSUME ComputedTypeInv, NEW n \in Leaves, Create(n) PROVE ComputedTypeInv'
  OBVIOUS
<1>1. calls' \in 0 .. MaxCalls
  BY CallType DEF Create
<1>2. n \in Names /\ existing' \subseteq Names /\ existing \subseteq existing' /\ n \in existing'
  BY DEF Create, ComputedTypeInv, Names
<1>3. /\ value \in [Names -> Value] /\ lastOutput \in [Computeds -> Value]
      /\ pending \in DistinctSeq(existing) /\ threw \subseteq Computeds
      /\ \A m \in Names : value[m] # Null => m \in existing
  BY CellsType DEF ComputedTypeInv
<1>4. PICK v \in Values : value' = [value EXCEPT ![n] = v]
  BY DEF Create
<1>5. pending \in DistinctSeq(existing')
  BY <1>2, <1>3, WiderDistinct
<1>6. pending' \in DistinctSeq(existing')
  BY <1>2, <1>5, NotifiedIs DEF Create
<1>7. value' \in [Names -> Value] /\ \A m \in Names : value'[m] # Null => m \in existing'
  BY <1>2, <1>3, <1>4 DEF Value
<1>8. (Cells \in CellsOf(existing))'
  BY <1>3, <1>6, <1>7 DEF Create, Cells, CellsOf
<1>9. GraphOK'
  BY <1>2 DEF Create, ComputedTypeInv, GraphOK, graphVars
<1>10. FlushOK'
  BY DEF Create, flushVars, FlushOK, ComputedTypeInv
<1>11. Kept'
  BY <1>2 DEF Create, ComputedTypeInv, Kept, Orphaned, Registered, graphVars
<1> QED BY <1>1, <1>2, <1>8, <1>9, <1>10, <1>11 DEF Create, ComputedTypeInv

LEMMA DeleteComputedType ==
  ComputedTypeInv /\ (\E c \in Computeds : DeleteComputed(c)) => ComputedTypeInv'
<1> SUFFICES ASSUME ComputedTypeInv, NEW c \in Computeds, DeleteComputed(c) PROVE ComputedTypeInv'
  OBVIOUS
<1>1. calls' \in 0 .. MaxCalls
  BY CallType DEF DeleteComputed
<1>2. (Cells \in CellsOf(existing))'
  BY DEF DeleteComputed, cellVars, ComputedTypeInv, Cells
<1>3. /\ subscribers' \in [Names -> DistinctSeq(Computeds)]
      /\ \A n \in Names : ToSet(subscribers'[n]) = ToSet(subscribers[n]) \ {c}
  BY UnsubscribedIs DEF DeleteComputed, ComputedTypeInv
<1>4. /\ deps' \in [Computeds -> SUBSET Names]
      /\ deps'[c] = {} /\ \A e \in Computeds \ {c} : deps'[e] = deps[e]
  BY DEF DeleteComputed, Unregistered, ComputedTypeInv, GraphOK
<1>5. \A n \in Names : ToSet(subscribers[n]) \subseteq Computeds
  BY ContainsIs DEF ComputedTypeInv, GraphOK
<1>6. GraphOK'
  BY <1>3, <1>4, <1>5, GraphShrinks DEF DeleteComputed, cellVars, ComputedTypeInv, GraphOK
<1>7. Kept'
  BY <1>3, <1>4 DEF DeleteComputed, cellVars, ComputedTypeInv, GraphOK, Kept, Orphaned, Registered
<1>8. FlushOK'
  BY DEF DeleteComputed, flushVars, FlushOK, ComputedTypeInv
<1> QED BY <1>1, <1>2, <1>6, <1>7, <1>8 DEF DeleteComputed, cellVars, ComputedTypeInv

\* The graph once c is created with the dependencies ds.
LEMMA CreatedGraph ==
  ASSUME GraphOK, NEW c \in Computeds, NEW ds \in SUBSET Names, ~MakesCycle(c, ds),
         deps' = [deps EXCEPT ![c] = ds],
         subscribers' = [n \in Names |->
           IF n \in ds THEN Append(Unsubscribed(c)[n], c) ELSE Unsubscribed(c)[n]],
         existing' = existing \cup {c}
  PROVE  /\ GraphOK'
         /\ \A n \in Names : ToSet(subscribers'[n]) = IF n \in ds THEN ToSet(subscribers[n]) \cup {c}
                                                      ELSE ToSet(subscribers[n]) \ {c}
<1>1. /\ Unsubscribed(c) \in [Names -> DistinctSeq(Computeds)]
      /\ \A n \in Names : ToSet(Unsubscribed(c)[n]) = ToSet(subscribers[n]) \ {c}
  BY UnsubscribedIs
<1>2. ASSUME NEW n \in Names
      PROVE  /\ Append(Unsubscribed(c)[n], c) \in DistinctSeq(Computeds)
             /\ ToSet(Append(Unsubscribed(c)[n], c)) = ToSet(subscribers[n]) \cup {c}
  <2>1. PICK q : q = Unsubscribed(c)[n]
    OBVIOUS
  <2>2. q \in DistinctSeq(Computeds) /\ ToSet(q) = ToSet(subscribers[n]) \ {c}
    BY <1>1, <2>1
  <2>3. ~Contains(q, c)
    BY <2>2, ContainsIs
  <2>4. Append(q, c) = Notified(q, c)
    BY <2>3 DEF Notified
  <2>5. Notified(q, c) \in DistinctSeq(Computeds) /\ ToSet(Notified(q, c)) = ToSet(q) \cup {c}
    BY <2>2, NotifiedIs
  <2> QED BY <2>1, <2>2, <2>4, <2>5
<1>3. subscribers' \in [Names -> DistinctSeq(Computeds)]
  BY <1>1, <1>2
<1>4. \A n \in Names : ToSet(subscribers'[n]) = IF n \in ds THEN ToSet(subscribers[n]) \cup {c}
                                                ELSE ToSet(subscribers[n]) \ {c}
  BY <1>1, <1>2
<1>5. deps' \in [Computeds -> SUBSET Names] /\ NoCycle(deps')
  BY NewNoCycle DEF GraphOK
<1>6. \A e \in Computeds : deps'[e] # {} => e \in existing'
  BY DEF GraphOK
<1>7. \A n \in Names : ToSet(subscribers[n]) \subseteq Computeds
  BY ContainsIs DEF GraphOK
<1>8. \A n \in Names : \A e \in ToSet(subscribers'[n]) : n \in deps'[e]
  BY <1>4, <1>7 DEF GraphOK
<1> QED BY <1>3, <1>4, <1>5, <1>6, <1>8 DEF GraphOK

LEMMA CreateComputedType ==
  ComputedTypeInv /\ (\E c \in Computeds, ds \in Definitions : CreateComputed(c, ds)) => ComputedTypeInv'
<1> SUFFICES ASSUME ComputedTypeInv, NEW c \in Computeds, NEW ds \in Definitions, CreateComputed(c, ds)
             PROVE  ComputedTypeInv'
  OBVIOUS
<1>1. calls' \in 0 .. MaxCalls /\ doomed = {} /\ ds \in SUBSET Names /\ ds # {} /\ c \in Names
  BY CallType, ComputedAssumption DEF CreateComputed, Names
<1>2. FlushOK'
  BY DEF CreateComputed, flushVars, FlushOK, ComputedTypeInv
<1>3. ASSUME Registered(c), subscribers' = Unsubscribed(c), deps' = Unregistered(c),
             UNCHANGED <<cellVars, lastOutput, pending, threw>>
      PROVE  ComputedTypeInv'
  <2>1. (Cells \in CellsOf(existing))'
    BY <1>3 DEF cellVars, ComputedTypeInv, Cells
  <2>2. /\ subscribers' \in [Names -> DistinctSeq(Computeds)]
        /\ \A n \in Names : ToSet(subscribers'[n]) = ToSet(subscribers[n]) \ {c}
    BY <1>3, UnsubscribedIs DEF ComputedTypeInv
  <2>3. /\ deps' \in [Computeds -> SUBSET Names]
        /\ deps'[c] = {} /\ \A e \in Computeds \ {c} : deps'[e] = deps[e]
    BY <1>3 DEF Unregistered, ComputedTypeInv, GraphOK
  <2>4. \A n \in Names : ToSet(subscribers[n]) \subseteq Computeds
    BY ContainsIs DEF ComputedTypeInv, GraphOK
  <2>5. GraphOK'
    BY <1>3, <2>2, <2>3, <2>4, GraphShrinks DEF cellVars, ComputedTypeInv, GraphOK
  <2>6. Kept'
    BY <1>3, <2>2, <2>3 DEF CreateComputed, cellVars, ComputedTypeInv, GraphOK, Kept, Orphaned, Registered
  <2> QED BY <1>1, <1>2, <1>3, <2>1, <2>5, <2>6 DEF CreateComputed, cellVars, ComputedTypeInv
<1>4. ASSUME ~MakesCycle(c, ds), deps' = [deps EXCEPT ![c] = ds],
             subscribers' = [n \in Names |->
               IF n \in ds THEN Append(Unsubscribed(c)[n], c) ELSE Unsubscribed(c)[n]],
             NEW faulty \in SUBSET {c}, NEW initial, initial = RunCompute(c, ds, value, faulty),
             value' = [value EXCEPT ![c] = initial],
             lastOutput' = [lastOutput EXCEPT ![c] = initial],
             threw' = IF c \in faulty THEN threw \cup {c} ELSE threw \ {c},
             existing' = existing \cup {c},
             pending' = IF c \in existing \/ subscribers[c] # <<>> THEN Notified(pending, c) ELSE pending
      PROVE  ComputedTypeInv'
  <2>1. /\ GraphOK'
        /\ \A n \in Names : ToSet(subscribers'[n]) = IF n \in ds THEN ToSet(subscribers[n]) \cup {c}
                                                     ELSE ToSet(subscribers[n]) \ {c}
    BY <1>1, <1>4, CreatedGraph DEF ComputedTypeInv
  <2>2. /\ value \in [Names -> Value] /\ lastOutput \in [Computeds -> Value]
        /\ pending \in DistinctSeq(existing) /\ threw \subseteq Computeds
        /\ \A m \in Names : value[m] # Null => m \in existing
    BY CellsType DEF ComputedTypeInv
  <2>3. initial \in Value
    BY <1>1, <1>4, <2>2, RunComputeType
  <2>4. value' \in [Names -> Value] /\ lastOutput' \in [Computeds -> Value] /\ threw' \subseteq Computeds
    BY <1>4, <2>2, <2>3
  <2>5. \A m \in Names : value'[m] # Null => m \in existing'
    BY <1>1, <1>4, <2>2
  <2>6. pending \in DistinctSeq(existing') /\ c \in existing'
    BY <1>4, <2>2, WiderDistinct
  <2>7. pending' \in DistinctSeq(existing')
    BY <1>4, <2>6, NotifiedIs
  <2>8. (Cells \in CellsOf(existing))'
    BY <2>4, <2>5, <2>7 DEF Cells, CellsOf
  <2>9. Kept'
    <3> SUFFICES ASSUME NEW e \in Computeds, (e \in AutoDispose /\ deps[e] # {} /\ deps[e] \cap existing = {})'
                 PROVE  \A n \in deps'[e] : e \in ToSet(subscribers'[n])
      BY DEF Kept, Orphaned, Registered
    <3>1. CASE e = c
      <4>1. deps'[e] = ds
        BY <1>4, <3>1 DEF ComputedTypeInv, GraphOK
      <4> QED BY <1>1, <2>1, <3>1, <4>1
    <3>2. CASE e # c
      <4>1. deps'[e] = deps[e] /\ deps[e] \cap existing = {} /\ deps[e] \subseteq Names
        BY <1>4, <3>2 DEF ComputedTypeInv, GraphOK
      <4>2. \A n \in deps[e] : e \in ToSet(subscribers[n])
        BY <1>1, <4>1 DEF ComputedTypeInv, Kept, Orphaned, Registered
      <4> QED BY <2>1, <3>2, <4>1, <4>2
    <3> QED BY <3>1, <3>2
  <2> QED BY <1>1, <1>2, <1>4, <2>1, <2>8, <2>9 DEF CreateComputed, ComputedTypeInv
<1> QED BY <1>3, <1>4 DEF CreateComputed

\* The subscribers of a store are told of its end.
LEMMA ToldType ==
  ASSUME ComputedTypeInv, NEW n \in Names, NEW faulty
  PROVE  Told(n, faulty) \in CellsOf(existing)
<1>1. subscribers[n] \in DistinctSeq(Computeds) /\ Cells \in CellsOf(existing)
  BY DEF ComputedTypeInv, GraphOK
<1>2. \A i \in DOMAIN subscribers[n] : subscribers[n][i] \in Computeds
  BY <1>1, DistinctIs
<1>3. ASSUME NEW cells \in CellsOf(existing), NEW i \in DOMAIN subscribers[n]
      PROVE  Recompute(cells, subscribers[n][i], deps[subscribers[n][i]], faulty) \in CellsOf(existing)
  BY <1>2, RecomputeType DEF ComputedTypeInv, GraphOK, Registered
<1> QED BY <1>1, <1>3, ToldIs

LEMMA GoneType ==
  ASSUME NEW E, NEW cells \in CellsOf(E), NEW n \in Names
  PROVE  /\ Gone(cells, n) \in CellsOf(E \ {n})
         /\ Gone(cells, n).value = [cells.value EXCEPT ![n] = Null]
         /\ ToSet(Gone(cells, n).pending) = ToSet(cells.pending) \ {n}
         /\ Gone(cells, n).lastOutput = cells.lastOutput /\ Gone(cells, n).threw = cells.threw
<1>1. /\ cells \in [value : [Names -> Value], lastOutput : [Computeds -> Value],
                    pending : DistinctSeq(E), threw : SUBSET Computeds]
      /\ \A m \in Names : cells.value[m] # Null => m \in E
  BY DEF CellsOf
<1>2. PICK v : v = [cells.value EXCEPT ![n] = Null]
  OBVIOUS
<1>3. PICK p : p = RemoveFirst(cells.pending, n)
  OBVIOUS
<1>4. PICK g : g = Gone(cells, n)
  OBVIOUS
<1>5. g = [value |-> v, lastOutput |-> cells.lastOutput, pending |-> p, threw |-> cells.threw]
  BY <1>1, <1>2, <1>3, <1>4 DEF Gone
<1>6. v \in [Names -> Value] /\ \A m \in Names : v[m] # Null => m \in E \ {n}
  BY <1>1, <1>2 DEF Value
<1>7. p \in DistinctSeq(E) /\ ToSet(p) = ToSet(cells.pending) \ {n} /\ ToSet(p) \subseteq E
  BY <1>1, <1>3, RemovedIs, ContainsIs
<1>8. p \in DistinctSeq(E \ {n})
  BY <1>7, NarrowerDistinct
<1>9. g \in CellsOf(E \ {n})
  BY <1>1, <1>5, <1>6, <1>8 DEF CellsOf
<1> QED BY <1>2, <1>4, <1>5, <1>7, <1>9

\* The graph once a store is gone: nobody is subscribed to it, nor it to others.
LEMMA DeletedGraph ==
  ASSUME ComputedTypeInv, NEW n \in Names, DeleteExistingStore(n)
  PROVE  /\ GraphOK'
         /\ \A c \in Computeds : deps'[c] = IF c = n THEN {} ELSE deps[c]
         /\ \A m \in Names : ToSet(subscribers'[m]) = IF m = n THEN {} ELSE ToSet(subscribers[m]) \ {n}
<1>1. /\ Unsubscribed(n) \in [Names -> DistinctSeq(Computeds)]
      /\ \A m \in Names : ToSet(Unsubscribed(n)[m]) = ToSet(subscribers[m]) \ {n}
  BY UnsubscribedIs DEF ComputedTypeInv
<1>2. \A m \in Names : ToSet(subscribers[m]) \subseteq Computeds
  BY ContainsIs DEF ComputedTypeInv, GraphOK
<1>3. PICK s : s = IF n \in Computeds THEN Unsubscribed(n) ELSE subscribers
  OBVIOUS
<1>4. /\ s \in [Names -> DistinctSeq(Computeds)]
      /\ \A m \in Names : ToSet(s[m]) = ToSet(subscribers[m]) \ {n}
  BY <1>1, <1>2, <1>3 DEF ComputedTypeInv, GraphOK
<1>5. subscribers' = [s EXCEPT ![n] = <<>>]
  BY <1>3 DEF DeleteExistingStore
<1>6. <<>> \in DistinctSeq(Computeds) /\ ToSet(<<>>) = {}
  <2>1. <<>> \in Seq(Computeds) /\ DOMAIN <<>> = {}
    BY EmptySeq
  <2> QED BY <2>1 DEF DistinctSeq, IsInjective, ToSet
<1>7. /\ subscribers' \in [Names -> DistinctSeq(Computeds)]
      /\ \A m \in Names : ToSet(subscribers'[m]) = IF m = n THEN {} ELSE ToSet(subscribers[m]) \ {n}
  BY <1>4, <1>5, <1>6
<1>8. /\ deps' \in [Computeds -> SUBSET Names]
      /\ \A c \in Computeds : deps'[c] = IF c = n THEN {} ELSE deps[c]
  BY DEF DeleteExistingStore, Unregistered, ComputedTypeInv, GraphOK
<1>9. \A c \in Computeds : deps'[c] # {} => c \in existing'
  BY <1>8 DEF DeleteExistingStore, ComputedTypeInv, GraphOK
<1>10. GraphOK'
  BY <1>2, <1>7, <1>8, <1>9, GraphShrinks DEF ComputedTypeInv
<1> QED BY <1>7, <1>8, <1>10

LEMMA DeletionType ==
  ASSUME ComputedTypeInv, NEW n \in Names, DeleteExistingStore(n), calls' \in 0 .. MaxCalls
  PROVE  ComputedTypeInv'
<1>1. PICK faulty \in SUBSET ToSet(subscribers[n]) : SetCells(Gone(Told(n, faulty), n))
  BY DEF DeleteExistingStore
<1>2. PICK gone : gone = Gone(Told(n, faulty), n)
  OBVIOUS
<1>3. gone \in CellsOf(existing \ {n})
  BY <1>2, ToldType, GoneType
<1>4. Cells' = gone
  BY <1>1, <1>2, <1>3, SetCellsIs
<1>5. (Cells \in CellsOf(existing))'
  BY <1>3, <1>4 DEF DeleteExistingStore
<1>6. /\ GraphOK'
      /\ \A c \in Computeds : deps'[c] = IF c = n THEN {} ELSE deps[c]
      /\ \A m \in Names : ToSet(subscribers'[m]) = IF m = n THEN {} ELSE ToSet(subscribers[m]) \ {n}
  BY DeletedGraph
<1>7. existing' = existing \ {n} /\ existing' \subseteq Names
  BY DEF DeleteExistingStore, ComputedTypeInv
<1>8. doomed' = (doomed \ {n}) \cup Dependents({n}) /\ doomed' \subseteq Computeds
  BY DEF DeleteExistingStore, Dependents, ComputedTypeInv
<1>9. FlushOK'
  BY DEF DeleteExistingStore, flushVars, FlushOK, ComputedTypeInv
<1>10. Kept'
  <2> SUFFICES ASSUME NEW e \in Computeds, e \notin doomed',
                      (e \in AutoDispose /\ deps[e] # {} /\ deps[e] \cap existing = {})'
               PROVE  \A m \in deps'[e] : e \in ToSet(subscribers'[m])
    BY DEF Kept, Orphaned, Registered
  <2>1. e # n /\ deps'[e] = deps[e] /\ e \notin doomed /\ n \notin deps[e]
    BY <1>6, <1>8 DEF Dependents
  <2>2. deps[e] \cap existing = {} /\ deps[e] \subseteq Names
    BY <1>7, <2>1 DEF ComputedTypeInv, GraphOK
  <2>3. \A m \in deps[e] : e \in ToSet(subscribers[m])
    BY <2>1, <2>2 DEF ComputedTypeInv, Kept, Orphaned, Registered
  <2> QED BY <1>6, <2>1, <2>2, <2>3
<1> QED BY <1>5, <1>6, <1>7, <1>8, <1>9, <1>10 DEF ComputedTypeInv

LEMMA ComputedDeleteType == ComputedTypeInv /\ (\E n \in Names : Delete(n)) => ComputedTypeInv'
BY CallType, DeletionType DEF Delete

LEMMA DisposeType == ComputedTypeInv /\ (\E c \in Computeds : Dispose(c)) => ComputedTypeInv'
BY DeletionType DEF Dispose, Names, ComputedTypeInv

LEMMA KeepType == ComputedTypeInv /\ (\E c \in Computeds : Keep(c)) => ComputedTypeInv'
<1> SUFFICES ASSUME ComputedTypeInv, NEW c \in Computeds, Keep(c) PROVE ComputedTypeInv'
  OBVIOUS
<1>1. (Cells \in CellsOf(existing))'
  BY DEF Keep, cellVars, ComputedTypeInv, Cells
<1>2. GraphOK'
  BY DEF Keep, cellVars, graphVars, ComputedTypeInv, GraphOK
<1>3. FlushOK'
  BY DEF Keep, flushVars, FlushOK, ComputedTypeInv
<1>4. Kept'
  BY DEF Keep, cellVars, graphVars, ComputedTypeInv, Kept, Orphaned, Registered
<1> QED BY <1>1, <1>2, <1>3, <1>4 DEF Keep, cellVars, ComputedTypeInv

LEMMA ComputedNextType == ComputedTypeInv /\ [ComputedNext]_computedVars => ComputedTypeInv'
<1> SUFFICES ASSUME ComputedTypeInv, [ComputedNext]_computedVars PROVE ComputedTypeInv'
  OBVIOUS
<1>1. ASSUME Flush PROVE ComputedTypeInv'
  BY <1>1, StartFlushType, TakeNameType, RunCallbackType, FinishFlushType DEF Flush
<1>2. ASSUME Deletion PROVE ComputedTypeInv'
  BY <1>2, DisposeType, KeepType DEF Deletion
<1>3. ASSUME NEW n \in Leaves, Create(n) PROVE ComputedTypeInv'
  BY <1>3, CreateType
<1>4. ASSUME NEW n \in Names, Write(n) \/ Delete(n) PROVE ComputedTypeInv'
  BY <1>4, WriteType, ComputedDeleteType
<1>5. ASSUME NEW c \in Computeds, InvalidateComputed(c) \/ DeleteComputed(c) PROVE ComputedTypeInv'
  BY <1>5, InvalidateType, DeleteComputedType
<1>6. ASSUME NEW c \in Computeds, NEW ds \in Definitions, CreateComputed(c, ds) PROVE ComputedTypeInv'
  BY <1>6, CreateComputedType
<1>7. ASSUME UNCHANGED computedVars PROVE ComputedTypeInv'
  <2>1. (Cells \in CellsOf(existing))'
    BY <1>7 DEF computedVars, cellVars, ComputedTypeInv, Cells
  <2>2. GraphOK' /\ FlushOK' /\ Kept'
    BY <1>7 DEF computedVars, cellVars, graphVars, flushVars, ComputedTypeInv, GraphOK, FlushOK, Kept,
                Orphaned, Registered
  <2> QED BY <1>7, <2>1, <2>2 DEF computedVars, cellVars, ComputedTypeInv
<1> QED BY <1>1, <1>2, <1>3, <1>4, <1>5, <1>6, <1>7 DEF ComputedNext

\* ComputedTypeOK: the graph of computed stores (computed/computed-graph.ts) has no
\* cycle, whatever is created anew over it; what is subscribed is registered; a chain with
\* autoDispose goes with its source.
THEOREM ComputedTypes == ComputedSpec => []ComputedTypeOK
<1>1. ComputedSpec => []ComputedTypeInv
  BY ComputedInitType, ComputedNextType, PTL DEF ComputedSpec
<1> QED BY <1>1, ComputedTypeHolds, PTL

-----------------------------------------------------------------------------
(***************************************************************************)
(* Consistency.  A computed store that is not what its function gives has  *)
(* a dependency that is pending, or will still be called back by the flush *)
(* in progress.                                                            *)
(***************************************************************************)

Subscribed(c) == deps[c] # {} /\ \A n \in deps[c] : c \in ToSet(subscribers[n])

\* What the flush in progress will still recompute.
Due ==
  {c \in Computeds : /\ isFlushing /\ c \notin recomputed
                     /\ \/ deps[c] \cap ToSet(order) # {}
                        \/ \E callback \in ToSet(callbacks) : callback.name = c}

Fine(cells, due) ==
  /\ \A c \in Computeds : deps[c] # {} => cells.lastOutput[c] = cells.value[c]
  /\ \A c \in Computeds : c \notin cells.threw /\ c \notin due /\ Subscribed(c) =>
       \/ cells.value[c] = Compute(c, deps[c], cells.value)
       \/ deps[c] \cap ToSet(cells.pending) # {}

CallbacksOK ==
  /\ \A callback \in ToSet(callbacks) : deps[callback.name] # {} => callback.deps = deps[callback.name]
  /\ ~isFlushing => callbacks = <<>> /\ order = <<>>
  /\ doomed # {} => ~isFlushing

ConsistentInv == Fine(Cells, Due) /\ CallbacksOK

\* No computed store is written directly, invalidated in a batch that fails, or created
\* again while a callback of it waits: none of them does the code guard against.
Undisturbed == ~DirectWrites /\ ~RolledBack /\ ~RecreateCalled

LEMMA ComputeSame ==
  ASSUME NEW c, NEW ds, NEW v, NEW w, \A d \in ds : v[d] = w[d]
  PROVE  Compute(c, ds, v) = Compute(c, ds, w)
<1>1. [d \in ds |-> v[d]] = [d \in ds |-> w[d]]
  OBVIOUS
<1> QED BY <1>1 DEF Compute

LEMMA EmptyIs == ToSet(<<>>) = {}
<1>1. DOMAIN <<>> = {}
  BY EmptySeq
<1> QED BY <1>1 DEF ToSet

LEMMA QuietDue ==
  ASSUME CallbacksOK, ~isFlushing \/ (callbacks = <<>> /\ order = <<>>)
  PROVE  Due = {}
BY EmptyIs DEF Due

LEMMA ComputedInitConsistent == ComputedInit => ConsistentInv
BY EmptyIs DEF ComputedInit, ConsistentInv, Fine, CallbacksOK, Subscribed

LEMMA ConsistentHolds == ComputedTypeInv /\ ConsistentInv => ConsistentWhenIdle
<1> SUFFICES ASSUME ComputedTypeInv, ConsistentInv, AtRest, NEW c \in Computeds \ threw, Attached(c)
             PROVE  value[c] = Compute(c, deps[c], value)
  BY DEF ConsistentWhenIdle
<1>1. Subscribed(c)
  BY AttachedIs DEF Subscribed, ComputedTypeInv
<1>2. c \notin Due /\ ToSet(pending) = {}
  BY EmptyIs DEF AtRest, Due
<1>3. Cells.value = value /\ Cells.pending = pending /\ Cells.threw = threw
  BY DEF Cells
<1> QED BY <1>1, <1>2, <1>3 DEF ConsistentInv, Fine

\* A recomputation leaves nothing undone but for those that depend on it, and it is pending.
LEMMA RecomputeFine ==
  ASSUME ComputedTypeInv, NEW cells \in CellsOf(existing), NEW c \in Computeds, NEW faulty, NEW due,
         Fine(cells, due)
  PROVE  Fine(Recompute(cells, c, deps[c], faulty), due \ {c})
<1>1. PICK done : done = Recompute(cells, c, deps[c], faulty)
  OBVIOUS
<1>2. CASE ~Registered(c)
  <2>1. done = cells
    BY <1>1, <1>2 DEF Recompute
  <2>2. ~Subscribed(c)
    BY <1>2 DEF Subscribed, Registered
  <2> QED BY <1>1, <2>1, <2>2 DEF Fine
<1>3. CASE Registered(c)
  <2>1. deps[c] # {} /\ deps[c] \in SUBSET Names /\ c \in existing /\ c \notin deps[c] /\ c \in Names
    BY <1>3, NoCycleIs DEF Registered, ComputedTypeInv, GraphOK, Names
  <2>2. PICK next \in Value : Recomputed(done, cells, c, deps[c], faulty, next)
    BY <1>1, <1>3, <2>1, RecomputeIs
  <2>3. /\ cells.value \in [Names -> Value] /\ cells.lastOutput \in [Computeds -> Value]
        /\ cells.pending \in DistinctSeq(existing)
    BY DEF CellsOf
  <2>4. cells.lastOutput[c] = cells.value[c]
    BY <2>1 DEF Fine
  <2>5. /\ done.value[c] = next /\ done.lastOutput[c] = next
        /\ \A n \in Names : n # c => done.value[n] = cells.value[n]
        /\ \A e \in Computeds : e # c => done.lastOutput[e] = cells.lastOutput[e]
    BY <2>1, <2>2, <2>3, <2>4 DEF Recomputed
  <2>6. /\ ToSet(cells.pending) \subseteq ToSet(done.pending)
        /\ c \in ToSet(done.pending) \/ done.value = cells.value
    BY <2>1, <2>2, <2>3, NotifiedIs DEF Recomputed
  <2>7. \A e \in Computeds : deps[e] # {} => done.lastOutput[e] = done.value[e]
    BY <2>5 DEF Fine, Names
  <2>8. ASSUME NEW e \in Computeds, e \notin done.threw, e \notin due \ {c}, Subscribed(e)
        PROVE  done.value[e] = Compute(e, deps[e], done.value) \/ deps[e] \cap ToSet(done.pending) # {}
    <3>1. CASE e = c
      <4>1. next = Compute(c, deps[c], cells.value)
        BY <2>2, <2>8, <3>1 DEF Recomputed, RunCompute
      <4>2. Compute(c, deps[c], done.value) = Compute(c, deps[c], cells.value)
        BY <2>1, <2>5, ComputeSame
      <4> QED BY <2>5, <3>1, <4>1, <4>2
    <3>2. CASE e # c
      <4>1. e \notin cells.threw /\ e \notin due
        BY <2>2, <2>8, <3>2 DEF Recomputed
      <4>2. cells.value[e] = Compute(e, deps[e], cells.value) \/ deps[e] \cap ToSet(cells.pending) # {}
        BY <2>8, <4>1 DEF Fine
      <4>3. CASE c \in deps[e] /\ c \in ToSet(done.pending)
        BY <4>3
      <4>4. CASE ~(c \in deps[e] /\ c \in ToSet(done.pending))
        <5>1. deps[e] \subseteq Names /\ e \in Names
          BY DEF ComputedTypeInv, GraphOK, Names
        <5>2. Compute(e, deps[e], done.value) = Compute(e, deps[e], cells.value)
          BY <2>5, <2>6, <4>4, <5>1, ComputeSame
        <5> QED BY <2>5, <2>6, <3>2, <4>2, <5>1, <5>2
      <4> QED BY <4>3, <4>4
    <3> QED BY <3>1, <3>2
  <2>9. Fine(done, due \ {c})
    BY <2>7, <2>8 DEF Fine
  <2> QED BY <1>1, <2>9
<1> QED BY <1>2, <1>3

\* A step that leaves the graph alone, and due what is still subscribed.
LEMMA FineKept ==
  ASSUME UNCHANGED graphVars, NEW cells, NEW due, Fine(cells, due), Cells' = cells,
         \A c \in Computeds : c \in due /\ Subscribed(c) => c \in Due'
  PROVE  Fine(Cells, Due)'
<1>1. (Fine(Cells, Due))' <=>
        /\ \A c \in Computeds : deps'[c] # {} => (Cells').lastOutput[c] = (Cells').value[c]
        /\ \A c \in Computeds : c \notin (Cells').threw /\ c \notin Due' /\ Subscribed(c)' =>
             \/ (Cells').value[c] = Compute(c, deps'[c], (Cells').value)
             \/ deps'[c] \cap ToSet((Cells').pending) # {}
  BY DEF Fine
<1>2. \A c : Subscribed(c)' <=> Subscribed(c)
  BY DEF Subscribed, graphVars
<1> QED BY <1>1, <1>2 DEF Fine, graphVars

LEMMA RecomputeAndFlushFine ==
  ASSUME ComputedTypeInv, Fine(Cells, Due), NEW c \in Computeds, NEW ds \in SUBSET Names,
         deps[c] # {} => ds = deps[c], RecomputeAndFlush(c, ds)
  PROVE  Fine(Cells', Due \ recomputed') /\ recomputed \subseteq recomputed'
<1>1. CASE isFlushing /\ c \in recomputed
  <2>1. Cells' = Cells /\ recomputed' = recomputed
    BY <1>1 DEF RecomputeAndFlush, Cells
  <2>2. Due \ recomputed = Due
    BY DEF Due
  <2> QED BY <2>1, <2>2
<1>2. CASE ~(isFlushing /\ c \in recomputed)
  <2>1. PICK faulty \in SUBSET {c} : SetCells(Recompute(Cells, c, ds, faulty))
    BY <1>2 DEF RecomputeAndFlush
  <2>2. recomputed' = IF isFlushing /\ Registered(c) THEN recomputed \cup {c} ELSE recomputed
    BY <1>2 DEF RecomputeAndFlush
  <2>3. Recompute(Cells, c, ds, faulty) = Recompute(Cells, c, deps[c], faulty)
    BY DEF Recompute, Registered
  <2>4. PICK done : done = Recompute(Cells, c, deps[c], faulty)
    OBVIOUS
  <2>5. done \in CellsOf(existing)
    BY <2>4, RecomputeType DEF ComputedTypeInv, GraphOK, Registered
  <2>6. Cells' = done
    BY <2>1, <2>3, <2>4, <2>5, SetCellsIs
  <2>7. Fine(done, Due \ {c})
    BY <2>4, RecomputeFine DEF ComputedTypeInv
  <2>8. \A e \in Due \ {c} : Subscribed(e) => e \in Due \ recomputed'
    BY <2>2 DEF Due
  <2>9. \A e \in Due : ~(e \in recomputed)
    BY DEF Due
  <2>10. Fine(done, Due \ recomputed')
    BY <2>7, <2>8 DEF Fine
  <2> QED BY <2>2, <2>6, <2>10
<1> QED BY <1>1, <1>2

\* The flush under way is as it was, or there is none.
LEMMA CallbacksKept ==
  ASSUME CallbacksOK, UNCHANGED <<isFlushing, order, callbacks, doomed>>,
         \A callback \in ToSet(callbacks) :
           deps'[callback.name] # {} => deps'[callback.name] = deps[callback.name]
  PROVE  CallbacksOK'
BY DEF CallbacksOK

LEMMA StartFlushFine == ComputedTypeInv /\ ConsistentInv /\ StartFlush => ConsistentInv'
<1> SUFFICES ASSUME ComputedTypeInv, ConsistentInv, StartFlush PROVE ConsistentInv'
  OBVIOUS
<1>1. CallbacksOK'
  BY EmptyIs DEF StartFlush, ConsistentInv, CallbacksOK
<1>2. pending \in DistinctSeq(existing) /\ existing \subseteq Names
  BY CellsType DEF ComputedTypeInv
<1>3. ToSet(pending) \subseteq ToSet(order')
  <2>1. PICK t : t = TopoOrder(ToSet(pending))
    OBVIOUS
  <2>2. t \in DistinctSeq(Computeds \ ToSet(pending))
    BY <2>1, TopoOrderIs
  <2>3. ToSet(t) \subseteq Computeds \ ToSet(pending)
    BY <2>2, ContainsIs
  <2>4. Computeds \ ToSet(pending) \subseteq Names
    BY DEF Names
  <2>5. t \in DistinctSeq(Names) /\ pending \in DistinctSeq(Names)
    BY <1>2, <2>2, <2>4, WiderDistinct
  <2>6. ToSet(pending \o t) = ToSet(pending) \cup ToSet(t)
    BY <2>3, <2>5, JoinedIs
  <2> QED BY <2>1, <2>6 DEF StartFlush
<1>4. Due = {}
  BY QuietDue DEF StartFlush, ConsistentInv
<1>5. (Cells').value = Cells.value /\ (Cells').lastOutput = Cells.lastOutput /\ (Cells').threw = Cells.threw
      /\ Cells.pending = pending
  BY DEF StartFlush, cellVars, Cells
<1>6. deps' = deps /\ \A c : Subscribed(c)' <=> Subscribed(c)
  BY DEF StartFlush, graphVars, Subscribed
<1>7. \A c \in Computeds : deps[c] \cap ToSet(pending) # {} => c \in Due'
  BY <1>3, <1>6 DEF StartFlush, Due
<1>8. Fine(Cells, Due)'
  BY <1>4, <1>5, <1>6, <1>7 DEF ConsistentInv, Fine
<1> QED BY <1>1, <1>8 DEF ConsistentInv

LEMMA TakeNameFine == ComputedTypeInv /\ ConsistentInv /\ TakeName => ConsistentInv'
<1> SUFFICES ASSUME ComputedTypeInv, ConsistentInv, TakeName PROVE ConsistentInv'
  OBVIOUS
<1>1. GraphOK /\ order \in DistinctSeq(Names) /\ order # <<>>
  BY DEF ComputedTypeInv, FlushOK, TakeName
<1>2. Head(order) \in Names /\ ToSet(order) = {Head(order)} \cup ToSet(Tail(order))
  BY <1>1, TailIs
<1>3. ToSet(callbacks') = {[name |-> c, deps |-> deps[c]] : c \in ToSet(subscribers[Head(order)])}
  BY <1>1, <1>2, CallbacksAre DEF TakeName
<1>4. CallbacksOK'
  BY <1>3 DEF TakeName, graphVars, ConsistentInv, CallbacksOK
<1>5. Cells' = Cells
  BY DEF TakeName, cellVars, Cells
<1>6. ASSUME NEW c \in Computeds, c \in Due, Subscribed(c) PROVE c \in Due'
  <2>1. isFlushing' /\ c \notin recomputed' /\ deps' = deps /\ order' = Tail(order)
    BY <1>6 DEF Due, TakeName, graphVars
  <2>2. deps[c] \cap ToSet(order) # {}
    BY <1>6, EmptyIs DEF Due, TakeName
  <2>3. CASE Head(order) \in deps[c]
    <3>1. c \in ToSet(subscribers[Head(order)])
      BY <1>6, <2>3 DEF Subscribed
    <3>2. [name |-> c, deps |-> deps[c]] \in ToSet(callbacks')
      BY <1>3, <3>1
    <3>3. \E callback \in ToSet(callbacks') : callback.name = c
      BY <3>2
    <3> QED BY <2>1, <3>3 DEF Due
  <2>4. CASE Head(order) \notin deps[c]
    BY <1>2, <2>1, <2>2, <2>4 DEF Due
  <2> QED BY <2>3, <2>4
<1>7. Fine(Cells, Due)'
  <2>1. UNCHANGED graphVars /\ Fine(Cells, Due)
    BY DEF TakeName, ConsistentInv
  <2> QED BY <1>5, <1>6, <2>1, FineKept
<1> QED BY <1>4, <1>7 DEF ConsistentInv

LEMMA RunCallbackFine == ComputedTypeInv /\ ConsistentInv /\ RunCallback => ConsistentInv'
<1> SUFFICES ASSUME ComputedTypeInv, ConsistentInv, RunCallback PROVE ConsistentInv'
  OBVIOUS
<1>1. callbacks \in DistinctSeq([name : Computeds, deps : SUBSET Names]) /\ callbacks # <<>>
  BY DEF ComputedTypeInv, FlushOK, RunCallback
<1>2. /\ Head(callbacks) \in [name : Computeds, deps : SUBSET Names]
      /\ ToSet(callbacks) = {Head(callbacks)} \cup ToSet(Tail(callbacks))
  BY <1>1, TailIs
<1>3. PICK c \in Computeds, ds \in SUBSET Names : c = Head(callbacks).name /\ ds = Head(callbacks).deps
  BY <1>2
<1>4. deps[c] # {} => ds = deps[c]
  BY <1>2, <1>3 DEF ConsistentInv, CallbacksOK
<1>5. Fine(Cells', Due \ recomputed') /\ recomputed \subseteq recomputed'
  BY <1>3, <1>4, RecomputeAndFlushFine DEF RunCallback, ConsistentInv
<1>6. CallbacksOK'
  BY <1>1, <1>2 DEF RunCallback, graphVars, ConsistentInv, CallbacksOK
<1>7. isFlushing
  BY <1>1 DEF ConsistentInv, CallbacksOK
<1>8. Registered(c) => c \in recomputed'
  BY <1>3, <1>7 DEF RunCallback, RecomputeAndFlush
<1>9. ASSUME NEW e \in Computeds, e \in Due \ recomputed', Subscribed(e) PROVE e \in Due'
  <2>1. e # c
    BY <1>8, <1>9 DEF Subscribed, Registered
  <2>2. deps' = deps /\ order' = order /\ isFlushing' /\ callbacks' = Tail(callbacks)
    BY <1>7 DEF RunCallback, graphVars
  <2>3. deps[e] \cap ToSet(order) # {} \/ \E callback \in ToSet(Tail(callbacks)) : callback.name = e
    BY <1>2, <1>3, <1>9, <2>1 DEF Due
  <2> QED BY <1>9, <2>2, <2>3 DEF Due
<1>10. PICK cells, due : cells = Cells' /\ due = Due \ recomputed'
  OBVIOUS
<1>11. Fine(Cells, Due)'
  <2>1. UNCHANGED graphVars /\ Fine(cells, due) /\ Cells' = cells
    BY <1>5, <1>10 DEF RunCallback
  <2>2. \A e \in Computeds : e \in due /\ Subscribed(e) => e \in Due'
    BY <1>9, <1>10
  <2> QED BY <2>1, <2>2, FineKept
<1> QED BY <1>6, <1>11 DEF ConsistentInv

LEMMA FinishFlushFine == ComputedTypeInv /\ ConsistentInv /\ FinishFlush => ConsistentInv'
<1> SUFFICES ASSUME ComputedTypeInv, ConsistentInv, FinishFlush PROVE ConsistentInv'
  OBVIOUS
<1>1. CallbacksOK'
  BY DEF FinishFlush, graphVars, ConsistentInv, CallbacksOK
<1>2. Due = {}
  BY QuietDue DEF FinishFlush, ConsistentInv
<1>3. Cells' = Cells /\ UNCHANGED graphVars /\ Fine(Cells, Due)
  BY DEF FinishFlush, cellVars, Cells, ConsistentInv
<1>4. Fine(Cells, Due)'
  BY <1>2, <1>3, FineKept
<1> QED BY <1>1, <1>4 DEF ConsistentInv

\* A store gets a value that no function gave, and its dependents are notified.
LEMMA WriteFine ==
  ASSUME ComputedTypeInv, Fine(Cells, Due), NEW n \in Names, n \in Computeds => deps[n] = {}, NEW v,
         value' = [value EXCEPT ![n] = v], UNCHANGED <<graphVars, lastOutput, flushVars, threw>>,
         ToSet(pending) \subseteq ToSet(pending'),
         n \in ToSet(pending') \/ \A c \in Computeds : n \notin deps[c] \/ ~Subscribed(c)
  PROVE  Fine(Cells, Due)'
<1>1. value \in [Names -> Value]
  BY CellsType DEF ComputedTypeInv
<1>2. /\ ToSet(pending) \subseteq ToSet(pending')
      /\ n \in ToSet(pending') \/ \A c \in Computeds : n \notin deps[c] \/ ~Subscribed(c)
  OBVIOUS
<1>3. \A m \in Names : m # n => value'[m] = value[m]
  BY <1>1
<1>4. Due' = Due /\ deps' = deps /\ \A c : Subscribed(c)' <=> Subscribed(c)
  BY DEF Due, Subscribed, graphVars, flushVars
<1>5. /\ (Cells').value = value' /\ (Cells').lastOutput = lastOutput /\ (Cells').threw = threw
      /\ (Cells').pending = pending'
      /\ Cells.value = value /\ Cells.lastOutput = lastOutput /\ Cells.threw = threw
      /\ Cells.pending = pending
  BY DEF Cells
<1>6. ASSUME NEW c \in Computeds, deps[c] # {} PROVE lastOutput[c] = value'[c]
  BY <1>3, <1>5, <1>6 DEF Fine, Names
<1>7. ASSUME NEW c \in Computeds, c \notin threw, c \notin Due, Subscribed(c)
      PROVE  value'[c] = Compute(c, deps[c], value') \/ deps[c] \cap ToSet(pending') # {}
  <2>1. value[c] = Compute(c, deps[c], value) \/ deps[c] \cap ToSet(pending) # {}
    BY <1>5, <1>7 DEF Fine
  <2>2. CASE n \in deps[c]
    BY <1>2, <1>7, <2>2
  <2>3. CASE n \notin deps[c]
    <3>1. deps[c] \subseteq Names /\ c \in Names /\ c # n
      BY <1>7 DEF ComputedTypeInv, GraphOK, Names, Subscribed
    <3>2. PICK v2 : v2 = value'
      OBVIOUS
    <3>3. \A d \in deps[c] : v2[d] = value[d]
      BY <1>3, <2>3, <3>1, <3>2
    <3>4. Compute(c, deps[c], v2) = Compute(c, deps[c], value)
      BY <3>3, ComputeSame
    <3> QED BY <1>2, <1>3, <2>1, <3>1, <3>2, <3>4
  <2> QED BY <2>2, <2>3
<1> QED BY <1>4, <1>5, <1>6, <1>7 DEF Fine

LEMMA CreateFine ==
  ComputedTypeInv /\ ConsistentInv /\ (\E n \in Leaves : Create(n)) => ConsistentInv'
<1> SUFFICES ASSUME ComputedTypeInv, ConsistentInv, NEW n \in Leaves, Create(n) PROVE ConsistentInv'
  OBVIOUS
<1>1. n \in Names /\ n \notin Computeds
  BY ComputedAssumption DEF Names
<1>2. pending \in DistinctSeq(Names)
  <2>1. pending \in DistinctSeq(existing) /\ existing \subseteq Names
    BY CellsType DEF ComputedTypeInv
  <2> QED BY <2>1, WiderDistinct
<1>3. PICK v \in Values : value' = [value EXCEPT ![n] = v]
  BY DEF Create
<1>4. ToSet(pending) \subseteq ToSet(pending')
  BY <1>1, <1>2, NotifiedIs DEF Create
<1>5. n \in ToSet(pending') \/ \A c \in Computeds : n \notin deps[c] \/ ~Subscribed(c)
  <2>1. CASE subscribers[n] = <<>>
    BY <2>1, EmptyIs DEF Subscribed
  <2>2. CASE subscribers[n] # <<>>
    BY <1>1, <1>2, <2>2, NotifiedIs DEF Create
  <2> QED BY <2>1, <2>2
<1>6. UNCHANGED <<graphVars, lastOutput, flushVars, threw>>
  BY DEF Create
<1>7. Fine(Cells, Due)'
  BY <1>1, <1>3, <1>4, <1>5, <1>6, WriteFine DEF ConsistentInv
<1>8. CallbacksOK'
  BY CallbacksKept DEF Create, graphVars, flushVars, ConsistentInv
<1> QED BY <1>7, <1>8 DEF ConsistentInv

LEMMA WriteKeepsFine ==
  ASSUME ~DirectWrites, ComputedTypeInv, ConsistentInv, NEW n \in Names, Write(n)
  PROVE  ConsistentInv'
<1>1. n \in Computeds => deps[n] = {}
  BY DEF Write, Registered
<1>2. pending \in DistinctSeq(existing) /\ n \in existing
  BY CellsType DEF ComputedTypeInv, Write
<1>3. PICK v \in Values : value' = [value EXCEPT ![n] = v]
  BY DEF Write
<1>4. ToSet(pending) \subseteq ToSet(pending')
  BY <1>2, NotifiedIs DEF Write
<1>5. n \in ToSet(pending') \/ \A c \in Computeds : n \notin deps[c] \/ ~Subscribed(c)
  BY <1>2, NotifiedIs DEF Write
<1>6. UNCHANGED <<graphVars, lastOutput, flushVars, threw>>
  BY DEF Write
<1>7. Fine(Cells, Due)'
  BY <1>1, <1>3, <1>4, <1>5, <1>6, WriteFine DEF ConsistentInv
<1>8. CallbacksOK'
  BY CallbacksKept DEF Write, graphVars, flushVars, ConsistentInv
<1> QED BY <1>7, <1>8 DEF ConsistentInv

LEMMA InvalidateFine ==
  ASSUME ~RolledBack, ComputedTypeInv, ConsistentInv, NEW c \in Computeds, InvalidateComputed(c)
  PROVE  ConsistentInv'
<1>1. RecomputeAndFlush(c, deps[c]) /\ deps[c] \in SUBSET Names
  <2>1. {FALSE, RolledBack} = {FALSE}
    BY ComputedAssumption
  <2> QED BY <2>1 DEF InvalidateComputed, ComputedTypeInv, GraphOK
<1>2. Fine(Cells', Due \ recomputed') /\ recomputed \subseteq recomputed'
  BY <1>1, RecomputeAndFlushFine DEF ConsistentInv
<1>3. CallbacksOK'
  BY CallbacksKept DEF InvalidateComputed, graphVars, ConsistentInv
<1>4. \A e \in Computeds : e \in Due \ recomputed' => e \in Due'
  BY DEF InvalidateComputed, graphVars, Due
<1>5. PICK cells, due : cells = Cells' /\ due = Due \ recomputed'
  OBVIOUS
<1>6. Fine(Cells, Due)'
  <2>1. UNCHANGED graphVars /\ Fine(cells, due) /\ Cells' = cells
    BY <1>2, <1>5 DEF InvalidateComputed
  <2>2. \A e \in Computeds : e \in due /\ Subscribed(e) => e \in Due'
    BY <1>4, <1>5
  <2> QED BY <2>1, <2>2, FineKept
<1> QED BY <1>3, <1>6 DEF ConsistentInv

LEMMA CallbackNames ==
  ASSUME NEW q \in DistinctSeq([name : Computeds, deps : SUBSET Names]), NEW callback \in ToSet(q)
  PROVE  callback.name \in Computeds
<1>1. PICK R : R = [name : Computeds, deps : SUBSET Names]
  OBVIOUS
<1>2. callback \in R
  BY <1>1, ContainsIs
<1> QED BY <1>1, <1>2

\* A computed store torn down owes nothing; the others are as they were.
LEMMA TornDownFine ==
  ASSUME ComputedTypeInv, ConsistentInv, NEW c \in Computeds, subscribers' = Unsubscribed(c),
         deps' = Unregistered(c), UNCHANGED <<cellVars, lastOutput, pending, threw, flushVars, doomed>>
  PROVE  ConsistentInv'
<1>1. /\ \A n \in Names : ToSet(subscribers'[n]) = ToSet(subscribers[n]) \ {c}
      /\ deps'[c] = {} /\ \A e \in Computeds \ {c} : deps'[e] = deps[e]
  BY UnsubscribedIs DEF Unregistered, ComputedTypeInv, GraphOK
<1>2. Cells' = Cells
  BY DEF cellVars, Cells
<1>3. ASSUME NEW e \in Computeds, Subscribed(e)'
      PROVE  e # c /\ deps'[e] = deps[e] /\ Subscribed(e) /\ (e \in Due => e \in Due')
  <2>1. e # c /\ deps'[e] = deps[e] /\ deps[e] \subseteq Names
    BY <1>1, <1>3 DEF Subscribed, ComputedTypeInv, GraphOK
  <2>2. Subscribed(e)
    BY <1>1, <1>3, <2>1 DEF Subscribed
  <2>3. e \in Due => e \in Due'
    BY <2>1 DEF Due, flushVars
  <2> QED BY <2>1, <2>2, <2>3
<1>4. Fine(Cells, Due)'
  BY <1>1, <1>2, <1>3 DEF ConsistentInv, Fine
<1>5. CallbacksOK'
  <2>1. callbacks \in DistinctSeq([name : Computeds, deps : SUBSET Names])
    BY DEF ComputedTypeInv, FlushOK
  <2>2. \A callback \in ToSet(callbacks) : callback.name \in Computeds
    BY <2>1, CallbackNames
  <2> QED BY <1>1, <2>2, CallbacksKept DEF ConsistentInv, flushVars
<1> QED BY <1>4, <1>5 DEF ConsistentInv

LEMMA CreateComputedFine ==
  ASSUME ~RecreateCalled, ComputedTypeInv, ConsistentInv, NEW c \in Computeds, NEW ds \in Definitions,
         CreateComputed(c, ds)
  PROVE  ConsistentInv'
<1>1. ds \in SUBSET Names /\ ds # {} /\ c \in Names
  BY ComputedAssumption DEF Names
<1>2. UNCHANGED <<flushVars, doomed>>
  BY DEF CreateComputed
<1>3. callbacks \in DistinctSeq([name : Computeds, deps : SUBSET Names])
  BY DEF ComputedTypeInv, FlushOK
<1>4. \A callback \in ToSet(callbacks) : callback.name \in Computeds /\ callback.name # c
  <2>1. \A callback \in ToSet(callbacks) : callback.name \in Computeds
    BY <1>3, CallbackNames
  <2>2. \A i \in DOMAIN callbacks : callbacks[i].name # c
    BY DEF CreateComputed
  <2> QED BY <2>1, <2>2 DEF ToSet
<1>5. ASSUME ~MakesCycle(c, ds), deps' = [deps EXCEPT ![c] = ds],
             subscribers' = [n \in Names |->
               IF n \in ds THEN Append(Unsubscribed(c)[n], c) ELSE Unsubscribed(c)[n]],
             NEW faulty \in SUBSET {c}, NEW initial, initial = RunCompute(c, ds, value, faulty),
             value' = [value EXCEPT ![c] = initial],
             lastOutput' = [lastOutput EXCEPT ![c] = initial],
             threw' = IF c \in faulty THEN threw \cup {c} ELSE threw \ {c},
             existing' = existing \cup {c},
             pending' = IF c \in existing \/ subscribers[c] # <<>> THEN Notified(pending, c) ELSE pending
      PROVE  ConsistentInv'
  <2>1. \A n \in Names : ToSet(subscribers'[n]) = IF n \in ds THEN ToSet(subscribers[n]) \cup {c}
                                                  ELSE ToSet(subscribers[n]) \ {c}
    BY <1>1, <1>5, CreatedGraph DEF ComputedTypeInv
  <2>2. deps'[c] = ds /\ c \notin ds /\ \A e \in Computeds \ {c} : deps'[e] = deps[e]
    BY <1>1, <1>5, NewNoCycle DEF ComputedTypeInv, GraphOK
  <2>3. /\ value \in [Names -> Value] /\ lastOutput \in [Computeds -> Value]
        /\ pending \in DistinctSeq(existing)
    BY CellsType DEF ComputedTypeInv
  <2>4. /\ value'[c] = initial /\ lastOutput'[c] = initial
        /\ \A n \in Names : n # c => value'[n] = value[n]
        /\ \A e \in Computeds : e # c => lastOutput'[e] = lastOutput[e]
    BY <1>1, <1>5, <2>3
  <2>5. ToSet(pending) \subseteq ToSet(pending') /\ (subscribers[c] # <<>> => c \in ToSet(pending'))
    <3>1. pending \in DistinctSeq(existing \cup {c})
      BY <2>3, WiderDistinct
    <3> QED BY <1>5, <3>1, NotifiedIs
  <2>6. /\ (Cells').value = value' /\ (Cells').lastOutput = lastOutput' /\ (Cells').threw = threw'
        /\ (Cells').pending = pending'
        /\ Cells.value = value /\ Cells.lastOutput = lastOutput /\ Cells.threw = threw
        /\ Cells.pending = pending
    BY DEF Cells
  <2>7. ASSUME NEW e \in Computeds, deps'[e] # {} PROVE lastOutput'[e] = value'[e]
    BY <2>2, <2>4, <2>6, <2>7 DEF ConsistentInv, Fine, Names
  <2>8. ASSUME NEW e \in Computeds, e \notin threw', e \notin Due', Subscribed(e)'
        PROVE  value'[e] = Compute(e, deps'[e], value') \/ deps'[e] \cap ToSet(pending') # {}
    <3>1. CASE e = c
      <4>1. initial = Compute(c, ds, value)
        BY <1>5, <2>8, <3>1 DEF RunCompute
      <4>2. Compute(c, ds, value') = Compute(c, ds, value)
        BY <1>1, <2>2, <2>4, ComputeSame
      <4> QED BY <2>2, <2>4, <3>1, <4>1, <4>2
    <3>2. CASE e # c
      <4>1. deps'[e] = deps[e] /\ deps[e] \subseteq Names /\ e \in Names
        BY <2>2, <3>2 DEF ComputedTypeInv, GraphOK, Names
      <4>2. Subscribed(e)
        BY <2>1, <2>8, <3>2, <4>1 DEF Subscribed
      <4>3. e \notin threw /\ e \notin Due
        BY <1>2, <1>5, <2>8, <3>2, <4>1 DEF Due, flushVars
      <4>4. value[e] = Compute(e, deps[e], value) \/ deps[e] \cap ToSet(pending) # {}
        BY <2>6, <4>2, <4>3 DEF ConsistentInv, Fine
      <4>5. CASE c \in deps[e]
        <5>1. subscribers[c] # <<>>
          BY <4>2, <4>5, EmptyIs DEF Subscribed
        <5> QED BY <2>5, <4>1, <4>5, <5>1
      <4>6. CASE c \notin deps[e]
        <5>1. Compute(e, deps[e], value') = Compute(e, deps[e], value)
          BY <2>4, <4>1, <4>6, ComputeSame
        <5> QED BY <2>4, <2>5, <3>2, <4>1, <4>4, <5>1
      <4> QED BY <4>5, <4>6
    <3> QED BY <3>1, <3>2
  <2>9. Fine(Cells, Due)'
    BY <2>6, <2>7, <2>8 DEF Fine
  <2>10. CallbacksOK'
    BY <1>2, <1>4, <2>2, CallbacksKept DEF ConsistentInv, flushVars
  <2> QED BY <2>9, <2>10 DEF ConsistentInv
<1>6. ASSUME subscribers' = Unsubscribed(c), deps' = Unregistered(c),
             UNCHANGED <<cellVars, lastOutput, pending, threw>>
      PROVE  ConsistentInv'
  BY <1>2, <1>6, TornDownFine
<1> QED BY <1>5, <1>6 DEF CreateComputed

LEMMA DeletionFine ==
  ASSUME ComputedTypeInv, ConsistentInv, NEW n \in Names, DeleteExistingStore(n), ~isFlushing
  PROVE  ConsistentInv'
<1>1. PICK faulty \in SUBSET ToSet(subscribers[n]) : SetCells(Gone(Told(n, faulty), n))
  BY DEF DeleteExistingStore
<1>2. PICK told : told = Told(n, faulty)
  OBVIOUS
<1>3. Fine(Cells, {}) /\ Cells \in CellsOf(existing) /\ subscribers[n] \in DistinctSeq(Computeds)
  BY QuietDue DEF ConsistentInv, ComputedTypeInv, GraphOK
<1>4. told \in CellsOf(existing) /\ Fine(told, {})
  <2>1. PICK S : S = {cells \in CellsOf(existing) : Fine(cells, {})}
    OBVIOUS
  <2>2. \A i \in DOMAIN subscribers[n] : subscribers[n][i] \in Computeds
    BY <1>3, DistinctIs
  <2>3. ASSUME NEW cells \in S, NEW i \in DOMAIN subscribers[n]
        PROVE  Recompute(cells, subscribers[n][i], deps[subscribers[n][i]], faulty) \in S
    <3>1. PICK c \in Computeds : c = subscribers[n][i]
      BY <2>2
    <3>2. cells \in CellsOf(existing) /\ Fine(cells, {})
      BY <2>1
    <3>3. Recompute(cells, c, deps[c], faulty) \in CellsOf(existing)
      BY <3>2, RecomputeType DEF ComputedTypeInv, GraphOK, Registered
    <3>4. Fine(Recompute(cells, c, deps[c], faulty), {} \ {c})
      BY <3>2, RecomputeFine
    <3>5. {} \ {c} = {}
      OBVIOUS
    <3> QED BY <2>1, <3>1, <3>3, <3>4, <3>5
  <2>4. Cells \in S
    BY <1>3, <2>1
  <2>5. told \in S
    BY <1>2, <1>3, <2>3, <2>4, ToldIs
  <2> QED BY <2>1, <2>5
<1>5. PICK gone : gone = Gone(told, n)
  OBVIOUS
<1>6. /\ gone \in CellsOf(existing \ {n}) /\ gone.value = [told.value EXCEPT ![n] = Null]
      /\ ToSet(gone.pending) = ToSet(told.pending) \ {n}
      /\ gone.lastOutput = told.lastOutput /\ gone.threw = told.threw
  BY <1>4, <1>5, GoneType
<1>7. Cells' = gone
  BY <1>1, <1>2, <1>5, <1>6, SetCellsIs
<1>8. told.value \in [Names -> Value]
  BY <1>4 DEF CellsOf
<1>9. \A m \in Names : m # n => gone.value[m] = told.value[m]
  BY <1>6, <1>8
<1>10. /\ \A c \in Computeds : deps'[c] = IF c = n THEN {} ELSE deps[c]
       /\ \A m \in Names : ToSet(subscribers'[m]) = IF m = n THEN {} ELSE ToSet(subscribers[m]) \ {n}
  BY DeletedGraph
<1>11. ASSUME NEW e \in Computeds, deps'[e] # {} PROVE gone.lastOutput[e] = gone.value[e]
  BY <1>4, <1>6, <1>9, <1>10, <1>11 DEF Fine, Names
<1>12. ASSUME NEW e \in Computeds, e \notin gone.threw, Subscribed(e)'
       PROVE  gone.value[e] = Compute(e, deps'[e], gone.value) \/ deps'[e] \cap ToSet(gone.pending) # {}
  <2>1. e # n /\ deps'[e] = deps[e] /\ deps[e] \subseteq Names /\ e \in Names
    BY <1>10, <1>12 DEF Subscribed, ComputedTypeInv, GraphOK, Names
  <2>2. n \notin deps[e]
    BY <1>10, <1>12, <2>1 DEF Subscribed
  <2>3. Subscribed(e)
    BY <1>10, <1>12, <2>1, <2>2 DEF Subscribed
  <2>4. told.value[e] = Compute(e, deps[e], told.value) \/ deps[e] \cap ToSet(told.pending) # {}
    BY <1>4, <1>6, <1>12, <2>3 DEF Fine
  <2>5. Compute(e, deps[e], gone.value) = Compute(e, deps[e], told.value)
    BY <1>9, <2>1, <2>2, ComputeSame
  <2>6. deps[e] \cap ToSet(gone.pending) = deps[e] \cap ToSet(told.pending)
    BY <1>6, <2>2
  <2> QED BY <1>9, <2>1, <2>4, <2>5, <2>6
<1>13. Fine(Cells, Due)'
  BY <1>7, <1>11, <1>12 DEF Fine
<1>14. CallbacksOK'
  BY EmptyIs DEF DeleteExistingStore, flushVars, ConsistentInv, CallbacksOK
<1> QED BY <1>13, <1>14 DEF ConsistentInv

LEMMA KeepFine ==
  ASSUME ComputedTypeInv, ConsistentInv, NEW c \in Computeds, Keep(c)
  PROVE  ConsistentInv'
<1>1. Cells' = Cells /\ Due' = Due /\ UNCHANGED graphVars
  BY DEF Keep, cellVars, graphVars, flushVars, Cells, Due
<1>2. Fine(Cells, Due)'
  BY <1>1, FineKept DEF ConsistentInv
<1>3. CallbacksOK'
  BY DEF Keep, flushVars, graphVars, ConsistentInv, CallbacksOK
<1> QED BY <1>2, <1>3 DEF ConsistentInv

LEMMA ComputedNextFine ==
  Undisturbed /\ ComputedTypeInv /\ ConsistentInv /\ [ComputedNext]_computedVars => ConsistentInv'
<1> SUFFICES ASSUME Undisturbed, ComputedTypeInv, ConsistentInv, [ComputedNext]_computedVars
             PROVE  ConsistentInv'
  OBVIOUS
<1>1. ASSUME Flush PROVE ConsistentInv'
  BY <1>1, StartFlushFine, TakeNameFine, RunCallbackFine, FinishFlushFine DEF Flush
<1>2. ASSUME NEW c \in Computeds, Dispose(c) PROVE ConsistentInv'
  <2>1. c \in Names /\ ~isFlushing
    BY <1>2 DEF Dispose, Names, ConsistentInv, CallbacksOK
  <2> QED BY <1>2, <2>1, DeletionFine DEF Dispose
<1>3. ASSUME NEW c \in Computeds, Keep(c) PROVE ConsistentInv'
  BY <1>3, KeepFine
<1>4. ASSUME NEW n \in Leaves, Create(n) PROVE ConsistentInv'
  BY <1>4, CreateFine
<1>5. ASSUME NEW n \in Names, Write(n) PROVE ConsistentInv'
  BY <1>5, WriteKeepsFine DEF Undisturbed
<1>6. ASSUME NEW n \in Names, Delete(n) PROVE ConsistentInv'
  BY <1>6, DeletionFine DEF Delete
<1>7. ASSUME NEW c \in Computeds, InvalidateComputed(c) PROVE ConsistentInv'
  BY <1>7, InvalidateFine DEF Undisturbed
<1>8. ASSUME NEW c \in Computeds, DeleteComputed(c) PROVE ConsistentInv'
  BY <1>8, TornDownFine DEF DeleteComputed, Call
<1>9. ASSUME NEW c \in Computeds, NEW ds \in Definitions, CreateComputed(c, ds) PROVE ConsistentInv'
  BY <1>9, CreateComputedFine DEF Undisturbed
<1>10. ASSUME UNCHANGED computedVars PROVE ConsistentInv'
  <2>1. Cells' = Cells /\ Due' = Due /\ UNCHANGED graphVars
    BY <1>10 DEF computedVars, cellVars, graphVars, flushVars, Cells, Due
  <2>2. Fine(Cells, Due)'
    BY <2>1, FineKept DEF ConsistentInv
  <2>3. CallbacksOK'
    BY <1>10 DEF computedVars, flushVars, graphVars, ConsistentInv, CallbacksOK
  <2> QED BY <2>2, <2>3 DEF ConsistentInv
<1> QED BY <1>1, <1>2, <1>3, <1>4, <1>5, <1>6, <1>7, <1>8, <1>9, <1>10 DEF ComputedNext, Deletion

\* ConsistentWhenIdle: recomputing each computed store once in a flush, in whatever order
\* (computed/index.ts:189), is enough, whatever the graph: when nothing is left to deliver,
\* each of them that is still subscribed holds what its function gives.
THEOREM ComputedConverge ==
  ASSUME Undisturbed
  PROVE  ComputedSpec => []ConsistentWhenIdle
<1>1. ComputedTypeInv /\ [ComputedNext]_computedVars => ComputedTypeInv'
  BY ComputedNextType
<1>2. ComputedTypeInv /\ ConsistentInv /\ [ComputedNext]_computedVars => ConsistentInv'
  BY ComputedNextFine
<1>3. ComputedInit => ComputedTypeInv /\ ConsistentInv
  BY ComputedInitType, ComputedInitConsistent
<1> QED BY <1>1, <1>2, <1>3, ConsistentHolds, PTL DEF ComputedSpec

=============================================================================
