------------------------------ MODULE Computed ------------------------------
(***************************************************************************)
(* Computed stores (computed/index.ts, computed/computed-graph.ts): stores *)
(* recomputed by subscriptions to the stores they depend on, in flushes    *)
(* that deliver a changed store before the computed stores downstream.     *)
(*                                                                         *)
(* A step is one API call or one callback of a flush: flushes run inline,  *)
(* and the application runs between two callbacks, as a subscriber of its  *)
(* own.  (The chunked flush, and deletion inside a flush, are in           *)
(* NotifyFlush.)  Computed stores are numbered in the order of their names.*)
(* A store that does not exist holds null.  The replaceStore of a          *)
(* recomputation always stores the output: that sanitize, validate or      *)
(* middleware refuses it, or that a boot window defers it, is left out.    *)
(***************************************************************************)
EXTENDS Naturals, Sequences, FiniteSets, SequencesExt

CONSTANTS
  Leaves, Computeds,      \* names
  AutoDispose,            \* computed stores with the option autoDispose
  Definitions,            \* the sets of dependencies they are created with
  Values, Null,           \* what a store may hold, and what one that is not there holds
  Output(_, _),           \* what a compute function gives for what its dependencies hold
  MaxCalls,               \* bound on the calls of the application
  DirectWrites,           \* may the application write a computed store?
  RolledBack,             \* may invalidateComputed run in a batch that then fails?
  RecreateCalled          \* may a computed store about to be called back be created again?

Names == Leaves \cup Computeds
Value == Values \cup {Null}

ASSUME ComputedAssumption ==
  /\ IsFiniteSet(Leaves) /\ IsFiniteSet(Computeds)
  /\ Computeds \subseteq Nat /\ Leaves \cap Computeds = {}
  /\ AutoDispose \subseteq Computeds
  /\ Definitions \subseteq (SUBSET Names) \ {{}}
  /\ Null \notin Values
  /\ \A c \in Computeds : \A ds \in SUBSET Names :
       \A inputs \in [ds -> Value] : Output(c, inputs) \in Values
  /\ MaxCalls \in Nat
  /\ {DirectWrites, RolledBack, RecreateCalled} \subseteq BOOLEAN

VARIABLES
  calls,            \* calls so far
  existing, value,
  deps,             \* computedEntries: the dependencies of a registered computed store
  lastOutput,
  subscribers,      \* the recompute callbacks of every store, in the order they were added
  pending,          \* pendingNotifications
  isFlushing,
  order,            \* orderedNames the flush has still to deliver
  callbacks,        \* callbacks still to be called for the store being delivered,
                    \* each with the dependencies it was made for
  recomputed,       \* computed stores whose computedFlushHistory is this flush
  doomed,           \* dependents of deleted stores, to be disposed of or kept
  threw             \* ghost: the compute function threw when it ran last

cellVars == <<existing, value>>
graphVars == <<deps, subscribers>>
flushVars == <<isFlushing, order, callbacks, recomputed>>
computedVars == <<calls, cellVars, graphVars, lastOutput, pending, flushVars, doomed, threw>>

Registered(c) == c \in Computeds /\ deps[c] # {}
DistinctSeq(S) == {q \in Seq(S) : IsInjective(q)}

\* computedDependents
Dependents(S) == {c \in Computeds : deps[c] \cap S # {}}

\* What the stores S reach over next, S included.
Closure(S, next(_)) ==
  LET reach[T \in SUBSET Names] ==
        IF next(T) \subseteq T THEN T ELSE reach[T \cup next(T)]
  IN  reach[S]

\* The computed stores the stores S depend on, directly or not, and S.
Upstream(S) == Closure(S, LAMBDA T : UNION {deps[c] : c \in T \cap Computeds})
Downstream(S) == Closure(S, Dependents)

ComputedInit ==
  /\ calls = 0
  /\ existing = {} /\ value = [n \in Names |-> Null]
  /\ deps = [c \in Computeds |-> {}]
  /\ lastOutput = [c \in Computeds |-> Null]
  /\ subscribers = [n \in Names |-> <<>>]
  /\ pending = <<>>
  /\ isFlushing = FALSE /\ order = <<>> /\ callbacks = <<>> /\ recomputed = {}
  /\ doomed = {}
  /\ threw = {}

-----------------------------------------------------------------------------
(***************************************************************************)
(* Recomputation.                                                          *)
(***************************************************************************)

\* notify: pendingNotifications is a JavaScript Set.
Notified(p, n) == IF Contains(p, n) THEN p ELSE Append(p, n)

\* The compute function of store c with dependencies ds, over the values v.
Compute(c, ds, v) == Output(c, [d \in ds |-> v[d]])

\* _runCompute: a compute function that throws leaves the value it finds.
RunCompute(c, ds, v, faulty) == IF c \in faulty THEN v[c] ELSE Compute(c, ds, v)

\* What a recomputation reads and writes.
Cells == [value |-> value, lastOutput |-> lastOutput, pending |-> pending, threw |-> threw]

SetCells(cells) ==
  /\ value' = cells.value
  /\ lastOutput' = cells.lastOutput
  /\ pending' = cells.pending
  /\ threw' = cells.threw

\* Mutant of Recompute: the new value is stored without a notification.
RecomputeSilently(cells, c, ds, faulty) ==
  LET next == RunCompute(c, ds, cells.value, faulty)
      ran == [cells EXCEPT !.threw = IF c \in faulty THEN @ \cup {c} ELSE @ \ {c}]
  IN  IF ~Registered(c) THEN cells
      ELSE IF next \in {cells.lastOutput[c], cells.value[c]} THEN ran
      ELSE [ran EXCEPT !.value[c] = next, !.lastOutput[c] = next]

\* _recomputeAndFlush by a callback made for the dependencies ds, after the test of
\* computedFlushHistory: an output that is not new is not stored.
Recompute(cells, c, ds, faulty) ==
  LET next == RunCompute(c, ds, cells.value, faulty)
      ran == [cells EXCEPT !.threw = IF c \in faulty THEN @ \cup {c} ELSE @ \ {c}]
  IN  IF ~Registered(c) THEN cells
      ELSE IF next \in {cells.lastOutput[c], cells.value[c]} THEN ran
      ELSE [ran EXCEPT !.value[c] = next, !.lastOutput[c] = next, !.pending = Notified(@, c)]

\* _recomputeAndFlush: in a flush a computed store is recomputed once.
RecomputeAndFlush(c, ds) ==
  IF isFlushing /\ c \in recomputed
  THEN UNCHANGED <<value, lastOutput, pending, threw, recomputed>>
  ELSE /\ \E faulty \in SUBSET {c} : SetCells(Recompute(Cells, c, ds, faulty))
       /\ recomputed' = IF isFlushing /\ Registered(c) THEN recomputed \cup {c} ELSE recomputed

-----------------------------------------------------------------------------
(***************************************************************************)
(* The flush.                                                              *)
(***************************************************************************)

\* computeTopoOrderedComputeds: what is downstream of the stores S, with what that
\* depends on.
Affected(S) == {c \in Upstream(Downstream(Dependents(S))) : Registered(c)}

\* That but for S, the first name first among those that are ready.
TopoOrder(S) ==
  LET sorted[rest \in SUBSET Computeds] ==
        LET ready == {c \in rest : deps[c] \cap rest = {}}
            first == CHOOSE c \in ready : \A d \in ready : c <= d
        IN  IF ready = {} THEN <<>>
            ELSE (IF first \in S THEN <<>> ELSE <<first>>) \o sorted[rest \ {first}]
  IN  sorted[Affected(S)]

\* buildFlushPlan: what is pending, then the computed stores downstream.
StartFlush ==
  /\ ~isFlushing /\ doomed = {} /\ pending # <<>>
  /\ isFlushing' = TRUE
  /\ order' = pending \o TopoOrder(ToSet(pending))
  /\ pending' = <<>>
  /\ recomputed' = {}
  /\ UNCHANGED <<calls, cellVars, graphVars, lastOutput, callbacks, doomed, threw>>

TakeName ==
  /\ isFlushing /\ callbacks = <<>> /\ order # <<>>
  /\ callbacks' = [i \in DOMAIN subscribers[Head(order)] |->
                     LET c == subscribers[Head(order)][i] IN [name |-> c, deps |-> deps[c]]]
  /\ order' = Tail(order)
  /\ UNCHANGED <<calls, cellVars, graphVars, lastOutput, pending, isFlushing, recomputed,
                 doomed, threw>>

RunCallback ==
  /\ callbacks # <<>>
  /\ callbacks' = Tail(callbacks)
  /\ RecomputeAndFlush(Head(callbacks).name, Head(callbacks).deps)
  /\ UNCHANGED <<calls, existing, graphVars, isFlushing, order, doomed>>

FinishFlush ==
  /\ isFlushing /\ callbacks = <<>> /\ order = <<>>
  /\ isFlushing' = FALSE
  /\ UNCHANGED <<calls, cellVars, graphVars, lastOutput, pending, order, callbacks,
                 recomputed, doomed, threw>>

-----------------------------------------------------------------------------
(***************************************************************************)
(* Calls of the application.                                               *)
(***************************************************************************)

Call == doomed = {} /\ calls < MaxCalls /\ calls' = calls + 1

\* createStore: who subscribed before is notified.
Create(n) ==
  /\ Call
  /\ n \notin existing
  /\ existing' = existing \cup {n}
  /\ \E v \in Values : value' = [value EXCEPT ![n] = v]
  /\ pending' = IF subscribers[n] # <<>> THEN Notified(pending, n) ELSE pending
  /\ UNCHANGED <<graphVars, lastOutput, flushVars, doomed, threw>>

Write(n) ==
  /\ Call
  /\ n \in existing
  /\ DirectWrites \/ ~Registered(n)
  /\ \E v \in Values \ {value[n]} : value' = [value EXCEPT ![n] = v]
  /\ pending' = Notified(pending, n)
  /\ UNCHANGED <<existing, graphVars, lastOutput, flushVars, doomed, threw>>

\* invalidateComputed.  In a batch it sees a staged write of store n; a failed batch
\* takes both writes back, but not what the entry remembers.
InvalidateComputed(c) ==
  /\ Call
  /\ Registered(c)
  /\ \E fails \in {FALSE, RolledBack} :
       IF fails
       THEN /\ ~isFlushing
            /\ \E n \in {d \in deps[c] : value[d] # Null} : \E v \in Values \ {value[n]} :
                 LET staged == [Cells EXCEPT !.value[n] = v]
                 IN  lastOutput' = Recompute(staged, c, deps[c], {}).lastOutput
            /\ UNCHANGED <<value, pending, threw, recomputed>>
       ELSE RecomputeAndFlush(c, deps[c])
  /\ UNCHANGED <<existing, graphVars, isFlushing, order, callbacks, doomed>>

\* The cleanup of a computed store: no subscriptions, no entry.
Unsubscribed(c) == [n \in Names |-> RemoveFirst(subscribers[n], c)]
Unregistered(c) == [deps EXCEPT ![c] = {}]

\* deleteComputed: the store stays, as a plain store.
DeleteComputed(c) ==
  /\ Call
  /\ Registered(c)
  /\ subscribers' = Unsubscribed(c)
  /\ deps' = Unregistered(c)
  /\ UNCHANGED <<cellVars, lastOutput, pending, flushVars, doomed, threw>>

\* Mutant of MakesCycle: only a store that depends on itself is a cycle.
DependsOnItself(c, ds) == c \in ds

\* detectCycle
MakesCycle(c, ds) == c \in Upstream(ds)

\* createComputed: what there was under the name is torn down first, and stays so when
\* the dependencies make a cycle or are not names.
CreateComputed(c, ds) ==
  /\ Call
  /\ RecreateCalled \/ \A i \in DOMAIN callbacks : callbacks[i].name # c
  /\ \/ /\ Registered(c)
        /\ subscribers' = Unsubscribed(c)
        /\ deps' = Unregistered(c)
        /\ UNCHANGED <<cellVars, lastOutput, pending, threw>>
     \/ /\ ~MakesCycle(c, ds)
        /\ deps' = [deps EXCEPT ![c] = ds]
        /\ subscribers' = [n \in Names |->
             IF n \in ds THEN Append(Unsubscribed(c)[n], c) ELSE Unsubscribed(c)[n]]
        /\ \E faulty \in SUBSET {c} :
             LET initial == RunCompute(c, ds, value, faulty)
             IN  /\ value' = [value EXCEPT ![c] = initial]
                 /\ lastOutput' = [lastOutput EXCEPT ![c] = initial]
                 /\ threw' = IF c \in faulty THEN threw \cup {c} ELSE threw \ {c}
        /\ existing' = existing \cup {c}
        /\ pending' = IF c \in existing \/ subscribers[c] # <<>> THEN Notified(pending, c)
                      ELSE pending
  /\ UNCHANGED <<flushVars, doomed>>

-----------------------------------------------------------------------------
(***************************************************************************)
(* Deletion.                                                               *)
(***************************************************************************)

\* The subscribers of store n are called in turn, while the store is still there.
Told(n, faulty) ==
  LET told[i \in 0 .. Len(subscribers[n])] ==
        IF i = 0 THEN Cells
        ELSE LET c == subscribers[n][i] IN Recompute(told[i - 1], c, deps[c], faulty)
  IN  told[Len(subscribers[n])]

\* What is left once the store is gone.
Gone(cells, n) == [cells EXCEPT !.value[n] = Null, !.pending = RemoveFirst(@, n)]

\* Mutant of DeleteExistingStore: the dependents of a disposed store are not looked at.
DeleteAlone(n) ==
  /\ \E faulty \in SUBSET ToSet(subscribers[n]) : SetCells(Gone(Told(n, faulty), n))
  /\ existing' = existing \ {n}
  /\ subscribers' = [IF n \in Computeds THEN Unsubscribed(n) ELSE subscribers EXCEPT ![n] = <<>>]
  /\ deps' = IF n \in Computeds THEN Unregistered(n) ELSE deps
  /\ doomed' = IF doomed = {} THEN Dependents({n}) ELSE doomed \ {n}
  /\ UNCHANGED flushVars

\* deleteExistingStore: the subscribers are told while the store is still there; once it
\* is gone, its dependents are looked at.
DeleteExistingStore(n) ==
  /\ \E faulty \in SUBSET ToSet(subscribers[n]) : SetCells(Gone(Told(n, faulty), n))
  /\ existing' = existing \ {n}
  /\ subscribers' = [IF n \in Computeds THEN Unsubscribed(n) ELSE subscribers EXCEPT ![n] = <<>>]
  /\ deps' = IF n \in Computeds THEN Unregistered(n) ELSE deps
  /\ doomed' = (doomed \ {n}) \cup Dependents({n})
  /\ UNCHANGED flushVars

Delete(n) ==
  /\ Call
  /\ ~isFlushing
  /\ n \in existing
  /\ DeleteExistingStore(n)

\* A dependent of a deleted store goes with it when nothing it depends on is left.
Orphaned(c) == Registered(c) /\ c \in AutoDispose /\ deps[c] \cap existing = {}

Dispose(c) ==
  /\ c \in doomed /\ Orphaned(c)
  /\ DeleteExistingStore(c)
  /\ UNCHANGED calls

Keep(c) ==
  /\ c \in doomed /\ ~Orphaned(c)
  /\ doomed' = doomed \ {c}
  /\ UNCHANGED <<calls, cellVars, graphVars, lastOutput, pending, flushVars, threw>>

-----------------------------------------------------------------------------
(***************************************************************************)
(* The specification.                                                      *)
(***************************************************************************)

Flush == StartFlush \/ TakeName \/ RunCallback \/ FinishFlush
Deletion == \E c \in Computeds : Dispose(c) \/ Keep(c)

ComputedNext ==
  \/ Flush
  \/ Deletion
  \/ \E n \in Leaves : Create(n)
  \/ \E n \in Names : Write(n) \/ Delete(n)
  \/ \E c \in Computeds : InvalidateComputed(c) \/ DeleteComputed(c)
  \/ \E c \in Computeds, ds \in Definitions : CreateComputed(c, ds)

ComputedSpec ==
  ComputedInit /\ [][ComputedNext]_computedVars /\ WF_computedVars(Flush) /\ WF_computedVars(Deletion)

-----------------------------------------------------------------------------
(***************************************************************************)
(* Properties.                                                             *)
(***************************************************************************)

AtRest == ~isFlushing /\ pending = <<>> /\ doomed = {}

\* Registered, and subscribed to all it depends on: none has been deleted since.
Attached(c) == Registered(c) /\ \A n \in deps[c] : Contains(subscribers[n], c)

\* Once nothing is left to deliver, a computed store whose function did not throw holds
\* what its function gives for what its dependencies hold, whatever the order in which
\* a diamond was recomputed, and although a store is recomputed once in a flush.
ConsistentWhenIdle ==
  AtRest => \A c \in Computeds \ threw : Attached(c) => value[c] = Compute(c, deps[c], value)

\* A computed store with autoDispose outlives the last store it depended on only when
\* that store was never there: a chain of them goes with its source.
NoOrphans ==
  doomed = {} => \A c \in Computeds : Orphaned(c) => Attached(c)

\* The graph has no cycle, a registered store exists, and nobody is subscribed who
\* is not registered for the store; none is left of a chain whose source is gone.
ComputedTypeOK ==
  /\ calls \in 0 .. MaxCalls
  /\ existing \subseteq Names
  /\ value \in [Names -> Value]
  /\ \A n \in Names : value[n] # Null => n \in existing
  /\ deps \in [Computeds -> SUBSET Names]
  /\ \A c \in Computeds : Registered(c) => c \in existing /\ c \notin Upstream(deps[c])
  /\ lastOutput \in [Computeds -> Value]
  /\ subscribers \in [Names -> DistinctSeq(Computeds)]
  /\ \A n \in Names : \A c \in ToSet(subscribers[n]) : n \in deps[c]
  /\ pending \in DistinctSeq(existing)
  /\ isFlushing \in BOOLEAN
  /\ order \in DistinctSeq(Names)
  /\ callbacks \in DistinctSeq([name : Computeds, deps : SUBSET Names])
  /\ recomputed \subseteq Computeds
  /\ doomed \subseteq Computeds
  /\ threw \subseteq Computeds
  /\ NoOrphans

\* Recomputations that notify each other come to an end.
Settles == pending # <<>> ~> AtRest

=============================================================================
