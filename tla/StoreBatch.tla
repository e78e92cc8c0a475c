----------------------------- MODULE StoreBatch -----------------------------
(***************************************************************************)
(* Batches: setStoreBatch (store-notify.ts), applyStorePatchesAtomic       *)
(* (psr/index.ts), the transaction they open (store-transaction.ts) and    *)
(* stageOrCommitUpdate / commitStoreUpdate (store-write-shared.ts), with   *)
(* the store operations application code may call in a batch function, in  *)
(* a store hook (onSet, a feature's onStoreWrite) and between the two.     *)
(*                                                                         *)
(* Everything is synchronous.  Application code runs when pc = "app": at   *)
(* the top level, in a batch function (depth > 0) or in a hook of the      *)
(* commit on top of frames; pc = "commit" when endTransaction is about to  *)
(* run its next commit function.  A value is a stamp no other write has.   *)
(***************************************************************************)
EXTENDS Naturals, Sequences, FiniteSets

CONSTANTS
  Stores,        \* store names
  MaxDepth,      \* bound on nested batch functions
  MaxFrames,     \* bound on nested commits
  MaxStamp       \* bound on writes

ASSUME BatchAssumption == Stores # {} /\ {MaxDepth, MaxFrames, MaxStamp} \subseteq Nat

VARIABLES
  stamp,                                 \* the last stamp given to a write
  stores,                                \* registry.stores, Absent when there is no entry
  hasMeta, updateCount,                  \* registry.metaEntries
  pendingNotifications, notifyScheduled, batchDepth,    \* registry.notify
  depth, failed, stagedValues, pending,  \* registry.transaction
  frames,                                \* commits under way, outermost first
  pc                                     \* "app" or "commit"

registryVars == <<stores, hasMeta, updateCount>>
notifyVars == <<pendingNotifications, notifyScheduled, batchDepth>>
transactionVars == <<depth, failed, stagedValues, pending>>
vars == <<stamp, registryVars, notifyVars, transactionVars, frames, pc>>

Absent == 0
Nothing == [s \in Stores |-> Absent]
Commits == [store : Stores, next : Nat]

Snapshots == [stores : [Stores -> Nat], meta : SUBSET Stores,
              updateCount : [Stores -> Nat], pending : SUBSET Stores]

\* A direct write whose hook runs, or endTransaction's loop with its rollback
\* snapshot and the commit functions that have not returned.  "writes" and
\* "sealed" record what the batch staged and when it was closed, for AtomicBatch.
WriteFrame == [kind : {"write"}, at : Stores]
BatchFrame == [kind : {"batch"}, queue : Seq(Commits), snapshot : Snapshots,
               writes : [Stores -> Nat], sealed : Nat]
Frames == WriteFrame \cup BatchFrame

TypeOK ==
  /\ stamp \in Nat
  /\ stores \in [Stores -> Nat]
  /\ hasMeta \in [Stores -> BOOLEAN]
  /\ updateCount \in [Stores -> Nat]
  /\ pendingNotifications \in SUBSET Stores
  /\ notifyScheduled \in BOOLEAN
  /\ batchDepth \in Nat
  /\ depth \in Nat
  /\ failed \in BOOLEAN
  /\ stagedValues \in [Stores -> Nat]
  /\ pending \in Seq(Commits)
  /\ frames \in Seq(Frames)
  /\ pc \in {"app", "commit"}

\* Some stores exist; nothing has been written since.
Init ==
  /\ stamp = 1
  /\ stores \in [Stores -> {Absent, 1}]
  /\ hasMeta = [s \in Stores |-> stores[s] # Absent]
  /\ updateCount = [s \in Stores |-> 0]
  /\ pendingNotifications = {} /\ notifyScheduled = FALSE /\ batchDepth = 0
  /\ depth = 0 /\ failed = FALSE /\ stagedValues = Nothing /\ pending = <<>>
  /\ frames = <<>>
  /\ pc = "app"

exists(s) == stores[s] # Absent
Top == frames[Len(frames)]
Pop == SubSeq(frames, 1, Len(frames) - 1)

-----------------------------------------------------------------------------
(***************************************************************************)
(* Notifications: gathered while a batch is open, scheduled when it ends.  *)
(***************************************************************************)

\* notify(name)
Notify(s) ==
  /\ pendingNotifications' = pendingNotifications \cup {s}
  /\ notifyScheduled' = (notifyScheduled \/ batchDepth = 0)
  /\ UNCHANGED batchDepth

\* Mutant of LeaveBatch: closing the gate does not schedule the flush.
LeaveWithoutScheduling == batchDepth' = batchDepth - 1 /\ UNCHANGED notifyScheduled

\* setStoreBatch and applyStorePatchesAtomic once endTransaction has returned.
LeaveBatch ==
  /\ batchDepth' = batchDepth - 1
  /\ notifyScheduled' =
       (notifyScheduled \/ (batchDepth' = 0 /\ pendingNotifications' # {}))

\* A flush microtask takes everything that is pending.
Flush ==
  /\ pc = "app" /\ frames = <<>> /\ depth = 0
  /\ notifyScheduled
  /\ pendingNotifications' = {}
  /\ notifyScheduled' = FALSE
  /\ UNCHANGED <<stamp, registryVars, batchDepth, transactionVars, frames, pc>>

-----------------------------------------------------------------------------
(***************************************************************************)
(* Operations outside a batch, at the top level or in a hook.              *)
(***************************************************************************)

AppRuns == pc = "app"
Writes == stamp < MaxStamp /\ stamp' = stamp + 1

\* commitStoreUpdate up to the hooks; without metadata it throws right after it
\* has set the value.
CommitStoreUpdate(s, v) ==
  /\ stores' = [stores EXCEPT ![s] = v]
  /\ updateCount' = [updateCount EXCEPT ![s] = IF hasMeta[s] THEN @ + 1 ELSE @]
  /\ UNCHANGED hasMeta

\* setStore, replaceStore or resetStore of an existing store; its hook runs next.
WriteDirectly(s) ==
  /\ AppRuns /\ depth = 0
  /\ exists(s)
  /\ Writes
  /\ CommitStoreUpdate(s, stamp')
  /\ IF hasMeta[s]
     THEN Len(frames) < MaxFrames /\ frames' = Append(frames, [kind |-> "write", at |-> s])
     ELSE UNCHANGED frames
  /\ UNCHANGED <<notifyVars, transactionVars, pc>>

\* createStore, with subscribers already waiting for the store or not.
Create(s) ==
  /\ AppRuns /\ depth = 0
  /\ ~exists(s)
  /\ Writes
  /\ stores' = [stores EXCEPT ![s] = stamp']
  /\ hasMeta' = [hasMeta EXCEPT ![s] = TRUE]
  /\ updateCount' = [updateCount EXCEPT ![s] = 0]
  /\ Notify(s) \/ UNCHANGED notifyVars
  /\ UNCHANGED <<transactionVars, frames, pc>>

\* deleteStore; deleteExistingStore reads the metadata first and throws without.
Delete(s) ==
  /\ AppRuns /\ depth = 0
  /\ exists(s) /\ hasMeta[s]
  /\ stores' = [stores EXCEPT ![s] = Absent]
  /\ hasMeta' = [hasMeta EXCEPT ![s] = FALSE]
  /\ updateCount' = [updateCount EXCEPT ![s] = 0]
  /\ pendingNotifications' = pendingNotifications \ {s}
  /\ UNCHANGED <<stamp, notifyScheduled, batchDepth, transactionVars, frames, pc>>

-----------------------------------------------------------------------------
(***************************************************************************)
(* A batch: beginTransaction, staged writes, endTransaction.               *)
(***************************************************************************)

\* Mutants of Begin: the notification gate is not opened; and a nested batch
\* resets the staged values of the outer one.
BeginWithoutGate ==
  /\ AppRuns
  /\ depth < MaxDepth
  /\ depth' = depth + 1
  /\ IF depth = 0
     THEN failed' = FALSE /\ stagedValues' = Nothing /\ pending' = <<>>
     ELSE UNCHANGED <<failed, stagedValues, pending>>
  /\ UNCHANGED <<stamp, registryVars, notifyVars, frames, pc>>

\* beginTransaction resets the transaction when it opens the outermost one,
\* which may be while an earlier transaction is still committing.
Begin ==
  /\ AppRuns
  /\ depth < MaxDepth
  /\ batchDepth' = batchDepth + 1
  /\ depth' = depth + 1
  /\ IF depth = 0
     THEN failed' = FALSE /\ stagedValues' = Nothing /\ pending' = <<>>
     ELSE UNCHANGED <<failed, stagedValues, pending>>
  /\ UNCHANGED <<stamp, registryVars, pendingNotifications, notifyScheduled, frames, pc>>

\* A write in a batch is staged, and a commit function registered for it.
WriteStaged(s) ==
  /\ AppRuns /\ depth > 0
  /\ exists(s)
  /\ Writes
  /\ stagedValues' = [stagedValues EXCEPT ![s] = stamp']
  /\ pending' = Append(pending, [store |-> s, next |-> stamp'])
  /\ UNCHANGED <<registryVars, notifyVars, depth, failed, frames, pc>>

\* What marks the transaction failed: a write of a missing store, one that
\* validation or middleware refuses, and createStore, deleteStore, hydrateStores
\* or clearAllStores, none of which may be used in a batch.
FailInBatch ==
  /\ AppRuns /\ depth > 0
  /\ failed' = TRUE
  /\ UNCHANGED <<stamp, registryVars, notifyVars, depth, stagedValues, pending, frames, pc>>

\* endTransaction of a nested batch; "thrown" when its function threw.
EndNested(thrown) ==
  /\ AppRuns /\ depth > 1
  /\ depth' = depth - 1
  /\ failed' = (failed \/ thrown)
  /\ UNCHANGED pendingNotifications
  /\ LeaveBatch
  /\ UNCHANGED <<stamp, registryVars, stagedValues, pending, frames, pc>>

\* The last lines of endTransaction.
ResetTransaction ==
  /\ depth' = 0
  /\ failed' = FALSE
  /\ stagedValues' = Nothing
  /\ pending' = <<>>

\* The outermost batch failed before anything was committed.
EndFailed(thrown) ==
  /\ AppRuns /\ depth = 1
  /\ failed \/ thrown
  /\ ResetTransaction
  /\ UNCHANGED pendingNotifications
  /\ LeaveBatch
  /\ UNCHANGED <<stamp, registryVars, frames, pc>>

\* captureTransactionRollbackSnapshot
Snapshot == [stores |-> stores, meta |-> {s \in Stores : hasMeta[s]},
             updateCount |-> updateCount, pending |-> pendingNotifications]

\* The outermost batch starts to commit: depth is 0 from here on.
EndAndCommit ==
  /\ AppRuns /\ depth = 1
  /\ ~failed
  /\ Len(frames) < MaxFrames
  /\ depth' = 0
  /\ frames' = Append(frames, [kind |-> "batch", queue |-> pending, snapshot |-> Snapshot,
                               writes |-> stagedValues, sealed |-> stamp])
  /\ pc' = "commit"
  /\ UNCHANGED <<stamp, registryVars, notifyVars, failed, stagedValues, pending>>

\* The next commit function: commitStoreUpdate, then the store's hook.
CommitNext ==
  /\ pc = "commit"
  /\ Top.queue # <<>>
  /\ LET c == Head(Top.queue)
     IN /\ hasMeta[c.store]
        /\ CommitStoreUpdate(c.store, c.next)
  /\ pc' = "app"
  /\ UNCHANGED <<stamp, notifyVars, transactionVars, frames>>

\* Mutant of Restore: the values are left as the partial commit made them.
RestoreNotifications(snapshot) ==
  /\ pendingNotifications' = snapshot.pending
  /\ UNCHANGED registryVars

\* restoreTransactionRollbackSnapshot: the values of all stores, the metadata
\* that is still there and the pending notifications; metadata a hook has
\* deleted is not made again, nor metadata it created taken away.
Restore(snapshot) ==
  /\ stores' = snapshot.stores
  /\ updateCount' = [s \in Stores |-> IF hasMeta[s] /\ s \in snapshot.meta
                                      THEN snapshot.updateCount[s] ELSE updateCount[s]]
  /\ pendingNotifications' = snapshot.pending
  /\ UNCHANGED hasMeta

\* The next commit function throws, because a hook deleted its store.
CommitThrows ==
  /\ pc = "commit"
  /\ Top.queue # <<>>
  /\ ~hasMeta[Head(Top.queue).store]
  /\ Restore(Top.snapshot)
  /\ ResetTransaction
  /\ LeaveBatch
  /\ frames' = Pop
  /\ pc' = "app"
  /\ UNCHANGED stamp

\* The hook of the commit on top returns and the store is notified.
HookReturns ==
  /\ AppRuns /\ depth = 0 /\ frames # <<>>
  /\ IF Top.kind = "batch"
     THEN /\ Notify(Head(Top.queue).store)
          /\ frames' = [frames EXCEPT ![Len(frames)].queue = Tail(@)]
          /\ pc' = "commit"
     ELSE /\ Notify(Top.at)
          /\ frames' = Pop
          /\ UNCHANGED pc
  /\ UNCHANGED <<stamp, registryVars, transactionVars>>

\* Every commit function has run.
CommitDone ==
  /\ pc = "commit"
  /\ Top.queue = <<>>
  /\ ResetTransaction
  /\ UNCHANGED pendingNotifications
  /\ LeaveBatch
  /\ frames' = Pop
  /\ pc' = "app"
  /\ UNCHANGED <<stamp, registryVars>>

-----------------------------------------------------------------------------
Next ==
  \/ \E s \in Stores : WriteDirectly(s) \/ Create(s) \/ Delete(s) \/ WriteStaged(s)
  \/ Begin \/ FailInBatch
  \/ \E thrown \in BOOLEAN : EndNested(thrown) \/ EndFailed(thrown)
  \/ EndAndCommit \/ CommitNext \/ CommitThrows \/ HookReturns \/ CommitDone
  \/ Flush

Spec == Init /\ [][Next]_vars

-----------------------------------------------------------------------------
(***************************************************************************)
(* Properties.                                                             *)
(***************************************************************************)

\* The batches that are committing, by their place in frames.
Batches == {i \in 1 .. Len(frames) : frames[i].kind = "batch"}

\* The batch gate is balanced: batchDepth counts exactly the batch functions
\* that run and the batches that commit, whichever way they end.  If it leaked,
\* notify would never schedule a flush again.
GateBalanced == batchDepth = depth + Cardinality(Batches)

\* Nothing pending is forgotten: the gate is left by every batch, and once none is
\* under way pending notifications have a flush scheduled, also after an abort or a
\* rollback.
NoStrandedNotification ==
  GateBalanced /\ (batchDepth = 0 /\ pendingNotifications # {} => notifyScheduled)

\* Writes report their result and never throw: wherever application code runs, a
\* store that can be found also has the metadata commitStoreUpdate writes to.
WritesNeverThrow == pc = "app" => \A s \in Stores : exists(s) => hasMeta[s]

\* The outermost batch that is committing.
committing == Batches # {}
first == CHOOSE i \in Batches : \A j \in Batches : i <= j
outermost == frames[first]

\* The batch as the rest of the program sees it.
Atomic == INSTANCE AtomicBatch WITH
  clock <- stamp,
  db <- IF committing THEN outermost.snapshot.stores ELSE stores,
  owed <- IF committing THEN outermost.snapshot.pending ELSE pendingNotifications,
  phase <- IF committing THEN "committing" ELSE IF depth > 0 THEN "open" ELSE "none",
  writes <- IF committing THEN outermost.writes ELSE stagedValues,
  doomed <- ~committing /\ failed,
  sealed <- IF committing THEN outermost.sealed ELSE 0

\* Batches are atomic: whatever hooks write, create, delete or batch while one
\* commits, it takes effect in one step or not at all.
BatchAtomic == Atomic!Spec
=============================================================================
