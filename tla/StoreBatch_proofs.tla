-------------------------- MODULE StoreBatch_proofs --------------------------
(***************************************************************************)
(* Proofs about StoreBatch, for any stores, any nesting of batches and of  *)
(* commits, and any number of writes.                                      *)
(***************************************************************************)
EXTENDS StoreBatch, SequenceTheorems, FiniteSetTheorems, WellFoundedInduction, TLAPS

-----------------------------------------------------------------------------
(***************************************************************************)
(* Types.                                                                  *)
(***************************************************************************)

LEMMA InitType == Init => TypeOK
<1> SUFFICES ASSUME Init PROVE TypeOK
  OBVIOUS
<1>1. stores \in [Stores -> Nat] /\ stagedValues \in [Stores -> Nat]
  BY DEF Init, Absent, Nothing
<1>2. pending \in Seq(Commits) /\ frames \in Seq(Frames)
  BY DEF Init
<1>3. hasMeta \in [Stores -> BOOLEAN] /\ updateCount \in [Stores -> Nat]
  BY DEF Init
<1> QED BY <1>1, <1>2, <1>3 DEF Init, TypeOK

\* The kind of a frame says which of its fields it has.
LEMMA FrameKinds ==
  ASSUME NEW f \in Frames
  PROVE  IF f.kind = "batch" THEN f \in BatchFrame ELSE f \in WriteFrame
BY DEF Frames, BatchFrame, WriteFrame

\* The frame on top, and what is below it.
LEMMA TopFacts ==
  ASSUME TypeOK, frames # <<>>
  PROVE  /\ Len(frames) \in 1 .. Len(frames)
         /\ Top \in Frames
         /\ Pop \in Seq(Frames)
         /\ Len(Pop) = Len(frames) - 1
         /\ \A i \in 1 .. Len(frames) - 1 : Pop[i] = frames[i]
<1>1. frames \in Seq(Frames)
  BY DEF TypeOK
<1>2. Len(frames) \in Nat /\ Len(frames) > 0
  BY <1>1, EmptySeq, LenProperties
<1>3. Top \in Frames
  BY <1>1, <1>2, ElementOfSeq DEF Top
<1>4. \A i \in 1 .. Len(frames) - 1 : frames[i] \in Frames
  BY <1>1, <1>2, ElementOfSeq
<1>5. /\ Pop \in Seq(Frames)
      /\ Len(Pop) = Len(frames) - 1
      /\ \A i \in 1 .. Len(frames) - 1 : Pop[i] = frames[i]
  <2> DEFINE n == Len(frames) - 1
  <2>1. n \in Nat
    BY <1>2
  <2> HIDE DEF n
  <2>2. /\ SubSeq(frames, 1, n) \in Seq(Frames)
        /\ Len(SubSeq(frames, 1, n)) = n
        /\ \A i \in 1 .. n : SubSeq(frames, 1, n)[i] = frames[i]
    <3>1. /\ SubSeq(frames, 1, n) \in Seq(Frames)
          /\ Len(SubSeq(frames, 1, n)) = IF 1 <= n THEN n - 1 + 1 ELSE 0
          /\ \A i \in 1 .. n - 1 + 1 : SubSeq(frames, 1, n)[i] = frames[1 + i - 1]
      BY <1>4, <2>1, SubSeqProperties DEF n
    <3> QED BY <2>1, <3>1
  <2> QED BY <2>2 DEF n, Pop
<1> QED
  BY <1>2, <1>3, <1>5

LEMMA QueueType ==
  ASSUME NEW queue \in Seq(Commits)
  PROVE  /\ Len(queue) \in Nat
         /\ \A i \in 1 .. Len(queue) : queue[i].store \in Stores /\ queue[i].next \in Nat
<1>1. Len(queue) \in Nat /\ \A i \in 1 .. Len(queue) : queue[i] \in Commits
  BY LenProperties, ElementOfSeq
<1> QED BY <1>1 DEF Commits

\* The snapshot a batch takes, and the frame it opens.
LEMMA OpenedFrame ==
  ASSUME TypeOK
  PROVE  [kind |-> "batch", queue |-> pending, snapshot |-> Snapshot,
          writes |-> stagedValues, sealed |-> stamp] \in BatchFrame
<1>1. Snapshot \in Snapshots
  BY DEF TypeOK, Snapshot, Snapshots
<1> QED BY <1>1 DEF TypeOK, BatchFrame

\* A commit and a write of a hook, a rollback, the end of a batch.
LEMMA CommitType ==
  ASSUME TypeOK, NEW s \in Stores, NEW v \in Nat, CommitStoreUpdate(s, v)
  PROVE  /\ stores' \in [Stores -> Nat] /\ updateCount' \in [Stores -> Nat]
         /\ hasMeta' \in [Stores -> BOOLEAN]
<1>1. (IF hasMeta[s] THEN updateCount[s] + 1 ELSE updateCount[s]) \in Nat
  BY DEF TypeOK
<1> QED BY <1>1 DEF TypeOK, CommitStoreUpdate

LEMMA EmptyType == Nothing \in [Stores -> Nat] /\ <<>> \in Seq(Commits)
BY EmptySeq DEF Nothing, Absent

LEMMA ResetType ==
  ASSUME ResetTransaction
  PROVE  /\ depth' \in Nat /\ failed' \in BOOLEAN
         /\ stagedValues' \in [Stores -> Nat] /\ pending' \in Seq(Commits)
BY EmptyType DEF ResetTransaction

LEMMA RestoreType ==
  ASSUME TypeOK, NEW snapshot \in Snapshots, Restore(snapshot)
  PROVE  /\ stores' \in [Stores -> Nat] /\ updateCount' \in [Stores -> Nat]
         /\ hasMeta' \in [Stores -> BOOLEAN] /\ pendingNotifications' \in SUBSET Stores
<1>1. \A s \in Stores : (IF hasMeta[s] /\ s \in snapshot.meta
                         THEN snapshot.updateCount[s] ELSE updateCount[s]) \in Nat
  BY DEF TypeOK, Snapshots
<1> QED BY <1>1 DEF TypeOK, Restore, Snapshots

-----------------------------------------------------------------------------
(***************************************************************************)
(* The stack of commits: how a step moves it.                              *)
(***************************************************************************)

\* Every set of numbers has a least element, and it is the one CHOOSE picks.
LEMMA LeastExists ==
  ASSUME NEW S \in SUBSET Nat, S # {}
  PROVE  \E i \in S : \A j \in S : i <= j
<1>1. PICK R : R = OpToRel(<, Nat)
  OBVIOUS
<1>2. IsWellFoundedOn(R, Nat)
  BY <1>1, NatLessThanWellFounded
<1>3. \A i, j \in Nat : i < j => <<i, j>> \in R
  BY <1>1 DEF OpToRel
<1>4. PICK i \in S : \A j \in S : <<j, i>> \notin R
  BY <1>2, WFMin
<1>5. \A j \in S : ~(j < i)
  BY <1>3, <1>4
<1>6. \A j \in S : i <= j
  BY <1>5
<1> QED BY <1>6

LEMMA LeastIs ==
  ASSUME NEW S \in SUBSET Nat, NEW i \in S, \A j \in S : i <= j
  PROVE  (CHOOSE x \in S : \A j \in S : x <= j) = i
<1> DEFINE least == CHOOSE x \in S : \A j \in S : x <= j
<1>1. least \in S /\ \A j \in S : least <= j
  OBVIOUS
<1>2. least <= i /\ i <= least
  BY <1>1
<1> HIDE DEF least
<1>3. least = i
  BY <1>1, <1>2
<1> QED BY <1>3 DEF least

LEMMA BatchesFacts ==
  ASSUME TypeOK
  PROVE  /\ Len(frames) \in Nat
         /\ Batches \in SUBSET Nat
         /\ Batches \subseteq 1 .. Len(frames)
         /\ IsFiniteSet(Batches)
         /\ \A i \in 1 .. Len(frames) : frames[i] \in Frames
         /\ \A i \in Batches : frames[i] \in BatchFrame
<1>1. Len(frames) \in Nat /\ \A i \in 1 .. Len(frames) : frames[i] \in Frames
  BY LenProperties, ElementOfSeq DEF TypeOK
<1>2. Batches \subseteq 1 .. Len(frames)
  BY DEF Batches
<1>3. IsFiniteSet(Batches)
  <2>1. IsFiniteSet(1 .. Len(frames))
    BY <1>1, FS_Interval
  <2> QED BY <1>2, <2>1, FS_Subset
<1>4. \A i \in Batches : frames[i] \in BatchFrame
  BY <1>1, FrameKinds DEF Batches
<1> QED BY <1>1, <1>2, <1>3, <1>4

\* A commit starts.
LEMMA Pushed ==
  ASSUME TypeOK, NEW f \in Frames, frames' = Append(frames, f)
  PROVE  /\ frames' \in Seq(Frames)
         /\ frames' # <<>>
         /\ Len(frames') = Len(frames) + 1
         /\ \A i \in 1 .. Len(frames) : frames'[i] = frames[i]
         /\ frames'[Len(frames) + 1] = f
         /\ Top' = f
         /\ Batches' = IF f.kind = "batch" THEN Batches \cup {Len(frames) + 1} ELSE Batches
<1>1. frames \in Seq(Frames)
  BY DEF TypeOK
<1>2. /\ frames' \in Seq(Frames)
      /\ frames' # <<>>
      /\ Len(frames') = Len(frames) + 1
      /\ \A i \in 1 .. Len(frames) : frames'[i] = frames[i]
      /\ frames'[Len(frames) + 1] = f
  BY <1>1, AppendProperties
<1>3. Top' = f
  BY <1>2 DEF Top
<1>4. Batches' = {i \in 1 .. Len(frames) + 1 : frames'[i].kind = "batch"}
  BY <1>2 DEF Batches
<1>5. Batches' = IF f.kind = "batch" THEN Batches \cup {Len(frames) + 1} ELSE Batches
  BY <1>2, <1>4, BatchesFacts DEF Batches
<1> QED BY <1>2, <1>3, <1>5

\* A commit ends.
LEMMA Popped ==
  ASSUME TypeOK, frames # <<>>, frames' = Pop
  PROVE  /\ frames' \in Seq(Frames)
         /\ Len(frames) >= 1
         /\ Len(frames') = Len(frames) - 1
         /\ \A i \in 1 .. Len(frames') : frames'[i] = frames[i]
         /\ Batches' = Batches \ {Len(frames)}
<1>1. /\ frames' \in Seq(Frames)
      /\ Len(frames) \in Nat /\ Len(frames) >= 1
      /\ Len(frames') = Len(frames) - 1
      /\ \A i \in 1 .. Len(frames) - 1 : frames'[i] = frames[i]
  BY TopFacts, BatchesFacts
<1>2. Batches' = {i \in 1 .. Len(frames) - 1 : frames'[i].kind = "batch"}
  BY <1>1 DEF Batches
<1>3. Batches' = Batches \ {Len(frames)}
  BY <1>1, <1>2 DEF Batches
<1> QED BY <1>1, <1>3

\* ExceptSeq, for a sequence that has a name.
LEMMA Replaced ==
  ASSUME NEW S, NEW seq \in Seq(S), NEW i \in 1 .. Len(seq), NEW e \in S,
         NEW new, new = [seq EXCEPT ![i] = e]
  PROVE  /\ new \in Seq(S)
         /\ Len(new) = Len(seq)
         /\ \A j \in 1 .. Len(seq) : new[j] = IF j = i THEN e ELSE seq[j]
BY ExceptSeq

\* The batch on top has run a commit function to its end.
LEMMA Ran ==
  ASSUME TypeOK, frames # <<>>, Top.kind = "batch", Top.queue # <<>>,
         frames' = [frames EXCEPT ![Len(frames)].queue = Tail(@)]
  PROVE  /\ frames' \in Seq(Frames)
         /\ Len(frames') = Len(frames)
         /\ Top'.queue = Tail(Top.queue)
         /\ Top'.snapshot = Top.snapshot
         /\ Top'.writes = Top.writes
         /\ Top'.sealed = Top.sealed
         /\ \A i \in 1 .. Len(frames) : i # Len(frames) => frames'[i] = frames[i]
         /\ Batches' = Batches
<1>1. /\ frames \in Seq(Frames)
      /\ Len(frames) \in 1 .. Len(frames)
      /\ Top \in BatchFrame
  BY TopFacts, FrameKinds DEF TypeOK
<1>0. PICK ran : ran = [Top EXCEPT !.queue = Tail(@)]
  OBVIOUS
<1>2. Tail(Top.queue) \in Seq(Commits)
  BY <1>1, HeadTailProperties DEF BatchFrame
<1>3. /\ ran \in BatchFrame /\ ran.kind = "batch"
      /\ ran.queue = Tail(Top.queue) /\ ran.snapshot = Top.snapshot
      /\ ran.writes = Top.writes /\ ran.sealed = Top.sealed
  BY <1>0, <1>1, <1>2 DEF BatchFrame
<1>4. frames' = [frames EXCEPT ![Len(frames)] = ran]
  BY <1>0 DEF Top
<1>5. /\ frames' \in Seq(Frames)
      /\ Len(frames') = Len(frames)
      /\ \A j \in 1 .. Len(frames) : frames'[j] = IF j = Len(frames) THEN ran ELSE frames[j]
  <2>1. ran \in Frames
    BY <1>3 DEF Frames
  <2> QED BY ONLY <1>1, <1>4, <2>1, Replaced
<1>6. Len(frames) \in Nat /\ Len(frames) \in Batches
  BY <1>1, BatchesFacts DEF Top, Batches
<1>7. Batches' = {i \in 1 .. Len(frames) : frames'[i].kind = "batch"}
  BY <1>5 DEF Batches
<1>8. Batches' = Batches
  BY <1>3, <1>5, <1>6, <1>7 DEF Batches
<1>9. Top' = ran
  BY <1>1, <1>5 DEF Top
<1> QED BY <1>3, <1>5, <1>8, <1>9

-----------------------------------------------------------------------------
(***************************************************************************)
(* The base of every proof below: types, the shape of the stack and the    *)
(* balance of the gate.  They are inductive only together: that a batch    *)
(* that ends finds the gate open is why batchDepth stays a number.         *)
(***************************************************************************)

\* endTransaction runs commit functions for the frame on top, outside any batch
\* function, and every other batch that commits is in the hook of its queue's head.
Stack ==
  /\ pc = "commit" => frames # <<>> /\ Top.kind = "batch" /\ depth = 0
  /\ \A i \in Batches : i < Len(frames) \/ pc = "app" => frames[i].queue # <<>>

Base == TypeOK /\ Stack /\ GateBalanced

LEMMA InitBase == Init => Base
<1> SUFFICES ASSUME Init PROVE Base
  OBVIOUS
<1>1. Batches = {}
  BY EmptySeq DEF Init, Batches
<1>2. GateBalanced
  BY <1>1, FS_EmptySet DEF Init, GateBalanced
<1>3. Stack
  BY <1>1 DEF Init, Stack
<1> QED BY <1>2, <1>3, InitType DEF Base

\* The stack stays and application code goes on.
LEMMA StackUnmoved ==
  ASSUME TypeOK, Stack, pc = "app", UNCHANGED <<frames, pc>>
  PROVE  Stack' /\ Batches' = Batches
BY DEF Stack, Batches

\* A batch function starts, and ends.
LEMMA GateOpens ==
  ASSUME Base, Begin
  PROVE  Base'
<1>1. Stack' /\ Batches' = Batches
  BY StackUnmoved DEF Base, Begin, AppRuns
<1>2. TypeOK'
  <2>1. CASE depth = 0
    <3>1. failed' \in BOOLEAN /\ stagedValues' \in [Stores -> Nat] /\ pending' \in Seq(Commits)
      BY Zenon, <2>1, EmptyType DEF Begin
    <3> QED BY <3>1 DEF Base, TypeOK, Begin, registryVars
  <2>2. CASE depth # 0
    BY <2>2 DEF Base, TypeOK, Begin, registryVars
  <2> QED BY <2>1, <2>2
<1>3. GateBalanced'
  <2>1. Cardinality(Batches) \in Nat
    BY BatchesFacts, FS_CardinalityType DEF Base
  <2> QED BY <1>1, <2>1 DEF Base, GateBalanced, Begin, TypeOK
<1> QED BY <1>1, <1>2, <1>3 DEF Base

LEMMA GateCloses ==
  ASSUME Base, NEW thrown \in BOOLEAN, EndNested(thrown) \/ EndFailed(thrown)
  PROVE  Base'
<1>1. /\ Stack' /\ Batches' = Batches
      /\ depth' = depth - 1 /\ depth >= 1
      /\ batchDepth' = batchDepth - 1
  BY StackUnmoved DEF Base, TypeOK, EndNested, EndFailed, AppRuns, LeaveBatch, ResetTransaction
<1>2. Cardinality(Batches) \in Nat
  BY BatchesFacts, FS_CardinalityType DEF Base
<1>3. batchDepth >= 1
  BY <1>1, <1>2 DEF Base, TypeOK, GateBalanced
<1>4. GateBalanced'
  BY <1>1, <1>2 DEF Base, GateBalanced, TypeOK
<1>5. notifyScheduled' \in BOOLEAN /\ pendingNotifications' = pendingNotifications
  BY DEF EndNested, EndFailed, LeaveBatch, Base, TypeOK
<1>6. TypeOK'
  <2>1. CASE EndNested(thrown)
    BY <1>1, <1>3, <1>5, <2>1 DEF Base, TypeOK, EndNested, registryVars
  <2>2. CASE EndFailed(thrown)
    BY <1>1, <1>3, <1>5, <2>2, ResetType DEF Base, TypeOK, EndFailed, registryVars
  <2> QED BY <2>1, <2>2
<1> QED BY <1>1, <1>4, <1>6 DEF Base

\* What changes neither the stack nor the gate.
LEMMA AtRest ==
  ASSUME Base, NEW s \in Stores,
         Create(s) \/ Delete(s) \/ WriteStaged(s) \/ FailInBatch \/ Flush
  PROVE  Base'
<1>1. /\ Stack' /\ Batches' = Batches
      /\ depth' = depth /\ batchDepth' = batchDepth
  BY StackUnmoved DEF Base, Create, Delete, WriteStaged, FailInBatch, Flush, AppRuns, notifyVars,
     transactionVars, Notify
<1>2. GateBalanced'
  BY <1>1 DEF Base, GateBalanced
<1>3. CASE Create(s)
  <2>1. pendingNotifications' \in SUBSET Stores /\ notifyScheduled' \in BOOLEAN
    BY <1>3 DEF Base, TypeOK, Create, Notify, notifyVars
  <2> QED BY <1>1, <1>2, <1>3, <2>1 DEF Base, TypeOK, Create, Writes, transactionVars
<1>4. CASE Delete(s)
  BY <1>1, <1>2, <1>4 DEF Base, TypeOK, Delete, Absent, transactionVars
<1>5. CASE WriteStaged(s)
  <2>1. stamp' \in Nat /\ [store |-> s, next |-> stamp'] \in Commits
    BY <1>5 DEF Base, TypeOK, WriteStaged, Writes, Commits
  <2>2. pending' \in Seq(Commits)
    BY <1>5, <2>1, AppendProperties DEF Base, TypeOK, WriteStaged
  <2> QED
    BY <1>1, <1>2, <1>5, <2>1, <2>2 DEF Base, TypeOK, WriteStaged, registryVars, notifyVars
<1>6. CASE FailInBatch
  BY <1>1, <1>2, <1>6 DEF Base, TypeOK, FailInBatch, registryVars, notifyVars
<1>7. CASE Flush
  BY <1>1, <1>2, <1>7 DEF Base, TypeOK, Flush, registryVars, transactionVars
<1> QED BY <1>3, <1>4, <1>5, <1>6, <1>7

LEMMA HookStarts ==
  ASSUME Base, NEW s \in Stores, WriteDirectly(s)
  PROVE  Base'
<1> USE DEF Base
<1>1. stamp' \in Nat
  BY DEF TypeOK, WriteDirectly, Writes
<1>2. /\ stores' \in [Stores -> Nat] /\ updateCount' \in [Stores -> Nat]
      /\ hasMeta' \in [Stores -> BOOLEAN]
  BY <1>1, CommitType DEF WriteDirectly
<1>3. CASE hasMeta[s]
  <2>1. frames' = Append(frames, [kind |-> "write", at |-> s])
    BY <1>3 DEF WriteDirectly
  <2>2. /\ [kind |-> "write", at |-> s] \in Frames
        /\ [kind |-> "write", at |-> s].kind # "batch"
    BY DEF Frames, WriteFrame
  <2>3. /\ frames' \in Seq(Frames) /\ Len(frames') = Len(frames) + 1
        /\ \A i \in 1 .. Len(frames) : frames'[i] = frames[i]
        /\ Batches' = Batches
    BY <2>1, <2>2, Pushed
  <2>4. TypeOK'
    BY <1>1, <1>2, <2>3 DEF TypeOK, WriteDirectly, notifyVars, transactionVars
  <2>5. Stack'
    BY <2>3, BatchesFacts DEF Stack, WriteDirectly, AppRuns
  <2>6. GateBalanced'
    BY <2>3 DEF GateBalanced, WriteDirectly, notifyVars, transactionVars
  <2> QED BY <2>4, <2>5, <2>6
<1>4. CASE ~hasMeta[s]
  <2>1. frames' = frames
    BY <1>4 DEF WriteDirectly
  <2>2. Stack' /\ Batches' = Batches
    BY <2>1, StackUnmoved DEF WriteDirectly, AppRuns
  <2>3. TypeOK'
    BY <1>1, <1>2, <2>1 DEF TypeOK, WriteDirectly, notifyVars, transactionVars
  <2>4. GateBalanced'
    BY <2>2 DEF GateBalanced, WriteDirectly, notifyVars, transactionVars
  <2> QED BY <2>2, <2>3, <2>4
<1> QED BY <1>3, <1>4

\* The outermost batch function of a nest ends and its commit functions follow.
LEMMA CommitStarts ==
  ASSUME Base, EndAndCommit
  PROVE  Base'
<1> USE DEF Base
<1>0. PICK f : f = [kind |-> "batch", queue |-> pending, snapshot |-> Snapshot,
                    writes |-> stagedValues, sealed |-> stamp]
  OBVIOUS
<1>1. f \in Frames /\ f.kind = "batch" /\ frames' = Append(frames, f)
  BY <1>0, OpenedFrame DEF EndAndCommit, Frames
<1>2. /\ frames' \in Seq(Frames) /\ Len(frames') = Len(frames) + 1 /\ frames' # <<>>
      /\ \A i \in 1 .. Len(frames) : frames'[i] = frames[i]
      /\ Batches' = Batches \cup {Len(frames) + 1}
      /\ Top' = f
  BY <1>1, Pushed
<1>3. TypeOK'
  BY <1>2 DEF TypeOK, EndAndCommit, registryVars, notifyVars
<1>4. Stack'
  BY <1>1, <1>2, BatchesFacts DEF Stack, EndAndCommit, AppRuns
<1>5. GateBalanced'
  <2>1. /\ IsFiniteSet(Batches) /\ Len(frames) + 1 \notin Batches
        /\ Cardinality(Batches) \in Nat
    BY BatchesFacts, FS_CardinalityType
  <2>2. Cardinality(Batches') = Cardinality(Batches) + 1
    BY <1>2, <2>1, FS_AddElement
  <2> QED BY <2>1, <2>2 DEF GateBalanced, EndAndCommit, notifyVars, TypeOK
<1> QED BY <1>3, <1>4, <1>5

\* A commit function runs up to its hook.
LEMMA CommitRuns ==
  ASSUME Base, CommitNext
  PROVE  Base'
<1> USE DEF Base
<1>1. Top \in BatchFrame /\ Head(Top.queue) \in Commits
  <2>1. Top \in BatchFrame
    BY TopFacts, FrameKinds DEF Stack, CommitNext
  <2> QED BY <2>1, HeadTailProperties DEF BatchFrame, CommitNext
<1>2. /\ stores' \in [Stores -> Nat] /\ updateCount' \in [Stores -> Nat]
      /\ hasMeta' \in [Stores -> BOOLEAN]
  BY <1>1, CommitType DEF CommitNext, Commits
<1>3. TypeOK'
  BY <1>2 DEF TypeOK, CommitNext, notifyVars, transactionVars
<1>4. Batches' = Batches /\ Stack'
  BY BatchesFacts DEF Batches, Stack, CommitNext, Top
<1>5. GateBalanced'
  BY <1>4 DEF GateBalanced, CommitNext, notifyVars, transactionVars
<1> QED BY <1>3, <1>4, <1>5

\* The batch on top ends: every commit function has run, or one has thrown.
LEMMA CommitEnds ==
  ASSUME Base, CommitDone \/ CommitThrows
  PROVE  Base'
<1> USE DEF Base
<1>1. /\ frames # <<>> /\ pc = "commit" /\ pc' = "app" /\ frames' = Pop
      /\ Len(frames) \in Batches
      /\ Top \in BatchFrame
  BY TopFacts, BatchesFacts DEF Stack, CommitDone, CommitThrows, Top, Batches
<1>2. /\ frames' \in Seq(Frames) /\ Len(frames) >= 1 /\ Len(frames') = Len(frames) - 1
      /\ \A i \in 1 .. Len(frames') : frames'[i] = frames[i]
      /\ Batches' = Batches \ {Len(frames)}
  BY <1>1, Popped
<1>3. /\ IsFiniteSet(Batches)
      /\ Cardinality(Batches) \in Nat /\ Cardinality(Batches') \in Nat
      /\ Cardinality(Batches') = Cardinality(Batches) - 1
  BY <1>1, <1>2, BatchesFacts, FS_RemoveElement, FS_CardinalityType
<1>4. /\ depth = 0 /\ depth' = 0 /\ batchDepth' = batchDepth - 1
  BY <1>1 DEF Stack, CommitDone, CommitThrows, ResetTransaction, LeaveBatch
<1>5. batchDepth' \in Nat /\ batchDepth' = depth' + Cardinality(Batches')
  BY <1>3, <1>4 DEF GateBalanced, TypeOK
<1>6. /\ failed' \in BOOLEAN /\ stagedValues' \in [Stores -> Nat] /\ pending' \in Seq(Commits)
      /\ stamp' = stamp
  BY ResetType DEF CommitDone, CommitThrows
<1>7. notifyScheduled' \in BOOLEAN
  BY DEF TypeOK, CommitDone, CommitThrows, LeaveBatch
<1>8. /\ stores' \in [Stores -> Nat] /\ updateCount' \in [Stores -> Nat]
      /\ hasMeta' \in [Stores -> BOOLEAN] /\ pendingNotifications' \in SUBSET Stores
  <2>1. CASE CommitDone
    BY <2>1 DEF TypeOK, CommitDone, registryVars
  <2>2. CASE CommitThrows
    BY <1>1, <2>2, RestoreType DEF CommitThrows, BatchFrame
  <2> QED BY <2>1, <2>2
<1>9. TypeOK'
  BY <1>1, <1>2, <1>4, <1>5, <1>6, <1>7, <1>8 DEF TypeOK
<1>10. Stack'
  BY <1>1, <1>2, BatchesFacts DEF Stack
<1> QED BY <1>5, <1>9, <1>10 DEF GateBalanced

\* A hook returns: its commit is done, or the write it belongs to.
LEMMA HookEnds ==
  ASSUME Base, HookReturns
  PROVE  Base'
<1> USE DEF Base
<1>1. CASE Top.kind = "batch"
  <2>1. Len(frames) \in Batches /\ Top.queue # <<>> /\ Top \in BatchFrame
    BY <1>1, TopFacts, BatchesFacts DEF Stack, HookReturns, AppRuns, Top, Batches
  <2>2. frames' = [frames EXCEPT ![Len(frames)].queue = Tail(@)]
    BY <1>1 DEF HookReturns
  <2>3. /\ frames' \in Seq(Frames) /\ Len(frames') = Len(frames) /\ Batches' = Batches
        /\ \A i \in 1 .. Len(frames) : i # Len(frames) => frames'[i] = frames[i]
    BY <1>1, <2>1, <2>2, Ran DEF HookReturns
  <2>4. Notify(Head(Top.queue).store) /\ Head(Top.queue).store \in Stores /\ pc' = "commit"
    <3>1. Head(Top.queue) \in Commits
      BY <2>1, HeadTailProperties DEF BatchFrame
    <3> QED BY <1>1, <3>1 DEF HookReturns, Commits
  <2>5. TypeOK'
    BY <2>3, <2>4 DEF TypeOK, HookReturns, Notify, registryVars, transactionVars
  <2>6. Stack'
    <3>1. frames' # <<>> /\ Top'.kind = "batch"
      BY <2>1, <2>3, BatchesFacts, EmptySeq DEF Batches, Top
    <3>2. \A i \in Batches' : i < Len(frames') => frames'[i].queue # <<>>
      BY <2>1, <2>3, BatchesFacts DEF Stack
    <3> QED BY <2>4, <3>1, <3>2 DEF Stack, HookReturns, transactionVars
  <2>7. GateBalanced'
    BY <2>3, <2>4 DEF GateBalanced, HookReturns, Notify, transactionVars
  <2> QED BY <2>5, <2>6, <2>7
<1>2. CASE Top.kind # "batch"
  <2>1. frames # <<>> /\ frames' = Pop /\ Top \in WriteFrame /\ pc' = pc
    BY <1>2, TopFacts, FrameKinds DEF HookReturns
  <2>2. /\ frames' \in Seq(Frames) /\ Len(frames') = Len(frames) - 1
        /\ \A i \in 1 .. Len(frames') : frames'[i] = frames[i]
        /\ Batches' = Batches \ {Len(frames)}
        /\ Len(frames) \notin Batches
    BY <1>2, <2>1, Popped DEF Batches, Top
  <2>3. Notify(Top.at) /\ Top.at \in Stores
    BY <1>2, <2>1 DEF HookReturns, WriteFrame
  <2>4. TypeOK'
    BY <2>1, <2>2, <2>3 DEF TypeOK, HookReturns, Notify, registryVars, transactionVars
  <2>5. Batches' = Batches
    BY <2>2
  <2>6. Stack'
    BY <2>1, <2>2, <2>5, BatchesFacts DEF Stack, HookReturns, AppRuns
  <2>7. GateBalanced'
    BY <2>3, <2>5 DEF GateBalanced, HookReturns, Notify, transactionVars
  <2> QED BY <2>4, <2>6, <2>7
<1> QED BY <1>1, <1>2

LEMMA NextBase == Base /\ [Next]_vars => Base'
<1> SUFFICES ASSUME Base, [Next]_vars PROVE Base'
  OBVIOUS
<1>1. CASE UNCHANGED vars
  BY <1>1 DEF vars, registryVars, notifyVars, transactionVars, Base, TypeOK, Stack, Top,
     GateBalanced, Batches
<1>2. ASSUME NEW s \in Stores, WriteDirectly(s) \/ Create(s) \/ Delete(s) \/ WriteStaged(s)
      PROVE  Base'
  BY <1>2, HookStarts, AtRest
<1>3. CASE Begin \/ FailInBatch \/ Flush
  BY <1>3, GateOpens, AtRest, BatchAssumption
<1>4. ASSUME NEW thrown \in BOOLEAN, EndNested(thrown) \/ EndFailed(thrown)
      PROVE  Base'
  BY <1>4, GateCloses
<1>5. CASE EndAndCommit \/ CommitNext \/ CommitThrows \/ HookReturns \/ CommitDone
  BY <1>5, CommitStarts, CommitRuns, CommitEnds, HookEnds
<1> QED BY <1>1, <1>2, <1>3, <1>4, <1>5 DEF Next

\* Every state of the model is well formed; in particular the gate is never closed
\* more often than it was opened.
THEOREM TypeCorrect == Spec => []TypeOK
<1>1. Base => TypeOK
  BY DEF Base
<1> QED BY <1>1, InitBase, NextBase, PTL DEF Spec

-----------------------------------------------------------------------------
(***************************************************************************)
(* Notifications.                                                          *)
(***************************************************************************)

Scheduled == batchDepth = 0 /\ pendingNotifications # {} => notifyScheduled

LEMMA NextScheduled == Base /\ Scheduled /\ [Next]_vars => Scheduled'
<1> SUFFICES ASSUME Base, Scheduled, [Next]_vars PROVE Scheduled'
  OBVIOUS
<1> USE DEF Scheduled
<1>1. CASE UNCHANGED vars
  BY <1>1 DEF vars, notifyVars
<1>2. ASSUME NEW s \in Stores, WriteDirectly(s) \/ Create(s) \/ Delete(s) \/ WriteStaged(s)
      PROVE  Scheduled'
  BY <1>2 DEF WriteDirectly, Create, Delete, WriteStaged, Notify, notifyVars
<1>3. CASE Begin \/ FailInBatch \/ Flush
  BY <1>3 DEF Begin, FailInBatch, Flush, notifyVars, Base, TypeOK
<1>4. ASSUME NEW thrown \in BOOLEAN, EndNested(thrown) \/ EndFailed(thrown)
      PROVE  Scheduled'
  BY <1>4 DEF EndNested, EndFailed, LeaveBatch
<1>5. CASE EndAndCommit \/ CommitNext \/ CommitThrows \/ CommitDone
  BY <1>5 DEF EndAndCommit, CommitNext, CommitThrows, CommitDone, LeaveBatch, notifyVars
<1>6. CASE HookReturns
  BY <1>6 DEF HookReturns, Notify
<1> QED BY <1>1, <1>2, <1>3, <1>4, <1>5, <1>6 DEF Next

\* No notification is stranded: however batches nest, fail, throw or roll back, the
\* gate closes as often as it opens, and once it is closed whatever is pending has a
\* flush scheduled.
THEOREM NothingStranded == Spec => []NoStrandedNotification
<1>1. Init => Scheduled
  BY DEF Init, Scheduled
<1>2. Base /\ Scheduled => NoStrandedNotification
  BY DEF Base, Scheduled, NoStrandedNotification
<1> QED BY <1>1, <1>2, InitBase, NextBase, NextScheduled, PTL DEF Spec
-----------------------------------------------------------------------------
(***************************************************************************)
(* Batches are atomic.  What stands between the steps of the batch that    *)
(* commits and the one step of AtomicBatch is that hooks may write, delete *)
(* and create stores, open and commit batches of their own, and have those *)
(* rolled back, to a state in which the outer batch was half applied.  So  *)
(* the invariant says of the stores, and of every snapshot a nested batch  *)
(* may yet restore, that they hold what the outer batch has applied so far.*)
(***************************************************************************)

BoundedFrame(f, n) ==
  /\ f.sealed <= n
  /\ \A s \in Stores : f.snapshot.stores[s] <= n
  /\ \A i \in 1 .. Len(f.queue) : f.queue[i].next \in 1 .. n

\* What the program holds is as old as its stamp at most.
Bounded ==
  /\ \A s \in Stores : stores[s] <= stamp /\ stagedValues[s] <= stamp
  /\ \A i \in 1 .. Len(pending) : pending[i].next \in 1 .. stamp
  /\ \A k \in Batches : BoundedFrame(frames[k], stamp)

\* Each store's last commit in queue carries the value the batch staged last.
LastWins(queue, writes) ==
  \A i \in 1 .. Len(queue) :
    \/ queue[i].next = writes[queue[i].store]
    \/ \E j \in i + 1 .. Len(queue) : queue[j].store = queue[i].store

\* The open transaction registered a commit function for every store it staged, and
\* none is left over once no batch is under way.
Registered ==
  /\ depth > 0 =>
       /\ LastWins(pending, stagedValues)
       /\ \A s \in Stores : stagedValues[s] # Absent =>
            \E i \in 1 .. Len(pending) : pending[i].store = s
  /\ depth = 0 /\ ~committing => ~failed /\ stagedValues = Nothing

\* The value the outermost batch gives a store, or leaves it.
own(s) == IF outermost.writes[s] # Absent
          THEN outermost.writes[s] ELSE outermost.snapshot.stores[s]

\* The commit functions of the outermost batch that have not set their value: the
\* first has when its hook runs.
Unapplied ==
  IF first = Len(frames) /\ pc = "commit"
  THEN 1 .. Len(outermost.queue) ELSE 2 .. Len(outermost.queue)

\* A store that no commit function of the outermost batch will set any more holds
\* what it was to hold, or what a hook made of it; if it holds the former and is to
\* be notified, it is among those to notify.
Kept(values, notified) ==
  \A s \in Stores :
    /\ (\A i \in Unapplied : outermost.queue[i].store # s)
         => values[s] \in {own(s), Absent} \cup (outermost.sealed + 1 .. stamp)
    /\ /\ \A i \in 1 .. Len(outermost.queue) : outermost.queue[i].store # s
       /\ values[s] = own(s) /\ own(s) # Absent
       /\ outermost.writes[s] # Absent \/ s \in outermost.snapshot.pending
       => s \in notified

\* What was staged since the outermost batch closed is newer than what it staged.
Newer(queue) == \A i \in 1 .. Len(queue) : queue[i].next > outermost.sealed

HalfApplied ==
  committing =>
    /\ \A s \in Stores : own(s) <= outermost.sealed
    /\ LastWins(outermost.queue, outermost.writes)
    /\ Kept(stores, pendingNotifications)
    /\ depth > 0 => Newer(pending)
    /\ \A k \in Batches \ {first} :
         /\ Newer(frames[k].queue)
         /\ Kept(frames[k].snapshot.stores, frames[k].snapshot.pending)

IInv == Base /\ Bounded /\ Registered /\ HalfApplied

LEMMA InitInv == Init => IInv
<1> SUFFICES ASSUME Init PROVE IInv
  OBVIOUS
<1>1. Batches = {} /\ ~committing
  BY EmptySeq DEF Init, Batches, committing
<1>2. Bounded
  BY <1>1, EmptySeq DEF Init, Bounded, Nothing, Absent
<1>3. Registered
  BY <1>1 DEF Init, Registered
<1>4. HalfApplied
  BY <1>1 DEF HalfApplied
<1> QED BY <1>2, <1>3, <1>4, InitBase DEF IInv

\* A frame ages well, and running its commit functions leaves fewer.
LEMMA FrameAges ==
  ASSUME NEW f \in BatchFrame, NEW n \in Nat, NEW m \in Nat, n <= m, BoundedFrame(f, n)
  PROVE  BoundedFrame(f, m)
<1>1. f.sealed \in Nat /\ f.queue \in Seq(Commits) /\ f.snapshot.stores \in [Stores -> Nat]
  BY DEF BatchFrame, Snapshots
<1>2. \A i \in 1 .. Len(f.queue) : f.queue[i].next \in Nat
  BY <1>1, QueueType
<1> QED BY <1>1, <1>2 DEF BoundedFrame

\* A step that does not touch the batches that commit.
LEMMA BoundedFramesStay ==
  ASSUME Base, Base', Bounded, stamp' \in {stamp, stamp + 1}, Batches' \subseteq Batches,
         \A k \in Batches' : frames'[k] = frames[k]
  PROVE  \A k \in Batches' : BoundedFrame(frames'[k], stamp')
<1>1. \A k \in Batches' : frames[k] \in BatchFrame /\ BoundedFrame(frames[k], stamp)
  BY BatchesFacts DEF Base, Bounded
<1>2. stamp \in Nat /\ stamp' \in Nat /\ stamp <= stamp'
  BY DEF Base, TypeOK
<1> QED BY <1>1, <1>2, FrameAges

\* The frames of a step that only has the frame on top added or taken away, or none.
LEMMA BatchesShrink ==
  ASSUME Base, NEW s \in Stores,
         \/ WriteDirectly(s) \/ Create(s) \/ Delete(s) \/ WriteStaged(s)
         \/ Begin \/ FailInBatch \/ Flush
         \/ \E thrown \in BOOLEAN : EndNested(thrown) \/ EndFailed(thrown)
         \/ CommitNext
  PROVE  Batches' = Batches /\ \A k \in Batches' : frames'[k] = frames[k]
<1>1. CASE frames' = frames
  BY <1>1 DEF Batches
<1>2. CASE frames' # frames
  <2>1. WriteDirectly(s) /\ hasMeta[s]
    BY <1>2 DEF WriteDirectly, Create, Delete, WriteStaged, Begin, FailInBatch, Flush,
       EndNested, EndFailed, CommitNext
  <2>2. frames' = Append(frames, [kind |-> "write", at |-> s])
    BY <2>1 DEF WriteDirectly
  <2>3. /\ [kind |-> "write", at |-> s] \in Frames
        /\ [kind |-> "write", at |-> s].kind # "batch"
    BY DEF Frames, WriteFrame
  <2> QED BY <2>2, <2>3, Pushed, BatchesFacts DEF Base
<1> QED BY <1>1, <1>2

\* A frame is popped.
LEMMA BatchesPop ==
  ASSUME Base, CommitThrows \/ CommitDone \/ (HookReturns /\ Top.kind # "batch")
  PROVE  /\ Len(frames) >= 1 /\ Len(frames') = Len(frames) - 1
         /\ Batches' = Batches \ {Len(frames)}
         /\ \A k \in Batches' : frames'[k] = frames[k]
<1>1. frames # <<>> /\ frames' = Pop
  BY DEF Base, Stack, CommitThrows, CommitDone, HookReturns
<1> QED BY <1>1, Popped, BatchesFacts DEF Base

\* The batch on top goes on to its next commit function.
LEMMA BatchesRun ==
  ASSUME Base, HookReturns, Top.kind = "batch"
  PROVE  /\ Len(frames) \in Batches /\ Len(frames') = Len(frames)
         /\ Batches' = Batches
         /\ \A k \in Batches : k # Len(frames) => frames'[k] = frames[k]
         /\ Top.queue # <<>> /\ Top.queue \in Seq(Commits)
         /\ frames'[Len(frames)].queue = Tail(Top.queue)
         /\ frames'[Len(frames)].snapshot = Top.snapshot
         /\ frames'[Len(frames)].writes = Top.writes
         /\ frames'[Len(frames)].sealed = Top.sealed
<1>1. /\ Len(frames) \in Batches /\ Top.queue # <<>> /\ Top \in BatchFrame
      /\ frames # <<>>
  BY TopFacts, BatchesFacts DEF Base, Stack, HookReturns, AppRuns, Top, Batches
<1>2. frames' = [frames EXCEPT ![Len(frames)].queue = Tail(@)]
  BY DEF HookReturns
<1>3. /\ Len(frames') = Len(frames) /\ Batches' = Batches
      /\ \A i \in 1 .. Len(frames) : i # Len(frames) => frames'[i] = frames[i]
      /\ Top'.queue = Tail(Top.queue) /\ Top'.snapshot = Top.snapshot
      /\ Top'.writes = Top.writes /\ Top'.sealed = Top.sealed
  BY <1>1, <1>2, Ran DEF Base
<1>4. Top' = frames'[Len(frames)]
  BY <1>3 DEF Top
<1>5. Top.queue \in Seq(Commits)
  BY <1>1 DEF BatchFrame
<1> QED BY <1>1, <1>3, <1>4, <1>5, BatchesFacts DEF Base

\* A batch starts to commit.
LEMMA BatchesGrow ==
  ASSUME Base, EndAndCommit
  PROVE  /\ Len(frames') = Len(frames) + 1
         /\ Batches' = Batches \cup {Len(frames) + 1}
         /\ \A k \in Batches : frames'[k] = frames[k]
         /\ frames'[Len(frames) + 1] \in BatchFrame
         /\ frames'[Len(frames) + 1].queue = pending
         /\ frames'[Len(frames) + 1].snapshot.stores = stores
         /\ frames'[Len(frames) + 1].snapshot.pending = pendingNotifications
         /\ frames'[Len(frames) + 1].writes = stagedValues
         /\ frames'[Len(frames) + 1].sealed = stamp
<1>0. PICK f : f = [kind |-> "batch", queue |-> pending, snapshot |-> Snapshot,
                    writes |-> stagedValues, sealed |-> stamp]
  OBVIOUS
<1>1. /\ f \in BatchFrame /\ f.kind = "batch" /\ f.queue = pending
      /\ f.snapshot = Snapshot /\ f.writes = stagedValues /\ f.sealed = stamp
  BY <1>0, OpenedFrame DEF Base
<1>2. f.snapshot.stores = stores /\ f.snapshot.pending = pendingNotifications
  BY <1>1 DEF Snapshot
<1>3. frames' = Append(frames, f)
  BY <1>0 DEF EndAndCommit
<1>4. f \in Frames
  BY <1>1 DEF Frames
<1> QED BY <1>1, <1>2, <1>3, <1>4, Pushed, BatchesFacts DEF Base

LEMMA NextBounded == Base /\ Base' /\ Bounded /\ [Next]_vars => Bounded'
<1> SUFFICES ASSUME Base, Base', Bounded, [Next]_vars PROVE Bounded'
  OBVIOUS
<1>0. /\ stamp \in Nat /\ stores \in [Stores -> Nat] /\ stagedValues \in [Stores -> Nat]
      /\ pending \in Seq(Commits) /\ Len(pending) \in Nat
      /\ stamp' \in Nat
  BY QueueType DEF Base, TypeOK
<1>1. CASE UNCHANGED vars
  BY <1>1 DEF vars, registryVars, notifyVars, transactionVars, Bounded, Batches
<1>2. ASSUME NEW s \in Stores, WriteDirectly(s) \/ Create(s) \/ Delete(s)
      PROVE  Bounded'
  <2>1. /\ stamp' \in {stamp, stamp + 1} /\ pending' = pending /\ stagedValues' = stagedValues
        /\ \E v \in {Absent, stamp'} : stores' = [stores EXCEPT ![s] = v]
    BY <1>2 DEF WriteDirectly, Create, Delete, Writes, CommitStoreUpdate, transactionVars
  <2>2. \A k \in Batches' : BoundedFrame(frames'[k], stamp')
    BY <1>2, <2>1, BatchesShrink, BoundedFramesStay
  <2> QED BY <1>0, <2>1, <2>2 DEF Bounded, Absent
<1>3. ASSUME NEW s \in Stores, WriteStaged(s)
      PROVE  Bounded'
  <2>1. /\ stamp' = stamp + 1 /\ stores' = stores
        /\ stagedValues' = [stagedValues EXCEPT ![s] = stamp']
        /\ pending' = Append(pending, [store |-> s, next |-> stamp'])
    BY <1>3 DEF WriteStaged, Writes, registryVars
  <2>2. \A k \in Batches' : BoundedFrame(frames'[k], stamp')
    BY <1>3, <2>1, BatchesShrink, BoundedFramesStay
  <2>3. [store |-> s, next |-> stamp'] \in Commits
    BY <1>0 DEF Commits
  <2>4. /\ Len(pending') = Len(pending) + 1
        /\ \A i \in 1 .. Len(pending) : pending'[i] = pending[i]
        /\ pending'[Len(pending) + 1] = [store |-> s, next |-> stamp']
    BY <1>0, <2>1, <2>3, AppendProperties
  <2>5. \A i \in 1 .. Len(pending') : pending'[i].next \in 1 .. stamp'
    BY <1>0, <2>1, <2>4 DEF Bounded
  <2> QED BY <1>0, <2>1, <2>2, <2>5 DEF Bounded
<1>4. CASE Begin \/ FailInBatch \/ Flush \/ \E thrown \in BOOLEAN : EndNested(thrown) \/ EndFailed(thrown)
  <2>1. /\ stamp' = stamp /\ stores' = stores
        /\ stagedValues' \in {stagedValues, Nothing} /\ pending' \in {pending, <<>>}
    BY <1>4 DEF Begin, FailInBatch, Flush, EndNested, EndFailed, ResetTransaction,
       registryVars, transactionVars
  <2>2. \A k \in Batches' : BoundedFrame(frames'[k], stamp')
    BY <1>4, <2>1, BatchesShrink, BoundedFramesStay, BatchAssumption
  <2> QED BY <1>0, <2>1, <2>2, EmptySeq DEF Bounded, Nothing, Absent
<1>5. CASE EndAndCommit
  <2>1. /\ stamp' = stamp /\ stores' = stores
        /\ stagedValues' = stagedValues /\ pending' = pending
    BY <1>5 DEF EndAndCommit, registryVars
  <2>2. BoundedFrame(frames'[Len(frames) + 1], stamp')
    BY <1>0, <1>5, <2>1, BatchesGrow DEF Bounded, BoundedFrame
  <2>3. \A k \in Batches' : BoundedFrame(frames'[k], stamp')
    BY <1>5, <2>1, <2>2, BatchesGrow DEF Bounded
  <2> QED BY <2>1, <2>3 DEF Bounded
<1>6. CASE CommitNext
  <2>1. /\ stamp' = stamp /\ stagedValues' = stagedValues /\ pending' = pending
        /\ stores' = [stores EXCEPT ![Head(Top.queue).store] = Head(Top.queue).next]
    BY <1>6 DEF CommitNext, CommitStoreUpdate, transactionVars
  <2>2. \A k \in Batches' : BoundedFrame(frames'[k], stamp')
    BY <1>6, <2>1, BatchesShrink, BoundedFramesStay, BatchAssumption
  <2>3. Head(Top.queue).next \in 1 .. stamp
    <3>1. /\ Len(frames) \in Batches /\ Top = frames[Len(frames)] /\ Top.queue # <<>>
          /\ Top.queue \in Seq(Commits)
      BY <1>6, BatchesFacts, TopFacts DEF Base, Stack, CommitNext, Top, Batches, BatchFrame
    <3>2. Len(Top.queue) >= 1 /\ Len(Top.queue) \in Nat /\ Head(Top.queue) = Top.queue[1]
      BY <3>1, EmptySeq
    <3> QED BY <3>1, <3>2 DEF Bounded, BoundedFrame
  <2> QED BY <1>0, <2>1, <2>2, <2>3 DEF Bounded
<1>7. CASE CommitThrows \/ CommitDone
  <2>1. /\ stamp' = stamp /\ stagedValues' = Nothing /\ pending' = <<>>
        /\ stores' \in {stores, Top.snapshot.stores}
    BY <1>7 DEF CommitThrows, CommitDone, ResetTransaction, Restore, registryVars
  <2>2. \A k \in Batches' : BoundedFrame(frames'[k], stamp')
    BY <1>7, <2>1, BatchesPop, BoundedFramesStay
  <2>3. \A s \in Stores : Top.snapshot.stores[s] <= stamp
    <3>1. Len(frames) \in Batches /\ Top = frames[Len(frames)]
      BY <1>7, BatchesFacts, TopFacts DEF Base, Stack, CommitThrows, CommitDone, Top, Batches
    <3> QED BY <3>1 DEF Bounded, BoundedFrame
  <2> QED BY <1>0, <2>1, <2>2, <2>3, EmptySeq DEF Bounded, Nothing, Absent
<1>8. CASE HookReturns
  <2>1. /\ stamp' = stamp /\ stores' = stores
        /\ stagedValues' = stagedValues /\ pending' = pending
    BY <1>8 DEF HookReturns, registryVars, transactionVars
  <2>2. CASE Top.kind # "batch"
    BY <1>8, <2>1, <2>2, BatchesPop, BoundedFramesStay DEF Bounded
  <2>3. CASE Top.kind = "batch"
    <3>1. BoundedFrame(Top, stamp)
      BY <1>8, <2>3, BatchesRun DEF Bounded, Top
    <3>2. /\ Len(Tail(Top.queue)) = Len(Top.queue) - 1 /\ Len(Top.queue) \in Nat
          /\ \A i \in 1 .. Len(Tail(Top.queue)) : Tail(Top.queue)[i] = Top.queue[i + 1]
      BY <1>8, <2>3, BatchesRun, HeadTailProperties, LenProperties
    <3>3. BoundedFrame(frames'[Len(frames)], stamp')
      <4>1. PICK f : f = frames'[Len(frames)]
        OBVIOUS
      <4>2. f.queue = Tail(Top.queue) /\ f.snapshot = Top.snapshot /\ f.sealed = Top.sealed
        BY <1>8, <2>3, <4>1, BatchesRun
      <4>3. f.sealed <= stamp /\ \A s \in Stores : f.snapshot.stores[s] <= stamp
        BY <3>1, <4>2 DEF BoundedFrame
      <4>4. \A i \in 1 .. Len(f.queue) : f.queue[i].next \in 1 .. stamp
        BY <3>1, <3>2, <4>2 DEF BoundedFrame
      <4> QED BY <2>1, <4>1, <4>3, <4>4 DEF BoundedFrame
    <3>4. \A k \in Batches' : BoundedFrame(frames'[k], stamp')
      BY <1>8, <2>1, <2>3, <3>3, BatchesRun DEF Bounded
    <3> QED BY <2>1, <3>4 DEF Bounded
  <2> QED BY <2>2, <2>3
<1> QED BY <1>1, <1>2, <1>3, <1>4, <1>5, <1>6, <1>7, <1>8 DEF Next

\* A queue that one more write is appended to, or whose first commit has run.
LEMMA LastWinsAppended ==
  ASSUME NEW queue \in Seq(Commits), NEW writes \in [Stores -> Nat], LastWins(queue, writes),
         NEW s \in Stores, NEW n \in Nat
  PROVE  LastWins(Append(queue, [store |-> s, next |-> n]), [writes EXCEPT ![s] = n])
<1> DEFINE c == [store |-> s, next |-> n]
           longer == Append(queue, c)
           last == Len(queue) + 1
<1>1. c \in Commits /\ c.store = s /\ c.next = n
  BY DEF Commits
<1>2. /\ Len(queue) \in Nat /\ Len(longer) = last
      /\ \A i \in 1 .. Len(queue) : longer[i] = queue[i]
      /\ longer[last] = c
  BY <1>1, QueueType, AppendProperties
<1>3. \A i \in 1 .. Len(queue) : queue[i].store \in Stores
  BY QueueType
<1> HIDE DEF c, longer
<1>4. ASSUME NEW i \in 1 .. Len(longer)
      PROVE  \/ longer[i].next = [writes EXCEPT ![s] = n][longer[i].store]
             \/ \E j \in i + 1 .. Len(longer) : longer[j].store = longer[i].store
  <2>1. CASE i = last
    BY <1>1, <1>2, <2>1
  <2>2. CASE i # last /\ queue[i].store = s
    BY <1>1, <1>2, <2>2
  <2>3. CASE i # last /\ queue[i].store # s
    <3>1. i \in 1 .. Len(queue) /\ longer[i] = queue[i]
      BY <1>2, <2>3
    <3>2. CASE queue[i].next = writes[queue[i].store]
      BY <1>3, <2>3, <3>1, <3>2
    <3>3. CASE \E j \in i + 1 .. Len(queue) : queue[j].store = queue[i].store
      BY <1>2, <3>1, <3>3
    <3> QED BY <3>1, <3>2, <3>3 DEF LastWins
  <2> QED BY <2>1, <2>2, <2>3
<1> QED BY <1>4 DEF LastWins, longer, c

LEMMA LastWinsTail ==
  ASSUME NEW queue \in Seq(Commits), NEW writes, queue # <<>>, LastWins(queue, writes)
  PROVE  LastWins(Tail(queue), writes)
<1>1. PICK rest : rest = Tail(queue)
  OBVIOUS
<1>2. /\ Len(queue) \in Nat /\ Len(rest) = Len(queue) - 1
      /\ \A i \in 1 .. Len(rest) : rest[i] = queue[i + 1]
  BY <1>1, HeadTailProperties, LenProperties
<1>3. ASSUME NEW i \in 1 .. Len(rest)
      PROVE  \/ rest[i].next = writes[rest[i].store]
             \/ \E j \in i + 1 .. Len(rest) : rest[j].store = rest[i].store
  <2>1. i + 1 \in 1 .. Len(queue) /\ rest[i] = queue[i + 1]
    BY <1>2
  <2>2. CASE queue[i + 1].next = writes[queue[i + 1].store]
    BY <2>1, <2>2
  <2>3. ASSUME NEW j \in i + 2 .. Len(queue), queue[j].store = queue[i + 1].store
        PROVE  \E k \in i + 1 .. Len(rest) : rest[k].store = rest[i].store
    <3>1. j - 1 \in i + 1 .. Len(rest) /\ rest[j - 1] = queue[j]
      BY <1>2
    <3> QED BY <2>1, <2>3, <3>1
  <2>4. i + 1 + 1 = i + 2
    OBVIOUS
  <2> QED BY <2>1, <2>2, <2>3, <2>4 DEF LastWins
<1> QED BY <1>1, <1>3 DEF LastWins

LEMMA NextRegistered == Base /\ Base' /\ Registered /\ [Next]_vars => Registered'
<1> SUFFICES ASSUME Base, Base', Registered, [Next]_vars PROVE Registered'
  OBVIOUS
<1>0. stagedValues \in [Stores -> Nat] /\ pending \in Seq(Commits) /\ stamp' \in Nat /\ depth \in Nat
  BY DEF Base, TypeOK
<1>1. CASE UNCHANGED vars
  BY <1>1 DEF vars, transactionVars, Registered, Batches, committing
<1>2. ASSUME NEW s \in Stores, WriteDirectly(s) \/ Create(s) \/ Delete(s) \/ Flush
      PROVE  Registered'
  <2>1. UNCHANGED transactionVars /\ committing' = committing
    BY <1>2, BatchesShrink DEF WriteDirectly, Create, Delete, Flush, committing
  <2> QED BY <2>1 DEF Registered, transactionVars
<1>3. ASSUME NEW s \in Stores, WriteStaged(s)
      PROVE  Registered'
  <2>1. /\ depth > 0 /\ depth' = depth
        /\ stagedValues' = [stagedValues EXCEPT ![s] = stamp']
        /\ pending' = Append(pending, [store |-> s, next |-> stamp'])
    BY <1>3 DEF WriteStaged
  <2>2. LastWins(pending', stagedValues')
    BY <1>0, <2>1, LastWinsAppended DEF Registered
  <2>3. [store |-> s, next |-> stamp'] \in Commits
    BY <1>0 DEF Commits
  <2>4. /\ Len(pending) \in Nat /\ Len(pending') = Len(pending) + 1
        /\ \A i \in 1 .. Len(pending) : pending'[i] = pending[i]
        /\ pending'[Len(pending) + 1].store = s
    BY <1>0, <2>1, <2>3, AppendProperties, LenProperties
  <2>5. ASSUME NEW x \in Stores, stagedValues'[x] # Absent
        PROVE  \E i \in 1 .. Len(pending') : pending'[i].store = x
    <3>1. CASE x = s
      BY <2>4, <3>1
    <3>2. CASE x # s
      <4>1. stagedValues[x] # Absent
        BY <1>0, <2>1, <2>5, <3>2
      <4>2. PICK i \in 1 .. Len(pending) : pending[i].store = x
        BY <2>1, <4>1 DEF Registered
      <4> QED BY <2>4, <4>2
    <3> QED BY <3>1, <3>2
  <2> QED BY <1>0, <2>1, <2>2, <2>5 DEF Registered
<1>4. CASE Begin
  <2>1. CASE depth = 0
    BY <1>0, <1>4, <2>1, EmptySeq DEF Begin, Registered, LastWins, Nothing, Absent
  <2>2. CASE depth # 0
    BY <1>0, <1>4, <2>2 DEF Begin, Registered
  <2> QED BY <2>1, <2>2
<1>5. CASE FailInBatch
  BY <1>5 DEF FailInBatch, Registered
<1>6. ASSUME NEW thrown \in BOOLEAN, EndNested(thrown)
      PROVE  Registered'
  BY <1>0, <1>6 DEF EndNested, Registered
<1>7. CASE CommitThrows \/ CommitDone \/ \E thrown \in BOOLEAN : EndFailed(thrown)
  BY <1>7 DEF CommitThrows, CommitDone, EndFailed, ResetTransaction, Registered
<1>8. CASE EndAndCommit
  <2>1. committing' /\ depth' = 0
    BY <1>8, BatchesGrow DEF EndAndCommit, committing
  <2> QED BY <2>1 DEF Registered
<1>9. CASE CommitNext
  <2>1. UNCHANGED transactionVars /\ committing' = committing
    BY <1>9, BatchesShrink, BatchAssumption DEF CommitNext, committing
  <2> QED BY <2>1 DEF Registered, transactionVars
<1>10. CASE HookReturns
  <2>1. UNCHANGED transactionVars
    BY <1>10 DEF HookReturns
  <2>2. committing' = committing
    <3>1. CASE Top.kind = "batch"
      BY <1>10, <3>1, BatchesRun DEF committing
    <3>2. CASE Top.kind # "batch"
      BY <1>10, <3>2, BatchesPop DEF committing, Batches, Top
    <3> QED BY <3>1, <3>2
  <2> QED BY <2>1, <2>2 DEF Registered, transactionVars
<1> QED
  BY <1>1, <1>2, <1>3, <1>4, <1>5, <1>6, <1>7, <1>8, <1>9, <1>10, BatchAssumption DEF Next

-----------------------------------------------------------------------------
(***************************************************************************)
(* The outermost batch, seen from the steps above it.                      *)
(***************************************************************************)

LEMMA FirstFacts ==
  ASSUME Base, committing
  PROVE  /\ first \in Batches /\ first \in Nat /\ first <= Len(frames)
         /\ \A k \in Batches : first <= k
         /\ outermost \in BatchFrame
         /\ outermost.queue \in Seq(Commits) /\ outermost.sealed \in Nat
         /\ outermost.writes \in [Stores -> Nat]
         /\ outermost.snapshot.stores \in [Stores -> Nat]
         /\ \A s \in Stores : own(s) \in Nat
<1>1. Batches \in SUBSET Nat /\ Batches # {}
  BY BatchesFacts DEF Base, committing
<1>2. PICK i \in Batches : \A j \in Batches : i <= j
  BY <1>1, LeastExists
<1>3. first = i
  BY <1>1, <1>2, LeastIs DEF first
<1>4. first <= Len(frames) /\ outermost \in BatchFrame
  BY <1>2, <1>3, BatchesFacts DEF Base, outermost
<1>5. /\ outermost.queue \in Seq(Commits) /\ outermost.sealed \in Nat
      /\ outermost.writes \in [Stores -> Nat]
      /\ outermost.snapshot.stores \in [Stores -> Nat]
  BY <1>4 DEF BatchFrame, Snapshots
<1>6. \A s \in Stores : own(s) \in Nat
  BY <1>5 DEF own
<1> QED BY <1>1, <1>2, <1>3, <1>4, <1>5, <1>6

\* It stays the outermost as long as it stays.
LEMMA FirstStays ==
  ASSUME Base, Base', committing, first \in Batches', \A k \in Batches' : first <= k
  PROVE  committing' /\ first' = first /\ outermost' = frames'[first]
<1>1. Batches' \in SUBSET Nat
  BY LenProperties DEF Base, TypeOK, Batches
<1>2. first' = first
  BY <1>1, LeastIs DEF first
<1> QED BY <1>2 DEF committing, outermost

\* Steps that leave the outermost batch where it is: all but its own.
LEMMA OuterUntouched ==
  ASSUME Base, Base', committing, NEW s \in Stores,
         \/ WriteDirectly(s) \/ Create(s) \/ Delete(s) \/ WriteStaged(s)
         \/ Begin \/ FailInBatch \/ Flush
         \/ \E thrown \in BOOLEAN : EndNested(thrown) \/ EndFailed(thrown)
         \/ EndAndCommit
         \/ /\ first # Len(frames)
            /\ CommitNext \/ CommitThrows \/ CommitDone \/ HookReturns
  PROVE  /\ committing' /\ first' = first
         /\ outermost' = outermost /\ Unapplied' = Unapplied
         /\ \A x \in Stores : own(x)' = own(x)
<1>0. /\ first \in Batches /\ first \in Nat /\ first <= Len(frames) /\ Len(frames) \in Nat
      /\ \A k \in Batches : first <= k
  BY FirstFacts, BatchesFacts DEF Base
<1>1. /\ committing' /\ first' = first /\ outermost' = outermost
      /\ ~(first = Len(frames) /\ pc = "commit")
      /\ ~(first = Len(frames') /\ pc' = "commit")
  <2>1. CASE \/ WriteDirectly(s) \/ Create(s) \/ Delete(s) \/ WriteStaged(s)
             \/ Begin \/ FailInBatch \/ Flush
             \/ \E thrown \in BOOLEAN : EndNested(thrown) \/ EndFailed(thrown)
    <3>1. pc = "app" /\ pc' = "app"
      BY <2>1 DEF WriteDirectly, Create, Delete, WriteStaged, Begin, FailInBatch, Flush,
         EndNested, EndFailed, AppRuns
    <3>2. Batches' = Batches /\ \A k \in Batches' : frames'[k] = frames[k]
      BY <2>1, BatchesShrink
    <3> QED BY <1>0, <3>1, <3>2, FirstStays DEF outermost
  <2>2. CASE EndAndCommit
    <3>1. pc = "app"
      BY <2>2 DEF EndAndCommit, AppRuns
    <3>2. /\ Len(frames') = Len(frames) + 1 /\ Batches' = Batches \cup {Len(frames) + 1}
          /\ \A k \in Batches : frames'[k] = frames[k]
      BY <2>2, BatchesGrow
    <3> QED BY <1>0, <3>1, <3>2, FirstStays DEF outermost
  <2>3. CASE first # Len(frames) /\ CommitNext
    <3>1. pc' = "app"
      BY <2>3 DEF CommitNext
    <3>2. Batches' = Batches /\ \A k \in Batches' : frames'[k] = frames[k]
      BY <2>3, BatchesShrink
    <3> QED BY <1>0, <2>3, <3>1, <3>2, FirstStays DEF outermost
  <2>4. CASE /\ first # Len(frames)
             /\ CommitThrows \/ CommitDone \/ (HookReturns /\ Top.kind # "batch")
    <3>1. pc' = "app"
      BY <2>4 DEF CommitThrows, CommitDone, HookReturns, AppRuns
    <3>2. /\ Batches' = Batches \ {Len(frames)}
          /\ \A k \in Batches' : frames'[k] = frames[k]
      BY <2>4, BatchesPop
    <3> QED BY <1>0, <2>4, <3>1, <3>2, FirstStays DEF outermost
  <2>5. CASE first # Len(frames) /\ HookReturns /\ Top.kind = "batch"
    <3>1. /\ Batches' = Batches /\ Len(frames') = Len(frames)
          /\ \A k \in Batches : k # Len(frames) => frames'[k] = frames[k]
      BY <2>5, BatchesRun
    <3> QED BY <1>0, <2>5, <3>1, FirstStays DEF outermost
  <2> QED BY <2>1, <2>2, <2>3, <2>4, <2>5
<1> QED BY <1>1 DEF Unapplied, own

\* Such a step keeps Kept, whatever it does to a store that it deletes or gives a
\* value newer than the batch, and whatever it adds to the notifications.
LEMMA KeptStep ==
  ASSUME Base, Base', committing, HalfApplied, stamp <= stamp',
         outermost' = outermost, Unapplied' = Unapplied, \A x \in Stores : own(x)' = own(x),
         NEW values, NEW notified, Kept(values, notified), NEW new, NEW others,
         \A x \in Stores :
           \/ new[x] = values[x] /\ (x \in notified => x \in others)
           \/ new[x] \in {Absent} \cup (outermost.sealed + 1 .. stamp')
  PROVE  Kept(new, others)'
<1>1. /\ outermost.sealed \in Nat /\ stamp \in Nat /\ stamp' \in Nat
      /\ \A x \in Stores : own(x) \in Nat /\ own(x) <= outermost.sealed
  BY FirstFacts DEF Base, TypeOK, HalfApplied
<1>2. ASSUME NEW x \in Stores, \A i \in Unapplied : outermost.queue[i].store # x
      PROVE  new[x] \in {own(x), Absent} \cup (outermost.sealed + 1 .. stamp')
  <2>1. values[x] \in {own(x), Absent} \cup (outermost.sealed + 1 .. stamp)
    BY <1>2 DEF Kept
  <2> QED BY <1>1, <2>1
<1>3. ASSUME NEW x \in Stores,
             \A i \in 1 .. Len(outermost.queue) : outermost.queue[i].store # x,
             new[x] = own(x), own(x) # Absent,
             outermost.writes[x] # Absent \/ x \in outermost.snapshot.pending
      PROVE  x \in others
  <2>1. new[x] = values[x] /\ (x \in notified => x \in others)
    BY <1>1, <1>3
  <2>2. x \in notified
    BY <1>3, <2>1 DEF Kept
  <2> QED BY <2>1, <2>2
<1> QED BY <1>2, <1>3 DEF Kept

\* A nested batch that goes on committing.
LEMMA NestedStays ==
  ASSUME Base, Base', committing, HalfApplied, stamp <= stamp',
         outermost' = outermost, Unapplied' = Unapplied, \A x \in Stores : own(x)' = own(x),
         NEW k \in Batches \ {first}, frames'[k].snapshot = frames[k].snapshot
  PROVE  Kept(frames[k].snapshot.stores, frames[k].snapshot.pending)'
<1>1. PICK values, notified : /\ values = frames[k].snapshot.stores
                              /\ notified = frames[k].snapshot.pending
  OBVIOUS
<1>2. Kept(values, notified)
  BY <1>1 DEF HalfApplied
<1>3. Kept(values, notified)'
  BY <1>2, KeptStep
<1>4. values = frames'[k].snapshot.stores /\ notified = frames'[k].snapshot.pending
  BY <1>1
<1> QED BY <1>3, <1>4 DEF Kept

LEMMA NewerStays ==
  ASSUME outermost' = outermost, NEW queue, Newer(queue)
  PROVE  Newer(queue)'
BY DEF Newer

\* Steps above the outermost batch that leave the other batches alone too, except for
\* the one they end.
LEMMA AboveHalfApplied ==
  ASSUME Base, Base', committing, HalfApplied, stamp <= stamp',
         committing', first' = first, outermost' = outermost,
         Unapplied' = Unapplied, \A x \in Stores : own(x)' = own(x),
         Kept(stores, pendingNotifications)',
         depth' > 0 => Newer(pending)',
         Batches' \subseteq Batches, \A k \in Batches' : frames'[k] = frames[k]
  PROVE  HalfApplied'
<1>1. ASSUME NEW k \in Batches' \ {first'}
      PROVE  /\ Newer(frames[k].queue)'
             /\ Kept(frames[k].snapshot.stores, frames[k].snapshot.pending)'
  <2>1. k \in Batches \ {first} /\ frames'[k] = frames[k]
    BY <1>1
  <2>2. Kept(frames[k].snapshot.stores, frames[k].snapshot.pending)'
    BY <2>1, NestedStays
  <2>3. Newer(frames[k].queue)'
    BY <2>1 DEF HalfApplied, Newer
  <2> QED BY <2>2, <2>3
<1>2. \A x \in Stores : own(x)' <= outermost'.sealed
  BY DEF HalfApplied
<1>3. LastWins(outermost'.queue, outermost'.writes)
  BY DEF HalfApplied
<1> QED BY <1>1, <1>2, <1>3 DEF HalfApplied

\* What hooks do while the outermost batch commits, outside nested batches and in them.
LEMMA HooksHalfApplied ==
  ASSUME IInv, Base', committing, NEW s \in Stores,
         \/ WriteDirectly(s) \/ Create(s) \/ Delete(s) \/ WriteStaged(s)
         \/ Begin \/ FailInBatch \/ Flush
         \/ \E thrown \in BOOLEAN : EndNested(thrown) \/ EndFailed(thrown)
  PROVE  HalfApplied'
<1> USE DEF IInv
<1>0. /\ committing' /\ first' = first
      /\ outermost' = outermost /\ Unapplied' = Unapplied
      /\ \A x \in Stores : own(x)' = own(x)
  BY OuterUntouched
<1>1. Batches' = Batches /\ \A k \in Batches' : frames'[k] = frames[k]
  BY BatchesShrink
<1>2. /\ stamp \in Nat /\ stamp' \in {stamp, stamp + 1} /\ outermost.sealed \in Nat
      /\ outermost.sealed <= stamp /\ depth \in Nat
      /\ stores \in [Stores -> Nat]
  <2>1. outermost.sealed <= stamp
    BY FirstFacts DEF Bounded, BoundedFrame, outermost
  <2>2. stamp' \in {stamp, stamp + 1}
    BY DEF WriteDirectly, Create, Delete, WriteStaged, Begin, FailInBatch, Flush, EndNested,
       EndFailed, Writes
  <2> QED BY <2>1, <2>2, FirstFacts DEF Base, TypeOK
<1>3. \A x \in Stores :
        \/ stores'[x] = stores[x] /\ (x \in pendingNotifications => x \in pendingNotifications')
        \/ stores'[x] \in {Absent} \cup (outermost.sealed + 1 .. stamp')
  <2>1. CASE WriteDirectly(s) \/ Create(s)
    <3>1. stamp' = stamp + 1 /\ stores' = [stores EXCEPT ![s] = stamp']
      BY <2>1 DEF WriteDirectly, Create, Writes, CommitStoreUpdate
    <3>2. pendingNotifications \subseteq pendingNotifications'
      BY <2>1 DEF WriteDirectly, Create, Notify, notifyVars
    <3> QED BY <1>2, <3>1, <3>2
  <2>2. CASE Delete(s)
    BY <1>2, <2>2 DEF Delete
  <2>3. CASE \/ WriteStaged(s) \/ Begin \/ FailInBatch
             \/ \E thrown \in BOOLEAN : EndNested(thrown) \/ EndFailed(thrown)
    BY <2>3 DEF WriteStaged, Begin, FailInBatch, EndNested, EndFailed, registryVars, notifyVars
  <2>4. CASE Flush
    BY <2>4, EmptySeq DEF Flush, committing, Batches
  <2> QED BY <2>1, <2>2, <2>3, <2>4
<1>4. Kept(stores, pendingNotifications)'
  <2>1. PICK values, notified, new, others :
          /\ values = stores /\ notified = pendingNotifications
          /\ new = stores' /\ others = pendingNotifications'
    OBVIOUS
  <2>2. Kept(values, notified)
    BY <2>1 DEF HalfApplied
  <2>3. Kept(new, others)'
    BY <1>0, <1>2, <1>3, <2>1, <2>2, KeptStep
  <2> QED BY <2>1, <2>3 DEF Kept
<1>5. depth' > 0 => Newer(pending)'
  <2>1. CASE WriteStaged(s)
    <3>1. /\ depth > 0 /\ stamp' = stamp + 1
          /\ pending' = Append(pending, [store |-> s, next |-> stamp'])
      BY <2>1 DEF WriteStaged, Writes
    <3>2. [store |-> s, next |-> stamp'] \in Commits /\ pending \in Seq(Commits)
      BY <1>2, <3>1 DEF Base, TypeOK, Commits
    <3>3. /\ Len(pending) \in Nat /\ Len(pending') = Len(pending) + 1
          /\ \A i \in 1 .. Len(pending) : pending'[i] = pending[i]
          /\ pending'[Len(pending) + 1].next = stamp'
      BY <3>1, <3>2, AppendProperties, LenProperties
    <3>4. Newer(pending)
      BY <3>1 DEF HalfApplied
    <3> QED BY <1>0, <1>2, <3>1, <3>3, <3>4 DEF Newer
  <2>2. CASE Begin
    <3>1. CASE depth = 0
      BY <2>2, <3>1, EmptySeq DEF Begin, Newer
    <3>2. CASE depth # 0
      BY <1>0, <1>2, <2>2, <3>2 DEF Begin, HalfApplied, Newer
    <3> QED BY <3>1, <3>2
  <2>3. CASE \E thrown \in BOOLEAN : EndNested(thrown)
    BY <1>0, <1>2, <2>3 DEF EndNested, HalfApplied, Newer
  <2>4. CASE \E thrown \in BOOLEAN : EndFailed(thrown)
    BY <2>4 DEF EndFailed, ResetTransaction
  <2>5. CASE WriteDirectly(s) \/ Create(s) \/ Delete(s) \/ FailInBatch \/ Flush
    <3>1. depth' = depth /\ pending' = pending
      BY <2>5 DEF WriteDirectly, Create, Delete, FailInBatch, Flush, transactionVars
    <3> QED BY <1>0, <3>1 DEF HalfApplied, Newer
  <2> QED BY <2>1, <2>2, <2>3, <2>4, <2>5
<1> QED BY <1>0, <1>1, <1>2, <1>4, <1>5, AboveHalfApplied

\* The batch on top, when commit functions are to run.
LEMMA TopBatch ==
  ASSUME Base, pc = "commit"
  PROVE  /\ Len(frames) \in Batches /\ Top = frames[Len(frames)] /\ Top \in BatchFrame
         /\ Top.queue \in Seq(Commits) /\ depth = 0
         /\ Top.queue # <<>> =>
              /\ Len(Top.queue) \in Nat /\ 1 \in 1 .. Len(Top.queue)
              /\ Head(Top.queue) = Top.queue[1]
              /\ Head(Top.queue).store \in Stores /\ Head(Top.queue).next \in Nat
<1>1. /\ Len(frames) \in Batches /\ Top = frames[Len(frames)] /\ Top \in BatchFrame /\ depth = 0
  BY BatchesFacts, TopFacts DEF Base, Stack, Top, Batches
<1>2. Top.queue \in Seq(Commits)
  BY <1>1 DEF BatchFrame
<1>3. ASSUME Top.queue # <<>>
      PROVE  /\ Len(Top.queue) \in Nat /\ 1 \in 1 .. Len(Top.queue)
             /\ Head(Top.queue) = Top.queue[1]
  BY <1>2, <1>3, EmptySeq
<1> QED BY <1>1, <1>2, <1>3, QueueType

\* Nested batches run their commit functions and are done or rolled back.
LEMMA NestedHalfApplied ==
  ASSUME IInv, Base', committing, first # Len(frames),
         \/ CommitNext \/ CommitThrows \/ CommitDone
         \/ HookReturns /\ Top.kind # "batch"
  PROVE  HalfApplied'
<1> USE DEF IInv
<1>0. /\ committing' /\ first' = first
      /\ outermost' = outermost /\ Unapplied' = Unapplied
      /\ \A x \in Stores : own(x)' = own(x)
  BY OuterUntouched, BatchAssumption
<1>1. Batches' \subseteq Batches /\ \A k \in Batches' : frames'[k] = frames[k]
  BY BatchesShrink, BatchesPop, BatchAssumption
<1>2. /\ stamp \in Nat /\ stamp' = stamp /\ outermost.sealed \in Nat
      /\ stores \in [Stores -> Nat]
  BY FirstFacts DEF Base, TypeOK, CommitNext, CommitThrows, CommitDone, HookReturns
<1>3. Kept(stores, pendingNotifications)'
  <2>1. PICK new, others : new = stores' /\ others = pendingNotifications'
    OBVIOUS
  <2>2. CASE CommitThrows
    <3>1. Len(frames) \in Batches \ {first} /\ Top = frames[Len(frames)]
      BY <2>2, TopBatch DEF CommitThrows
    <3>2. new = Top.snapshot.stores /\ others = Top.snapshot.pending
      BY <2>1, <2>2 DEF CommitThrows, Restore
    <3>3. Kept(new, others)
      BY <3>1, <3>2 DEF HalfApplied
    <3> QED BY <1>0, <1>2, <2>1, <3>3, KeptStep DEF Kept
  <2>3. CASE ~CommitThrows
    <3>1. PICK values, notified : values = stores /\ notified = pendingNotifications
      OBVIOUS
    <3>2. \A x \in Stores :
            \/ new[x] = values[x] /\ (x \in notified => x \in others)
            \/ new[x] \in {Absent} \cup (outermost.sealed + 1 .. stamp')
      <4>1. CASE CommitNext
        <5>1. /\ stores' = [stores EXCEPT ![Head(Top.queue).store] = Head(Top.queue).next]
              /\ pendingNotifications' = pendingNotifications
              /\ Top.queue # <<>> /\ pc = "commit"
          BY <4>1 DEF CommitNext, CommitStoreUpdate, notifyVars
        <5>2. Head(Top.queue).next \in 1 .. stamp /\ Head(Top.queue).next > outermost.sealed
          BY <5>1, TopBatch DEF Bounded, BoundedFrame, HalfApplied, Newer
        <5> QED BY <1>2, <2>1, <3>1, <5>1, <5>2, TopBatch
      <4>2. CASE CommitDone \/ HookReturns
        BY <2>1, <3>1, <4>2 DEF CommitDone, HookReturns, Notify, registryVars
      <4> QED BY <2>3, <4>1, <4>2
    <3>3. Kept(values, notified)
      BY <3>1 DEF HalfApplied
    <3>4. Kept(new, others)'
      BY <1>0, <1>2, <3>2, <3>3, KeptStep
    <3> QED BY <2>1, <3>4 DEF Kept
  <2> QED BY <2>2, <2>3
<1>4. depth' = 0
  <2>1. CASE HookReturns
    BY <2>1 DEF HookReturns, transactionVars
  <2>2. CASE CommitNext
    BY <2>2, TopBatch DEF CommitNext, transactionVars
  <2>3. CASE CommitThrows \/ CommitDone
    BY <2>3 DEF CommitThrows, CommitDone, ResetTransaction
  <2> QED BY <2>1, <2>2, <2>3
<1> QED BY <1>0, <1>1, <1>2, <1>3, <1>4, AboveHalfApplied

LEMMA NestedHookHalfApplied ==
  ASSUME IInv, Base', committing, first # Len(frames), HookReturns, Top.kind = "batch"
  PROVE  HalfApplied'
<1> USE DEF IInv
<1>0. /\ committing' /\ first' = first
      /\ outermost' = outermost /\ Unapplied' = Unapplied
      /\ \A x \in Stores : own(x)' = own(x)
  BY OuterUntouched, BatchAssumption
<1>1. stamp \in Nat /\ stamp' = stamp /\ depth' = 0 /\ stores' = stores
  BY DEF Base, TypeOK, HookReturns, registryVars, transactionVars
<1>2. Kept(stores, pendingNotifications)'
  <2>1. PICK values, notified, others :
          values = stores /\ notified = pendingNotifications /\ others = pendingNotifications'
    OBVIOUS
  <2>2. notified \subseteq others
    BY <2>1 DEF HookReturns, Notify
  <2>3. Kept(values, notified)
    BY <2>1 DEF HalfApplied
  <2>4. Kept(values, others)'
    BY <1>0, <1>1, <2>2, <2>3, KeptStep
  <2> QED BY <1>1, <2>1, <2>4 DEF Kept
<1>3. ASSUME NEW k \in Batches' \ {first'}
      PROVE  /\ Newer(frames[k].queue)'
             /\ Kept(frames[k].snapshot.stores, frames[k].snapshot.pending)'
  <2>1. k \in Batches \ {first} /\ frames'[k].snapshot = frames[k].snapshot
    BY <1>0, <1>3, BatchesRun DEF Top
  <2>2. Kept(frames[k].snapshot.stores, frames[k].snapshot.pending)'
    BY <1>0, <1>1, <2>1, NestedStays
  <2>3. Newer(frames[k].queue)
    BY <2>1 DEF HalfApplied
  <2>4. Newer(frames'[k].queue)
    <3>1. CASE k = Len(frames)
      <4>1. /\ Len(Tail(Top.queue)) = Len(Top.queue) - 1 /\ Len(Top.queue) \in Nat
            /\ \A i \in 1 .. Len(Tail(Top.queue)) : Tail(Top.queue)[i] = Top.queue[i + 1]
        BY BatchesRun, HeadTailProperties, LenProperties
      <4>2. frames'[k].queue = Tail(Top.queue) /\ frames[k].queue = Top.queue
        BY <3>1, BatchesRun DEF Top
      <4> QED BY <2>3, <4>1, <4>2 DEF Newer
    <3>2. CASE k # Len(frames)
      BY <2>1, <2>3, <3>2, BatchesRun
    <3> QED BY <3>1, <3>2
  <2> QED BY <1>0, <2>2, <2>4 DEF Newer
<1> QED BY <1>0, <1>1, <1>2, <1>3 DEF HalfApplied

\* A hook closes a batch of its own.
LEMMA NestedStartHalfApplied ==
  ASSUME IInv, Base', committing, EndAndCommit
  PROVE  HalfApplied'
<1> USE DEF IInv
<1>0. /\ committing' /\ first' = first
      /\ outermost' = outermost /\ Unapplied' = Unapplied
      /\ \A x \in Stores : own(x)' = own(x)
  BY OuterUntouched, BatchAssumption
<1>1. /\ stamp \in Nat /\ stamp' = stamp /\ depth = 1 /\ depth' = 0 /\ stores' = stores
      /\ pendingNotifications' = pendingNotifications
  BY DEF Base, TypeOK, EndAndCommit, registryVars, notifyVars
<1>2. PICK values, notified : values = stores /\ notified = pendingNotifications
  OBVIOUS
<1>3. Kept(values, notified)'
  <2>1. Kept(values, notified)
    BY <1>2 DEF HalfApplied
  <2> QED BY <1>0, <1>1, <2>1, KeptStep
<1>4. Kept(stores, pendingNotifications)'
  BY <1>1, <1>2, <1>3 DEF Kept
<1>5. ASSUME NEW k \in Batches' \ {first'}
      PROVE  /\ Newer(frames[k].queue)'
             /\ Kept(frames[k].snapshot.stores, frames[k].snapshot.pending)'
  <2>1. CASE k = Len(frames) + 1
    <3>1. /\ frames'[k].queue = pending
          /\ frames'[k].snapshot.stores = values
          /\ frames'[k].snapshot.pending = notified
      BY <1>2, <2>1, BatchesGrow
    <3>2. Newer(pending)
      BY <1>1 DEF HalfApplied
    <3> QED BY <1>0, <1>3, <3>1, <3>2 DEF Newer, Kept
  <2>2. CASE k # Len(frames) + 1
    <3>1. k \in Batches \ {first} /\ frames'[k] = frames[k]
      BY <1>0, <1>5, <2>2, BatchesGrow
    <3>2. Kept(frames[k].snapshot.stores, frames[k].snapshot.pending)'
      BY <1>0, <1>1, <3>1, NestedStays
    <3> QED BY <1>0, <3>1, <3>2 DEF HalfApplied, Newer
  <2> QED BY <2>1, <2>2
<1> QED BY <1>0, <1>1, <1>4, <1>5 DEF HalfApplied

\* The outermost batch closes: nothing is applied and everything is kept.
LEMMA SealHalfApplied ==
  ASSUME IInv, Base', ~committing, EndAndCommit
  PROVE  HalfApplied'
<1> USE DEF IInv
<1>1. /\ Batches' = {Len(frames) + 1} /\ Len(frames') = Len(frames) + 1
      /\ Len(frames) \in Nat
  BY BatchesGrow, BatchesFacts DEF committing, Base
<1>2. first' = Len(frames) + 1 /\ committing'
  <2>1. first' \in Batches'
    BY <1>1 DEF first
  <2> QED BY <1>1, <2>1 DEF committing
<1>3. /\ outermost'.queue = pending /\ outermost'.writes = stagedValues
      /\ outermost'.sealed = stamp
      /\ outermost'.snapshot.stores = stores
      /\ outermost'.snapshot.pending = pendingNotifications
  BY <1>2, BatchesGrow DEF outermost
<1>4. /\ stamp' = stamp /\ stores' = stores /\ pendingNotifications' = pendingNotifications
      /\ depth' = 0 /\ depth > 0 /\ pc' = "commit"
  BY DEF EndAndCommit, registryVars, notifyVars
<1>5. Unapplied' = 1 .. Len(pending)
  BY <1>1, <1>2, <1>3, <1>4 DEF Unapplied
<1>6. /\ stores \in [Stores -> Nat] /\ stagedValues \in [Stores -> Nat] /\ stamp \in Nat
  BY DEF Base, TypeOK
<1>7. \A s \in Stores : own(s)' = IF stagedValues[s] # Absent THEN stagedValues[s] ELSE stores[s]
  BY <1>3 DEF own
<1>8. \A s \in Stores : own(s)' <= stamp
  BY <1>7 DEF Bounded
<1>9. LastWins(outermost'.queue, outermost'.writes)
  BY <1>3, <1>4 DEF Registered
<1>10. \A s \in Stores : (\A i \in 1 .. Len(pending) : pending[i].store # s)
                           => stagedValues[s] = Absent
  BY <1>4 DEF Registered
<1>11. Kept(stores, pendingNotifications)'
  <2>1. ASSUME NEW s \in Stores, \A i \in 1 .. Len(pending) : pending[i].store # s
        PROVE  stagedValues[s] = Absent /\ own(s)' = stores[s]
    BY <1>7, <1>10, <2>1
  <2> QED BY <1>3, <1>4, <1>5, <2>1 DEF Kept
<1> QED BY <1>1, <1>2, <1>3, <1>4, <1>8, <1>9, <1>11 DEF HalfApplied

\* The outermost batch runs one of its commit functions.
LEMMA OwnCommitHalfApplied ==
  ASSUME IInv, Base', committing, first = Len(frames), CommitNext
  PROVE  HalfApplied'
<1> USE DEF IInv
<1>0. /\ committing' /\ first' = first /\ outermost' = outermost
      /\ Batches' = Batches /\ \A k \in Batches' : k = first'
  <2>1. Batches' = Batches /\ \A k \in Batches' : frames'[k] = frames[k]
    BY BatchesShrink, BatchAssumption
  <2> QED BY <2>1, FirstFacts, FirstStays, BatchesFacts DEF Base, outermost
<1> DEFINE q == outermost.queue
           n == Len(outermost.queue)
<1>1. /\ pc = "commit" /\ pc' = "app" /\ stamp' = stamp
      /\ Top = outermost /\ q # <<>> /\ n \in Nat /\ 1 \in 1 .. n
      /\ q[1].store \in Stores /\ q[1].next \in Nat
      /\ stores' = [stores EXCEPT ![q[1].store] = q[1].next]
      /\ pendingNotifications' = pendingNotifications
      /\ depth' = 0
  BY TopBatch DEF CommitNext, CommitStoreUpdate, notifyVars, transactionVars, outermost
<1>2. Unapplied = 1 .. n /\ Unapplied' = 2 .. n
  <2>1. Len(frames') = Len(frames)
    BY DEF CommitNext
  <2> QED BY <1>0, <1>1, <2>1 DEF Unapplied
<1>3. \A s \in Stores : own(s)' = own(s)
  BY <1>0 DEF own
<1>4. stores \in [Stores -> Nat] /\ outermost.sealed \in Nat /\ stamp \in Nat
  BY FirstFacts DEF Base, TypeOK
<1>5. q[1].next # Absent
  BY <1>1, FirstFacts DEF Bounded, BoundedFrame, outermost, Absent
<1>6. ASSUME NEW s \in Stores, \A i \in 2 .. n : q[i].store # s
      PROVE  stores'[s] \in {own(s), Absent} \cup (outermost.sealed + 1 .. stamp)
  <2>1. CASE q[1].store = s
    <3>1. ~\E j \in 1 + 1 .. n : q[j].store = q[1].store
      BY <1>6, <2>1
    <3>2. q[1].next = outermost.writes[s]
      BY <1>1, <2>1, <3>1 DEF HalfApplied, LastWins
    <3>3. own(s) = q[1].next
      BY <1>5, <3>2 DEF own
    <3> QED BY <1>1, <1>4, <2>1, <3>3
  <2>2. CASE q[1].store # s
    <3>1. \A i \in 1 .. n : q[i].store # s
      BY <1>1, <1>6, <2>2
    <3>2. stores[s] \in {own(s), Absent} \cup (outermost.sealed + 1 .. stamp)
      BY <1>2, <3>1 DEF HalfApplied, Kept
    <3> QED BY <1>1, <1>4, <2>2, <3>2
  <2> QED BY <2>1, <2>2
<1>7. ASSUME NEW s \in Stores, \A i \in 1 .. n : q[i].store # s
      PROVE  stores'[s] = stores[s]
  BY <1>1, <1>4, <1>7
<1>8. Kept(stores, pendingNotifications)'
  BY <1>0, <1>1, <1>2, <1>3, <1>6, <1>7 DEF Kept, HalfApplied
<1> QED BY <1>0, <1>1, <1>3, <1>8 DEF HalfApplied

\* The hook of one of its commits returns.
LEMMA OwnHookHalfApplied ==
  ASSUME IInv, Base', committing, first = Len(frames), HookReturns
  PROVE  HalfApplied'
<1> USE DEF IInv
<1> DEFINE q == outermost.queue
           n == Len(outermost.queue)
<1>0. Top.kind = "batch" /\ Top = outermost
  BY FirstFacts DEF Batches, Top, outermost
<1>1. /\ q # <<>> /\ q \in Seq(Commits)
      /\ outermost'.queue = Tail(q)
      /\ outermost'.snapshot = outermost.snapshot
      /\ outermost'.writes = outermost.writes
      /\ outermost'.sealed = outermost.sealed
      /\ committing' /\ first' = first /\ Len(frames') = Len(frames)
      /\ \A k \in Batches' : k = first'
  <2>1. /\ Batches' = Batches /\ Len(frames') = Len(frames)
        /\ committing' /\ first' = first /\ outermost' = frames'[first]
    BY <1>0, FirstFacts, FirstStays, BatchesRun
  <2> QED BY <1>0, <2>1, FirstFacts, BatchesRun, BatchesFacts DEF Base
<1>2. /\ pc = "app" /\ pc' = "commit" /\ stamp' = stamp /\ stores' = stores /\ depth' = 0
      /\ pendingNotifications' = pendingNotifications \cup {q[1].store}
  <2>1. Notify(Head(q).store) /\ Head(q) = q[1]
    BY <1>0, <1>1 DEF HookReturns
  <2> QED BY <1>0, <2>1 DEF HookReturns, Notify, AppRuns, registryVars, transactionVars
<1>3. PICK rest : rest = Tail(q)
  OBVIOUS
<1>4. /\ n \in Nat /\ Len(rest) = n - 1
      /\ \A i \in 1 .. Len(rest) : rest[i] = q[i + 1]
  BY <1>1, <1>3, HeadTailProperties, LenProperties
<1>5. Unapplied = 2 .. n /\ Unapplied' = 1 .. Len(rest) /\ outermost'.queue = rest
  BY <1>1, <1>2, <1>3 DEF Unapplied
<1>6. \A s \in Stores : own(s)' = own(s)
  BY <1>1 DEF own
<1>7. ASSUME NEW s, \A i \in 1 .. Len(rest) : rest[i].store # s
      PROVE  \A i \in 2 .. n : q[i].store # s
  <2> SUFFICES ASSUME NEW i \in 2 .. n PROVE q[i].store # s
    OBVIOUS
  <2>1. i - 1 \in 1 .. Len(rest) /\ rest[i - 1] = q[i]
    BY <1>4
  <2> QED BY <1>7, <2>1
<1>8. ASSUME NEW s \in Stores, \A i \in 1 .. Len(rest) : rest[i].store # s
      PROVE  stores[s] \in {own(s), Absent} \cup (outermost.sealed + 1 .. stamp)
  BY <1>5, <1>7, <1>8 DEF HalfApplied, Kept
<1>9. ASSUME NEW s \in Stores, \A i \in 1 .. Len(rest) : rest[i].store # s,
             stores[s] = own(s), own(s) # Absent,
             outermost.writes[s] # Absent \/ s \in outermost.snapshot.pending
      PROVE  s \in pendingNotifications'
  <2>1. CASE q[1].store = s
    BY <1>2, <2>1
  <2>2. CASE q[1].store # s
    <3>1. \A i \in 1 .. n : q[i].store # s
      <4>1. \A i \in 2 .. n : q[i].store # s
        BY <1>7, <1>9
      <4>2. \A i \in 1 .. n : i = 1 \/ i \in 2 .. n
        BY <1>4
      <4> QED BY <2>2, <4>1, <4>2
    <3>2. s \in pendingNotifications
      BY <1>9, <3>1 DEF HalfApplied, Kept
    <3> QED BY <1>2, <3>2
  <2> QED BY <2>1, <2>2
<1>10. Kept(stores, pendingNotifications)'
  BY <1>1, <1>2, <1>5, <1>6, <1>8, <1>9 DEF Kept
<1>11. LastWins(outermost'.queue, outermost'.writes)
  BY <1>1, LastWinsTail DEF HalfApplied
<1> QED BY <1>1, <1>2, <1>6, <1>10, <1>11 DEF HalfApplied

LEMMA NextHalfApplied == IInv /\ Base' /\ [Next]_vars => HalfApplied'
<1> SUFFICES ASSUME IInv, Base', [Next]_vars PROVE HalfApplied'
  OBVIOUS
<1>1. CASE UNCHANGED vars
  <2>1. Batches' = Batches
    BY <1>1 DEF vars, Batches
  <2>2. /\ committing' = committing /\ first' = first /\ outermost' = outermost
        /\ frames' = frames /\ pc' = pc /\ stamp' = stamp /\ stores' = stores
        /\ pendingNotifications' = pendingNotifications /\ depth' = depth /\ pending' = pending
    BY <1>1, <2>1 DEF vars, registryVars, notifyVars, transactionVars, committing, first, outermost
  <2>3. Unapplied' = Unapplied /\ \A s \in Stores : own(s)' = own(s)
    BY <2>2 DEF Unapplied, own
  <2> QED BY <2>1, <2>2, <2>3 DEF IInv, HalfApplied, Kept, Newer
<1>2. CASE ~committing /\ Next
  <2>1. CASE EndAndCommit
    BY <1>2, <2>1, SealHalfApplied
  <2>2. CASE ~EndAndCommit
    <3>1. CASE HookReturns
      <4>1. Batches' \subseteq Batches
        BY <3>1, BatchesPop, BatchesRun DEF IInv
      <4> QED BY <1>2, <4>1 DEF committing, HalfApplied
    <3>2. CASE ~HookReturns
      <4>1. Batches' \subseteq Batches
        BY <1>2, <2>2, <3>2, BatchesShrink, BatchesPop, BatchAssumption DEF Next, IInv
      <4> QED BY <1>2, <4>1 DEF committing, HalfApplied
    <3> QED BY <3>1, <3>2
  <2> QED BY <2>1, <2>2
<1>3. CASE committing /\ Next
  <2>1. ASSUME NEW s \in Stores, WriteDirectly(s) \/ Create(s) \/ Delete(s) \/ WriteStaged(s)
        PROVE  HalfApplied'
    BY <1>3, <2>1, HooksHalfApplied
  <2>2. CASE \/ Begin \/ FailInBatch \/ Flush
             \/ \E thrown \in BOOLEAN : EndNested(thrown) \/ EndFailed(thrown)
    BY <1>3, <2>2, HooksHalfApplied, BatchAssumption
  <2>3. CASE EndAndCommit
    BY <1>3, <2>3, NestedStartHalfApplied
  <2>4. CASE first # Len(frames) /\ (CommitNext \/ CommitThrows \/ CommitDone \/ HookReturns)
    BY <1>3, <2>4, NestedHalfApplied, NestedHookHalfApplied
  <2>5. CASE first = Len(frames) /\ CommitNext
    BY <1>3, <2>5, OwnCommitHalfApplied
  <2>6. CASE first = Len(frames) /\ HookReturns
    BY <1>3, <2>6, OwnHookHalfApplied
  <2>7. CASE first = Len(frames) /\ (CommitThrows \/ CommitDone)
    <3>1. Batches' = Batches \ {Len(frames)}
      BY <2>7, BatchesPop DEF IInv
    <3>2. ~committing'
      BY <1>3, <2>7, <3>1, FirstFacts, BatchesFacts DEF committing, IInv, Base
    <3> QED BY <3>2 DEF HalfApplied
  <2> QED BY <1>3, <2>1, <2>2, <2>3, <2>4, <2>5, <2>6, <2>7 DEF Next
<1> QED BY <1>1, <1>2, <1>3

LEMMA NextInv == IInv /\ [Next]_vars => IInv'
BY NextBase, NextBounded, NextRegistered, NextHalfApplied DEF IInv

-----------------------------------------------------------------------------
(***************************************************************************)
(* Every step is a step of AtomicBatch or none.                            *)
(***************************************************************************)

LEMMA InitAtomic == Init => Atomic!Init
<1> SUFFICES ASSUME Init PROVE Atomic!Init
  OBVIOUS
<1>1. ~committing
  BY EmptySeq DEF Init, Batches, committing
<1> QED
  BY <1>1 DEF Init, Atomic!Init, Atomic!Nothing, Atomic!Absent, Nothing, Absent

\* While the outermost batch commits, its hooks can only move the clock.
LEMMA AtomicInHook ==
  ASSUME committing, committing', stamp' \in {stamp, stamp + 1},
         outermost'.snapshot = outermost.snapshot,
         outermost'.writes = outermost.writes,
         outermost'.sealed = outermost.sealed
  PROVE  [Atomic!Next]_(Atomic!vars)
<1>1. CASE stamp' = stamp
  BY <1>1 DEF Atomic!vars, Atomic!batchVars
<1>2. CASE stamp' = stamp + 1
  BY <1>2 DEF Atomic!Next, Atomic!HookWrites, Atomic!batchVars
<1> QED BY <1>1, <1>2

\* The outermost batch has run its commit functions: all of it takes effect.
LEMMA AtomicDone ==
  ASSUME IInv, committing, first = Len(frames), CommitDone
  PROVE  Atomic!Commit
<1> USE DEF IInv
<1>1. /\ Top = outermost /\ outermost.queue = <<>> /\ Len(outermost.queue) = 0
      /\ stamp' = stamp /\ stores' = stores /\ pendingNotifications' = pendingNotifications
      /\ depth' = 0 /\ ~failed' /\ stagedValues' = Nothing /\ pc = "commit"
  BY EmptySeq DEF CommitDone, ResetTransaction, registryVars, Top, outermost
<1>2. ~committing'
  <2>1. Batches' = Batches \ {Len(frames)}
    BY BatchesPop
  <2> QED BY <2>1, FirstFacts, BatchesFacts DEF committing, Base
<1>3. Kept(stores, pendingNotifications)
  BY DEF HalfApplied
<1>4. Unapplied = 1 .. 0
  BY <1>1 DEF Unapplied
<1>5. ASSUME NEW s \in Stores
      PROVE  /\ stores[s] \in {own(s), Absent} \cup (outermost.sealed + 1 .. stamp)
             /\ /\ stores[s] # Absent /\ stores[s] = own(s)
                /\ outermost.writes[s] # Absent \/ s \in outermost.snapshot.pending
                => s \in pendingNotifications
  <2>1. /\ \A i \in Unapplied : outermost.queue[i].store # s
        /\ \A i \in 1 .. Len(outermost.queue) : outermost.queue[i].store # s
    BY <1>1, <1>4
  <2> QED BY <1>3, <2>1 DEF Kept
<1>6. Atomic!EndBatch
  BY <1>1, <1>2 DEF Atomic!EndBatch, Atomic!Nothing, Atomic!Absent, Nothing, Absent
<1> QED
  BY <1>1, <1>2, <1>5, <1>6 DEF Atomic!Commit, Atomic!Absent, Absent, own

\* One of them has thrown: none of it does.
LEMMA AtomicThrows ==
  ASSUME IInv, committing, first = Len(frames), CommitThrows
  PROVE  Atomic!Abort
<1> USE DEF IInv
<1>1. /\ Top = outermost
      /\ stamp' = stamp /\ stores' = outermost.snapshot.stores
      /\ pendingNotifications' = outermost.snapshot.pending
      /\ depth' = 0 /\ ~failed' /\ stagedValues' = Nothing
  BY DEF CommitThrows, ResetTransaction, Restore, Top, outermost
<1>2. ~committing'
  <2>1. Batches' = Batches \ {Len(frames)}
    BY BatchesPop
  <2> QED BY <2>1, FirstFacts, BatchesFacts DEF committing, Base
<1> QED
  BY <1>1, <1>2 DEF Atomic!Abort, Atomic!EndBatch, Atomic!Nothing, Atomic!Absent, Nothing, Absent

\* A step in or above a commit of the outermost batch.
LEMMA AtomicCommitting ==
  ASSUME IInv, IInv', committing, Next
  PROVE  [Atomic!Next]_(Atomic!vars)
<1> USE DEF IInv
<1>1. CASE first = Len(frames) /\ CommitDone
  BY <1>1, AtomicDone DEF Atomic!Next
<1>2. CASE first = Len(frames) /\ CommitThrows
  BY <1>2, AtomicThrows DEF Atomic!Next
<1>3. stamp' \in {stamp, stamp + 1}
  BY DEF Next, WriteDirectly, Create, Delete, WriteStaged, Begin, FailInBatch, Flush,
     EndNested, EndFailed, EndAndCommit, CommitNext, CommitThrows, CommitDone, HookReturns, Writes
<1>4. CASE first = Len(frames) /\ HookReturns
  <2>1. Top.kind = "batch" /\ Top = outermost
    BY <1>4, FirstFacts DEF Batches, Top, outermost
  <2>2. /\ committing' /\ outermost' = frames'[first]
    BY <1>4, <2>1, FirstFacts, FirstStays, BatchesRun
  <2> QED BY <1>3, <1>4, <2>1, <2>2, BatchesRun, AtomicInHook
<1>5. CASE first = Len(frames) /\ CommitNext
  <2>1. Batches' = Batches /\ \A k \in Batches' : frames'[k] = frames[k]
    BY <1>5, BatchesShrink, BatchAssumption
  <2>2. committing' /\ outermost' = outermost
    BY <2>1, FirstFacts, FirstStays DEF outermost
  <2> QED BY <1>3, <2>2, AtomicInHook
<1>6. CASE ~(first = Len(frames) /\ (CommitDone \/ CommitThrows \/ HookReturns \/ CommitNext))
  <2>1. committing' /\ outermost' = outermost
    BY <1>6, OuterUntouched, BatchAssumption DEF Next
  <2> QED BY <1>3, <2>1, AtomicInHook
<1> QED BY <1>1, <1>2, <1>4, <1>5, <1>6

\* A step while no batch commits: at the top level, in the hook of a direct write, or
\* in a batch function.
LEMMA AtomicOutside ==
  ASSUME IInv, IInv', ~committing, Next
  PROVE  [Atomic!Next]_(Atomic!vars)
<1> USE DEF IInv
<1>0. depth \in Nat /\ Batches = {}
  BY DEF Base, TypeOK, committing
<1>1. CASE EndAndCommit
  <2>1. /\ stamp' = stamp /\ ~failed /\ failed' = failed
        /\ depth = 1 /\ stagedValues' = stagedValues
    BY <1>1 DEF EndAndCommit
  <2>2. /\ Batches' = {Len(frames) + 1} /\ Len(frames) \in Nat
    BY <1>0, <1>1, BatchesGrow, BatchesFacts DEF Base
  <2>3. committing' /\ first' = Len(frames) + 1
    <3>1. first' \in Batches'
      BY <2>2 DEF first
    <3> QED BY <2>2, <3>1 DEF committing
  <2>4. /\ outermost'.writes = stagedValues /\ outermost'.sealed = stamp
        /\ outermost'.snapshot.stores = stores
        /\ outermost'.snapshot.pending = pendingNotifications
    BY <1>1, <2>3, BatchesGrow DEF outermost
  <2>5. Atomic!Seal
    BY <2>1, <2>3, <2>4 DEF Atomic!Seal
  <2> QED BY <2>5 DEF Atomic!Next
<1>2. CASE ~EndAndCommit
  <2>0. ~committing'
    <3>1. CASE HookReturns
      <4>1. Batches' \subseteq Batches
        BY <3>1, BatchesPop, BatchesRun
      <4> QED BY <1>0, <4>1 DEF committing
    <3>2. CASE ~HookReturns
      <4>1. Batches' \subseteq Batches
        BY <1>2, <3>2, BatchesShrink, BatchesPop, BatchAssumption DEF Next
      <4> QED BY <1>0, <4>1 DEF committing
    <3> QED BY <3>1, <3>2
  <2>1. pc = "app"
    BY <1>0, TopBatch DEF Base, TypeOK
  <2>2. ASSUME NEW s \in Stores, WriteDirectly(s) \/ Create(s) \/ Delete(s)
        PROVE  Atomic!Direct(s)
    <3>1. /\ depth = 0 /\ depth' = 0 /\ failed' = failed /\ stagedValues' = stagedValues
          /\ stamp' \in {stamp, stamp + 1}
          /\ \E v \in {Absent, stamp'} : stores' = [stores EXCEPT ![s] = v]
      BY <2>2 DEF WriteDirectly, Create, Delete, Writes, CommitStoreUpdate, transactionVars
    <3>2. pendingNotifications' \in {pendingNotifications, pendingNotifications \cup {s},
                                     pendingNotifications \ {s}}
      BY <2>2 DEF WriteDirectly, Create, Delete, Notify, notifyVars
    <3>3. PICK v \in {Atomic!Absent, stamp'} : stores' = [stores EXCEPT ![s] = v]
      BY <3>1 DEF Atomic!Absent, Absent
    <3>4. PICK before, after : /\ before = IF committing THEN outermost.snapshot.stores ELSE stores
                               /\ after = (IF committing THEN outermost.snapshot.stores ELSE stores)'
      OBVIOUS
    <3>5. after = [before EXCEPT ![s] = v]
      BY <2>0, <3>3, <3>4
    <3>6. /\ (IF committing THEN "committing" ELSE IF depth > 0 THEN "open" ELSE "none") = "none"
          /\ (IF committing THEN outermost.snapshot.pending ELSE pendingNotifications)'
               \in {IF committing THEN outermost.snapshot.pending ELSE pendingNotifications,
                    (IF committing THEN outermost.snapshot.pending ELSE pendingNotifications) \cup {s},
                    (IF committing THEN outermost.snapshot.pending ELSE pendingNotifications) \ {s}}
          /\ UNCHANGED Atomic!batchVars
      BY <2>0, <3>1, <3>2 DEF Atomic!batchVars
    <3> QED BY Zenon, <3>1, <3>3, <3>4, <3>5, <3>6 DEF Atomic!Direct
  <2>3. ASSUME NEW s \in Stores, WriteStaged(s)
        PROVE  Atomic!Stage(s)
    BY <1>0, <2>0, <2>3 DEF WriteStaged, Writes, Atomic!Stage, registryVars, notifyVars
  <2>4. CASE Begin
    <3>1. CASE depth = 0
      <4>1. /\ depth' = 1 /\ stamp' = stamp /\ stores' = stores /\ ~failed' /\ ~failed
            /\ pendingNotifications' = pendingNotifications
            /\ stagedValues' = Nothing /\ stagedValues = Nothing
        BY <2>4, <3>1 DEF Begin, Registered, registryVars
      <4>2. Atomic!Begin
        BY <2>0, <3>1, <4>1 DEF Atomic!Begin
      <4> QED BY <4>2 DEF Atomic!Next
    <3>2. CASE depth # 0
      <4>1. /\ depth > 0 /\ depth' > 0 /\ stamp' = stamp /\ stores' = stores
            /\ failed' = failed /\ pendingNotifications' = pendingNotifications
            /\ stagedValues' = stagedValues
        BY <1>0, <2>4, <3>2 DEF Begin, registryVars
      <4> QED BY <2>0, <4>1 DEF Atomic!vars, Atomic!batchVars
    <3> QED BY <3>1, <3>2
  <2>5. ASSUME FailInBatch \/ \E thrown \in BOOLEAN : EndNested(thrown)
        PROVE  [Atomic!Next]_(Atomic!vars)
    <3>1. /\ depth > 0 /\ depth' > 0 /\ stamp' = stamp /\ stores' = stores
          /\ pendingNotifications' = pendingNotifications /\ stagedValues' = stagedValues
          /\ failed' = TRUE \/ failed' = failed
      BY <1>0, <2>5 DEF FailInBatch, EndNested, registryVars, notifyVars, Base, TypeOK
    <3>2. CASE failed' = TRUE
      <4>1. Atomic!Fail
        BY <2>0, <3>1, <3>2 DEF Atomic!Fail
      <4> QED BY <4>1 DEF Atomic!Next
    <3>3. CASE failed' = failed
      BY <2>0, <3>1, <3>3 DEF Atomic!vars, Atomic!batchVars
    <3> QED BY <3>1, <3>2, <3>3
  <2>6. ASSUME NEW thrown \in BOOLEAN, EndFailed(thrown)
        PROVE  Atomic!Abort
    BY <2>0, <2>6 DEF EndFailed, ResetTransaction, registryVars, Atomic!Abort, Atomic!EndBatch,
       Atomic!Nothing, Atomic!Absent, Nothing, Absent
  <2>7. CASE HookReturns
    <3>1. Top.kind # "batch" /\ Top \in WriteFrame
      <4>1. Top.kind # "batch"
        BY <1>0, <2>7, TopFacts DEF HookReturns, Batches, Top, Base
      <4> QED BY <2>7, <4>1, TopFacts, FrameKinds DEF HookReturns, Base
    <3>2. /\ Top.at \in Stores
          /\ pendingNotifications' = pendingNotifications \cup {Top.at}
          /\ depth = 0 /\ depth' = 0 /\ stamp' = stamp /\ stores' = stores
          /\ failed' = failed /\ stagedValues' = stagedValues
      BY <2>7, <3>1 DEF HookReturns, WriteFrame, Notify, registryVars, transactionVars
    <3>3. Atomic!Notify(Top.at)
      BY <2>0, <3>2 DEF Atomic!Notify, Atomic!batchVars
    <3> QED BY <3>2, <3>3 DEF Atomic!Next
  <2>8. CASE Flush
    <3>1. Atomic!Flush
      BY <2>0, <2>8 DEF Flush, Atomic!Flush, Atomic!batchVars, registryVars, transactionVars
    <3> QED BY <3>1 DEF Atomic!Next
  <2>9. ~CommitNext /\ ~CommitThrows /\ ~CommitDone
    BY <2>1 DEF CommitNext, CommitThrows, CommitDone
  <2> QED
    BY <1>2, <2>2, <2>3, <2>4, <2>5, <2>6, <2>7, <2>8, <2>9 DEF Next, Atomic!Next
<1> QED BY <1>1, <1>2

LEMMA NextAtomic == IInv /\ IInv' /\ [Next]_vars => [Atomic!Next]_(Atomic!vars)
<1> SUFFICES ASSUME IInv, IInv', [Next]_vars PROVE [Atomic!Next]_(Atomic!vars)
  OBVIOUS
<1>1. CASE UNCHANGED vars
  <2>1. Batches' = Batches
    BY <1>1 DEF vars, Batches
  <2>2. committing' = committing /\ outermost' = outermost
    BY <1>1, <2>1 DEF vars, committing, first, outermost
  <2> QED
    BY <1>1, <2>2 DEF vars, registryVars, notifyVars, transactionVars, Atomic!vars, Atomic!batchVars
<1> QED BY <1>1, AtomicCommitting, AtomicOutside

\* Batches are atomic: StoreBatch implements AtomicBatch.  Whatever hooks write, create,
\* delete or batch while a batch commits, and whichever of the nested batches fail and
\* roll back, the batch takes effect in one step or not at all.
THEOREM BatchesAreAtomic == Spec => BatchAtomic
<1>1. Spec => []IInv
  BY InitInv, NextInv, PTL DEF Spec
<1>2. Spec => Atomic!Init /\ [][Atomic!Next]_(Atomic!vars)
  BY <1>1, InitAtomic, NextAtomic, PTL DEF Spec
<1> QED BY <1>2 DEF BatchAtomic, Atomic!Spec
=============================================================================
