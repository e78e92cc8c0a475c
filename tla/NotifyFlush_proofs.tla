------------------------- MODULE NotifyFlush_proofs -------------------------
(***************************************************************************)
(* Proofs about NotifyFlush, for any stores, subscribers, flights, slice   *)
(* size and number of writes.                                              *)
(*                                                                         *)
(* Then proofs about Selection, for any states, selectors and equality.    *)
(***************************************************************************)
EXTENDS NotifyFlush, Selection, TLAPS

-----------------------------------------------------------------------------
(***************************************************************************)
(* Type correctness.                                                       *)
(***************************************************************************)

\* What the flush captures is a StoreTask.
LEMMA CaptureType ==
  ASSUME TypeOK, NEW s \in Stores
  PROVE  Capture(s) \in StoreTask
BY DEF TypeOK, Capture, StoreTask

\* Refreshing a task changes nothing but its subscribers, and only adds some.
LEMMA RefreshFacts ==
  ASSUME TypeOK, NEW t \in StoreTask
  PROVE  /\ Refresh(t) \in StoreTask
         /\ Refresh(t).store = t.store
         /\ Refresh(t).snapshot = t.snapshot
         /\ Refresh(t).version = t.version
         /\ Refresh(t).subscribers = t.subscribers \cup subscribers[t.store]
         /\ Refresh(t).unnotified = t.unnotified \cup (subscribers[t.store] \ t.subscribers)
BY DEF TypeOK, Refresh, StoreTask

LEMMA NoTaskType == NoTask \in StoreTask
BY PipelineAssumption DEF NoTask, StoreTask

LEMMA FlushNamesType ==
  ASSUME TypeOK
  PROVE  FlushNames \subseteq Stores
BY PipelineAssumption DEF TypeOK, FlushNames

LEMMA InitType == Init => TypeOK
<1> SUFFICES ASSUME Init PROVE TypeOK
    OBVIOUS
<1>1. /\ stamp \in Nat /\ microtasks \in Nat /\ sent \in Nat
      /\ exists \in [Stores -> BOOLEAN]
      /\ value \in [Stores -> Nat] /\ updateCount \in [Stores -> Nat]
      BY DEF Init
<1>2. /\ subscribers \in [Stores -> SUBSET Subs]
      /\ tasks \in [Flights -> SUBSET StoreTask]
      BY DEF Init
<1>3. seen \in [Stores -> [Subs -> Nat]]
      BY DEF Init
<1>4. task \in StoreTask
      BY NoTaskType DEF Init
<1>5. /\ pendingNotifications \in SUBSET Stores
      /\ names \in SUBSET Stores /\ visited \in SUBSET Stores
      /\ notifyScheduled \in BOOLEAN /\ isFlushing \in BOOLEAN
      /\ pc \in {"idle", "next", "deliver", "call"}
      /\ flush \in {"none", "inline", "drain"} \cup Flights
      BY DEF Init
<1> QED BY <1>1, <1>2, <1>3, <1>4, <1>5 DEF TypeOK

LEMMA NotifyType ==
  ASSUME TypeOK, NEW S \in SUBSET Stores, Notify(S)
  PROVE  /\ pendingNotifications' \in SUBSET Stores
         /\ notifyScheduled' \in BOOLEAN
         /\ microtasks' \in Nat
<1>1. pendingNotifications' \in SUBSET Stores
      BY DEF TypeOK, Notify
<1>2. CASE pendingNotifications' = {}
  <2>1. notifyScheduled' = notifyScheduled /\ microtasks' = microtasks
        BY Zenon, <1>2 DEF Notify
  <2> QED BY Zenon, <1>1, <2>1 DEF TypeOK
<1>3. CASE pendingNotifications' # {}
  <2>1. ScheduleFlush
        BY Zenon, <1>3 DEF Notify
  <2>2. notifyScheduled' \in BOOLEAN
        BY <2>1 DEF ScheduleFlush
  <2>3. microtasks' \in {microtasks, microtasks + 1}
        BY Zenon, <2>1 DEF ScheduleFlush
  <2> QED BY <1>1, <2>2, <2>3 DEF TypeOK
<1> QED BY <1>2, <1>3

LEMMA FinishFlushType ==
  ASSUME TypeOK, FinishFlush
  PROVE  /\ isFlushing' \in BOOLEAN
         /\ notifyScheduled' \in BOOLEAN
         /\ microtasks' \in Nat
         /\ pc' = "idle"
         /\ flush' = "none"
<1>1. notifyScheduled' \in BOOLEAN
      BY Zenon DEF FinishFlush
<1>2. microtasks' \in Nat
      BY DEF TypeOK, FinishFlush
<1> QED BY <1>1, <1>2 DEF FinishFlush

LEMMA AfterTaskType ==
  ASSUME TypeOK, chunked, NEW t \in StoreTask, NEW Q \in SUBSET StoreTask, AfterTask(t, Q)
  PROVE  /\ tasks' \in [Flights -> SUBSET StoreTask]
         /\ isFlushing' \in BOOLEAN
         /\ notifyScheduled' \in BOOLEAN
         /\ microtasks' \in Nat
         /\ pc' \in {"idle", "next", "deliver", "call"}
         /\ flush' \in {"none", "inline", "drain"} \cup Flights
<1>1. tasks' \in [Flights -> SUBSET StoreTask]
      BY DEF TypeOK, AfterTask
<1>2. CASE Q = {}
      BY <1>1, <1>2, FinishFlushType DEF AfterTask
<1>3. CASE Q # {}
      BY <1>1, <1>3 DEF TypeOK, AfterTask
<1> QED BY <1>2, <1>3

LEMMA NextType == TypeOK /\ [Next]_vars => TypeOK'
<1> SUFFICES ASSUME TypeOK, [Next]_vars
             PROVE  TypeOK'
    OBVIOUS
<1> USE DEF TypeOK
<1>1. ASSUME NEW S \in SUBSET Stores, Commit(S)
      PROVE  TypeOK'
  <2>1. /\ stamp' \in Nat
        /\ value' \in [Stores -> Nat]
        /\ updateCount' \in [Stores -> Nat]
        BY <1>1 DEF Commit
  <2>2. Notify(S)
        BY <1>1 DEF Commit
  <2> QED BY <1>1, <2>1, <2>2, NotifyType DEF Commit, stackVars
<1>2. ASSUME NEW s \in Stores, CreateStore(s)
      PROVE  TypeOK'
  <2>1. /\ stamp' \in Nat
        /\ exists' \in [Stores -> BOOLEAN]
        /\ value' \in [Stores -> Nat]
        /\ updateCount' \in [Stores -> Nat]
        BY <1>2 DEF CreateStore
  <2>2. /\ pendingNotifications' \in SUBSET Stores
        /\ notifyScheduled' \in BOOLEAN
        /\ microtasks' \in Nat
        BY <1>2, NotifyType DEF CreateStore, notifyVars
  <2> QED BY <1>2, <2>1, <2>2 DEF CreateStore, stackVars
<1>3. ASSUME NEW s \in Stores, DeleteStore(s)
      PROVE  TypeOK'
      BY <1>3 DEF DeleteStore, SpliceOrderedNames, stackVars
<1>4. ASSUME NEW s \in Stores, NEW b \in Subs, Subscribe(s, b)
      PROVE  TypeOK'
      BY <1>4 DEF Subscribe, stackVars, notifyVars, registryVars
<1>5. ASSUME NEW s \in Stores, NEW b \in Subs, Unsubscribe(s, b)
      PROVE  TypeOK'
      BY <1>5 DEF Unsubscribe, stackVars, notifyVars, registryVars
<1>6. CASE RunMicrotask
  <2>1. CASE flush' = "inline" /\ StartInline
        BY <1>6, <2>1, FlushNamesType DEF RunMicrotask, StartInline, registryVars
  <2>2. ASSUME NEW f \in Flights, StartChunked(f)
        PROVE  TypeOK'
    <3>1. {Capture(s) : s \in {n \in FlushNames : subscribers[n] # {}}} \in SUBSET StoreTask
          BY FlushNamesType, CaptureType
    <3>2. tasks' \in [Flights -> SUBSET StoreTask]
          BY <2>2, <3>1 DEF StartChunked
    <3> QED BY <1>6, <2>2, <3>2 DEF RunMicrotask, StartChunked, registryVars
  <2> QED BY <1>6, <2>1, <2>2 DEF RunMicrotask
<1>7. CASE DrainInline
      BY <1>7, FlushNamesType DEF DrainInline, StartInline, registryVars
<1>8. CASE InlineTakeName
      BY <1>8, CaptureType DEF InlineTakeName, registryVars, notifyVars
<1>9. CASE InlineEnd
  <2>1. CASE flush = "drain"
        BY <1>9, <2>1, FlushNamesType DEF InlineEnd, registryVars
  <2>2. CASE flush # "drain"
        BY <1>9, <2>2, FinishFlushType DEF InlineEnd, registryVars
  <2> QED BY <2>1, <2>2
<1>10. ASSUME NEW f \in Flights, ChunkTimer(f)
       PROVE  TypeOK'
       BY <1>10 DEF ChunkTimer, registryVars, notifyVars
<1>11. CASE ChunkNothing
       BY <1>11, FinishFlushType DEF ChunkNothing, registryVars
<1>12. CASE ChunkStale
  <2>1. PICK t \in FirstTasks(tasks[flush]) :
          /\ pendingNotifications' = pendingNotifications \cup {t.store}
          /\ AfterTask(t, tasks[flush] \ {t})
        BY <1>12 DEF ChunkStale
  <2>2. chunked /\ t \in StoreTask /\ tasks[flush] \ {t} \in SUBSET StoreTask
        BY <1>12 DEF ChunkStale, chunked, FirstTasks
  <2>3. t.store \in Stores
        BY <2>2 DEF StoreTask
  <2> QED BY <1>12, <2>1, <2>2, <2>3, AfterTaskType DEF ChunkStale, registryVars
<1>13. CASE ChunkTakeTask
       BY <1>13, RefreshFacts DEF ChunkTakeTask, FirstTasks, chunked, registryVars, notifyVars
<1>14. ASSUME NEW b \in Subs, Deliver(b)
       PROVE  TypeOK'
  <2>1. task.store \in Stores /\ task.snapshot \in Nat
        BY DEF StoreTask
  <2>2. seen' \in [Stores -> [Subs -> Nat]]
    <3> DEFINE v == IF b \in subscribers[task.store] THEN task.snapshot
                    ELSE seen[task.store][b]
    <3>1. v \in Nat
          BY <2>1
    <3>2. seen' = [seen EXCEPT ![task.store][b] = v]
          BY <1>14 DEF Deliver
    <3> HIDE DEF v
    <3> QED BY <2>1, <3>1, <3>2
  <2>3. task' \in StoreTask
        BY <1>14 DEF Deliver, StoreTask
  <2>4. sent' \in Nat
        BY <1>14 DEF Deliver
  <2> QED BY <1>14, <2>2, <2>3, <2>4 DEF Deliver, registryVars, notifyVars
<1>15. CASE InlineReturn
       BY <1>15, NoTaskType DEF InlineReturn, StoreTask, registryVars
<1>16. CASE ChunkReturn
       BY <1>16 DEF ChunkReturn, registryVars, notifyVars
<1>17. CASE ChunkOutdated
  <2>1. chunked /\ AfterTask(task, tasks[flush]) /\ tasks[flush] \in SUBSET StoreTask
        BY <1>17 DEF ChunkOutdated, chunked
  <2>2. task.store \in Stores
        BY DEF StoreTask
  <2> QED BY <1>17, <2>1, <2>2, AfterTaskType, NoTaskType DEF ChunkOutdated, registryVars
<1>18. CASE ChunkSliceEnd
  <2> DEFINE Q == IF Refresh(task).unnotified = {} THEN tasks[flush]
                  ELSE tasks[flush] \cup {Refresh(task)}
  <2>1. chunked /\ AfterTask(task, Q) /\ Q \in SUBSET StoreTask
        BY <1>18, RefreshFacts DEF ChunkSliceEnd, chunked
  <2> HIDE DEF Q
  <2> QED BY <1>18, <2>1, AfterTaskType, NoTaskType DEF ChunkSliceEnd, registryVars
<1>19. CASE UNCHANGED vars
       BY <1>19 DEF vars, registryVars, notifyVars, stackVars
<1> QED BY <1>1, <1>2, <1>3, <1>4, <1>5, <1>6, <1>7, <1>8, <1>9, <1>10, <1>11, <1>12, <1>13,
           <1>14, <1>15, <1>16, <1>17, <1>18, <1>19 DEF Next, App, Pipeline

\* Every state of the pipeline is well typed; in particular the number of
\* queued microtasks never goes below zero.
THEOREM TypeCorrect == Spec => []TypeOK
<1>1. Init => TypeOK
      BY InitType
<1>2. TypeOK /\ [Next]_vars => TypeOK'
      BY NextType
<1> QED BY <1>1, <1>2, PTL DEF Spec

-----------------------------------------------------------------------------
(***************************************************************************)
(* The flags never outlive the work.                                       *)
(***************************************************************************)

\* A step that ends with a flush on the stack leaves the pipeline armed.
LEMMA ArmedOnStack == pc' # "idle" => FlushArmed'
BY DEF FlushArmed

\* finish() rearms the pipeline exactly when something is pending.
LEMMA FinishFlushArms ==
  ASSUME TypeOK, FinishFlush
  PROVE  FlushArmed'
<1>1. CASE pendingNotifications' = {}
  <2>1. ~notifyScheduled' /\ ~isFlushing'
        BY Zenon, <1>1 DEF FinishFlush
  <2> QED BY <1>1, <2>1 DEF FlushArmed
<1>2. CASE pendingNotifications' # {}
  <2>1. microtasks' = microtasks + 1
        BY Zenon, <1>2 DEF FinishFlush
  <2> QED BY <2>1 DEF FlushArmed, TypeOK
<1> QED BY <1>1, <1>2

\* notify leaves a microtask queued unless a flush was already scheduled.
LEMMA NotifyArms ==
  ASSUME TypeOK, FlushArmed, NEW S \in SUBSET Stores, Notify(S),
         UNCHANGED <<pc, tasks, isFlushing>>
  PROVE  FlushArmed'
<1>1. CASE pendingNotifications' = {}
  <2>1. notifyScheduled' = notifyScheduled /\ microtasks' = microtasks
        BY Zenon, <1>1 DEF Notify
  <2> QED BY Zenon, <1>1, <2>1 DEF FlushArmed
<1>2. CASE pendingNotifications' # {}
  <2>1. ScheduleFlush
        BY Zenon, <1>2 DEF Notify
  <2>2. CASE notifyScheduled
    <3>1. microtasks' = microtasks
          BY Zenon, <2>1, <2>2 DEF ScheduleFlush
    <3>2. microtasks > 0 \/ pc # "idle" \/ \E f \in Flights : tasks[f] # {}
          BY Zenon, <2>2 DEF FlushArmed
    <3> QED BY <3>1, <3>2 DEF FlushArmed
  <2>3. CASE ~notifyScheduled
    <3>1. microtasks' = microtasks + 1
          BY Zenon, <2>1, <2>3 DEF ScheduleFlush
    <3> QED BY <3>1 DEF FlushArmed, TypeOK
  <2> QED BY <2>2, <2>3
<1> QED BY <1>1, <1>2

LEMMA AfterTaskArms ==
  ASSUME TypeOK, chunked, NEW t \in StoreTask, NEW Q \in SUBSET StoreTask, AfterTask(t, Q)
  PROVE  FlushArmed'
<1>1. CASE Q = {}
      BY <1>1, FinishFlushArms DEF AfterTask
<1>2. CASE Q # {}
  <2>1. tasks'[flush] = Q /\ flush \in Flights
        BY DEF AfterTask, chunked, TypeOK
  <2> QED BY <1>2, <2>1 DEF FlushArmed
<1> QED BY <1>1, <1>2

LEMMA NextArmed == TypeOK /\ FlushArmed /\ [Next]_vars => FlushArmed'
<1> SUFFICES ASSUME TypeOK, FlushArmed, [Next]_vars
             PROVE  FlushArmed'
    OBVIOUS
<1>1. ASSUME NEW S \in SUBSET Stores, Commit(S)
      PROVE  FlushArmed'
      BY <1>1, NotifyArms DEF Commit, stackVars
<1>2. ASSUME NEW s \in Stores, CreateStore(s)
      PROVE  FlushArmed'
  <2>1. CASE Notify({s})
        BY <1>2, <2>1, NotifyArms DEF CreateStore, stackVars
  <2>2. CASE UNCHANGED notifyVars
        BY <1>2, <2>2 DEF CreateStore, stackVars, notifyVars, FlushArmed
  <2> QED BY <1>2, <2>1, <2>2 DEF CreateStore
<1>3. ASSUME NEW s \in Stores, DeleteStore(s)
      PROVE  FlushArmed'
      BY <1>3 DEF DeleteStore, stackVars, FlushArmed
<1>4. ASSUME NEW s \in Stores, NEW b \in Subs, Subscribe(s, b) \/ Unsubscribe(s, b)
      PROVE  FlushArmed'
      BY <1>4 DEF Subscribe, Unsubscribe, stackVars, notifyVars, FlushArmed
<1>5. CASE RunMicrotask \/ DrainInline
      BY <1>5, ArmedOnStack DEF RunMicrotask, DrainInline, StartInline, StartChunked
<1>6. CASE InlineTakeName
      BY <1>6, ArmedOnStack DEF InlineTakeName
<1>7. CASE InlineEnd
  <2>1. CASE flush # "drain"
        BY <1>7, <2>1, FinishFlushArms DEF InlineEnd
  <2>2. CASE flush = "drain" /\ pendingNotifications = {}
        BY <1>7, <2>2 DEF InlineEnd, FlushArmed
  <2>3. CASE flush = "drain" /\ pendingNotifications # {}
        BY <1>7, <2>3, ArmedOnStack DEF InlineEnd
  <2> QED BY <2>1, <2>2, <2>3
<1>8. ASSUME NEW f \in Flights, ChunkTimer(f)
      PROVE  FlushArmed'
      BY <1>8, ArmedOnStack DEF ChunkTimer
<1>9. CASE ChunkNothing
      BY <1>9, FinishFlushArms DEF ChunkNothing
<1>10. CASE ChunkStale
  <2>1. PICK t \in FirstTasks(tasks[flush]) : AfterTask(t, tasks[flush] \ {t})
        BY <1>10 DEF ChunkStale
  <2>2. chunked /\ t \in StoreTask /\ tasks[flush] \ {t} \in SUBSET StoreTask
        BY <1>10 DEF ChunkStale, chunked, FirstTasks, TypeOK
  <2> QED BY <2>1, <2>2, AfterTaskArms
<1>11. CASE ChunkTakeTask \/ \E b \in Subs : Deliver(b)
       BY <1>11, ArmedOnStack DEF ChunkTakeTask, Deliver
<1>12. CASE InlineReturn \/ ChunkReturn
       BY <1>12, ArmedOnStack DEF InlineReturn, ChunkReturn
<1>13. CASE ChunkOutdated
  <2>1. chunked /\ AfterTask(task, tasks[flush]) /\ tasks[flush] \in SUBSET StoreTask
        BY <1>13 DEF ChunkOutdated, chunked, TypeOK
  <2> QED BY <2>1, AfterTaskArms DEF TypeOK
<1>14. CASE ChunkSliceEnd
  <2> DEFINE Q == IF Refresh(task).unnotified = {} THEN tasks[flush]
                  ELSE tasks[flush] \cup {Refresh(task)}
  <2>1. chunked /\ AfterTask(task, Q) /\ Q \in SUBSET StoreTask
        BY <1>14, RefreshFacts DEF ChunkSliceEnd, chunked, TypeOK
  <2> HIDE DEF Q
  <2> QED BY <2>1, AfterTaskArms DEF TypeOK
<1>15. CASE UNCHANGED vars
       BY <1>15 DEF vars, registryVars, notifyVars, stackVars, FlushArmed
<1> QED BY <1>1, <1>2, <1>3, <1>4, <1>5, <1>6, <1>7, <1>8, <1>9, <1>10, <1>11, <1>12, <1>13,
           <1>14, <1>15 DEF Next, App, Pipeline

\* Whatever stores, subscribers and flush modes there are, and however flushes
\* overlap, work that the flags announce has a microtask, a chunk timer or a
\* flush on the stack that will do it: scheduleFlush's early return is safe.
THEOREM AlwaysArmed == Spec => []FlushArmed
<1>1. Init => FlushArmed
      BY DEF Init, FlushArmed
<1>2. TypeOK /\ FlushArmed /\ [Next]_vars => FlushArmed'
      BY NextArmed
<1> QED BY <1>1, <1>2, TypeCorrect, PTL DEF Spec

-----------------------------------------------------------------------------
(***************************************************************************)
(* No notification is lost.  The inductive invariant adds three facts about*)
(* what a flush has captured: a version identifies the value it was        *)
(* captured with, whoever subscribed after an inline flush captured a store*)
(* holds its value, and a chunked flush is about to deliver a current      *)
(* version.  Throughout, subscribers do not delete stores while an inline  *)
(* flush runs, nor is a name reused while a flush holds it.                *)
(***************************************************************************)

LEMMA GoodCapture ==
  ASSUME TypeOK, NEW s \in Stores
  PROVE  GoodTask(Capture(s))
BY DEF TypeOK, GoodTask, Capture

LEMMA GoodRefresh ==
  ASSUME TypeOK, NEW t \in StoreTask, GoodTask(t)
  PROVE  GoodTask(Refresh(t))
BY RefreshFacts DEF GoodTask

LEMMA GoodKept ==
  ASSUME UNCHANGED registryVars, NEW t, GoodTask(t)
  PROVE  GoodTask(t)'
BY DEF GoodTask, registryVars

\* A write moves the version past everything captured.
LEMMA GoodAfterCommit ==
  ASSUME TypeOK, NEW S \in SUBSET Stores, Commit(S), NEW t \in StoreTask, GoodTask(t)
  PROVE  GoodTask(t)'
<1>1. t.store \in Stores /\ t.version \in Nat /\ updateCount[t.store] \in Nat
      BY DEF TypeOK, StoreTask
<1>2. exists' = exists
      BY DEF Commit
<1>3. CASE t.store \in S
  <2>1. updateCount'[t.store] = updateCount[t.store] + 1
        BY <1>1, <1>3 DEF Commit
  <2> QED BY <1>1, <1>2, <2>1 DEF GoodTask
<1>4. CASE t.store \notin S
  <2>1. updateCount'[t.store] = updateCount[t.store] /\ value'[t.store] = value[t.store]
        BY <1>1, <1>4 DEF Commit
  <2> QED BY <1>2, <2>1 DEF GoodTask
<1> QED BY <1>3, <1>4

\* Creating or deleting one store disturbs no captured task of another.
LEMMA GoodElsewhere ==
  ASSUME TypeOK, NEW s \in Stores, CreateStore(s) \/ DeleteStore(s),
         NEW t \in StoreTask, t.store # s, GoodTask(t)
  PROVE  GoodTask(t)'
BY DEF TypeOK, CreateStore, DeleteStore, GoodTask, StoreTask

LEMMA AfterTaskGood ==
  ASSUME TypeOK, chunked, VersionIdentifiesSnapshot, UNCHANGED registryVars,
         NEW t \in StoreTask, NEW Q \in SUBSET StoreTask, AfterTask(t, Q),
         \A u \in Q : GoodTask(u)
  PROVE  VersionIdentifiesSnapshot' /\ pc' \in {"idle", "next"}
<1>1. tasks' = [tasks EXCEPT ![flush] = Q] /\ pc' \in {"idle", "next"}
      BY DEF AfterTask, FinishFlush
<1>2. \A f \in Flights : \A u \in tasks'[f] : GoodTask(u)
      BY <1>1 DEF TypeOK, chunked, VersionIdentifiesSnapshot
<1>3. \A f \in Flights : \A u \in tasks'[f] : GoodTask(u)'
      BY <1>2, GoodKept
<1> QED BY <1>1, <1>3 DEF VersionIdentifiesSnapshot, Delivering

\* Steps that leave the stores and the queued tasks alone.
LEMMA GoodTasksKept ==
  ASSUME VersionIdentifiesSnapshot, UNCHANGED <<registryVars, tasks>>,
         Delivering' => GoodTask(task')
  PROVE  VersionIdentifiesSnapshot'
<1>1. \A f \in Flights : \A t \in tasks'[f] : GoodTask(t)'
      BY GoodKept DEF VersionIdentifiesSnapshot
<1>2. Delivering' => GoodTask(task)'
      BY DEF GoodTask, registryVars
<1> QED BY <1>1, <1>2 DEF VersionIdentifiesSnapshot

LEMMA NextVersion ==
  ASSUME ~ReuseInFlight, IInv, [Next]_vars
  PROVE  VersionIdentifiesSnapshot'
<1> USE DEF IInv
<1>1. ASSUME NEW S \in SUBSET Stores, Commit(S)
      PROVE  VersionIdentifiesSnapshot'
  <2>1. UNCHANGED <<tasks, pc, task>>
        BY <1>1 DEF Commit, stackVars
  <2>2. \A t \in StoreTask : GoodTask(t) => GoodTask(t)'
        BY <1>1, GoodAfterCommit
  <2> QED BY <2>1, <2>2 DEF VersionIdentifiesSnapshot, Delivering, TypeOK, GoodTask
<1>2. ASSUME NEW s \in Stores, CreateStore(s) \/ DeleteStore(s)
      PROVE  VersionIdentifiesSnapshot'
  <2>1. UNCHANGED <<tasks, pc, task>>
        BY <1>2 DEF CreateStore, DeleteStore, stackVars
  <2>2. \A t \in StoreTask : t.store # s /\ GoodTask(t) => GoodTask(t)'
        BY <1>2, GoodElsewhere
  <2>3. CASE DeleteStore(s)
    <3>1. \A t \in StoreTask : t.store = s /\ GoodTask(t) => GoodTask(t)'
          BY <2>3 DEF DeleteStore, GoodTask, TypeOK
    <3> QED BY <2>1, <2>2, <3>1 DEF VersionIdentifiesSnapshot, Delivering, TypeOK, GoodTask
  <2>4. CASE CreateStore(s)
    <3>1. ~InFlight(s)
          BY <2>4 DEF CreateStore
    <3>2. /\ \A f \in Flights : \A t \in tasks[f] : t.store # s
          /\ Delivering => task.store # s
          BY <3>1 DEF InFlight, Delivering
    <3> QED BY <2>1, <2>2, <3>2 DEF VersionIdentifiesSnapshot, Delivering, TypeOK, GoodTask
  <2> QED BY <1>2, <2>3, <2>4
<1>3. ASSUME NEW s \in Stores, NEW b \in Subs, Subscribe(s, b) \/ Unsubscribe(s, b)
      PROVE  VersionIdentifiesSnapshot'
      BY <1>3, GoodTasksKept
      DEF Subscribe, Unsubscribe, stackVars, VersionIdentifiesSnapshot, Delivering
<1>4. CASE RunMicrotask \/ DrainInline
  <2>1. CASE StartInline
        BY <2>1, GoodTasksKept DEF StartInline, Delivering
  <2>2. ASSUME NEW f \in Flights, StartChunked(f)
        PROVE  VersionIdentifiesSnapshot'
    <3>1. \A t \in tasks'[f] : GoodTask(t)
          BY <2>2, GoodCapture, FlushNamesType DEF StartChunked, TypeOK
    <3>2. \A g \in Flights : \A t \in tasks'[g] : GoodTask(t)
          BY <2>2, <3>1 DEF StartChunked, VersionIdentifiesSnapshot, TypeOK
    <3>3. \A g \in Flights : \A t \in tasks'[g] : GoodTask(t)'
          BY <2>2, <3>2, GoodKept DEF StartChunked
    <3>4. ~Delivering'
          BY <2>2 DEF StartChunked, Delivering
    <3> QED BY <3>3, <3>4 DEF VersionIdentifiesSnapshot
  <2> QED BY <1>4, <2>1, <2>2 DEF RunMicrotask, DrainInline
<1>5. CASE InlineTakeName
  <2>1. Delivering' => GoodTask(task')
        BY <1>5, GoodCapture DEF InlineTakeName, Delivering, TypeOK
  <2> QED BY <1>5, <2>1, GoodTasksKept DEF InlineTakeName
<1>6. CASE InlineEnd \/ ChunkNothing
  <2>1. pc' \in {"idle", "next"}
        BY <1>6 DEF InlineEnd, ChunkNothing, FinishFlush
  <2> QED BY <1>6, <2>1, GoodTasksKept DEF InlineEnd, ChunkNothing, Delivering
<1>7. ASSUME NEW f \in Flights, ChunkTimer(f)
      PROVE  VersionIdentifiesSnapshot'
      BY <1>7, GoodTasksKept DEF ChunkTimer, Delivering
<1>8. CASE ChunkStale
  <2>1. PICK t \in FirstTasks(tasks[flush]) : AfterTask(t, tasks[flush] \ {t})
        BY <1>8 DEF ChunkStale
  <2>2. chunked /\ t \in StoreTask /\ tasks[flush] \ {t} \in SUBSET StoreTask
        BY <1>8 DEF ChunkStale, chunked, FirstTasks, TypeOK
  <2>3. \A u \in tasks[flush] \ {t} : GoodTask(u)
        BY <2>2 DEF VersionIdentifiesSnapshot, chunked
  <2>4. UNCHANGED registryVars
        BY <1>8 DEF ChunkStale
  <2> QED BY <2>1, <2>2, <2>3, <2>4, AfterTaskGood
<1>9. CASE ChunkTakeTask
  <2>1. PICK t \in FirstTasks(tasks[flush]) :
          tasks' = [tasks EXCEPT ![flush] = @ \ {t}] /\ task' = Refresh(t)
        BY <1>9 DEF ChunkTakeTask
  <2>2. flush \in Flights /\ t \in tasks[flush] /\ t \in StoreTask
        BY <1>9 DEF ChunkTakeTask, chunked, FirstTasks, TypeOK
  <2>3. GoodTask(task')
        BY <2>1, <2>2, GoodRefresh DEF VersionIdentifiesSnapshot
  <2>4. UNCHANGED registryVars
        BY <1>9 DEF ChunkTakeTask
  <2>5. \A f \in Flights : \A u \in tasks'[f] : GoodTask(u)
        BY <2>1, <2>2 DEF VersionIdentifiesSnapshot, TypeOK
  <2>6. \A f \in Flights : \A u \in tasks'[f] : GoodTask(u)'
        BY <2>4, <2>5, GoodKept
  <2>7. GoodTask(task)'
        BY <2>3, <2>4 DEF GoodTask, registryVars
  <2> QED BY <2>6, <2>7 DEF VersionIdentifiesSnapshot
<1>10. ASSUME NEW b \in Subs, Deliver(b)
       PROVE  VersionIdentifiesSnapshot'
  <2>1. GoodTask(task)
        BY <1>10 DEF Deliver, VersionIdentifiesSnapshot, Delivering
  <2>2. GoodTask(task')
        BY <1>10, <2>1 DEF Deliver, GoodTask, TypeOK, StoreTask
  <2> QED BY <1>10, <2>2, GoodTasksKept DEF Deliver
<1>11. CASE InlineReturn \/ ChunkReturn
  <2>1. Delivering' => task' = task
        BY <1>11 DEF InlineReturn, ChunkReturn, Delivering
  <2>2. GoodTask(task)
        BY <1>11 DEF InlineReturn, ChunkReturn, VersionIdentifiesSnapshot, Delivering
  <2> QED BY <1>11, <2>1, <2>2, GoodTasksKept DEF InlineReturn, ChunkReturn
<1>12. CASE ChunkOutdated
  <2>1. chunked /\ AfterTask(task, tasks[flush]) /\ UNCHANGED registryVars
        BY <1>12 DEF ChunkOutdated
  <2>2. /\ tasks[flush] \in SUBSET StoreTask
        /\ \A u \in tasks[flush] : GoodTask(u)
        BY <2>1 DEF chunked, TypeOK, VersionIdentifiesSnapshot
  <2> QED BY <2>1, <2>2, AfterTaskGood DEF TypeOK
<1>13. CASE ChunkSliceEnd
  <2> DEFINE Q == IF Refresh(task).unnotified = {} THEN tasks[flush]
                  ELSE tasks[flush] \cup {Refresh(task)}
  <2>1. chunked /\ AfterTask(task, Q) /\ UNCHANGED registryVars
        BY <1>13 DEF ChunkSliceEnd
  <2>2. GoodTask(Refresh(task))
        BY <1>13, GoodRefresh DEF ChunkSliceEnd, VersionIdentifiesSnapshot, Delivering, TypeOK
  <2>3. Q \in SUBSET StoreTask /\ \A u \in Q : GoodTask(u)
        BY <2>1, <2>2, RefreshFacts DEF chunked, TypeOK, VersionIdentifiesSnapshot
  <2> HIDE DEF Q
  <2> QED BY <2>1, <2>3, AfterTaskGood DEF TypeOK
<1>14. CASE UNCHANGED vars
       BY <1>14, GoodTasksKept
       DEF vars, registryVars, stackVars, VersionIdentifiesSnapshot, Delivering
<1> QED BY <1>1, <1>2, <1>3, <1>4, <1>5, <1>6, <1>7, <1>8, <1>9, <1>10, <1>11, <1>12, <1>13,
           <1>14 DEF Next, App, Pipeline

LEMMA NextDelivers ==
  ASSUME IInv, [Next]_vars
  PROVE  DeliversCurrentVersion'
<1> USE DEF DeliversCurrentVersion, chunked
<1>1. CASE ChunkTakeTask
  <2>1. PICK t \in FirstTasks(tasks[flush]) : CurrentVersion(t) = t.version /\ task' = Refresh(t)
        BY <1>1 DEF ChunkTakeTask
  <2>2. t \in StoreTask
        BY <1>1 DEF ChunkTakeTask, FirstTasks, IInv, TypeOK
  <2>3. task'.store = t.store /\ task'.version = t.version
        BY <2>1, <2>2, RefreshFacts DEF IInv
  <2> QED BY <1>1, <2>1, <2>3 DEF ChunkTakeTask, CurrentVersion, registryVars
<1>2. CASE ChunkReturn
      BY <1>2 DEF ChunkReturn, CurrentVersion, registryVars
<1>3. ASSUME \/ \E S \in SUBSET Stores : Commit(S)
             \/ \E s \in Stores : CreateStore(s) \/ DeleteStore(s)
             \/ \E s \in Stores, b \in Subs : Subscribe(s, b) \/ Unsubscribe(s, b)
      PROVE  pc' # "deliver"
      BY <1>3 DEF Commit, CreateStore, DeleteStore, Subscribe, Unsubscribe, AppRuns, stackVars
<1>4. ASSUME \/ RunMicrotask \/ DrainInline \/ InlineEnd \/ ChunkNothing \/ ChunkStale
             \/ \E f \in Flights : ChunkTimer(f)
             \/ \E b \in Subs : Deliver(b)
             \/ ChunkOutdated \/ ChunkSliceEnd
      PROVE  pc' # "deliver"
      BY <1>4 DEF RunMicrotask, DrainInline, StartInline, StartChunked, InlineEnd,
                  ChunkNothing, ChunkStale, ChunkTimer, Deliver, ChunkOutdated, ChunkSliceEnd,
                  AfterTask, FinishFlush
<1>5. CASE InlineTakeName \/ InlineReturn
      BY <1>5 DEF InlineTakeName, InlineReturn
<1>6. CASE UNCHANGED vars
      BY <1>6 DEF IInv, vars, registryVars, stackVars
<1> QED BY <1>1, <1>2, <1>3, <1>4, <1>5, <1>6 DEF Next, App, Pipeline

LEMMA NextLate ==
  ASSUME ~ReuseInFlight, IInv, [Next]_vars
  PROVE  LateSubscribersCurrent'
<1> USE DEF IInv
<1>1. ASSUME NEW S \in SUBSET Stores, Commit(S)
      PROVE  LateSubscribersCurrent'
  <2>1. UNCHANGED <<exists, subscribers, pc, flush, task, seen>>
        BY <1>1 DEF Commit, stackVars
  <2>2. task.store \in Stores /\ task.version \in Nat /\ updateCount[task.store] \in Nat
        BY DEF TypeOK, StoreTask
  <2>3. CASE task.store \in S
    <3>1. updateCount'[task.store] = updateCount[task.store] + 1
          BY <1>1, <2>2, <2>3 DEF Commit
    <3>2. Delivering /\ exists[task.store] => task.version <= updateCount[task.store]
          BY DEF VersionIdentifiesSnapshot, GoodTask
    <3> QED BY <2>1, <2>2, <3>1, <3>2 DEF LateSubscribersCurrent, Delivering
  <2>4. CASE task.store \notin S
    <3>1. /\ updateCount'[task.store] = updateCount[task.store]
          /\ value'[task.store] = value[task.store]
          BY <1>1, <2>2, <2>4 DEF Commit
    <3> QED BY <2>1, <3>1 DEF LateSubscribersCurrent, Delivering, chunked
  <2> QED BY <2>3, <2>4
<1>2. ASSUME NEW s \in Stores, CreateStore(s)
      PROVE  LateSubscribersCurrent'
  <2>1. Delivering => task.store # s
        BY <1>2 DEF CreateStore, InFlight, Delivering
  <2>2. UNCHANGED <<subscribers, pc, flush, task, seen>>
        BY <1>2 DEF CreateStore, stackVars
  <2>3. task.store # s => /\ exists'[task.store] = exists[task.store]
                          /\ value'[task.store] = value[task.store]
                          /\ updateCount'[task.store] = updateCount[task.store]
        BY <1>2 DEF CreateStore, TypeOK, StoreTask
  <2> QED BY <2>1, <2>2, <2>3 DEF LateSubscribersCurrent, Delivering, chunked
<1>3. ASSUME NEW s \in Stores, DeleteStore(s)
      PROVE  LateSubscribersCurrent'
  <2>1. UNCHANGED <<pc, flush, task>>
        BY <1>3 DEF DeleteStore, stackVars
  <2>2. task.store = s => ~exists'[task.store]
        BY <1>3 DEF DeleteStore, TypeOK
  <2>3. task.store # s => /\ exists'[task.store] = exists[task.store]
                          /\ value'[task.store] = value[task.store]
                          /\ updateCount'[task.store] = updateCount[task.store]
                          /\ subscribers'[task.store] = subscribers[task.store]
                          /\ seen'[task.store] = seen[task.store]
        BY <1>3 DEF DeleteStore, TypeOK, StoreTask
  <2> QED BY <2>1, <2>2, <2>3 DEF LateSubscribersCurrent, Delivering, chunked
<1>4. ASSUME NEW s \in Stores, NEW b \in Subs, Subscribe(s, b)
      PROVE  LateSubscribersCurrent'
  <2>1. UNCHANGED <<registryVars, pc, flush, task>>
        BY <1>4 DEF Subscribe, stackVars
  <2>2. \A c \in subscribers'[task.store] :
          \/ c \in subscribers[task.store] /\ seen'[task.store][c] = seen[task.store][c]
          \/ seen'[task.store][c] = value[task.store]
        BY <1>4 DEF Subscribe, TypeOK, StoreTask
  <2> QED BY <2>1, <2>2 DEF LateSubscribersCurrent, Delivering, chunked, registryVars
<1>5. ASSUME NEW s \in Stores, NEW b \in Subs, Unsubscribe(s, b)
      PROVE  LateSubscribersCurrent'
  <2>1. UNCHANGED <<registryVars, pc, flush, task>>
        BY <1>5 DEF Unsubscribe, stackVars
  <2>2. \A c \in subscribers'[task.store] :
          c \in subscribers[task.store] /\ seen'[task.store][c] = seen[task.store][c]
        BY <1>5 DEF Unsubscribe, TypeOK, StoreTask
  <2> QED BY <2>1, <2>2 DEF LateSubscribersCurrent, Delivering, chunked, registryVars
<1>6. CASE InlineTakeName
  <2>1. Delivering' => \E s \in Stores : task' = Capture(s)
        BY <1>6 DEF InlineTakeName, Delivering, TypeOK
  <2>2. Delivering' => task'.subscribers = subscribers[task'.store]
        BY <2>1 DEF Capture
  <2> QED BY <1>6, <2>2 DEF InlineTakeName, LateSubscribersCurrent
<1>7. ASSUME NEW b \in Subs, Deliver(b)
      PROVE  LateSubscribersCurrent'
  <2>1. /\ UNCHANGED <<registryVars, subscribers, flush>> /\ Delivering
        /\ task'.store = task.store /\ task'.version = task.version
        /\ task'.subscribers = task.subscribers
        BY <1>7 DEF Deliver, Delivering, TypeOK, StoreTask
  <2>2. b \in task.subscribers
        BY <1>7, <2>1 DEF Deliver, VersionIdentifiesSnapshot, GoodTask
  <2>3. \A c \in Subs : c # b => seen'[task.store][c] = seen[task.store][c]
        BY <1>7 DEF Deliver, TypeOK, StoreTask
  <2> QED BY <2>1, <2>2, <2>3
          DEF LateSubscribersCurrent, Delivering, chunked, registryVars, TypeOK, StoreTask
<1>8. CASE InlineReturn
      BY <1>8 DEF InlineReturn, LateSubscribersCurrent, Delivering, chunked, registryVars
<1>9. CASE ChunkTakeTask \/ ChunkReturn
      BY <1>9 DEF ChunkTakeTask, ChunkReturn, LateSubscribersCurrent, chunked
<1>10. ASSUME \/ RunMicrotask \/ DrainInline \/ InlineEnd \/ ChunkNothing \/ ChunkStale
              \/ \E f \in Flights : ChunkTimer(f)
              \/ ChunkOutdated \/ ChunkSliceEnd
       PROVE  pc' \in {"idle", "next"}
       BY <1>10 DEF RunMicrotask, DrainInline, StartInline, StartChunked, InlineEnd,
                    ChunkNothing, ChunkStale, ChunkTimer, ChunkOutdated, ChunkSliceEnd,
                    AfterTask, FinishFlush
<1>11. CASE UNCHANGED vars
       BY <1>11 DEF vars, registryVars, stackVars, LateSubscribersCurrent, Delivering, chunked
<1> QED BY <1>1, <1>2, <1>3, <1>4, <1>5, <1>6, <1>7, <1>8, <1>9, <1>10, <1>11
        DEF Next, App, Pipeline, LateSubscribersCurrent, Delivering

\* What covers a subscriber before a step covers it after, in the same place,
\* when the step leaves the store's value and version alone.
LEMMA OutstandingKept ==
  ASSUME NEW s \in Stores, NEW b \in Subs, Outstanding(s, b),
         value'[s] = value[s], updateCount'[s] = updateCount[s],
         s \in pendingNotifications => s \in pendingNotifications',
         UNCHANGED <<tasks, pc, task, flush>>,
         s \in names => s \in names' \/ pc = "idle" \/ chunked
  PROVE  Outstanding(s, b)'
<1>1. \A f \in Flights : \A t \in tasks[f] : TaskCovers(t, s, b) => TaskCovers(t, s, b)'
      BY DEF TaskCovers
<1>2. TaskCovers(task, s, b) => TaskCovers(task, s, b)'
      BY DEF TaskCovers
<1> QED BY <1>1, <1>2 DEF Outstanding, chunked

\* The same for a task in the queue, which another task may join or leave.
LEMMA QueuedCovers ==
  ASSUME NEW s \in Stores, NEW b \in Subs, UNCHANGED registryVars,
         NEW f \in Flights, NEW t \in tasks'[f], TaskCovers(t, s, b)
  PROVE  Outstanding(s, b)'
<1>1. TaskCovers(t, s, b)'
      BY DEF TaskCovers, registryVars
<1> QED BY <1>1 DEF Outstanding

LEMMA CaptureCovers ==
  ASSUME NEW s \in Stores, NEW b \in subscribers[s]
  PROVE  TaskCovers(Capture(s), s, b)
BY DEF TaskCovers, Capture

LEMMA RefreshCovers ==
  ASSUME TypeOK, NEW t \in StoreTask, NEW s \in Stores, NEW b \in subscribers[s],
         TaskCovers(t, s, b)
  PROVE  TaskCovers(Refresh(t), s, b)
BY RefreshFacts DEF TaskCovers

\* The steps of application code.
LEMMA AppKeeps ==
  ASSUME ~DeleteInInline, IInv, App, NEW s \in Stores, NEW b \in Subs, Owed(s, b)'
  PROVE  Outstanding(s, b)'
<1> USE DEF IInv
<1>1. ASSUME NEW S \in SUBSET Stores, Commit(S)
      PROVE  Outstanding(s, b)'
  <2>1. UNCHANGED <<exists, subscribers, tasks, pc, flush, task, names, seen>>
        BY <1>1 DEF Commit, stackVars
  <2>2. pendingNotifications' = pendingNotifications \cup S
        BY <1>1 DEF Commit, Notify
  <2>3. CASE s \in S
        BY <2>2, <2>3 DEF Outstanding
  <2>4. CASE s \notin S
    <3>1. value'[s] = value[s] /\ updateCount'[s] = updateCount[s]
          BY <1>1, <2>4 DEF Commit
    <3>2. Owed(s, b)
          BY <2>1, <3>1 DEF Owed
    <3> QED BY <2>1, <2>2, <3>1, <3>2, OutstandingKept DEF NoLostNotification
  <2> QED BY <2>3, <2>4
<1>2. ASSUME NEW c \in Stores, CreateStore(c)
      PROVE  Outstanding(s, b)'
  <2>1. UNCHANGED <<subscribers, tasks, pc, flush, task, names, seen>>
        BY <1>2 DEF CreateStore, stackVars
  <2>2. CASE s = c
    <3>1. subscribers[c] # {}
          BY <2>1, <2>2 DEF Owed
    <3>2. c \in pendingNotifications'
          BY <1>2, <3>1 DEF CreateStore, Notify
    <3> QED BY <2>2, <3>2 DEF Outstanding
  <2>3. CASE s # c
    <3>1. /\ exists'[s] = exists[s] /\ value'[s] = value[s]
          /\ updateCount'[s] = updateCount[s]
          BY <1>2, <2>3 DEF CreateStore, TypeOK
    <3>2. Owed(s, b)
          BY <2>1, <3>1 DEF Owed
    <3>3. pendingNotifications \subseteq pendingNotifications'
          BY <1>2 DEF CreateStore, Notify, notifyVars
    <3> QED BY <2>1, <3>1, <3>2, <3>3, OutstandingKept DEF NoLostNotification
  <2> QED BY <2>2, <2>3
<1>3. ASSUME NEW d \in Stores, DeleteStore(d)
      PROVE  Outstanding(s, b)'
  <2>1. s # d
        BY <1>3 DEF DeleteStore, Owed, TypeOK
  <2>2. /\ exists'[s] = exists[s] /\ value'[s] = value[s]
        /\ updateCount'[s] = updateCount[s] /\ subscribers'[s] = subscribers[s]
        /\ seen'[s] = seen[s]
        BY <1>3, <2>1 DEF DeleteStore, TypeOK
  <2>3. Owed(s, b)
        BY <2>2 DEF Owed
  <2>4. UNCHANGED <<tasks, pc, flush, task>> /\ (pc = "idle" \/ chunked)
        BY <1>3 DEF DeleteStore, AppRuns, stackVars
  <2>5. s \in pendingNotifications => s \in pendingNotifications'
        BY <1>3, <2>1 DEF DeleteStore
  <2> QED BY <2>2, <2>3, <2>4, <2>5, OutstandingKept DEF NoLostNotification
<1>4. ASSUME NEW r \in Stores, NEW c \in Subs, Subscribe(r, c) \/ Unsubscribe(r, c)
      PROVE  Outstanding(s, b)'
  <2>1. UNCHANGED <<registryVars, pendingNotifications, tasks, pc, flush, task, names>>
        BY <1>4 DEF Subscribe, Unsubscribe, stackVars, notifyVars
  <2>2. b \in subscribers[s] /\ seen'[s][b] = seen[s][b]
        BY <1>4, <2>1 DEF Subscribe, Unsubscribe, Owed, TypeOK, registryVars
  <2>3. Owed(s, b)
        BY <2>1, <2>2 DEF Owed, registryVars
  <2> QED BY <2>1, <2>3, OutstandingKept DEF NoLostNotification, registryVars
<1> QED BY <1>1, <1>2, <1>3, <1>4 DEF App

\* The steps of the pipeline deliver what is owed or keep it queued.
LEMMA PipelineKeeps ==
  ASSUME IInv, DrainInline \/ Pipeline, NEW s \in Stores, NEW b \in Subs, Owed(s, b)'
  PROVE  Outstanding(s, b)'
<1> USE DEF IInv
<1>1. UNCHANGED <<registryVars, subscribers>>
      BY DEF DrainInline, Pipeline, RunMicrotask, StartInline, StartChunked, InlineTakeName,
             InlineEnd, ChunkTimer, ChunkNothing, ChunkStale, ChunkTakeTask, Deliver,
             InlineReturn, ChunkReturn, ChunkOutdated, ChunkSliceEnd
<1>2. exists[s] /\ b \in subscribers[s]
      BY <1>1 DEF Owed, registryVars
<1>3. ASSUME seen' = seen
      PROVE  Owed(s, b) /\ Outstanding(s, b)
      BY <1>1, <1>3 DEF Owed, NoLostNotification, registryVars
<1>4. CASE RunMicrotask \/ DrainInline
  <2>1. seen' = seen /\ pc = "idle"
        BY <1>4 DEF RunMicrotask, DrainInline, StartInline, StartChunked
  <2>2. \/ s \in pendingNotifications
        \/ \E f \in Flights : \E t \in tasks[f] : TaskCovers(t, s, b)
        BY <1>3, <2>1 DEF Outstanding
  <2>3. CASE StartInline /\ flush' \in {"inline", "drain"}
    <3>1. s \in pendingNotifications => s \in names'
          BY <2>3 DEF StartInline, FlushNames
    <3>2. pc' = "next" /\ ~chunked' /\ tasks' = tasks
          BY <2>3, PipelineAssumption DEF StartInline, chunked
    <3> QED BY <1>1, <2>2, <3>1, <3>2, QueuedCovers DEF Outstanding
  <2>4. ASSUME NEW f \in Flights, StartChunked(f)
        PROVE  Outstanding(s, b)'
    <3>1. tasks[f] = {} /\ tasks' = [tasks EXCEPT ![f] = tasks'[f]]
          BY <2>4 DEF StartChunked, TypeOK
    <3>2. CASE s \in pendingNotifications
      <4>1. Capture(s) \in tasks'[f]
            BY <1>2, <2>4, <3>2 DEF StartChunked, FlushNames, TypeOK
      <4> QED BY <1>1, <1>2, <4>1, CaptureCovers, QueuedCovers
    <3>3. ASSUME NEW g \in Flights, NEW t \in tasks[g], TaskCovers(t, s, b)
          PROVE  Outstanding(s, b)'
      <4>1. t \in tasks'[g]
            BY <3>1, <3>3 DEF TypeOK
      <4> QED BY <1>1, <3>3, <4>1, QueuedCovers
    <3> QED BY <2>2, <3>2, <3>3
  <2> QED BY <1>4, <2>3, <2>4 DEF RunMicrotask, DrainInline
<1>5. CASE InlineTakeName
  <2>1. PICK n \in names : /\ names' = names \ {n}
                           /\ IF subscribers[n] = {} THEN UNCHANGED <<pc, task>>
                              ELSE pc' = "deliver" /\ task' = Capture(n)
        BY <1>5 DEF InlineTakeName
  <2>2. seen' = seen /\ pc = "next" /\ ~chunked
        /\ UNCHANGED <<tasks, flush, pendingNotifications>>
        BY <1>5 DEF InlineTakeName, notifyVars
  <2>3. CASE s = n
    <3>1. pc' = "deliver" /\ task' = Capture(s)
          BY <1>2, <2>1, <2>3
    <3>2. TaskCovers(task, s, b)'
          BY <1>1, <1>2, <3>1, CaptureCovers DEF TaskCovers, registryVars
    <3> QED BY <3>1, <3>2 DEF Outstanding
  <2>4. CASE s # n
    <3>1. CASE s \in names
          BY <2>1, <2>2, <2>4, <3>1 DEF Outstanding, chunked
    <3>2. CASE s \in pendingNotifications
          BY <2>2, <3>2 DEF Outstanding
    <3>3. CASE \E f \in Flights : \E t \in tasks[f] : TaskCovers(t, s, b)
          BY <1>1, <2>2, <3>3, QueuedCovers
    <3> QED BY <1>3, <2>2, <3>1, <3>2, <3>3 DEF Outstanding
  <2> QED BY <2>3, <2>4
<1>6. CASE InlineEnd
  <2>1. seen' = seen /\ pc = "next" /\ names = {} /\ ~chunked /\ tasks' = tasks
        BY <1>6 DEF InlineEnd
  <2>2. CASE s \in pendingNotifications
    <3>1. CASE flush = "drain"
      <4>1. s \in names' /\ pc' = "next" /\ flush' = flush
            BY <1>6, <2>1, <2>2, <3>1 DEF InlineEnd, FlushNames
      <4> QED BY <2>1, <4>1 DEF Outstanding, chunked
    <3>2. CASE flush # "drain"
          BY <1>6, <2>2, <3>2 DEF InlineEnd, Outstanding
    <3> QED BY <3>1, <3>2
  <2>3. CASE \E f \in Flights : \E t \in tasks[f] : TaskCovers(t, s, b)
        BY <1>1, <2>1, <2>3, QueuedCovers
  <2> QED BY <1>3, <2>1, <2>2, <2>3 DEF Outstanding
<1>7. CASE ChunkNothing \/ \E f \in Flights : ChunkTimer(f)
  <2>1. /\ UNCHANGED <<seen, tasks, pendingNotifications>>
        /\ pc = "idle" \/ (pc = "next" /\ chunked)
        BY <1>7 DEF ChunkNothing, ChunkTimer, notifyVars
  <2>2. CASE s \in pendingNotifications
        BY <2>1, <2>2 DEF Outstanding
  <2>3. CASE \E f \in Flights : \E t \in tasks[f] : TaskCovers(t, s, b)
        BY <1>1, <2>1, <2>3, QueuedCovers
  <2> QED BY <1>3, <2>1, <2>2, <2>3 DEF Outstanding
<1>8. CASE ChunkStale
  <2>1. PICK t \in FirstTasks(tasks[flush]) :
          /\ pendingNotifications' = pendingNotifications \cup {t.store}
          /\ AfterTask(t, tasks[flush] \ {t})
        BY <1>8 DEF ChunkStale
  <2>2. seen' = seen /\ pc = "next" /\ chunked
        BY <1>8 DEF ChunkStale
  <2>3. tasks' = [tasks EXCEPT ![flush] = tasks[flush] \ {t}]
        BY <2>1 DEF AfterTask
  <2>4. CASE s \in pendingNotifications \/ s = t.store
        BY <2>1, <2>4 DEF Outstanding
  <2>5. ASSUME NEW g \in Flights, NEW u \in tasks[g], TaskCovers(u, s, b), s # t.store
        PROVE  Outstanding(s, b)'
    <3>1. u \in tasks'[g]
          BY <2>3, <2>5 DEF TypeOK, TaskCovers
    <3> QED BY <1>1, <2>5, <3>1, QueuedCovers
  <2> QED BY <1>3, <2>2, <2>4, <2>5 DEF Outstanding
<1>9. CASE ChunkTakeTask
  <2>1. PICK t \in FirstTasks(tasks[flush]) :
          tasks' = [tasks EXCEPT ![flush] = @ \ {t}] /\ task' = Refresh(t)
        BY <1>9 DEF ChunkTakeTask
  <2>2. seen' = seen /\ pc = "next" /\ chunked /\ pc' = "deliver"
        /\ pendingNotifications' = pendingNotifications
        BY <1>9 DEF ChunkTakeTask, notifyVars
  <2>3. t \in StoreTask
        BY <2>1, <2>2 DEF FirstTasks, chunked, TypeOK
  <2>4. CASE s \in pendingNotifications
        BY <2>2, <2>4 DEF Outstanding
  <2>5. ASSUME NEW g \in Flights, NEW u \in tasks[g], TaskCovers(u, s, b)
        PROVE  Outstanding(s, b)'
    <3>1. CASE u = t
      <4>1. TaskCovers(task', s, b)
            BY <1>2, <2>1, <2>3, <2>5, <3>1, RefreshCovers
      <4>2. TaskCovers(task, s, b)'
            BY <1>1, <4>1 DEF TaskCovers, registryVars
      <4> QED BY <2>2, <4>2 DEF Outstanding
    <3>2. CASE u # t
      <4>1. u \in tasks'[g]
            BY <2>1, <2>5, <3>2 DEF TypeOK
      <4> QED BY <1>1, <2>5, <4>1, QueuedCovers
    <3> QED BY <3>1, <3>2
  <2> QED BY <1>3, <2>2, <2>4, <2>5 DEF Outstanding
<1>10. ASSUME NEW c \in Subs, Deliver(c)
       PROVE  Outstanding(s, b)'
  <2>1. /\ pc = "deliver" /\ pc' = "call"
        /\ task' = [task EXCEPT !.unnotified = @ \ {c}]
        /\ UNCHANGED <<pendingNotifications, tasks, flush, names>>
        BY <1>10 DEF Deliver, notifyVars
  <2>2. /\ task'.store = task.store /\ task'.version = task.version
        /\ task'.snapshot = task.snapshot /\ task'.subscribers = task.subscribers
        /\ task'.unnotified = task.unnotified \ {c}
        BY <2>1 DEF TypeOK, StoreTask
  <2>3. CASE s = task.store /\ b = c
    <3>1. seen'[s][b] = task.snapshot
          BY <1>2, <1>10, <2>3 DEF Deliver, TypeOK
    <3>2. task.snapshot # value[s]
          BY <1>1, <3>1 DEF Owed, registryVars
    <3>3. task.version # updateCount[s]
          BY <1>2, <2>1, <2>3, <3>2 DEF VersionIdentifiesSnapshot, GoodTask, Delivering
    <3>4. TaskCovers(task, s, b)'
          BY <1>1, <2>2, <2>3, <3>3 DEF TaskCovers, registryVars
    <3> QED BY <2>1, <3>4 DEF Outstanding
  <2>4. CASE ~(s = task.store /\ b = c)
    <3>1. seen'[s][b] = seen[s][b]
          BY <1>10, <2>4 DEF Deliver, TypeOK, StoreTask
    <3>2. Outstanding(s, b)
          BY <1>1, <1>2, <3>1 DEF Owed, NoLostNotification, registryVars
    <3>3. CASE s \in pendingNotifications \/ (~chunked /\ s \in names)
          BY <2>1, <3>3 DEF Outstanding, chunked
    <3>4. CASE \E f \in Flights : \E t \in tasks[f] : TaskCovers(t, s, b)
          BY <1>1, <2>1, <3>4, QueuedCovers
    <3>5. CASE TaskCovers(task, s, b)
      <4>1. TaskCovers(task, s, b)'
            BY <1>1, <2>2, <2>4, <3>5 DEF TaskCovers, registryVars
      <4> QED BY <2>1, <4>1 DEF Outstanding
    <3> QED BY <3>2, <3>3, <3>4, <3>5 DEF Outstanding
  <2> QED BY <2>3, <2>4
<1>11. CASE InlineReturn
  <2>1. /\ pc = "call" /\ ~chunked /\ pc' \in {"deliver", "next"}
        /\ UNCHANGED <<seen, tasks, flush, names>>
        /\ pendingNotifications \subseteq pendingNotifications'
        BY <1>11 DEF InlineReturn
  <2>2. CASE s \in pendingNotifications \/ s \in names
        BY <2>1, <2>2 DEF Outstanding, chunked
  <2>3. CASE \E f \in Flights : \E t \in tasks[f] : TaskCovers(t, s, b)
        BY <1>1, <2>1, <2>3, QueuedCovers
  <2>4. CASE TaskCovers(task, s, b)
    <3>1. CASE task.unnotified # {}
      <4>1. pc' = "deliver" /\ task' = task
            BY <1>11, <3>1 DEF InlineReturn
      <4>2. TaskCovers(task, s, b)'
            BY <1>1, <2>4, <4>1 DEF TaskCovers, registryVars
      <4> QED BY <4>1, <4>2 DEF Outstanding
    <3>2. CASE task.unnotified = {}
      <4>1. task.store = s
            BY <2>4 DEF TaskCovers
      <4>2. CASE task.version # updateCount[s]
        <5>1. s \in pendingNotifications'
              BY <1>2, <1>11, <3>2, <4>1, <4>2 DEF InlineReturn, CurrentVersion
        <5> QED BY <5>1 DEF Outstanding
      <4>3. CASE task.version = updateCount[s]
        <5>1. b \in subscribers[s] \ task.subscribers
              BY <1>2, <2>4, <3>2, <4>3 DEF TaskCovers
        <5>2. seen[s][b] = value[s]
              BY <1>2, <2>1, <4>1, <4>3, <5>1 DEF LateSubscribersCurrent, Delivering
        <5> QED BY <1>1, <2>1, <5>2 DEF Owed, registryVars
      <4> QED BY <4>2, <4>3
    <3> QED BY <3>1, <3>2
  <2> QED BY <1>3, <2>1, <2>2, <2>3, <2>4 DEF Outstanding
<1>12. CASE ChunkReturn
  <2>1. /\ pc = "call" /\ chunked /\ pc' = "deliver"
        /\ UNCHANGED <<seen, tasks, flush, task, pendingNotifications>>
        BY <1>12 DEF ChunkReturn, notifyVars
  <2>2. CASE s \in pendingNotifications
        BY <2>1, <2>2 DEF Outstanding
  <2>3. CASE \E f \in Flights : \E t \in tasks[f] : TaskCovers(t, s, b)
        BY <1>1, <2>1, <2>3, QueuedCovers
  <2>4. CASE TaskCovers(task, s, b)
    <3>1. TaskCovers(task, s, b)'
          BY <1>1, <2>1, <2>4 DEF TaskCovers, registryVars
    <3> QED BY <2>1, <3>1 DEF Outstanding
  <2> QED BY <1>3, <2>1, <2>2, <2>3, <2>4 DEF Outstanding
<1>13. CASE ChunkOutdated
  <2>1. /\ pc = "call" /\ chunked /\ seen' = seen
        /\ pendingNotifications' = pendingNotifications \cup {task.store}
        /\ AfterTask(task, tasks[flush])
        BY <1>13 DEF ChunkOutdated
  <2>2. tasks' = tasks
        BY <2>1 DEF AfterTask, TypeOK, chunked
  <2>3. CASE s \in pendingNotifications \/ s = task.store
        BY <2>1, <2>3 DEF Outstanding
  <2>4. CASE \E f \in Flights : \E t \in tasks[f] : TaskCovers(t, s, b)
        BY <1>1, <2>2, <2>4, QueuedCovers
  <2> QED BY <1>3, <2>1, <2>3, <2>4 DEF Outstanding, TaskCovers
<1>14. CASE ChunkSliceEnd
  <2> DEFINE Q == IF Refresh(task).unnotified = {} THEN tasks[flush]
                  ELSE tasks[flush] \cup {Refresh(task)}
  <2>1. /\ pc = "call" /\ chunked /\ seen' = seen /\ CurrentVersion(task) = task.version
        /\ pendingNotifications' = pendingNotifications
        /\ AfterTask(task, Q)
        BY <1>14 DEF ChunkSliceEnd
  <2>2. flush \in Flights /\ tasks' = [tasks EXCEPT ![flush] = Q]
        BY <2>1 DEF AfterTask, chunked
  <2>3. CASE s \in pendingNotifications
        BY <2>1, <2>3 DEF Outstanding
  <2>4. ASSUME NEW g \in Flights, NEW u \in tasks[g], TaskCovers(u, s, b)
        PROVE  Outstanding(s, b)'
    <3>1. u \in tasks'[g]
          BY <2>2, <2>4 DEF TypeOK
    <3> QED BY <1>1, <2>4, <3>1, QueuedCovers
  <2>5. CASE TaskCovers(task, s, b)
    <3>1. task.store = s /\ task \in StoreTask
          BY <2>5 DEF TaskCovers, TypeOK
    <3>2. task.version = updateCount[s]
          BY <1>2, <2>1, <3>1 DEF CurrentVersion
    <3>3. TaskCovers(Refresh(task), s, b)
          BY <1>2, <2>5, <3>1, RefreshCovers
    <3>4. b \in Refresh(task).unnotified
          BY <1>2, <2>5, <3>1, <3>2, RefreshFacts DEF TaskCovers
    <3>5. Refresh(task) \in tasks'[flush]
          BY <2>2, <3>4 DEF TypeOK
    <3> QED BY <1>1, <2>2, <3>3, <3>5, QueuedCovers
  <2> HIDE DEF Q
  <2> QED BY <1>3, <2>1, <2>3, <2>4, <2>5 DEF Outstanding
<1> QED BY <1>4, <1>5, <1>6, <1>7, <1>8, <1>9, <1>10, <1>11, <1>12, <1>13, <1>14 DEF Pipeline

LEMMA NextLost ==
  ASSUME ~DeleteInInline, IInv, [Next]_vars
  PROVE  NoLostNotification'
<1> SUFFICES ASSUME NEW s \in Stores, NEW b \in Subs, Owed(s, b)'
             PROVE  Outstanding(s, b)'
    BY DEF NoLostNotification
<1>1. CASE UNCHANGED vars
  <2>1. Owed(s, b) /\ Outstanding(s, b)
        BY <1>1 DEF IInv, NoLostNotification, Owed, vars, registryVars
  <2> QED BY <1>1, <2>1, OutstandingKept DEF vars, registryVars, notifyVars, stackVars
<1> QED BY <1>1, AppKeeps, PipelineKeeps DEF Next

LEMMA InitInv == Init => IInv
<1> SUFFICES ASSUME Init PROVE IInv
    OBVIOUS
<1>1. TypeOK
      BY InitType
<1>2. \A s \in Stores, b \in Subs : ~Owed(s, b)
      BY DEF Init, Owed
<1> QED BY <1>1, <1>2
        DEF Init, IInv, VersionIdentifiesSnapshot, LateSubscribersCurrent,
            DeliversCurrentVersion, NoLostNotification, Delivering

LEMMA NextInv == ~DeleteInInline /\ ~ReuseInFlight /\ IInv /\ [Next]_vars => IInv'
<1> SUFFICES ASSUME ~DeleteInInline, ~ReuseInFlight, IInv, [Next]_vars
             PROVE  IInv'
    OBVIOUS
<1>1. TypeOK'
      BY NextType DEF IInv
<1> QED BY <1>1, NextVersion, NextLate, NextDelivers, NextLost DEF IInv

\* However writes, subscriptions, inline flushes, drains and chunked flushes
\* interleave, a subscriber that does not hold the committed value of a store
\* is still in the pending set or in a flush that will call it.
THEOREM NoNotificationLost ==
  ASSUME ~DeleteInInline, ~ReuseInFlight
  PROVE  Spec => []NoLostNotification
<1>1. Init => IInv
      BY InitInv
<1>2. IInv /\ [Next]_vars => IInv'
      BY NextInv
<1>3. IInv => NoLostNotification
      BY DEF IInv
<1> QED BY <1>1, <1>2, <1>3, PTL DEF Spec

\* A chunked flush hands out committed values only, however many slices it
\* takes and whatever is written, created or deleted between them.
THEOREM ChunksAreCurrent ==
  ASSUME ~DeleteInInline, ~ReuseInFlight
  PROVE  Spec => []ChunkedSnapshotIsCurrent
<1>1. Init => IInv
      BY InitInv
<1>2. IInv /\ [Next]_vars => IInv'
      BY NextInv
<1>3. IInv => ChunkedSnapshotIsCurrent
      BY DEF IInv, ChunkedSnapshotIsCurrent, DeliversCurrentVersion,
             VersionIdentifiesSnapshot, GoodTask, Delivering
<1> QED BY <1>1, <1>2, <1>3, PTL DEF Spec

-----------------------------------------------------------------------------
(***************************************************************************)
(* What subscribers select (Selection): the component and the memoised     *)
(* selector of one store, for any states, selectors and equality function. *)
(***************************************************************************)

\* What useStore expects of an equality function besides symmetry: without it a
\* change that comes in steps, each to a similar result, is never shown.
Transitive == \A x, y, z \in Results : Equal(x, y) /\ Equal(y, z) => Equal(x, z)

\* Paths have one key or two.
LEMMA PathsAre ==
  /\ \A path \in Paths : path[1] \in {"a", "b"} /\ <<path[1]>> \in Paths /\ Len(path) \in {1, 2}
  /\ \A path \in Paths : Len(path) = 1 => path = <<path[1]>>
  /\ \A k \in {"a", "b"} : Len(<<k>>) = 1 /\ <<k>>[1] = k
<1>1. /\ Len(<<"a">>) = 1 /\ <<"a">>[1] = "a" /\ Len(<<"b">>) = 1 /\ <<"b">>[1] = "b"
      /\ Len(<<"a", "c">>) = 2 /\ <<"a", "c">>[1] = "a" /\ Len(<<"b", "c">>) = 2 /\ <<"b", "c">>[1] = "b"
  OBVIOUS
<1> QED BY <1>1 DEF Paths

\* A state's fields are pairs, and none is what stands for something else.
LEMMA StatesAre ==
  ASSUME NEW state \in States
  PROVE  /\ state # Missing /\ state # NothingHeld
         /\ \A k \in {"a", "b"} :
              /\ state[k] \in Fields /\ state[k] \in Nat \X (0 .. 99)
              /\ <<0, state[k][2]>> \in Results /\ state[k] \in Results
<1>1. state \in [a : Nat \X (0 .. 99), b : Nat \X (0 .. 99)]
  BY SelectionAssumption
<1>2. state # Missing /\ state # NothingHeld
  <2>1. state.a[2] # 100 /\ state.a[2] # 101
    BY <1>1
  <2>2. Missing.a[2] = 100 /\ NothingHeld.a[2] = 101
    BY DEF Missing, NothingHeld, Undefined, Null
  <2> QED BY <2>1, <2>2
<1>3. \A k \in {"a", "b"} : state[k] \in Nat \X (0 .. 99) /\ state[k] \in Fields
  BY <1>1 DEF Fields
<1> QED BY <1>2, <1>3 DEF Results

\* What getByPath gives.
LEMMA GetIs ==
  ASSUME NEW state \in States \cup {Missing}, NEW path \in Paths
  PROVE  /\ GetByPath(state, path) \in Results
         /\ state = Missing => GetByPath(state, path) = Undefined
         /\ state # Missing => GetByPath(state, path) # NoPrev
<1>1. Missing["a"] = Undefined /\ Missing["b"] = Undefined /\ ~IsObject(Undefined)
  BY DEF Missing, Undefined, IsObject
<1>2. path[1] \in {"a", "b"} /\ Len(path) \in {1, 2}
  BY PathsAre
<1>3. CASE state = Missing
  BY <1>1, <1>2, <1>3 DEF GetByPath, Results
<1>4. CASE state \in States
  <2>1. state[path[1]] \in Results /\ <<0, state[path[1]][2]>> \in Results /\ state[path[1]] \in Nat \X (0 .. 99)
    BY <1>2, <1>4, StatesAre
  <2>2. state[path[1]] # NoPrev /\ <<0, state[path[1]][2]>> # NoPrev /\ Undefined # NoPrev /\ Undefined \in Results
    BY <2>1 DEF NoPrev, Undefined, Results
  <2> QED BY <1>4, <2>1, <2>2, StatesAre DEF GetByPath
<1> QED BY <1>3, <1>4

\* What a selector gives.
LEMMA SelectIs ==
  ASSUME NEW state \in States \cup {Missing}, NEW sel \in Selectors
  PROVE  /\ Select(sel, state) \in Results /\ OrNull(Select(sel, state)) \in Results
         /\ state = Missing => OrNull(Select(sel, state)) = Null
         /\ state # Missing => Select(sel, state) # NoPrev
         /\ Branch(sel, state) \in Paths /\ sel.test \in Paths
<1>1. Branch(sel, state) \in Paths /\ sel.test \in Paths
  BY SelectionAssumption DEF Branch
<1>2. Null \in Results
  BY DEF Results
<1> QED BY <1>1, <1>2, GetIs DEF Select, OrNull

\* Equality is reflexive and symmetric.
LEMMA EqualIs ==
  /\ \A x : Equal(x, x)
  /\ \A x, y : Equal(x, y) => Equal(y, x)
<1>1. ASSUME NEW x, NEW y, <<x, y>> \in Similar PROVE <<y, x>> \in Similar
  <2>1. PICK pair \in Similar : pair = <<x, y>>
    BY <1>1
  <2> QED BY <2>1, SelectionAssumption
<1> QED BY <1>1 DEF Equal

\* Dependencies are paths.
LEMMA DepsArePaths ==
  ASSUME NEW state \in States, NEW sel \in Selectors
  PROVE  TrackSelectorDependencies(sel, state) \subseteq Paths
  BY SelectIs, PathsAre DEF TrackSelectorDependencies, ReadDeps, EscapedDeps

\* A field read by a path that gives no object.
LEMMA SameRead ==
  ASSUME NEW prev \in States, NEW next \in States, NEW path \in Paths,
         ~SelectorDepsChanged(prev, next, ReadDeps(prev, path)),
         ~IsObject(GetByPath(prev, path))
  PROVE  GetByPath(next, path) = GetByPath(prev, path)
<1>1. path[1] \in {"a", "b"} /\ Len(path) \in {1, 2} /\ Len(<<path[1]>>) = 1 /\ <<path[1]>>[1] = path[1]
  BY PathsAre
<1>2. CASE ~IsObject(prev[path[1]])
  <2>1. GetByPath(prev, <<path[1]>>) = GetByPath(next, <<path[1]>>)
    BY <1>2 DEF SelectorDepsChanged, ReadDeps
  <2>2. prev[path[1]] = next[path[1]]
    BY <1>1, <2>1 DEF GetByPath
  <2> QED BY <2>2 DEF GetByPath
<1>3. CASE IsObject(prev[path[1]])
  <2>1. Len(path) # 1
    BY <1>3 DEF GetByPath
  <2> QED BY <1>3, <2>1 DEF SelectorDepsChanged, ReadDeps
<1> QED BY <1>2, <1>3

\* What a selector gives is decided by what its run recorded.
LEMMA DepsDecide ==
  ASSUME NEW prev \in States, NEW next \in States, NEW sel \in Selectors,
         ~IsObject(GetByPath(prev, sel.test)),
         ~SelectorDepsChanged(prev, next, TrackSelectorDependencies(sel, prev))
  PROVE  Select(sel, next) = Select(sel, prev)
<1>1. sel.test \in Paths /\ Branch(sel, prev) \in Paths
  BY SelectIs
<1>2. GetByPath(next, sel.test) = GetByPath(prev, sel.test)
  BY <1>1, SameRead DEF TrackSelectorDependencies, SelectorDepsChanged
<1>3. Branch(sel, next) = Branch(sel, prev)
  BY <1>2 DEF Branch
<1>4. CASE IsObject(Select(sel, prev))
  BY <1>3, <1>4 DEF TrackSelectorDependencies, SelectorDepsChanged, EscapedDeps, Select
<1>5. CASE ~IsObject(Select(sel, prev))
  BY <1>1, <1>3, <1>5, SameRead DEF TrackSelectorDependencies, SelectorDepsChanged, Select
<1> QED BY <1>4, <1>5

-----------------------------------------------------------------------------
\* Types, with the records in full.
CacheRecord ==
  [hasValue : BOOLEAN, snapshot : States \cup {Missing},
   selector : {{}} \cup {{sel} : sel \in Selectors}, value : Results]

MemoRecord ==
  [fn : Selectors, lastRef : States \cup {Missing}, lastDeps : SUBSET Paths, lastResult : Results]

SelTypes ==
  /\ SelTypeOK
  /\ cache \in CacheRecord
  /\ memo \in MemoRecord

\* What getSnapshot gives a component.
LEMMA SnapshotIs ==
  ASSUME SelTypes, NEW sel \in Selectors
  PROVE  /\ GetSnapshot(sel) \in CacheRecord
         /\ GetSnapshot(sel).value \in Results
<1>1. committed \in States \cup {Missing} /\ cache \in CacheRecord
  BY DEF SelTypes, SelTypeOK
<1>2. Select(sel, committed) \in Results /\ OrNull(Select(sel, committed)) \in Results /\ Null \in Results
  BY <1>1, SelectIs DEF Results
<1>3. [cache EXCEPT !.value = OrNull(Select(sel, committed))] \in CacheRecord
  BY <1>1, <1>2 DEF CacheRecord
<1>4. ReadSelectorCache(committed, sel) \in CacheRecord
  <2>1. ASSUME NEW r \in Results PROVE Cached(committed, sel, r) \in CacheRecord
    BY <1>1 DEF Cached, CacheRecord
  <2>2. cache.value \in Results
    BY <1>1 DEF CacheRecord
  <2>3. PICK n \in Results : n = Select(sel, committed)
    BY <1>2
  <2> QED BY <1>1, <1>2, <2>1, <2>2, <2>3 DEF ReadSelectorCache
<1>5. GetSnapshot(sel) \in CacheRecord
  BY <1>3, <1>4 DEF GetSnapshot
<1> QED BY <1>5 DEF CacheRecord

\* What a memoised selector remembers after a call.
LEMMA MemoIs ==
  ASSUME SelTypes, committed # Missing
  PROVE  CreateSelector(memo, committed) \in MemoRecord
<1>1. committed \in States /\ memo \in MemoRecord
  BY DEF SelTypes, SelTypeOK
<1>2. PICK fn \in Selectors : fn = memo.fn
  BY <1>1 DEF MemoRecord
<1>3. TrackSelectorDependencies(fn, committed) \in SUBSET Paths /\ Select(fn, committed) \in Results
  BY <1>1, SelectIs, DepsArePaths
<1>4. [memo EXCEPT !.lastRef = committed] \in MemoRecord
  BY <1>1 DEF MemoRecord
<1>5. [memo EXCEPT !.lastRef = committed, !.lastDeps = TrackSelectorDependencies(memo.fn, committed),
                   !.lastResult = Select(memo.fn, committed)] \in MemoRecord
  BY <1>1, <1>2, <1>3 DEF MemoRecord
<1> QED BY <1>1, <1>4, <1>5 DEF CreateSelector

\* The initial states, and every step, keep the types.
LEMMA SelInitTypes == SelInit => SelTypes
<1> SUFFICES ASSUME SelInit PROVE SelTypes
  OBVIOUS
<1>1. Null \in Results /\ EmptyCache \in CacheRecord /\ EmptyCache.value = Null /\ EmptyCache.hasValue = FALSE
  BY DEF Results, EmptyCache, CacheRecord
<1>2. memo \in MemoRecord
  <2>1. PICK fns \in SUBSET Selectors : memo \in [fn : fns, lastRef : {Missing}, lastDeps : {{}}, lastResult : {Null}]
    BY DEF SelInit
  <2> QED BY <1>1, <2>1 DEF MemoRecord
<1>3. memo.lastRef \in States \cup {Missing} /\ memo.lastDeps \subseteq Paths
  BY <1>2 DEF MemoRecord
<1> QED BY <1>1, <1>2, <1>3 DEF SelInit, SelTypes, SelTypeOK

\* What a rendering does.
LEMMA ShowIs ==
  ASSUME SelTypes, NEW sel \in Selectors, Show(sel)
  PROVE  /\ selector' = sel /\ cache' = GetSnapshot(sel) /\ shown' = cache'.value /\ rerender' = FALSE
         /\ cache' \in CacheRecord /\ cache'.value \in Results /\ cache'.hasValue \in BOOLEAN
  BY SnapshotIs DEF Show, CacheRecord

LEMMA SelNextTypes ==
  ASSUME SelTypes, [SelNext]_selVars
  PROVE  SelTypes'
<1>1. /\ committed \in States \cup {Missing} /\ pending \in BOOLEAN
      /\ held \in States \cup {NothingHeld} /\ captured \in BOOLEAN
      /\ kind \in {"selector", "path"} /\ phase \in {"absent", "rendered", "subscribed"}
      /\ selector \in Selectors
      /\ listening \in BOOLEAN /\ (listening => phase = "subscribed")
      /\ prevSel \in Results \cup {NoPrev} /\ (prevSel # NoPrev => listening /\ kind = "selector")
      /\ shown \in Results /\ rerender \in BOOLEAN /\ (rerender => phase = "subscribed")
      /\ cache \in CacheRecord /\ memo \in MemoRecord
  BY DEF SelTypes, SelTypeOK
<1>2. /\ \A c \in CacheRecord : c.value \in Results /\ c.hasValue \in BOOLEAN
      /\ \A m \in MemoRecord : m.lastRef \in States \cup {Missing} /\ m.lastDeps \subseteq Paths
  BY DEF CacheRecord, MemoRecord
<1>3. EmptyCache \in CacheRecord /\ Null \in Results
  BY DEF Results, EmptyCache, CacheRecord
<1>4. GetSnapshot(selector) \in CacheRecord /\ GetSnapshot(selector).value \in Results
  BY <1>1, SnapshotIs
<1>5. committed # Missing => Select(selector, committed) \in Results
  BY <1>1, SelectIs
<1> SUFFICES /\ committed' \in States \cup {Missing} /\ pending' \in BOOLEAN
             /\ held' \in States \cup {NothingHeld} /\ captured' \in BOOLEAN
             /\ kind' \in {"selector", "path"} /\ phase' \in {"absent", "rendered", "subscribed"}
             /\ selector' \in Selectors
             /\ listening' \in BOOLEAN /\ (listening' => phase' = "subscribed")
             /\ prevSel' \in Results \cup {NoPrev} /\ (prevSel' # NoPrev => listening' /\ kind' = "selector")
             /\ shown' \in Results /\ rerender' \in BOOLEAN /\ (rerender' => phase' = "subscribed")
             /\ cache' \in CacheRecord /\ memo' \in MemoRecord
  BY <1>2 DEF SelTypes, SelTypeOK
<1>6. CASE Mount
  BY <1>1, <1>6, ShowIs DEF Mount, storeVars, flushVars
<1>61. CASE Rerender
  BY <1>1, <1>61, ShowIs DEF Rerender, storeVars, flushVars
<1>7. CASE ParentRenders
  BY <1>1, <1>7, ShowIs DEF ParentRenders, storeVars, flushVars
<1>8. CASE RunEffects
  BY <1>1, <1>4, <1>5, <1>8 DEF RunEffects, storeVars, flushVars
<1>9. CASE Unmount
  BY <1>1, <1>3, <1>9 DEF Unmount, storeVars, flushVars
<1>10. ASSUME NEW state \in States, Write(state) \/ Create(state)
       PROVE  /\ committed' \in States /\ pending' \in BOOLEAN /\ UNCHANGED <<held, captured, kind, componentVars, memo>>
  BY <1>1, <1>10 DEF Write, Create, flushVars
<1>11. CASE Delete
  BY <1>1, <1>4, <1>11 DEF Delete, flushVars
<1>12. CASE StartFlush
  BY <1>1, <1>12 DEF StartFlush, flushVars, componentVars
<1>13. CASE DeliverToPath
  BY <1>1, <1>4, <1>13 DEF DeliverToPath, HandleStoreChange, EndTask, storeVars
<1>14. CASE DeliverToSelector
  <2>1. held \in States
    BY <1>1, <1>14 DEF DeliverToSelector
  <2>2. Select(selector, held) \in Results
    BY <1>1, <2>1, SelectIs
  <2>3. prevSel' \in {prevSel, Select(selector, held)} /\ listening /\ kind = "selector" /\ UNCHANGED <<storeVars, kind, phase, listening, selector, shown, memo>>
        /\ (HandleStoreChange \/ UNCHANGED <<cache, rerender>>) /\ held' = NothingHeld /\ captured' = FALSE
    BY <1>14 DEF DeliverToSelector, CallListener, EndTask
  <2> QED BY <1>1, <1>4, <2>2, <2>3 DEF HandleStoreChange, storeVars
<1>15. CASE NotDelivered
  BY <1>1, <1>15 DEF NotDelivered, EndTask, storeVars, componentVars
<1>16. CASE ReadMemo
  BY <1>1, <1>16, MemoIs DEF ReadMemo, storeVars, flushVars, componentVars
<1>17. CASE UNCHANGED selVars
  BY <1>1, <1>17 DEF selVars, storeVars, flushVars, componentVars
<1> QED BY <1>1, <1>6, <1>61, <1>7, <1>8, <1>9, <1>10, <1>11, <1>12, <1>13, <1>14, <1>15, <1>16, <1>17 DEF SelNext, componentVars

LEMMA SelSpecTypes == SelSpec => []SelTypes
<1>1. SelTypes /\ [SelNext]_selVars => SelTypes'
  BY SelNextTypes
<1> QED BY SelInitTypes, <1>1, PTL DEF SelSpec

-----------------------------------------------------------------------------
\* What a memoised selector remembers: the result of its last run, and the dependencies
\* of a run since which they have not changed.
Fits(m) ==
  /\ ~TestsObject(m.fn)
  /\ m.lastRef # Missing =>
       /\ m.lastResult = Select(m.fn, m.lastRef)
       /\ \E state \in States :
            /\ m.lastDeps = TrackSelectorDependencies(m.fn, state)
            /\ m.lastResult = Select(m.fn, state)
            /\ ~SelectorDepsChanged(state, m.lastRef, m.lastDeps)

\* A call gives what the function gives, whether it runs it or not.
LEMMA CallFits ==
  ASSUME SelTypes, committed # Missing, Fits(memo)
  PROVE  /\ Fits(CreateSelector(memo, committed))
         /\ CreateSelector(memo, committed).lastResult = Select(memo.fn, committed)
<1>1. committed \in States /\ memo \in MemoRecord
  BY DEF SelTypes, SelTypeOK
<1>2. PICK fn \in Selectors, last \in States \cup {Missing}, deps \in SUBSET Paths :
        fn = memo.fn /\ last = memo.lastRef /\ deps = memo.lastDeps
  BY <1>1 DEF MemoRecord
<1>3. PICK m : m = CreateSelector(memo, committed)
  OBVIOUS
<1>4. CASE committed = last
  <2>1. m = memo
    BY <1>2, <1>3, <1>4 DEF CreateSelector
  <2> QED BY <1>2, <1>3, <1>4, <2>1 DEF Fits
<1>5. CASE committed # last /\ last # Missing /\ deps # {} /\ ~SelectorDepsChanged(last, committed, deps)
  <2>1. m = [memo EXCEPT !.lastRef = committed]
    BY <1>2, <1>3, <1>5 DEF CreateSelector
  <2>2. m.fn = fn /\ m.lastRef = committed /\ m.lastDeps = deps /\ m.lastResult = memo.lastResult
    BY <1>1, <1>2, <2>1 DEF MemoRecord
  <2>3. PICK state \in States :
          /\ deps = TrackSelectorDependencies(fn, state)
          /\ memo.lastResult = Select(fn, state)
          /\ ~SelectorDepsChanged(state, last, deps)
    BY <1>2, <1>5 DEF Fits
  <2>4. ~SelectorDepsChanged(state, committed, deps)
    BY <1>5, <2>3 DEF SelectorDepsChanged
  <2>5. ~IsObject(GetByPath(state, fn.test))
    BY <1>2, <2>3 DEF Fits, TestsObject
  <2>6. Select(fn, committed) = Select(fn, state)
    BY <1>1, <2>3, <2>4, <2>5, DepsDecide
  <2> QED BY <1>2, <1>3, <2>2, <2>3, <2>4, <2>6 DEF Fits
<1>6. CASE committed # last /\ (last = Missing \/ deps = {} \/ SelectorDepsChanged(last, committed, deps))
  <2>1. m = [memo EXCEPT !.lastRef = committed, !.lastDeps = TrackSelectorDependencies(fn, committed),
                         !.lastResult = Select(fn, committed)]
    BY <1>2, <1>3, <1>6 DEF CreateSelector
  <2>2. m.fn = fn /\ m.lastRef = committed /\ m.lastDeps = TrackSelectorDependencies(fn, committed)
        /\ m.lastResult = Select(fn, committed)
    BY <1>1, <1>2, <2>1 DEF MemoRecord
  <2>3. ~SelectorDepsChanged(committed, committed, m.lastDeps)
    BY DEF SelectorDepsChanged
  <2> QED BY <1>1, <1>2, <1>3, <2>2, <2>3 DEF Fits
<1> QED BY <1>4, <1>5, <1>6

\* Every step keeps that.
LEMMA NextFits ==
  ASSUME SelTypes, Fits(memo), [SelNext]_selVars
  PROVE  Fits(memo)'
<1>1. CASE ReadMemo
  <2>1. committed # Missing /\ memo' = CreateSelector(memo, committed)
    BY <1>1 DEF ReadMemo
  <2>2. Fits(memo')
    BY <2>1, CallFits
  <2> QED BY <2>2 DEF Fits
<1>2. CASE UNCHANGED memo
  BY <1>2 DEF Fits
<1> QED BY <1>1, <1>2 DEF SelNext, Mount, RunEffects, Rerender, ParentRenders, Unmount, Write, Create, Delete,
           StartFlush, DeliverToPath, DeliverToSelector, NotDelivered, selVars

\* A memoised selector (createSelector of selectors/index.ts) gives what its function
\* gives of the current state, though a run records only what it read on the branch it
\* took, if the function tests no object for being there: reading an object records
\* nothing, so that an object replaced by none would go unnoticed.
THEOREM MemosAreFresh ==
  ASSUME ~ObjectTests
  PROVE  SelSpec => []MemoIsFresh
<1>1. SelInit => Fits(memo)
  <2> SUFFICES ASSUME SelInit PROVE Fits(memo)
    OBVIOUS
  <2>1. PICK fns : fns = {s \in Selectors : ObjectTests \/ ~TestsObject(s)}
    OBVIOUS
  <2>2. memo \in [fn : fns, lastRef : {Missing}, lastDeps : {{}}, lastResult : {Null}]
    BY <2>1 DEF SelInit
  <2>3. memo.fn \in fns /\ memo.lastRef = Missing
    BY <2>2
  <2> QED BY <2>1, <2>3 DEF Fits
<1>2. SelTypes /\ Fits(memo) /\ [SelNext]_selVars => Fits(memo)'
  BY NextFits
<1>3. SelTypes /\ Fits(memo) => MemoIsFresh
  BY CallFits DEF MemoIsFresh
<1> QED BY SelSpecTypes, <1>1, <1>2, <1>3, PTL DEF SelSpec

-----------------------------------------------------------------------------
\* The component.

\* A flush holds the committed state, or the store is pending again.
Flushing ==
  /\ held = NothingHeld => ~captured
  /\ held # NothingHeld => committed # Missing /\ (pending \/ committed = held)
  /\ pending => committed # Missing

\* The cache is of the component's selector, and what is shown is what is cached.
CacheFits ==
  /\ cache.hasValue /\ kind = "selector" =>
       /\ cache.selector = {selector}
       /\ cache.snapshot = Missing => cache.value = Null
       /\ cache.snapshot # Missing => Equal(cache.value, Select(selector, cache.snapshot))
  /\ listening <=> phase = "subscribed"
  /\ phase = "subscribed" /\ ~rerender => shown = cache.value

\* What a subscription compares with is what is cached, and what was delivered last.
Told ==
  /\ listening /\ kind = "path" /\ ~pending /\ ~captured => cache.value = OrNull(Select(selector, committed))
  /\ listening /\ kind = "selector" =>
       /\ prevSel # NoPrev => Equal(prevSel, cache.value)
       /\ committed = Missing => prevSel = NoPrev /\ cache.value = Null
       /\ ~pending /\ ~captured /\ committed # Missing =>
            prevSel # NoPrev /\ Equal(prevSel, Select(selector, committed))

ComponentInv == Flushing /\ CacheFits /\ Told

\* React renders a component again only after the notifications due, with the selector
\* it had; a store in use is not deleted; no subscriber writes before others are told.
Orderly == ~NewSelectors /\ ~EarlyRenders /\ ~OldSnapshots /\ ~Deletes /\ Transitive

\* What the component reads is current.
LEMMA ReadIs ==
  ASSUME SelTypes, CacheFits, NEW sel \in Selectors, kind = "selector" => sel = selector,
         NEW c, c = GetSnapshot(sel)
  PROVE  /\ kind = "path" => c.value = OrNull(Select(sel, committed))
         /\ kind = "selector" =>
              /\ c.hasValue /\ c.selector = {sel} /\ c.snapshot = committed
              /\ committed = Missing => c.value = Null
              /\ committed # Missing => Equal(c.value, Select(sel, committed))
<1>1. cache \in CacheRecord /\ kind \in {"selector", "path"}
  BY DEF SelTypes, SelTypeOK
<1>2. CASE kind = "path"
  BY <1>1, <1>2 DEF GetSnapshot, CacheRecord
<1>3. CASE kind = "selector"
  <2>1. c = ReadSelectorCache(committed, sel)
    BY <1>3 DEF GetSnapshot
  <2>2. \A r : LET d == Cached(committed, sel, r)
               IN  d.hasValue /\ d.selector = {sel} /\ d.snapshot = committed /\ d.value = r
    BY DEF Cached
  <2>3. CASE committed = Missing
    BY <1>3, <2>1, <2>2, <2>3 DEF ReadSelectorCache
  <2>4. CASE committed # Missing /\ cache.hasValue /\ cache.snapshot = committed /\ cache.selector = {sel}
    <3>1. c = cache
      BY <2>1, <2>4 DEF ReadSelectorCache
    <3> QED BY <1>3, <2>4, <3>1 DEF CacheFits
  <2>5. CASE committed # Missing /\ ~(cache.hasValue /\ cache.snapshot = committed /\ cache.selector = {sel})
    <3>1. PICK next : next = Select(sel, committed)
      OBVIOUS
    <3>2. \/ c = Cached(committed, sel, cache.value) /\ Equal(next, cache.value)
          \/ c = Cached(committed, sel, next)
      BY <2>1, <2>5, <3>1 DEF ReadSelectorCache
    <3> QED BY <1>3, <2>2, <2>5, <3>1, <3>2, EqualIs
  <2> QED BY <2>3, <2>4, <2>5
<1> QED BY <1>1, <1>2, <1>3

\* Every step keeps each part.
LEMMA NextFlushing ==
  ASSUME ~Deletes, SelTypes, CacheFits, Flushing, [SelNext]_selVars
  PROVE  Flushing'
<1>1. \A state \in States : state # Missing /\ state # NothingHeld
  BY StatesAre
<1>2. committed \in States \cup {Missing} /\ listening \in BOOLEAN
  BY DEF SelTypes, SelTypeOK
<1>3. ASSUME NEW state \in States, Write(state) \/ Create(state) PROVE Flushing'
  BY <1>1, <1>3 DEF Write, Create, flushVars, Flushing
<1>4. CASE Delete
  BY <1>4 DEF Delete, flushVars, Flushing
<1>5. CASE StartFlush
  BY <1>1, <1>2, <1>5 DEF StartFlush, flushVars, Flushing
<1>6. CASE DeliverToPath \/ DeliverToSelector \/ NotDelivered
  BY <1>6 DEF DeliverToPath, DeliverToSelector, NotDelivered, EndTask, storeVars, Flushing
<1>7. CASE UNCHANGED <<storeVars, flushVars>>
  BY <1>7 DEF storeVars, flushVars, Flushing
<1> QED BY <1>3, <1>4, <1>5, <1>6, <1>7 DEF SelNext, Mount, RunEffects, Rerender, ParentRenders, Unmount, ReadMemo, selVars

\* A state read by a component that renders or is told.
LEMMA Rereads ==
  ASSUME SelTypes, CacheFits, NEW sel \in Selectors, kind = "selector" => sel = selector,
         cache' = GetSnapshot(sel), UNCHANGED <<kind, committed>>, selector' = sel,
         listening' <=> phase' = "subscribed",
         phase' = "subscribed" /\ ~rerender' => shown' = cache'.value
  PROVE  CacheFits'
  BY ReadIs DEF CacheFits

LEMMA NextCache ==
  ASSUME Orderly, SelTypes, CacheFits, [SelNext]_selVars
  PROVE  CacheFits'
<1>1. /\ kind \in {"selector", "path"} /\ selector \in Selectors
      /\ rerender \in BOOLEAN /\ listening \in BOOLEAN /\ cache \in CacheRecord
      /\ listening <=> phase = "subscribed"
      /\ phase = "subscribed" /\ ~rerender => shown = cache.value
  BY DEF SelTypes, SelTypeOK, CacheFits
<1>2. CASE Mount
  BY <1>1, <1>2, Rereads, ShowIs DEF Mount, storeVars
<1>3. CASE Rerender
  BY <1>1, <1>3, Rereads, ShowIs DEF Rerender, storeVars
<1>4. CASE ParentRenders
  <2>1. PICK sel \in Selectors : (NewSelectors \/ kind = "path" \/ sel = selector) /\ Show(sel)
    BY <1>4 DEF ParentRenders
  <2> QED BY <1>1, <1>4, <2>1, Rereads, ShowIs DEF ParentRenders, storeVars, Orderly
<1>5. CASE RunEffects
  <2>1. cache' = GetSnapshot(selector) /\ rerender' = (cache'.value # shown) /\ UNCHANGED <<kind, committed, selector, shown>>
        /\ phase' = "subscribed" /\ listening'
    BY <1>5 DEF RunEffects, storeVars
  <2> QED BY <1>1, <2>1, Rereads
<1>6. CASE Unmount
  BY <1>6 DEF Unmount, CacheFits, EmptyCache
<1>7. ASSUME NEW state \in States, Write(state) \/ Create(state) PROVE CacheFits'
  BY <1>7 DEF Write, Create, componentVars, CacheFits
<1>8. CASE Delete
  <2>1. ~listening /\ ~listening' /\ UNCHANGED <<kind, phase, selector, shown, cache, rerender>>
    BY <1>8 DEF Delete, Orderly, CacheFits, Flushing
  <2> QED BY <2>1 DEF CacheFits
<1>9. CASE DeliverToPath
  <2>1. cache' = GetSnapshot(selector) /\ rerender' = (rerender \/ cache'.value # shown)
        /\ UNCHANGED <<kind, committed, selector, shown, phase, listening>>
    BY <1>9 DEF DeliverToPath, HandleStoreChange, storeVars
  <2> QED BY <1>1, <2>1, Rereads
<1>10. CASE DeliverToSelector
  <2>1. UNCHANGED <<kind, committed, selector, shown, phase, listening>>
        /\ \/ cache' = GetSnapshot(selector) /\ rerender' = (rerender \/ cache'.value # shown)
           \/ UNCHANGED <<cache, rerender>>
    BY <1>10 DEF DeliverToSelector, CallListener, HandleStoreChange, storeVars
  <2>2. CASE UNCHANGED <<cache, rerender>>
    BY <2>1, <2>2 DEF CacheFits
  <2> QED BY <1>1, <2>1, <2>2, Rereads
<1>11. CASE StartFlush \/ NotDelivered \/ ReadMemo \/ UNCHANGED selVars
  <2>1. UNCHANGED <<kind, phase, listening, selector, cache, prevSel, shown, rerender>>
    BY <1>11 DEF StartFlush, NotDelivered, ReadMemo, componentVars, selVars
  <2> QED BY <2>1 DEF CacheFits
<1> QED BY <1>2, <1>3, <1>4, <1>5, <1>6, <1>7, <1>8, <1>9, <1>10, <1>11 DEF SelNext

LEMMA NextTold ==
  ASSUME Orderly, SelTypes, ComponentInv, [SelNext]_selVars
  PROVE  Told'
<1>1. /\ kind \in {"selector", "path"} /\ selector \in Selectors /\ committed \in States \cup {Missing}
      /\ listening \in BOOLEAN /\ cache \in CacheRecord /\ prevSel \in Results \cup {NoPrev}
      /\ prevSel # NoPrev => listening /\ kind = "selector"
      /\ cache.value \in Results
  BY DEF SelTypes, SelTypeOK, CacheRecord
<1>2. committed # Missing => Select(selector, committed) \in Results /\ Select(selector, committed) # NoPrev
  BY <1>1, SelectIs
<1>3. committed = Missing => OrNull(Select(selector, committed)) = Null
  BY <1>1, SelectIs
<1>4. \A x, y, z \in Results : Equal(x, y) /\ Equal(y, z) => Equal(x, z)
  BY DEF Orderly, Transitive
<1>5. PICK c : c = GetSnapshot(selector)
  OBVIOUS
<1>6. /\ c \in CacheRecord /\ c.value \in Results
      /\ kind = "path" => c.value = OrNull(Select(selector, committed))
      /\ kind = "selector" => (committed = Missing => c.value = Null) /\ (committed # Missing => Equal(c.value, Select(selector, committed)))
  <2>1. CacheFits
    BY DEF ComponentInv
  <2> QED BY <1>1, <1>5, <2>1, ReadIs, SnapshotIs
<1>7. CASE Mount
  <2>1. ~listening'
    BY <1>7 DEF Mount, ComponentInv, CacheFits
  <2> QED BY <2>1 DEF Told
<1>8. CASE RunEffects
  <2>1. /\ cache' = c /\ UNCHANGED <<committed, pending, captured, kind, selector>>
        /\ prevSel' = IF kind = "selector" /\ committed # Missing THEN Select(selector, committed) ELSE NoPrev
    BY <1>5, <1>8 DEF RunEffects, storeVars, flushVars
  <2> QED BY <1>1, <1>2, <1>6, <2>1, EqualIs DEF Told
<1>9. ASSUME NEW sel \in Selectors, kind = "selector" => sel = selector /\ ~pending /\ ~captured, Show(sel),
             UNCHANGED <<committed, pending, captured, kind, prevSel, listening>>
      PROVE  Told'
  <2>1. selector' = sel /\ cache' = GetSnapshot(sel)
    BY <1>9 DEF Show
  <2>2. CASE kind = "path"
    <3>1. cache'.value = OrNull(Select(sel, committed))
      BY <1>9, <2>1, <2>2, ReadIs DEF ComponentInv
    <3> QED BY <1>9, <2>1, <2>2, <3>1 DEF Told
  <2>3. CASE kind = "selector"
    <3>1. sel = selector /\ cache' = c /\ ~pending /\ ~captured
      BY <1>5, <1>9, <2>1, <2>3
    <3>2. CASE committed = Missing
      BY <1>6, <1>9, <2>1, <2>3, <3>1, <3>2 DEF ComponentInv, Told
    <3>3. CASE committed # Missing
      <4>1. listening => prevSel # NoPrev /\ Equal(prevSel, Select(selector, committed))
        BY <2>3, <3>1, <3>3 DEF ComponentInv, Told
      <4>2. listening => Equal(prevSel, c.value)
        BY <1>1, <1>2, <1>4, <1>6, <2>3, <3>3, <4>1, EqualIs
      <4> QED BY <1>9, <2>1, <2>3, <3>1, <3>3, <4>1, <4>2 DEF Told
    <3> QED BY <3>2, <3>3
  <2> QED BY <1>1, <2>2, <2>3
<1>10. MayRender /\ kind = "selector" => ~pending /\ ~captured
  BY DEF MayRender, Orderly, ComponentInv, Flushing
<1>11. CASE Rerender
  BY <1>1, <1>9, <1>10, <1>11 DEF Rerender, storeVars, flushVars
<1>12. CASE ParentRenders
  <2>1. MayRender /\ UNCHANGED <<committed, pending, captured, kind, prevSel, listening>>
    BY <1>12 DEF ParentRenders, storeVars, flushVars
  <2>2. PICK sel \in Selectors : (NewSelectors \/ kind = "path" \/ sel = selector) /\ Show(sel)
    BY <1>12 DEF ParentRenders
  <2>3. kind = "selector" => sel = selector
    BY <2>2 DEF Orderly
  <2> QED BY <1>9, <1>10, <2>1, <2>2, <2>3
<1>13. CASE Unmount
  BY <1>13 DEF Unmount, Told
<1>14. ASSUME NEW state \in States, Write(state) PROVE Told'
  <2>1. UNCHANGED <<kind, listening, cache, prevSel, selector>> /\ committed # Missing /\ pending'
    BY <1>14 DEF Write, componentVars
  <2>2. committed' # Missing
    BY <1>14, StatesAre DEF Write
  <2> QED BY <2>1, <2>2 DEF Told, ComponentInv
<1>15. ASSUME NEW state \in States, Create(state) PROVE Told'
  <2>1. listening => pending'
    BY <1>15 DEF Create
  <2>2. state # Missing
    BY StatesAre
  <2> QED BY <1>15, <2>1, <2>2 DEF Create, Told, ComponentInv, componentVars
<1>16. CASE Delete
  <2>1. ~listening'
    BY <1>16 DEF Delete
  <2> QED BY <2>1 DEF Told
<1>17. CASE StartFlush
  <2>1. UNCHANGED <<committed, kind, listening, selector, cache, prevSel>> /\ pending /\ committed # Missing /\ (listening => captured')
    BY <1>17 DEF StartFlush, componentVars, ComponentInv, Flushing
  <2> QED BY <1>1, <2>1 DEF Told, ComponentInv
<1>18. CASE DeliverToPath
  <2>1. cache' = c /\ kind = "path" /\ UNCHANGED <<committed, pending, kind, listening, selector, prevSel>>
    BY <1>5, <1>18 DEF DeliverToPath, HandleStoreChange, storeVars
  <2> QED BY <1>6, <2>1 DEF Told
<1>19. CASE DeliverToSelector
  <2>1. /\ held = committed /\ committed # Missing /\ ~pending /\ listening /\ kind = "selector"
        /\ UNCHANGED <<committed, pending, kind, listening, selector>>
    BY <1>19 DEF DeliverToSelector, Orderly, ComponentInv, Flushing, storeVars
  <2>2. CASE prevSel = NoPrev \/ ~Equal(Select(selector, committed), prevSel)
    <3>1. prevSel' = Select(selector, committed) /\ cache' = c
      BY <1>5, <1>19, <2>1, <2>2 DEF DeliverToSelector, CallListener, HandleStoreChange
    <3> QED BY <1>2, <1>6, <2>1, <3>1, EqualIs DEF Told
  <2>3. CASE prevSel # NoPrev /\ Equal(Select(selector, committed), prevSel)
    <3>1. UNCHANGED <<prevSel, cache>>
      BY <1>19, <2>1, <2>3 DEF DeliverToSelector, CallListener
    <3> QED BY <2>1, <2>3, <3>1, EqualIs DEF Told, ComponentInv
  <2> QED BY <2>2, <2>3
<1>20. CASE NotDelivered
  <2>1. (~captured \/ ~listening \/ pending) /\ UNCHANGED <<committed, pending, kind, listening, selector, cache, prevSel>>
    BY <1>20 DEF NotDelivered, storeVars, componentVars
  <2> QED BY <2>1 DEF Told, ComponentInv
<1>21. CASE ReadMemo \/ UNCHANGED selVars
  <2>1. UNCHANGED <<committed, pending, captured, kind, listening, selector, cache, prevSel>>
    BY <1>21 DEF ReadMemo, selVars, storeVars, flushVars, componentVars
  <2> QED BY <2>1 DEF Told, ComponentInv
<1> QED BY <1>7, <1>8, <1>11, <1>12, <1>13, <1>14, <1>15, <1>16, <1>17, <1>18, <1>19, <1>20, <1>21 DEF SelNext

\* Together they are inductive,
LEMMA NextComponent ==
  ASSUME Orderly, SelTypes, ComponentInv, [SelNext]_selVars
  PROVE  ComponentInv'
<1>1. Flushing'
  BY NextFlushing DEF Orderly, ComponentInv
<1>2. CacheFits'
  BY NextCache DEF ComponentInv
<1>3. Told'
  BY NextTold
<1> QED BY <1>1, <1>2, <1>3 DEF ComponentInv

\* and when nothing is due they say that what is shown is current.
LEMMA CurrentFromInv ==
  ASSUME Orderly, SelTypes, ComponentInv
  PROVE  ShownIsCurrent
<1> SUFFICES ASSUME phase = "subscribed", ~pending, held = NothingHeld, ~rerender
             PROVE  IF kind = "path" THEN shown = OrNull(Select(selector, committed))
                    ELSE IF committed = Missing THEN shown = Null
                    ELSE Equal(shown, Select(selector, committed))
  BY DEF ShownIsCurrent
<1>1. ~captured /\ listening /\ shown = cache.value
  BY DEF ComponentInv, Flushing, CacheFits
<1>2. kind \in {"selector", "path"} /\ cache.value \in Results /\ selector \in Selectors
      /\ prevSel \in Results \cup {NoPrev} /\ committed \in States \cup {Missing}
  BY DEF SelTypes, SelTypeOK
<1>3. CASE kind = "path"
  BY <1>1, <1>3 DEF ComponentInv, Told
<1>4. CASE kind = "selector" /\ committed = Missing
  BY <1>1, <1>4 DEF ComponentInv, Told
<1>5. CASE kind = "selector" /\ committed # Missing
  <2>1. prevSel # NoPrev /\ Equal(prevSel, cache.value) /\ Equal(prevSel, Select(selector, committed))
    BY <1>1, <1>5 DEF ComponentInv, Told
  <2>2. Select(selector, committed) \in Results /\ Equal(cache.value, prevSel)
    BY <1>2, <2>1, SelectIs, EqualIs
  <2>3. Equal(cache.value, Select(selector, committed))
    BY <1>2, <2>1, <2>2 DEF Orderly, Transitive
  <2> QED BY <1>1, <1>5, <2>3
<1> QED BY <1>2, <1>3, <1>4, <1>5

\* Once nothing is due a component (useStore of react/hooks-core.ts over
\* subscribeWithSelector) shows what its selector or path gives of the committed state.
THEOREM SelectionsAreCurrent ==
  ASSUME Orderly
  PROVE  SelSpec => []ShownIsCurrent
<1>1. SelInit => ComponentInv
  BY DEF SelInit, ComponentInv, Flushing, CacheFits, Told, EmptyCache
<1>2. SelTypes /\ ComponentInv /\ [SelNext]_selVars => ComponentInv'
  BY NextComponent
<1>3. SelTypes /\ ComponentInv => ShownIsCurrent
  BY CurrentFromInv
<1> QED BY SelSpecTypes, <1>1, <1>2, <1>3, PTL DEF SelSpec

\* Every variable keeps its type; a subscription exists only while its component does.
THEOREM SelectionTypes == SelSpec => []SelTypeOK
<1>1. SelTypes => SelTypeOK
  BY DEF SelTypes
<1> QED BY SelSpecTypes, <1>1, PTL
=============================================================================
