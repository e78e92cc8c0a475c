---------------------------- MODULE NotifyFlush ----------------------------
(***************************************************************************)
(* The notification pipeline of the core runtime: notify (store-notify.ts),*)
(* scheduleFlush (notification/scheduler.ts), flushRegistry and            *)
(* flushPendingNotificationsInline (notification/index.ts), buildFlushPlan *)
(* (notification/priority.ts) and deliverFlush (notification/delivery.ts), *)
(* together with the store operations that feed it: writes, create, delete,*)
(* subscribe and unsubscribe.                                              *)
(*                                                                         *)
(* JavaScript runs one callback at a time, so a step is what runs between  *)
(* two points where application code can run: the event loop (pc = "idle") *)
(* and the inside of a subscriber callback (pc = "call").  Store operations*)
(* are enabled exactly there.  A stored value is abstracted to a stamp, a  *)
(* number no other write has had, so a later write has a larger stamp.     *)
(*                                                                         *)
(* JavaScript Sets and arrays keep insertion order; here pending names,    *)
(* subscribers and queued tasks are sets and any order is taken, except    *)
(* that a chunked flush runs its priority queue first.                     *)
(***************************************************************************)
EXTENDS Naturals

CONSTANTS
  Stores,            \* store names
  Subs,              \* subscriber callbacks
  Priority,          \* flush.priorityStores
  ComputedOf,        \* ComputedOf[s]: computed stores downstream of s (getComputedOrder)
  Modes,             \* flush configurations in use: subset of {"inline", "chunked"}
  SliceSize,         \* flush.chunkSize: callbacks per chunk
  Flights,           \* identities of chunked flushes under way
  DeleteInInline,    \* may a subscriber delete a store while an inline flush runs?
  ReuseInFlight,     \* may a deleted name be created again while a flush still holds it?
  MaxStamp           \* bound on the number of writes

ASSUME PipelineAssumption ==
  /\ Stores # {}
  /\ Priority \subseteq Stores
  /\ ComputedOf \in [Stores -> SUBSET Stores]
  /\ Modes \subseteq {"inline", "chunked"}
  /\ SliceSize \in Nat \ {0}
  /\ "none" \notin Flights /\ "inline" \notin Flights /\ "drain" \notin Flights
  /\ DeleteInInline \in BOOLEAN /\ ReuseInFlight \in BOOLEAN
  /\ MaxStamp \in Nat

VARIABLES
  stamp,                 \* the last stamp given to a write
  exists, value,         \* registry.stores
  updateCount,           \* metaEntries[s].updateCount
  subscribers,           \* registry.subscribers
  pendingNotifications, notifyScheduled, isFlushing,   \* registry.notify
  microtasks,            \* flush microtasks queued and not yet run
  tasks,                 \* tasks[f]: StoreTasks still queued in chunked flush f
  pc,                    \* "idle", "next", "deliver" or "call"
  flush,                 \* the flush on the stack: "none", "inline" (a microtask's),
                         \* "drain" (flushPendingNotificationsInline) or a chunked flight
  names, visited,        \* inline flush: orderedNames after and before the iterator
  task,                  \* the StoreTask being delivered
  sent,                  \* callbacks made in this slice
  seen                   \* ghost: the stamp b holds for s, as long as it is subscribed

registryVars == <<stamp, exists, value, updateCount>>
notifyVars == <<pendingNotifications, notifyScheduled, microtasks>>
stackVars == <<pc, flush, task, sent>>
vars == <<registryVars, subscribers, notifyVars, isFlushing, tasks, stackVars,
          names, visited, seen>>

StoreTask == [store : Stores, snapshot : Nat, version : Nat,
              subscribers : SUBSET Subs, unnotified : SUBSET Subs]

TypeOK ==
  /\ stamp \in Nat
  /\ exists \in [Stores -> BOOLEAN]
  /\ value \in [Stores -> Nat]
  /\ updateCount \in [Stores -> Nat]
  /\ subscribers \in [Stores -> SUBSET Subs]
  /\ pendingNotifications \in SUBSET Stores
  /\ notifyScheduled \in BOOLEAN
  /\ isFlushing \in BOOLEAN
  /\ microtasks \in Nat
  /\ tasks \in [Flights -> SUBSET StoreTask]
  /\ pc \in {"idle", "next", "deliver", "call"}
  /\ flush \in {"none", "inline", "drain"} \cup Flights
  /\ names \in SUBSET Stores
  /\ visited \in SUBSET Stores
  /\ task \in StoreTask
  /\ sent \in Nat
  /\ seen \in [Stores -> [Subs -> Nat]]

NoTask == [store |-> CHOOSE s \in Stores : TRUE, snapshot |-> 0, version |-> 0,
           subscribers |-> {}, unnotified |-> {}]

\* Some stores were created, with initial value 0, before anything subscribed.
Init ==
  /\ stamp = 0
  /\ exists \in [Stores -> BOOLEAN]
  /\ value = [s \in Stores |-> 0]
  /\ updateCount = [s \in Stores |-> 0]
  /\ subscribers = [s \in Stores |-> {}]
  /\ pendingNotifications = {}
  /\ notifyScheduled = FALSE
  /\ isFlushing = FALSE
  /\ microtasks = 0
  /\ tasks = [f \in Flights |-> {}]
  /\ pc = "idle"
  /\ flush = "none"
  /\ names = {}
  /\ visited = {}
  /\ task = NoTask
  /\ sent = 0
  /\ seen = [s \in Stores |-> [b \in Subs |-> 0]]

-----------------------------------------------------------------------------
(***************************************************************************)
(* Scheduling.                                                             *)
(***************************************************************************)

\* Application code runs at the top level of the event loop and in callbacks.
AppRuns == pc \in {"idle", "call"}

\* The flush on the stack runs in chunks.
chunked == flush \in Flights

\* scheduleFlush: one flush microtask at a time.
ScheduleFlush ==
  /\ notifyScheduled' = TRUE
  /\ microtasks' = IF notifyScheduled THEN microtasks ELSE microtasks + 1

\* Mutant of Notify: while a flush runs, it drops the store.
NotifyDropsWhileFlushing(S) ==
  /\ pendingNotifications' = IF isFlushing THEN pendingNotifications ELSE pendingNotifications \cup S
  /\ IF pendingNotifications' = {}
     THEN UNCHANGED <<notifyScheduled, microtasks>>
     ELSE ScheduleFlush

\* notify for every store of S, then scheduleFlush.
Notify(S) ==
  /\ pendingNotifications' = pendingNotifications \cup S
  /\ IF pendingNotifications' = {}
     THEN UNCHANGED <<notifyScheduled, microtasks>>
     ELSE ScheduleFlush

-----------------------------------------------------------------------------
(***************************************************************************)
(* Store operations, as far as the pipeline sees them.                     *)
(***************************************************************************)

\* setStore, replaceStore or resetStore (S a singleton), or a setStoreBatch
\* that commits the stores of S: new values, updateCount, then notify.
Commit(S) ==
  /\ AppRuns
  /\ stamp < MaxStamp
  /\ S # {} /\ \A s \in S : exists[s]
  /\ stamp' = stamp + 1
  /\ value' = [s \in Stores |-> IF s \in S THEN stamp + 1 ELSE value[s]]
  /\ updateCount' = [s \in Stores |-> IF s \in S THEN updateCount[s] + 1
                                                 ELSE updateCount[s]]
  /\ Notify(S)
  /\ UNCHANGED <<exists, subscribers, isFlushing, tasks, stackVars, names,
                 visited, seen>>

\* A flush under way has captured a task of this store.
InFlight(s) ==
  \/ \E f \in Flights : \E t \in tasks[f] : t.store = s
  \/ pc \in {"deliver", "call"} /\ task.store = s

\* createStore: subscribers that were there first are notified.
CreateStore(s) ==
  /\ AppRuns
  /\ stamp < MaxStamp
  /\ ~exists[s]
  /\ ReuseInFlight \/ ~InFlight(s)
  /\ stamp' = stamp + 1
  /\ exists' = [exists EXCEPT ![s] = TRUE]
  /\ value' = [value EXCEPT ![s] = stamp + 1]
  /\ updateCount' = [updateCount EXCEPT ![s] = 0]
  /\ IF subscribers[s] # {} THEN Notify({s}) ELSE UNCHANGED notifyVars
  /\ UNCHANGED <<subscribers, isFlushing, tasks, stackVars, names, visited, seen>>

\* orderedNames.splice while the inline flush iterates over the same array.
\* Removing a name the iterator has not reached just removes it; removing one
\* it has passed shifts the rest down, and the iterator steps over the next.
SpliceOrderedNames(s) ==
  IF s \in visited /\ names # {}
  THEN \E next \in names :
         /\ names' = names \ {next}
         /\ visited' = (visited \ {s}) \cup {next}
  ELSE /\ names' = names \ {s}
       /\ visited' = visited \ {s}

\* deleteExistingStore: subscribers get null and are cleared, every record of
\* the name goes, and so does its entry in the pending set and orderedNames.
DeleteStore(s) ==
  /\ AppRuns
  /\ pc = "call" /\ ~chunked => DeleteInInline
  /\ exists[s]
  /\ exists' = [exists EXCEPT ![s] = FALSE]
  /\ value' = [value EXCEPT ![s] = 0]
  /\ updateCount' = [updateCount EXCEPT ![s] = 0]
  /\ subscribers' = [subscribers EXCEPT ![s] = {}]
  /\ seen' = [seen EXCEPT ![s] = [b \in Subs |-> 0]]
  /\ pendingNotifications' = pendingNotifications \ {s}
  /\ SpliceOrderedNames(s)
  /\ UNCHANGED <<stamp, notifyScheduled, microtasks, isFlushing, tasks, stackVars>>

\* subscribeStore; the new subscriber has read the current value for itself.
Subscribe(s, b) ==
  /\ AppRuns
  /\ b \notin subscribers[s]
  /\ subscribers' = [subscribers EXCEPT ![s] = @ \cup {b}]
  /\ seen' = [seen EXCEPT ![s][b] = value[s]]
  /\ UNCHANGED <<registryVars, notifyVars, isFlushing, tasks, stackVars, names, visited>>

\* The closure subscribeStore returned.
Unsubscribe(s, b) ==
  /\ AppRuns
  /\ b \in subscribers[s]
  /\ subscribers' = [subscribers EXCEPT ![s] = @ \ {b}]
  /\ seen' = [seen EXCEPT ![s][b] = 0]
  /\ UNCHANGED <<registryVars, notifyVars, isFlushing, tasks, stackVars, names, visited>>

-----------------------------------------------------------------------------
(***************************************************************************)
(* Flushing.                                                               *)
(***************************************************************************)

\* Mutant of CurrentVersion: the captured version is taken to be current.
CapturedVersion(t) == t.version

\* What the flush compares a captured version with: metaEntries[s]?.updateCount
\* falls back to the captured version when the store is gone.
CurrentVersion(t) == IF exists[t.store] THEN updateCount[t.store] ELSE t.version

\* The StoreTask captured for a name of the plan.
Capture(s) ==
  [store |-> s, snapshot |-> value[s],
   version |-> IF exists[s] THEN updateCount[s] ELSE 0,
   subscribers |-> subscribers[s], unnotified |-> subscribers[s]]

\* The names buildFlushPlan collects: what is pending, then the computed
\* stores downstream of it.
FlushNames ==
  pendingNotifications
    \cup {c \in UNION {ComputedOf[s] : s \in pendingNotifications} : exists[c]}

\* The tasks of the queue being run: the priority queue before the regular one.
FirstTasks(T) == IF \E t \in T : t.store \in Priority
                 THEN {t \in T : t.store \in Priority} ELSE T

\* flushRegistry up to the first delivery.  Inline, the names are walked one by
\* one; chunked, every task is captured first.
StartInline ==
  /\ isFlushing' = TRUE
  /\ names' = FlushNames
  /\ visited' = {}
  /\ pendingNotifications' = {}
  /\ pc' = "next"
  /\ UNCHANGED <<registryVars, subscribers, tasks, task, sent, seen>>

StartChunked(f) ==
  /\ tasks[f] = {}
  /\ isFlushing' = TRUE
  /\ tasks' = [tasks EXCEPT ![f] = {Capture(s) : s \in {n \in FlushNames : subscribers[n] # {}}}]
  /\ pendingNotifications' = {}
  /\ pc' = "next"
  /\ flush' = f
  /\ UNCHANGED <<registryVars, subscribers, names, visited, task, sent, seen>>

\* Mutant of RunMicrotask: a flush starts though no microtask is queued.
RunUnqueued ==
  /\ pc = "idle"
  /\ microtasks' = microtasks - 1
  /\ UNCHANGED notifyScheduled
  /\ \/ "inline" \in Modes /\ flush' = "inline" /\ StartInline
     \/ "chunked" \in Modes /\ \E f \in Flights : StartChunked(f)

\* A queued flush microtask runs and reads the flush configuration.
RunMicrotask ==
  /\ pc = "idle"
  /\ microtasks > 0
  /\ microtasks' = microtasks - 1
  /\ UNCHANGED notifyScheduled
  /\ \/ "inline" \in Modes /\ flush' = "inline" /\ StartInline
     \/ "chunked" \in Modes /\ \E f \in Flights : StartChunked(f)

\* flushPendingNotificationsInline, from request cleanup (server/index.ts) or
\* waitForNotificationIdle: its first pass.
DrainInline ==
  /\ pc = "idle"
  /\ notifyScheduled \/ pendingNotifications # {}
  /\ ~isFlushing
  /\ flush' = "drain"
  /\ UNCHANGED <<notifyScheduled, microtasks>>
  /\ StartInline

\* Mutants of FinishFlush: what became pending meanwhile is not scheduled
\* again; and, besides, notifyScheduled is left as it was.
FinishWithoutRearming ==
  /\ isFlushing' = FALSE
  /\ notifyScheduled' = FALSE
  /\ UNCHANGED microtasks
  /\ pc' = "idle"
  /\ flush' = "none"

FinishKeepsFlag ==
  /\ isFlushing' = FALSE
  /\ UNCHANGED <<notifyScheduled, microtasks>>
  /\ pc' = "idle"
  /\ flush' = "none"

\* finish() of flushRegistry for a flush started by a microtask: it is over
\* and anything pending is scheduled again.
FinishFlush ==
  /\ isFlushing' = FALSE
  /\ notifyScheduled' = (pendingNotifications' # {})
  /\ microtasks' = IF pendingNotifications' # {} THEN microtasks + 1 ELSE microtasks
  /\ pc' = "idle"
  /\ flush' = "none"

\* The inline flush takes its next name, or skips one without subscribers.
InlineTakeName ==
  /\ pc = "next" /\ ~chunked
  /\ \E s \in names :
       /\ names' = names \ {s}
       /\ visited' = visited \cup {s}
       /\ IF subscribers[s] = {}
          THEN UNCHANGED <<pc, task>>
          ELSE pc' = "deliver" /\ task' = Capture(s)
  /\ sent' = 0
  /\ UNCHANGED <<registryVars, subscribers, notifyVars, isFlushing, tasks, flush, seen>>

\* No name is left: a microtask's flush finishes; flushPendingNotificationsInline
\* clears both flags and goes round again while something is pending.
InlineEnd ==
  /\ pc = "next" /\ ~chunked
  /\ names = {}
  /\ visited' = {}
  /\ IF flush = "drain"
     THEN /\ notifyScheduled' = FALSE
          /\ pendingNotifications' = {}
          /\ IF pendingNotifications = {}
             THEN /\ pc' = "idle" /\ isFlushing' = FALSE /\ flush' = "none"
                  /\ names' = {}
             ELSE names' = FlushNames /\ UNCHANGED <<pc, isFlushing, flush>>
          /\ UNCHANGED microtasks
     ELSE UNCHANGED <<pendingNotifications, names>> /\ FinishFlush
  /\ UNCHANGED <<registryVars, subscribers, tasks, task, sent, seen>>

\* A chunk timer fires: processNext of flush f is on the stack.
ChunkTimer(f) ==
  /\ pc = "idle"
  /\ tasks[f] # {}
  /\ pc' = "next"
  /\ flush' = f
  /\ UNCHANGED <<registryVars, subscribers, notifyVars, isFlushing, tasks, names,
                 visited, task, sent, seen>>

\* refreshSubscribers: subscribers that came since the capture join the task.
Refresh(t) ==
  [t EXCEPT !.subscribers = @ \cup subscribers[t.store],
            !.unnotified = @ \cup (subscribers[t.store] \ t.subscribers)]

\* What processNext does when it is through with a task of flush f, the queue
\* being Q: done() when it is empty, at once on to the regular queue when the
\* priority queue has just emptied, else another chunk is scheduled.
AfterTask(t, Q) ==
  /\ tasks' = [tasks EXCEPT ![flush] = Q]
  /\ IF Q = {}
     THEN FinishFlush
     ELSE /\ IF t.store \in Priority /\ \A u \in Q : u.store \notin Priority
             THEN pc' = "next" /\ UNCHANGED flush
             ELSE pc' = "idle" /\ flush' = "none"
          /\ UNCHANGED <<isFlushing, notifyScheduled, microtasks>>

\* A chunked flush with nothing to deliver is done at once.
ChunkNothing ==
  /\ pc = "next" /\ chunked
  /\ tasks[flush] = {}
  /\ UNCHANGED pendingNotifications
  /\ FinishFlush
  /\ UNCHANGED <<registryVars, subscribers, tasks, names, visited, task, sent, seen>>

\* processNext finds the captured version out of date and requeues the store.
ChunkStale ==
  /\ pc = "next" /\ chunked
  /\ \E t \in FirstTasks(tasks[flush]) :
       /\ CurrentVersion(t) # t.version
       /\ pendingNotifications' = pendingNotifications \cup {t.store}
       /\ AfterTask(t, tasks[flush] \ {t})
  /\ UNCHANGED <<registryVars, subscribers, names, visited, task, sent, seen>>

\* processNext starts a slice of a task.
ChunkTakeTask ==
  /\ pc = "next" /\ chunked
  /\ \E t \in FirstTasks(tasks[flush]) :
       /\ CurrentVersion(t) = t.version
       /\ tasks' = [tasks EXCEPT ![flush] = @ \ {t}]
       /\ task' = Refresh(t)
  /\ sent' = 0
  /\ pc' = "deliver"
  /\ UNCHANGED <<registryVars, subscribers, notifyVars, isFlushing, flush, names,
                 visited, seen>>

\* One subscriber is called with the captured snapshot.
Deliver(b) ==
  /\ pc = "deliver"
  /\ b \in task.unnotified
  /\ seen' = [seen EXCEPT ![task.store][b] =
                IF b \in subscribers[task.store] THEN task.snapshot ELSE @]
  /\ task' = [task EXCEPT !.unnotified = @ \ {b}]
  /\ sent' = IF chunked THEN sent + 1 ELSE sent
  /\ pc' = "call"
  /\ UNCHANGED <<registryVars, subscribers, notifyVars, isFlushing, tasks, flush, names,
                 visited>>

\* The callback returns and the inline flush goes on to the store's next
\* subscriber, or checks the version and goes on to the next name.
InlineReturn ==
  /\ pc = "call" /\ ~chunked
  /\ IF task.unnotified # {}
     THEN pc' = "deliver" /\ UNCHANGED <<pendingNotifications, task>>
     ELSE /\ pc' = "next"
          /\ task' = NoTask
          /\ pendingNotifications' =
               IF CurrentVersion(task) # task.version
               THEN pendingNotifications \cup {task.store} ELSE pendingNotifications
  /\ UNCHANGED <<registryVars, subscribers, notifyScheduled, microtasks, isFlushing,
                 tasks, flush, names, visited, sent, seen>>

\* The callback returns and the slice goes on.
ChunkReturn ==
  /\ pc = "call" /\ chunked
  /\ CurrentVersion(task) = task.version
  /\ task.unnotified # {} /\ sent < SliceSize
  /\ pc' = "deliver"
  /\ UNCHANGED <<registryVars, subscribers, notifyVars, isFlushing, tasks, flush, names,
                 visited, task, sent, seen>>

\* The callback returns, and the store changed during the slice: requeued.
ChunkOutdated ==
  /\ pc = "call" /\ chunked
  /\ CurrentVersion(task) # task.version
  /\ pendingNotifications' = pendingNotifications \cup {task.store}
  /\ task' = NoTask
  /\ sent' = 0
  /\ AfterTask(task, tasks[flush])
  /\ UNCHANGED <<registryVars, subscribers, names, visited, seen>>

\* The callback returns and the slice is over: the task goes back to its queue
\* when some subscriber, perhaps one that came during the slice, has yet to be
\* called.
ChunkSliceEnd ==
  /\ pc = "call" /\ chunked
  /\ CurrentVersion(task) = task.version
  /\ task.unnotified = {} \/ sent >= SliceSize
  /\ task' = NoTask
  /\ sent' = 0
  /\ UNCHANGED pendingNotifications
  /\ AfterTask(task, IF Refresh(task).unnotified = {} THEN tasks[flush]
                     ELSE tasks[flush] \cup {Refresh(task)})
  /\ UNCHANGED <<registryVars, subscribers, names, visited, seen>>

-----------------------------------------------------------------------------
App ==
  \/ \E S \in SUBSET Stores : Commit(S)
  \/ \E s \in Stores : CreateStore(s) \/ DeleteStore(s)
  \/ \E s \in Stores, b \in Subs : Subscribe(s, b) \/ Unsubscribe(s, b)

Pipeline ==
  \/ RunMicrotask
  \/ InlineTakeName \/ InlineEnd
  \/ \E f \in Flights : ChunkTimer(f)
  \/ ChunkNothing \/ ChunkStale \/ ChunkTakeTask
  \/ \E b \in Subs : Deliver(b)
  \/ InlineReturn \/ ChunkReturn \/ ChunkOutdated \/ ChunkSliceEnd

Next == App \/ DrainInline \/ Pipeline

Spec == Init /\ [][Next]_vars

\* The event loop runs every queued microtask and timer, callbacks return, and
\* a drain that could run does: the code on the stack is synchronous.
FairSpec ==
  /\ Spec
  /\ WF_vars(RunMicrotask)
  /\ \A f \in Flights : WF_vars(ChunkTimer(f))
  /\ WF_vars(InlineTakeName \/ InlineEnd)
  /\ WF_vars(ChunkNothing \/ ChunkStale \/ ChunkTakeTask)
  /\ WF_vars(\E b \in Subs : Deliver(b))
  /\ WF_vars(InlineReturn \/ ChunkReturn \/ ChunkOutdated \/ ChunkSliceEnd)

-----------------------------------------------------------------------------
(***************************************************************************)
(* Properties.                                                             *)
(***************************************************************************)

\* Subscriber b holds a value of s that is not the committed one.
Owed(s, b) == exists[s] /\ b \in subscribers[s] /\ seen[s][b] # value[s]

\* A task that brings b the committed value: either the version check will
\* find it out of date and requeue the store, or it is current and b is next.
TaskCovers(t, s, b) ==
  /\ t.store = s
  /\ \/ t.version # updateCount[s]
     \/ t.snapshot = value[s] /\ (b \in t.unnotified \/ b \notin t.subscribers)

\* Some part of the pipeline still has to bring b the value of s.
Outstanding(s, b) ==
  \/ s \in pendingNotifications
  \/ \E f \in Flights : \E t \in tasks[f] : TaskCovers(t, s, b)
  \/ pc \in {"deliver", "call"} /\ TaskCovers(task, s, b)
  \/ pc # "idle" /\ ~chunked /\ s \in names

\* No notification is lost: when a subscriber of an existing store does not
\* hold the committed value, notify's entry is still pending or a flush still
\* carries it.  A flush clears the pending set before it delivers, tasks are
\* dropped when stale, and subscribers come and go meanwhile.
NoLostNotification ==
  \A s \in Stores, b \in Subs : Owed(s, b) => Outstanding(s, b)

\* The flags never outlive the work: whenever something is pending, or the
\* flags say a flush is scheduled or running, a microtask or a chunk timer
\* exists that will run it.  scheduleFlush refuses to queue a second microtask
\* while notifyScheduled is set, so otherwise no flush would ever run again.
FlushArmed ==
  pendingNotifications # {} \/ notifyScheduled \/ isFlushing
    => microtasks > 0 \/ pc # "idle" \/ \E f \in Flights : tasks[f] # {}

\* Chunked delivery never hands out a mixed snapshot: whatever was written
\* between two slices, what a subscriber of an existing store is about to be
\* called with is the committed value.
ChunkedSnapshotIsCurrent ==
  pc = "deliver" /\ chunked /\ exists[task.store] => task.snapshot = value[task.store]

\* Every committed change reaches every subscriber that stays: it is owed a
\* value only for a while, until a flush delivers it or it or its store goes.
EventuallyDelivered ==
  \A s \in Stores, b \in Subs : Owed(s, b) ~> ~Owed(s, b)

\* No subscriber is called with a snapshot of a store that has been deleted.
NoDeliveryAfterDelete == pc = "deliver" => exists[task.store]

-----------------------------------------------------------------------------
(***************************************************************************)
(* The invariant that is inductive, when subscribers do not delete stores  *)
(* during an inline flush nor reuse a name a flush still holds.            *)
(***************************************************************************)

Delivering == pc \in {"deliver", "call"}

\* A captured version never runs ahead of the store, and identifies the value:
\* as long as the version is current, so is the snapshot.
GoodTask(t) ==
  /\ t.unnotified \subseteq t.subscribers
  /\ exists[t.store] =>
       /\ t.version <= updateCount[t.store]
       /\ t.version = updateCount[t.store] => t.snapshot = value[t.store]

VersionIdentifiesSnapshot ==
  /\ \A f \in Flights : \A t \in tasks[f] : GoodTask(t)
  /\ Delivering => GoodTask(task)

\* A subscriber that came after an inline flush captured the store read the
\* committed value itself, and still holds it unless the version has moved on.
LateSubscribersCurrent ==
  Delivering /\ ~chunked /\ exists[task.store] /\ task.version = updateCount[task.store]
    => \A b \in subscribers[task.store] \ task.subscribers :
         seen[task.store][b] = value[task.store]

\* A chunked flush calls no subscriber once the store has moved on.
DeliversCurrentVersion ==
  pc = "deliver" /\ chunked /\ exists[task.store] => task.version = updateCount[task.store]

IInv ==
  /\ TypeOK
  /\ VersionIdentifiesSnapshot
  /\ LateSubscribersCurrent
  /\ DeliversCurrentVersion
  /\ NoLostNotification

=============================================================================
