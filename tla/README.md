# Stroid: TLA+ models and proofs

TLA+ modules for the core of stroid, a state library for TypeScript (`src/src/`),
with the TLC configurations that model-check them and theorems that TLAPS
proves. Every definition is translated from the source; `PROJECT.json` maps each
one to its lines. Paths below are relative to `src/src/` unless they start with
`docs/` or `tests/`.

Status: ten components are modelled and checked (the notification pipeline, batches,
path writes with validation and middleware, asynchronous fetching, tab sync,
persistence, hydration, computed stores, server requests, selections and the React
bindings). Proved for every value of the constants: the safety of the pipeline, of
batches, of asynchronous fetching and its tables, of hydration, of server requests, of path writes, of
persistence, of tab sync (its convergence too) and of selections, and both refinements. The [plan](#plan) lists what comes next.

    tlc -config MCNotifyFlush.cfg MCNotifyFlush      # a run
    tlapm NotifyFlush_proofs.tla                     # proofs
    tlapm StoreBatch_proofs.tla
    tlapm AsyncFetch_proofs.tla
    tlapm Hydration_proofs.tla
    tlapm RequestScope_proofs.tla
    tlapm PathWrite_proofs.tla
    tlapm TabSync_proofs.tla
    tlapm Persist_proofs.tla

## The system

Stroid keeps named stores in a registry (`core/store-registry.ts`). The program
is JavaScript: one callback runs at a time, so what is concurrent is the order in
which callbacks, microtasks, timers and promises run, and what application code
does when the library calls it back.

| Component | State | Operations | Hard behaviour | What makes it correct |
|---|---|---|---|---|
| Registry and store operations `core/store-create.ts`, `store-set-impl.ts`, `store-replace-impl.ts`, `store-admin-impl.ts`, `internals/store-admin.ts` | `stores`, `metaEntries` (`updateCount`), `subscribers`, `initialStates` | `createStore`, `setStore`, `replaceStore`, `resetStore`, `deleteStore`, `clearAllStores`, `subscribeStore` | operations called from hooks and subscribers while another one is in progress; names deleted and used again | a store that can be found has its metadata; counters that restart are not mistaken for old ones |
| Notification pipeline `notification/`, `core/store-notify.ts` | `pendingNotifications`, `notifyScheduled`, `isFlushing`, `orderedNames`, queued chunks | `notify`, `scheduleFlush`, `flushRegistry`, `flushPendingNotificationsInline`, `buildFlushPlan`, `deliverFlush` | inline and chunked flushes that overlap; writes, deletions and subscriptions between chunks and inside callbacks | no notification is lost; no outdated snapshot is delivered; a flush is always scheduled when one is needed |
| Batches `core/store-transaction.ts`, `core/store-write-shared.ts`, `psr/index.ts` | `depth`, `failed`, `pending`, `stagedValues`, `batchDepth` | `setStoreBatch`, `applyStorePatchesAtomic`, `beginTransaction`, `stageOrCommitUpdate`, `endTransaction`, rollback | hooks run between the commit functions, and may write, delete, create or batch | a batch takes effect in one step or not at all; the notification gate is balanced |
| Async fetch `async/` | per cache slot: `requestSequence`, `requestVersion`, `inflight`, `cacheMeta`, rate window; the index of slots by store; per call: promises, abort signal, attempts | `fetchStore`, `refetchStore`, pruning, `clearAsyncMeta` on deletion | answers out of order; retries, aborts and the timeout racing; the store deleted meanwhile | only the newest answer is shown; loading ends; nothing crosses a deletion, and nothing is left by one; the limits hold |
| Hydration consistency `core/store-hydrate-impl.ts`, `core/hydration-consistency/` | boot window, deferred writes, drift records | `hydrateStores`, queue, replay, reconcile | writes reported as done while only queued; a second hydration | a write that reported success is applied |
| Tab sync `features/sync/` | per store: clock, source, loop guard | broadcast, incoming message, snapshot request and reply | messages lost, delayed, reordered between tabs | tabs converge |
| Persistence `features/persist.ts`, `features/persist/` | load state, timers, sequence, in-flight writes | load, debounced save, pagehide flush, storage events | asynchronous load and save racing with writes, deletion and page hide | persisted data is not overwritten by older state |
| Computed stores `computed/`, `internals/computed-order.ts` | dependency graph, topological cache, flush history | `createComputed`, recompute, dispose | diamonds; dependencies deleted and created again | a computed store converges to the function of its sources |
| Server request scopes `server/` | carrier, request registry | `createStoreForRequest`, hydrate, detach | requests interleaved on one process | no state crosses requests |
| Lifecycle hooks, validation, middleware `core/store-lifecycle/`, `features/lifecycle.ts` | the cache of path verdicts and its LRU list | called by every write | verdicts outlive values; middleware runs between reading and committing | no verdict is outdated; a path write changes its path alone |
| Selectors, React bindings `selectors/`, `react/` | the previous selection, selector caches, recorded dependencies | `subscribeWithSelector`, `createSelector`, `useStore`, `useSelector` | rendering, subscribing and notification apart in time | what is shown is the selection of the current state |
| Options, devtools, helpers, integrations | - | - | - | - |

How they interact: a write commits through `commitStoreUpdate`, which runs hooks
and features (persistence, sync, devtools) and calls `notify`. `notify` adds to
the pending set and schedules a flush microtask, unless a batch holds the gate
(`batchDepth > 0`), which schedules it when it ends. A flush calls subscribers,
among them the recompute functions of computed stores and the React bindings,
and these may call any store operation. `fetchStore` is a client of `setStore`
and hooks into `deleteStore`. Hydration and sync write through the same commit.

## Modules

### NotifyFlush

`notify`, `scheduleFlush`, `flushRegistry`, `buildFlushPlan`, `deliverFlush` and
the store operations that feed them. A step is what runs between two points where
application code can run: the event loop (`pc = "idle"`) and the inside of a
subscriber (`pc = "call"`); the store operations (`Commit`, `CreateStore`,
`DeleteStore`, `Subscribe`, `Unsubscribe`) are enabled exactly there.

| Code | Model |
|---|---|
| microtask queue entry made by `scheduleFlush` | `microtasks`, `RunMicrotask` |
| `flushPendingNotificationsInline` | `DrainInline` |
| `for (const name of orderedNames)` of the inline flush | `names` (ahead of the iterator) and `visited`; `InlineTakeName`, `InlineReturn`, `InlineEnd` |
| chunked flush: `buildQueue`, `processNext`, its timers | one member of `Flights` with its `tasks`; `StartChunked`, `ChunkTimer`, `ChunkNothing`, `ChunkStale`, `ChunkTakeTask`, `ChunkReturn`, `ChunkOutdated`, `ChunkSliceEnd` |
| `StoreTask` and its captured version and subscribers | `task`, `Capture`, `Refresh` |
| `orderedNames.splice` in `deleteExistingStore` | `SpliceOrderedNames` |
| `finish` | `FinishFlush` |

Values are stamps: each write has its own number. `seen` is a ghost: the stamp a
subscriber last got, or read when it subscribed. Sets and arrays that keep
insertion order are sets from which any member is taken, which allows the code's
order and others.

Two constants name what the code allows and the invariants do not survive:
`DeleteInInline` (a callback of an inline flush deletes a store) and
`ReuseInFlight` (a deleted name is created again while a flush still holds it).

### AtomicBatch and StoreBatch

`AtomicBatch` is the promise of `setStoreBatch`: a batch takes effect in one step
or not at all, and a batch in which a write failed never does. `StoreBatch` is
the code: nested batches, staged values, commit functions run one by one with
the store's hook after each, and rollback. `frames` is the call stack of commits
and direct writes whose hook runs; `registry.transaction` is shared by them all,
as in the code, so a hook that opens a batch resets it while the outer
batch commits. `StoreBatch` implements `AtomicBatch` under the refinement mapping at
the end of the module: while the outermost batch commits, its rollback snapshot
is what the rest of the program sees. Hooks run inside the batch's commit, so their own
writes become visible, or are rolled back, together with it; `AtomicBatch` says so.

### AsyncFetch

`fetchStore` on one store with several cache slots. A request is the record of
one call's closures: `run` is `executeFetch` (fetching, waiting for a retry, done)
and `race` the promise returned (open, rejected with the catch handler to run,
over with the finally handler to run, settled), so each promise handler is a
step of its own: `Answer`, `Fail`, `Retry`, `Timeout`, `CallerAborts`, `Catch`,
`Settle`. The synchronous part of a call is `FetchCached`, `FetchWithoutRequest`
(deduplicated or refused) or `StartRequest`. `refetchStore` and revalidation on
focus are further calls. The data of an answer is the number of its request.
Time is a choice: a cached entry may be found expired, and a request without a
caller's signal may time out, at any moment.

`irregular` is a ghost: the set of those things that have happened after which the code may
leave `loading` set (see [Not modelled](#not-modelled)). `LoadingEnds` is claimed while it is
empty, and `StaleAnswersIgnored` until it holds `"pruned"`: pruning that hits a slot in use
restarts its versions.

### AsyncSlots

The tables of `async/registry.ts` for several stores: which slots are in flight, versioned,
sequenced, cached or rate limited, and the index (`slotOwners`, `slotsByStore`) that
deletion, pruning and the limits go by. What a request does to its store is in `AsyncFetch`;
here it is what it does to the tables. `call` is the `fetchStore` call on the stack: it
may show a cached entry (`ShowCached`), joins a request, is refused, or reserves a version
(`Join`, `Call`), shows that it is loading, registers its clean-up (`RegisterCleanup`) and
is in flight (`Enter`); in between, callbacks create and delete stores (`Create`,
`Delete`). `Answer`, `EndWithoutAnswer` and `Settle` are a request's later steps,
`RatePruneTimer` the timer that drops rate windows. `Release` is
`releaseAsyncSlotIfOrphaned`: it runs after the tables have changed, so it reads their
primed values. Which entries have expired and which windows are over or full are choices.

### TabSync

One store shared by several tabs over a `BroadcastChannel`: per tab the value, the
clock, the version accepted last (`syncVersions`: clock and source), the loop guard.
`wire[<<t, u>>]` is what tab `t` posted and `u` has not received: one sender's messages
keep their order, those of different senders do not. `Write` is a local write with
`onStoreWrite` (`ensureLocalClock`, then the loop guard or `broadcastSync`);
`Accept`, `Ignore`, `Resolve`, `AnswerRequest` and `Reject` are the paths through
`channel.onmessage`. That the guard's window is over is a choice. `over` is a ghost:
which writes a write replaced.

### Persist

One store saved under one key. `writes` is what `persistInFlight` chains: a write waits
for the one before it, is checksummed and encrypted, handed to the driver and answered,
each an await of `writePersist` (`Continue`, `Sealed`, `SetItem`, `Answered`). `timer`
is `persistTimers`. `FinishLoad` is the rest of an asynchronous `persistLoad`;
`CreateStore` contains a synchronous one. `Reload` forgets all but the storage. When
driver and encryption are synchronous (`~slow`) all awaits are microtasks, so no task
starts before they have run: `TaskMayRun`.

### Reconcile, ImmediateHydration and Hydration

`Reconcile` is `reconcileHydrationValue`: what one write makes of a hydrated store
under each policy. A value is the set of its keys, every write brings a key of
its own, and so a merge is a union and drift is inequality. `Hydration` is
`hydrateStores`, the boot window with its queue of deferred writes, the control and the
timer that close it, the asynchronous load of persisted stores, and the stores' notifications.
`applyFeatureState` itself does not notify: sync's channel does when it has applied a message
(`AcceptSync`, `features/sync/channel.ts:294`), persistence does not when it has applied a load
(`LoadPersisted`, `features/persist/load.ts:281`), and neither does the replay of either.
`unannounced` has the stores this leaves behind, until their next notification. `loading` has
the stores with a load under way that would be applied if it ended now: persistence
compares `updateCount` with what it was when the load began (`features/persist.ts:110`), and every
committed write counts, at once or when it is replayed.

`ImmediateHydration` has no window and applies every write when it is made, and a load only while
nothing has overtaken it. `Hydration` implements it, with the store the queue would leave as
refinement mapping (`Replay(state, queue)`); there a store with a deferred write has no load under
way. The ghost `loaded` says which loads were applied, so that the abstract module can
tell a load from any other write.

### Computed

Creation, recomputation, invalidation, teardown and disposal of computed stores, with
the dependency graph and the topological order flushes deliver in. `TakeName` and
`RunCallback` are the inline delivery of a flush, with the application between any two
callbacks. A compute function is any function of what the dependencies hold (`Output`; the run
uses parities, so that a diamond may return to an output it had), and may throw. `Cells` is what
a recomputation reads and writes, so that the subscribers of a deleted store, which are told one
after the other within one step (`Told`), are the same recomputation. `recomputed` is
`computedFlushHistory`.

### RequestScope

`createStoreForRequest`: `carrier[h]` is the clone of the buffer a hydrate runs on,
`memo` the entry of `memoizedCarrierByRegistry`, which decides where any operation of
the request finds its values. A hydrate goes through `phase`: rendering, settling
(rendered, notifications still due), idle (`waitForNotificationIdle` resolved), synced
(buffer filled), left (`activeHydrateDepth` down), done (carrier put away); a
synchronous one ends in one step after its drain. Bound callbacks, detached
continuations and subscribers of flushes write in between. `owed` is a ghost: what the
request made of each store.

### PathWrite

One store, and a write up to its commit: `WritePath`, `Merge` and `Replace` are what
`setStore` and `replaceStore` do until middleware runs; `writing` holds the value they
came to; `Override`, `MiddlewareReplaces` and `Abort` are middleware, `ShortCircuit` and
`FinishWrite` the rest of the write. `verdicts` are those in the tree of paths and `lru`
is the list that bounds them. A value is a type with its content, of depth two; a path
has one or two keys.

### Selection

One component that shows a selection of one store, and one memoised selector. `phase`
and `listening` follow the component from its first rendering to its effects and its
unmounting; `cache` is `selectorCache`, `prevSel` the previous selection of its
subscription. React is what `useSyncExternalStore` documents: it compares the snapshot
after subscribing and at each notification, and renders when it may. `task` is the state
a flush has captured. An object has an identity, so that equal contents may be different
objects; a selector tests one path and reads another that depends on the test.

## Runs

| Run | Bounds | Shows |
|---|---|---|
| `flush` | 2 stores (one in `priorityStores`, one computed from the other), 2 subscribers, 2 chunked flights, 1 callback per chunk, 3 writes | `NoLostNotification`, `FlushArmed`, `ChunkedSnapshotIsCurrent` |
| `flush_live` | 1 store, 2 subscribers, 2 flights, 2 callbacks per chunk, 4 writes | `EventuallyDelivered` |
| `batch` | 2 stores, nesting 2, 3 frames, 5 writes | `NoStrandedNotification` (with `GateBalanced`), `BatchAtomic` (the refinement) |
| `fetch` | 2 slots, 2 requests, 1 retry | `NoAnswerAcrossDeletion`, `InflightIsUnsettled`, `StaleAnswersIgnored`, `LoadingEnds` (with `LoadingHasRequest`) |
| `slots` | a store with 2 slots and one whose slot looks like its, 2 requests at a time, 2 versions, room for 1 cached entry and 1 slot in flight per store, pruning after 2 answers | `SlotsTypeOK` (with the limits), `IndexComplete`, `DeletionIsExact` (with `NothingLeaks`) |
| `sync` | 3 tabs, 3 writes, 1 snapshot request besides those of set-up, messages dropped or rejected, a resolver | `Converged` (with `VersionIdentifiesValue`), `NoRollback` |
| `persist` | 4 writes, 3 creations, 2 page hides, failures | `SavedWhenIdle` (a hidden page too), `NeverGoesBack` (a load neither), `SavedEventually` |
| `hydration` | 2 stores (merging fails in one), one of them persisted, 4 keys: writes, loads, creations and snapshots together | `PolicyHolds`, `SubscribersCaughtUp`, `AsIfImmediate` (the refinement) |
| `computed` | 2 plain and 3 computed stores (2 with `autoDispose`), 5 sets of dependencies, 4 calls | `ConsistentWhenIdle`, `Settles` |
| `requests` | 2 stores, 2 hydrates, 4 writes | `CaptureIsCurrent`, `QueueFinalized`, `Scrubbed` |
| `selection` | 7 states of two fields (leaves and 3 objects), 6 selectors, an equality that is coarser than identity | `ShownIsCurrent`, `MemoIsFresh` |
| `paths` | 4 values to create or replace with (objects, an array), 6 path writes of numbers and objects, 2 verdicts kept | `CacheIsFresh`, `PathWriteIsLocal` |

Why the bounds are enough for the cases that matter. *Flush*: two stores make a
name ahead of the iterator and one behind it, a priority and an ordinary task,
and a computed store ordered after its source; one callback per chunk puts a
timer between any two callbacks; two flights let flushes overlap; three writes
let a store change before, during and after a slice. `flush_live` has slices of two,
so that a callback returns into the same slice. *Batch*: two stores are needed
for a hook to interfere with a commit that is still queued; nesting 2 and three
frames allow a batch inside a hook inside a batch; five writes cover a write
staged in each and one in a hook. *Fetch*: two requests are superseded,
answered out of order or separated by a deletion; two slots make pruning and
cross-slot writes possible; one retry separates a first attempt from a last one.
With three requests and no retry the
safety properties hold as well. *Slots*: one of a store's two slots always
exceeds the limits; two requests under way let one slot's pruning hit the other's request,
and old and new requests of a store that was deleted meet. *Sync*: of three tabs one can relay what another wrote, or open late; three writes
collide in their clocks and are followed by one. *Persist*: four writes fill every
stage of the chain (sent, waiting, timed) and leave one; three creations allow a
deletion and a reload, in either order. *Hydration*: four keys are a snapshot, two deferred writes of
different stores and kinds, and a second snapshot; or a snapshot that creates the persisted store,
its load, deferred, a write behind it and one after the replay. *Computed*: the definitions give a
chain, a diamond (`1`, `11` and `12` above it) and a cycle when re-created; four calls
build two computed stores, change a source and disturb the flush. *Requests*: the
second hydrate inherits what the first left. *Selection*: the states differ in a field, in
an object's identity only, in its content, and in where the object is; the selectors test and
return leaves and objects. *Paths*: the writes name an existing key, a missing one, one
below an object, an array or nothing, of the type there or another; six pairs of path and
type do not fit in a cache of two.

`flush` and `slots` use symmetry (subscribers and flights, and requests, are
interchangeable there and no liveness is checked); the others
do not. In `sync`, `persist`, `hydration`, `computed` and `requests` the bounds
let the program stop (no writes, keys or calls are left), so these disable the
deadlock check; in the others every state has a successor.

### What the properties do not survive

The runs check their properties with some constants FALSE. Each such constant
switches on something the code allows, and TLC finds the property violated when it is
TRUE (or, for "none", when the named property is added to the cfg; `SlotsOf` is a function,
and the row says for which):

| Constant | Violates | What the code does |
|---|---|---|
| `NotifyFlush!DeleteInInline` | `NoLostNotification` | `deleteExistingStore` splices the array the inline flush iterates; the next name is skipped (`internals/store-admin.ts:222`) |
| `NotifyFlush!ReuseInFlight` | `ChunkedSnapshotIsCurrent` | `updateCount` restarts when a store is created again; a stale chunk looks current (`notification/delivery.ts:198`) |
| none | `NotifyFlush!NoDeliveryAfterDelete` | without metadata the version check falls back to the captured version; delivery goes on after a deletion |
| none | `StoreBatch!WritesNeverThrow` | the rollback restores a value whose metadata a hook deleted (`core/store-transaction.ts:137`) |
| none | `AsyncFetch!StaleRequestsIgnored` | the outer catch handler does not ask whether its request is current, where every other path of a request does (`async/fetch/fetch-store.ts:438` says "stale, ignore"): a superseded request that times out, or whose factory throws on a retry, replaces the newer one's state with its error (`async/fetch/fetch-store.ts:529`) |
| none | `AsyncFetch!LoadingHasRequest` without `irregular = {}` | see [Not modelled](#not-modelled) |
| none | `AsyncFetch!StaleAnswersIgnored` without its premise | with four requests: pruning a slot in use restarts its versions, the next request gets the number of an older one, and the older one's answer is cached as current (`async/cache.ts:390`) |
| `AsyncSlots!DeleteWhileShowing` | `DeletionIsExact` | a hook of the write that shows a cached entry deletes the store, and the call goes on: the version sequence and the rate window of a store that is gone stay (`async/fetch/fetch-store.ts:260`) |
| `AsyncSlots!SlotsOf` (two stores with a slot in common) | `IndexComplete`, `SlotsTypeOK` (the limits) | a store named `user:1` and `fetchStore("user", ..., { cacheKey: "1" })` have one slot, and share versions, cached data and in-flight requests (`async/fetch/fetch-store.ts:128`) |
| `TabSync!Crowded` | `Converged` | with three tabs, whoever answers a request stamps itself as source of another tab's write (`features/sync/channel.ts:216`): two sources for one clock and value, and ties are broken differently |
| `TabSync!Recreate` | `Converged` | the clock restarts with a deletion: a write before it and one after it have one clock and source, and a tab that took the first ignores the second (`features/sync/resources.ts:40`) |
| `TabSync!Resolver` with four tabs | `Converged` | a resolver makes values while a snapshot is asked for; a tab that accepted another resolver's value of the same clock answers with it as its own (`features/sync/channel.ts:216`) |
| `Persist!HideWhileLoading` | `NeverGoesBack` | the page-hide flush does not look at the load state: the initial value replaces the saved one (`features/persist.ts:226`) |
| `Persist!HideAgain` | `SavedWhenIdle` (its part about hidden pages) | the listeners remove themselves (`features/persist.ts:225`) |
| `Persist!RecreateBusy` | `SavedWhenIdle` | the sequence restarts with a deletion, and an old save lands over the new store's (`features/persist/save.ts:116`) |
| `Hydration!HydrateAgain` | `AsIfImmediate` | a second snapshot loses to the first baseline under `server_wins` and `merge`, and drops deferred writes of stores it does not name |
| `Hydration!RejectedSnapshots` | `Hydration!RefusedStaysOut` | a snapshot that `validate` refused becomes the baseline all the same; the next write, resolved to it and refused, falls back to it and commits it (`core/hydration-consistency/reconcile.ts:124`), where `docs/STROID_CORE/INDEX.md:339` says an invalid write is rejected; with the property added |
| `Hydration!LoadBehindWrites` | `AsIfImmediate` | a write that the boot window defers does not count in `updateCount` before it is replayed: a load that ends meanwhile is taken for the newer of the two, is queued behind the write, and its older value wins (`features/persist.ts:113`) |
| none | `Hydration!SubscribersToldAll` | `applyFeatureState` does not notify (`core/store-lifecycle/registry.ts:251`), and only sync's channel does after it: the value persistence loads is set without telling anybody (`features/persist/load.ts:281`), and so is a message of another tab when the boot window deferred it |
| `Computed!DirectWrites`, `RolledBack` | `ConsistentWhenIdle` | the output remembered by the closure suppresses the store write (`computed/index.ts:208`) |
| `Computed!RecreateCalled` | `ConsistentWhenIdle` | a callback captured before the store was created anew stores what the old function gives |
| `RequestScope!Overlap` | `CaptureIsCurrent` | the carrier is saved and restored per hydrate; overlapping ones do not end in reverse order (`server/index.ts:60`) |
| `RequestScope!LateCalls` | `CaptureIsCurrent` | a bound callback is accepted after the buffer was filled (`server/index.ts:226`) |
| `RequestScope!SyncInFlush` | `QueueFinalized` | a synchronous hydrate does not drain while a chunked flush is under way, against `docs/STROID_SERVER/INDEX.md:482` |
| `RequestScope!BoundOutlives` | `TypeOK` (the memo) | an asynchronous bound callback that settles late puts an old carrier back (`server/index.ts:62`) |
| `PathWrite!StagedPaths` | `CacheIsFresh`, `PathWriteIsLocal` | a path written onto a staged value is judged by it, and the verdict stays when the batch fails (`core/store-lifecycle/validation.ts:162`) |
| `PathWrite!MiddlewareCalls` | `PathWriteIsLocal` | what middleware writes to the store is undone by the write it was called for (`core/store-set-impl.ts:272`) |
| `PathWrite!CacheSize = 0` | `TypeOK` (the size) | without a list nothing is ever evicted from the tree (`core/store-lifecycle/validation.ts:95`) |
| `Selection!NewSelectors` | `ShownIsCurrent` | the subscription is not made anew when the selector changes: it compares with what the old one gave (`react/hooks-core.ts:216`), where `docs/STROID_REACT/INDEX.md:146` calls it correct and stable |
| `Selection!EarlyRenders`, `OldSnapshots` | `ShownIsCurrent` | a rendering between a write and its notification, or a state that another subscriber has replaced, makes what is shown differ from what the subscription compares with (`selectors/index.ts:329`) |
| `Selection!Deletes` | `ShownIsCurrent` | subscribers are called with null while the value is still there, and dropped (`internals/store-admin.ts:173`) |
| `Selection!Similar` (an equality that is not transitive) | `ShownIsCurrent` | each change is compared with the selection before it, not with what is shown: several small ones, each equal enough to the last, are never shown (`selectors/index.ts:329`) |
| `Selection!ObjectTests` | `MemoIsFresh` | reading an object records no dependency (`selectors/index.ts:177`) |

Three more that no constant is needed for: `pathCreate` makes a missing last key only
(`core/store-lifecycle/validation.ts:227`), where `docs/STROID_CORE/INDEX.md:200` shows it
making missing intermediates; a computed store of a diamond may be
computed once from old and new sources, and is corrected by the next flush, where
`docs/STROID_COMPUTED/INDEX.md:186` promises fresh upstream values before it runs
(`ConsistentWhenIdle` therefore speaks of idle states); and a computed store whose dependency
was deleted is not subscribed to the store created under that name later
(`internals/store-admin.ts:180`), which `Attached` excepts.

## Fairness

`NotifyFlush!FairSpec`: the event loop runs each queued microtask and timer, and
synchronous code on the stack continues (callbacks return). Nothing is assumed of
application code: it need not write, subscribe or drain. `FairSpec` of
`AsyncFetch`: the 60 second timer fires, a retry delay ends, promise handlers run.
Nothing is assumed of the network or the caller, which is why `LoadingEnds`
excepts a request with a caller's signal: it has no timeout, and only its caller can end it.

`Persist`: timers fire, the driver and the encryption answer (a driver that never does
blocks the chain). `Computed`: a flush and a deletion under way go on. `RequestScope`: microtasks and timers run and
synchronous rendering returns; a promise the rendering returned need not settle, and
`Scrubbed` starts when it has. The other modules state no liveness.

## Proofs

`NotifyFlush_proofs` proves, for all sets of stores, subscribers and flights, any
priorities, computed order, chunk size and bound on writes, under
`PipelineAssumption` (the types of the constants):

| Theorem | Statement | Further assumptions |
|---|---|---|
| `TypeCorrect` | `Spec => []TypeOK` | none |
| `AlwaysArmed` | `Spec => []FlushArmed` | none |
| `NoNotificationLost` | `Spec => []NoLostNotification` | `~DeleteInInline`, `~ReuseInFlight` |
| `ChunksAreCurrent` | `Spec => []ChunkedSnapshotIsCurrent` | the same |

`FlushArmed` is inductive together with the types. `NoLostNotification` is not: that a
queued task brings the committed value rests on the version check, so the
inductive invariant `IInv` adds

- `VersionIdentifiesSnapshot`: a captured version is never ahead of the store's,
  and while the two agree the captured snapshot is the committed value;
- `LateSubscribersCurrent`: a subscriber that came after an inline flush captured
  its store read the committed value itself, and still holds it unless the version moved;
- `DeliversCurrentVersion`: a chunk calls subscribers only while its version is current.

The two assumptions are where each conjunct breaks: deletion in an inline flush
moves names behind the iterator, and a name used again restarts `updateCount`, so
that the version no longer identifies the snapshot. TLC finds a counterexample without
either, so neither can be dropped. The proof follows the actions: `AppKeeps`
for store operations, `PipelineKeeps` for the flush itself, each with a step per
action; `NextVersion`, `NextDelivers` and `NextLate` do the same for the other conjuncts.

The second part of `NotifyFlush_proofs` is about what the subscribers select. It proves, for any
states, selectors and equality function that make `SelectionAssumption` true:

| Theorem | Statement | Further assumptions |
|---|---|---|
| `SelectionTypes` | `SelSpec => []SelTypeOK` | none |
| `MemosAreFresh` | `SelSpec => []MemoIsFresh` | `~ObjectTests` |
| `SelectionsAreCurrent` | `SelSpec => []ShownIsCurrent` | `Orderly`: `~NewSelectors`, `~EarlyRenders`, `~OldSnapshots`, `~Deletes`, `Transitive` |

A memo `Fits` when its result is that of its last run, and its dependencies are those of a run with
the same result: a run records what it read on the branch it took, and while none of that
changed the function takes the branch again. Testing an object records nothing, hence `~ObjectTests`.
A component is current through `Flushing` (a flush holds the committed state, or the store is
pending again), `CacheFits` (what is cached is of the selector and the state named beside it, and what is
shown is what is cached) and `Told` (what the subscription compares with is what is cached). `Told`
is where each of the first four assumptions is used; `Transitive` is needed because what was
delivered last, what is cached and what is selected are each only equal to the next.

(A module with proofs extends what it is about, and `NotifyFlush`, `RequestScope` and `AsyncFetch` share theirs
with `Selection`, `AsyncSlots` and `Computed`: the specifications of these three are therefore called `SelSpec`,
`SlotsSpec` and `ComputedSpec`, their types `SelTypeOK`, `SlotsTypeOK` and `ComputedTypeOK`.)

`AsyncFetch_proofs` proves, for any cache slots, any number of requests and any number
of retries, under `FetchAssumption` (the types of the constants):

| Theorem | Statement | Further assumptions |
|---|---|---|
| `TypeCorrect` | `Spec => []TypeOK` | none |
| `InflightEntriesAreLive` | `Spec => []InflightIsUnsettled` | none |
| `NothingCrossesDeletion` | `Spec => []NoAnswerAcrossDeletion` | none |
| `AnswersInOrder` | `Spec => StaleAnswersIgnored` | none |

`InflightIsUnsettled` is inductive with the types. `NoAnswerAcrossDeletion` is not: it
rests on which answers may still be used. A request is `Fresh` while it is neither done
nor aborted, and no step makes one fresh again (`OwnRecord`). The inductive invariant
`AnswerInv` adds

- `DecidedIsOver`: a promise is decided only by a request that is done, or aborted by the
  timeout. So `deleteStore`, which aborts what is not settled, leaves no fresh request;
- `DeletedIsOver`: while the store is gone there is none, and none is as old as its
  last creation. So an answer that is used is younger than the store;
- `VersionsAreOrdered`: a fresh request's version is not ahead of its slot's sequence, and
  is current only if no request of the slot is younger, until a pruning hits a slot in use.
  Starting a request takes a version that no fresh one has.

The proof has a lemma for each kind of step: those of no request, the start of one
(`StartKeepsAnswers`), those that cache nothing (`QuietStepKeepsAnswers`), the answer that is
cached (`AnswerKeepsAnswers`) and the deletion. Only `Answer` caches anything, and only when the request is
fresh and current, which with `VersionsAreOrdered` gives `AnswersInOrder`.

The second part of `AsyncFetch_proofs` is about computed stores. It proves, for any finite sets of
plain and computed stores, any dependencies, values and compute functions, and any number of calls, under
`ComputedAssumption`:

| Theorem | Statement | Further assumptions |
|---|---|---|
| `ComputedTypes` | `ComputedSpec => []ComputedTypeOK` | none |
| `ComputedConverge` | `ComputedSpec => []ConsistentWhenIdle` | `Undisturbed`: `~DirectWrites`, `~RolledBack`, `~RecreateCalled` |

`ComputedTypeOK` says that no store depends on itself through others. What `detectCycle` walks is a
set closed under dependencies (`UpstreamIs`: the recursion gives the least one, because names are
finite), so `NoCycle` is stated with a closed set that leaves the store out. A store created anew changes the
graph under the stores above it: `NewNoCycle` makes their closed sets from the old ones and the one that
`detectCycle` walked. A flush delivers every store once, and only stores that exist (`FlushOK`), which rests on
what the topological sort returns (`TopoOrderIs`). `Kept` is `NoOrphans` for the stores that a deletion
does not have still to look at.

`ConsistentInv` says where work that is left is to be found: a computed store that does not hold
what its function gives has a dependency that is pending, or is `Due`: its callback is captured, or
a dependency of it is still to be delivered, and this flush has not recomputed it yet (`Fine`). A store that was
recomputed too early in a diamond is not due any more; then what it was computed from was stored
later, and is pending. `RecomputeFine` is that one recomputation, wherever it runs, keeps this, and
`ToldIs` that a row of them does. It needs that a store holds the last output its closure remembers,
which `~DirectWrites` and `~RolledBack` give, and that a captured callback is of the entry that is there
(`CallbacksOK`), which `~RecreateCalled` gives. The table of
[what the properties do not survive](#what-the-properties-do-not-survive) has what happens otherwise.
That the values agree does not depend on the order of delivery or on the graph being without cycles;
that recomputation ends (`Settles`) does, and is model-checked.

`StoreBatch_proofs` proves, for any stores, any nesting of batches and of hooks, and any number
of writes, under `BatchAssumption`:

| Theorem | Statement | Further assumptions |
|---|---|---|
| `TypeCorrect` | `Spec => []TypeOK` | none |
| `NothingStranded` | `Spec => []NoStrandedNotification` | none |
| `BatchesAreAtomic` | `Spec => BatchAtomic` (the refinement of `AtomicBatch`) | none |

Not even the types are inductive: that `batchDepth` stays a number rests on its being the
number of batches open or committing (`GateBalanced`), and that on the shape of the stack
(`Stack`: every batch that commits, but the one on top, is in the hook of its queue's head).
`Base` is the three together. The refinement needs to know what the program holds
half-way through a commit, when hooks write, delete and create, open batches of their own and have
those rolled back to a state in which the outer batch was half applied. `HalfApplied` says of the
stores, and of every snapshot a nested batch may yet restore, that they hold what the
outermost batch has applied so far, or what is newer (`Kept`); `Bounded` orders
"newer" by stamps, and `Registered` says that the commit functions of a batch
end with the values it staged. `AtomicBatch` moves when the outermost batch is over, and for
everything before it stutters.

`Hydration_proofs` proves, for any stores, any number of writes and any queue of deferred ones,
under `HydrationAssumption` and `ReconcileAssumption`:

| Theorem | Statement | Further assumptions |
|---|---|---|
| `TypeCorrect` | `Spec => []TypeOK` | none |
| `NobodyLeftBehind` | `Spec => []SubscribersCaughtUp` | none |
| `PoliciesHold` | `Spec => []PolicyHolds` | `~HydrateAgain`, `~RejectedSnapshots` |
| `DeferringOnlyDelays` | `Spec => AsIfImmediate` (the refinement of `ImmediateHydration`) | the same, and `~LoadBehindWrites` |

`SubscribersCaughtUp` excepts the stores that the code sets without notifying (`unannounced`), and
the theorem says that there are no others: `FlushMarks` and `Takes` have, for a replay and for one
write, that a value which changes leaves its store dirty or in that set. The types are inductive
with what the queue holds: writes of stores that exist and are hydrated. `PolicyHolds` is inductive
only with the stores that do not exist (`NoLeftovers`): `createStore` gives a store a value an entry
left over would know nothing of. What the queue makes of the stores is defined by recursion on it
(`Replay`, `KeepOther`); the lemmas say what one more write at its end changes, that dropping one
store's writes changes that store alone (`DroppingIsLocal`), and that a replay changes only stores
that the queue is about (`ReplayIsLocal`). In the refinement a step that applies or defers a write
is the abstract `DoWrite`, and of a load the abstract `Load` (`Taking` is what they share), one that
hydrates is the abstract one, and a flush, which replays the queue, is a stutter. `Load` needs a
load that no deferred write has overtaken (`~LoadBehindWrites`). A second snapshot drops deferred
writes (`~HydrateAgain`), a refused one becomes a baseline its store does not hold
(`~RejectedSnapshots`); with either TLC finds a counterexample.

`RequestScope_proofs` proves, for any stores and any number of hydrates and writes, under
`RequestAssumption`:

| Theorem | Statement | Further assumptions |
|---|---|---|
| `TypeCorrect` | `Spec => []TypeOK` | `OnePerTurn` |
| `CapturesAreCurrent` | `Spec => []CaptureIsCurrent` | the same |
| `NothingLeftQueued` | `Spec => []QueueFinalized` | the same |

`OnePerTurn` is the use the run checks: `~Overlap`, `~LateCalls`, `~SyncInFlush` and
`~BoundOutlives`. The table of [what the properties do not survive](#what-the-properties-do-not-survive)
has a counterexample for each. The invariant says where the request's values are: on the
carrier of the one hydrate that is not over (`KeptWhileBusy`, `NothingToRestore`; here
overlapping hydrates and outliving callbacks are excluded), until the buffer is filled from it, and in the
buffer from then on, which is as long as nobody writes in between (`~LateCalls`) and the carrier is not
cleared too early (`ClearedLate`). `ShownIsOwed` is that they are what the request made of the
stores; its second part, that a store that exists was given something, keeps the registry's
own values from showing through a carrier. `NothingDue` is that a hydrate which found
its notifications idle owes none: for a synchronous one because no chunked flush runs beside it
(`NoFlushBeside`, from `~SyncInFlush`).

The second part of `RequestScope_proofs` is about the tables that the registry of a request, or of
the process, keeps for asynchronous calls. It proves, for any stores, slots, limits, pruning interval
and number of requests, under `SlotsAssumption`:

| Theorem | Statement | Further assumptions |
|---|---|---|
| `SlotTypes` | `SlotsSpec => []SlotsTypeOK` | `Apart` |
| `IndexLosesNothing` | `SlotsSpec => []IndexComplete` | `Apart` |
| `DeletionsAreExact` | `SlotsSpec => DeletionIsExact` | `Apart`, `~DeleteWhileShowing` |

`Apart` is that no two stores have a slot in common; slots that merely look alike are allowed. The index is complete
because every step changes the tables and the index by one of two rules: what is released is
referenced no more when its owner is cleared (`FreeingCompletes`), and what is newly referenced is
tracked (`TrackingCompletes`). That needs `Owned`: a slot's owner is a store that uses it. The
limits are about a store's slots, while the code counts those in the index; the two are the same sets once the index is
complete (`OwnIs`). A request is counted when its call begins and is in flight only some steps later: `Room` says
that there is still place for it then, as nothing else may start meanwhile. After an answer a store has no more
than `MaxSlots` cached slots, either because it tracks no more, or because pruning dropped the
oldest (`AnswerIs`). Deletion is exact by `DeleteIs` (the slots that go are in the index, so the scan by
name finds nothing more) and `Gone`: of a store that is gone only its requests' entries in flight are left, and an answer
for it is not cached, because its version went with the store.

`PathWrite_proofs` proves, for any values, paths and cache size, under `PathWriteAssumption` and
`InputAssumption` (what is written and created are values):

| Theorem | Statement | Further assumptions |
|---|---|---|
| `TypeCorrect` | `Spec => []TypeOK` | `CacheSize > 0` |
| `VerdictsAreFresh` | `Spec => []CacheIsFresh` | `~StagedPaths` |
| `PathWritesAreLocal` | `Spec => PathWriteIsLocal` | `~StagedPaths`, `~MiddlewareCalls` |

`TypeOK` falls into `Life`, which is inductive, and `Cached`: the list holds each key once, so that deleting
a key anywhere in it (`WithoutIs`) and dropping its head leave the list and the tree with the same keys (`Touching`).
`CacheIsFresh` is inductive by itself: every commit empties the cache, staging leaves
the value and the cache alone (`StageOrCommitKeepsFresh`), and a path write enters the
verdict it got, which is that of the committed value as long as nothing is staged
(`TouchKeepsFresh`; evicting a key only removes a verdict). That last step is where
`~StagedPaths` is used, and the only one. `PathWriteIsLocal` rests on `CacheIsFresh`: while a path write waits for
its middleware (`Waiting`), what it is to store is its value put into the committed value at
its path, and its verdict, cached or not, is about that value; nothing else writes the store meanwhile,
which is where `~MiddlewareCalls` is used. What putting a value at such a path changes is
`SetIsLocal`, for values whose containers are well formed down to the depth of a path (`Deeply`).

`TabSync_proofs` proves, for any tabs and any number of writes and requests, under
`SyncAssumption` alone:

| Theorem | Statement | Further assumptions |
|---|---|---|
| `TypeCorrect` | `Spec => []TypeOK` | none |
| `NeverRolledBack` | `Spec => NoRollback` | none |
| `TabsConverge` | `Spec => []Converged` | `Orderly`: `~Crowded`, `~Recreate`, and with a resolver two tabs |

A version does not stand for one value once three tabs write: whoever answers a
request is its source. What every value does have is one clock, its age: the invariant is that there is a
function from values to ages (`Ages`) such that every open tab's clock is the age of its
value, every message carries its value's age, and a value is younger than all it replaced.
Accepting never takes a smaller clock, so a value that the tab's own replaced, which is strictly
older, is never accepted; a write or a resolver's value extends the function by one that is younger
than all it was made of (`Replacing`). A closed tab's clock is 0 and nothing is on its way to it
(`ClosedIsEmpty`): without that a message of the store before a deletion would meet the clock of the one after.

`Converged` needs to know where every version is, and on the way to whom. As the order of a channel does not
matter to it, the wire is read as a set (`Sent`, with `PostSends` and `DeliverTakes`), and all
actions but creation and deletion become one description (`Moves`: who kept, wrote or took a version,
what was sent, what was taken off the wire and why). `ConvergenceInv` has two regimes. With two tabs (`Pairs`)
a version of a tab's own clock and name stands for its value, wherever it is held or would still be
accepted; and unless it was suppressed or dropped, the other tab has it, will receive it or asks
for it. A version under the name of the other tab may stand for two values, but no longer matters. With more tabs
(`Phases`) every version stands for one value (`Uniform`). While a snapshot is asked for all tabs have one
value already, but for one that opened (`AskFacts`), so relabelled answers do no harm; between
snapshots all start from one value and what is written reaches every tab (`WriteFacts`). The step from the first
regime to the second, the opening of a third tab, starts at rest, which is what `~Crowded`
says. The run of `sync` has a resolver and three tabs, where `Converged` is only model-checked; the theorem covers
any number of tabs without a resolver, and two with one.

`Persist_proofs` proves, for any number of writes, creations and page hides, a slow or a
synchronous driver, with and without failures, under `PersistAssumption` (the types of the constants):

| Theorem | Statement | Further assumptions |
|---|---|---|
| `TypeCorrect` | `Spec => []TypeOK` | none |
| `NewerWins` | `Spec => NeverGoesBack` | `Undisturbed`: `~HideWhileLoading`, `~RecreateBusy` |
| `IdleIsSaved` | `Spec => []SavedWhenIdle` | `Undisturbed`, `~HideAgain` |

`TypeOK` says that a timer that fired is that of a write under way; it is inductive with
`OneTimer` (at most one write has it: whatever sets a timer supersedes the one before). `SaveInv` has five parts:

- `Chain`: the writes under way are all of the store that is there, the first acts and the others
  wait, and only the last carries the current sequence number. So what a write that ended or was
  dropped leaves behind is again a chain, and the write that acts is wanted only when it is the last;
- `LoadFirst`: while a load is under way nothing is saved, the key keeps what the load read, and
  the store is untouched unless a save is pending (`~HideWhileLoading` is used here: the flush of a page hide
  would start a save);
- `Ordered`: the key is not newer than any payload under way, and no payload newer than the store;
- `NothingForgotten`: without a due timer the last write stores the store's value, or it is
  stored, or the last `setItem` failed, or the load was rejected;
- `HiddenIsSaved`: after a page hide no timer is due until the store changes.

`~RecreateBusy` is what makes `Chain` hold: deletion restarts the sequence, and a
write of the store before would be the latest again. Without `~HideAgain` only the part of
`SavedWhenIdle` about hidden pages fails.

Only model-checked: liveness (`EventuallyDelivered`, `LoadingEnds`, `SavedEventually`, `Settles`,
`Scrubbed`), which is out of TLAPS's reach. The library's induction theorems take an
operator as a parameter, which the installed provers cannot instantiate. What is needed of
induction is stated of sets instead: a set of naturals that holds 0 and with a number
its successor holds them all (`Counting`), and the same for sequences (`Extending`), both
from the well-foundedness of the order of naturals, so that the functions defined by recursion on a
queue can be reasoned about.

## Not modelled

In the modelled components:

- *Notification*: with `snapshotSafety: "throw"` a subscriber's mutation error leaves
  `deliverFlush` before `finish`; the warning path for mutations; a drain called
  from inside a callback; the order of Sets; the `null` that
  `deleteStore` sends to subscribers is given within its step, and what those callbacks do
  comes after it; the snapshot cache, which is checked by source identity; metrics.
- *Batches*: runtime patches, previews, metrics and correlation ids; lazy stores;
  middleware, which is in `PathWrite`.
- *Fetch*: `stateAdapter` (application code decides what is written), what the
  `onSuccess` and `onError` hooks do, callbacks that fetch within a call, counts and times of
  rate windows (choices), focus and online listeners with their timers, hydration that
  defers the writes, environments without `AbortController`.
  `LoadingEnds` is claimed until something irregular happens (the ghost of that name), because the code then leaves
  `loading` set, or may: a stale-while-revalidate call that starts no request and finds
  none that will end it; a factory that returns nothing that can be fetched; a store created
  again before its old requests are over (versions restart, and an old request clears the
  new one's); pruning that hits a slot in use (its request loses its version, and its
  answer is ignored). `loading` is also set during a stale-while-revalidate
  refresh (`async/fetch/fetch-store.ts:262`), where
  `docs/STROID_ASYNC/INDEX.md:331` says it is false; no property is about that.
- *Slots*: the second run of the clean-ups by `afterStoreDelete` (it finds nothing, unless a
  hook has created the store again), the recipes that refetching uses (`fetchRegistry`; that of
  a store deleted within its own call survives it), the bounded sets of warnings given, and
  several registries: the timer of a request's registry releases slots in the one that is
  active when it fires (`async/rate.ts:28`). The sequence of a slot whose requests
  never succeed is pruned by nobody (`async/cache.ts:394`), so no bound on sequences is claimed.
  Also by reading only: a stop function of focus revalidation takes the registration of a newer
  handler of its key (`async/fetch/revalidate.ts:179`), and `maxConcurrent` bounds how many
  refetches start at once without waiting for them (`async/fetch/revalidate.ts:124`), where
  `docs/STROID_ASYNC/INDEX.md:445` speaks of stores revalidating simultaneously.

- *Tab sync*: signatures and checksums (a rejection is a choice), a boot window that defers an
  incoming state after its clock was accepted (`features/sync/channel.ts:281`).
- *Persistence*: storage events and the guards against other tabs, migrations, a driver
  that never answers, a `removeItem` that is slow.
- *Hydration*: a load that ends within `createStore`, because its driver, decryption and checksum
  are synchronous (the store then starts with the loaded value, over a snapshot that creates it
  too), the load of a store that was deleted meanwhile (`Persist!RecreateBusy`), the saves
  (`Persist`), the trust gate, `deferSources` other than the default, calls inside `setStoreBatch`
  (a staged write is reconciled when it is staged, `core/store-write-shared.ts:151`), a replayed
  write that throws (the rest of the queue is lost, `core/hydration-consistency/state.ts:273`),
  drift events.
- *Computed*: an output that `replaceStore` does not store, because `sanitize`, `validate` or
  middleware refuses it or a boot window defers it: the closure remembers the output before it calls
  `replaceStore` and does not look at the result (`computed/index.ts:211`, and `:145` when a store
  is created anew), so that the same output later is taken for stored, and the store keeps the older
  one. `ConsistentWhenIdle` is about outputs that are accepted; the cache of topological orders,
  which is global and keyed by names only (`computed/computed-graph.ts:35`), nodes and edges for
  devtools, `onError` callbacks that call the library, deletion within a flush.
- *Path writes*: what `sanitize` and schemas refuse (a refusal is a choice), Maps, Sets and
  dates, lazy stores, a write of a hook whose batch is then rolled back (its verdicts
  stay too), a configuration that changes.
- *Selections*: several stores or components, selectors that write, deep-cloned snapshots
  (they only add deliveries), suspense, forms and the async hooks.
- *Server requests*: `createRequestScope` of `server/portable.ts`, store options, a
  rendering that throws (it ends as one that returns).

Whole components: see `PROJECT.json` "components" for each and its reason. Options,
helpers, devtools and integrations are sequential transformations or adapters
without a state machine of their own.

## Plan

In order of importance.

1. Callbacks that throw in the notification pipeline.
2. Compositions: `TabSync` with `Hydration`, and `Hydration` with batches.
3. `createRequestScope` of `server/portable.ts`; storage events of other tabs.
4. Proofs: `Converged` for three tabs with a resolver. The other safety and action properties
   that the runs check are proved.
