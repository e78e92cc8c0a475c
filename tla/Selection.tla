------------------------------ MODULE Selection ------------------------------
(***************************************************************************)
(* What is selected from a store: a React component that shows a selection *)
(* (react/hooks-core.ts over selectors/index.ts, subscribeWithSelector)    *)
(* and a memoised selector (createSelector) of the same store.             *)
(*                                                                         *)
(* A state has two fields, a and b.  A field is <<0, leaf>>, or <<id, leaf>>*)
(* for the object `id` whose own field c holds the leaf; a new object has  *)
(* a new id, and one object is in one place (sanitize refuses others).     *)
(* A selector tests one path and reads another that depends on the outcome:*)
(* s => s.a?.c ? s.a : s.b.                                                *)
(***************************************************************************)
EXTENDS Naturals, Sequences

CONSTANTS
  States,         \* the states the store may hold
  Selectors,      \* records [test, yes, no] of paths
  Similar,        \* pairs of results that the equality function finds equal
  NewSelectors,   \* may a component be rendered with another selector?
  EarlyRenders,   \* may it be rendered again before a notification due is delivered?
  OldSnapshots,   \* may it get a state that a subscriber before it has replaced?
  Deletes,        \* may the store be deleted under a subscribed component?
  ObjectTests     \* may the memoised selector test whether there is an object?

Paths == {<<"a">>, <<"b">>, <<"a", "c">>, <<"b", "c">>}

ASSUME SelectionAssumption ==
  /\ States \subseteq [a : Nat \X (0 .. 99), b : Nat \X (0 .. 99)]    \* leaves from 100 on: see below
  /\ \A state \in States : state.a[1] = state.b[1] => state.a[1] = 0
  /\ Selectors \subseteq [test : Paths, yes : Paths, no : Paths]
  /\ \A pair \in Similar : <<pair[2], pair[1]>> \in Similar
  /\ {NewSelectors, EarlyRenders, OldSnapshots, Deletes, ObjectTests} \subseteq BOOLEAN

VARIABLES
  committed,    \* the committed state, or Missing
  pending,      \* the store is in pendingNotifications
  held,         \* the state a flush has captured for the store's subscribers
  captured,     \* the component had subscribed when it was captured
  kind,         \* what the component passes to useStore: a selector or a path
  phase,        \* "absent", "rendered" (effects still to run), "subscribed"
  listening,    \* its callback is in registry.subscribers
  selector,     \* selectorRef.current
  cache,        \* selectorCache
  prevSel,      \* prevSel of its subscription; NoPrev stands for ~hasPrev
  shown,        \* the selection React rendered last
  rerender,     \* React has been told to render it again
  memo          \* the closure of createSelector

storeVars == <<committed, pending>>
flushVars == <<held, captured>>
componentVars == <<phase, listening, selector, cache, prevSel, shown, rerender>>
selVars == <<storeVars, flushVars, kind, componentVars, memo>>

Undefined == <<0, 100>>
Null == <<0, 101>>
Missing == [a |-> Undefined, b |-> Undefined]
NothingHeld == [a |-> Null, b |-> Null]
NoPrev == <<0, 102>>
-----------------------------------------------------------------------------
(* Selectors and their dependencies.                                       *)

IsObject(field) == field[1] # 0
Truthy(field) == IsObject(field) \/ field[2] \notin {0, Undefined[2], Null[2]}

GetByPath(state, path) ==
  IF Len(path) = 1 THEN state[path[1]]
  ELSE IF IsObject(state[path[1]]) THEN <<0, state[path[1]][2]>> ELSE Undefined

Branch(sel, state) == IF Truthy(GetByPath(state, sel.test)) THEN sel.yes ELSE sel.no

Select(sel, state) == GetByPath(state, Branch(sel, state))

\* Reading an object records nothing; reading a leaf records where it was reached.
ReadDeps(state, path) ==
  IF ~IsObject(state[path[1]]) THEN {<<path[1]>>}
  ELSE IF Len(path) = 1 THEN {} ELSE {path}

\* An object that the selector returns is recorded after it has run.
EscapedDeps(sel, state) ==
  IF IsObject(Select(sel, state)) THEN {Branch(sel, state)} ELSE {}

\* Mutant: only what the branch taken reads is recorded.
TrackBranch(sel, state) == ReadDeps(state, Branch(sel, state)) \cup EscapedDeps(sel, state)

TrackSelectorDependencies(sel, state) ==
  ReadDeps(state, sel.test) \cup ReadDeps(state, Branch(sel, state))
    \cup EscapedDeps(sel, state)

SelectorDepsChanged(prev, next, deps) ==
  \E path \in deps : GetByPath(prev, path) # GetByPath(next, path)

\* One call of a memoised selector: what it remembers afterwards.
CreateSelector(m, state) ==
  IF state = m.lastRef THEN m
  ELSE IF m.lastRef # Missing /\ m.lastDeps # {} /\ ~SelectorDepsChanged(m.lastRef, state, m.lastDeps)
  THEN [m EXCEPT !.lastRef = state]
  ELSE [m EXCEPT !.lastRef = state,
                 !.lastDeps = TrackSelectorDependencies(m.fn, state),
                 !.lastResult = Select(m.fn, state)]

TestsObject(sel) == \E state \in States : IsObject(GetByPath(state, sel.test))
-----------------------------------------------------------------------------
(* The component.                                                          *)

Equal(x, y) == x = y \/ <<x, y>> \in Similar
OrNull(field) == IF field = Undefined THEN Null ELSE field

EmptyCache == [hasValue |-> FALSE, snapshot |-> Missing, selector |-> {}, value |-> Null]
Cached(snapshot, sel, result) ==
  [hasValue |-> TRUE, snapshot |-> snapshot, selector |-> {sel}, value |-> result]

ReadSelectorCache(snapshot, sel) ==
  IF snapshot = Missing THEN Cached(snapshot, sel, Null)
  ELSE IF cache.hasValue /\ cache.snapshot = snapshot /\ cache.selector = {sel} THEN cache
  ELSE LET next == Select(sel, snapshot)
       IN Cached(snapshot, sel,
                 IF cache.hasValue /\ Equal(next, cache.value) THEN cache.value ELSE next)

\* A path is not cached.
GetSnapshot(sel) ==
  IF kind = "path" THEN [cache EXCEPT !.value = OrNull(Select(sel, committed))]
                   ELSE ReadSelectorCache(committed, sel)

SelInit ==
  /\ committed \in States \cup {Missing} /\ pending = FALSE
  /\ held = NothingHeld /\ captured = FALSE
  /\ kind \in {"selector", "path"} /\ phase = "absent" /\ listening = FALSE
  /\ selector \in {s \in Selectors : kind = "path" => s.test = s.yes /\ s.yes = s.no}
  /\ cache = EmptyCache /\ prevSel = NoPrev /\ shown = Null /\ rerender = FALSE
  /\ memo \in [fn : {s \in Selectors : ObjectTests \/ ~TestsObject(s)},
               lastRef : {Missing}, lastDeps : {{}}, lastResult : {Null}]

\* React renders and remembers what getSnapshot gave.
Show(sel) ==
  LET read == GetSnapshot(sel) IN
  /\ selector' = sel /\ cache' = read /\ shown' = read.value /\ rerender' = FALSE

Mount ==
  /\ phase = "absent" /\ phase' = "rendered"
  /\ Show(selector)
  /\ UNCHANGED <<storeVars, flushVars, kind, listening, prevSel, memo>>

\* The effects of the first rendering: subscribe, then compare with what is shown.
RunEffects ==
  /\ phase = "rendered" /\ phase' = "subscribed"
  /\ listening' = TRUE
  /\ prevSel' = IF kind = "selector" /\ committed # Missing THEN Select(selector, committed) ELSE NoPrev
  /\ LET read == GetSnapshot(selector) IN cache' = read /\ rerender' = (read.value # shown)
  /\ UNCHANGED <<storeVars, flushVars, kind, selector, shown, memo>>

\* With a selector, only while no notification is due unless EarlyRenders.
MayRender == EarlyRenders \/ kind = "path" \/ (~pending /\ held = NothingHeld)

Rerender ==
  /\ phase = "subscribed" /\ rerender /\ MayRender
  /\ Show(selector)
  /\ UNCHANGED <<storeVars, flushVars, kind, phase, listening, prevSel, memo>>

\* Its parent renders: the selector or the path may be another one.
ParentRenders ==
  /\ phase = "subscribed" /\ MayRender
  /\ \E sel \in Selectors :
       /\ kind = "path" => sel.test = sel.yes /\ sel.yes = sel.no
       /\ NewSelectors \/ kind = "path" \/ sel = selector
       /\ Show(sel)
  /\ UNCHANGED <<storeVars, flushVars, kind, phase, listening, prevSel, memo>>

\* Mutant: unmounting does not unsubscribe.
UnmountOnly ==
  /\ phase = "subscribed" /\ phase' = "absent"
  /\ cache' = EmptyCache /\ prevSel' = NoPrev /\ shown' = Null /\ rerender' = FALSE
  /\ UNCHANGED <<storeVars, flushVars, kind, listening, selector, memo>>

Unmount ==
  /\ phase = "subscribed" /\ phase' = "absent"
  /\ listening' = FALSE /\ cache' = EmptyCache /\ prevSel' = NoPrev
  /\ shown' = Null /\ rerender' = FALSE
  /\ UNCHANGED <<storeVars, flushVars, kind, selector, memo>>
-----------------------------------------------------------------------------
(* The store and its notifications.                                        *)

Write(state) ==
  /\ committed # Missing /\ state # committed
  /\ committed' = state /\ pending' = TRUE
  /\ UNCHANGED <<flushVars, kind, componentVars, memo>>

\* Creating a store notifies subscribers that were there before it.
Create(state) ==
  /\ committed = Missing
  /\ committed' = state /\ pending' = (pending \/ listening)
  /\ UNCHANGED <<flushVars, kind, componentVars, memo>>

\* Subscribers are called with null while the store is still there, and dropped:
\* a selection forgets its previous result, and React sees the value unchanged.
Delete ==
  /\ committed # Missing /\ (Deletes \/ (~listening /\ held = NothingHeld))
  /\ committed' = Missing /\ pending' = FALSE
  /\ listening' = FALSE
  /\ prevSel' = IF listening THEN NoPrev ELSE prevSel
  /\ IF listening /\ kind = "path"
     THEN LET read == GetSnapshot(selector)
          IN cache' = read /\ rerender' = (rerender \/ read.value # shown)
     ELSE UNCHANGED <<cache, rerender>>
  /\ UNCHANGED <<flushVars, kind, phase, selector, shown, memo>>

StartFlush ==
  /\ pending /\ held = NothingHeld
  /\ pending' = FALSE
  /\ IF committed = Missing THEN UNCHANGED flushVars ELSE held' = committed /\ captured' = listening
  /\ UNCHANGED <<committed, kind, componentVars, memo>>

\* handleStoreChange of useSyncExternalStore.
HandleStoreChange ==
  LET read == GetSnapshot(selector) IN
  /\ cache' = read
  /\ rerender' = (rerender \/ read.value # shown)

CallListener(changed) == IF changed THEN HandleStoreChange ELSE UNCHANGED <<cache, rerender>>

EndTask == held' = NothingHeld /\ captured' = FALSE

DeliverToPath ==
  /\ held # NothingHeld /\ listening /\ kind = "path"
  /\ HandleStoreChange /\ EndTask
  /\ UNCHANGED <<storeVars, kind, phase, listening, selector, prevSel, shown, memo>>

\* Mutant: the result compared with is never replaced.
DeliverKeepingFirst ==
  /\ held # NothingHeld /\ listening /\ kind = "selector"
  /\ OldSnapshots \/ ~pending
  /\ CallListener(prevSel = NoPrev \/ ~Equal(Select(selector, held), prevSel))
  /\ EndTask
  /\ UNCHANGED <<storeVars, kind, phase, listening, selector, prevSel, shown, memo>>

\* `wrapped` of subscribeWithSelector, with the state the flush captured.
DeliverToSelector ==
  /\ held # NothingHeld /\ listening /\ kind = "selector"
  /\ OldSnapshots \/ ~pending
  /\ LET nextSel == Select(selector, held)
         changed == prevSel = NoPrev \/ ~Equal(nextSel, prevSel)
     IN /\ prevSel' = IF changed THEN nextSel ELSE prevSel
        /\ CallListener(changed)
  /\ EndTask
  /\ UNCHANGED <<storeVars, kind, phase, listening, selector, shown, memo>>

\* It was not yet subscribed, or a chunked flush finds the store changed since.
NotDelivered ==
  /\ held # NothingHeld /\ (~captured \/ ~listening \/ pending)
  /\ EndTask
  /\ UNCHANGED <<storeVars, kind, componentVars, memo>>

ReadMemo ==
  /\ committed # Missing
  /\ memo' = CreateSelector(memo, committed)
  /\ UNCHANGED <<storeVars, flushVars, kind, componentVars>>

SelNext ==
  \/ Mount \/ RunEffects \/ Rerender \/ ParentRenders \/ Unmount
  \/ \E state \in States : Write(state) \/ Create(state)
  \/ Delete \/ StartFlush \/ DeliverToPath \/ DeliverToSelector \/ NotDelivered
  \/ ReadMemo

SelSpec == SelInit /\ [][SelNext]_selVars
-----------------------------------------------------------------------------
(* Properties.                                                             *)

Fields == {state[key] : state \in States, key \in {"a", "b"}}
Results == Fields \cup {<<0, field[2]>> : field \in Fields} \cup {Undefined, Null}

\* A subscription exists only between the effects of the first rendering and
\* unmounting; nothing is remembered about a component that is not there.
SelTypeOK ==
  /\ committed \in States \cup {Missing} /\ pending \in BOOLEAN
  /\ held \in States \cup {NothingHeld} /\ captured \in BOOLEAN
  /\ kind \in {"selector", "path"} /\ phase \in {"absent", "rendered", "subscribed"}
  /\ selector \in Selectors
  /\ listening \in BOOLEAN /\ (listening => phase = "subscribed")
  /\ cache.value \in Results /\ cache.hasValue \in BOOLEAN
  /\ prevSel \in Results \cup {NoPrev} /\ (prevSel # NoPrev => listening /\ kind = "selector")
  /\ shown \in Results /\ rerender \in BOOLEAN /\ (rerender => phase = "subscribed")
  /\ memo.lastRef \in States \cup {Missing} /\ memo.lastDeps \subseteq Paths

\* Once nothing is due, a component shows what its selector, or its path, gives of
\* the committed state: no notification that could have changed the selection was
\* suppressed, whatever was committed between rendering and subscribing, while a
\* flush held an older state, or before the store existed.
ShownIsCurrent ==
  (phase = "subscribed" /\ ~pending /\ held = NothingHeld /\ ~rerender) =>
    IF kind = "path" THEN shown = OrNull(Select(selector, committed))
    ELSE IF committed = Missing THEN shown = Null
    ELSE Equal(shown, Select(selector, committed))

\* A memoised selector gives what its function gives of the current state: while
\* the dependencies recorded by its last run are unchanged, so is its result,
\* though a run records only what it read on the branch it took.
MemoIsFresh ==
  committed # Missing => CreateSelector(memo, committed).lastResult = Select(memo.fn, committed)
=============================================================================
