------------------------------ MODULE PathWrite ------------------------------
(***************************************************************************)
(* Writes into one store up to their commit: setStore with a path, a       *)
(* partial object or a mutator, replaceStore, resetStore, features and     *)
(* batches (core/store-set-impl.ts, store-replace-impl.ts), middleware, and*)
(* the cache of path verdicts (core/store-lifecycle/validation.ts).        *)
(*                                                                         *)
(* A value is <<type, content>>: an object's content is a function from its*)
(* keys, an array's a sequence.  A path has one or two keys.               *)
(***************************************************************************)
EXTENDS Naturals, Sequences, Functions, SequencesExt

CONSTANTS
  Values,            \* what the store may be created with or replaced by
  Partials,          \* objects merged into it
  PathInputs,        \* pairs of a path and what is written there
  CacheSize,         \* config.pathCacheSize
  StagedPaths,       \* may a batch write a path into a value it has staged?
  MiddlewareCalls    \* may middleware write the store while a set of it waits?

ASSUME PathWriteAssumption ==
  CacheSize \in Nat /\ StagedPaths \in BOOLEAN /\ MiddlewareCalls \in BOOLEAN

VARIABLES
  value,        \* the committed value, or Missing
  initial,      \* registry.initialStates
  pathCreate,   \* the store's option
  verdicts,     \* the verdicts kept in the tree of paths, by path and type
  lru,          \* their keys, the one used last at the end
  batch,        \* "none", "open" or "failed"
  staged,       \* the value staged by the batch, or Missing
  writing       \* the write whose middleware runs, or NoWrite

storeVars == <<value, initial, pathCreate>>
cacheVars == <<verdicts, lru>>
vars == <<storeVars, cacheVars, batch, staged, writing>>

Undefined == <<"undefined", 0>>
Null == <<"null", 0>>
Missing == <<"missing", 0>>
Empty == [key \in {} |-> TRUE]
NoWrite == [action |-> "none", path |-> <<>>, payload |-> Undefined,
            prev |-> Undefined, next |-> Undefined]

Init ==
  /\ value = Missing /\ initial = Missing /\ pathCreate = FALSE
  /\ verdicts = Empty /\ lru = <<>>
  /\ batch = "none" /\ staged = Missing /\ writing = NoWrite
-----------------------------------------------------------------------------
(* Values and paths.                                                       *)

Type(node) == node[1]
IsArray(node) == Type(node) = "array"
IsContainer(node) == Type(node) \in {"object", "array"}
IsIndex(key) == key = "0"

Has(node, key) ==
  \/ Type(node) = "object" /\ key \in DOMAIN node[2]
  \/ IsArray(node) /\ IsIndex(key) /\ node[2] # <<>>

Child(node, key) ==
  IF ~Has(node, key) THEN Undefined
  ELSE IF IsArray(node) THEN node[2][1] ELSE node[2][key]

GetByPath(root, path) ==
  LET at[i \in 0 .. Len(path)] == IF i = 0 THEN root ELSE Child(at[i - 1], path[i])
  IN  at[Len(path)]

Entries(node) ==
  IF IsArray(node) THEN IF node[2] = <<>> THEN Empty ELSE [k \in {"0"} |-> node[2][1]]
  ELSE node[2]

\* The shape of a value, and that of its entries.
Shaped(node) ==
  /\ node = <<node[1], node[2]>>
  /\ IsArray(node) => node[2] \in Seq(Range(node[2]))
  /\ Type(node) = "object" => node[2] = [key \in DOMAIN node[2] |-> node[2][key]]

Deep(node) ==
  Shaped(node) /\ (IsContainer(node) => \A k \in DOMAIN Entries(node) : Shaped(Entries(node)[k]))

ASSUME InputAssumption ==
  /\ \A v \in Values : Deep(v) /\ v # Missing
  /\ \A partial \in Partials : \A key \in DOMAIN partial : Shaped(partial[key])
  /\ \A input \in PathInputs :
       /\ input = <<input[1], input[2]>>
       /\ input[1] \in Seq(Range(input[1])) /\ Len(input[1]) \in {1, 2}
       /\ Shaped(input[2])

\* A copy of a container with one entry set; an array takes no other key.
Put(node, key, v) ==
  IF ~IsArray(node)
  THEN <<"object", [k \in DOMAIN node[2] \cup {key} |-> IF k = key THEN v ELSE node[2][k]]>>
  ELSE IF IsIndex(key) THEN <<"array", <<v>> \o SubSeq(node[2], 2, Len(node[2]))>> ELSE node

\* What is no container is overwritten at the last key, and one is made above it.
SetLast(node, key, v) == IF IsContainer(node) THEN Put(node, key, v) ELSE v
Fresh(key) == IF IsIndex(key) THEN <<"array", <<>>>> ELSE <<"object", Empty>>

\* Mutant: what is next to the entry written is not copied.
SetByPathAlone(root, path, v) ==
  IF Len(path) = 1 THEN SetLast(root, path[1], v)
  ELSE Put(root, path[1], Put(Fresh(path[2]), path[2], v))

SetByPath(root, path, v) ==
  IF Len(path) = 1 THEN IF IsContainer(root) THEN Put(root, path[1], v) ELSE root
  ELSE IF IsContainer(root) \/ root \in {Null, Undefined}
  THEN Put(IF IsContainer(root) THEN root ELSE Fresh(path[1]),
           path[1], SetLast(Child(root, path[1]), path[2], v))
  ELSE root

\* May a value of this type be written there?  Only the last key may be new.
Verdict(base, path, type) ==
  LET parent == GetByPath(base, Front(path))
      existing == Child(parent, Last(path))
  IN IF Has(parent, Last(path)) THEN existing \in {Undefined, Null} \/ Type(existing) = type
     ELSE pathCreate /\ Type(parent) = "object"

\* The same entries at the top level; an array and an object may be found equal.
ShallowEqual(x, y) ==
  IF IsContainer(x) /\ IsContainer(y) THEN Entries(x) = Entries(y) ELSE x = y
-----------------------------------------------------------------------------
(* The cache of verdicts.                                                  *)

ValidatePathSafety(base, path, type) ==
  LET key == <<path, type>>
  IN IF key \in DOMAIN verdicts THEN verdicts[key] ELSE Verdict(base, path, type)

\* storeLru.delete
Without(keys, key) ==
  IF key \in Range(keys) THEN RemoveAt(keys, CHOOSE i \in DOMAIN keys : keys[i] = key) ELSE keys

\* Mutant: the oldest verdict leaves the list and stays in the tree.
TouchWithoutEviction(key, ok) ==
  LET order == Append(Without(lru, key), key)
  IN /\ lru' = IF Len(order) > CacheSize THEN Tail(order) ELSE order
     /\ verdicts' = [k \in DOMAIN verdicts \cup {key} |-> IF k = key THEN ok ELSE verdicts[k]]

\* The verdict is entered, or found again, and the one used longest ago makes room.
\* With a limit of 0 the list stays empty and the tree keeps everything.
TouchPathLru(key, ok) ==
  LET order == Append(Without(lru, key), key)
      all == [k \in DOMAIN verdicts \cup {key} |-> IF k = key THEN ok ELSE verdicts[k]]
  IN IF CacheSize = 0 THEN lru' = <<>> /\ verdicts' = all
     ELSE IF Len(order) <= CacheSize THEN lru' = order /\ verdicts' = all
     ELSE lru' = Tail(order) /\ verdicts' = Restrict(all, DOMAIN all \ {Head(order)})

InvalidatePathCache == verdicts' = Empty /\ lru' = <<>>
-----------------------------------------------------------------------------
(* Committing.                                                             *)

Current == IF staged # Missing THEN staged ELSE value

FailTx == batch' = IF batch = "none" THEN "none" ELSE "failed"

\* Mutant: a commit keeps the verdicts.
CommitKeepingVerdicts(next) == value' = next /\ UNCHANGED cacheVars

CommitStoreUpdate(next) == value' = next /\ InvalidatePathCache

StageOrCommit(next) ==
  IF batch = "none" THEN CommitStoreUpdate(next) /\ UNCHANGED staged
  ELSE staged' = next /\ UNCHANGED <<value, cacheVars>>

CreateStore(v, create) ==
  /\ value = Missing /\ batch = "none"
  /\ value' = v /\ initial' = v /\ pathCreate' = create
  /\ InvalidatePathCache
  /\ UNCHANGED <<batch, staged, writing>>

DeleteStore ==
  /\ value # Missing /\ batch = "none" /\ writing = NoWrite
  /\ value' = Missing /\ initial' = Missing /\ pathCreate' = FALSE
  /\ InvalidatePathCache
  /\ UNCHANGED <<batch, staged, writing>>

ResetStore ==
  /\ value # Missing /\ writing = NoWrite
  /\ StageOrCommit(initial)
  /\ UNCHANGED <<initial, pathCreate, batch, writing>>

\* A value loaded from storage or received from another tab.
ApplyFeatureState(v) ==
  /\ value # Missing /\ batch = "none" /\ writing = NoWrite
  /\ value' = v
  /\ InvalidatePathCache
  /\ UNCHANGED <<initial, pathCreate, batch, staged, writing>>

\* Any operation in a batch that fails, such as creating or deleting a store.
FailInBatch ==
  /\ batch = "open" /\ writing = NoWrite
  /\ FailTx
  /\ UNCHANGED <<storeVars, cacheVars, staged, writing>>

Begin ==
  /\ batch = "none" /\ writing = NoWrite
  /\ batch' = "open"
  /\ UNCHANGED <<storeVars, cacheVars, staged, writing>>

End ==
  /\ batch # "none" /\ writing = NoWrite
  /\ batch' = "none" /\ staged' = Missing
  /\ IF batch = "open" /\ staged # Missing THEN CommitStoreUpdate(staged)
     ELSE UNCHANGED <<value, cacheVars>>
  /\ UNCHANGED <<initial, pathCreate, writing>>
-----------------------------------------------------------------------------
(* A write: what it is to store, then its middleware, then the commit.     *)

\* `prev` matters to a set alone, which is compared with it.
Write(action, path, payload, next) ==
  [action |-> action, path |-> path, payload |-> payload,
   prev |-> IF action = "set" THEN Current ELSE Undefined, next |-> next]

WritePath(path, v) ==
  /\ value # Missing /\ writing = NoWrite
  /\ StagedPaths \/ staged = Missing
  /\ LET ok == ValidatePathSafety(Current, path, Type(v)) IN
       /\ TouchPathLru(<<path, Type(v)>>, ok)
       /\ IF ok
          THEN writing' = Write("set", path, v, SetByPath(Current, path, v)) /\ UNCHANGED batch
          ELSE FailTx /\ UNCHANGED writing
  /\ UNCHANGED <<storeVars, staged>>

\* Object.assign({}, f, g)
Spread(f, g) == [key \in DOMAIN f \cup DOMAIN g |-> IF key \in DOMAIN g THEN g[key] ELSE f[key]]

Merge(partial) ==
  /\ value # Missing /\ writing = NoWrite
  /\ IF Type(Current) = "object"
     THEN /\ writing' = Write("set", <<>>, Undefined, <<"object", Spread(Current[2], partial)>>)
          /\ UNCHANGED batch
     ELSE FailTx /\ UNCHANGED writing
  /\ UNCHANGED <<storeVars, cacheVars, staged>>

\* replaceStore, or setStore with a mutator.
Replace(action, v) ==
  /\ value # Missing /\ writing = NoWrite
  /\ writing' = Write(action, <<>>, Undefined, v)
  /\ UNCHANGED <<storeVars, cacheVars, batch, staged>>

\* Middleware, or `validate`, gives another value.
Override(v) ==
  /\ writing # NoWrite
  /\ writing' = [writing EXCEPT !.path = <<>>, !.payload = Undefined, !.next = v]
  /\ UNCHANGED <<storeVars, cacheVars, batch, staged>>

\* Middleware calls replaceStore for the store whose write it was asked about.  A
\* replaceStore that waits overwrites it anyway; a set was derived from what was there.
MiddlewareReplaces(v) ==
  /\ writing # NoWrite /\ (MiddlewareCalls \/ writing.action = "replace")
  /\ StageOrCommit(v)
  /\ UNCHANGED <<initial, pathCreate, batch, writing>>

\* Middleware aborts or throws, or the result is refused by sanitize or `validate`.
Abort ==
  /\ writing # NoWrite /\ writing' = NoWrite
  /\ FailTx
  /\ UNCHANGED <<storeVars, cacheVars, staged>>

\* A set that changes nothing at the top level ends here.
ShortCircuit ==
  /\ writing # NoWrite /\ writing' = NoWrite
  /\ writing.action = "set" /\ ShallowEqual(writing.prev, writing.next)
  /\ UNCHANGED <<storeVars, cacheVars, batch, staged>>

\* Equal containers may still hold different copies below the top level.
FinishWrite ==
  /\ writing # NoWrite /\ writing' = NoWrite
  /\ writing.action = "set" /\ writing.next = writing.prev => IsContainer(writing.next)
  /\ StageOrCommit(writing.next)
  /\ UNCHANGED <<initial, pathCreate, batch>>

Next ==
  \/ \E v \in Values :
       \/ \E create \in BOOLEAN : CreateStore(v, create)
       \/ \E action \in {"set", "replace"} : Replace(action, v)
       \/ ApplyFeatureState(v) \/ Override(v) \/ MiddlewareReplaces(v)
  \/ \E input \in PathInputs : WritePath(input[1], input[2])
  \/ \E partial \in Partials : Merge(partial)
  \/ DeleteStore \/ ResetStore \/ Begin \/ FailInBatch \/ End
  \/ Abort \/ ShortCircuit \/ FinishWrite

Spec == Init /\ [][Next]_vars
-----------------------------------------------------------------------------
(* Properties.                                                             *)

Paths == {input[1] : input \in PathInputs}
Keys == Paths \X {Type(input[2]) : input \in PathInputs}

\* The tree and the list of verdicts agree, and both keep to the configured size;
\* what is staged or being written belongs to a batch or a store that is there.
TypeOK ==
  /\ DOMAIN verdicts = Range(lru) /\ Range(lru) \subseteq Keys
  /\ IsInjective(lru) /\ Len(lru) <= CacheSize
  /\ \A key \in Keys \cap DOMAIN verdicts : verdicts[key] \in BOOLEAN
  /\ pathCreate \in BOOLEAN /\ batch \in {"none", "open", "failed"}
  /\ (staged # Missing => batch # "none" /\ value # Missing)
  /\ (writing # NoWrite => value # Missing)
  /\ (value = Missing <=> initial = Missing)

\* A verdict kept is the one that the committed value would get: whatever changes
\* the value or the option (a write of the application or of a feature, a creation or a
\* deletion of the store) drops the verdicts given before.
CacheIsFresh ==
  \A key \in DOMAIN verdicts : verdicts[key] = Verdict(value, key[1], key[2])

Related(p, q) == IsPrefix(p, q) \/ IsPrefix(q, p)

\* A path write that is stored puts its value at its path, where there was a value
\* of the same type, an empty one, or with pathCreate no key, and leaves every other
\* path as it was: no old verdict lets a write through that the shape forbids.
PathWriteIsLocal ==
  [][(writing.path # <<>> /\ writing' = NoWrite /\ Current' # Current) =>
       LET old == GetByPath(Current, writing.path) IN
       /\ GetByPath(Current', writing.path) = writing.payload
       /\ pathCreate \/ Has(GetByPath(Current, Front(writing.path)), Last(writing.path))
       /\ old \in {Undefined, Null} \/ Type(old) = Type(writing.payload)
       /\ \A path \in Paths : Related(path, writing.path) \/
            GetByPath(Current', path) = GetByPath(Current, path)]_vars
=============================================================================
