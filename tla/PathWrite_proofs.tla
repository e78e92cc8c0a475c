--------------------------- MODULE PathWrite_proofs ---------------------------
(***************************************************************************)
(* Proofs about PathWrite, for any values, paths and size of the cache:    *)
(* that verdicts are fresh, the types, and that a path write is local.     *)
(***************************************************************************)
EXTENDS PathWrite, SequenceTheorems, TLAPS

-----------------------------------------------------------------------------
\* An empty cache is fresh.
LEMMA EmptyIsFresh ==
  ASSUME InvalidatePathCache
  PROVE  CacheIsFresh'
BY DEF InvalidatePathCache, CacheIsFresh, Empty

\* What a verdict depends on: the value and the option.
LEMMA UntouchedStaysFresh ==
  ASSUME CacheIsFresh, UNCHANGED value, UNCHANGED pathCreate, UNCHANGED verdicts
  PROVE  CacheIsFresh'
BY DEF CacheIsFresh, Verdict

\* Entering the verdict of the committed value, with or without an eviction, or
\* finding it again, keeps the cache fresh.
LEMMA TouchKeepsFresh ==
  ASSUME CacheIsFresh, UNCHANGED value, UNCHANGED pathCreate,
         NEW path, NEW type,
         TouchPathLru(<<path, type>>, ValidatePathSafety(value, path, type))
  PROVE  CacheIsFresh'
<1> DEFINE key == <<path, type>>
           ok == ValidatePathSafety(value, path, type)
           all == [k \in DOMAIN verdicts \cup {key} |-> IF k = key THEN ok ELSE verdicts[k]]
<1>1. ok = Verdict(value, path, type)
  BY DEF CacheIsFresh, ValidatePathSafety
<1>2. \A k \in DOMAIN all : all[k] = Verdict(value, k[1], k[2])
  BY <1>1 DEF CacheIsFresh
<1>3. /\ DOMAIN verdicts' \subseteq DOMAIN all
      /\ \A k \in DOMAIN verdicts' : verdicts'[k] = all[k]
  <2>1. \/ verdicts' = all
        \/ \E k : verdicts' = Restrict(all, DOMAIN all \ {k})
    BY DEF TouchPathLru
  <2> QED BY <2>1 DEF Restrict
<1>4. \A k \in DOMAIN verdicts' : verdicts'[k] = Verdict(value, k[1], k[2])
  BY <1>2, <1>3
<1>5. \A p, t : Verdict(value, p, t)' = Verdict(value, p, t)
  BY DEF Verdict
<1> QED BY <1>4, <1>5 DEF CacheIsFresh

\* A write that stages leaves the cache alone, and one that commits empties it.
LEMMA StageOrCommitKeepsFresh ==
  ASSUME CacheIsFresh, UNCHANGED pathCreate, NEW next, StageOrCommit(next)
  PROVE  CacheIsFresh'
<1>1. CASE batch = "none"
  BY <1>1, EmptyIsFresh DEF StageOrCommit, CommitStoreUpdate
<1>2. CASE batch # "none"
  BY <1>2, UntouchedStaysFresh DEF StageOrCommit, cacheVars
<1> QED BY <1>1, <1>2

\* Every step keeps the cache fresh, when batches write no path into a value that
\* they have staged.
LEMMA StepKeepsFresh ==
  ASSUME ~StagedPaths, CacheIsFresh, [Next]_vars
  PROVE  CacheIsFresh'
<1>1. ASSUME NEW v, NEW create, CreateStore(v, create) PROVE CacheIsFresh'
  BY <1>1, EmptyIsFresh DEF CreateStore
<1>2. ASSUME NEW v, NEW action, Replace(action, v) PROVE CacheIsFresh'
  BY <1>2, UntouchedStaysFresh DEF Replace, storeVars, cacheVars
<1>3. ASSUME NEW v, ApplyFeatureState(v) PROVE CacheIsFresh'
  BY <1>3, EmptyIsFresh DEF ApplyFeatureState
<1>4. ASSUME NEW v, Override(v) PROVE CacheIsFresh'
  BY <1>4, UntouchedStaysFresh DEF Override, storeVars, cacheVars
<1>5. ASSUME NEW v, MiddlewareReplaces(v) PROVE CacheIsFresh'
  BY <1>5, StageOrCommitKeepsFresh DEF MiddlewareReplaces
<1>6. ASSUME NEW path, NEW v, WritePath(path, v) PROVE CacheIsFresh'
  <2>1. Current = value
    BY <1>6 DEF WritePath, Current
  <2>2. TouchPathLru(<<path, Type(v)>>, ValidatePathSafety(value, path, Type(v)))
    BY <1>6, <2>1 DEF WritePath
  <2> QED BY <1>6, <2>2, TouchKeepsFresh DEF WritePath, storeVars
<1>7. ASSUME NEW partial, Merge(partial) PROVE CacheIsFresh'
  BY <1>7, UntouchedStaysFresh DEF Merge, storeVars, cacheVars
<1>8. CASE DeleteStore
  BY <1>8, EmptyIsFresh DEF DeleteStore
<1>9. CASE ResetStore
  BY <1>9, StageOrCommitKeepsFresh DEF ResetStore
<1>10. CASE Begin \/ FailInBatch \/ Abort \/ ShortCircuit
  BY <1>10, UntouchedStaysFresh DEF Begin, FailInBatch, Abort, ShortCircuit, storeVars, cacheVars
<1>11. CASE End
  <2>1. CASE batch = "open" /\ staged # Missing
    BY <1>11, <2>1, EmptyIsFresh DEF End, CommitStoreUpdate
  <2>2. CASE ~(batch = "open" /\ staged # Missing)
    BY <1>11, <2>2, UntouchedStaysFresh DEF End, cacheVars
  <2> QED BY <2>1, <2>2
<1>12. CASE FinishWrite
  BY <1>12, StageOrCommitKeepsFresh DEF FinishWrite
<1>13. CASE UNCHANGED vars
  BY <1>13, UntouchedStaysFresh DEF vars, storeVars, cacheVars
<1> QED
  BY <1>1, <1>2, <1>3, <1>4, <1>5, <1>6, <1>7, <1>8, <1>9, <1>10, <1>11, <1>12, <1>13
  DEF Next

-----------------------------------------------------------------------------
\* A verdict kept by validatePathSafety is always the one the committed value would
\* get: every way to change the value or the option drops the verdicts, or leaves
\* them alone because it only stages.
THEOREM VerdictsAreFresh ==
  ASSUME ~StagedPaths
  PROVE  Spec => []CacheIsFresh
<1>1. Init => CacheIsFresh
  BY DEF Init, CacheIsFresh, Empty
<1>2. CacheIsFresh /\ [Next]_vars => CacheIsFresh'
  BY StepKeepsFresh
<1> QED BY <1>1, <1>2, PTL DEF Spec
-----------------------------------------------------------------------------
(***************************************************************************)
(* Types.  The tree of verdicts and the list that bounds it have the same  *)
(* keys, each once.                                                        *)
(***************************************************************************)

\* Deleting a key from the list, wherever it is.
LEMMA WithoutIs ==
  ASSUME NEW S, NEW s \in Seq(S), IsInjective(s), NEW key
  PROVE  /\ Without(s, key) \in Seq(S)
         /\ Len(Without(s, key)) <= Len(s)
         /\ Range(Without(s, key)) = Range(s) \ {key}
         /\ IsInjective(Without(s, key))
<1>1. PICK N \in Nat : N = Len(s) /\ DOMAIN s = 1 .. N /\ \A i \in 1 .. N : s[i] \in S
  BY LenProperties, ElementOfSeq
<1>2. CASE key \notin Range(s)
  BY <1>1, <1>2 DEF Without
<1>3. CASE key \in Range(s)
  <2>1. PICK n \in 1 .. N : s[n] = key /\ Without(s, key) = RemoveAt(s, n)
    BY <1>1, <1>3 DEF Without, Range
  <2>2. n \in Nat /\ 1 <= n /\ n <= N
    BY <1>1, <2>1
  <2>3. PICK a : a = SubSeq(s, 1, n - 1)
    OBVIOUS
  <2>4. a \in Seq(S) /\ Len(a) = n - 1 /\ \A i \in 1 .. n - 1 : a[i] = s[i]
    <3>1. \A i \in 1 .. n - 1 : s[i] \in S
      BY <1>1, <2>2
    <3>2. /\ a \in Seq(S)
          /\ Len(a) = IF 1 <= n - 1 THEN n - 1 - 1 + 1 ELSE 0
          /\ \A i \in 1 .. n - 1 - 1 + 1 : a[i] = s[1 + i - 1]
      BY ONLY <2>2, <2>3, <3>1, SubSeqProperties
    <3> QED BY <2>2, <3>2
  <2>5. PICK b : b = SubSeq(s, n + 1, N)
    OBVIOUS
  <2>6. b \in Seq(S) /\ Len(b) = N - n /\ \A i \in 1 .. N - n : b[i] = s[n + i]
    <3>1. \A i \in n + 1 .. N : s[i] \in S
      BY <1>1, <2>2
    <3>2. /\ b \in Seq(S)
          /\ Len(b) = IF n + 1 <= N THEN N - (n + 1) + 1 ELSE 0
          /\ \A i \in 1 .. N - (n + 1) + 1 : b[i] = s[n + 1 + i - 1]
      BY ONLY <1>1, <2>2, <2>5, <3>1, SubSeqProperties
    <3> QED BY <1>1, <2>2, <3>2
  <2>7. PICK t : t = Without(s, key)
    OBVIOUS
  <2>8. t = a \o b
    BY <1>1, <2>1, <2>3, <2>5, <2>7 DEF RemoveAt
  <2>9. /\ t \in Seq(S) /\ Len(t) = N - 1
        /\ \A i \in 1 .. N - 1 : t[i] = IF i <= n - 1 THEN s[i] ELSE s[i + 1]
    <3>1. /\ t \in Seq(S) /\ Len(t) = Len(a) + Len(b)
          /\ \A i \in 1 .. Len(a) + Len(b) : t[i] = IF i <= Len(a) THEN a[i] ELSE b[i - Len(a)]
      BY ONLY <2>4, <2>6, <2>8, ConcatProperties
    <3>2. Len(a) + Len(b) = N - 1
      BY <1>1, <2>2, <2>4, <2>6
    <3>3. ASSUME NEW i \in 1 .. N - 1 PROVE t[i] = IF i <= n - 1 THEN s[i] ELSE s[i + 1]
      <4>1. t[i] = IF i <= n - 1 THEN a[i] ELSE b[i - (n - 1)]
        BY <2>4, <3>1, <3>2
      <4>2. i <= n - 1 => a[i] = s[i]
        BY <1>1, <2>2, <2>4
      <4>3. ~(i <= n - 1) => i - (n - 1) \in 1 .. N - n /\ n + (i - (n - 1)) = i + 1
        BY <1>1, <2>2
      <4> QED BY <2>6, <4>1, <4>2, <4>3
    <3> QED BY <3>1, <3>2, <3>3
  <2>10. DOMAIN t = 1 .. N - 1
    BY <2>9, LenProperties
  \* Where the elements of t come from.
  <2> DEFINE at(m) == IF m <= n - 1 THEN m ELSE m + 1
  <2>11. \A i \in 1 .. N - 1 : at(i) \in 1 .. N /\ at(i) # n /\ t[i] = s[at(i)]
    BY <1>1, <2>2, <2>9
  <2>12. \A j \in 1 .. N : j # n => \E i \in 1 .. N - 1 : at(i) = j
    <3> SUFFICES ASSUME NEW j \in 1 .. N, j # n PROVE \E i \in 1 .. N - 1 : at(i) = j
      OBVIOUS
    <3>1. CASE j < n
      <4>1. j \in 1 .. N - 1 /\ at(j) = j
        BY <1>1, <2>2, <3>1
      <4> QED BY <4>1
    <3>2. CASE n < j
      <4>1. j - 1 \in 1 .. N - 1 /\ at(j - 1) = j
        BY <1>1, <2>2, <3>2
      <4> QED BY <4>1
    <3> QED BY <1>1, <2>2, <3>1, <3>2
  <2>13. \A i, j \in 1 .. N - 1 : at(i) = at(j) => i = j
    BY <1>1, <2>2
  <2> HIDE DEF at
  <2>14. \A i \in 1 .. N : i # n => s[i] # key
    BY <1>1, <2>1 DEF IsInjective
  <2>15. Range(t) = Range(s) \ {key}
    <3>1. ASSUME NEW x \in Range(t) PROVE x \in Range(s) \ {key}
      <4>1. PICK i \in 1 .. N - 1 : x = t[i]
        BY <2>10, <3>1 DEF Range
      <4> QED BY <1>1, <2>11, <2>14, <4>1 DEF Range
    <3>2. ASSUME NEW x \in Range(s) \ {key} PROVE x \in Range(t)
      <4>1. PICK j \in 1 .. N : x = s[j] /\ j # n
        BY <1>1, <2>1, <3>2 DEF Range
      <4>2. PICK i \in 1 .. N - 1 : at(i) = j
        BY <2>12, <4>1
      <4> QED BY <2>10, <2>11, <4>1, <4>2 DEF Range
    <3> QED BY <3>1, <3>2
  <2>16. IsInjective(t)
    BY <1>1, <2>10, <2>11, <2>13 DEF IsInjective
  <2> QED BY <1>1, <2>7, <2>9, <2>15, <2>16
<1> QED BY <1>2, <1>3

\* The list and the tree hold the same verdicts.
Cached ==
  /\ lru \in Seq(Keys) /\ IsInjective(lru) /\ Len(lru) <= CacheSize
  /\ DOMAIN verdicts = Range(lru)
  /\ \A key \in DOMAIN verdicts : verdicts[key] \in BOOLEAN

LEMMA EmptyCached ==
  ASSUME InvalidatePathCache
  PROVE  Cached'
<1>1. <<>> \in Seq(Keys) /\ Len(<<>>) = 0 /\ DOMAIN <<>> = {}
  BY EmptySeq, LenProperties
<1> QED BY <1>1, PathWriteAssumption DEF InvalidatePathCache, Cached, Empty, IsInjective, Range

LEMMA Touching ==
  ASSUME Cached, CacheSize > 0, NEW key \in Keys, NEW ok \in BOOLEAN, TouchPathLru(key, ok)
  PROVE  Cached'
<1>1. PICK t : t = Without(lru, key)
  OBVIOUS
<1>2. t \in Seq(Keys) /\ Len(t) <= Len(lru) /\ Range(t) = Range(lru) \ {key} /\ IsInjective(t)
  BY <1>1, WithoutIs DEF Cached
<1>3. Len(t) \in Nat /\ DOMAIN t = 1 .. Len(t) /\ CacheSize \in Nat /\ Len(lru) \in Nat
  BY <1>2, LenProperties, PathWriteAssumption DEF Cached
<1>4. PICK order : order = Append(t, key)
  OBVIOUS
<1>5. /\ order \in Seq(Keys) /\ Len(order) = Len(t) + 1 /\ order[Len(t) + 1] = key
      /\ \A i \in 1 .. Len(t) : order[i] = t[i]
  BY <1>2, <1>4, AppendProperties
<1>6. DOMAIN order = 1 .. Len(t) + 1
  BY <1>5, LenProperties
<1>7. key \notin Range(t) /\ \A i \in 1 .. Len(t) : t[i] # key
  BY <1>2, <1>3 DEF Range
<1>8. IsInjective(order)
  <2> SUFFICES ASSUME NEW i \in 1 .. Len(t) + 1, NEW j \in 1 .. Len(t) + 1, order[i] = order[j]
               PROVE  i = j
    BY <1>6 DEF IsInjective
  <2>1. CASE i \in 1 .. Len(t) /\ j \in 1 .. Len(t)
    BY <1>2, <1>3, <1>5, <2>1 DEF IsInjective
  <2> QED BY <1>3, <1>5, <1>7, <2>1
<1>9. Range(order) = DOMAIN verdicts \cup {key}
  <2>1. Range(order) = Range(t) \cup {key}
    <3>1. ASSUME NEW x \in Range(order) PROVE x \in Range(t) \cup {key}
      BY <1>3, <1>5, <1>6, <3>1 DEF Range
    <3>2. ASSUME NEW x \in Range(t) \cup {key} PROVE x \in Range(order)
      <4>1. CASE x = key
        <5>1. Len(t) + 1 \in DOMAIN order
          BY <1>3, <1>6
        <5> QED BY <1>5, <4>1, <5>1 DEF Range
      <4>2. CASE x \in Range(t)
        BY <1>3, <1>5, <1>6, <4>2 DEF Range
      <4> QED BY <3>2, <4>1, <4>2
    <3> QED BY <3>1, <3>2
  <2> QED BY <1>2, <2>1 DEF Cached
<1>10. PICK all : all = [k \in DOMAIN verdicts \cup {key} |-> IF k = key THEN ok ELSE verdicts[k]]
  OBVIOUS
<1>11. DOMAIN all = Range(order) /\ \A k \in DOMAIN all : all[k] \in BOOLEAN
  BY <1>9, <1>10 DEF Cached
<1>12. CASE Len(order) <= CacheSize
  <2>1. lru' = order /\ verdicts' = all
    BY <1>1, <1>3, <1>4, <1>10, <1>12 DEF TouchPathLru
  <2> QED BY <1>5, <1>8, <1>11, <1>12, <2>1 DEF Cached, Range, IsInjective
<1>13. CASE ~(Len(order) <= CacheSize)
  <2>1. lru' = Tail(order) /\ verdicts' = Restrict(all, DOMAIN all \ {Head(order)})
    <3>1. CacheSize # 0 /\ ~(Len(Append(Without(lru, key), key)) <= CacheSize)
      BY <1>1, <1>3, <1>4, <1>13
    <3>2. /\ lru' = Tail(Append(Without(lru, key), key))
          /\ verdicts' = Restrict([k \in DOMAIN verdicts \cup {key} |-> IF k = key THEN ok ELSE verdicts[k]],
               DOMAIN [k \in DOMAIN verdicts \cup {key} |-> IF k = key THEN ok ELSE verdicts[k]]
                 \ {Head(Append(Without(lru, key), key))})
      BY <3>1, Zenon DEF TouchPathLru
    <3> QED BY <1>1, <1>4, <1>10, <3>2, Zenon
  <2>2. PICK rest, first : rest = Tail(order) /\ first = Head(order)
    OBVIOUS
  <2>3. /\ rest \in Seq(Keys) /\ Len(rest) = Len(t)
        /\ \A i \in 1 .. Len(t) : rest[i] = order[i + 1]
    <3>1. order # <<>>
      BY <1>3, <1>5, EmptySeq
    <3>2. Tail(order) \in Seq(Keys) /\ Len(Tail(order)) = Len(order) - 1
          /\ \A i \in 1 .. Len(Tail(order)) : Tail(order)[i] = order[i + 1]
      BY <1>5, <3>1, HeadTailProperties
    <3> QED BY <1>3, <1>5, <2>2, <3>2
  <2>4. first = order[1] /\ DOMAIN rest = 1 .. Len(t)
    BY <1>5, <2>2, <2>3, LenProperties
  <2>5. Range(rest) = Range(order) \ {first}
    <3>1. ASSUME NEW x \in Range(rest) PROVE x \in Range(order) \ {first}
      <4>1. PICK i \in 1 .. Len(t) : x = rest[i]
        BY <2>4, <3>1 DEF Range
      <4>2. i + 1 \in 1 .. Len(t) + 1 /\ i + 1 # 1 /\ 1 \in 1 .. Len(t) + 1
        BY <1>3, <4>1
      <4>3. x = order[i + 1]
        BY <2>3, <4>1
      <4>4. order[i + 1] # order[1]
        BY <1>6, <1>8, <4>2 DEF IsInjective
      <4> QED BY <1>6, <2>4, <4>2, <4>3, <4>4 DEF Range
    <3>2. ASSUME NEW x \in Range(order) \ {first} PROVE x \in Range(rest)
      <4>1. PICK i \in 1 .. Len(t) + 1 : x = order[i] /\ i # 1
        BY <1>6, <2>4, <3>2 DEF Range
      <4>2. i - 1 \in 1 .. Len(t) /\ (i - 1) + 1 = i
        BY <1>3, <4>1
      <4> QED BY <2>3, <2>4, <4>1, <4>2 DEF Range
    <3> QED BY <3>1, <3>2
  <2>6. IsInjective(rest)
    <3> SUFFICES ASSUME NEW i \in 1 .. Len(t), NEW j \in 1 .. Len(t), rest[i] = rest[j]
                 PROVE  i = j
      BY <2>4 DEF IsInjective
    <3>1. i + 1 \in 1 .. Len(t) + 1 /\ j + 1 \in 1 .. Len(t) + 1 /\ order[i + 1] = order[j + 1]
      BY <1>3, <2>3
    <3>2. i + 1 = j + 1
      BY <1>6, <1>8, <3>1 DEF IsInjective
    <3> QED BY <1>3, <3>2
  <2>7. Len(rest) <= CacheSize
    BY <1>2, <1>3, <2>3 DEF Cached
  <2>8. DOMAIN verdicts' = Range(rest) /\ \A k \in DOMAIN verdicts' : verdicts'[k] \in BOOLEAN
    BY <1>11, <2>1, <2>2, <2>5 DEF Restrict
  <2>9. lru' = rest
    BY <2>1, <2>2
  <2>10. IsInjective(lru)' /\ Range(lru)' = Range(rest)
    BY <2>6, <2>9 DEF IsInjective, Range
  <2> QED BY <2>3, <2>7, <2>8, <2>9, <2>10 DEF Cached
<1> QED BY <1>12, <1>13

\* A verdict is a Boolean, as long as the option is one.
LEMMA VerdictType ==
  ASSUME pathCreate \in BOOLEAN, NEW base, NEW path, NEW type
  PROVE  Verdict(base, path, type) \in BOOLEAN
BY DEF Verdict

\* What is staged belongs to a batch, and what is written to a store that is there.
Life ==
  /\ pathCreate \in BOOLEAN /\ batch \in {"none", "open", "failed"}
  /\ (staged # Missing => batch # "none" /\ value # Missing)
  /\ (writing # NoWrite => value # Missing)
  /\ (value = Missing <=> initial = Missing)
  /\ writing.next # Missing

LEMMA PutIsThere ==
  ASSUME NEW node, node # Missing, NEW key, NEW v
  PROVE  Put(node, key, v) # Missing
BY DEF Put, Missing

LEMMA SetIsThere ==
  ASSUME NEW root, root # Missing, NEW path, NEW v
  PROVE  SetByPath(root, path, v) # Missing
<1>1. Fresh(path[1]) # Missing
  BY DEF Fresh, Missing
<1>2. CASE Len(path) = 1
  BY <1>2, PutIsThere DEF SetByPath
<1>3. CASE Len(path) # 1
  <2>1. PICK v2 : v2 = SetLast(Child(root, path[1]), path[2], v)
    OBVIOUS
  <2>2. \/ SetByPath(root, path, v) = Put(root, path[1], v2)
        \/ SetByPath(root, path, v) = Put(Fresh(path[1]), path[1], v2)
        \/ SetByPath(root, path, v) = root
    BY <1>3, <2>1 DEF SetByPath
  <2> QED BY <1>1, <2>2, PutIsThere
<1> QED BY <1>2, <1>3

\* Staging and committing.
LEMMA StageOrCommitLives ==
  ASSUME Life, value # Missing, NEW next, next # Missing, StageOrCommit(next),
         UNCHANGED <<initial, pathCreate, batch>>, writing' \in {writing, NoWrite}
  PROVE  Life'
<1>1. NoWrite.next # Missing
  BY DEF NoWrite, Undefined, Missing
<1>2. CASE batch = "none"
  BY <1>1, <1>2 DEF Life, StageOrCommit, CommitStoreUpdate
<1>3. CASE batch # "none"
  BY <1>1, <1>3 DEF Life, StageOrCommit
<1> QED BY <1>2, <1>3

\* A write begins with a value to store; nothing else about the store changes.
LEMMA WriteBegins ==
  ASSUME Life, value # Missing, NEW action, NEW path, NEW payload, NEW next, next # Missing,
         writing' = Write(action, path, payload, next),
         UNCHANGED <<storeVars, batch, staged>>
  PROVE  Life'
BY DEF Life, Write, storeVars

LEMMA BatchFails ==
  ASSUME Life, FailTx, UNCHANGED <<storeVars, staged>>, writing' \in {writing, NoWrite}
  PROVE  Life'
<1>1. NoWrite.next # Missing
  BY DEF NoWrite, Undefined, Missing
<1> QED BY <1>1 DEF Life, FailTx, storeVars

LEMMA InitLife == Init => Life
<1>1. NoWrite.next # Missing
  BY DEF NoWrite, Undefined, Missing
<1> QED BY <1>1 DEF Init, Life

LEMMA NextLife ==
  ASSUME Life, [Next]_vars
  PROVE  Life'
<1>0. NoWrite.next # Missing /\ \A v \in Values : v # Missing
  BY InputAssumption DEF NoWrite, Undefined, Missing
<1>1. ASSUME NEW v \in Values, NEW create \in BOOLEAN, CreateStore(v, create) PROVE Life'
  BY <1>0, <1>1 DEF CreateStore, Life
<1>2. ASSUME NEW v \in Values, NEW action, Replace(action, v) PROVE Life'
  BY <1>0, <1>2, WriteBegins DEF Replace
<1>3. ASSUME NEW v \in Values, ApplyFeatureState(v) PROVE Life'
  BY <1>0, <1>3 DEF ApplyFeatureState, Life
<1>4. ASSUME NEW v \in Values, Override(v) PROVE Life'
  <2>1. writing'.next = v
    BY <1>4 DEF Override
  <2> QED BY <1>0, <1>4, <2>1 DEF Override, Life, storeVars
<1>5. ASSUME NEW v \in Values, MiddlewareReplaces(v) PROVE Life'
  <2>1. value # Missing
    BY <1>5 DEF Life, MiddlewareReplaces
  <2> QED BY <1>0, <1>5, <2>1, StageOrCommitLives DEF MiddlewareReplaces
<1>6. ASSUME NEW path, NEW v, WritePath(path, v) PROVE Life'
  <2>1. value # Missing /\ UNCHANGED <<storeVars, staged>>
    BY <1>6 DEF WritePath
  <2>2. CASE UNCHANGED writing /\ FailTx
    BY <2>1, <2>2, BatchFails
  <2>3. CASE writing' = Write("set", path, v, SetByPath(Current, path, v)) /\ UNCHANGED batch
    <3>1. SetByPath(Current, path, v) # Missing
      BY <2>1, SetIsThere DEF Current
    <3> QED BY <2>1, <2>3, <3>1, WriteBegins
  <2> QED BY <1>6, <2>2, <2>3 DEF WritePath
<1>7. ASSUME NEW partial, Merge(partial) PROVE Life'
  <2>1. value # Missing /\ UNCHANGED <<storeVars, staged>>
    BY <1>7 DEF Merge
  <2>2. CASE UNCHANGED writing /\ FailTx
    BY <2>1, <2>2, BatchFails
  <2>3. CASE writing' = Write("set", <<>>, Undefined, <<"object", Spread(Current[2], partial)>>) /\ UNCHANGED batch
    <3>1. <<"object", Spread(Current[2], partial)>> # Missing
      BY DEF Missing
    <3> QED BY <2>1, <2>3, <3>1, WriteBegins
  <2> QED BY <1>7, <2>2, <2>3 DEF Merge
<1>8. CASE DeleteStore
  BY <1>8 DEF DeleteStore, Life
<1>9. CASE ResetStore
  BY <1>9, StageOrCommitLives DEF ResetStore, Life
<1>10. CASE Begin
  BY <1>10 DEF Begin, Life, storeVars
<1>11. CASE FailInBatch \/ Abort
  BY <1>11, BatchFails DEF FailInBatch, Abort
<1>12. CASE End
  BY <1>12 DEF End, Life, CommitStoreUpdate
<1>13. CASE ShortCircuit
  BY <1>0, <1>13 DEF ShortCircuit, Life, storeVars
<1>14. CASE FinishWrite
  <2>1. value # Missing /\ writing.next # Missing
    BY <1>14 DEF Life, FinishWrite
  <2> QED BY <1>14, <2>1, StageOrCommitLives DEF FinishWrite
<1>15. CASE UNCHANGED vars
  BY <1>15 DEF vars, storeVars, Life
<1> QED
  BY <1>1, <1>2, <1>3, <1>4, <1>5, <1>6, <1>7, <1>8, <1>9, <1>10, <1>11, <1>12, <1>13,
     <1>14, <1>15
  DEF Next

\* Only a path write enters a verdict; a commit empties the cache.
LEMMA NextCached ==
  ASSUME CacheSize > 0, Life, Cached, [Next]_vars
  PROVE  Cached'
<1>1. ASSUME UNCHANGED cacheVars PROVE Cached'
  BY <1>1 DEF cacheVars, Cached, Range, IsInjective
<1>2. ASSUME NEW next, StageOrCommit(next) PROVE Cached'
  BY <1>1, <1>2, EmptyCached DEF StageOrCommit, CommitStoreUpdate, cacheVars
<1>3. ASSUME NEW input \in PathInputs, WritePath(input[1], input[2]) PROVE Cached'
  <2> DEFINE key == <<input[1], Type(input[2])>>
             ok == ValidatePathSafety(Current, input[1], Type(input[2]))
  <2>1. key \in Keys
    BY DEF Keys, Paths
  <2>2. ok \in BOOLEAN
    BY VerdictType DEF ValidatePathSafety, Cached, Life
  <2>3. TouchPathLru(key, ok)
    BY <1>3 DEF WritePath
  <2> HIDE DEF key, ok
  <2> QED BY <2>1, <2>2, <2>3, Touching
<1>4. CASE \E v \in Values : \/ \E create \in BOOLEAN : CreateStore(v, create)
                             \/ ApplyFeatureState(v)
  BY <1>4, EmptyCached DEF CreateStore, ApplyFeatureState
<1>5. CASE \E v \in Values : \/ \E action \in {"set", "replace"} : Replace(action, v)
                             \/ Override(v)
  BY <1>1, <1>5 DEF Replace, Override
<1>6. CASE \E v \in Values : MiddlewareReplaces(v)
  BY <1>2, <1>6 DEF MiddlewareReplaces
<1>7. CASE \E partial \in Partials : Merge(partial)
  BY <1>1, <1>7 DEF Merge
<1>8. CASE DeleteStore
  BY <1>8, EmptyCached DEF DeleteStore
<1>9. CASE ResetStore
  BY <1>2, <1>9 DEF ResetStore
<1>10. CASE Begin \/ FailInBatch \/ Abort \/ ShortCircuit \/ UNCHANGED vars
  BY <1>1, <1>10 DEF Begin, FailInBatch, Abort, ShortCircuit, vars
<1>11. CASE End
  BY <1>1, <1>11, EmptyCached DEF End, CommitStoreUpdate, cacheVars
<1>12. CASE FinishWrite
  BY <1>2, <1>12 DEF FinishWrite
<1> QED
  BY <1>3, <1>4, <1>5, <1>6, <1>7, <1>8, <1>9, <1>10, <1>11, <1>12 DEF Next

\* The tree and the list of verdicts agree and keep to the configured size, unless that
\* is 0: then touchPathLru keeps no list, and nothing leaves the tree.
THEOREM TypeCorrect ==
  ASSUME CacheSize > 0
  PROVE  Spec => []TypeOK
<1>1. Init => Cached
  BY EmptySeq, LenProperties, PathWriteAssumption
  DEF Init, Cached, Empty, IsInjective, Range
<1>2. Life /\ Cached /\ [Next]_vars => Life' /\ Cached'
  BY NextLife, NextCached
<1>3. Life /\ Cached => TypeOK
  <2> SUFFICES ASSUME Life, Cached PROVE TypeOK
    OBVIOUS
  <2>1. Range(lru) \subseteq Keys
    BY LenProperties, ElementOfSeq DEF Cached, Range
  <2> QED BY <2>1 DEF Life, Cached, TypeOK
<1> QED BY <1>1, <1>2, <1>3, InitLife, PTL DEF Spec

-----------------------------------------------------------------------------
(***************************************************************************)
(* Values and paths: what a path leads to, before and after it is written. *)
(***************************************************************************)

\* f is the function GetByPath(root, path) is defined by.
Walks(f, root, path) ==
  f = [i \in 0 .. Len(path) |-> IF i = 0 THEN root ELSE Child(f[i - 1], path[i])]

LEMMA WalkIs ==
  ASSUME NEW root, NEW path, Len(path) \in 0 .. 2
  PROVE  \E f : Walks(f, root, path) /\ GetByPath(root, path) = f[Len(path)]
<1> DEFINE g == [i \in 0 .. Len(path) |->
                   IF i = 0 THEN root ELSE IF i = 1 THEN Child(root, path[1])
                   ELSE Child(Child(root, path[1]), path[2])]
<1>1. \A i \in 0 .. Len(path) : g[i] = IF i = 0 THEN root ELSE Child(g[i - 1], path[i])
  OBVIOUS
<1>2. Walks(g, root, path)
  BY <1>1 DEF Walks
<1> HIDE DEF g
<1>3. Walks(CHOOSE f : Walks(f, root, path), root, path)
  BY <1>2
<1>4. GetByPath(root, path) = (CHOOSE f : Walks(f, root, path))[Len(path)]
  BY DEF GetByPath, Walks
<1> QED BY <1>3, <1>4

LEMMA AtPath ==
  ASSUME NEW root, NEW path
  PROVE  /\ Len(path) = 0 => GetByPath(root, path) = root
         /\ Len(path) = 1 => GetByPath(root, path) = Child(root, path[1])
         /\ Len(path) = 2 => GetByPath(root, path) = Child(Child(root, path[1]), path[2])
<1> SUFFICES ASSUME Len(path) \in 0 .. 2
             PROVE  /\ Len(path) = 0 => GetByPath(root, path) = root
                    /\ Len(path) = 1 => GetByPath(root, path) = Child(root, path[1])
                    /\ Len(path) = 2 => GetByPath(root, path) = Child(Child(root, path[1]), path[2])
  OBVIOUS
<1>1. PICK f : Walks(f, root, path) /\ GetByPath(root, path) = f[Len(path)]
  BY WalkIs
<1>2. \A i \in 0 .. Len(path) : f[i] = IF i = 0 THEN root ELSE Child(f[i - 1], path[i])
  BY <1>1 DEF Walks
<1>3. f[0] = root
  BY <1>2
<1>4. Len(path) \in 1 .. 2 => f[1] = Child(f[0], path[1])
  BY <1>2
<1>5. Len(path) = 2 => f[2] = Child(f[1], path[2])
  BY <1>2
<1>6. CASE Len(path) = 0
  <2>1. GetByPath(root, path) = f[0]
    BY <1>1, <1>6
  <2> QED BY <1>3, <1>6, <2>1
<1>7. CASE Len(path) = 1
  <2>1. GetByPath(root, path) = f[1]
    BY <1>1, <1>7
  <2> QED BY <1>3, <1>4, <1>7, <2>1
<1>8. CASE Len(path) = 2
  <2>1. GetByPath(root, path) = f[2]
    BY <1>1, <1>8
  <2> QED BY <1>3, <1>4, <1>5, <1>8, <2>1
<1> QED BY <1>6, <1>7, <1>8

\* What is written at, and its key there.
Target(root, path) == IF Len(path) = 1 THEN root ELSE Child(root, path[1])
IsPath(path) == path \in Seq(Range(path)) /\ Len(path) \in {1, 2}

LEMMA FrontIs ==
  ASSUME NEW path, IsPath(path), NEW root
  PROVE  GetByPath(root, Front(path)) = Target(root, path)
<1>1. \A i \in 1 .. Len(path) - 1 : path[i] \in Range(path)
  BY ElementOfSeq DEF IsPath
<1>2. /\ Len(Front(path)) = IF 1 <= Len(path) - 1 THEN Len(path) - 1 - 1 + 1 ELSE 0
      /\ \A i \in 1 .. Len(path) - 1 - 1 + 1 : Front(path)[i] = path[1 + i - 1]
  BY <1>1, SubSeqProperties DEF IsPath, Front
<1>3. /\ Len(Front(path)) = Len(path) - 1
      /\ Len(path) = 2 => Front(path)[1] = path[1]
  <2>1. CASE Len(path) = 1
    BY <1>2, <2>1
  <2>2. CASE Len(path) = 2
    BY <1>2, <2>2
  <2> QED BY <2>1, <2>2 DEF IsPath
<1>4. CASE Len(path) = 1
  BY <1>3, <1>4, AtPath DEF Target
<1>5. CASE Len(path) = 2
  BY <1>3, <1>5, AtPath DEF Target
<1> QED BY <1>4, <1>5 DEF IsPath

\* May something be put there?
Writable(root, path) ==
  \/ Has(Target(root, path), Last(path))
  \/ Type(Target(root, path)) = "object"

LEMMA AllowedIsWritable ==
  ASSUME NEW root, NEW path, IsPath(path), NEW type, Verdict(root, path, type)
  PROVE  Writable(root, path)
BY FrontIs DEF Verdict, Writable

LEMMA OwnRange ==
  ASSUME NEW S, NEW s \in Seq(S)
  PROVE  s \in Seq(Range(s))
<1>1. Len(s) \in Nat /\ s \in [1 .. Len(s) -> S] /\ DOMAIN s = 1 .. Len(s)
  BY LenProperties
<1>2. s \in [1 .. Len(s) -> Range(s)]
  BY <1>1 DEF Range
<1> QED BY <1>1, <1>2

LEMMA DeepIs ==
  ASSUME NEW node
  PROVE  Deep(node) <=> Shaped(node) /\ \A key : Shaped(Child(node, key))
<1>1. Shaped(Undefined)
  BY DEF Shaped, Undefined, IsArray, Type
<1>2. ASSUME Deep(node), NEW key PROVE Shaped(Child(node, key))
  <2>1. CASE ~Has(node, key)
    BY <1>1, <2>1 DEF Child
  <2>2. CASE Has(node, key) /\ IsArray(node)
    BY <1>2, <2>2 DEF Deep, Has, Child, Entries, IsContainer, IsArray, IsIndex, Type
  <2>3. CASE Has(node, key) /\ ~IsArray(node)
    BY <1>2, <2>3 DEF Deep, Has, Child, Entries, IsContainer, IsArray, Type
  <2> QED BY <2>1, <2>2, <2>3
<1>3. ASSUME Shaped(node), \A key : Shaped(Child(node, key)) PROVE Deep(node)
  <2> SUFFICES ASSUME IsContainer(node), NEW k \in DOMAIN Entries(node)
               PROVE  Shaped(Entries(node)[k])
    BY <1>3 DEF Deep
  <2>1. Entries(node)[k] = Child(node, k)
    <3>1. CASE IsArray(node)
      <4>1. node[2] # <<>>
        BY <3>1 DEF Entries, Empty
      <4> QED BY <3>1, <4>1 DEF Entries, Child, Has, IsIndex, IsArray, Type
    <3>2. CASE ~IsArray(node)
      BY <3>2 DEF Entries, Child, Has, IsContainer, IsArray, Type
    <3> QED BY <3>1, <3>2
  <2> QED BY <1>3, <2>1
<1> QED BY <1>2, <1>3 DEF Deep

\* A container with one entry set, where it has that entry or is an object.
LEMMA PutIs ==
  ASSUME NEW node, Shaped(node), NEW key, Has(node, key) \/ Type(node) = "object", NEW v
  PROVE  /\ IsContainer(Put(node, key, v)) /\ Shaped(Put(node, key, v))
         /\ Child(Put(node, key, v), key) = v
         /\ \A other : other # key => Child(Put(node, key, v), other) = Child(node, other)
<1>1. CASE IsArray(node)
  <2>1. IsIndex(key) /\ node[2] # <<>> /\ node[2] \in Seq(Range(node[2]))
    BY <1>1 DEF Has, Shaped, IsArray, Type
  <2>2. PICK S : S = Range(node[2]) \cup {v}
    OBVIOUS
  <2>3. PICK rest : rest = SubSeq(node[2], 2, Len(node[2]))
    OBVIOUS
  <2>4. rest \in Seq(S)
    <3>1. Len(node[2]) \in Nat /\ \A i \in 1 .. Len(node[2]) : node[2][i] \in S
      BY <2>1, <2>2, LenProperties, ElementOfSeq
    <3>2. \A i \in 2 .. Len(node[2]) : node[2][i] \in S
      BY <3>1
    <3> QED BY <2>3, <3>1, <3>2, SubSeqProperties
  <2>5. PICK new : new = <<v>> \o rest
    OBVIOUS
  <2>6. new \in Seq(S) /\ Len(new) # 0 /\ new[1] = v
    <3>1. <<v>> \in Seq(S) /\ Len(<<v>>) = 1 /\ <<v>>[1] = v
      BY <2>2
    <3>2. /\ new \in Seq(S) /\ Len(new) = 1 + Len(rest)
          /\ \A i \in 1 .. 1 + Len(rest) : new[i] = IF i <= 1 THEN <<v>>[i] ELSE rest[i - 1]
      BY <2>4, <2>5, <3>1, ConcatProperties
    <3>3. Len(rest) \in Nat
      BY <2>4, LenProperties
    <3> QED BY <3>1, <3>2, <3>3
  <2>7. new # <<>> /\ new \in Seq(Range(new))
    BY <2>6, EmptySeq, OwnRange
  <2>8. Put(node, key, v) = <<"array", new>>
    BY <1>1, <2>1, <2>3, <2>5 DEF Put
  <2>9. PICK put : put = Put(node, key, v)
    OBVIOUS
  <2>10. put[1] = "array" /\ put[2] = new /\ put = <<put[1], put[2]>>
    BY <2>8, <2>9
  <2>11. IsContainer(put) /\ IsArray(put) /\ Shaped(put)
    BY <2>7, <2>10 DEF IsContainer, IsArray, Shaped, Type
  <2>12. Child(put, key) = v
    BY <2>1, <2>6, <2>7, <2>10, <2>11 DEF Child, Has
  <2>13. ASSUME NEW other, other # key PROVE Child(put, other) = Child(node, other)
    <3>1. ~IsIndex(other)
      BY <2>1, <2>13 DEF IsIndex
    <3>2. ~Has(put, other) /\ ~Has(node, other)
      BY <1>1, <2>11, <3>1 DEF Has, IsArray, Type
    <3> QED BY <3>2 DEF Child
  <2> QED BY <2>9, <2>11, <2>12, <2>13
<1>2. CASE ~IsArray(node)
  <2>1. Type(node) = "object" /\ node[2] = [k \in DOMAIN node[2] |-> node[2][k]]
    BY <1>2 DEF Has, Shaped
  <2>2. PICK f : f = [k \in DOMAIN node[2] \cup {key} |-> IF k = key THEN v ELSE node[2][k]]
    OBVIOUS
  <2>3. PICK put : put = Put(node, key, v)
    OBVIOUS
  <2>4. put[1] = "object" /\ put[2] = f /\ put = <<put[1], put[2]>>
    BY <1>2, <2>2, <2>3 DEF Put
  <2>5. IsContainer(put) /\ Type(put) = "object" /\ ~IsArray(put)
    BY <2>4 DEF IsContainer, Type, IsArray
  <2>6. DOMAIN f = DOMAIN node[2] \cup {key} /\ f = [k \in DOMAIN f |-> f[k]]
    BY <2>2
  <2>7. Shaped(put)
    BY <2>4, <2>5, <2>6 DEF Shaped
  <2>8. \A k : Has(put, k) <=> k = key \/ Has(node, k)
    BY <1>2, <2>1, <2>4, <2>5, <2>6 DEF Has
  <2>9. \A k : Child(put, k) = IF k = key THEN v ELSE Child(node, k)
    <3> SUFFICES ASSUME NEW k PROVE Child(put, k) = IF k = key THEN v ELSE Child(node, k)
      OBVIOUS
    <3>1. CASE ~Has(put, k)
      BY <2>8, <3>1 DEF Child
    <3>2. CASE Has(put, k)
      <4>1. k \in DOMAIN f /\ Child(put, k) = f[k]
        BY <2>4, <2>5, <3>2 DEF Has, Child
      <4>2. k # key => Child(node, k) = node[2][k]
        BY <1>2, <2>8, <3>2 DEF Child
      <4> QED BY <2>2, <2>6, <4>1, <4>2
    <3> QED BY <3>1, <3>2
  <2> QED BY <2>3, <2>5, <2>7, <2>9
<1> QED BY <1>1, <1>2

\* A path that is not related to another parts from it where they start, or at the
\* second of their keys.
LEMMA PartingIs ==
  ASSUME NEW p, IsPath(p), NEW q, IsPath(q), ~Related(p, q)
  PROVE  p[1] # q[1] \/ (Len(p) = 2 /\ Len(q) = 2 /\ p[2] # q[2])
<1> DEFINE S == Range(p) \cup Range(q)
<1>1. /\ p \in Seq(S) /\ q \in Seq(S)
      /\ \A i \in 1 .. Len(p) : p[i] \in S
      /\ \A i \in 1 .. Len(q) : q[i] \in S
  BY SeqMonotonic, ElementOfSeq DEF IsPath
<1> HIDE DEF S
<1>2. ASSUME NEW a \in Seq(S), NEW b \in Seq(S), Len(a) \in {1, 2}, Len(b) \in {1, 2},
             a[1] = b[1], Len(a) <= Len(b), Len(a) = 2 => a[2] = b[2]
      PROVE  IsPrefix(a, b)
  <2>1. \A i \in 1 .. Len(a) : a[i] \in S /\ b[i] \in S
    BY <1>2, ElementOfSeq
  <2>2. PICK n \in {1, 2} : n = Len(a)
    BY <1>2
  <2>3. /\ SubSeq(a, 1, n) \in Seq(S) /\ SubSeq(b, 1, n) \in Seq(S)
        /\ Len(SubSeq(a, 1, n)) = n /\ Len(SubSeq(b, 1, n)) = n
        /\ \A i \in 1 .. n : SubSeq(a, 1, n)[i] = a[i] /\ SubSeq(b, 1, n)[i] = b[i]
    <3>1. \A i \in 1 .. n : a[i] \in S /\ b[i] \in S
      BY <2>1, <2>2
    <3>2. /\ SubSeq(a, 1, n) \in Seq(S)
          /\ Len(SubSeq(a, 1, n)) = IF 1 <= n THEN n - 1 + 1 ELSE 0
          /\ \A i \in 1 .. n - 1 + 1 : SubSeq(a, 1, n)[i] = a[1 + i - 1]
      BY <3>1, SubSeqProperties
    <3>3. /\ SubSeq(b, 1, n) \in Seq(S)
          /\ Len(SubSeq(b, 1, n)) = IF 1 <= n THEN n - 1 + 1 ELSE 0
          /\ \A i \in 1 .. n - 1 + 1 : SubSeq(b, 1, n)[i] = b[1 + i - 1]
      BY <3>1, SubSeqProperties
    <3>4. n >= 1 /\ n - 1 + 1 = n /\ \A i \in 1 .. n : 1 + i - 1 = i
      BY <2>2
    <3> QED BY <3>2, <3>3, <3>4
  <2>4. \A i \in 1 .. n : a[i] = b[i]
    BY <1>2, <2>2
  <2>5. SubSeq(a, 1, n) = SubSeq(b, 1, n)
    BY <2>3, <2>4, SeqEqual
  <2> QED BY <1>2, <2>2, <2>5 DEF IsPrefix
<1>3. CASE Len(p) <= Len(q)
  BY <1>1, <1>2, <1>3 DEF Related, IsPath
<1>4. CASE Len(q) <= Len(p)
  BY <1>1, <1>2, <1>4 DEF Related, IsPath
<1>5. Len(p) <= Len(q) \/ Len(q) <= Len(p)
  BY DEF IsPath
<1> QED BY <1>3, <1>4, <1>5

\* Writing at a path that may be written changes what is at it, and what is at no
\* related path.
LEMMA SetIsLocal ==
  ASSUME NEW root, Deep(root), NEW path, IsPath(path), Writable(root, path), NEW v, Shaped(v)
  PROVE  /\ Deep(SetByPath(root, path, v))
         /\ GetByPath(SetByPath(root, path, v), path) = v
         /\ \A other : IsPath(other) /\ ~Related(other, path)
              => GetByPath(SetByPath(root, path, v), other) = GetByPath(root, other)
<1>1. Shaped(root) /\ \A key : Shaped(Child(root, key))
  BY DeepIs
<1>2. PICK new : new = SetByPath(root, path, v)
  OBVIOUS
\* Once the write is one of an entry of the root.
<1>3. ASSUME NEW w, Shaped(w), IsContainer(new), Shaped(new), Child(new, path[1]) = w,
             \A key : key # path[1] => Child(new, key) = Child(root, key)
      PROVE  Deep(new)
  <2>1. \A key : Shaped(Child(new, key))
    BY <1>1, <1>3
  <2> QED BY <1>3, <2>1, DeepIs
<1>4. CASE Len(path) = 1
  <2>1. Has(root, path[1]) \/ Type(root) = "object"
    BY <1>4 DEF Writable, Target, Last
  <2>2. IsContainer(root)
    BY <2>1 DEF Has, IsContainer, IsArray
  <2>3. new = Put(root, path[1], v)
    BY <1>2, <1>4, <2>2 DEF SetByPath
  <2>4. /\ IsContainer(new) /\ Shaped(new) /\ Child(new, path[1]) = v
        /\ \A key : key # path[1] => Child(new, key) = Child(root, key)
    BY <1>1, <2>1, <2>3, PutIs
  <2>5. Deep(new)
    BY <1>3, <2>4
  <2>6. GetByPath(new, path) = v
    BY <1>4, <2>4, AtPath
  <2>7. ASSUME NEW other, IsPath(other), ~Related(other, path)
        PROVE  GetByPath(new, other) = GetByPath(root, other)
    <3>1. other[1] # path[1]
      BY <1>4, <2>7, PartingIs
    <3>2. Child(new, other[1]) = Child(root, other[1])
      BY <2>4, <3>1
    <3>3. CASE Len(other) = 1
      BY <3>2, <3>3, AtPath
    <3>4. CASE Len(other) = 2
      BY <3>2, <3>4, AtPath
    <3> QED BY <2>7, <3>3, <3>4 DEF IsPath
  <2> QED BY <1>2, <2>5, <2>6, <2>7
<1>5. CASE Len(path) = 2
  <2>1. PICK inner : inner = Child(root, path[1])
    OBVIOUS
  <2>2. Has(inner, path[2]) \/ Type(inner) = "object"
    BY <1>5, <2>1 DEF Writable, Target, Last
  <2>3. IsContainer(inner)
    BY <2>2 DEF Has, IsContainer, IsArray
  <2>4. Has(root, path[1])
    BY <2>1, <2>3 DEF Child, IsContainer, Type, Undefined
  <2>5. IsContainer(root)
    BY <2>4 DEF Has, IsContainer, IsArray
  <2>6. PICK w : w = Put(inner, path[2], v)
    OBVIOUS
  <2>7. new = Put(root, path[1], w)
    BY <1>2, <1>5, <2>1, <2>3, <2>5, <2>6 DEF SetByPath, SetLast
  <2>8. /\ IsContainer(w) /\ Shaped(w) /\ Child(w, path[2]) = v
        /\ \A key : key # path[2] => Child(w, key) = Child(inner, key)
    <3>1. Shaped(inner)
      BY <1>1, <2>1
    <3> QED BY <2>2, <2>6, <3>1, PutIs
  <2>9. /\ IsContainer(new) /\ Shaped(new) /\ Child(new, path[1]) = w
        /\ \A key : key # path[1] => Child(new, key) = Child(root, key)
    BY <1>1, <2>4, <2>7, PutIs
  <2>10. Deep(new)
    BY <1>3, <2>8, <2>9
  <2>11. GetByPath(new, path) = v
    BY <1>5, <2>8, <2>9, AtPath
  <2>12. ASSUME NEW other, IsPath(other), ~Related(other, path)
         PROVE  GetByPath(new, other) = GetByPath(root, other)
    <3>1. CASE other[1] # path[1]
      <4>1. Child(new, other[1]) = Child(root, other[1])
        BY <2>9, <3>1
      <4>2. CASE Len(other) = 1
        BY <4>1, <4>2, AtPath
      <4>3. CASE Len(other) = 2
        BY <4>1, <4>3, AtPath
      <4> QED BY <2>12, <4>2, <4>3 DEF IsPath
    <3>2. CASE other[1] = path[1]
      <4>1. Len(other) = 2 /\ other[2] # path[2]
        BY <2>12, <3>2, PartingIs
      <4>2. Child(new, other[1]) = w /\ Child(root, other[1]) = inner
        BY <2>1, <2>9, <3>2
      <4>3. Child(w, other[2]) = Child(inner, other[2])
        BY <2>8, <4>1
      <4> QED BY <4>1, <4>2, <4>3, AtPath
    <3> QED BY <3>1, <3>2
  <2> QED BY <1>2, <2>10, <2>11, <2>12
<1> QED BY <1>4, <1>5 DEF IsPath

\* A merge of shaped values.
LEMMA MergeIsDeep ==
  ASSUME NEW root, Deep(root), Type(root) = "object",
         NEW partial, \A key \in DOMAIN partial : Shaped(partial[key])
  PROVE  Deep(<<"object", Spread(root[2], partial)>>)
<1>1. PICK f : f = Spread(root[2], partial)
  OBVIOUS
<1>2. /\ DOMAIN f = DOMAIN partial \cup DOMAIN root[2]
      /\ f = [key \in DOMAIN f |-> f[key]]
      /\ \A key \in DOMAIN f : f[key] = IF key \in DOMAIN partial THEN partial[key] ELSE root[2][key]
  BY <1>1 DEF Spread
<1>3. PICK node : node = <<"object", f>>
  OBVIOUS
<1>4. node[1] = "object" /\ node[2] = f /\ node = <<node[1], node[2]>>
  BY <1>3
<1>5. Shaped(node)
  BY <1>2, <1>4 DEF Shaped, IsArray, Type
<1>6. ASSUME NEW key PROVE Shaped(Child(node, key))
  <2>1. CASE ~Has(node, key)
    BY <2>1 DEF Child, Undefined, Shaped, IsArray, Type
  <2>2. CASE Has(node, key)
    <3>1. key \in DOMAIN f /\ Child(node, key) = f[key]
      BY <1>4, <2>2 DEF Has, Child, IsArray, Type
    <3>2. CASE key \in DOMAIN partial
      BY <1>2, <3>1, <3>2
    <3>3. CASE key \notin DOMAIN partial
      <4>1. key \in DOMAIN root[2] /\ f[key] = root[2][key]
        BY <1>2, <3>1, <3>3
      <4>2. Child(root, key) = root[2][key]
        BY <4>1 DEF Has, Child, IsArray, Type
      <4> QED BY <3>1, <4>1, <4>2, DeepIs
    <3> QED BY <3>2, <3>3
  <2> QED BY <2>1, <2>2
<1> QED BY <1>1, <1>3, <1>5, <1>6, DeepIs

-----------------------------------------------------------------------------
(***************************************************************************)
(* A path write while its middleware runs.  Batches write no path into a   *)
(* value they have staged, so the verdict it got is about the value it was *)
(* derived from, and no middleware changes that value behind its back.     *)
(***************************************************************************)

Deeply == Deep(value) /\ Deep(initial) /\ Deep(staged) /\ Deep(writing.next)

Waiting ==
  writing.path # <<>> =>
    /\ \E input \in PathInputs : writing.path = input[1] /\ writing.payload = input[2]
    /\ writing.action = "set" /\ staged = Missing
    /\ writing.next = SetByPath(value, writing.path, writing.payload)
    /\ Verdict(value, writing.path, Type(writing.payload))

PathInv == Life /\ CacheIsFresh /\ Deeply /\ Waiting

LEMMA InputIs ==
  ASSUME NEW input \in PathInputs
  PROVE  IsPath(input[1]) /\ Shaped(input[2])
BY InputAssumption DEF IsPath

LEMMA MarkersAreDeep == Deep(Missing) /\ Deep(Undefined) /\ NoWrite.next = Undefined /\ NoWrite.path = <<>>
BY DEF Missing, Undefined, Deep, Shaped, IsContainer, IsArray, Type, NoWrite

LEMMA InitPathInv == Init => PathInv
<1> SUFFICES ASSUME Init PROVE PathInv
  OBVIOUS
<1>1. Life /\ CacheIsFresh
  BY InitLife DEF Init, CacheIsFresh, Empty
<1>2. Deeply /\ Waiting
  BY MarkersAreDeep DEF Init, Deeply, Waiting
<1> QED BY <1>1, <1>2 DEF PathInv

\* What a path write stores is deep, and its verdict is that of the committed value.
LEMMA PathWriteStarts ==
  ASSUME ~StagedPaths, PathInv, NEW input \in PathInputs, WritePath(input[1], input[2])
  PROVE  \/ UNCHANGED <<value, initial, staged, writing>>
         \/ /\ UNCHANGED <<value, initial, staged, pathCreate>> /\ staged = Missing
            /\ writing' = Write("set", input[1], input[2], SetByPath(value, input[1], input[2]))
            /\ Verdict(value, input[1], Type(input[2]))
            /\ Deep(SetByPath(value, input[1], input[2]))
<1>1. staged = Missing /\ Current = value /\ UNCHANGED <<value, initial, pathCreate, staged>>
  BY DEF WritePath, Current, storeVars
<1>2. ValidatePathSafety(value, input[1], Type(input[2])) = Verdict(value, input[1], Type(input[2]))
  BY DEF PathInv, CacheIsFresh, ValidatePathSafety
<1>3. CASE ~Verdict(value, input[1], Type(input[2]))
  BY <1>1, <1>2, <1>3 DEF WritePath
<1>4. CASE Verdict(value, input[1], Type(input[2]))
  <2>1. writing' = Write("set", input[1], input[2], SetByPath(value, input[1], input[2]))
    BY <1>1, <1>2, <1>4 DEF WritePath
  <2>2. Writable(value, input[1])
    BY <1>4, InputIs, AllowedIsWritable
  <2>3. Deep(SetByPath(value, input[1], input[2]))
    BY <2>2, InputIs, SetIsLocal DEF PathInv, Deeply
  <2> QED BY <1>1, <1>4, <2>1, <2>3
<1> QED BY <1>3, <1>4

LEMMA StageOrCommitDeep ==
  ASSUME Deeply, NEW next, Deep(next), StageOrCommit(next),
         UNCHANGED initial, writing' \in {writing, NoWrite}
  PROVE  Deeply'
<1>1. Deep(NoWrite.next)
  BY MarkersAreDeep
<1> QED BY <1>1 DEF Deeply, StageOrCommit, CommitStoreUpdate

LEMMA NextDeeply ==
  ASSUME ~StagedPaths, PathInv, [Next]_vars
  PROVE  Deeply'
<1>0. /\ Deep(NoWrite.next) /\ Deep(Missing)
      /\ \A v \in Values : Deep(v)
      /\ Deep(value) /\ Deep(initial) /\ Deep(staged) /\ Deep(writing.next) /\ Deep(Current)
  BY MarkersAreDeep, InputAssumption DEF PathInv, Deeply, Current
<1>1. ASSUME NEW action, NEW path, NEW payload, NEW next, Deep(next),
             writing' = Write(action, path, payload, next),
             UNCHANGED <<value, initial, staged>>
      PROVE  Deeply'
  <2>1. writing'.next = next
    BY <1>1 DEF Write
  <2> QED BY <1>0, <1>1, <2>1 DEF Deeply
<1>2. ASSUME UNCHANGED <<value, initial, staged>>, writing' \in {writing, NoWrite} PROVE Deeply'
  BY <1>0, <1>2 DEF Deeply
<1>3. ASSUME NEW next, Deep(next), StageOrCommit(next), UNCHANGED initial,
             writing' \in {writing, NoWrite}
      PROVE  Deeply'
  BY <1>3, StageOrCommitDeep DEF PathInv
<1>4. ASSUME NEW v \in Values, NEW create \in BOOLEAN, CreateStore(v, create) PROVE Deeply'
  BY <1>0, <1>4 DEF CreateStore, Deeply
<1>5. ASSUME NEW v \in Values, NEW action, Replace(action, v) PROVE Deeply'
  BY <1>0, <1>1, <1>5 DEF Replace, storeVars
<1>6. ASSUME NEW v \in Values, ApplyFeatureState(v) PROVE Deeply'
  BY <1>0, <1>6 DEF ApplyFeatureState, Deeply
<1>7. ASSUME NEW v \in Values, Override(v) PROVE Deeply'
  <2>1. writing'.next = v
    BY <1>7 DEF Override
  <2> QED BY <1>0, <1>7, <2>1 DEF Override, Deeply, storeVars
<1>8. ASSUME NEW v \in Values, MiddlewareReplaces(v) PROVE Deeply'
  BY <1>0, <1>3, <1>8 DEF MiddlewareReplaces
<1>9. ASSUME NEW input \in PathInputs, WritePath(input[1], input[2]) PROVE Deeply'
  BY <1>1, <1>2, <1>9, PathWriteStarts
<1>10. ASSUME NEW partial \in Partials, Merge(partial) PROVE Deeply'
  <2>1. CASE Type(Current) = "object"
    <3>1. Deep(<<"object", Spread(Current[2], partial)>>)
      BY <1>0, <2>1, MergeIsDeep, InputAssumption
    <3> QED BY <1>1, <1>10, <2>1, <3>1 DEF Merge, storeVars
  <2>2. CASE Type(Current) # "object"
    BY <1>2, <1>10, <2>2 DEF Merge, storeVars
  <2> QED BY <2>1, <2>2
<1>11. CASE DeleteStore
  BY <1>0, <1>11 DEF DeleteStore, Deeply
<1>12. CASE ResetStore
  BY <1>0, <1>3, <1>12 DEF ResetStore
<1>13. CASE Begin \/ FailInBatch \/ Abort \/ ShortCircuit \/ UNCHANGED vars
  BY <1>2, <1>13 DEF Begin, FailInBatch, Abort, ShortCircuit, vars, storeVars
<1>14. CASE End
  BY <1>0, <1>14 DEF End, CommitStoreUpdate, Deeply
<1>15. CASE FinishWrite
  BY <1>0, <1>3, <1>15 DEF FinishWrite
<1> QED
  BY <1>4, <1>5, <1>6, <1>7, <1>8, <1>9, <1>10, <1>11, <1>12, <1>13, <1>14, <1>15 DEF Next

\* While a path write waits, nothing commits, stages or changes the option.
LEMMA NextWaiting ==
  ASSUME ~StagedPaths, ~MiddlewareCalls, PathInv, [Next]_vars
  PROVE  Waiting'
<1>1. ASSUME writing' = NoWrite PROVE Waiting'
  BY <1>1, MarkersAreDeep DEF Waiting
<1>2. ASSUME UNCHANGED writing, writing = NoWrite PROVE Waiting'
  BY <1>1, <1>2
<1>3. ASSUME UNCHANGED <<value, pathCreate, staged, writing>> PROVE Waiting'
  BY <1>3 DEF PathInv, Waiting, Verdict
<1>4. ASSUME NEW action, NEW payload, NEW next, writing' = Write(action, <<>>, payload, next)
      PROVE  Waiting'
  <2>1. writing'.path = <<>>
    BY <1>4 DEF Write
  <2> QED BY <2>1 DEF Waiting
<1>5. ASSUME NEW v, NEW create, CreateStore(v, create) PROVE Waiting'
  BY <1>2, <1>5 DEF CreateStore, PathInv, Life
<1>6. ASSUME NEW v, NEW action, Replace(action, v) PROVE Waiting'
  BY <1>4, <1>6 DEF Replace
<1>7. ASSUME NEW v, ApplyFeatureState(v) PROVE Waiting'
  BY <1>2, <1>7 DEF ApplyFeatureState
<1>8. ASSUME NEW v, Override(v) PROVE Waiting'
  <2>1. writing'.path = <<>>
    <3>1. writing' = [writing EXCEPT !.path = <<>>, !.payload = Undefined, !.next = v]
      BY <1>8 DEF Override
    <3>2. CASE "path" \in DOMAIN writing
      BY <3>1, <3>2
    <3> QED BY <3>1, <3>2
  <2> QED BY <2>1 DEF Waiting
<1>9. ASSUME NEW v, MiddlewareReplaces(v) PROVE Waiting'
  <2>1. writing.action = "replace" /\ UNCHANGED writing
    BY <1>9 DEF MiddlewareReplaces
  <2> QED BY <2>1 DEF PathInv, Waiting
<1>10. ASSUME NEW input \in PathInputs, WritePath(input[1], input[2]) PROVE Waiting'
  <2>1. CASE UNCHANGED writing
    BY <1>2, <1>10, <2>1 DEF WritePath
  <2>2. CASE /\ UNCHANGED <<value, pathCreate, staged>> /\ staged = Missing
             /\ writing' = Write("set", input[1], input[2], SetByPath(value, input[1], input[2]))
             /\ Verdict(value, input[1], Type(input[2]))
    <3>1. /\ writing'.path = input[1] /\ writing'.payload = input[2] /\ writing'.action = "set"
          /\ writing'.next = SetByPath(value, input[1], input[2])
      BY <2>2 DEF Write
    <3>2. SetByPath(value, input[1], input[2])' = SetByPath(value, input[1], input[2])
      BY <2>2
    <3>3. Verdict(value, input[1], Type(input[2]))'
      BY <2>2 DEF Verdict
    <3> QED BY <2>2, <3>1, <3>2, <3>3 DEF Waiting
  <2> QED BY <1>10, <2>1, <2>2, PathWriteStarts
<1>11. ASSUME NEW partial, Merge(partial) PROVE Waiting'
  BY <1>2, <1>4, <1>11 DEF Merge
<1>12. CASE DeleteStore \/ ResetStore \/ FailInBatch \/ Begin \/ End
  BY <1>2, <1>12 DEF DeleteStore, ResetStore, FailInBatch, Begin, End
<1>13. CASE Abort \/ ShortCircuit \/ FinishWrite
  BY <1>1, <1>13 DEF Abort, ShortCircuit, FinishWrite
<1>14. CASE UNCHANGED vars
  BY <1>3, <1>14 DEF vars, storeVars
<1> QED
  BY <1>5, <1>6, <1>7, <1>8, <1>9, <1>10, <1>11, <1>12, <1>13, <1>14 DEF Next

\* The step that ends a path write and changes the store is its commit.
LEMMA StoredIsLocal ==
  ASSUME PathInv, [Next]_vars, writing.path # <<>>, writing' = NoWrite, Current' # Current
  PROVE  LET old == GetByPath(Current, writing.path) IN
         /\ GetByPath(Current', writing.path) = writing.payload
         /\ pathCreate \/ Has(GetByPath(Current, Front(writing.path)), Last(writing.path))
         /\ old \in {Undefined, Null} \/ Type(old) = Type(writing.payload)
         /\ \A path \in Paths : Related(path, writing.path) \/
              GetByPath(Current', path) = GetByPath(Current, path)
<1>1. writing # NoWrite
  BY MarkersAreDeep
<1>2. value # Missing
  BY <1>1 DEF PathInv, Life
<1>3. FinishWrite
  <2>1. Current' = Current \/ FinishWrite
    BY <1>1, <1>2 DEF Next, CreateStore, Replace, ApplyFeatureState, Override, MiddlewareReplaces,
       WritePath, Merge, DeleteStore, ResetStore, Begin, FailInBatch, End, Abort, ShortCircuit,
       vars, storeVars, Current
  <2> QED BY <2>1
<1>4. PICK input \in PathInputs : writing.path = input[1] /\ writing.payload = input[2]
  BY DEF PathInv, Waiting
<1>5. /\ Current = value /\ Verdict(value, input[1], Type(input[2])) /\ Deep(value)
      /\ writing.next = SetByPath(value, input[1], input[2])
  BY <1>4 DEF PathInv, Waiting, Deeply, Current
<1>6. Current' = SetByPath(value, input[1], input[2])
  <2>1. writing.next # Missing /\ staged = Missing
    BY DEF PathInv, Life, Waiting
  <2> QED BY <1>3, <1>5, <2>1 DEF FinishWrite, StageOrCommit, CommitStoreUpdate, Current
<1>7. IsPath(input[1]) /\ Shaped(input[2])
  BY InputIs
<1>8. Writable(value, input[1])
  BY <1>5, <1>7, AllowedIsWritable
<1>9. /\ GetByPath(SetByPath(value, input[1], input[2]), input[1]) = input[2]
      /\ \A other : IsPath(other) /\ ~Related(other, input[1])
           => GetByPath(SetByPath(value, input[1], input[2]), other) = GetByPath(value, other)
  BY <1>5, <1>7, <1>8, SetIsLocal
<1>10. \A path \in Paths : IsPath(path)
  BY InputIs DEF Paths
<1>11. /\ pathCreate \/ Has(GetByPath(value, Front(input[1])), Last(input[1]))
       /\ \/ GetByPath(value, input[1]) \in {Undefined, Null}
          \/ Type(GetByPath(value, input[1])) = Type(input[2])
  <2>1. GetByPath(value, input[1]) = Child(GetByPath(value, Front(input[1])), Last(input[1]))
    <3>1. GetByPath(value, Front(input[1])) = Target(value, input[1])
      BY <1>7, FrontIs
    <3>2. CASE Len(input[1]) = 1
      BY <3>1, <3>2, AtPath DEF Target, Last
    <3>3. CASE Len(input[1]) = 2
      BY <3>1, <3>3, AtPath DEF Target, Last
    <3> QED BY <1>7, <3>2, <3>3 DEF IsPath
  <2>2. CASE Has(GetByPath(value, Front(input[1])), Last(input[1]))
    BY <1>5, <2>1, <2>2 DEF Verdict
  <2>3. CASE ~Has(GetByPath(value, Front(input[1])), Last(input[1]))
    BY <1>5, <2>1, <2>3 DEF Verdict, Child
  <2> QED BY <2>2, <2>3
<1> QED BY <1>4, <1>5, <1>6, <1>9, <1>10, <1>11

\* A path write that is stored puts its value at its path and leaves every unrelated path
\* as it was, for any values, any paths and any cache: the verdict it was let
\* through by may come from the cache, and is about the value it is put into.
THEOREM PathWritesAreLocal ==
  ASSUME ~StagedPaths, ~MiddlewareCalls
  PROVE  Spec => PathWriteIsLocal
<1>1. PathInv /\ [Next]_vars => PathInv'
  BY NextLife, StepKeepsFresh, NextDeeply, NextWaiting DEF PathInv
<1>2. PathInv /\ [Next]_vars =>
        [(writing.path # <<>> /\ writing' = NoWrite /\ Current' # Current) =>
           LET old == GetByPath(Current, writing.path) IN
           /\ GetByPath(Current', writing.path) = writing.payload
           /\ pathCreate \/ Has(GetByPath(Current, Front(writing.path)), Last(writing.path))
           /\ old \in {Undefined, Null} \/ Type(old) = Type(writing.payload)
           /\ \A path \in Paths : Related(path, writing.path) \/
                GetByPath(Current', path) = GetByPath(Current, path)]_vars
  BY StoredIsLocal
<1> QED BY <1>1, <1>2, InitPathInv, PTL DEF Spec, PathWriteIsLocal
=============================================================================
