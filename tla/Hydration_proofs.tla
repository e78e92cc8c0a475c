-------------------------- MODULE Hydration_proofs --------------------------
(***************************************************************************)
(* Proofs about Hydration: its types, its policies, its notifications, and *)
(* that the boot window changes nothing but the time (AsIfImmediate).      *)
(*                                                                         *)
(* What a queue of deferred writes makes of the stores is defined by       *)
(* recursion on its length.  The induction this takes is over a set of     *)
(* sequences: one that holds <<>>, and with a sequence all its extensions, *)
(* holds all sequences.                                                    *)
(***************************************************************************)
EXTENDS Hydration, SequenceTheorems, WellFoundedInduction, TLAPS

-----------------------------------------------------------------------------
(***************************************************************************)
(* Induction.                                                              *)
(***************************************************************************)

\* A set of naturals that is not empty has a least member.
LEMMA LeastExists ==
  ASSUME NEW S \in SUBSET Nat, S # {}
  PROVE  \E i \in S : \A j \in S : i <= j
<1>1. PICK R : R = OpToRel(<, Nat)
  OBVIOUS
<1>2. IsWellFoundedOn(R, Nat)
  BY <1>1, NatLessThanWellFounded
<1>3. \A i, j \in Nat : i < j => <<i, j>> \in R
  BY <1>1 DEF OpToRel
<1>4. PICK i \in S : \A j \in S : <<j, i>> \notin R
  BY <1>2, WFMin
<1>5. \A j \in S : ~(j < i)
  BY <1>3, <1>4
<1> QED BY <1>5

\* A set of naturals that holds 0, and with a number its successor, holds them all.
LEMMA Counting ==
  ASSUME NEW P \in SUBSET Nat, 0 \in P, \A n \in P : n + 1 \in P
  PROVE  P = Nat
<1> SUFFICES ASSUME Nat \ P # {} PROVE FALSE
  OBVIOUS
<1>1. PICK n \in Nat \ P : \A m \in Nat \ P : n <= m
  BY LeastExists
<1>2. n - 1 \in Nat /\ ~(n <= n - 1)
  BY <1>1
<1>3. n - 1 \in P
  BY <1>1, <1>2
<1> QED BY <1>1, <1>3

\* The same for sequences: one more element at a time.
LEMMA Extending ==
  ASSUME NEW S, NEW P \in SUBSET Seq(S), <<>> \in P,
         \A q \in P, e \in S : Append(q, e) \in P
  PROVE  P = Seq(S)
<1> DEFINE done == {n \in Nat : \A q \in Seq(S) : Len(q) = n => q \in P}
<1>1. 0 \in done
  BY EmptySeq
<1>2. ASSUME NEW n \in done PROVE n + 1 \in done
  <2> SUFFICES ASSUME NEW q \in Seq(S), Len(q) = n + 1 PROVE q \in P
    BY <1>2
  <2>1. q # <<>>
    BY <1>2, EmptySeq
  <2>2. PICK front \in Seq(S), last \in S : q = Append(front, last)
    BY <2>1, SequenceEmptyOrAppend
  <2>3. Len(front) = n
    BY <1>2, <2>2, AppendProperties, LenProperties
  <2> QED BY <1>2, <2>2, <2>3
<1>3. done = Nat
  BY <1>1, <1>2, Counting
<1> QED BY <1>3, LenProperties

-----------------------------------------------------------------------------
(***************************************************************************)
(* Replaying and dropping deferred writes, one write at a time.            *)
(***************************************************************************)

\* f is the function Replay(st, ws) is defined by, up to n.
Replays(f, st, ws, n) == f = [i \in 0 .. n |-> IF i = 0 THEN st ELSE ReplayOne(f[i - 1], ws[i])]

LEMMA ReplaysExists ==
  ASSUME NEW st, NEW ws, NEW m \in Nat
  PROVE  \E f : Replays(f, st, ws, m)
<1> DEFINE good == {n \in Nat : \E f : Replays(f, st, ws, n)}
<1>1. 0 \in good
  <2>1. Replays([i \in 0 .. 0 |-> st], st, ws, 0)
    BY DEF Replays
  <2> QED BY <2>1
<1>2. ASSUME NEW n \in good PROVE n + 1 \in good
  <2>1. PICK f : Replays(f, st, ws, n)
    BY <1>2
  <2> DEFINE g == [i \in 0 .. n + 1 |-> IF i = n + 1 THEN ReplayOne(f[n], ws[n + 1]) ELSE f[i]]
  <2>2. \A i \in 0 .. n : f[i] = IF i = 0 THEN st ELSE ReplayOne(f[i - 1], ws[i])
    BY <2>1 DEF Replays
  <2>3. \A i \in 0 .. n + 1 : g[i] = IF i = 0 THEN st ELSE ReplayOne(g[i - 1], ws[i])
    BY <2>2
  <2>4. Replays(g, st, ws, n + 1)
    BY <2>3 DEF Replays
  <2> QED BY <1>2, <2>4
<1>3. good = Nat
  BY <1>1, <1>2, Counting
<1> QED BY <1>3

\* It is unique, also in the part that two of them share.
LEMMA ReplaysUnique ==
  ASSUME NEW st, NEW ws, NEW vs, NEW m \in Nat, NEW n \in Nat, m <= n,
         \A i \in 1 .. m : ws[i] = vs[i],
         NEW f, Replays(f, st, ws, m), NEW g, Replays(g, st, vs, n)
  PROVE  \A i \in 0 .. m : f[i] = g[i]
<1> DEFINE good == {i \in Nat : i <= m => f[i] = g[i]}
<1>1. /\ \A i \in 0 .. m : f[i] = IF i = 0 THEN st ELSE ReplayOne(f[i - 1], ws[i])
      /\ \A i \in 0 .. n : g[i] = IF i = 0 THEN st ELSE ReplayOne(g[i - 1], vs[i])
  BY DEF Replays
<1>2. 0 \in good
  BY <1>1
<1>3. ASSUME NEW i \in good PROVE i + 1 \in good
  <2> SUFFICES ASSUME i + 1 <= m PROVE f[i + 1] = g[i + 1]
    BY <1>3
  <2>1. f[i] = g[i]
    BY <1>3
  <2>2. f[i + 1] = ReplayOne(f[i], ws[i + 1]) /\ g[i + 1] = ReplayOne(g[i], vs[i + 1])
    BY <1>1, <1>3
  <2> QED BY <2>1, <2>2, <1>3
<1>4. good = Nat
  BY <1>2, <1>3, Counting
<1> QED BY <1>4

LEMMA ReplayIs ==
  ASSUME NEW S, NEW st, NEW ws \in Seq(S)
  PROVE  \E f : Replays(f, st, ws, Len(ws)) /\ Replay(st, ws) = f[Len(ws)]
<1>1. Len(ws) \in Nat
  BY LenProperties
<1>2. Replays(CHOOSE f : Replays(f, st, ws, Len(ws)), st, ws, Len(ws))
  BY <1>1, ReplaysExists
<1>3. Replay(st, ws) = (CHOOSE f : Replays(f, st, ws, Len(ws)))[Len(ws)]
  BY DEF Replay, Replays
<1> QED BY <1>2, <1>3

LEMMA ReplayEmpty ==
  ASSUME NEW st
  PROVE  Replay(st, <<>>) = st
<1>1. <<>> \in Seq(Write) /\ Len(<<>>) = 0
  BY EmptySeq
<1>2. PICK f : Replays(f, st, <<>>, 0) /\ Replay(st, <<>>) = f[0]
  BY <1>1, ReplayIs
<1> QED BY <1>2 DEF Replays

\* One write more is replayed last.
LEMMA ReplayAppend ==
  ASSUME NEW S, NEW st, NEW ws \in Seq(S), NEW w \in S
  PROVE  Replay(st, Append(ws, w)) = ReplayOne(Replay(st, ws), w)
<1> DEFINE more == Append(ws, w)
           n == Len(ws)
<1>1. /\ more \in Seq(S) /\ n \in Nat /\ Len(more) = n + 1
      /\ \A i \in 1 .. n : ws[i] = more[i]
      /\ more[n + 1] = w
  BY AppendProperties, LenProperties
<1> HIDE DEF more
<1>2. PICK f : Replays(f, st, ws, n) /\ Replay(st, ws) = f[n]
  BY ReplayIs
<1>3. PICK g : Replays(g, st, more, n + 1) /\ Replay(st, more) = g[n + 1]
  BY <1>1, ReplayIs
<1> HIDE DEF n
<1>4. f[n] = g[n]
  <2>1. n <= n + 1 /\ n + 1 \in Nat /\ n \in 0 .. n
    BY <1>1
  <2> QED BY <1>1, <1>2, <1>3, <2>1, ReplaysUnique
<1>5. g[n + 1] = ReplayOne(g[n], w)
  BY <1>1, <1>3 DEF Replays
<1>6. Replay(st, more) = ReplayOne(Replay(st, ws), w)
  BY <1>2, <1>3, <1>4, <1>5
<1> QED BY <1>6 DEF more
\* The same for the writes that are left when those of a store are dropped.
Keeps(f, s, ws, n) == f = [i \in 0 .. n |-> IF i = 0 THEN <<>> ELSE KeepOther(f[i - 1], ws[i], s)]

LEMMA KeepsExists ==
  ASSUME NEW s, NEW ws, NEW m \in Nat
  PROVE  \E f : Keeps(f, s, ws, m)
<1> DEFINE good == {n \in Nat : \E f : Keeps(f, s, ws, n)}
<1>1. 0 \in good
  <2>1. Keeps([i \in 0 .. 0 |-> <<>>], s, ws, 0)
    BY DEF Keeps
  <2> QED BY <2>1
<1>2. ASSUME NEW n \in good PROVE n + 1 \in good
  <2>1. PICK f : Keeps(f, s, ws, n)
    BY <1>2
  <2> DEFINE g == [i \in 0 .. n + 1 |-> IF i = n + 1 THEN KeepOther(f[n], ws[n + 1], s) ELSE f[i]]
  <2>2. \A i \in 0 .. n : f[i] = IF i = 0 THEN <<>> ELSE KeepOther(f[i - 1], ws[i], s)
    BY <2>1 DEF Keeps
  <2>3. \A i \in 0 .. n + 1 : g[i] = IF i = 0 THEN <<>> ELSE KeepOther(g[i - 1], ws[i], s)
    BY <2>2
  <2>4. Keeps(g, s, ws, n + 1)
    BY <2>3 DEF Keeps
  <2> QED BY <1>2, <2>4
<1>3. good = Nat
  BY <1>1, <1>2, Counting
<1> QED BY <1>3

LEMMA KeepsUnique ==
  ASSUME NEW s, NEW ws, NEW vs, NEW m \in Nat, NEW n \in Nat, m <= n,
         \A i \in 1 .. m : ws[i] = vs[i],
         NEW f, Keeps(f, s, ws, m), NEW g, Keeps(g, s, vs, n)
  PROVE  \A i \in 0 .. m : f[i] = g[i]
<1> DEFINE good == {i \in Nat : i <= m => f[i] = g[i]}
<1>1. /\ \A i \in 0 .. m : f[i] = IF i = 0 THEN <<>> ELSE KeepOther(f[i - 1], ws[i], s)
      /\ \A i \in 0 .. n : g[i] = IF i = 0 THEN <<>> ELSE KeepOther(g[i - 1], vs[i], s)
  BY DEF Keeps
<1>2. 0 \in good
  BY <1>1
<1>3. ASSUME NEW i \in good PROVE i + 1 \in good
  <2> SUFFICES ASSUME i + 1 <= m PROVE f[i + 1] = g[i + 1]
    BY <1>3
  <2>1. f[i] = g[i]
    BY <1>3
  <2>2. f[i + 1] = KeepOther(f[i], ws[i + 1], s) /\ g[i + 1] = KeepOther(g[i], vs[i + 1], s)
    BY <1>1, <1>3
  <2> QED BY <2>1, <2>2, <1>3
<1>4. good = Nat
  BY <1>2, <1>3, Counting
<1> QED BY <1>4

LEMMA OthersIs ==
  ASSUME NEW S, NEW s, NEW ws \in Seq(S)
  PROVE  \E f : Keeps(f, s, ws, Len(ws)) /\ Others(ws, s) = f[Len(ws)]
<1>1. Len(ws) \in Nat
  BY LenProperties
<1>2. Keeps(CHOOSE f : Keeps(f, s, ws, Len(ws)), s, ws, Len(ws))
  BY <1>1, KeepsExists
<1>3. Others(ws, s) = (CHOOSE f : Keeps(f, s, ws, Len(ws)))[Len(ws)]
  BY DEF Others, Keeps
<1> QED BY <1>2, <1>3

LEMMA OthersEmpty ==
  ASSUME NEW s
  PROVE  Others(<<>>, s) = <<>>
<1>1. <<>> \in Seq(Write) /\ Len(<<>>) = 0
  BY EmptySeq
<1>2. PICK f : Keeps(f, s, <<>>, 0) /\ Others(<<>>, s) = f[0]
  BY <1>1, OthersIs
<1> QED BY <1>2 DEF Keeps

LEMMA OthersAppend ==
  ASSUME NEW S, NEW s, NEW ws \in Seq(S), NEW w \in S
  PROVE  Others(Append(ws, w), s) = KeepOther(Others(ws, s), w, s)
<1> DEFINE more == Append(ws, w)
           n == Len(ws)
<1>1. /\ more \in Seq(S) /\ n \in Nat /\ Len(more) = n + 1
      /\ \A i \in 1 .. n : ws[i] = more[i]
      /\ more[n + 1] = w
  BY AppendProperties, LenProperties
<1> HIDE DEF more
<1>2. PICK f : Keeps(f, s, ws, n) /\ Others(ws, s) = f[n]
  BY OthersIs
<1>3. PICK g : Keeps(g, s, more, n + 1) /\ Others(more, s) = g[n + 1]
  BY <1>1, OthersIs
<1> HIDE DEF n
<1>4. f[n] = g[n]
  <2>1. n <= n + 1 /\ n + 1 \in Nat /\ n \in 0 .. n
    BY <1>1
  <2> QED BY <1>1, <1>2, <1>3, <2>1, KeepsUnique
<1>5. g[n + 1] = KeepOther(g[n], w, s)
  BY <1>1, <1>3 DEF Keeps
<1>6. Others(more, s) = KeepOther(Others(ws, s), w, s)
  BY <1>2, <1>3, <1>4, <1>5
<1> QED BY <1>6 DEF more

-----------------------------------------------------------------------------
(***************************************************************************)
(* What one write, and a queue of them, makes of the stores.               *)
(***************************************************************************)

\* Store st obeys its policy (PolicyHolds, of one store).
Obeys(st) ==
  LET e == st.entry
  IN  /\ e.policy = "server_wins" => st.value = e.baseline
      /\ e.policy = "merge" => e.baseline \subseteq st.value
      /\ e.policy = "invalidate_and_refetch" => (e.invalidated <=> st.value # e.baseline)

LEMMA EntryFields ==
  ASSUME NEW e \in Entry \cup {NoEntry}
  PROVE  /\ e = NoEntry => e.policy = "none"
         /\ e # NoEntry => /\ e \in Entry
                            /\ e.policy \in Policies /\ e.baseline \in Values
                            /\ e.invalidated \in BOOLEAN /\ e.valid \in BOOLEAN
  BY DEF Entry, NoEntry

\* A reconciled store obeys its policy, whatever it did before.
LEMMA Reconciling ==
  ASSUME NEW s \in Stores, NEW st \in Store, NEW v \in Values, NEW source,
         NEW r, r = ReconcileValue(s, st, v, source)
  PROVE  /\ r \in Store
         /\ Obeys(r)
         /\ r.initial = st.initial
         /\ r.entry = NoEntry <=> st.entry = NoEntry
<1> DEFINE e == st.entry
<1>1. /\ st = [value |-> st.value, initial |-> st.initial, entry |-> e]
      /\ st.value \in Values /\ st.initial \in Values /\ e \in Entry \cup {NoEntry}
  BY DEF Store
<1>2. CASE e = NoEntry
  <2>1. r = [value |-> v, initial |-> st.initial, entry |-> e]
    BY <1>1, <1>2 DEF ReconcileValue
  <2> QED BY <1>1, <1>2, <2>1, EntryFields DEF Store, Obeys
<1>3. CASE e # NoEntry
  <2>1. /\ e \in Entry
        /\ e = [policy |-> e.policy, baseline |-> e.baseline,
                invalidated |-> e.invalidated, valid |-> e.valid]
        /\ e.policy \in Policies /\ e.baseline \in Values
        /\ e.invalidated \in BOOLEAN /\ e.valid \in BOOLEAN
    BY <1>1, <1>3 DEF Entry
  <2>2. \E b \in Values, x \in Values, i \in BOOLEAN :
           /\ r = [value |-> x, initial |-> st.initial,
                   entry |-> [policy |-> e.policy, baseline |-> b, invalidated |-> i, valid |-> e.valid]]
           /\ e.policy = "server_wins" => x = b
           /\ e.policy = "merge" => b \subseteq x
           /\ e.policy = "invalidate_and_refetch" => (i <=> x # b)
    <3>1. CASE e.policy = "invalidate_and_refetch" /\ source = "network"
      <4>1. r = [value |-> v, initial |-> st.initial,
                 entry |-> [policy |-> e.policy, baseline |-> v, invalidated |-> FALSE, valid |-> e.valid]]
        BY <1>1, <1>3, <2>1, <3>1 DEF ReconcileValue
      <4> QED BY <3>1, <4>1
    <3>2. CASE ~(e.policy = "invalidate_and_refetch" /\ source = "network") /\ v = e.baseline
      <4>1. r = [value |-> v, initial |-> st.initial,
                 entry |-> [policy |-> e.policy, baseline |-> e.baseline, invalidated |-> FALSE,
                            valid |-> e.valid]]
        BY <1>1, <1>3, <2>1, <3>2 DEF ReconcileValue
      <4> QED BY <2>1, <3>2, <4>1
    <3>3. CASE ~(e.policy = "invalidate_and_refetch" /\ source = "network") /\ v # e.baseline
      <4> DEFINE i == e.invalidated \/ e.policy = "invalidate_and_refetch"
                 x == Resolved(s, e, v)
      <4>1. r = [value |-> x, initial |-> st.initial,
                 entry |-> [policy |-> e.policy, baseline |-> e.baseline, invalidated |-> i,
                            valid |-> e.valid]]
        BY <1>1, <1>3, <2>1, <3>3 DEF ReconcileValue
      <4>2. x \in Values /\ i \in BOOLEAN
        BY <2>1 DEF Resolved, Policies, Values
      <4>3. /\ e.policy = "server_wins" => x = e.baseline
            /\ e.policy = "merge" => e.baseline \subseteq x
            /\ e.policy = "invalidate_and_refetch" => i /\ x = v
        BY DEF Resolved
      <4> QED BY <2>1, <3>3, <4>1, <4>2, <4>3
    <3> QED BY <3>1, <3>2, <3>3
  <2>3. PICK b \in Values, x \in Values, i \in BOOLEAN :
           /\ r = [value |-> x, initial |-> st.initial,
                   entry |-> [policy |-> e.policy, baseline |-> b, invalidated |-> i, valid |-> e.valid]]
           /\ e.policy = "server_wins" => x = b
           /\ e.policy = "merge" => b \subseteq x
           /\ e.policy = "invalidate_and_refetch" => (i <=> x # b)
    BY <2>2
  <2>4. r.entry \in Entry /\ r.entry # NoEntry
    BY <2>1, <2>3 DEF Entry, NoEntry
  <2>5. r \in Store /\ r.initial = st.initial
    BY <1>1, <2>3, <2>4 DEF Store
  <2>6. Obeys(r)
    BY <2>3 DEF Obeys
  <2> QED BY <1>3, <2>4, <2>5, <2>6
<1> QED BY <1>2, <1>3

\* The same of a write, which asks for a value of its kind.
LEMMA Writing ==
  ASSUME NEW st \in Store, NEW w \in Write,
         NEW r, r = ApplyWrite(st, w)
  PROVE  /\ r \in Store
         /\ Obeys(r)
         /\ r.initial = st.initial
         /\ r.entry = NoEntry <=> st.entry = NoEntry
<1>1. w.store \in Stores /\ w.key \in Keys /\ w.kind \in Kinds
  BY DEF Write
<1>2. Wanted(st, w) \in Values
  BY <1>1 DEF Store, Wanted, Values, Kinds
<1> QED BY <1>1, <1>2, Reconciling DEF ApplyWrite

\* A replayed write changes its own store.
LEMMA ReplayingOne ==
  ASSUME NEW st \in [Stores -> Store], NEW w \in Write,
         NEW r, r = ReplayOne(st, w)
  PROVE  /\ r \in [Stores -> Store]
         /\ r[w.store] = ApplyWrite(st[w.store], w)
         /\ \A t \in Stores \ {w.store} : r[t] = st[t]
<1>1. w.store \in Stores
  BY DEF Write
<1>2. ApplyWrite(st[w.store], w) \in Store
  BY <1>1, Writing
<1> QED BY <1>1, <1>2 DEF ReplayOne

\* A queue of them changes the stores of its writes, whose entries stay, and which obey
\* their policies if they did.
LEMMA Replaying ==
  ASSUME NEW st \in [Stores -> Store], NEW ws \in Seq(Write),
         NEW r, r = Replay(st, ws)
  PROVE  /\ r \in [Stores -> Store]
         /\ \A t \in Stores : /\ r[t].initial = st[t].initial
                              /\ r[t].entry = NoEntry <=> st[t].entry = NoEntry
                              /\ Obeys(st[t]) => Obeys(r[t])
                              /\ (\A i \in 1 .. Len(ws) : ws[i].store # t) => r[t] = st[t]
<1> DEFINE Good(q) ==
             /\ Replay(st, q) \in [Stores -> Store]
             /\ \A t \in Stores :
                  /\ Replay(st, q)[t].initial = st[t].initial
                  /\ Replay(st, q)[t].entry = NoEntry <=> st[t].entry = NoEntry
                  /\ Obeys(st[t]) => Obeys(Replay(st, q)[t])
                  /\ (\A i \in 1 .. Len(q) : q[i].store # t) => Replay(st, q)[t] = st[t]
           good == {q \in Seq(Write) : Good(q)}
<1>1. <<>> \in good
  BY ReplayEmpty, EmptySeq
<1>2. ASSUME NEW q \in good, NEW w \in Write PROVE Append(q, w) \in good
  <2> DEFINE more == Append(q, w)
             before == Replay(st, q)
             after == Replay(st, more)
  <2>1. /\ more \in Seq(Write) /\ Len(q) \in Nat /\ Len(more) = Len(q) + 1
        /\ \A i \in 1 .. Len(q) : more[i] = q[i]
        /\ more[Len(q) + 1] = w
    BY AppendProperties, LenProperties
  <2>2. after = ReplayOne(before, w)
    BY ReplayAppend
  <2>3. Good(q)
    BY <1>2
  <2> HIDE DEF more, before, after
  <2>4. before \in [Stores -> Store]
    BY <2>3 DEF before
  <2>5. /\ after \in [Stores -> Store]
        /\ after[w.store] = ApplyWrite(before[w.store], w)
        /\ \A t \in Stores \ {w.store} : after[t] = before[t]
    BY <2>2, <2>4, ReplayingOne
  <2>6. ASSUME NEW t \in Stores
        PROVE  /\ after[t].initial = st[t].initial
               /\ after[t].entry = NoEntry <=> st[t].entry = NoEntry
               /\ Obeys(st[t]) => Obeys(after[t])
               /\ (\A i \in 1 .. Len(more) : more[i].store # t) => after[t] = st[t]
    <3>1. /\ before[t].initial = st[t].initial
          /\ before[t].entry = NoEntry <=> st[t].entry = NoEntry
          /\ Obeys(st[t]) => Obeys(before[t])
          /\ (\A i \in 1 .. Len(q) : q[i].store # t) => before[t] = st[t]
      BY <2>3 DEF before
    <3>2. CASE t = w.store
      <4>1. /\ Obeys(after[t])
            /\ after[t].initial = before[t].initial
            /\ after[t].entry = NoEntry <=> before[t].entry = NoEntry
        BY <2>4, <2>5, <3>2, Writing
      <4>2. \E i \in 1 .. Len(more) : more[i].store = t
        BY <2>1, <3>2
      <4> QED BY <3>1, <4>1, <4>2
    <3>3. CASE t # w.store
      <4>1. after[t] = before[t]
        BY <2>5, <3>3
      <4>2. (\A i \in 1 .. Len(more) : more[i].store # t) => \A i \in 1 .. Len(q) : q[i].store # t
        BY <2>1
      <4> QED BY <3>1, <4>1, <4>2
    <3> QED BY <3>2, <3>3
  <2>7. Good(more)
    BY <2>5, <2>6 DEF after
  <2> QED BY <2>1, <2>7 DEF more
<1>3. good = Seq(Write)
  <2> HIDE DEF good
  <2>1. good \in SUBSET Seq(Write)
    BY DEF good
  <2> QED BY <1>1, <1>2, <2>1, Extending
<1> QED BY <1>3

\* What becomes of a store depends on that store alone.
LEMMA ReplayIsLocal ==
  ASSUME NEW st \in [Stores -> Store], NEW su \in [Stores -> Store], NEW t \in Stores,
         st[t] = su[t], NEW ws \in Seq(Write)
  PROVE  Replay(st, ws)[t] = Replay(su, ws)[t]
<1> DEFINE good == {q \in Seq(Write) : Replay(st, q)[t] = Replay(su, q)[t]}
<1>1. <<>> \in good
  BY ReplayEmpty, EmptySeq
<1>2. ASSUME NEW q \in good, NEW w \in Write PROVE Append(q, w) \in good
  <2>1. Append(q, w) \in Seq(Write)
    BY AppendProperties
  <2>2. /\ Replay(st, Append(q, w)) = ReplayOne(Replay(st, q), w)
        /\ Replay(su, Append(q, w)) = ReplayOne(Replay(su, q), w)
    BY ReplayAppend
  <2>3. PICK a, b : a = Replay(st, q) /\ b = Replay(su, q)
    OBVIOUS
  <2>4. a \in [Stores -> Store] /\ b \in [Stores -> Store] /\ a[t] = b[t]
    BY <1>2, <2>3, Replaying
  <2>5. /\ ReplayOne(a, w)[w.store] = ApplyWrite(a[w.store], w)
        /\ \A u \in Stores \ {w.store} : ReplayOne(a, w)[u] = a[u]
    BY <2>4, ReplayingOne
  <2>6. /\ ReplayOne(b, w)[w.store] = ApplyWrite(b[w.store], w)
        /\ \A u \in Stores \ {w.store} : ReplayOne(b, w)[u] = b[u]
    BY <2>4, ReplayingOne
  <2>7. ReplayOne(a, w)[t] = ReplayOne(b, w)[t]
    BY <2>4, <2>5, <2>6
  <2> QED BY <2>1, <2>2, <2>3, <2>7
<1>3. good = Seq(Write)
  <2> HIDE DEF good
  <2>1. good \in SUBSET Seq(Write)
    BY DEF good
  <2> QED BY <1>1, <1>2, <2>1, Extending
<1> QED BY <1>3

\* Dropping the writes of store s leaves writes of the queue, and none of s.
LEMMA Dropping ==
  ASSUME NEW S \in SUBSET Write, NEW ws \in Seq(S), NEW s
  PROVE  /\ Others(ws, s) \in Seq(S)
         /\ \A i \in 1 .. Len(Others(ws, s)) :
              /\ Others(ws, s)[i].store # s
              /\ \E j \in 1 .. Len(ws) : Others(ws, s)[i] = ws[j]
<1> DEFINE Good(q) ==
             /\ Others(q, s) \in Seq(S)
             /\ \A i \in 1 .. Len(Others(q, s)) :
                  /\ Others(q, s)[i].store # s
                  /\ \E j \in 1 .. Len(q) : Others(q, s)[i] = q[j]
           good == {q \in Seq(S) : Good(q)}
<1>1. <<>> \in good
  <2>1. Others(<<>>, s) = <<>> /\ <<>> \in Seq(S) /\ 1 .. Len(<<>>) = {}
    BY OthersEmpty, EmptySeq
  <2>2. PICK e : e = <<>>
    OBVIOUS
  <2>3. Good(e)
    BY <2>1, <2>2
  <2> QED BY <2>1, <2>2, <2>3
<1>2. ASSUME NEW q \in good, NEW w \in S PROVE Append(q, w) \in good
  <2> DEFINE more == Append(q, w)
             before == Others(q, s)
             after == Others(more, s)
  <2>1. /\ more \in Seq(S) /\ Len(q) \in Nat /\ Len(more) = Len(q) + 1
        /\ \A i \in 1 .. Len(q) : more[i] = q[i]
        /\ more[Len(q) + 1] = w
    BY AppendProperties, LenProperties
  <2>2. after = IF w.store = s THEN before ELSE Append(before, w)
    BY OthersAppend DEF KeepOther
  <2>3. /\ before \in Seq(S)
        /\ \A i \in 1 .. Len(before) : /\ before[i].store # s
                                       /\ \E j \in 1 .. Len(q) : before[i] = q[j]
    BY <1>2
  <2> HIDE DEF more, before, after
  <2>4. \A i \in 1 .. Len(before) : \E j \in 1 .. Len(more) : before[i] = more[j]
    BY <2>1, <2>3
  <2>5. CASE w.store = s
    <3>1. after = before
      BY <2>2, <2>5
    <3>2. Good(more)
      BY <2>3, <2>4, <3>1 DEF after
    <3> QED BY <2>1, <3>2 DEF more
  <2>6. CASE w.store # s
    <3>1. after = Append(before, w)
      BY <2>2, <2>6
    <3>2. /\ after \in Seq(S) /\ Len(before) \in Nat /\ Len(after) = Len(before) + 1
          /\ \A i \in 1 .. Len(before) : after[i] = before[i]
          /\ after[Len(before) + 1] = w
      BY <2>3, <3>1, AppendProperties, LenProperties
    <3>3. ASSUME NEW i \in 1 .. Len(after)
          PROVE  after[i].store # s /\ \E j \in 1 .. Len(more) : after[i] = more[j]
      <4>1. CASE i \in 1 .. Len(before)
        BY <2>3, <2>4, <3>2, <4>1
      <4>2. CASE i = Len(before) + 1
        <5>1. after[i] = w /\ more[Len(q) + 1] = w /\ Len(q) + 1 \in 1 .. Len(more)
          BY <2>1, <3>2, <4>2
        <5> QED BY <2>6, <5>1
      <4> QED BY <3>2, <4>1, <4>2
    <3> QED BY <2>1, <3>2, <3>3 DEF more, after
  <2> QED BY <2>5, <2>6
<1>3. good = Seq(S)
  <2> HIDE DEF good
  <2>1. good \in SUBSET Seq(S)
    BY DEF good
  <2> QED BY <1>1, <1>2, <2>1, Extending
<1> QED BY <1>3

\* The stores of the writes of a queue (QueuedStores, of any queue).
StoresOf(ws) == {ws[i].store : i \in 1 .. Len(ws)}

LEMMA StoresAppend ==
  ASSUME NEW ws \in Seq(Write), NEW w \in Write
  PROVE  StoresOf(Append(ws, w)) = StoresOf(ws) \cup {w.store}
<1>1. PICK more, n : more = Append(ws, w) /\ n = Len(ws)
  OBVIOUS
<1>2. /\ n \in Nat /\ Len(more) = n + 1
      /\ \A i \in 1 .. n : more[i] = ws[i]
      /\ more[n + 1] = w
  BY <1>1, AppendProperties, LenProperties
<1>3. {more[i].store : i \in 1 .. n} = {ws[i].store : i \in 1 .. n}
  BY <1>2
<1>4. 1 .. n + 1 = (1 .. n) \cup {n + 1}
  BY <1>2
<1>5. {more[i].store : i \in 1 .. n + 1} = {ws[i].store : i \in 1 .. n} \cup {w.store}
  BY <1>2, <1>3, <1>4
<1> QED BY <1>1, <1>2, <1>5 DEF StoresOf

\* Dropping those of s takes s off, and no other store.
LEMMA StoresOfOthers ==
  ASSUME NEW ws \in Seq(Write), NEW s
  PROVE  StoresOf(Others(ws, s)) = StoresOf(ws) \ {s}
<1> DEFINE good == {q \in Seq(Write) : StoresOf(Others(q, s)) = StoresOf(q) \ {s}}
<1>1. <<>> \in good
  <2>1. <<>> \in Seq(Write) /\ 1 .. Len(<<>>) = {}
    BY EmptySeq
  <2>2. StoresOf(<<>>) = {}
    BY <2>1 DEF StoresOf
  <2> QED BY <2>1, <2>2, OthersEmpty
<1>2. ASSUME NEW q \in good, NEW w \in Write PROVE Append(q, w) \in good
  <2>1. Append(q, w) \in Seq(Write)
    BY AppendProperties
  <2>2. PICK kept : kept = Others(q, s)
    OBVIOUS
  <2>3. kept \in Seq(Write)
    BY <2>2, Dropping
  <2>4. StoresOf(kept) = StoresOf(q) \ {s}
    BY <1>2, <2>2
  <2>5. StoresOf(Append(q, w)) = StoresOf(q) \cup {w.store}
    BY StoresAppend
  <2>6. Others(Append(q, w), s) = IF w.store = s THEN kept ELSE Append(kept, w)
    BY <2>2, OthersAppend DEF KeepOther
  <2>7. StoresOf(Append(kept, w)) = StoresOf(kept) \cup {w.store}
    BY <2>3, StoresAppend
  <2>8. StoresOf(Others(Append(q, w), s)) = StoresOf(Append(q, w)) \ {s}
    BY <2>4, <2>5, <2>6, <2>7
  <2> QED BY <2>1, <2>8
<1>3. good = Seq(Write)
  <2> HIDE DEF good
  <2>1. good \in SUBSET Seq(Write)
    BY DEF good
  <2> QED BY <1>1, <1>2, <2>1, Extending
<1> QED BY <1>3

\* The other stores do not miss them.
LEMMA DroppingIsLocal ==
  ASSUME NEW st \in [Stores -> Store], NEW ws \in Seq(Write), NEW s, NEW t \in Stores, t # s
  PROVE  Replay(st, Others(ws, s))[t] = Replay(st, ws)[t]
<1> DEFINE good == {q \in Seq(Write) : Replay(st, Others(q, s))[t] = Replay(st, q)[t]}
<1>1. <<>> \in good
  BY OthersEmpty, EmptySeq
<1>2. ASSUME NEW q \in good, NEW w \in Write PROVE Append(q, w) \in good
  <2>1. Append(q, w) \in Seq(Write)
    BY AppendProperties
  <2>2. PICK kept, a, b : kept = Others(q, s) /\ a = Replay(st, kept) /\ b = Replay(st, q)
    OBVIOUS
  <2>3. kept \in Seq(Write)
    BY <2>2, Dropping
  <2>4. a \in [Stores -> Store] /\ b \in [Stores -> Store]
    BY <2>2, <2>3, Replaying
  <2>5. a[t] = b[t]
    BY <1>2, <2>2
  <2>6. /\ ReplayOne(a, w)[w.store] = ApplyWrite(a[w.store], w)
        /\ \A u \in Stores \ {w.store} : ReplayOne(a, w)[u] = a[u]
    BY <2>4, ReplayingOne
  <2>7. /\ ReplayOne(b, w)[w.store] = ApplyWrite(b[w.store], w)
        /\ \A u \in Stores \ {w.store} : ReplayOne(b, w)[u] = b[u]
    BY <2>4, ReplayingOne
  <2>8. Replay(st, Append(q, w)) = ReplayOne(b, w)
    BY <2>2, ReplayAppend
  <2>9. Replay(st, Others(Append(q, w), s))[t] = ReplayOne(b, w)[t]
    <3>1. CASE w.store = s
      <4>1. Others(Append(q, w), s) = kept
        BY <2>2, <3>1, OthersAppend DEF KeepOther
      <4> QED BY <2>2, <2>5, <2>7, <3>1, <4>1
    <3>2. CASE w.store # s
      <4>1. Others(Append(q, w), s) = Append(kept, w)
        BY <2>2, <3>2, OthersAppend DEF KeepOther
      <4>2. Replay(st, Append(kept, w)) = ReplayOne(a, w)
        BY <2>2, <2>3, ReplayAppend
      <4> QED BY <2>5, <2>6, <2>7, <4>1, <4>2
    <3> QED BY <3>1, <3>2
  <2> QED BY <2>1, <2>8, <2>9
<1>3. good = Seq(Write)
  <2> HIDE DEF good
  <2>1. good \in SUBSET Seq(Write)
    BY DEF good
  <2> QED BY <1>1, <1>2, <2>1, Extending
<1> QED BY <1>3

-----------------------------------------------------------------------------
(***************************************************************************)
(* Types.  TypeOK speaks of the members of the queue; that it is a queue,  *)
(* and that the source of none of them is a hydration, is what is added.   *)
(***************************************************************************)

Deferrable == {w \in Write : w.source # "hydrate"}

Base == TypeOK /\ queue \in Seq(Deferrable)

LEMMA QueueType ==
  ASSUME Base
  PROVE  /\ queue \in Seq(Write) /\ Len(queue) \in Nat /\ DOMAIN queue = 1 .. Len(queue)
         /\ \A i \in 1 .. Len(queue) : queue[i] \in Deferrable /\ queue[i] \in Write
<1>1. queue \in Seq(Deferrable) /\ Deferrable \in SUBSET Write
  BY DEF Base, Deferrable
<1>2. queue \in Seq(Write)
  BY <1>1, SeqMonotonic
<1>3. \A i \in 1 .. Len(queue) : queue[i] \in Deferrable
  BY <1>1, ElementOfSeq
<1> QED BY <1>1, <1>2, <1>3, LenProperties

LEMMA KeyType ==
  ASSUME Base, NewKey
  PROVE  key' \in Keys /\ key' \in 0 .. MaxKey /\ {key'} \in Values
  BY ReconcileAssumption DEF Base, TypeOK, NewKey, Keys, Values

\* What a write w of s, or its load, does: it is deferred, or applied at once and
\* notified of or not.
Takes(s, w) ==
  /\ s \in alive /\ NewKey
  /\ w.store = s /\ w.key = key'
  /\ \/ ShouldQueue(s) /\ queue' = Append(queue, w) /\ state' = state
     \/ /\ ~ShouldQueue(s) /\ queue' = queue /\ state' = ReplayOne(state, w)
        /\ s \in dirty' \cup unannounced' /\ loading' = loading \ {s}
  /\ dirty \subseteq dirty' /\ dirty' \subseteq dirty \cup {s}
  /\ unannounced \subseteq unannounced' /\ unannounced' \subseteq unannounced \cup {s}
  /\ loading \ {s} \subseteq loading' /\ loading' \subseteq loading
  /\ loaded' \subseteq loaded \cup {s}
  /\ UNCHANGED <<alive, windowVars, told, rejected>>

\* A write is one of the application, or of another tab.
LEMMA WriteIs ==
  ASSUME Base, NEW s \in Stores, WriteStore(s)
  PROVE  \E w \in Deferrable : Takes(s, w) /\ w.source # "storage" /\ loaded' = loaded
<1>1. key' \in Keys
  BY KeyType DEF WriteStore
<1>2. s \in alive /\ NewKey /\ UNCHANGED <<alive, windowVars, told, unannounced, loaded, rejected>>
  BY DEF WriteStore
<1>3. CASE SetStore(s)
  <2>1. PICK w \in [store : {s}, kind : Kinds, source : {"effect", "network"}, key : {key'}] :
          IF ShouldQueue(s) THEN Defer(w) /\ UNCHANGED dirty
                            ELSE Commit(w) /\ dirty' = dirty \cup {s}
    BY <1>3 DEF SetStore
  <2>2. w \in Deferrable /\ w.store = s /\ w.key = key' /\ w.source # "storage"
    BY <1>1 DEF Deferrable, Write, Sources
  <2>3. [state EXCEPT ![s] = ApplyWrite(@, w)] = ReplayOne(state, w)
    BY <2>2 DEF ReplayOne
  <2>4. Takes(s, w)
    BY <1>2, <2>1, <2>2, <2>3 DEF Takes, Defer, Commit
  <2> QED BY <1>2, <2>2, <2>4
<1>4. CASE AcceptSync(s)
  <2>1. PICK w \in [store : {s}, kind : {"replace"}, source : {"sync"}, key : {key'}] :
          /\ IF ShouldQueue(s) THEN Defer(w) ELSE Commit(w)
          /\ dirty' = dirty \cup {s}
    BY <1>4 DEF AcceptSync
  <2>2. w \in Deferrable /\ w.store = s /\ w.key = key' /\ w.source # "storage"
    BY <1>1 DEF Deferrable, Write, Sources, Kinds
  <2>3. [state EXCEPT ![s] = ApplyWrite(@, w)] = ReplayOne(state, w)
    BY <2>2 DEF ReplayOne
  <2>4. Takes(s, w)
    BY <1>2, <2>1, <2>2, <2>3 DEF Takes, Defer, Commit
  <2> QED BY <1>2, <2>2, <2>4
<1> QED BY <1>3, <1>4 DEF WriteStore

\* The load of s is such a write too.
LEMMA LoadIs ==
  ASSUME Base, NEW s \in Stores, LoadPersisted(s)
  PROVE  \E w \in Deferrable : /\ Takes(s, w)
                              /\ w.source = "storage" /\ w.kind \in {"replace", "reset"}
                              /\ loading' = loading \ {s} /\ loaded' = loaded \cup {s}
<1>1. key' \in Keys
  BY KeyType DEF LoadPersisted
<1>2. s \in alive /\ NewKey /\ loaded' = loaded \cup {s}
      /\ UNCHANGED <<alive, windowVars, dirty, told, rejected>>
  BY DEF LoadPersisted, Base, TypeOK
<1>3. PICK w \in [store : {s}, kind : {"replace", "reset"}, source : {"storage"}, key : {key'}] :
        IF ShouldQueue(s)
        THEN /\ queue' = Append(queue, w)
             /\ loading' = loading \ {s}
             /\ UNCHANGED <<state, unannounced>>
        ELSE Commit(w) /\ unannounced' = unannounced \cup {s}
  BY DEF LoadPersisted
<1>4. w \in Deferrable /\ w.store = s /\ w.key = key'
      /\ w.source = "storage" /\ w.kind \in {"replace", "reset"}
  BY <1>1 DEF Deferrable, Write, Sources, Kinds
<1>5. [state EXCEPT ![s] = ApplyWrite(@, w)] = ReplayOne(state, w)
  BY <1>4 DEF ReplayOne
<1>6. Takes(s, w) /\ loading' = loading \ {s}
  BY <1>2, <1>3, <1>4, <1>5 DEF Takes, Commit
<1> QED BY <1>2, <1>4, <1>6

LEMMA FreshEntryType ==
  ASSUME NEW p \in Policies, NEW v \in Values
  PROVE  FreshEntry(p, v) \in Entry
  BY DEF FreshEntry, Entry

\* A snapshot gives every store the entry that goes with it.
LEMMA HydrateIs ==
  ASSUME Base, NEW names \in SUBSET Stores, NEW bad \in SUBSET names, HydrateStores(names, bad)
  PROVE  /\ queue' = <<>>
         /\ {bootWindowActive', bootWindowTimer', bootWindowToken'} \subseteq BOOLEAN
         /\ \E entry \in [Stores -> Entry \cup {NoEntry}] :
              /\ Snapshot(names, bad, entry)
              /\ \/ entry = [s \in Stores |-> NoEntry]
                 \/ \E p \in [names -> Policies] : entry = Entries(names, bad, p)
<1>1. key' \in Keys /\ {key'} \in Values
  BY KeyType DEF HydrateStores
<1>2. [s \in Stores |-> NoEntry] \in [Stores -> Entry \cup {NoEntry}]
  OBVIOUS
<1>3. ASSUME NEW p \in [names -> Policies]
      PROVE  Entries(names, bad, p) \in [Stores -> Entry \cup {NoEntry}]
  <2>1. ASSUME NEW s \in names
        PROVE  [FreshEntry(p[s], {key'}) EXCEPT !.valid = s \notin bad] \in Entry
    <3>1. PICK b \in BOOLEAN : b = (s \notin bad)
      OBVIOUS
    <3>2. FreshEntry(p[s], {key'}) \in Entry
      BY <1>1, FreshEntryType
    <3>3. [FreshEntry(p[s], {key'}) EXCEPT !.valid = b] \in Entry
      BY <3>2 DEF Entry
    <3> QED BY <3>1, <3>3
  <2> QED BY <2>1 DEF Entries
<1>4. /\ queue' = <<>>
      /\ {bootWindowActive', bootWindowTimer', bootWindowToken'} \subseteq BOOLEAN
  BY DEF HydrateStores, ForgetHydration
<1> QED BY <1>1, <1>2, <1>3, <1>4 DEF HydrateStores

\* The stores of taken get the snapshot, and all stores the entries.
Installs(taken, entry) ==
  /\ state' \in [Stores -> Store]
  /\ \A s \in Stores :
       /\ state'[s].entry = entry[s]
       /\ s \notin taken => state'[s].value = state[s].value /\ state'[s].initial = state[s].initial
       /\ s \in taken \ alive => state'[s].value = {key'} /\ state'[s].initial = {key'}
       /\ s \in taken \cap alive =>
            /\ state'[s].value = ReconcileValue(s, state[s], {key'}, "hydrate").value
            /\ state'[s].initial = state[s].initial

LEMMA SnapshotInstalls ==
  ASSUME Base, NewKey, NEW names \in SUBSET Stores, NEW bad \in SUBSET names,
         NEW entry \in [Stores -> Entry \cup {NoEntry}], Snapshot(names, bad, entry)
  PROVE  Installs(names \ bad, entry)
<1> DEFINE taken == names \ bad
<1>1. {key'} \in Values
  BY KeyType
<1> DEFINE after(s) ==
             IF s \notin taken THEN state[s]
             ELSE IF s \in alive THEN ReconcileValue(s, state[s], {key'}, "hydrate")
             ELSE [state[s] EXCEPT !.value = {key'}, !.initial = {key'}]
<1>2. state' = [s \in Stores |-> [after(s) EXCEPT !.entry = entry[s]]]
  BY DEF Snapshot
<1>3. ASSUME NEW s \in Stores
      PROVE  /\ after(s) \in Store
             /\ s \notin taken => after(s) = state[s]
             /\ s \in taken \ alive => after(s).value = {key'} /\ after(s).initial = {key'}
             /\ s \in taken \cap alive =>
                  /\ after(s).value = ReconcileValue(s, state[s], {key'}, "hydrate").value
                  /\ after(s).initial = state[s].initial
  <2>1. state[s] \in Store
    BY DEF Base, TypeOK
  <2>2. CASE s \notin taken
    BY <2>1, <2>2
  <2>3. CASE s \in taken \cap alive
    <3>1. after(s) = ReconcileValue(s, state[s], {key'}, "hydrate")
      BY <2>3
    <3> HIDE DEF after
    <3>2. after(s) \in Store /\ after(s).initial = state[s].initial
      BY <1>1, <2>1, <3>1, Reconciling
    <3> QED BY <2>3, <3>1, <3>2
  <2>4. CASE s \in taken \ alive
    <3>1. after(s) = [state[s] EXCEPT !.value = {key'}, !.initial = {key'}]
      BY <2>4
    <3> HIDE DEF after
    <3>2. after(s) \in Store /\ after(s).value = {key'} /\ after(s).initial = {key'}
      BY <1>1, <2>1, <3>1 DEF Store
    <3> QED BY <2>4, <3>2
  <2> QED BY <2>2, <2>3, <2>4
<1> HIDE DEF after
<1>4. ASSUME NEW s \in Stores
      PROVE  /\ state'[s] \in Store
             /\ state'[s].value = after(s).value /\ state'[s].initial = after(s).initial
             /\ state'[s].entry = entry[s]
  <2>1. state'[s] = [after(s) EXCEPT !.entry = entry[s]]
    BY <1>2
  <2>2. after(s) \in Store /\ entry[s] \in Entry \cup {NoEntry}
    BY <1>3
  <2> QED BY <2>1, <2>2 DEF Store
<1>5. state' \in [Stores -> Store]
  BY <1>2, <1>4
<1> HIDE DEF taken
<1>6. Installs(taken, entry)
  BY <1>3, <1>4, <1>5 DEF Installs
<1> QED BY <1>6 DEF taken

LEMMA InitBase ==
  ASSUME Init
  PROVE  Base
<1>1. <<>> \in Seq(Deferrable) /\ DOMAIN <<>> = {}
  BY EmptySeq, LenProperties
<1>2. Absent \in Store
  BY DEF Absent, Store, Values
<1>3. 0 \in 0 .. MaxKey
  BY ReconcileAssumption
<1>4. TypeOK
  BY <1>1, <1>2, <1>3 DEF Init, TypeOK, NoStrandedWrite, Values
<1> QED BY <1>1, <1>4 DEF Base, Init

LEMMA NextBase ==
  ASSUME Base, [Next]_vars
  PROVE  Base'
<1>1. /\ key \in 0 .. MaxKey /\ alive \subseteq Stores /\ state \in [Stores -> Store]
      /\ {bootWindowActive, bootWindowTimer, bootWindowToken} \subseteq BOOLEAN
      /\ dirty \subseteq alive /\ told \in [Stores -> Values]
      /\ unannounced \subseteq alive /\ rejected \subseteq Stores \X Keys
      /\ loading \subseteq alive /\ loaded \subseteq alive
  BY DEF Base, TypeOK
<1>2. /\ queue \in Seq(Deferrable) /\ queue \in Seq(Write) /\ Len(queue) \in Nat
      /\ DOMAIN queue = 1 .. Len(queue)
      /\ \A i \in 1 .. Len(queue) : /\ queue[i] \in Deferrable /\ queue[i] \in Write
                                    /\ queue[i].store \in alive
                                    /\ state[queue[i].store].entry # NoEntry
      /\ queue # <<>> => bootWindowActive
  BY QueueType DEF Base, TypeOK, NoStrandedWrite
<1>3. DOMAIN <<>> = {} /\ <<>> \in Seq(Deferrable)
  BY EmptySeq, LenProperties
<1>4. ASSUME NEW s \in Stores, CreateStore(s) PROVE Base'
  <2>1. key' \in Keys /\ key' \in 0 .. MaxKey /\ {key'} \in Values
    BY <1>4, KeyType DEF CreateStore
  <2>2. PICK k : k = key'
    OBVIOUS
  <2>3. state[s] \in Store /\ {k} \in Values
    BY <1>1, <2>1, <2>2
  <2>4. PICK c : c = [state[s] EXCEPT !.value = {k}, !.initial = {k}]
    OBVIOUS
  <2>5. c \in Store /\ c.entry = state[s].entry
    BY <2>3, <2>4 DEF Store
  <2>6. state' = [state EXCEPT ![s] = c]
    BY <1>1, <1>4, <2>2, <2>4 DEF CreateStore
  <2>7. state' \in [Stores -> Store] /\ \A t \in Stores : state'[t].entry = state[t].entry
    BY <1>1, <2>5, <2>6
  <2>8. told' \in [Stores -> Values]
    BY <1>1, <1>4, <2>1 DEF CreateStore
  <2> QED BY <1>1, <1>2, <1>4, <2>1, <2>7, <2>8
        DEF CreateStore, Base, TypeOK, NoStrandedWrite, windowVars
<1>5. ASSUME NEW s \in Stores, DeleteStore(s) PROVE Base'
  <2>1. state' \in [Stores -> Store] /\ \A t \in Stores \ {s} : state'[t] = state[t]
    BY <1>1, <1>5 DEF DeleteStore, Absent, Store, Values
  <2>2. PICK q : q = Others(queue, s)
    OBVIOUS
  <2>3. queue' = q
    BY <1>5, <2>2 DEF DeleteStore
  <2>4. /\ q \in Seq(Deferrable)
        /\ \A i \in 1 .. Len(q) : /\ q[i].store # s
                                  /\ \E j \in 1 .. Len(queue) : q[i] = queue[j]
    BY <1>2, <2>2, Dropping DEF Deferrable
  <2>5. \A i \in 1 .. Len(q) : /\ q[i] \in Write
                               /\ q[i].store \in alive \ {s}
                               /\ state'[q[i].store].entry # NoEntry
    BY <1>1, <1>2, <2>1, <2>4
  <2>6. DOMAIN q = 1 .. Len(q)
    BY <2>4, LenProperties
  <2>7. q # <<>> => queue # <<>>
    BY <2>2, OthersEmpty
  <2>8. told' \in [Stores -> Values]
    BY <1>1, <1>5 DEF DeleteStore, Values
  <2> QED BY <1>1, <1>2, <1>5, <2>1, <2>3, <2>4, <2>5, <2>6, <2>7, <2>8
        DEF DeleteStore, Base, TypeOK, NoStrandedWrite, windowVars
<1>6. ASSUME NEW s \in Stores, WriteStore(s) \/ LoadPersisted(s) PROVE Base'
  <2>1. PICK w \in Deferrable : Takes(s, w)
    BY <1>6, WriteIs, LoadIs
  <2>2. /\ key' \in 0 .. MaxKey /\ s \in alive /\ w.store = s
        /\ alive' = alive /\ bootWindowActive' = bootWindowActive
    BY <2>1, KeyType DEF Takes, windowVars
  <2>3. w \in Write
    BY DEF Deferrable
  <2>4. CASE ShouldQueue(s) /\ queue' = Append(queue, w) /\ state' = state
    <3>1. PICK q : q = Append(queue, w)
      OBVIOUS
    <3>2. /\ q \in Seq(Deferrable) /\ Len(q) = Len(queue) + 1
          /\ \A i \in 1 .. Len(queue) : q[i] = queue[i]
          /\ q[Len(queue) + 1] = w /\ DOMAIN q = 1 .. Len(q)
      BY <1>2, <3>1, AppendProperties, LenProperties
    <3>3. state[s].entry # NoEntry /\ bootWindowActive
      BY <2>4 DEF ShouldQueue
    <3>4. \A i \in 1 .. Len(q) : /\ q[i] \in Write /\ q[i].store \in alive
                                 /\ state[q[i].store].entry # NoEntry
      BY <1>2, <2>1, <2>2, <2>3, <3>2, <3>3
    <3> QED BY <1>1, <2>1, <2>2, <2>4, <3>1, <3>2, <3>3, <3>4
          DEF Takes, Base, TypeOK, NoStrandedWrite, windowVars
  <2>5. CASE ~ShouldQueue(s) /\ queue' = queue /\ state' = ReplayOne(state, w)
    <3>1. /\ state' \in [Stores -> Store]
          /\ state'[s] = ApplyWrite(state[s], w)
          /\ \A t \in Stores \ {s} : state'[t] = state[t]
      BY <1>1, <2>2, <2>3, <2>5, ReplayingOne
    <3>2. state'[s].entry = NoEntry <=> state[s].entry = NoEntry
      BY <1>1, <2>3, <3>1, Writing
    <3>3. \A t \in Stores : state'[t].entry = NoEntry <=> state[t].entry = NoEntry
      BY <3>1, <3>2
    <3>4. \A i \in DOMAIN queue : /\ queue[i] \in Write /\ queue[i].store \in alive
                                 /\ state'[queue[i].store].entry # NoEntry
      BY <1>1, <1>2, <3>3
    <3>5. /\ dirty' \subseteq alive /\ unannounced' \subseteq alive
          /\ loading' \subseteq alive /\ loaded' \subseteq alive
          /\ UNCHANGED <<alive, windowVars, told, rejected>>
      BY <1>1, <2>1, <2>2 DEF Takes
    <3> QED BY <1>1, <1>2, <2>2, <2>5, <3>1, <3>4, <3>5
          DEF Base, TypeOK, NoStrandedWrite, windowVars
  <2> QED BY <2>1, <2>4, <2>5 DEF Takes
<1>7. ASSUME NEW s \in Stores, Notify(s) PROVE Base'
  <2>1. state[s].value \in Values
    BY <1>1 DEF Store
  <2>2. told' \in [Stores -> Values]
    BY <1>1, <1>7, <2>1 DEF Notify
  <2> QED BY <1>1, <1>2, <1>7, <2>2
        DEF Notify, Base, TypeOK, NoStrandedWrite, windowVars, storeVars
<1>8. ASSUME NEW names \in SUBSET Stores, NEW bad \in SUBSET names, HydrateStores(names, bad)
      PROVE  Base'
  <2>1. NewKey /\ key' \in Keys /\ key' \in 0 .. MaxKey /\ {key'} \in Values
    BY <1>8, KeyType DEF HydrateStores
  <2>2. /\ queue' = <<>>
        /\ {bootWindowActive', bootWindowTimer', bootWindowToken'} \subseteq BOOLEAN
    BY <1>8, HydrateIs
  <2>3. PICK entry \in [Stores -> Entry \cup {NoEntry}] : Snapshot(names, bad, entry)
    BY <1>8, HydrateIs
  <2>4. state' \in [Stores -> Store]
    BY <2>1, <2>3, SnapshotInstalls DEF Installs
  <2>5. /\ alive' \subseteq Stores /\ dirty' \subseteq alive' /\ told' \in [Stores -> Values]
        /\ rejected' \subseteq Stores \X Keys /\ unannounced' \subseteq alive'
        /\ loading' \subseteq alive' /\ loaded' \subseteq alive'
    BY <1>1, <2>1, <2>3 DEF Snapshot
  <2> QED BY <1>3, <2>1, <2>2, <2>4, <2>5 DEF Base, TypeOK, NoStrandedWrite
<1>9. ASSUME Flush, UNCHANGED <<key, alive, bootWindowToken, told, loaded, rejected>> PROVE Base'
  <2>1. state' \in [Stores -> Store]
    BY <1>1, <1>2, <1>9, Replaying DEF Flush
  <2>2. dirty' \subseteq alive /\ unannounced' \subseteq alive
    BY <1>1, <1>2, <1>9 DEF Flush
  <2> QED BY <1>1, <1>3, <1>9, <2>1, <2>2 DEF Flush, Base, TypeOK, NoStrandedWrite
<1>10. ASSUME NEW s \in Stores, LoadNothing(s) PROVE Base'
  BY <1>1, <1>2, <1>10
     DEF LoadNothing, Base, TypeOK, NoStrandedWrite, windowVars, notifyVars
<1>11. CASE UNCHANGED vars
  BY <1>1, <1>2, <1>11
     DEF Base, TypeOK, NoStrandedWrite, vars, storeVars, windowVars, notifyVars
<1> QED BY <1>4, <1>5, <1>6, <1>7, <1>8, <1>9, <1>10, <1>11
      DEF Next, CloseBootWindow, FireBootWindowTimer

\* Every variable keeps its type; a deferred write is always of a store that exists and was
\* hydrated, and there is one only while a window is open that will replay it
\* (flushHydrationWriteQueue), whatever is hydrated again or refused.
THEOREM TypeCorrect == Spec => []TypeOK
<1>1. Base /\ [Next]_vars => Base'
  BY NextBase
<1>2. Base => TypeOK
  BY DEF Base
<1> QED BY InitBase, <1>1, <1>2, PTL DEF Spec

-----------------------------------------------------------------------------
(***************************************************************************)
(* Notifications.                                                          *)
(***************************************************************************)

\* Replaying the queue changes stores that it then marks as dirty or unannounced.
LEMMA FlushMarks ==
  ASSUME Base, Flush
  PROVE  /\ state' \in [Stores -> Store]
         /\ dirty \subseteq dirty' /\ unannounced \subseteq unannounced'
         /\ \A s \in Stores \ (dirty' \cup unannounced') : state'[s] = state[s]
<1>1. state \in [Stores -> Store] /\ state' = Replay(state, queue)
  BY DEF Base, TypeOK, Flush
<1>2. \A i \in 1 .. Len(queue) : queue[i].store \in dirty' \cup unannounced'
  <2> SUFFICES ASSUME NEW i \in 1 .. Len(queue)
               PROVE  queue[i].store \in dirty' \cup unannounced'
    OBVIOUS
  <2>1. i \in DOMAIN queue /\ queue[i].source \in {"effect", "network", "storage", "sync"}
    BY QueueType DEF Deferrable, Write, Sources
  <2> QED BY <2>1 DEF Flush
<1>3. \A s \in Stores \ (dirty' \cup unannounced') : \A i \in 1 .. Len(queue) : queue[i].store # s
  BY <1>2
<1>4. queue \in Seq(Write)
  BY QueueType
<1>5. /\ state' \in [Stores -> Store]
      /\ \A s \in Stores : (\A i \in 1 .. Len(queue) : queue[i].store # s) => state'[s] = state[s]
  BY <1>1, <1>4, Replaying
<1> QED BY <1>3, <1>5 DEF Flush

LEMMA NextCaughtUp ==
  ASSUME Base, SubscribersCaughtUp, [Next]_vars
  PROVE  SubscribersCaughtUp'
<1>1. /\ alive \subseteq Stores /\ state \in [Stores -> Store] /\ told \in [Stores -> Values]
      /\ dirty \subseteq alive /\ unannounced \subseteq alive
  BY DEF Base, TypeOK
<1>2. \A s \in alive \ (dirty \cup unannounced) : told[s] = state[s].value
  BY DEF SubscribersCaughtUp
<1> SUFFICES ASSUME NEW t \in alive' \ (dirty' \cup unannounced')
             PROVE  told'[t] = state'[t].value
  BY DEF SubscribersCaughtUp
<1>3. t \in Stores
  BY NextBase DEF Base, TypeOK
<1>4. ASSUME NEW s \in Stores, CreateStore(s) PROVE told'[t] = state'[t].value
  <2>1. PICK k : k = key'
    OBVIOUS
  <2>2. PICK c : c = [state[s] EXCEPT !.value = {k}, !.initial = {k}]
    OBVIOUS
  <2>3. c.value = {k}
    BY <1>1, <2>2 DEF Store
  <2>4. state' = [state EXCEPT ![s] = c] /\ told' = [told EXCEPT ![s] = {k}]
    BY <1>4, <2>1, <2>2 DEF CreateStore
  <2> QED BY <1>1, <1>2, <1>3, <1>4, <2>3, <2>4 DEF CreateStore
<1>5. ASSUME NEW s \in Stores, DeleteStore(s) PROVE told'[t] = state'[t].value
  BY <1>1, <1>2, <1>3, <1>5 DEF DeleteStore
<1>6. ASSUME NEW s \in Stores, WriteStore(s) \/ LoadPersisted(s) PROVE told'[t] = state'[t].value
  <2>1. PICK w \in Deferrable : Takes(s, w)
    BY <1>6, WriteIs, LoadIs
  <2>2. state'[t] = state[t]
    <3>1. CASE state' = state
      BY <3>1
    <3>2. CASE state' = ReplayOne(state, w) /\ s \in dirty' \cup unannounced'
      BY <1>1, <1>3, <2>1, <3>2, ReplayingOne DEF Deferrable, Takes
    <3> QED BY <2>1, <3>1, <3>2 DEF Takes
  <2> QED BY <1>2, <2>1, <2>2 DEF Takes
<1>7. ASSUME NEW s \in Stores, Notify(s) PROVE told'[t] = state'[t].value
  BY <1>1, <1>2, <1>3, <1>7 DEF Notify, storeVars
<1>8. ASSUME NEW names \in SUBSET Stores, NEW bad \in SUBSET names, HydrateStores(names, bad)
      PROVE  told'[t] = state'[t].value
  <2>1. NewKey
    BY <1>8 DEF HydrateStores
  <2>2. PICK entry \in [Stores -> Entry \cup {NoEntry}] : Snapshot(names, bad, entry)
    BY <1>8, HydrateIs
  <2>3. /\ t \notin names \ bad => state'[t].value = state[t].value
        /\ t \in (names \ bad) \ alive => state'[t].value = {key'}
    <3>1. Installs(names \ bad, entry)
      BY <2>1, <2>2, SnapshotInstalls
    <3> QED BY <1>3, <3>1 DEF Installs
  <2>4. /\ alive' = alive \cup (names \ bad)
        /\ dirty' = dirty \cup ((names \ bad) \cap alive)
        /\ told'[t] = IF t \in (names \ bad) \ alive THEN {key'} ELSE told[t]
        /\ unannounced' = unannounced
    BY <1>3, <2>2 DEF Snapshot
  <2> QED BY <1>2, <1>3, <2>3, <2>4
<1>9. ASSUME Flush, UNCHANGED <<key, alive, bootWindowToken, told, loaded, rejected>>
      PROVE  told'[t] = state'[t].value
  BY <1>2, <1>3, <1>9, FlushMarks
<1>10. ASSUME NEW s \in Stores, LoadNothing(s) PROVE told'[t] = state'[t].value
  BY <1>2, <1>10 DEF LoadNothing, notifyVars
<1>11. CASE UNCHANGED vars
  BY <1>2, <1>11 DEF vars, storeVars, notifyVars
<1> QED BY <1>4, <1>5, <1>6, <1>7, <1>8, <1>9, <1>10, <1>11
      DEF Next, CloseBootWindow, FireBootWindowTimer

\* While no notification of a store is pending, its subscribers have seen its value, but
\* for what the code sets without notifying: the value persistence loads, at once or
\* deferred (persistLoad), and the message of another tab that a replay applies
\* (applyFeatureState), until the next notification of the store.
THEOREM NobodyLeftBehind == Spec => []SubscribersCaughtUp
<1>1. Init => SubscribersCaughtUp
  BY DEF Init, SubscribersCaughtUp
<1>2. Base /\ [Next]_vars => Base'
  BY NextBase
<1>3. Base /\ SubscribersCaughtUp /\ [Next]_vars => SubscribersCaughtUp'
  BY NextCaughtUp
<1> QED BY InitBase, <1>1, <1>2, <1>3, PTL DEF Spec

-----------------------------------------------------------------------------
(***************************************************************************)
(* Policies.  That every store obeys its policy is inductive only with the *)
(* stores that do not exist: createStore gives a store a new value, which  *)
(* an entry left over from a hydration knows nothing of.                   *)
(***************************************************************************)

NoLeftovers == \A s \in Stores \ alive : state[s].entry = NoEntry

PolicyInv == Base /\ PolicyHolds /\ NoLeftovers

LEMMA PolicyIs == PolicyHolds <=> \A s \in alive : Obeys(state[s])
  BY DEF PolicyHolds, Obeys

\* A hydration that is not disturbed leaves every store it names with the snapshot,
\* under the entry it makes for it, and no other store with an entry.
LEMMA UndisturbedHydrate ==
  ASSUME ~HydrateAgain, ~RejectedSnapshots, Base,
         NEW names \in SUBSET Stores, NEW bad \in SUBSET names, HydrateStores(names, bad)
  PROVE  /\ state' \in [Stores -> Store]
         /\ alive' = alive \cup names
         /\ loading' = (loading \ names) \cup ((names \ alive) \cap Persisted)
         /\ loaded' = loaded
         /\ \A s \in Stores \ names :
              /\ state'[s].entry = NoEntry
              /\ state'[s].value = state[s].value /\ state'[s].initial = state[s].initial
         /\ \A s \in names :
              /\ state'[s].value = {key'}
              /\ state'[s].initial = IF s \in alive THEN state[s].initial ELSE {key'}
         /\ \/ \A s \in names : state'[s].entry = NoEntry
            \/ \E p \in [names -> Policies] :
                 \A s \in names : state'[s].entry = FreshEntry(p[s], {key'})
<1>1. bad = {} /\ NewKey /\ Undisturbed(names)
  BY DEF HydrateStores
<1>2. {key'} \in Values /\ state \in [Stores -> Store]
  BY <1>1, KeyType DEF Base, TypeOK
<1>3. PICK entry \in [Stores -> Entry \cup {NoEntry}] :
        /\ Snapshot(names, bad, entry)
        /\ \/ entry = [s \in Stores |-> NoEntry]
           \/ \E p \in [names -> Policies] : entry = Entries(names, bad, p)
  BY HydrateIs
<1>4. /\ state' \in [Stores -> Store]
      /\ \A s \in Stores :
           /\ state'[s].entry = entry[s]
           /\ s \notin names => /\ state'[s].value = state[s].value
                                /\ state'[s].initial = state[s].initial
           /\ s \in names \ alive => state'[s].value = {key'} /\ state'[s].initial = {key'}
           /\ s \in names \cap alive =>
                /\ state'[s].value = ReconcileValue(s, state[s], {key'}, "hydrate").value
                /\ state'[s].initial = state[s].initial
  <2>1. Installs(names \ bad, entry)
    BY <1>1, <1>3, SnapshotInstalls
  <2>2. Installs(names, entry)
    BY <1>1, <2>1
  <2> QED BY <2>2 DEF Installs
<1>5. ASSUME NEW s \in names \cap alive
      PROVE  ReconcileValue(s, state[s], {key'}, "hydrate").value = {key'}
  <2>1. state[s] \in Store /\ state[s].entry.policy \in {"none", "client_wins", "invalidate_and_refetch"}
    BY <1>1, <1>2 DEF Undisturbed
  <2>2. PICK k, st : k = {key'} /\ st = state[s]
    OBVIOUS
  <2>3. Resolved(s, st.entry, k) = k \/ st.entry = NoEntry
    <3>1. st.entry \in Entry \cup {NoEntry}
      BY <2>1, <2>2 DEF Store
    <3> QED BY <2>1, <2>2, <3>1, EntryFields DEF Resolved, Policies
  <2>4. ReconcileValue(s, st, k, "hydrate").value = k
    BY <2>1, <2>2, <2>3 DEF ReconcileValue, Store
  <2> QED BY <2>2, <2>4
<1>6. ASSUME NEW p \in [names -> Policies], entry = Entries(names, bad, p)
      PROVE  /\ \A s \in Stores \ names : entry[s] = NoEntry
             /\ \A s \in names : entry[s] = FreshEntry(p[s], {key'})
  <2>1. ASSUME NEW s \in names PROVE entry[s] = FreshEntry(p[s], {key'})
    <3>1. entry[s] = [FreshEntry(p[s], {key'}) EXCEPT !.valid = TRUE]
      BY <1>1, <1>6, <2>1, Zenon DEF Entries
    <3> QED BY <3>1 DEF FreshEntry
  <2> QED BY <1>6, <2>1 DEF Entries
<1>7. /\ alive' = alive \cup names
      /\ loading' = (loading \ names) \cup ((names \ alive) \cap Persisted)
      /\ loaded' = loaded
  BY <1>1, <1>3 DEF Snapshot
<1>8. \A s \in Stores \ names : state'[s].entry = NoEntry
  BY <1>3, <1>4, <1>6
<1>9. \/ \A s \in names : state'[s].entry = NoEntry
      \/ \E p \in [names -> Policies] :
           \A s \in names : state'[s].entry = FreshEntry(p[s], {key'})
  BY <1>3, <1>4, <1>6
<1>10. \A s \in names : state'[s].value = {key'}
  BY <1>4, <1>5
<1> QED BY <1>4, <1>7, <1>8, <1>9, <1>10

LEMMA NextPolicy ==
  ASSUME ~HydrateAgain, ~RejectedSnapshots, PolicyInv, [Next]_vars
  PROVE  PolicyInv'
<1>1. Base'
  BY NextBase DEF PolicyInv
<1>2. /\ Base /\ alive \subseteq Stores /\ state \in [Stores -> Store]
      /\ queue \in Seq(Write)
      /\ \A t \in alive : Obeys(state[t])
      /\ \A t \in Stores \ alive : state[t].entry = NoEntry
  BY PolicyIs, QueueType DEF PolicyInv, Base, TypeOK, NoLeftovers
<1>3. \A st : st.entry = NoEntry => Obeys(st)
  BY DEF Obeys, NoEntry
<1> DEFINE Holds ==
             /\ \A t \in alive' : Obeys(state'[t])
             /\ \A t \in Stores \ alive' : state'[t].entry = NoEntry
<1>4. ASSUME NEW s \in Stores, CreateStore(s) PROVE Holds
  <2>1. PICK k : k = key'
    OBVIOUS
  <2>2. PICK c : c = [state[s] EXCEPT !.value = {k}, !.initial = {k}]
    OBVIOUS
  <2>3. c.entry = NoEntry
    BY <1>2, <1>4, <2>2 DEF CreateStore, Store
  <2>4. state' = [state EXCEPT ![s] = c] /\ alive' = alive \cup {s}
    BY <1>4, <2>1, <2>2 DEF CreateStore
  <2> QED BY <1>2, <1>3, <2>3, <2>4
<1>5. ASSUME NEW s \in Stores, DeleteStore(s) PROVE Holds
  BY <1>2, <1>5 DEF DeleteStore, Absent
<1>6. ASSUME NEW s \in Stores, WriteStore(s) \/ LoadPersisted(s) PROVE Holds
  <2>1. PICK w \in Deferrable : Takes(s, w)
    BY <1>2, <1>6, WriteIs, LoadIs
  <2>2. /\ w \in Write /\ w.store = s /\ alive' = alive /\ s \in alive
        /\ state' = state \/ state' = ReplayOne(state, w)
    BY <2>1 DEF Deferrable, Takes
  <2>3. CASE state' = ReplayOne(state, w)
    <3>1. /\ state'[s] = ApplyWrite(state[s], w)
          /\ \A t \in Stores \ {s} : state'[t] = state[t]
      BY <1>2, <2>1, <2>2, <2>3, ReplayingOne
    <3>2. Obeys(state'[s])
      BY <1>2, <2>2, <3>1, Writing
    <3> QED BY <1>2, <2>2, <3>1, <3>2
  <2> QED BY <1>2, <2>2, <2>3
<1>7. ASSUME NEW names \in SUBSET Stores, NEW bad \in SUBSET names, HydrateStores(names, bad)
      PROVE  Holds
  <2>1. /\ alive' = alive \cup names
        /\ \A s \in Stores \ names : state'[s].entry = NoEntry
        /\ \A s \in names : state'[s].value = {key'}
        /\ \/ \A s \in names : state'[s].entry = NoEntry
           \/ \E p \in [names -> Policies] :
                \A s \in names : state'[s].entry = FreshEntry(p[s], {key'})
    BY <1>2, <1>7, UndisturbedHydrate
  <2>2. \A s \in names : Obeys(state'[s])
    <3>1. CASE \A s \in names : state'[s].entry = NoEntry
      BY <1>3, <3>1
    <3>2. ASSUME NEW p \in [names -> Policies],
                 \A s \in names : state'[s].entry = FreshEntry(p[s], {key'})
          PROVE  \A s \in names : Obeys(state'[s])
      <4> SUFFICES ASSUME NEW s \in names PROVE Obeys(state'[s])
        OBVIOUS
      <4>1. PICK st : st = state'[s]
        OBVIOUS
      <4>2. st.value = {key'} /\ st.entry = FreshEntry(p[s], {key'})
        BY <2>1, <3>2, <4>1
      <4>3. Obeys(st)
        BY <4>2 DEF Obeys, FreshEntry
      <4> QED BY <4>1, <4>3
    <3> QED BY <2>1, <3>1, <3>2
  <2> QED BY <1>2, <1>3, <2>1, <2>2
<1>8. ASSUME Flush, UNCHANGED <<key, alive, bootWindowToken, told, loaded, rejected>> PROVE Holds
  <2>1. state' = Replay(state, queue)
    BY <1>8 DEF Flush
  <2>2. \A t \in Stores : /\ state'[t].entry = NoEntry <=> state[t].entry = NoEntry
                          /\ Obeys(state[t]) => Obeys(state'[t])
    BY <1>2, <2>1, Replaying
  <2> QED BY <1>2, <1>8, <2>2
<1>9. ASSUME NEW s \in Stores, Notify(s) PROVE Holds
  BY <1>2, <1>9 DEF Notify, storeVars
<1>10. ASSUME NEW s \in Stores, LoadNothing(s) PROVE Holds
  BY <1>2, <1>10 DEF LoadNothing
<1>11. ASSUME UNCHANGED vars PROVE Holds
  BY <1>2, <1>11 DEF vars, storeVars
<1> HIDE DEF Holds
<1>12. Holds
  BY <1>4, <1>5, <1>6, <1>7, <1>8, <1>9, <1>10, <1>11
     DEF Next, CloseBootWindow, FireBootWindowTimer
<1>13. PolicyHolds' /\ NoLeftovers'
  BY <1>12 DEF Holds, PolicyHolds, Obeys, NoLeftovers
<1> QED BY <1>1, <1>13 DEF PolicyInv

LEMMA InitPolicy ==
  ASSUME Init
  PROVE  PolicyInv
<1>1. PolicyHolds /\ NoLeftovers
  BY DEF Init, PolicyHolds, NoLeftovers, Absent
<1> QED BY <1>1, InitBase DEF PolicyInv

\* A store always obeys its policy, whatever wrote it and whenever the write was replayed
\* (reconcileHydrationValue), if a store hydrated again has let go of its old baseline and
\* validate accepts the snapshots.
THEOREM PoliciesHold ==
  ASSUME ~HydrateAgain, ~RejectedSnapshots
  PROVE  Spec => []PolicyHolds
<1>1. PolicyInv /\ [Next]_vars => PolicyInv'
  BY NextPolicy
<1>2. PolicyInv => PolicyHolds
  BY DEF PolicyInv
<1> QED BY InitPolicy, <1>1, <1>2, PTL DEF Spec

-----------------------------------------------------------------------------
(***************************************************************************)
(* Deferring changes nothing but the time.  The stores of                  *)
(* ImmediateHydration are what the queue would leave, and a deferred write *)
(* has overtaken the load of its store: a step that defers a write, or     *)
(* applies one, is its DoWrite or its Load, and replaying the queue is a   *)
(* stutter.                                                                *)
(***************************************************************************)

\* Its writes are those of Reconcile.
LEMMA SameWrites ==
  ASSUME NEW st, NEW w
  PROVE  Immediate!ApplyWrite(st, w) = ApplyWrite(st, w)
  BY DEF Immediate!ApplyWrite, ApplyWrite, Immediate!Wanted, Wanted,
         Immediate!ReconcileValue, ReconcileValue, Immediate!Resolved, Resolved,
         Immediate!NoEntry, NoEntry

\* A write of a store that no deferred write is of changes nothing for the others.
LEMMA UntouchedByQueue ==
  ASSUME Base, NEW t \in Stores, t \notin alive \/ state[t].entry = NoEntry
  PROVE  \A i \in 1 .. Len(queue) : queue[i].store # t
  BY QueueType DEF Base, TypeOK

\* The stores of the queue are those the induction on queues speaks of.
LEMMA QueuedIs ==
  ASSUME Base
  PROVE  /\ QueuedStores = StoresOf(queue)
         /\ QueuedStores = {queue[i].store : i \in 1 .. Len(queue)}
  BY QueueType DEF QueuedStores, StoresOf

LEMMA CreateImplements ==
  ASSUME PolicyInv, NEW s \in Stores, CreateStore(s)
  PROVE  Immediate!Create(s)
<1>1. /\ state \in [Stores -> Store] /\ alive \subseteq Stores /\ queue \in Seq(Write)
      /\ s \notin alive /\ state[s].entry = NoEntry /\ Base
  BY QueueType DEF PolicyInv, Base, TypeOK, NoLeftovers, CreateStore
<1>2. {key'} \in Values /\ state' \in [Stores -> Store]
  BY NextBase, KeyType, <1>1 DEF CreateStore, Next, Base, TypeOK
<1>3. PICK k, c : k = key' /\ c = [state[s] EXCEPT !.value = {k}, !.initial = {k}]
  OBVIOUS
<1>4. c = [value |-> {k}, initial |-> {k}, entry |-> NoEntry]
  BY <1>1, <1>3 DEF Store
<1>5. state' = [state EXCEPT ![s] = c] /\ alive' = alive \cup {s} /\ queue' = queue
  BY <1>3 DEF CreateStore
<1>6. PICK r, rr : r = Replay(state, queue) /\ rr = Replay(state', queue)
  OBVIOUS
<1>7. \A t \in Stores \ {s} : rr[t] = r[t]
  <2>1. \A t \in Stores \ {s} : state'[t] = state[t]
    BY <1>1, <1>5
  <2> QED BY <1>1, <1>2, <1>6, <2>1, ReplayIsLocal
<1>8. rr[s] = c
  <2>1. \A i \in 1 .. Len(queue) : queue[i].store # s
    BY <1>1, UntouchedByQueue
  <2>2. rr[s] = state'[s]
    BY <1>1, <1>2, <1>6, <2>1, Replaying
  <2> QED BY <1>1, <1>5, <2>2
<1>9. Restrict(rr, alive') =
        [t \in DOMAIN Restrict(r, alive) \cup {s} |->
           IF t = s THEN [value |-> {key'}, initial |-> {key'}, entry |-> Immediate!NoEntry]
           ELSE Restrict(r, alive)[t]]
  BY <1>1, <1>3, <1>4, <1>5, <1>7, <1>8 DEF Restrict, Immediate!NoEntry, NoEntry
<1>10. s \notin DOMAIN Restrict(r, alive) /\ Immediate!NewKey
  BY <1>1 DEF Restrict, CreateStore, NewKey, Immediate!NewKey
<1>11. /\ (loading \ QueuedStores)' = (loading \ QueuedStores) \cup ({s} \cap Persisted)
       /\ loaded' = loaded
  <2>1. s \notin QueuedStores /\ QueuedStores' = QueuedStores
    BY <1>1, <1>5, UntouchedByQueue, QueuedIs DEF QueuedStores
  <2> QED BY <2>1 DEF CreateStore
<1> QED BY <1>5, <1>6, <1>9, <1>10, <1>11 DEF Immediate!Create

LEMMA DeleteImplements ==
  ASSUME PolicyInv, NEW s \in Stores, DeleteStore(s)
  PROVE  Immediate!Delete(s)
<1>1. /\ state \in [Stores -> Store] /\ alive \subseteq Stores /\ queue \in Seq(Write)
      /\ s \in alive /\ Base
  BY QueueType DEF PolicyInv, Base, TypeOK, DeleteStore
<1>2. state' \in [Stores -> Store]
  BY NextBase, <1>1 DEF Next, Base, TypeOK
<1>3. /\ \A t \in Stores \ {s} : state'[t] = state[t]
      /\ alive' = alive \ {s} /\ queue' = Others(queue, s) /\ key' = key
  BY <1>1 DEF DeleteStore
<1>4. PICK q, r, rr : q = Others(queue, s) /\ r = Replay(state, queue) /\ rr = Replay(state', q)
  OBVIOUS
<1>5. q \in Seq(Write)
  BY <1>1, <1>4, Dropping
<1>6. \A t \in alive \ {s} : rr[t] = r[t]
  <2> SUFFICES ASSUME NEW t \in alive \ {s} PROVE rr[t] = r[t]
    OBVIOUS
  <2>1. rr[t] = Replay(state, q)[t]
    BY <1>1, <1>2, <1>3, <1>4, <1>5, ReplayIsLocal
  <2>2. Replay(state, q)[t] = r[t]
    BY <1>1, <1>4, DroppingIsLocal
  <2> QED BY <2>1, <2>2
<1>7. Restrict(rr, alive') = [t \in DOMAIN Restrict(r, alive) \ {s} |-> Restrict(r, alive)[t]]
  BY <1>3, <1>6 DEF Restrict
<1>8. s \in DOMAIN Restrict(r, alive)
  BY <1>1 DEF Restrict
<1>9. /\ (loading \ QueuedStores)' = (loading \ QueuedStores) \ {s}
      /\ loaded' = loaded \ {s}
  <2>1. Base'
    BY <1>1, NextBase DEF Next
  <2>2. QueuedStores' = StoresOf(queue')
    BY <2>1, QueueType DEF QueuedStores, StoresOf, Base
  <2>3. QueuedStores' = QueuedStores \ {s}
    BY <1>1, <1>3, <2>2, QueuedIs, StoresOfOthers
  <2> QED BY <2>3 DEF DeleteStore
<1> QED BY <1>3, <1>4, <1>7, <1>8, <1>9 DEF Immediate!Delete

\* A write is applied to what the queue leaves, and overtakes the load.
LEMMA Taking ==
  ASSUME PolicyInv, NEW s \in Stores, NEW w \in Deferrable, Takes(s, w), Base'
  PROVE  /\ s \in DOMAIN Restrict(Replay(state, queue), alive) /\ Immediate!NewKey
         /\ Restrict(Replay(state, queue), alive)' =
              [Restrict(Replay(state, queue), alive) EXCEPT ![s] = Immediate!ApplyWrite(@,
                 [store |-> s, kind |-> w.kind, source |-> w.source, key |-> key'])]
         /\ (loading \ QueuedStores)' = (loading \ QueuedStores) \ {s}
<1>1. /\ state \in [Stores -> Store] /\ alive \subseteq Stores /\ queue \in Seq(Write)
      /\ s \in alive /\ alive' = alive /\ NewKey /\ Base
      /\ queue # <<>> => bootWindowActive
  BY QueueType DEF PolicyInv, Base, TypeOK, NoStrandedWrite, Takes
<1>2. state' \in [Stores -> Store]
  BY DEF Base, TypeOK
<1>3. /\ w.store = s /\ w.key = key'
      /\ \/ queue' = Append(queue, w) /\ state' = state
         \/ ~ShouldQueue(s) /\ queue' = queue /\ state' = ReplayOne(state, w)
  BY DEF Takes
<1>4. /\ w \in Write
      /\ w = [store |-> s, kind |-> w.kind, source |-> w.source, key |-> key']
  BY <1>3 DEF Deferrable, Write
<1>5. PICK r, rr : r = Replay(state, queue) /\ rr = Replay(state', queue')
  OBVIOUS
<1>6. r \in [Stores -> Store]
  BY <1>1, <1>5, Replaying
<1>7. rr[s] = ApplyWrite(r[s], w) /\ \A t \in Stores \ {s} : rr[t] = r[t]
  <2>1. CASE queue' = Append(queue, w) /\ state' = state
    <3>1. rr = ReplayOne(r, w)
      BY <1>1, <1>4, <1>5, <2>1, ReplayAppend
    <3> QED BY <1>3, <1>4, <1>6, <3>1, ReplayingOne
  <2>2. CASE ~ShouldQueue(s) /\ queue' = queue /\ state' = ReplayOne(state, w)
    <3>1. state'[s] = ApplyWrite(state[s], w) /\ \A t \in Stores \ {s} : state'[t] = state[t]
      BY <1>1, <1>3, <1>4, <2>2, ReplayingOne
    <3>2. \A i \in 1 .. Len(queue) : queue[i].store # s
      <4>1. CASE queue = <<>>
        BY <4>1
      <4>2. CASE state[s].entry = NoEntry
        BY <1>1, <4>2, UntouchedByQueue
      <4> QED BY <1>1, <2>2, <4>1, <4>2 DEF ShouldQueue
    <3>3. r[s] = state[s]
      BY <1>1, <1>5, <3>2, Replaying
    <3>4. rr[s] = state'[s]
      BY <1>1, <1>2, <1>5, <2>2, <3>2, Replaying
    <3>5. \A t \in Stores \ {s} : rr[t] = r[t]
      BY <1>1, <1>2, <1>5, <2>2, <3>1, ReplayIsLocal
    <3> QED BY <3>1, <3>3, <3>4, <3>5
  <2> QED BY <1>3, <2>1, <2>2
<1>8. s \in DOMAIN Restrict(r, alive) /\ Immediate!NewKey
  BY <1>1 DEF Restrict, NewKey, Immediate!NewKey
<1>9. Restrict(rr, alive') =
        [Restrict(r, alive) EXCEPT ![s] = Immediate!ApplyWrite(@,
           [store |-> s, kind |-> w.kind, source |-> w.source, key |-> key'])]
  <2>1. PICK v : v = Immediate!ApplyWrite(r[s],
           [store |-> s, kind |-> w.kind, source |-> w.source, key |-> key'])
    OBVIOUS
  <2>2. v = rr[s]
    BY <1>4, <1>7, <2>1, SameWrites
  <2>3. Restrict(rr, alive) = [Restrict(r, alive) EXCEPT ![s] = v]
    BY <1>1, <1>7, <2>2 DEF Restrict
  <2>4. Restrict(r, alive)[s] = r[s]
    BY <1>1 DEF Restrict
  <2> QED BY <1>1, <2>1, <2>3, <2>4
<1>10. (loading \ QueuedStores)' = (loading \ QueuedStores) \ {s}
  <2>1. QueuedStores = StoresOf(queue) /\ QueuedStores' = StoresOf(queue')
    BY <1>1, QueuedIs, QueueType DEF QueuedStores, StoresOf, Base
  <2>2. loading \ {s} \subseteq loading' /\ loading' \subseteq loading
    BY DEF Takes
  <2>3. CASE queue' = Append(queue, w)
    <3>1. QueuedStores' = QueuedStores \cup {s}
      BY <1>1, <1>3, <1>4, <2>1, <2>3, StoresAppend
    <3> QED BY <2>2, <3>1
  <2>4. CASE queue' = queue /\ loading' = loading \ {s}
    <3>1. QueuedStores' = QueuedStores
      BY <2>4 DEF QueuedStores
    <3> QED BY <2>4, <3>1
  <2> QED BY <2>3, <2>4 DEF Takes
<1> QED BY <1>5, <1>8, <1>9, <1>10

LEMMA WriteImplements ==
  ASSUME PolicyInv, NEW s \in Stores, WriteStore(s)
  PROVE  Immediate!DoWrite(s)
<1>1. Base /\ Base'
  BY NextBase DEF PolicyInv, Next
<1>2. PICK w \in Deferrable : Takes(s, w) /\ w.source # "storage" /\ loaded' = loaded
  BY <1>1, WriteIs
<1>3. w.kind \in Kinds /\ w.source \in Sources \ {"hydrate", "storage"}
  BY <1>2 DEF Deferrable, Write
<1> QED BY <1>1, <1>2, <1>3, Taking
      DEF Immediate!DoWrite, Immediate!Kinds, Immediate!Sources, Kinds, Sources

\* A load is applied when no deferred write has overtaken it.
LEMMA LoadImplements ==
  ASSUME ~LoadBehindWrites, PolicyInv, NEW s \in Stores, LoadPersisted(s)
  PROVE  Immediate!Load(s)
<1>1. Base /\ Base'
  BY NextBase DEF PolicyInv, Next
<1>2. PICK w \in Deferrable : /\ Takes(s, w)
                              /\ w.source = "storage" /\ w.kind \in {"replace", "reset"}
                              /\ loaded' = loaded \cup {s}
  BY <1>1, LoadIs
<1>3. s \in loading \ QueuedStores
  BY DEF LoadPersisted, QueuedStores
<1> QED BY <1>1, <1>2, <1>3, Taking DEF Immediate!Load

LEMMA LoadNothingImplements ==
  ASSUME NEW s \in Stores, LoadNothing(s)
  PROVE  Immediate!LoadNothing(s) \/ UNCHANGED Immediate!vars
<1>1. QueuedStores' = QueuedStores /\ loading' = loading \ {s} /\ s \in loading
  BY DEF LoadNothing, QueuedStores
<1>2. UNCHANGED <<key, Restrict(Replay(state, queue), alive), loaded>>
  BY DEF LoadNothing
<1>3. CASE s \in QueuedStores
  <2>1. (loading \ QueuedStores)' = loading \ QueuedStores
    BY <1>1, <1>3
  <2> QED BY <1>2, <2>1 DEF Immediate!vars
<1>4. CASE s \notin QueuedStores
  <2>1. /\ s \in loading \ QueuedStores
        /\ (loading \ QueuedStores)' = (loading \ QueuedStores) \ {s}
    BY <1>1, <1>4
  <2> QED BY <1>2, <2>1 DEF Immediate!LoadNothing
<1> QED BY <1>3, <1>4

LEMMA HydrateImplements ==
  ASSUME ~HydrateAgain, ~RejectedSnapshots, PolicyInv,
         NEW names \in SUBSET Stores, NEW bad \in SUBSET names, HydrateStores(names, bad)
  PROVE  \/ Immediate!Hydrate(names, [s \in names |-> Immediate!NoEntry])
         \/ \E p \in [names -> Policies] :
              Immediate!Hydrate(names, [s \in names |-> Immediate!FreshEntry(p[s], {key'})])
<1>1. /\ state \in [Stores -> Store] /\ alive \subseteq Stores /\ queue \in Seq(Write)
      /\ Base /\ NewKey /\ Undisturbed(names) /\ queue' = <<>>
  BY QueueType DEF PolicyInv, Base, TypeOK, HydrateStores, ForgetHydration
<1>2. /\ state' \in [Stores -> Store]
      /\ alive' = alive \cup names
      /\ loading' = (loading \ names) \cup ((names \ alive) \cap Persisted)
      /\ loaded' = loaded
      /\ \A s \in Stores \ names :
           /\ state'[s].entry = NoEntry
           /\ state'[s].value = state[s].value /\ state'[s].initial = state[s].initial
      /\ \A s \in names :
           /\ state'[s].value = {key'}
           /\ state'[s].initial = IF s \in alive THEN state[s].initial ELSE {key'}
      /\ \/ \A s \in names : state'[s].entry = NoEntry
         \/ \E p \in [names -> Policies] :
              \A s \in names : state'[s].entry = FreshEntry(p[s], {key'})
  BY <1>1, UndisturbedHydrate
<1>3. PICK r : r = Replay(state, queue)
  OBVIOUS
<1>4. Replay(state', queue') = state'
  BY <1>1, ReplayEmpty
<1>5. \A s \in Stores : r[s].initial = state[s].initial
  BY <1>1, <1>3, Replaying
<1>6. \A s \in alive \ names : r[s] = state[s]
  <2> SUFFICES ASSUME NEW s \in alive \ names PROVE r[s] = state[s]
    OBVIOUS
  <2>1. \A i \in 1 .. Len(queue) : queue[i].store # s
    BY <1>1, QueueType DEF Undisturbed
  <2> QED BY <1>1, <1>3, <2>1, Replaying
<1> DEFINE old == Restrict(r, alive)
           Becomes(e) == [s \in DOMAIN old \cup names |->
             IF s \in names
             THEN [value |-> {key'},
                   initial |-> IF s \in DOMAIN old THEN old[s].initial ELSE {key'},
                   entry |-> e[s]]
             ELSE [old[s] EXCEPT !.entry = NoEntry]]
<1>7. /\ DOMAIN old = alive
      /\ \A s \in alive : old[s] = r[s]
      /\ DOMAIN Restrict(state', alive') = alive \cup names
      /\ Restrict(state', alive') = [s \in alive \cup names |-> state'[s]]
  BY <1>2 DEF Restrict
<1>8. ASSUME NEW e, \A s \in names : state'[s].entry = e[s]
      PROVE  Restrict(state', alive') = Becomes(e)
  <2>1. ASSUME NEW s \in names
        PROVE  state'[s] = [value |-> {key'},
                            initial |-> IF s \in DOMAIN old THEN old[s].initial ELSE {key'},
                            entry |-> e[s]]
    <3>1. state'[s] \in Store
      BY <1>2
    <3>2. state'[s] = [value |-> state'[s].value, initial |-> state'[s].initial,
                       entry |-> state'[s].entry]
      BY <3>1 DEF Store
    <3>3. state'[s].initial = IF s \in DOMAIN old THEN old[s].initial ELSE {key'}
      BY <1>2, <1>5, <1>7
    <3> QED BY <1>2, <1>8, <3>2, <3>3
  <2>2. ASSUME NEW s \in alive \ names PROVE state'[s] = [old[s] EXCEPT !.entry = NoEntry]
    <3>1. state'[s] \in Store /\ state[s] \in Store /\ old[s] = state[s]
      BY <1>1, <1>2, <1>6, <1>7
    <3>2. /\ state'[s].entry = NoEntry /\ state'[s].value = state[s].value
          /\ state'[s].initial = state[s].initial
      BY <1>1, <1>2
    <3> HIDE DEF old
    <3> QED BY <3>1, <3>2 DEF Store
  <2> HIDE DEF old
  <2> QED BY <1>7, <2>1, <2>2
<1>9. ASSUME NEW e, \A s \in names : state'[s].entry = e[s]
      PROVE  Immediate!Hydrate(names, e)
  <2>1. Restrict(state', alive') = Becomes(e)
    BY <1>8, <1>9
  <2>2. Restrict(Replay(state', queue'), alive') = Becomes(e)
    BY <1>4, <2>1
  <2>3. Immediate!NewKey
    BY <1>1 DEF NewKey, Immediate!NewKey
  <2>4. /\ (loading \ QueuedStores)' =
             ((loading \ QueuedStores) \ names) \cup ((names \ DOMAIN old) \cap Persisted)
        /\ loaded' = loaded
    <3>1. QueuedStores \subseteq names
      BY <1>1, QueueType DEF QueuedStores, Undisturbed
    <3>2. QueuedStores' = {}
      <4>1. DOMAIN <<>> = {}
        BY EmptySeq, LenProperties
      <4> QED BY <1>1, <4>1 DEF QueuedStores
    <3>3. DOMAIN old = alive
      BY <1>7
    <3> HIDE DEF old
    <3> QED BY <1>2, <3>1, <3>2, <3>3
  <2> QED BY <1>3, <2>2, <2>3, <2>4 DEF Immediate!Hydrate, Immediate!NoEntry, NoEntry
<1> HIDE DEF old, Becomes
<1>10. CASE \A s \in names : state'[s].entry = NoEntry
  <2>1. PICK e : e = [s \in names |-> Immediate!NoEntry]
    OBVIOUS
  <2>2. \A s \in names : state'[s].entry = e[s]
    BY <1>10, <2>1 DEF Immediate!NoEntry, NoEntry
  <2>3. Immediate!Hydrate(names, e)
    BY <1>9, <2>2
  <2> QED BY <2>1, <2>3
<1>11. ASSUME NEW p \in [names -> Policies],
              \A s \in names : state'[s].entry = FreshEntry(p[s], {key'})
       PROVE  Immediate!Hydrate(names, [s \in names |-> Immediate!FreshEntry(p[s], {key'})])
  BY <1>9, <1>11 DEF Immediate!FreshEntry, FreshEntry
<1> QED BY <1>2, <1>10, <1>11

LEMMA FlushStutters ==
  ASSUME PolicyInv, Flush, key' = key, alive' = alive, loaded' = loaded
  PROVE  UNCHANGED Immediate!vars
<1>1. state' = Replay(state, queue) /\ queue' = <<>>
  BY DEF Flush
<1>2. Replay(state', queue') = Replay(state, queue)
  BY <1>1, ReplayEmpty
<1>3. (loading \ QueuedStores)' = loading \ QueuedStores
  <2>1. DOMAIN <<>> = {}
    BY EmptySeq, LenProperties
  <2>2. QueuedStores' = {}
    BY <1>1, <2>1 DEF QueuedStores
  <2>3. loading' = loading \ QueuedStores
    BY DEF Flush
  <2> QED BY <2>2, <2>3
<1> QED BY <1>2, <1>3 DEF Immediate!vars

LEMMA NextImplements ==
  ASSUME ~LoadBehindWrites, ~HydrateAgain, ~RejectedSnapshots, PolicyInv, [Next]_vars
  PROVE  [Immediate!Next]_(Immediate!vars)
<1>1. ASSUME NEW s \in Stores,
             CreateStore(s) \/ DeleteStore(s) \/ WriteStore(s) \/ LoadPersisted(s)
      PROVE  Immediate!Next
  BY <1>1, CreateImplements, DeleteImplements, WriteImplements, LoadImplements DEF Immediate!Next
<1>2. ASSUME NEW names \in (SUBSET Stores) \ {{}}, NEW bad \in SUBSET names,
             HydrateStores(names, bad)
      PROVE  Immediate!Next
  BY <1>2, HydrateImplements DEF Immediate!Next, Immediate!Policies, Policies
<1>3. ASSUME NEW s \in Stores, Notify(s) PROVE UNCHANGED Immediate!vars
  BY <1>3 DEF Notify, storeVars, Immediate!vars, QueuedStores
<1>4. ASSUME CloseBootWindow \/ FireBootWindowTimer PROVE UNCHANGED Immediate!vars
  BY <1>4, FlushStutters DEF CloseBootWindow, FireBootWindowTimer
<1>5. CASE UNCHANGED vars
  BY <1>5 DEF vars, storeVars, Immediate!vars, QueuedStores
<1>6. ASSUME NEW s \in Stores, LoadNothing(s) PROVE [Immediate!Next]_(Immediate!vars)
  BY <1>6, LoadNothingImplements DEF Immediate!Next
<1> QED BY <1>1, <1>2, <1>3, <1>4, <1>5, <1>6 DEF Next

LEMMA InitImplements ==
  ASSUME Init
  PROVE  Immediate!Init
<1>1. key = 0 /\ alive = {} /\ queue = <<>> /\ loading = {} /\ loaded = {}
  BY DEF Init
<1>2. Restrict(Replay(state, queue), alive) = [s \in {} |-> 0]
  BY <1>1 DEF Restrict
<1> QED BY <1>1, <1>2 DEF Immediate!Init

\* The boot window changes nothing but the time: every behaviour, with the deferred writes
\* replayed in their order, is one of a program that applies each write at once
\* (ImmediateHydration), if no load ends behind a deferred write of its store, which it
\* would overwrite, a store hydrated again has let go of its old baseline, no deferred
\* write of another store is dropped, and validate accepts the snapshots.
THEOREM DeferringOnlyDelays ==
  ASSUME ~LoadBehindWrites, ~HydrateAgain, ~RejectedSnapshots
  PROVE  Spec => AsIfImmediate
<1>1. PolicyInv /\ [Next]_vars => PolicyInv'
  BY NextPolicy
<1>2. PolicyInv /\ [Next]_vars => [Immediate!Next]_(Immediate!vars)
  BY NextImplements
<1>3. Init => PolicyInv /\ Immediate!Init
  BY InitPolicy, InitImplements
<1> QED BY <1>1, <1>2, <1>3, PTL DEF Spec, AsIfImmediate, Immediate!Spec
=============================================================================
