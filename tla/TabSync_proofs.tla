-------------------------- MODULE TabSync_proofs ---------------------------
(***************************************************************************)
(* Proofs about TabSync: its types, that no tab is taken back to a value   *)
(* its own had replaced, for any number of tabs, writes and requests, with *)
(* or without drops, a resolver and stores created again; and that the tabs*)
(* converge, when not too many write while a snapshot is asked for.        *)
(***************************************************************************)
EXTENDS TabSync, SequenceTheorems, FiniteSetTheorems, TLAPS

-----------------------------------------------------------------------------
(***************************************************************************)
(* The inductive invariant.  Versions may stand for two values when three  *)
(* tabs write, but a value always has one clock, its age: whoever holds it,*)
(* or sends it as its own, has that clock, and a value is older than what  *)
(* replaced it.                                                            *)
(***************************************************************************)

Wires == [Tabs \X Tabs -> Seq(Message)]

\* The messages of w tell values' ages by b, of values up to stamp s.
Dated(m, b, s) == m.type = "sync-state" => m.data <= s /\ m.clock = b[m.data]
AllDated(w, b, s) == \A c \in Tabs \X Tabs : \A i \in DOMAIN w[c] : Dated(w[c][i], b, s)

\* A closed channel has nothing to deliver.
ClosedIsEmpty(w, o) == \A c \in Tabs \X Tabs : ~o[c[2]] => w[c] = <<>>

Ages(b) ==
  /\ b[0] = 0 /\ \A v \in 1 .. stamp : b[v] > 0
  /\ \A t \in Tabs : value[t] <= stamp
  /\ \A t \in Tabs : syncClocks[t] = IF open[t] THEN b[value[t]] ELSE 0
  /\ AllDated(wire, b, stamp)
  /\ \A v \in 0 .. stamp : \A y \in over[v] : y <= stamp /\ b[y] < b[v]

Inv ==
  /\ TypeOK
  /\ ClosedIsEmpty(wire, open)
  /\ \E b \in [Stamps -> Nat] : Ages(b)

-----------------------------------------------------------------------------
(***************************************************************************)
(* Messages.                                                               *)
(***************************************************************************)

LEMMA Posting ==
  ASSUME TypeOK, NEW w \in Wires, NEW t \in Tabs, NEW m \in Message, NEW b, NEW s,
         ClosedIsEmpty(w, open), AllDated(w, b, s), Dated(m, b, s)
  PROVE  Post(w, t, m) \in Wires /\ AllDated(Post(w, t, m), b, s) /\ ClosedIsEmpty(Post(w, t, m), open)
<1>1. ASSUME NEW c \in Tabs \X Tabs
      PROVE  /\ Post(w, t, m)[c] \in Seq(Message)
             /\ \A i \in DOMAIN Post(w, t, m)[c] : Dated(Post(w, t, m)[c][i], b, s)
             /\ ~open[c[2]] => Post(w, t, m)[c] = <<>>
  <2>1. w[c] \in Seq(Message) /\ \A i \in DOMAIN w[c] : Dated(w[c][i], b, s)
    BY DEF Wires, AllDated
  <2>2. CASE c[1] = t /\ c[2] # t /\ open[c[2]]
    <3>1. Post(w, t, m)[c] = Append(w[c], m)
      BY <2>2 DEF Post
    <3>2. ASSUME NEW i \in DOMAIN Append(w[c], m) PROVE Dated(Append(w[c], m)[i], b, s)
      <4>1. i \in 1 .. Len(w[c]) + 1 /\ Len(w[c]) \in Nat
        BY <2>1, AppendProperties, LenProperties
      <4>2. CASE i = Len(w[c]) + 1
        BY <2>1, <4>2, AppendProperties
      <4>3. CASE i # Len(w[c]) + 1
        <5>1. i \in 1 .. Len(w[c])
          BY <4>1, <4>3
        <5>2. i \in DOMAIN w[c] /\ Append(w[c], m)[i] = w[c][i]
          BY <2>1, <5>1, AppendProperties, LenProperties
        <5> QED BY <2>1, <5>2
      <4> QED BY <4>2, <4>3
    <3> QED BY <2>1, <2>2, <3>1, <3>2, AppendProperties
  <2>3. CASE ~(c[1] = t /\ c[2] # t /\ open[c[2]])
    <3>1. Post(w, t, m)[c] = w[c]
      BY <2>3 DEF Post
    <3> QED BY <2>1, <3>1 DEF ClosedIsEmpty
  <2> QED BY <2>2, <2>3
<1>2. Post(w, t, m) = [c \in Tabs \X Tabs |-> Post(w, t, m)[c]]
  BY DEF Post
<1>3. Post(w, t, m) \in Wires
  BY <1>1, <1>2 DEF Wires
<1> QED BY <1>1, <1>3 DEF AllDated, ClosedIsEmpty

LEMMA Delivering ==
  ASSUME TypeOK, NEW u \in Tabs, NEW t \in Tabs, wire[<<u, t>>] # <<>>, NEW b, NEW s,
         ClosedIsEmpty(wire, open), AllDated(wire, b, s)
  PROVE  /\ Head(wire[<<u, t>>]) \in Message /\ Dated(Head(wire[<<u, t>>]), b, s)
         /\ Deliver(u, t) \in Wires /\ AllDated(Deliver(u, t), b, s) /\ ClosedIsEmpty(Deliver(u, t), open)
         /\ open[t]
<1> DEFINE d == <<u, t>>
<1>1. d \in Tabs \X Tabs /\ d[2] = t
  OBVIOUS
<1>2. wire \in Wires /\ wire[d] \in Seq(Message) /\ wire[d] # <<>>
  BY <1>1 DEF TypeOK, Wires
<1>3. open[t]
  BY <1>1, <1>2 DEF ClosedIsEmpty
<1>4. /\ Head(wire[d]) \in Message /\ Head(wire[d]) = wire[d][1] /\ 1 \in DOMAIN wire[d]
      /\ Tail(wire[d]) \in Seq(Message)
      /\ \A i \in DOMAIN Tail(wire[d]) : i + 1 \in DOMAIN wire[d] /\ Tail(wire[d])[i] = wire[d][i + 1]
  <2>1. PICK n \in Nat : n = Len(wire[d])
    BY <1>2, LenProperties
  <2>2. n > 0 /\ DOMAIN wire[d] = 1 .. n
    BY <1>2, <2>1, LenProperties, EmptySeq
  <2> HIDE DEF d
  <2>3. /\ Head(wire[d]) \in Message /\ Tail(wire[d]) \in Seq(Message)
        /\ Len(Tail(wire[d])) = n - 1 /\ Head(wire[d]) = wire[d][1]
        /\ \A i \in 1 .. Len(Tail(wire[d])) : Tail(wire[d])[i] = wire[d][i + 1]
    BY <1>2, <2>1, <2>2, HeadTailProperties
  <2>4. DOMAIN Tail(wire[d]) = 1 .. n - 1
    BY <2>3, LenProperties
  <2> QED BY <2>2, <2>3, <2>4
<1>5. /\ Deliver(u, t)[d] = Tail(wire[d]) /\ Deliver(u, t) \in Wires
      /\ \A c \in Tabs \X Tabs : c # d => Deliver(u, t)[c] = wire[c]
  BY <1>1, <1>2, <1>4 DEF Deliver, Wires
<1> HIDE DEF d
<1>6. Dated(Head(wire[d]), b, s) /\ \A i \in DOMAIN Tail(wire[d]) : Dated(Tail(wire[d])[i], b, s)
  BY <1>1, <1>4 DEF AllDated
<1>7. AllDated(Deliver(u, t), b, s)
  BY <1>5, <1>6 DEF AllDated
<1>8. ClosedIsEmpty(Deliver(u, t), open)
  BY <1>1, <1>3, <1>5 DEF ClosedIsEmpty
<1> QED BY <1>3, <1>4, <1>5, <1>6, <1>7, <1>8 DEF d

\* What broadcastSync does: the tab's version reaches the open channels, or is lost.
LEMMA Broadcasting ==
  ASSUME TypeOK, NEW w \in Wires, NEW t \in Tabs, NEW reply \in BOOLEAN, BroadcastSync(w, t, reply),
         NEW b, NEW s, ClosedIsEmpty(w, open), AllDated(w, b, s),
         syncClocks'[t] \in Nat, value'[t] \in Stamps, value'[t] <= s, syncClocks'[t] = b[value'[t]]
  PROVE  /\ wire' \in Wires /\ AllDated(wire', b, s) /\ ClosedIsEmpty(wire', open)
         /\ unsent' \in [Tabs -> BOOLEAN] /\ lost' \in BOOLEAN
<1>1. PICK m : m = SyncState(t, reply)
  OBVIOUS
<1>2. m \in Message /\ Dated(m, b, s)
  BY <1>1 DEF SyncState, Message, Dated
<1>3. unsent' \in [Tabs -> BOOLEAN] /\ lost' \in BOOLEAN
  BY DEF BroadcastSync, TypeOK
<1>4. CASE wire' = Post(w, t, SyncState(t, reply))
  BY <1>1, <1>2, <1>3, <1>4, Posting
<1>5. CASE wire' = w
  BY <1>3, <1>5
<1> QED BY <1>4, <1>5 DEF BroadcastSync

-----------------------------------------------------------------------------
(***************************************************************************)
(* Writes.                                                                 *)
(***************************************************************************)

\* Tab t got a value of its own at clock k + 1: b1 knows its age too.
AgesAfter(b, b1, t, k) ==
  /\ b1[0] = 0 /\ b1[value'[t]] = k + 1 /\ \A v \in 1 .. stamp' : b1[v] > 0
  /\ \A v \in Stamps : v <= stamp => b1[v] = b[v]
  /\ \A v \in 0 .. stamp' : \A y \in over'[v] : y <= stamp' /\ b1[y] < b1[v]
  /\ stamp' = stamp + 1 /\ stamp' \in Stamps /\ over' \in [Stamps -> SUBSET Stamps]
  /\ value' \in [Tabs -> Stamps] /\ value'[t] = stamp'
  /\ \A u \in Tabs : value'[u] <= stamp' /\ (u # t => value'[u] = value[u] /\ value[u] <= stamp)

\* A value made from values no older than k, at clock k + 1, is younger than what it replaced.
LEMMA Replacing ==
  ASSUME TypeOK, NEW b \in [Stamps -> Nat], Ages(b), NEW t \in Tabs, NEW seen \in SUBSET Stamps,
         Replace(t, seen), NEW k \in Nat, \A v \in seen : v <= stamp /\ b[v] <= k
  PROVE  \E b1 \in [Stamps -> Nat] : AgesAfter(b, b1, t, k)
<1>1. /\ stamp \in Nat /\ stamp' = stamp + 1 /\ stamp' \in Stamps /\ 0 \in Stamps /\ Stamps \subseteq Nat
      /\ stamp' \notin 0 .. stamp /\ 0 .. stamp' = (0 .. stamp) \cup {stamp'} /\ 0 .. stamp \subseteq Stamps
  BY SyncAssumption DEF Replace, TypeOK, Stamps
<1>2. PICK old : old = UNION {over[v] \cup {v} : v \in seen}
  OBVIOUS
<1>3. \A y \in old : y \in Stamps /\ y <= stamp /\ b[y] <= k
  <2> SUFFICES ASSUME NEW v \in seen, NEW y \in over[v] \cup {v} PROVE y \in Stamps /\ y <= stamp /\ b[y] <= k
    BY <1>2
  <2>1. v \in Stamps /\ over[v] \in SUBSET Stamps /\ v \in 0 .. stamp
    BY <1>1 DEF TypeOK
  <2>2. y \in Stamps /\ b[y] \in Nat /\ b[v] \in Nat /\ b[v] <= k
    BY <2>1
  <2>3. CASE y \in over[v]
    BY <2>1, <2>2, <2>3 DEF Ages
  <2>4. CASE y = v
    BY <2>2, <2>4
  <2> QED BY <2>3, <2>4
<1>4. /\ over' \in [Stamps -> SUBSET Stamps] /\ over'[stamp'] = old
      /\ \A v \in Stamps \ {stamp'} : over'[v] = over[v]
  BY <1>1, <1>2, <1>3 DEF Replace, TypeOK
<1>5. /\ value' \in [Tabs -> Stamps] /\ value'[t] = stamp'
      /\ \A u \in Tabs : u # t => value'[u] = value[u] /\ value[u] <= stamp
  BY <1>1 DEF Replace, TypeOK, Ages
<1>6. ASSUME NEW u \in Tabs PROVE value'[u] <= stamp'
  <2>1. value[u] \in Nat
    BY <1>1 DEF TypeOK
  <2> QED BY <1>1, <1>5, <2>1
<1>7. PICK b1 : b1 = [b EXCEPT ![stamp'] = k + 1]
  OBVIOUS
<1>8. b1 \in [Stamps -> Nat] /\ b1[stamp'] = k + 1 /\ \A v \in Stamps \ {stamp'} : b1[v] = b[v]
  BY <1>1, <1>7
<1>9. b1[0] = 0 /\ \A v \in Stamps : v <= stamp => b1[v] = b[v]
  BY <1>1, <1>8 DEF Ages
<1>10. ASSUME NEW v \in 0 .. stamp', NEW y \in over'[v] PROVE y <= stamp' /\ b1[y] < b1[v]
  <2>1. CASE v = stamp'
    <3>1. y \in Stamps /\ y <= stamp /\ b[y] <= k /\ y \in Nat
      BY <1>1, <1>3, <1>4, <2>1
    <3>2. b1[y] = b[y] /\ b[y] \in Nat
      BY <1>9, <3>1
    <3> QED BY <1>1, <1>8, <2>1, <3>1, <3>2
  <2>2. CASE v \in 0 .. stamp
    <3>1. over'[v] = over[v] /\ v \in Stamps /\ v <= stamp
      BY <1>1, <1>4, <2>2
    <3>2. y \in Stamps /\ y <= stamp /\ b[y] < b[v]
      BY <2>2, <3>1 DEF Ages, TypeOK
    <3> QED BY <1>1, <1>9, <3>1, <3>2
  <2> QED BY <1>1, <2>1, <2>2
<1>11. ASSUME NEW v \in 1 .. stamp' PROVE b1[v] > 0
  <2>1. CASE v = stamp'
    BY <1>8, <2>1
  <2>2. CASE v # stamp'
    <3>1. v \in 1 .. stamp /\ v \in Stamps /\ v <= stamp
      BY <1>1, <2>2
    <3> QED BY <1>9, <3>1 DEF Ages
  <2> QED BY <2>1, <2>2
<1> HIDE DEF TypeOK
<1> QED BY <1>1, <1>4, <1>5, <1>6, <1>8, <1>9, <1>10, <1>11 DEF AgesAfter

\* What was dated before a write still is.
LEMMA StillDated ==
  ASSUME NEW w \in Wires, NEW s \in Nat, NEW b, NEW b1, AllDated(w, b, s),
         \A v \in Stamps : v <= s => b1[v] = b[v]
  PROVE  AllDated(w, b1, s + 1)
<1> SUFFICES ASSUME NEW c \in Tabs \X Tabs, NEW i \in DOMAIN w[c], w[c][i].type = "sync-state"
             PROVE  w[c][i].data <= s + 1 /\ w[c][i].clock = b1[w[c][i].data]
  BY DEF AllDated, Dated
<1>1. w[c][i] \in Message
  BY ElementOfSeq, LenProperties DEF Wires
<1>2. PICK m : m = w[c][i]
  OBVIOUS
<1>3. m.data \in Stamps /\ m.data \in Nat
  BY <1>1, <1>2, SyncAssumption DEF Message, Stamps
<1>4. m.data <= s /\ m.clock = b[m.data]
  BY <1>2 DEF AllDated, Dated
<1> QED BY <1>2, <1>3, <1>4

-----------------------------------------------------------------------------
(***************************************************************************)
(* Every action keeps the invariant.                                       *)
(***************************************************************************)

LEMMA InvIs ==
  ASSUME Inv
  PROVE  /\ TypeOK /\ ClosedIsEmpty(wire, open) /\ wire \in Wires
         /\ \E b \in [Stamps -> Nat] : Ages(b)
  BY DEF Inv, TypeOK, Wires

LEMMA InitInv == Init => Inv
<1> SUFFICES ASSUME Init PROVE Inv
  OBVIOUS
<1>1. 0 \in Stamps /\ stamp = 0
  BY SyncAssumption DEF Stamps, Init
<1>2. TypeOK
  <2>1. <<>> \in Seq(Message)
    BY EmptySeq
  <2>2. requests \in 0 .. MaxRequests
    BY SyncAssumption DEF Init
  <2> QED BY <1>1, <2>1, <2>2 DEF Init, TypeOK, Version
<1>3. PICK b : b = [v \in Stamps |-> 0]
  OBVIOUS
<1>4. b \in [Stamps -> Nat] /\ b[0] = 0
  BY <1>1, <1>3
<1>5. \A c \in Tabs \X Tabs : wire[c] = <<>> /\ DOMAIN wire[c] = {}
  BY DEF Init
<1>6. \A v \in 0 .. stamp : over[v] = {}
  BY <1>1 DEF Init
<1>7. Ages(b)
  BY <1>1, <1>4, <1>5, <1>6 DEF Init, Ages, AllDated
<1> QED BY <1>2, <1>4, <1>5, <1>7 DEF Inv, ClosedIsEmpty

LEMMA CreateStoreKeeps ==
  ASSUME Inv, NEW t \in Tabs, CreateStore(t)
  PROVE  Inv'
<1>1. TypeOK /\ ClosedIsEmpty(wire, open)
  BY DEF Inv
<1>2. PICK b \in [Stamps -> Nat] : Ages(b)
  BY DEF Inv
<1>3. 0 \in Stamps /\ stamp \in Nat
  BY <1>1, SyncAssumption DEF Stamps, TypeOK
<1>4. /\ syncVersions' \in [Tabs -> Version]
      /\ \A u \in Tabs : syncVersions'[u].clock = syncClocks'[u]
  <2>1. PICK v : v = [clock |-> syncClocks[t], source |-> t]
    OBVIOUS
  <2>2. v \in Version /\ v.clock = syncClocks[t]
    BY <1>1, <2>1 DEF TypeOK, Version
  <2>3. syncVersions' = [syncVersions EXCEPT ![t] = v]
    BY <2>1 DEF CreateStore
  <2> QED BY <1>1, <2>2, <2>3 DEF TypeOK, CreateStore
<1>5. TypeOK'
  BY <1>1, <1>3, <1>4 DEF CreateStore, TypeOK, writeVars
<1>6. ClosedIsEmpty(wire, open)'
  BY <1>1 DEF CreateStore, TypeOK, ClosedIsEmpty
<1>7. Ages(b)'
  BY <1>1, <1>2, <1>3 DEF CreateStore, TypeOK, writeVars, Ages
<1> QED BY <1>2, <1>5, <1>6, <1>7 DEF Inv

LEMMA DeleteStoreKeeps ==
  ASSUME Inv, NEW t \in Tabs, DeleteStore(t)
  PROVE  Inv'
<1>1. TypeOK /\ ClosedIsEmpty(wire, open)
  BY DEF Inv
<1>2. PICK b \in [Stamps -> Nat] : Ages(b)
  BY DEF Inv
<1>3. /\ syncVersions' \in [Tabs -> Version]
      /\ \A u \in Tabs : syncVersions'[u].clock = syncClocks'[u]
  <2>1. PICK v : v = [clock |-> 0, source |-> t]
    OBVIOUS
  <2>2. v \in Version /\ v.clock = 0
    BY <2>1 DEF Version
  <2>3. syncVersions' = [syncVersions EXCEPT ![t] = v]
    BY <2>1 DEF DeleteStore
  <2> QED BY <1>1, <2>2, <2>3 DEF TypeOK, DeleteStore
<1>4. /\ wire' \in [Tabs \X Tabs -> Seq(Message)]
      /\ \A c \in Tabs \X Tabs : IF c[2] = t THEN wire'[c] = <<>> /\ DOMAIN wire'[c] = {} ELSE wire'[c] = wire[c]
  <2>1. <<>> \in Seq(Message)
    BY EmptySeq
  <2> QED BY <1>1, <2>1 DEF TypeOK, DeleteStore
<1>5. TypeOK'
  BY <1>1, <1>3, <1>4 DEF DeleteStore, TypeOK, writeVars
<1>6. ClosedIsEmpty(wire, open)'
  BY <1>1, <1>4 DEF DeleteStore, TypeOK, ClosedIsEmpty
<1>7. AllDated(wire', b, stamp)
  BY <1>2, <1>4 DEF Ages, AllDated
<1>8. Ages(b)'
  BY <1>1, <1>2, <1>7 DEF DeleteStore, TypeOK, writeVars, Ages
<1> QED BY <1>2, <1>5, <1>6, <1>8 DEF Inv

\* A tab asks for a snapshot.
LEMMA AskingKeeps ==
  ASSUME Inv, NEW t \in Tabs, wire' = Post(wire, t, [type |-> "sync-request"]),
         setup' \in [Tabs -> BOOLEAN], requests' \in 0 .. MaxRequests,
         UNCHANGED <<open, opened, stateVars, writeVars, lost>>
  PROVE  Inv'
<1>1. TypeOK /\ ClosedIsEmpty(wire, open) /\ wire \in Wires
  BY InvIs
<1>2. PICK b \in [Stamps -> Nat] : Ages(b)
  BY DEF Inv
<1>3. PICK m : m = [type |-> "sync-request"]
  OBVIOUS
<1>4. m \in Message /\ Dated(m, b, stamp)
  BY <1>3 DEF Message, Dated
<1>5. wire' \in Wires /\ AllDated(wire', b, stamp) /\ ClosedIsEmpty(wire', open)
  BY <1>1, <1>2, <1>3, <1>4, Posting DEF Ages
<1>6. TypeOK'
  BY <1>1, <1>5 DEF TypeOK, Wires, stateVars, writeVars
<1>7. Ages(b)'
  BY <1>2, <1>5 DEF Ages, stateVars, writeVars
<1> QED BY <1>2, <1>5, <1>6, <1>7 DEF Inv

LEMMA RequestKeeps ==
  ASSUME Inv, NEW t \in Tabs, SetupRequest(t) \/ FocusRequest(t)
  PROVE  Inv'
<1>1. TypeOK
  BY DEF Inv
<1>2. setup' \in [Tabs -> BOOLEAN] /\ requests' \in 0 .. MaxRequests
  <2>1. setup \in [Tabs -> BOOLEAN] /\ requests \in 0 .. MaxRequests
    BY <1>1 DEF TypeOK
  <2>2. CASE SetupRequest(t)
    BY <2>1, <2>2 DEF SetupRequest
  <2>3. CASE FocusRequest(t)
    BY <2>1, <2>3, SyncAssumption DEF FocusRequest, tabVars
  <2> QED BY <2>2, <2>3
<1> QED BY <1>2, AskingKeeps DEF SetupRequest, FocusRequest, tabVars

\* A message is taken off the wire, and nothing else happens.
LEMMA DroppingKeeps ==
  ASSUME Inv, NEW u \in Tabs, NEW t \in Tabs, Ignore(u, t) \/ Reject(u, t)
  PROVE  Inv'
<1>1. TypeOK /\ ClosedIsEmpty(wire, open)
  BY DEF Inv
<1>2. PICK b \in [Stamps -> Nat] : Ages(b)
  BY DEF Inv
<1>3. /\ wire' = Deliver(u, t) /\ wire[<<u, t>>] # <<>> /\ lost' \in BOOLEAN
      /\ UNCHANGED <<tabVars, stateVars, writeVars, requests>>
  BY <1>1 DEF Ignore, Reject, Arrives, TypeOK
<1>4. wire' \in Wires /\ AllDated(wire', b, stamp) /\ ClosedIsEmpty(wire', open)
  BY <1>1, <1>2, <1>3, Delivering DEF Ages
<1>5. TypeOK'
  BY <1>1, <1>3, <1>4 DEF TypeOK, Wires, tabVars, stateVars, writeVars
<1>6. Ages(b)'
  BY <1>2, <1>3, <1>4 DEF Ages, tabVars, stateVars, writeVars
<1> QED BY <1>2, <1>3, <1>4, <1>5, <1>6 DEF Inv, tabVars

\* Tab t holds a version of its own now: clock k, itself as source.
LEMMA OwnVersion ==
  ASSUME TypeOK, NEW t \in Tabs, NEW k \in Nat, syncClocks' = [syncClocks EXCEPT ![t] = k],
         syncVersions' = [syncVersions EXCEPT ![t] = [clock |-> syncClocks'[t], source |-> t]]
  PROVE  /\ syncClocks' \in [Tabs -> Nat] /\ syncClocks'[t] = k
         /\ \A u \in Tabs : u # t => syncClocks'[u] = syncClocks[u]
         /\ syncVersions' \in [Tabs -> Version]
         /\ \A u \in Tabs : syncVersions'[u].clock = syncClocks'[u]
<1>1. /\ syncClocks' \in [Tabs -> Nat] /\ syncClocks'[t] = k
      /\ \A u \in Tabs : u # t => syncClocks'[u] = syncClocks[u]
  BY DEF TypeOK
<1>2. PICK v : v = [clock |-> syncClocks'[t], source |-> t]
  OBVIOUS
<1>3. v \in Version /\ v.clock = k
  BY <1>1, <1>2 DEF Version
<1>4. /\ syncVersions' \in [Tabs -> Version] /\ syncVersions'[t] = v
      /\ \A u \in Tabs : u # t => syncVersions'[u] = syncVersions[u]
  BY <1>2, <1>3 DEF TypeOK
<1>5. \A u \in Tabs : syncVersions'[u].clock = syncClocks'[u]
  BY <1>1, <1>3, <1>4 DEF TypeOK
<1> QED BY <1>1, <1>4, <1>5

\* A tab makes a value of its own, from values no older than k, and sends it or not.
LEMMA ReplaceKeeps ==
  ASSUME Inv, NEW b \in [Stamps -> Nat], Ages(b), NEW t \in Tabs, open[t],
         NEW seen \in SUBSET Stamps, Replace(t, seen),
         NEW k \in Nat, \A v \in seen : v <= stamp /\ b[v] <= k,
         syncClocks' = [syncClocks EXCEPT ![t] = k + 1],
         syncVersions' = [syncVersions EXCEPT ![t] = [clock |-> syncClocks'[t], source |-> t]],
         loopGuard' \in [Tabs -> BOOLEAN],
         NEW w \in Wires, AllDated(w, b, stamp), ClosedIsEmpty(w, open),
         \/ w = wire' /\ unsent' \in [Tabs -> BOOLEAN] /\ lost' \in BOOLEAN
         \/ BroadcastSync(w, t, FALSE),
         UNCHANGED <<tabVars, requests>>
  PROVE  Inv'
<1>1. TypeOK /\ stamp \in Nat
  BY SyncAssumption DEF Inv, TypeOK, Stamps
<1>2. PICK b1 \in [Stamps -> Nat] : AgesAfter(b, b1, t, k)
  BY <1>1, Replacing
<1>a2. /\ b1[0] = 0 /\ b1[value'[t]] = k + 1 /\ \A v \in 1 .. stamp' : b1[v] > 0
       /\ \A v \in Stamps : v <= stamp => b1[v] = b[v]
       /\ \A v \in 0 .. stamp' : \A y \in over'[v] : y <= stamp' /\ b1[y] < b1[v]
       /\ stamp' = stamp + 1 /\ stamp' \in Stamps /\ over' \in [Stamps -> SUBSET Stamps]
       /\ value' \in [Tabs -> Stamps] /\ value'[t] = stamp'
       /\ \A u \in Tabs : value'[u] <= stamp' /\ (u # t => value'[u] = value[u] /\ value[u] <= stamp)
  BY <1>2 DEF AgesAfter
<1>3. /\ syncClocks' \in [Tabs -> Nat] /\ syncClocks'[t] = k + 1
      /\ \A u \in Tabs : u # t => syncClocks'[u] = syncClocks[u]
      /\ syncVersions' \in [Tabs -> Version]
      /\ \A u \in Tabs : syncVersions'[u].clock = syncClocks'[u]
  <2>1. k + 1 \in Nat
    OBVIOUS
  <2> QED BY <1>1, <2>1, OwnVersion
<1>4. AllDated(w, b1, stamp')
  BY <1>1, <1>2, <1>a2, StillDated
<1>5. /\ wire' \in Wires /\ AllDated(wire', b1, stamp') /\ ClosedIsEmpty(wire', open)
      /\ unsent' \in [Tabs -> BOOLEAN] /\ lost' \in BOOLEAN
  <2>1. CASE w = wire' /\ unsent' \in [Tabs -> BOOLEAN] /\ lost' \in BOOLEAN
    BY <1>4, <2>1
  <2>2. CASE BroadcastSync(w, t, FALSE)
    <3>1. /\ value'[t] \in Stamps /\ value'[t] <= stamp' /\ syncClocks'[t] \in Nat
          /\ syncClocks'[t] = b1[value'[t]]
      BY <1>2, <1>a2, <1>3
    <3> QED BY <1>1, <1>4, <2>2, <3>1, Broadcasting
  <2> QED BY <2>1, <2>2
<1>6. TypeOK'
  BY <1>1, <1>2, <1>a2, <1>3, <1>5 DEF TypeOK, Wires, tabVars
<1>7. \A u \in Tabs : syncClocks'[u] = IF open[u] THEN b1[value'[u]] ELSE 0
  <2> SUFFICES ASSUME NEW u \in Tabs, u # t PROVE syncClocks'[u] = IF open[u] THEN b1[value'[u]] ELSE 0
    BY <1>2, <1>a2, <1>3
  <2>1. value[u] \in Stamps /\ b1[value'[u]] = b[value[u]]
    BY <1>1, <1>2, <1>a2 DEF TypeOK
  <2> QED BY <1>3, <2>1 DEF Ages
<1>8. Ages(b1)'
  BY <1>2, <1>a2, <1>5, <1>7 DEF Ages, tabVars
<1> QED BY <1>2, <1>a2, <1>5, <1>6, <1>8 DEF Inv, tabVars

LEMMA WriteKeeps ==
  ASSUME Inv, NEW t \in Tabs, Write(t)
  PROVE  Inv'
<1>1. TypeOK /\ ClosedIsEmpty(wire, open) /\ wire \in Wires
  BY InvIs
<1>2. PICK b \in [Stamps -> Nat] : Ages(b)
  BY DEF Inv
<1>3. PICK k \in Nat : k = syncClocks[t]
  BY <1>1 DEF TypeOK
<1>4. open[t] /\ value[t] \in Stamps /\ {value[t]} \in SUBSET Stamps /\ Replace(t, {value[t]})
  BY <1>1 DEF TypeOK, Write
<1>5. \A v \in {value[t]} : v <= stamp /\ b[v] <= k
  BY <1>2, <1>3, <1>4 DEF Ages
<1>6. /\ syncClocks' = [syncClocks EXCEPT ![t] = k + 1]
      /\ syncVersions' = [syncVersions EXCEPT ![t] = [clock |-> syncClocks'[t], source |-> t]]
      /\ UNCHANGED <<tabVars, requests>>
  BY <1>3 DEF Write, EnsureLocalClock
<1>7. /\ loopGuard' \in [Tabs -> BOOLEAN]
      /\ \/ wire = wire' /\ unsent' \in [Tabs -> BOOLEAN] /\ lost' \in BOOLEAN
         \/ BroadcastSync(wire, t, FALSE)
  BY <1>1 DEF Write, TypeOK
<1>8. AllDated(wire, b, stamp)
  BY <1>2 DEF Ages
<1> QED BY <1>1, <1>2, <1>4, <1>5, <1>6, <1>7, <1>8, ReplaceKeeps

LEMMA ResolveKeeps ==
  ASSUME Inv, NEW u \in Tabs, NEW t \in Tabs, Resolve(u, t)
  PROVE  Inv'
<1>1. TypeOK /\ ClosedIsEmpty(wire, open) /\ wire \in Wires /\ wire[<<u, t>>] # <<>>
  BY InvIs DEF Resolve, Arrives
<1>2. PICK b \in [Stamps -> Nat] : Ages(b)
  BY DEF Inv
<1>3. AllDated(wire, b, stamp)
  BY <1>2 DEF Ages
<1>4. PICK m : m = Head(wire[<<u, t>>])
  OBVIOUS
<1>5. /\ m \in Message /\ Dated(m, b, stamp) /\ open[t]
      /\ Deliver(u, t) \in Wires /\ AllDated(Deliver(u, t), b, stamp) /\ ClosedIsEmpty(Deliver(u, t), open)
  BY <1>1, <1>3, <1>4, Delivering
<1>6. m.type = "sync-state"
  BY <1>4 DEF Resolve, Arrives
<1>7. m.data \in Stamps /\ m.clock \in Nat /\ m.data <= stamp /\ m.clock = b[m.data]
  BY <1>5, <1>6 DEF Message, Dated
<1>8. PICK k : k = IF m.clock > syncClocks[t] THEN m.clock ELSE syncClocks[t]
  OBVIOUS
<1>9. /\ k \in Nat /\ m.clock <= k /\ syncClocks[t] <= k
      /\ value[t] \in Stamps /\ value[t] <= stamp /\ syncClocks[t] = b[value[t]]
  BY <1>1, <1>2, <1>5, <1>7, <1>8 DEF TypeOK, Ages
<1>10. /\ Replace(t, {value[t], m.data}) /\ {value[t], m.data} \in SUBSET Stamps
       /\ syncClocks' = [syncClocks EXCEPT ![t] = k + 1]
  BY <1>4, <1>7, <1>8, <1>9 DEF Resolve
<1>11. \A v \in {value[t], m.data} : v <= stamp /\ b[v] <= k
  BY <1>7, <1>9
<1>12. /\ syncVersions' = [syncVersions EXCEPT ![t] = [clock |-> syncClocks'[t], source |-> t]]
       /\ loopGuard' \in [Tabs -> BOOLEAN] /\ BroadcastSync(Deliver(u, t), t, FALSE)
       /\ UNCHANGED <<tabVars, requests>>
  BY <1>1 DEF Resolve, TypeOK
<1> QED BY <1>2, <1>5, <1>9, <1>10, <1>11, <1>12, ReplaceKeeps

LEMMA AnswerRequestKeeps ==
  ASSUME Inv, NEW u \in Tabs, NEW t \in Tabs, AnswerRequest(u, t)
  PROVE  Inv'
<1>1. TypeOK /\ ClosedIsEmpty(wire, open) /\ wire[<<u, t>>] # <<>>
  BY DEF Inv, AnswerRequest, Arrives
<1>2. PICK b \in [Stamps -> Nat] : Ages(b)
  BY DEF Inv
<1>3. /\ Deliver(u, t) \in Wires /\ AllDated(Deliver(u, t), b, stamp) /\ ClosedIsEmpty(Deliver(u, t), open)
      /\ open[t]
  BY <1>1, <1>2, Delivering DEF Ages
<1>4. /\ BroadcastSync(Deliver(u, t), t, TRUE)
      /\ UNCHANGED <<tabVars, value, syncClocks, syncVersions, loopGuard, writeVars, requests>>
  BY DEF AnswerRequest
<1>5. /\ syncClocks'[t] \in Nat /\ value'[t] \in Stamps /\ value'[t] <= stamp
      /\ syncClocks'[t] = b[value'[t]]
  BY <1>1, <1>2, <1>3, <1>4 DEF TypeOK, Ages
<1>6. /\ wire' \in Wires /\ AllDated(wire', b, stamp) /\ ClosedIsEmpty(wire', open)
      /\ unsent' \in [Tabs -> BOOLEAN] /\ lost' \in BOOLEAN
  BY <1>1, <1>3, <1>4, <1>5, Broadcasting
<1>7. TypeOK'
  BY <1>1, <1>4, <1>6 DEF TypeOK, Wires, tabVars, writeVars
<1>8. Ages(b)'
  BY <1>2, <1>4, <1>6 DEF Ages, tabVars, writeVars
<1> QED BY <1>2, <1>4, <1>6, <1>7, <1>8 DEF Inv, tabVars

\* What is accepted is at least as old as the value it takes the place of.
LEMMA Accepting ==
  ASSUME Inv, NEW b \in [Stamps -> Nat], Ages(b), NEW u \in Tabs, NEW t \in Tabs, Accept(u, t)
  PROVE  \E m \in Message :
           /\ m.clock \in Nat /\ m.source \in Tabs /\ m.data \in Stamps
           /\ m.data <= stamp /\ m.clock = b[m.data] /\ b[value[t]] <= b[m.data] /\ open[t]
           /\ value' = [value EXCEPT ![t] = m.data]
           /\ syncClocks' = [syncClocks EXCEPT ![t] = m.clock]
           /\ syncVersions' = [syncVersions EXCEPT ![t] = [clock |-> m.clock, source |-> m.source]]
<1>1. TypeOK /\ ClosedIsEmpty(wire, open) /\ wire[<<u, t>>] # <<>> /\ AllDated(wire, b, stamp)
  BY DEF Inv, Accept, Arrives, Ages
<1>2. PICK m : m = Head(wire[<<u, t>>])
  OBVIOUS
<1>3. m \in Message /\ Dated(m, b, stamp) /\ open[t]
  BY <1>1, <1>2, Delivering
<1>4. m.type = "sync-state"
  BY <1>2 DEF Accept, Arrives
<1>5. /\ m.clock \in Nat /\ m.source \in Tabs /\ m.data \in Stamps
      /\ m.data <= stamp /\ m.clock = b[m.data]
  BY <1>3, <1>4 DEF Message, Dated
<1>6. /\ syncClocks[t] \in Nat /\ syncVersions[t].clock = syncClocks[t] /\ syncClocks[t] = b[value[t]]
      /\ value[t] \in Stamps
  BY <1>1, <1>3 DEF TypeOK, Ages
<1>7. syncClocks[t] <= m.clock
  BY <1>2, <1>5, <1>6 DEF Accept, IsNewer
<1>8. (IF m.clock > syncClocks[t] THEN m.clock ELSE syncClocks[t]) = m.clock
  BY <1>5, <1>6, <1>7
<1>9. syncClocks' = [syncClocks EXCEPT ![t] = m.clock]
  BY <1>2, <1>8 DEF Accept
<1> QED BY <1>2, <1>3, <1>5, <1>6, <1>7, <1>9 DEF Accept

LEMMA AcceptKeeps ==
  ASSUME Inv, NEW u \in Tabs, NEW t \in Tabs, Accept(u, t)
  PROVE  Inv'
<1>1. TypeOK /\ ClosedIsEmpty(wire, open) /\ wire[<<u, t>>] # <<>>
  BY DEF Inv, Accept, Arrives
<1>2. PICK b \in [Stamps -> Nat] : Ages(b)
  BY DEF Inv
<1>3. PICK m \in Message :
        /\ m.clock \in Nat /\ m.source \in Tabs /\ m.data \in Stamps
        /\ m.data <= stamp /\ m.clock = b[m.data] /\ b[value[t]] <= b[m.data] /\ open[t]
        /\ value' = [value EXCEPT ![t] = m.data]
        /\ syncClocks' = [syncClocks EXCEPT ![t] = m.clock]
        /\ syncVersions' = [syncVersions EXCEPT ![t] = [clock |-> m.clock, source |-> m.source]]
  BY <1>2, Accepting
<1>4. PICK v : v = [clock |-> m.clock, source |-> m.source]
  OBVIOUS
<1>5. v \in Version /\ v.clock = m.clock
  BY <1>3, <1>4 DEF Version
<1>6. /\ wire' = Deliver(u, t) /\ loopGuard' \in [Tabs -> BOOLEAN] /\ unsent' \in [Tabs -> BOOLEAN]
      /\ UNCHANGED <<tabVars, writeVars, requests, lost>>
  BY <1>1 DEF Accept, TypeOK
<1>7. wire' \in Wires /\ AllDated(wire', b, stamp) /\ ClosedIsEmpty(wire', open)
  BY <1>1, <1>2, <1>6, Delivering DEF Ages
<1>8. /\ syncVersions' \in [Tabs -> Version] /\ syncClocks' \in [Tabs -> Nat]
      /\ value' \in [Tabs -> Stamps]
      /\ \A x \in Tabs : syncVersions'[x].clock = syncClocks'[x]
  BY <1>1, <1>3, <1>4, <1>5 DEF TypeOK
<1>9. TypeOK'
  BY <1>1, <1>6, <1>7, <1>8 DEF TypeOK, Wires, tabVars, writeVars
<1>10. /\ \A x \in Tabs : value'[x] <= stamp
       /\ \A x \in Tabs : syncClocks'[x] = IF open[x] THEN b[value'[x]] ELSE 0
  BY <1>1, <1>2, <1>3 DEF Ages, TypeOK
<1>11. Ages(b)'
  BY <1>2, <1>6, <1>7, <1>10 DEF Ages, tabVars, writeVars
<1> QED BY <1>2, <1>6, <1>7, <1>9, <1>11 DEF Inv, tabVars

LEMMA StutterKeeps ==
  ASSUME Inv, UNCHANGED vars
  PROVE  Inv'
<1>1. PICK b \in [Stamps -> Nat] : Ages(b)
  BY DEF Inv
<1>2. Ages(b)'
  BY <1>1 DEF Ages, vars, tabVars, stateVars, writeVars
<1>3. TypeOK' /\ ClosedIsEmpty(wire, open)'
  BY DEF Inv, TypeOK, ClosedIsEmpty, vars, tabVars, stateVars, writeVars
<1> QED BY <1>1, <1>2, <1>3 DEF Inv

LEMMA NextInv ==
  ASSUME Inv, [Next]_vars
  PROVE  Inv'
<1>1. ASSUME NEW t \in Tabs, CreateStore(t) \/ DeleteStore(t) \/ SetupRequest(t) \/ FocusRequest(t) \/ Write(t)
      PROVE  Inv'
  BY <1>1, CreateStoreKeeps, DeleteStoreKeeps, RequestKeeps, WriteKeeps
<1>2. ASSUME NEW u \in Tabs, NEW t \in Tabs,
             AnswerRequest(u, t) \/ Accept(u, t) \/ Ignore(u, t) \/ Resolve(u, t) \/ Reject(u, t)
      PROVE  Inv'
  BY <1>2, AnswerRequestKeeps, AcceptKeeps, DroppingKeeps, ResolveKeeps
<1> QED BY <1>1, <1>2, StutterKeeps DEF Next

LEMMA SpecInv == Spec => []Inv
<1>1. Inv /\ [Next]_vars => Inv'
  BY NextInv
<1> QED BY InitInv, <1>1, PTL DEF Spec

-----------------------------------------------------------------------------
(***************************************************************************)
(* Theorems.                                                               *)
(***************************************************************************)

\* Every variable keeps its type, and a tab's clock is that of the version it
\* accepted last (syncClocks, syncVersions).
THEOREM TypeCorrect == Spec => []TypeOK
<1>1. Inv => TypeOK
  BY DEF Inv
<1> QED BY SpecInv, <1>1, PTL

\* No tab goes from a value to one that value had replaced, in this tab or in another,
\* for any number of tabs, whatever is delayed, suppressed by the loop guard, dropped
\* or made by a resolver, and whichever tab answers a request with whose version
\* (handleIncomingSyncMessage, compareSyncOrder).
THEOREM NeverRolledBack == Spec => NoRollback
<1>1. ASSUME Inv, [Next]_vars, NEW t \in Tabs, open[t], open'[t]
      PROVE  value'[t] \notin over[value[t]]
  <2>1. PICK b \in [Stamps -> Nat] : Ages(b)
    BY <1>1 DEF Inv
  <2>2. TypeOK
    BY <1>1 DEF Inv
  <2>3. /\ stamp \in Nat /\ value[t] \in Stamps /\ value[t] \in 0 .. stamp
        /\ b[value[t]] \in Nat
        /\ \A y \in over[value[t]] : y <= stamp /\ b[y] < b[value[t]] /\ b[y] \in Nat
    BY <2>1, <2>2, SyncAssumption DEF TypeOK, Ages, Stamps
  <2>4. CASE value'[t] = value[t]
    BY <2>3, <2>4
  <2>5. CASE value'[t] = stamp + 1
    BY <2>3, <2>5
  <2>6. ASSUME NEW u \in Tabs, NEW x \in Tabs, Accept(u, x)
        PROVE  value'[t] \notin over[value[t]]
    <3>1. PICK m \in Message :
            /\ m.data \in Stamps /\ b[value[x]] <= b[m.data]
            /\ value' = [value EXCEPT ![x] = m.data]
      BY <1>1, <2>1, <2>6, Accepting
    <3>2. CASE x = t
      <4>1. value'[t] = m.data /\ b[m.data] \in Nat
        BY <2>2, <3>1, <3>2 DEF TypeOK
      <4> QED BY <2>3, <3>1, <3>2, <4>1
    <3>3. CASE x # t
      BY <2>2, <2>4, <3>1, <3>3 DEF TypeOK
    <3> QED BY <3>2, <3>3
  <2>7. ASSUME NEW x \in Tabs, NEW seen, Replace(x, seen)
        PROVE  value'[t] = value[t] \/ value'[t] = stamp + 1
    BY <2>2, <2>7 DEF Replace, TypeOK
  <2>8. ASSUME NEW x \in Tabs, CreateStore(x) PROVE value'[t] = value[t]
    BY <1>1, <2>2, <2>8 DEF CreateStore, TypeOK
  <2>9. ASSUME NEW x \in Tabs, DeleteStore(x) \/ SetupRequest(x) \/ FocusRequest(x)
        PROVE  value'[t] = value[t]
    BY <2>9 DEF DeleteStore, SetupRequest, FocusRequest, stateVars
  <2>10. ASSUME NEW x \in Tabs, Write(x) PROVE value'[t] = value[t] \/ value'[t] = stamp + 1
    BY <2>7, <2>10 DEF Write
  <2>11. ASSUME NEW u \in Tabs, NEW x \in Tabs, AnswerRequest(u, x) \/ Ignore(u, x) \/ Reject(u, x)
         PROVE  value'[t] = value[t]
    BY <2>11 DEF AnswerRequest, Ignore, Reject, stateVars
  <2>12. ASSUME NEW u \in Tabs, NEW x \in Tabs, Resolve(u, x)
         PROVE  value'[t] = value[t] \/ value'[t] = stamp + 1
    BY <2>7, <2>12 DEF Resolve
  <2>13. CASE UNCHANGED vars
    BY <2>4, <2>13 DEF vars, stateVars
  <2> QED BY <1>1, <2>4, <2>5, <2>6, <2>8, <2>9, <2>10, <2>11, <2>12, <2>13 DEF Next
<1>2. Inv /\ [Next]_vars => (\A t \in Tabs : open[t] /\ open'[t] => value'[t] \notin over[value[t]])
  BY <1>1
<1> QED BY SpecInv, <1>2, PTL DEF Spec, NoRollback

-----------------------------------------------------------------------------
(***************************************************************************)
(* Convergence.  The order of messages on a channel does not matter, only  *)
(* what is on its way.                                                     *)
(***************************************************************************)

Sent(w, t, u) == {w[<<t, u>>][i] : i \in DOMAIN w[<<t, u>>]}
States(w, t, u) == {m \in Sent(w, t, u) : m.type = "sync-state"}
Requested(w, u, t) == \E m \in Sent(w, u, t) : m.type = "sync-request"

\* u asked t, or will.
Asks(u, t) == setup[u] \/ Requested(wire, u, t)

\* Who takes part: tabs that have, or had, the store.
Members ==
  /\ \A t \in Tabs : open[t] => t \in opened /\ syncVersions[t].source \in opened
  /\ \A t \in Tabs : setup[t] => open[t]
  /\ \A t, u \in Tabs : \A m \in Sent(wire, t, u) : t \in opened /\ t # u

\* No version is ahead of its source, and a message's source is its sender.
SourceBound ==
  /\ \A t, s \in Tabs :
       open[t] /\ open[s] /\ syncVersions[t].source = s => syncVersions[t].clock <= syncVersions[s].clock
  /\ \A t, u \in Tabs : \A m \in States(wire, t, u) :
       m.source = t /\ (open[t] => m.clock <= syncVersions[t].clock)

(***************************************************************************)
(* Two tabs.  A version t's own clock and name make stands for t's value,  *)
(* wherever it is held or still accepted, and unless it was given up or is *)
(* not sent yet, it has arrived, is on its way or will be asked for.       *)
(***************************************************************************)
OwnHeld(t, u) ==
  syncVersions[u].source = t /\ syncVersions[u].clock = syncVersions[t].clock => value[u] = value[t]

OwnSent(t, u) ==
  \A m \in States(wire, t, u) :
    IsNewer(m, syncVersions[u]) /\ m.clock = syncVersions[t].clock => m.data = value[t]

Told(t, u) == \E m \in States(wire, t, u) : m.clock = syncVersions[t].clock

OwnCovered(t, u) ==
  ~lost /\ ~unsent[t] /\ syncVersions[t].clock > 0 /\ syncVersions[t].source = t =>
    ~IsNewer(syncVersions[t], syncVersions[u]) \/ Told(t, u) \/ Asks(u, t)

Pairs ==
  \A t, u \in Tabs : open[t] /\ open[u] /\ t # u => OwnHeld(t, u) /\ OwnSent(t, u) /\ OwnCovered(t, u)

(***************************************************************************)
(* More tabs.  A version stands for one value.                             *)
(***************************************************************************)
SameVersion(p, q) == p.clock = q.clock /\ p.source = q.source

Uniform ==
  /\ \A t, u \in Tabs :
       open[t] /\ open[u] /\ SameVersion(syncVersions[t], syncVersions[u]) => value[t] = value[u]
  /\ \A t, x, y \in Tabs : \A m \in States(wire, x, y) :
       open[t] /\ SameVersion(m, syncVersions[t]) => m.data = value[t]
  /\ \A x, y, x1, y1 \in Tabs : \A m \in States(wire, x, y), n \in States(wire, x1, y1) :
       SameVersion(m, n) => m.data = n.data

\* While a snapshot is asked for, every tab has value v at clock k, but for one that
\* opened and will get it.
AskFacts(k, v) ==
  /\ \A t \in Tabs : open[t] => (syncVersions[t].clock = k /\ value[t] = v) \/ syncVersions[t].clock = 0
  /\ \A x, y \in Tabs : \A m \in States(wire, x, y) :
       m.reply /\ ((m.clock = k /\ m.data = v) \/ m.clock = 0)
  /\ \A t, u \in Tabs :
       open[t] /\ open[u] /\ t # u => syncVersions[t].clock = k \/ syncVersions[u].clock = k
  /\ ~lost => \A t, u \in Tabs :
       open[t] /\ open[u] /\ t # u /\ syncVersions[t].clock = k /\ syncVersions[u].clock # k =>
         Asks(u, t) \/ Told(t, u)

\* Version q has reached u, or a message as new has been sent to it.
Reaches(q, u) ==
  \/ ~IsNewer(q, syncVersions[u])
  \/ \E x \in Tabs : \E n \in States(wire, x, u) : ~IsNewer(q, n)

\* Between snapshots every tab starts from value v at clock k, and what is written after
\* it reaches every tab.
WriteFacts(k, v) ==
  /\ \A t \in Tabs :
       open[t] => syncVersions[t].clock >= k /\ (syncVersions[t].clock = k => value[t] = v)
  /\ \A x, y \in Tabs : \A m \in States(wire, x, y) : m.clock > k
  /\ \A t, u \in Tabs :
       open[t] /\ open[u] /\ ~unsent[t] /\ syncVersions[t].clock > k => Reaches(syncVersions[t], u)
  /\ \A x, y, u \in Tabs : \A m \in States(wire, x, y) : open[u] => Reaches(m, u)

Phases ==
  /\ Uniform
  /\ Asking => \E k \in Nat, v \in Stamps : AskFacts(k, v)
  /\ ~Asking /\ ~lost => \E k \in Nat, v \in Stamps : WriteFacts(k, v)

ConvergenceInv ==
  /\ Members
  /\ SourceBound
  /\ Few => Pairs
  /\ ~Few => Phases

\* The limits of the run under which the tabs converge: without one of the first two, or with
\* a resolver and four tabs, TLC finds that they do not.
Orderly == ~Crowded /\ ~Recreate /\ (Resolver => Cardinality(Tabs) <= 2)

-----------------------------------------------------------------------------
(***************************************************************************)
(* What is on its way.                                                     *)
(***************************************************************************)

LEMMA SentTypes ==
  ASSUME NEW w \in Wires, NEW x \in Tabs, NEW y \in Tabs, NEW m \in Sent(w, x, y)
  PROVE  /\ m \in Message
         /\ m.type # "sync-request" =>
              m.type = "sync-state" /\ m.clock \in Nat /\ m.source \in Tabs /\ m.data \in Stamps /\ m.reply \in BOOLEAN
<1>1. PICK i \in DOMAIN w[<<x, y>>] : m = w[<<x, y>>][i]
  BY DEF Sent
<1>2. w[<<x, y>>] \in Seq(Message)
  BY DEF Wires
<1>3. m \in Message
  BY <1>1, <1>2, ElementOfSeq, LenProperties
<1> QED BY <1>3 DEF Message

LEMMA StateTypes ==
  ASSUME NEW w \in Wires, NEW x \in Tabs, NEW y \in Tabs, NEW m \in States(w, x, y)
  PROVE  m.clock \in Nat /\ m.source \in Tabs /\ m.data \in Stamps /\ m.reply \in BOOLEAN
  BY SentTypes DEF States

\* Whose age is 0 is the initial value, and a tab's value has its clock for age.
LEMMA ZeroIsInitial ==
  ASSUME Inv
  PROVE  /\ \A t \in Tabs : open[t] /\ syncVersions[t].clock = 0 => value[t] = 0
         /\ \A x, y \in Tabs : \A m \in States(wire, x, y) : m.clock = 0 => m.data = 0
         /\ \A t, u \in Tabs : open[t] /\ open[u] /\ value[t] = value[u] =>
              syncVersions[t].clock = syncVersions[u].clock
         /\ \A t \in Tabs : ~open[t] => syncClocks[t] = 0
<1>1. TypeOK /\ wire \in Wires
  BY InvIs
<1>2. PICK b \in [Stamps -> Nat] : Ages(b)
  BY DEF Inv
<1>3. Stamps \subseteq Nat /\ stamp \in Nat
  BY <1>1, SyncAssumption DEF Stamps, TypeOK
<1>4. \A v \in Stamps : v <= stamp /\ b[v] = 0 => v = 0
  <2> SUFFICES ASSUME NEW v \in Stamps, v <= stamp, b[v] = 0, v # 0 PROVE FALSE
    OBVIOUS
  <2>1. v \in 1 .. stamp
    BY <1>3
  <2> QED BY <1>2, <2>1 DEF Ages
<1>5. ASSUME NEW x \in Tabs, NEW y \in Tabs, NEW m \in States(wire, x, y), m.clock = 0
      PROVE  m.data = 0
  <2>1. m.data \in Stamps
    BY <1>1, StateTypes
  <2>2. PICK i \in DOMAIN wire[<<x, y>>] : m = wire[<<x, y>>][i] /\ m.type = "sync-state"
    BY DEF States, Sent
  <2>3. m.data <= stamp /\ m.clock = b[m.data]
    BY <1>2, <2>2 DEF Ages, AllDated, Dated
  <2> QED BY <1>4, <1>5, <2>1, <2>3
<1>6. /\ \A t \in Tabs : open[t] => syncVersions[t].clock = b[value[t]]
      /\ \A t \in Tabs : value[t] \in Stamps /\ value[t] <= stamp
      /\ \A t \in Tabs : ~open[t] => syncClocks[t] = 0
  BY <1>1, <1>2 DEF TypeOK, Ages
<1> QED BY <1>4, <1>5, <1>6

LEMMA PostSends ==
  ASSUME NEW w \in Wires, NEW t \in Tabs, NEW m, NEW x \in Tabs, NEW y \in Tabs
  PROVE  Sent(Post(w, t, m), x, y) =
           IF x = t /\ y # t /\ open[y] THEN Sent(w, x, y) \cup {m} ELSE Sent(w, x, y)
<1> DEFINE c == <<x, y>>
<1>1. c \in Tabs \X Tabs /\ w[c] \in Seq(Message) /\ c[1] = x /\ c[2] = y
  BY DEF Wires
<1>2. CASE x = t /\ y # t /\ open[y]
  <2>1. Post(w, t, m)[c] = Append(w[c], m)
    BY <1>1, <1>2 DEF Post
  <2>2. PICK s : s = w[c]
    OBVIOUS
  <2>3. s \in Seq(Message \cup {m}) /\ m \in Message \cup {m}
    BY <1>1, <2>2, SeqMonotonic
  <2>4. PICK n \in Nat : n = Len(s)
    BY <2>3, LenProperties
  <2>5. /\ DOMAIN s = 1 .. n /\ DOMAIN Append(s, m) = 1 .. n + 1
        /\ Append(s, m)[n + 1] = m /\ \A i \in 1 .. n : Append(s, m)[i] = s[i]
    BY <2>3, <2>4, AppendProperties, LenProperties
  <2>6. {Append(s, m)[i] : i \in DOMAIN Append(s, m)} = {s[i] : i \in DOMAIN s} \cup {m}
    <3>1. 1 .. n + 1 = (1 .. n) \cup {n + 1}
      BY <2>4
    <3> QED BY <2>5, <3>1
  <2> QED BY <1>2, <2>1, <2>2, <2>6 DEF Sent
<1>3. CASE ~(x = t /\ y # t /\ open[y])
  <2>1. Post(w, t, m)[c] = w[c]
    BY <1>1, <1>3 DEF Post
  <2> QED BY <1>3, <2>1 DEF Sent
<1> QED BY <1>2, <1>3

LEMMA DeliverTakes ==
  ASSUME TypeOK, NEW u \in Tabs, NEW t \in Tabs, wire[<<u, t>>] # <<>>
  PROVE  /\ Sent(wire, u, t) = Sent(Deliver(u, t), u, t) \cup {Head(wire[<<u, t>>])}
         /\ \A x, y \in Tabs : x # u \/ y # t => Sent(Deliver(u, t), x, y) = Sent(wire, x, y)
<1> DEFINE d == <<u, t>>
<1>1. d \in Tabs \X Tabs /\ wire \in [Tabs \X Tabs -> Seq(Message)]
  BY DEF TypeOK
<1>2. /\ Deliver(u, t)[d] = Tail(wire[d])
      /\ \A x, y \in Tabs : x # u \/ y # t => Deliver(u, t)[<<x, y>>] = wire[<<x, y>>]
  BY <1>1 DEF Deliver
<1>3. PICK s : s = wire[d]
  OBVIOUS
<1>4. s \in Seq(Message) /\ s # <<>>
  BY <1>1, <1>3
<1>5. PICK n \in Nat : n = Len(s)
  BY <1>4, LenProperties
<1>6. n > 0 /\ DOMAIN s = 1 .. n
  BY <1>4, <1>5, LenProperties, EmptySeq
<1>7. /\ Head(s) = s[1] /\ DOMAIN Tail(s) = 1 .. n - 1
      /\ \A i \in 1 .. n - 1 : Tail(s)[i] = s[i + 1]
  <2>1. /\ Tail(s) \in Seq(Message) /\ Len(Tail(s)) = n - 1 /\ Head(s) = s[1]
        /\ \A i \in 1 .. Len(Tail(s)) : Tail(s)[i] = s[i + 1]
    BY <1>4, <1>5, <1>6, HeadTailProperties
  <2> QED BY <2>1, LenProperties
<1>8. {s[i] : i \in DOMAIN s} = {Tail(s)[i] : i \in DOMAIN Tail(s)} \cup {Head(s)}
  <2>1. ASSUME NEW i \in 1 .. n PROVE s[i] = Head(s) \/ \E j \in 1 .. n - 1 : s[i] = Tail(s)[j]
    <3>1. CASE i = 1
      BY <1>7, <3>1
    <3>2. CASE i # 1
      <4>1. i - 1 \in 1 .. n - 1 /\ i - 1 + 1 = i
        BY <2>1, <3>2
      <4> QED BY <1>7, <4>1
    <3> QED BY <3>1, <3>2
  <2>2. 1 \in 1 .. n /\ \A j \in 1 .. n - 1 : j + 1 \in 1 .. n
    BY <1>6
  <2>3. PICK r, h : r = Tail(s) /\ h = Head(s)
    OBVIOUS
  <2>4. /\ \A i \in 1 .. n : s[i] = h \/ \E j \in 1 .. n - 1 : s[i] = r[j]
        /\ \A j \in 1 .. n - 1 : r[j] = s[j + 1]
        /\ h = s[1] /\ DOMAIN r = 1 .. n - 1
    BY <1>7, <2>1, <2>3
  <2>5. {s[i] : i \in 1 .. n} \subseteq {r[i] : i \in 1 .. n - 1} \cup {h}
    BY <2>4
  <2>6. {r[i] : i \in 1 .. n - 1} \cup {h} \subseteq {s[i] : i \in 1 .. n}
    BY <2>2, <2>4
  <2>7. {s[i] : i \in 1 .. n} = {r[i] : i \in 1 .. n - 1} \cup {h}
    BY <2>5, <2>6
  <2> QED BY <1>6, <2>3, <2>4, <2>7
<1>9. Sent(wire, u, t) = Sent(Deliver(u, t), u, t) \cup {Head(wire[<<u, t>>])}
  BY <1>2, <1>3, <1>8 DEF Sent
<1>10. \A x, y \in Tabs : x # u \/ y # t => Sent(Deliver(u, t), x, y) = Sent(wire, x, y)
  BY <1>2 DEF Sent
<1> QED BY <1>9, <1>10

\* Asking and Quiet in these terms.
LEMMA AskingIs ==
  Asking <=> \/ \E t \in Tabs : setup[t]
             \/ \E x, y \in Tabs : \E m \in Sent(wire, x, y) : m.type = "sync-request" \/ m.reply
<1>1. ASSUME NEW c \in Tabs \X Tabs, NEW i \in DOMAIN wire[c],
             wire[c][i].type = "sync-request" \/ wire[c][i].reply
      PROVE  \E x, y \in Tabs : \E m \in Sent(wire, x, y) : m.type = "sync-request" \/ m.reply
  <2>1. PICK x \in Tabs, y \in Tabs : c = <<x, y>>
    OBVIOUS
  <2>2. wire[c][i] \in Sent(wire, x, y)
    BY <2>1 DEF Sent
  <2> QED BY <1>1, <2>2
<1>2. ASSUME NEW x \in Tabs, NEW y \in Tabs, NEW m \in Sent(wire, x, y),
             m.type = "sync-request" \/ m.reply
      PROVE  \E c \in Tabs \X Tabs : \E i \in DOMAIN wire[c] :
               wire[c][i].type = "sync-request" \/ wire[c][i].reply
  <2>1. <<x, y>> \in Tabs \X Tabs
    OBVIOUS
  <2>2. PICK i \in DOMAIN wire[<<x, y>>] : m = wire[<<x, y>>][i]
    BY DEF Sent
  <2> QED BY <1>2, <2>1, <2>2
<1> QED BY <1>1, <1>2 DEF Asking

LEMMA QuietIs ==
  ASSUME Quiet, NEW x \in Tabs, NEW y \in Tabs
  PROVE  Sent(wire, x, y) = {}
<1>1. wire[<<x, y>>] = <<>>
  BY DEF Quiet
<1> QED BY <1>1 DEF Sent

-----------------------------------------------------------------------------
(***************************************************************************)
(* What a step does, unless a store is created or deleted.                 *)
(***************************************************************************)

Kept(t) == syncVersions'[t] = syncVersions[t] /\ value'[t] = value[t]

Wrote(t) == syncVersions'[t].source = t /\ syncVersions'[t].clock > syncVersions[t].clock

Took(t) ==
  \E x \in Tabs : \E m \in States(wire, x, t) :
    IsNewer(m, syncVersions[t]) /\ SameVersion(syncVersions'[t], m) /\ value'[t] = m.data

\* m says what t has.
Speaks(m, t) ==
  /\ m.source = t /\ m.clock = syncVersions'[t].clock /\ m.data = value'[t] /\ ~unsent'[t]
  /\ Wrote(t) \/ (Asking /\ m.reply)

Moves ==
  /\ UNCHANGED <<open, opened>>
  /\ lost => lost'
  /\ \A t \in Tabs : setup'[t] => setup[t]
  /\ \A t \in Tabs : Kept(t) \/ (open[t] /\ (Wrote(t) \/ Took(t)))
  /\ \A t, u \in Tabs : t # u => Kept(t) \/ Kept(u)
  /\ \A t, u \in Tabs : \A m \in Sent(wire', t, u) :
       \/ m \in Sent(wire, t, u)
       \/ open[t] /\ open[u] /\ t # u /\ (m.type = "sync-state" => Speaks(m, t))
  /\ \A t, u \in Tabs : \A m \in States(wire, t, u) :
       m \in States(wire', t, u) \/ lost' \/ ~IsNewer(m, syncVersions'[u])
  /\ \A t, u \in Tabs : open[t] /\ open[u] /\ t # u /\ Asks(u, t) => Asks(u, t)' \/ lost' \/ Told(t, u)'
  /\ \A t, u \in Tabs : open[t] /\ open[u] /\ t # u /\ ~unsent'[t] =>
       (Kept(t) /\ ~unsent[t]) \/ lost' \/ Told(t, u)' \/ Took(t)

\* What it does not do when there are more than two tabs.
Calm ==
  /\ \A t \in Tabs : Wrote(t) => ~Asking
  /\ ~Asking => \A t \in Tabs : Kept(t) => unsent'[t] = unsent[t]

LEMMA KeptOrWrote ==
  ASSUME TypeOK, NEW t \in Tabs, Kept(t)
  PROVE  ~Wrote(t)
  BY DEF TypeOK, Version, Kept, Wrote

\* The tab's version goes to every other open tab.
Says(w, t, reply) ==
  \E m \in Message :
    /\ m.type = "sync-state" /\ m.source = t /\ m.clock = syncVersions'[t].clock /\ m.data = value'[t]
    /\ m.reply = reply
    /\ \A x, y \in Tabs : Sent(wire', x, y) =
         IF x = t /\ y # t /\ open[y] THEN Sent(w, x, y) \cup {m} ELSE Sent(w, x, y)

LEMMA BroadcastSays ==
  ASSUME TypeOK, TypeOK', NEW w \in Wires, NEW t \in Tabs, NEW reply \in BOOLEAN, BroadcastSync(w, t, reply)
  PROVE  /\ \A u \in Tabs : u # t => unsent'[u] = unsent[u]
         /\ lost => lost'
         /\ \/ lost' /\ unsent'[t] = unsent[t] /\ \A x, y \in Tabs : Sent(wire', x, y) = Sent(w, x, y)
            \/ ~unsent'[t] /\ Says(w, t, reply)
<1>1. CASE /\ wire' = Post(w, t, SyncState(t, reply))
           /\ unsent' = [unsent EXCEPT ![t] = FALSE]
           /\ UNCHANGED lost
  <2>1. PICK m : m = SyncState(t, reply)
    OBVIOUS
  <2>2. /\ m \in Message /\ m.type = "sync-state" /\ m.source = t /\ m.clock = syncVersions'[t].clock
        /\ m.data = value'[t] /\ m.reply = reply
    BY <2>1 DEF SyncState, Message, TypeOK
  <2>3. \A x, y \in Tabs : Sent(wire', x, y) =
          IF x = t /\ y # t /\ open[y] THEN Sent(w, x, y) \cup {m} ELSE Sent(w, x, y)
    BY <1>1, <2>1, PostSends
  <2>4. Says(w, t, reply)
    BY <2>2, <2>3 DEF Says
  <2> QED BY <1>1, <2>4 DEF TypeOK
<1>2. CASE Drops /\ wire' = w /\ lost' = TRUE /\ UNCHANGED unsent
  BY <1>2
<1> QED BY <1>1, <1>2 DEF BroadcastSync

LEMMA RequestMoves ==
  ASSUME Inv, NEW t \in Tabs, SetupRequest(t) \/ FocusRequest(t), Members
  PROVE  Moves /\ Calm
<1>1. TypeOK /\ wire \in Wires
  BY InvIs
<1>2. /\ wire' = Post(wire, t, [type |-> "sync-request"])
      /\ UNCHANGED <<open, opened, stateVars, lost>>
      /\ \A u \in Tabs : setup'[u] => setup[u]
      /\ \A u \in Tabs : u # t => setup'[u] = setup[u]
  BY <1>1 DEF SetupRequest, FocusRequest, tabVars, TypeOK
<1>3. PICK m : m = [type |-> "sync-request"]
  OBVIOUS
<1>4. m.type = "sync-request"
  BY <1>3
<1>5. \A x, y \in Tabs : Sent(wire', x, y) =
        IF x = t /\ y # t /\ open[y] THEN Sent(wire, x, y) \cup {m} ELSE Sent(wire, x, y)
  <2>1. wire' = Post(wire, t, m)
    BY <1>2, <1>3
  <2> QED BY <1>1, <2>1, PostSends
<1>6. \A x, y \in Tabs : States(wire', x, y) = States(wire, x, y)
  BY <1>4, <1>5 DEF States
<1>7. \A x \in Tabs : Kept(x) /\ unsent'[x] = unsent[x] /\ ~Wrote(x)
  BY <1>1, <1>2 DEF Kept, Wrote, stateVars, TypeOK, Version
<1>8. ASSUME NEW x \in Tabs, NEW y \in Tabs, NEW n \in Sent(wire', x, y), n \notin Sent(wire, x, y)
      PROVE  open[x] /\ open[y] /\ x # y /\ (n.type = "sync-state" => Speaks(n, x))
  <2>1. x = t /\ y # t /\ open[y] /\ n = m
    BY <1>5, <1>8
  <2>2. open[t]
    BY DEF SetupRequest, FocusRequest, Members
  <2> QED BY <1>4, <2>1, <2>2
<1>9. ASSUME NEW x \in Tabs, NEW y \in Tabs, open[x], x # y, Asks(y, x)
      PROVE  Asks(y, x)'
  <2>1. CASE y = t
    <3>1. m \in Sent(wire', y, x)
      BY <1>5, <1>9, <2>1
    <3> QED BY <1>4, <3>1 DEF Asks, Requested
  <2>2. CASE y # t
    <3>1. Sent(wire', y, x) = Sent(wire, y, x) /\ setup'[y] = setup[y]
      BY <1>2, <1>5, <2>2
    <3> QED BY <1>9, <3>1 DEF Asks, Requested
  <2> QED BY <2>1, <2>2
<1>10. Moves
  BY <1>2, <1>6, <1>7, <1>8, <1>9 DEF Moves
<1> QED BY <1>7, <1>10 DEF Calm

\* A message is taken off the wire: what else is on its way stays.
LEMMA DeliverLeaves ==
  ASSUME Inv, NEW u \in Tabs, NEW t \in Tabs, wire[<<u, t>>] # <<>>
  PROVE  LET h == Head(wire[<<u, t>>])
         IN /\ h \in Sent(wire, u, t) /\ open[t]
            /\ Deliver(u, t) \in Wires
            /\ \A x, y \in Tabs : Sent(Deliver(u, t), x, y) \subseteq Sent(wire, x, y)
            /\ \A x, y \in Tabs : \A m \in Sent(wire, x, y) :
                 m \in Sent(Deliver(u, t), x, y) \/ (x = u /\ y = t /\ m = h)
<1>1. TypeOK /\ ClosedIsEmpty(wire, open) /\ wire \in Wires
  BY InvIs
<1>2. PICK b \in [Stamps -> Nat] : Ages(b)
  BY DEF Inv
<1>3. Deliver(u, t) \in Wires /\ open[t]
  BY <1>1, <1>2, Delivering DEF Ages
<1>4. PICK h : h = Head(wire[<<u, t>>])
  OBVIOUS
<1>5. /\ Sent(wire, u, t) = Sent(Deliver(u, t), u, t) \cup {h}
      /\ \A x, y \in Tabs : x # u \/ y # t => Sent(Deliver(u, t), x, y) = Sent(wire, x, y)
  BY <1>1, <1>4, DeliverTakes
<1>6. ASSUME NEW x \in Tabs, NEW y \in Tabs
      PROVE  /\ Sent(Deliver(u, t), x, y) \subseteq Sent(wire, x, y)
             /\ \A m \in Sent(wire, x, y) : m \in Sent(Deliver(u, t), x, y) \/ (x = u /\ y = t /\ m = h)
  <2>1. CASE x = u /\ y = t
    BY <1>5, <2>1
  <2>2. CASE x # u \/ y # t
    BY <1>5, <2>2
  <2> QED BY <2>1, <2>2
<1> QED BY <1>3, <1>4, <1>5, <1>6

LEMMA DropMoves ==
  ASSUME Inv, NEW u \in Tabs, NEW t \in Tabs, Ignore(u, t) \/ Reject(u, t)
  PROVE  Moves /\ Calm
<1>1. TypeOK
  BY DEF Inv
<1>2. /\ wire' = Deliver(u, t) /\ wire[<<u, t>>] # <<>>
      /\ UNCHANGED <<open, opened, setup, value, syncVersions, unsent>> /\ (lost => lost')
  BY <1>1 DEF Ignore, Reject, Arrives, tabVars, stateVars, TypeOK
<1>3. PICK h : h = Head(wire[<<u, t>>])
  OBVIOUS
<1>4. lost' \/ (h.type = "sync-state" /\ ~IsNewer(h, syncVersions[t]))
  BY <1>3 DEF Ignore, Reject, Arrives
<1>5. /\ \A x, y \in Tabs : Sent(wire', x, y) \subseteq Sent(wire, x, y)
      /\ \A x, y \in Tabs : \A m \in Sent(wire, x, y) :
           m \in Sent(wire', x, y) \/ (x = u /\ y = t /\ m = h)
  BY <1>2, <1>3, DeliverLeaves
<1>6. \A x \in Tabs : Kept(x) /\ ~Wrote(x)
  BY <1>1, <1>2, KeptOrWrote DEF Kept
<1>7. ASSUME NEW x \in Tabs, NEW y \in Tabs, NEW m \in States(wire, x, y)
      PROVE  m \in States(wire', x, y) \/ lost' \/ ~IsNewer(m, syncVersions'[y])
  <2>1. CASE m \in Sent(wire', x, y)
    BY <1>7, <2>1 DEF States
  <2>2. CASE m \notin Sent(wire', x, y)
    <3>1. y = t /\ m = h
      BY <1>5, <2>2 DEF States
    <3> QED BY <1>2, <1>4, <3>1
  <2> QED BY <2>1, <2>2
<1>8. ASSUME NEW x \in Tabs, NEW y \in Tabs, Asks(y, x)
      PROVE  Asks(y, x)' \/ lost'
  <2>1. CASE setup[y]
    BY <1>2, <2>1 DEF Asks
  <2>2. ASSUME NEW m \in Sent(wire, y, x), m.type = "sync-request"
        PROVE  Asks(y, x)' \/ lost'
    <3>1. CASE m \in Sent(wire', y, x)
      BY <2>2, <3>1 DEF Asks, Requested
    <3>2. CASE m \notin Sent(wire', y, x)
      BY <1>4, <1>5, <2>2, <3>2
    <3> QED BY <3>1, <3>2
  <2> QED BY <1>8, <2>1, <2>2 DEF Asks, Requested
<1>9. Moves
  BY <1>2, <1>5, <1>6, <1>7, <1>8 DEF Moves
<1> QED BY <1>2, <1>6, <1>9 DEF Calm

LEMMA AcceptMoves ==
  ASSUME Inv, Members, SourceBound, NEW u \in Tabs, NEW t \in Tabs, Accept(u, t)
  PROVE  Moves /\ Calm
<1>1. TypeOK /\ wire \in Wires
  BY InvIs
<1>2. PICK h : h = Head(wire[<<u, t>>])
  OBVIOUS
<1>3. /\ wire' = Deliver(u, t) /\ wire[<<u, t>>] # <<>>
      /\ UNCHANGED <<open, opened, setup, lost>>
      /\ h.type = "sync-state" /\ IsNewer(h, syncVersions[t])
      /\ value' = [value EXCEPT ![t] = h.data]
      /\ syncVersions' = [syncVersions EXCEPT ![t] = [clock |-> h.clock, source |-> h.source]]
      /\ \A x \in Tabs : x # t => unsent'[x] = unsent[x]
  BY <1>1, <1>2 DEF Accept, Arrives, tabVars, TypeOK
<1>4. /\ \A x, y \in Tabs : Sent(wire', x, y) \subseteq Sent(wire, x, y)
      /\ \A x, y \in Tabs : \A m \in Sent(wire, x, y) :
           m \in Sent(wire', x, y) \/ (x = u /\ y = t /\ m = h)
      /\ h \in Sent(wire, u, t) /\ open[t]
  BY <1>2, <1>3, DeliverLeaves
<1>5. h.clock \in Nat /\ h.source \in Tabs /\ h \in States(wire, u, t)
  BY <1>1, <1>3, <1>4, StateTypes DEF States
<1>6. PICK v : v = [clock |-> h.clock, source |-> h.source]
  OBVIOUS
<1>7. v.clock = h.clock /\ v.source = h.source
  BY <1>6
<1>8. /\ syncVersions'[t] = v /\ value'[t] = h.data
      /\ \A x \in Tabs : x # t => Kept(x)
  BY <1>1, <1>3, <1>6 DEF TypeOK, Kept
<1>9. Took(t)
  BY <1>3, <1>5, <1>7, <1>8 DEF Took, SameVersion
<1>10. ~IsNewer(h, syncVersions'[t])
  <2>1. h.source \in Nat
    BY <1>5, SyncAssumption
  <2> QED BY <1>5, <1>7, <1>8, <2>1 DEF IsNewer
<1>11. ASSUME NEW x \in Tabs, NEW y \in Tabs, NEW m \in States(wire, x, y)
       PROVE  m \in States(wire', x, y) \/ ~IsNewer(m, syncVersions'[y])
  <2>1. CASE m \in Sent(wire', x, y)
    BY <1>11, <2>1 DEF States
  <2>2. CASE m \notin Sent(wire', x, y)
    <3>1. y = t /\ m = h
      BY <1>4, <2>2 DEF States
    <3> QED BY <1>10, <3>1
  <2> QED BY <2>1, <2>2
<1>12. ASSUME NEW x \in Tabs, NEW y \in Tabs, Asks(y, x)
       PROVE  Asks(y, x)'
  <2>1. CASE setup[y]
    BY <1>3, <2>1 DEF Asks
  <2>2. ASSUME NEW m \in Sent(wire, y, x), m.type = "sync-request"
        PROVE  Asks(y, x)'
    BY <1>3, <1>4, <2>2 DEF Asks, Requested
  <2> QED BY <1>12, <2>1, <2>2 DEF Asks, Requested
<1>13. /\ \A x \in Tabs : x # t => Kept(x) /\ unsent'[x] = unsent[x]
       /\ \A x \in Tabs : Kept(x) \/ (open[x] /\ Took(x))
  BY <1>3, <1>4, <1>8, <1>9
<1>14. Moves
  <2>1. \A x, y \in Tabs : x # y => Kept(x) \/ Kept(y)
    BY <1>13
  <2>2. \A x \in Tabs : (Kept(x) /\ ~unsent[x]) \/ unsent'[x] \/ Took(x)
    BY <1>9, <1>13
  <2> QED BY <1>3, <1>4, <1>11, <1>12, <1>13, <2>1, <2>2 DEF Moves
<1>15. ~Kept(t) /\ ~Wrote(t)
  <2>1. ~IsNewer(h, syncVersions'[t]) /\ IsNewer(h, syncVersions[t])
    BY <1>3, <1>10
  <2>2. h.source = u /\ u # t
    BY <1>4, <1>5 DEF Members, SourceBound
  <2> QED BY <1>7, <1>8, <2>1, <2>2 DEF Kept, Wrote
<1> QED BY <1>1, <1>13, <1>14, <1>15, KeptOrWrote DEF Calm

LEMMA AnswerRequestMoves ==
  ASSUME Inv, Inv', NEW u \in Tabs, NEW t \in Tabs, AnswerRequest(u, t)
  PROVE  Moves /\ Calm
<1>1. TypeOK /\ TypeOK' /\ wire \in Wires
  BY InvIs DEF Inv
<1>2. PICK h : h = Head(wire[<<u, t>>])
  OBVIOUS
<1>3. /\ wire[<<u, t>>] # <<>> /\ h.type = "sync-request"
      /\ UNCHANGED <<open, opened, setup, value, syncVersions>>
      /\ BroadcastSync(Deliver(u, t), t, TRUE)
  BY <1>2 DEF AnswerRequest, Arrives, tabVars
<1>4. /\ h \in Sent(wire, u, t) /\ open[t] /\ Deliver(u, t) \in Wires
      /\ \A x, y \in Tabs : Sent(Deliver(u, t), x, y) \subseteq Sent(wire, x, y)
      /\ \A x, y \in Tabs : \A m \in Sent(wire, x, y) :
           m \in Sent(Deliver(u, t), x, y) \/ (x = u /\ y = t /\ m = h)
  BY <1>2, <1>3, DeliverLeaves
<1>5. Asking
  BY <1>3, <1>4, AskingIs
<1>6. /\ \A x \in Tabs : x # t => unsent'[x] = unsent[x]
      /\ lost => lost'
      /\ \/ /\ lost' /\ unsent'[t] = unsent[t]
            /\ \A x, y \in Tabs : Sent(wire', x, y) = Sent(Deliver(u, t), x, y)
         \/ ~unsent'[t] /\ Says(Deliver(u, t), t, TRUE)
  <2>1. TRUE \in BOOLEAN
    OBVIOUS
  <2> QED BY <1>1, <1>3, <1>4, <2>1, BroadcastSays
<1>7. \A x \in Tabs : Kept(x) /\ ~Wrote(x)
  BY <1>1, <1>3, KeptOrWrote DEF Kept
<1>8. CASE lost' /\ unsent'[t] = unsent[t]
           /\ \A x, y \in Tabs : Sent(wire', x, y) = Sent(Deliver(u, t), x, y)
  <2>1. \A x \in Tabs : unsent'[x] = unsent[x]
    BY <1>6, <1>8
  <2>2. Moves
    BY <1>3, <1>4, <1>7, <1>8, <2>1 DEF Moves
  <2> QED BY <1>5, <1>7, <2>2 DEF Calm
<1>9. CASE ~unsent'[t] /\ Says(Deliver(u, t), t, TRUE)
  <2>1. PICK m \in Message :
          /\ m.type = "sync-state" /\ m.source = t /\ m.clock = syncVersions'[t].clock
          /\ m.data = value'[t] /\ m.reply = TRUE
          /\ \A x, y \in Tabs : Sent(wire', x, y) =
               IF x = t /\ y # t /\ open[y] THEN Sent(Deliver(u, t), x, y) \cup {m}
               ELSE Sent(Deliver(u, t), x, y)
    BY <1>9 DEF Says
  <2>2. ASSUME NEW x \in Tabs, NEW y \in Tabs, NEW n \in Sent(wire', x, y), n \notin Sent(wire, x, y)
        PROVE  open[x] /\ open[y] /\ x # y /\ (n.type = "sync-state" => Speaks(n, x))
    <3>1. x = t /\ y # t /\ open[y] /\ n = m
      BY <1>4, <2>1, <2>2
    <3> QED BY <1>4, <1>5, <1>9, <2>1, <3>1 DEF Speaks
  <2>3. \A x, y \in Tabs : \A n \in States(wire, x, y) : n \in States(wire', x, y)
    BY <1>3, <1>4, <2>1 DEF States
  <2>4. ASSUME NEW x \in Tabs, open[x], x # t PROVE Told(t, x)'
    BY <2>1, <2>4 DEF Told, States
  <2>5. ASSUME NEW x \in Tabs, NEW y \in Tabs, open[x], open[y], x # y, Asks(y, x)
        PROVE  Asks(y, x)' \/ Told(x, y)'
    <3>1. CASE setup[y]
      BY <1>3, <3>1 DEF Asks
    <3>2. ASSUME NEW n \in Sent(wire, y, x), n.type = "sync-request"
          PROVE  Asks(y, x)' \/ Told(x, y)'
      <4>1. CASE n \in Sent(wire', y, x)
        BY <3>2, <4>1 DEF Asks, Requested
      <4>2. CASE n \notin Sent(wire', y, x)
        <5>1. x = t
          BY <1>4, <2>1, <4>2
        <5> QED BY <2>4, <2>5, <5>1
      <4> QED BY <4>1, <4>2
    <3> QED BY <2>5, <3>1, <3>2 DEF Asks, Requested
  <2>6. ASSUME NEW x \in Tabs, NEW y \in Tabs, open[x], open[y], x # y, ~unsent'[x]
        PROVE  ~unsent[x] \/ Told(x, y)'
    BY <1>6, <2>4, <2>6
  <2>7. Moves
    BY <1>3, <1>6, <1>7, <2>2, <2>3, <2>5, <2>6 DEF Moves
  <2> QED BY <1>5, <1>7, <2>7 DEF Calm
<1> QED BY <1>6, <1>8, <1>9

\* Tab t makes a value of its own, at a clock past its own and that of the message that
\* was taken off, if one was.
LEMMA OwnMoves ==
  ASSUME Inv, Inv', NEW t \in Tabs, open[t], UNCHANGED <<open, opened, setup>>, lost => lost',
         \A x \in Tabs : x # t => Kept(x) /\ unsent'[x] = unsent[x],
         Wrote(t),
         NEW w \in Wires,
         \A x, y \in Tabs : Sent(w, x, y) \subseteq Sent(wire, x, y),
         \A x, y \in Tabs : \A m \in Sent(wire, x, y) :
           m \in Sent(w, x, y) \/ (y = t /\ m.type = "sync-state" /\ ~IsNewer(m, syncVersions'[t])),
         \/ unsent'[t] /\ wire' = w
         \/ lost' /\ \A x, y \in Tabs : Sent(wire', x, y) = Sent(w, x, y)
         \/ ~unsent'[t] /\ Says(w, t, FALSE)
  PROVE  Moves
<1>1. TypeOK
  BY DEF Inv
<1>2. ASSUME NEW x \in Tabs, NEW y \in Tabs PROVE Sent(w, x, y) \subseteq Sent(wire', x, y)
  <2>1. CASE wire' = w \/ \A p, q \in Tabs : Sent(wire', p, q) = Sent(w, p, q)
    BY <2>1
  <2>2. CASE Says(w, t, FALSE)
    BY <2>2 DEF Says
  <2> QED BY <2>1, <2>2
<1>3. ASSUME NEW x \in Tabs, NEW y \in Tabs, NEW n \in Sent(wire', x, y), n \notin Sent(wire, x, y)
      PROVE  open[x] /\ open[y] /\ x # y /\ (n.type = "sync-state" => Speaks(n, x))
  <2>1. n \notin Sent(w, x, y)
    BY <1>3
  <2>2. ~unsent'[t] /\ Says(w, t, FALSE)
    BY <1>3, <2>1
  <2>3. PICK m \in Message :
          /\ m.type = "sync-state" /\ m.source = t /\ m.clock = syncVersions'[t].clock
          /\ m.data = value'[t] /\ m.reply = FALSE
          /\ \A p, q \in Tabs : Sent(wire', p, q) =
               IF p = t /\ q # t /\ open[q] THEN Sent(w, p, q) \cup {m} ELSE Sent(w, p, q)
    BY <2>2 DEF Says
  <2>4. x = t /\ y # t /\ open[y] /\ n = m
    BY <1>3, <2>1, <2>3
  <2> QED BY <2>2, <2>3, <2>4 DEF Speaks
<1>4. ASSUME NEW x \in Tabs, NEW y \in Tabs, NEW m \in States(wire, x, y)
      PROVE  m \in States(wire', x, y) \/ ~IsNewer(m, syncVersions'[y])
  <2>1. m \in Sent(wire, x, y) /\ m.type = "sync-state"
    BY DEF States
  <2>2. CASE m \in Sent(w, x, y)
    <3>1. m \in Sent(wire', x, y)
      BY <1>2, <2>2
    <3> QED BY <2>1, <3>1 DEF States
  <2>3. CASE y = t /\ ~IsNewer(m, syncVersions'[t])
    BY <2>3
  <2> QED BY <2>1, <2>2, <2>3
<1>5. ASSUME NEW x \in Tabs, NEW y \in Tabs, Asks(y, x)
      PROVE  Asks(y, x)'
  <2>1. CASE setup[y]
    BY <2>1 DEF Asks
  <2>2. ASSUME NEW n \in Sent(wire, y, x), n.type = "sync-request"
        PROVE  Asks(y, x)'
    <3>1. n \in Sent(w, y, x)
      BY <2>2
    <3>2. n \in Sent(wire', y, x)
      BY <1>2, <3>1
    <3> QED BY <2>2, <3>2 DEF Asks, Requested
  <2> QED BY <1>5, <2>1, <2>2 DEF Asks, Requested
<1>6. ASSUME NEW x \in Tabs, NEW y \in Tabs, open[x], open[y], x # y, ~unsent'[x]
      PROVE  (Kept(x) /\ ~unsent[x]) \/ lost' \/ Told(x, y)'
  <2>1. CASE x # t
    BY <1>6, <2>1
  <2>2. CASE x = t /\ ~lost'
    <3>1. Says(w, t, FALSE)
      BY <1>6, <2>2
    <3>2. PICK m \in Message :
            /\ m.type = "sync-state" /\ m.clock = syncVersions'[t].clock
            /\ \A p, q \in Tabs : Sent(wire', p, q) =
                 IF p = t /\ q # t /\ open[q] THEN Sent(w, p, q) \cup {m} ELSE Sent(w, p, q)
      BY <3>1 DEF Says
    <3>3. m \in Sent(wire', t, y)
      BY <1>6, <2>2, <3>2
    <3> QED BY <2>2, <3>2, <3>3 DEF Told, States
  <2> QED BY <2>1, <2>2
<1>7. \A x, y \in Tabs : x # y => Kept(x) \/ Kept(y)
  OBVIOUS
<1>8. \A x \in Tabs : Kept(x) \/ (open[x] /\ Wrote(x))
  OBVIOUS
<1> HIDE DEF Moves
<1> QED BY <1>3, <1>4, <1>5, <1>6, <1>7, <1>8 DEF Moves

LEMMA WriteMoves ==
  ASSUME Inv, Inv', NEW t \in Tabs, Write(t)
  PROVE  Moves /\ (~Few => Calm)
<1>1. TypeOK /\ TypeOK' /\ wire \in Wires
  BY InvIs DEF Inv
<1>2. /\ open[t] /\ UNCHANGED <<open, opened, setup>> /\ (Few \/ ~Asking)
      /\ \A x \in Tabs : x # t => value'[x] = value[x]
  BY <1>1 DEF Write, MayWrite, Replace, tabVars, TypeOK
<1>3. PICK k \in Nat : k = syncClocks[t]
  BY <1>1 DEF TypeOK
<1>4. /\ syncClocks' = [syncClocks EXCEPT ![t] = k + 1]
      /\ syncVersions' = [syncVersions EXCEPT ![t] = [clock |-> syncClocks'[t], source |-> t]]
  BY <1>3 DEF Write, EnsureLocalClock
<1>5. Wrote(t) /\ \A x \in Tabs : x # t => syncVersions'[x] = syncVersions[x]
  BY <1>1, <1>3, <1>4 DEF TypeOK, Wrote
<1>6. /\ \A x \in Tabs : x # t => unsent'[x] = unsent[x]
      /\ lost => lost'
      /\ \/ unsent'[t] /\ wire' = wire
         \/ lost' /\ \A x, y \in Tabs : Sent(wire', x, y) = Sent(wire, x, y)
         \/ ~unsent'[t] /\ Says(wire, t, FALSE)
  <2>1. CASE loopGuard[t] /\ unsent' = [unsent EXCEPT ![t] = TRUE] /\ UNCHANGED <<loopGuard, wire, lost>>
    BY <1>1, <2>1 DEF TypeOK
  <2>2. CASE BroadcastSync(wire, t, FALSE)
    <3>1. FALSE \in BOOLEAN
      OBVIOUS
    <3> QED BY <1>1, <2>2, <3>1, BroadcastSays
  <2> QED BY <2>1, <2>2 DEF Write
<1>7. \A x \in Tabs : x # t => Kept(x) /\ unsent'[x] = unsent[x]
  BY <1>2, <1>5, <1>6 DEF Kept
<1>8. Moves
  <2>1. PICK w \in Wires : w = wire
    BY <1>1
  <2>2. /\ \A x, y \in Tabs : Sent(w, x, y) \subseteq Sent(wire, x, y)
        /\ \A x, y \in Tabs : \A m \in Sent(wire, x, y) :
             m \in Sent(w, x, y) \/ (y = t /\ m.type = "sync-state" /\ ~IsNewer(m, syncVersions'[t]))
    BY <2>1
  <2>3. \/ unsent'[t] /\ wire' = w
        \/ lost' /\ \A x, y \in Tabs : Sent(wire', x, y) = Sent(w, x, y)
        \/ ~unsent'[t] /\ Says(w, t, FALSE)
    BY <1>6, <2>1
  <2>4. open[t] /\ UNCHANGED <<open, opened, setup>> /\ (lost => lost') /\ Wrote(t)
    BY <1>2, <1>5, <1>6
  <2> QED BY <1>7, <2>1, <2>2, <2>3, <2>4, OwnMoves
<1>9. \A x \in Tabs : Kept(x) => x # t
  BY <1>1, <1>5, KeptOrWrote
<1>10. ~Few => Calm
  BY <1>2, <1>7, <1>9 DEF Calm
<1> QED BY <1>8, <1>10

LEMMA ResolveMoves ==
  ASSUME Inv, Inv', NEW u \in Tabs, NEW t \in Tabs, Resolve(u, t)
  PROVE  Moves
<1>1. TypeOK /\ TypeOK' /\ wire \in Wires
  BY InvIs DEF Inv
<1>2. PICK h : h = Head(wire[<<u, t>>])
  OBVIOUS
<1>3. /\ wire[<<u, t>>] # <<>> /\ h.type = "sync-state"
      /\ UNCHANGED <<open, opened, setup>>
      /\ BroadcastSync(Deliver(u, t), t, FALSE)
      /\ \A x \in Tabs : x # t => value'[x] = value[x]
  BY <1>1, <1>2 DEF Resolve, Arrives, Replace, tabVars, TypeOK
<1>4. /\ h \in Sent(wire, u, t) /\ open[t] /\ Deliver(u, t) \in Wires
      /\ \A x, y \in Tabs : Sent(Deliver(u, t), x, y) \subseteq Sent(wire, x, y)
      /\ \A x, y \in Tabs : \A m \in Sent(wire, x, y) :
           m \in Sent(Deliver(u, t), x, y) \/ (x = u /\ y = t /\ m = h)
  BY <1>2, <1>3, DeliverLeaves
<1>5. h.clock \in Nat /\ syncClocks[t] \in Nat
  BY <1>1, <1>3, <1>4, StateTypes DEF States, TypeOK
<1>6. PICK k \in Nat : k = IF h.clock > syncClocks[t] THEN h.clock ELSE syncClocks[t]
  BY <1>5
<1>7. k >= h.clock /\ k >= syncClocks[t]
  BY <1>5, <1>6
<1>8. /\ syncClocks' = [syncClocks EXCEPT ![t] = k + 1]
      /\ syncVersions' = [syncVersions EXCEPT ![t] = [clock |-> syncClocks'[t], source |-> t]]
  BY <1>2, <1>6 DEF Resolve
<1>9. /\ syncVersions'[t].clock = k + 1 /\ syncVersions'[t].source = t
      /\ syncVersions[t].clock = syncClocks[t]
      /\ \A x \in Tabs : x # t => syncVersions'[x] = syncVersions[x]
  BY <1>1, <1>8 DEF TypeOK
<1>10. Wrote(t) /\ ~IsNewer(h, syncVersions'[t])
  BY <1>5, <1>7, <1>9 DEF Wrote, IsNewer
<1>11. /\ \A x \in Tabs : x # t => unsent'[x] = unsent[x]
       /\ lost => lost'
       /\ \/ lost' /\ \A x, y \in Tabs : Sent(wire', x, y) = Sent(Deliver(u, t), x, y)
          \/ ~unsent'[t] /\ Says(Deliver(u, t), t, FALSE)
  <2>1. FALSE \in BOOLEAN
    OBVIOUS
  <2> QED BY <1>1, <1>3, <1>4, <2>1, BroadcastSays
<1>12. \A x \in Tabs : x # t => Kept(x) /\ unsent'[x] = unsent[x]
  BY <1>3, <1>9, <1>11 DEF Kept
<1>13. \A x, y \in Tabs : \A m \in Sent(wire, x, y) :
         \/ m \in Sent(Deliver(u, t), x, y)
         \/ y = t /\ m.type = "sync-state" /\ ~IsNewer(m, syncVersions'[t])
  BY <1>3, <1>4, <1>10
<1> QED BY <1>3, <1>4, <1>10, <1>11, <1>12, <1>13, OwnMoves

-----------------------------------------------------------------------------
(***************************************************************************)
(* Such a step keeps what is known of sources and versions.                *)
(***************************************************************************)

LEMMA VersionTypes ==
  ASSUME TypeOK, NEW t \in Tabs
  PROVE  syncVersions[t].clock \in Nat /\ syncVersions[t].source \in Tabs /\ syncVersions[t].source \in Nat
  BY SyncAssumption DEF TypeOK, Version

\* Versions go up.
LEMMA VersionsGrow ==
  ASSUME Inv, Inv', Moves, NEW t \in Tabs
  PROVE  ~IsNewer(syncVersions[t], syncVersions'[t])
<1>1. TypeOK /\ TypeOK' /\ wire \in Wires
  BY InvIs DEF Inv
<1>2. /\ syncVersions[t].clock \in Nat /\ syncVersions[t].source \in Nat
      /\ syncVersions'[t].clock \in Nat /\ syncVersions'[t].source \in Nat
  BY <1>1, VersionTypes, SyncAssumption DEF TypeOK, Version
<1>3. CASE Kept(t)
  BY <1>2, <1>3 DEF Kept, IsNewer
<1>4. CASE Wrote(t)
  BY <1>2, <1>4 DEF Wrote, IsNewer
<1>5. CASE Took(t)
  <2>a1. PICK x \in Tabs : \E m \in States(wire, x, t) :
          IsNewer(m, syncVersions[t]) /\ SameVersion(syncVersions'[t], m)
    BY <1>5 DEF Took
  <2>1. PICK m \in States(wire, x, t) :
          IsNewer(m, syncVersions[t]) /\ SameVersion(syncVersions'[t], m)
    BY <2>a1
  <2>2. m.clock \in Nat /\ m.source \in Nat
    BY <1>1, StateTypes, SyncAssumption
  <2> QED BY <1>2, <2>1, <2>2 DEF IsNewer, SameVersion
<1> QED BY <1>3, <1>4, <1>5 DEF Moves

\* What a tab took came from another, that had it.
LEMMA TookFrom ==
  ASSUME Inv, Inv', Members, SourceBound, NEW t \in Tabs, Took(t)
  PROVE  \E x \in Tabs : \E m \in States(wire, x, t) :
           /\ x # t /\ x \in opened /\ m.source = x /\ syncVersions'[t].source = x
           /\ IsNewer(m, syncVersions[t]) /\ SameVersion(syncVersions'[t], m) /\ value'[t] = m.data
           /\ syncVersions[t].clock <= m.clock
           /\ open[x] => m.clock <= syncVersions[x].clock
<1>1. TypeOK /\ wire \in Wires
  BY InvIs DEF Inv
<1>a2. PICK x \in Tabs : \E m \in States(wire, x, t) :
        IsNewer(m, syncVersions[t]) /\ SameVersion(syncVersions'[t], m) /\ value'[t] = m.data
  BY DEF Took
<1>2. PICK m \in States(wire, x, t) :
        IsNewer(m, syncVersions[t]) /\ SameVersion(syncVersions'[t], m) /\ value'[t] = m.data
  BY <1>a2
<1>3. x # t /\ x \in opened /\ m.source = x /\ (open[x] => m.clock <= syncVersions[x].clock)
  BY DEF Members, SourceBound, States
<1>4. syncVersions[t].clock <= m.clock
  <2>1. m.clock \in Nat /\ syncVersions[t].clock \in Nat
    BY <1>1, StateTypes, VersionTypes
  <2> QED BY <1>2, <2>1 DEF IsNewer
<1> QED BY <1>2, <1>3, <1>4 DEF SameVersion

LEMMA BasicsKept ==
  ASSUME Inv, Inv', Moves, Members, SourceBound
  PROVE  Members' /\ SourceBound'
<1>1. TypeOK /\ TypeOK' /\ wire \in Wires /\ wire' \in Wires
  BY InvIs DEF Inv, TypeOK, Wires
<1>2. UNCHANGED <<open, opened>> /\ \A t \in Tabs : setup'[t] => setup[t]
  BY DEF Moves
<1>3. ASSUME NEW t \in Tabs
      PROVE  /\ syncVersions[t].clock \in Nat /\ syncVersions'[t].clock \in Nat
             /\ syncVersions[t].clock <= syncVersions'[t].clock
  <2>1. /\ syncVersions[t].clock \in Nat /\ syncVersions[t].source \in Nat
        /\ syncVersions'[t].clock \in Nat /\ syncVersions'[t].source \in Nat
    BY <1>1, VersionTypes, SyncAssumption DEF TypeOK, Version
  <2> QED BY <2>1, VersionsGrow DEF IsNewer
<1>4. ASSUME NEW t \in Tabs, NEW u \in Tabs, NEW m \in Sent(wire', t, u)
      PROVE  t \in opened /\ t # u
  <2>1. CASE m \in Sent(wire, t, u)
    BY <2>1 DEF Members
  <2>2. CASE open[t] /\ t # u
    BY <2>2 DEF Members
  <2> QED BY <1>4, <2>1, <2>2 DEF Moves
<1>5. ASSUME NEW t \in Tabs, open[t]
      PROVE  /\ syncVersions'[t].source \in opened
             /\ \A s \in Tabs : open[s] /\ syncVersions'[t].source = s =>
                  syncVersions'[t].clock <= syncVersions'[s].clock
  <2>1. CASE Kept(t)
    <3>1. syncVersions'[t] = syncVersions[t] /\ syncVersions[t].source \in opened
      BY <1>5, <2>1 DEF Kept, Members
    <3>2. ASSUME NEW s \in Tabs, open[s], syncVersions[t].source = s
          PROVE  syncVersions[t].clock <= syncVersions'[s].clock
      <4>1. syncVersions[t].clock <= syncVersions[s].clock
        BY <1>5, <3>2 DEF SourceBound
      <4> QED BY <1>3, <4>1
    <3> QED BY <3>1, <3>2
  <2>2. CASE Wrote(t)
    <3>1. syncVersions'[t].source = t /\ t \in opened
      BY <1>5, <2>2 DEF Wrote, Members
    <3> QED BY <1>3, <3>1
  <2>3. CASE Took(t)
    <3>a1. PICK x \in Tabs : \E m \in States(wire, x, t) :
            /\ x # t /\ x \in opened /\ m.source = x /\ syncVersions'[t].source = x
            /\ IsNewer(m, syncVersions[t]) /\ SameVersion(syncVersions'[t], m)
            /\ open[x] => m.clock <= syncVersions[x].clock
      BY <2>3, TookFrom
    <3>1. PICK m \in States(wire, x, t) :
            /\ x # t /\ x \in opened /\ m.source = x /\ syncVersions'[t].source = x
            /\ IsNewer(m, syncVersions[t]) /\ SameVersion(syncVersions'[t], m)
            /\ open[x] => m.clock <= syncVersions[x].clock
      BY <3>a1
    <3>2. m.clock \in Nat /\ syncVersions'[t].clock = m.clock
      BY <1>1, <3>1, StateTypes DEF SameVersion
    <3> QED BY <1>3, <3>1, <3>2
  <2> QED BY <2>1, <2>2, <2>3 DEF Moves
<1>6. ASSUME NEW t \in Tabs, NEW u \in Tabs, NEW m \in States(wire', t, u)
      PROVE  m.source = t /\ (open[t] => m.clock <= syncVersions'[t].clock)
  <2>1. m \in Sent(wire', t, u) /\ m.type = "sync-state" /\ m.clock \in Nat
    BY <1>1, StateTypes DEF States
  <2>2. CASE m \in Sent(wire, t, u)
    <3>1. m.source = t /\ (open[t] => m.clock <= syncVersions[t].clock)
      BY <2>1, <2>2 DEF SourceBound, States
    <3> QED BY <1>3, <2>1, <3>1
  <2>3. CASE Speaks(m, t)
    BY <1>3, <2>1, <2>3 DEF Speaks
  <2> QED BY <2>1, <2>2, <2>3 DEF Moves
<1>7. Members'
  BY <1>2, <1>4, <1>5 DEF Members
<1>8. SourceBound'
  BY <1>2, <1>5, <1>6 DEF SourceBound
<1> QED BY <1>7, <1>8

\* Of two tabs, one is the source of whatever the other did not write.
LEMMA TwoSources ==
  ASSUME Inv, Orderly, Few, NEW t \in opened, NEW u \in opened, t # u, NEW s \in opened
  PROVE  s = t \/ s = u
<1>1. opened \in SUBSET Tabs /\ IsFiniteSet(Tabs)
  BY SyncAssumption DEF Inv, TypeOK
<1>2. IsFiniteSet(opened)
  BY <1>1, FS_Subset
<1>3. Cardinality(opened) \in Nat /\ Cardinality(opened) <= 2
  BY <1>2, FS_CardinalityType DEF Few, Orderly
<1> SUFFICES ASSUME s # t, s # u PROVE FALSE
  OBVIOUS
<1>4. Cardinality({t, u, s}) = 3 /\ {t, u, s} \subseteq opened
  <2>1. IsFiniteSet({}) /\ Cardinality({}) = 0
    BY FS_EmptySet
  <2>2. IsFiniteSet({t}) /\ Cardinality({t}) = 1
    BY FS_Singleton
  <2>3. IsFiniteSet({t} \cup {u}) /\ Cardinality({t} \cup {u}) = 2
    BY <2>2, FS_AddElement
  <2>4. Cardinality(({t} \cup {u}) \cup {s}) = 3
    BY <2>3, FS_AddElement
  <2>5. ({t} \cup {u}) \cup {s} = {t, u, s}
    OBVIOUS
  <2> QED BY <2>4, <2>5
<1>5. Cardinality({t, u, s}) <= Cardinality(opened)
  BY <1>2, <1>4, FS_Subset
<1> QED BY <1>3, <1>4, <1>5

-----------------------------------------------------------------------------
(***************************************************************************)
(* Two tabs.                                                               *)
(***************************************************************************)

LEMMA PairsKept ==
  ASSUME Inv, Inv', Moves, Members, SourceBound, Pairs, Orderly, Few
  PROVE  Pairs'
<1>1. TypeOK /\ TypeOK' /\ wire \in Wires /\ wire' \in Wires
  BY InvIs DEF Inv, TypeOK, Wires
<1> SUFFICES ASSUME NEW t \in Tabs, NEW u \in Tabs, open[t], open[u], t # u
             PROVE  OwnHeld(t, u)' /\ OwnSent(t, u)' /\ OwnCovered(t, u)'
  BY DEF Pairs, Moves
<1>2. /\ OwnHeld(t, u) /\ OwnSent(t, u) /\ OwnCovered(t, u)
      /\ OwnHeld(u, t) /\ OwnSent(u, t)
  BY DEF Pairs
<1>3. /\ syncVersions[t].clock \in Nat /\ syncVersions[t].source \in Nat
      /\ syncVersions'[t].clock \in Nat /\ syncVersions'[t].source \in Nat
      /\ syncVersions[u].clock \in Nat /\ syncVersions[u].source \in Nat
      /\ syncVersions'[u].clock \in Nat /\ syncVersions'[u].source \in Nat
      /\ t \in Nat /\ u \in Nat
  BY <1>1, VersionTypes, SyncAssumption DEF TypeOK, Version
<1>4. \A s \in opened : s = t \/ s = u
  BY TwoSources DEF Members
<1>5. /\ syncVersions[t].source = t \/ syncVersions[t].source = u
      /\ syncVersions[u].source = t \/ syncVersions[u].source = u
      /\ syncVersions[u].source = t => syncVersions[u].clock <= syncVersions[t].clock
      /\ syncVersions[t].source = u => syncVersions[t].clock <= syncVersions[u].clock
  BY <1>4 DEF Members, SourceBound
<1>6. ~IsNewer(syncVersions[t], syncVersions'[t]) /\ ~IsNewer(syncVersions[u], syncVersions'[u])
  BY VersionsGrow
<1>7. syncVersions[t].clock <= syncVersions'[t].clock
  BY <1>3, <1>6 DEF IsNewer
\* What t, or u, took came from the other.
<1>8. ASSUME Took(t)
      PROVE  \E m \in States(wire, u, t) :
               /\ m.source = u /\ m.clock \in Nat /\ m.clock <= syncVersions[u].clock
               /\ IsNewer(m, syncVersions[t]) /\ SameVersion(syncVersions'[t], m) /\ value'[t] = m.data
  <2>1. PICK x \in Tabs : \E m \in States(wire, x, t) :
          /\ x # t /\ x \in opened /\ m.source = x
          /\ IsNewer(m, syncVersions[t]) /\ SameVersion(syncVersions'[t], m) /\ value'[t] = m.data
          /\ open[x] => m.clock <= syncVersions[x].clock
    BY <1>8, TookFrom
  <2>2. x = u
    BY <1>4, <2>1
  <2> QED BY <1>1, <2>1, <2>2, StateTypes
<1>9. ASSUME Took(u)
      PROVE  \E m \in States(wire, t, u) :
               /\ m.source = t /\ m.clock \in Nat /\ m.clock <= syncVersions[t].clock
               /\ IsNewer(m, syncVersions[u]) /\ SameVersion(syncVersions'[u], m) /\ value'[u] = m.data
  <2>1. PICK x \in Tabs : \E m \in States(wire, x, u) :
          /\ x # u /\ x \in opened /\ m.source = x
          /\ IsNewer(m, syncVersions[u]) /\ SameVersion(syncVersions'[u], m) /\ value'[u] = m.data
          /\ open[x] => m.clock <= syncVersions[x].clock
    BY <1>9, TookFrom
  <2>2. x = t
    BY <1>4, <2>1
  <2> QED BY <1>1, <2>1, <2>2, StateTypes
<1>10. (Kept(t) \/ Wrote(t) \/ Took(t)) /\ (Kept(u) \/ Wrote(u) \/ Took(u)) /\ (Kept(t) \/ Kept(u))
  BY DEF Moves
<1>11. OwnHeld(t, u)'
  <2> SUFFICES ASSUME syncVersions'[u].source = t, syncVersions'[u].clock = syncVersions'[t].clock
               PROVE  value'[u] = value'[t]
    BY DEF OwnHeld
  <2>1. CASE Kept(u)
    <3>1. syncVersions[u].source = t /\ syncVersions[u].clock = syncVersions'[t].clock
      BY <2>1 DEF Kept
    <3>2. syncVersions'[t].clock = syncVersions[t].clock /\ value[u] = value[t]
      BY <1>2, <1>3, <1>5, <1>7, <3>1 DEF OwnHeld
    <3>3. CASE Kept(t)
      BY <2>1, <3>2, <3>3 DEF Kept
    <3>4. CASE Wrote(t)
      BY <1>3, <3>2, <3>4 DEF Wrote
    <3>5. CASE Took(t)
      <4>1. PICK m \in States(wire, u, t) :
              IsNewer(m, syncVersions[t]) /\ SameVersion(syncVersions'[t], m) /\ value'[t] = m.data
        BY <1>8, <3>5
      <4>2. m.clock = syncVersions[u].clock
        BY <3>1, <4>1 DEF SameVersion
      <4>3. m.data = value[u]
        BY <1>2, <4>1, <4>2 DEF OwnSent
      <4> QED BY <2>1, <4>1, <4>3 DEF Kept
    <3> QED BY <1>10, <3>3, <3>4, <3>5
  <2>2. CASE Wrote(u)
    BY <2>2 DEF Wrote
  <2>3. CASE Took(u) /\ Kept(t)
    <3>1. PICK m \in States(wire, t, u) :
            IsNewer(m, syncVersions[u]) /\ SameVersion(syncVersions'[u], m) /\ value'[u] = m.data
      BY <1>9, <2>3
    <3>2. m.clock = syncVersions[t].clock
      BY <2>3, <3>1 DEF SameVersion, Kept
    <3>3. m.data = value[t]
      BY <1>2, <3>1, <3>2 DEF OwnSent
    <3> QED BY <2>3, <3>1, <3>3 DEF Kept
  <2> QED BY <1>10, <2>1, <2>2, <2>3
<1>12. OwnSent(t, u)'
  <2> SUFFICES ASSUME NEW m \in States(wire', t, u), IsNewer(m, syncVersions'[u]),
                      m.clock = syncVersions'[t].clock
               PROVE  m.data = value'[t]
    BY DEF OwnSent
  <2>1. CASE Speaks(m, t)
    BY <2>1 DEF Speaks
  <2>2. CASE m \in Sent(wire, t, u)
    <3>1. m \in States(wire, t, u) /\ m.clock \in Nat /\ m.source \in Nat
      BY <1>1, <2>2, StateTypes, SyncAssumption DEF States
    <3>2. m.source = t /\ m.clock <= syncVersions[t].clock
      BY <3>1 DEF SourceBound
    <3>3. m.clock = syncVersions[t].clock /\ syncVersions'[t].clock = syncVersions[t].clock
      BY <1>3, <1>7, <3>1, <3>2
    <3>4. IsNewer(m, syncVersions[u])
      BY <1>3, <1>6, <3>1 DEF IsNewer
    <3>5. m.data = value[t]
      BY <1>2, <3>1, <3>3, <3>4 DEF OwnSent
    <3>6. CASE Kept(t)
      BY <3>5, <3>6 DEF Kept
    <3>7. CASE Wrote(t)
      BY <1>3, <3>3, <3>7 DEF Wrote
    <3>8. CASE Took(t)
      <4>1. PICK n \in States(wire, u, t) :
              /\ n.source = u /\ n.clock \in Nat /\ n.clock <= syncVersions[u].clock
              /\ IsNewer(n, syncVersions[t]) /\ SameVersion(syncVersions'[t], n)
        BY <1>8, <3>8
      <4>2. n.clock = syncVersions[t].clock
        BY <3>3, <4>1 DEF SameVersion
      <4>3. syncVersions[t].source < u
        BY <1>3, <4>1, <4>2 DEF IsNewer
      <4>4. t < u
        BY <1>3, <1>5, <4>3
      <4>5. syncVersions[u].source < t
        BY <1>3, <3>1, <3>2, <3>3, <3>4, <4>1, <4>2 DEF IsNewer
      <4> QED BY <1>3, <1>5, <4>4, <4>5
    <3> QED BY <1>10, <3>6, <3>7, <3>8
  <2> QED BY <2>1, <2>2 DEF Moves, States
<1>13. OwnCovered(t, u)'
  <2> SUFFICES ASSUME ~lost', ~unsent'[t], syncVersions'[t].clock > 0, syncVersions'[t].source = t,
                      ~Told(t, u)', ~Asks(u, t)'
               PROVE  ~IsNewer(syncVersions'[t], syncVersions'[u])
    BY DEF OwnCovered
  <2>1. (Kept(t) /\ ~unsent[t]) \/ Took(t)
    BY DEF Moves
  <2>2. CASE Took(t)
    BY <1>8, <2>2 DEF SameVersion
  <2>3. CASE Kept(t) /\ ~unsent[t]
    <3>1. syncVersions'[t] = syncVersions[t] /\ ~lost /\ ~Asks(u, t)
      BY <2>3 DEF Kept, Moves
    <3>2. CASE Told(t, u)
      <4>1. PICK m \in States(wire, t, u) : m.clock = syncVersions[t].clock
        BY <3>2 DEF Told
      <4>2. m \notin States(wire', t, u)
        BY <3>1, <4>1 DEF Told
      <4>3. ~IsNewer(m, syncVersions'[u]) /\ m.source = t
        BY <4>1, <4>2 DEF Moves, SourceBound
      <4> QED BY <3>1, <4>1, <4>3 DEF IsNewer
    <3>3. CASE ~IsNewer(syncVersions[t], syncVersions[u])
      BY <1>3, <1>6, <3>1, <3>3 DEF IsNewer
    <3> QED BY <1>2, <2>3, <3>1, <3>2, <3>3 DEF OwnCovered
  <2> QED BY <2>1, <2>2, <2>3
<1> QED BY <1>11, <1>12, <1>13

\* Two tabs at rest show the same.
LEMMA PairsAtRest ==
  ASSUME Inv, Members, SourceBound, Pairs, Orderly, Few, InStep, ~Asking,
         NEW t \in Tabs, NEW u \in Tabs, open[t], open[u], t # u
  PROVE  value[t] = value[u]
<1>1. TypeOK /\ wire \in Wires
  BY InvIs
<1>2. /\ \A x, y \in Tabs : Sent(wire, x, y) = {}
      /\ ~lost /\ ~unsent[t] /\ ~unsent[u]
  BY QuietIs DEF InStep
<1>3. ~Told(t, u) /\ ~Told(u, t) /\ ~Asks(t, u) /\ ~Asks(u, t)
  BY <1>2 DEF Told, Asks, States, Requested, Asking
<1>4. OwnHeld(t, u) /\ OwnHeld(u, t) /\ OwnCovered(t, u) /\ OwnCovered(u, t)
  BY DEF Pairs
<1>5. /\ syncVersions[t].clock \in Nat /\ syncVersions[t].source \in Nat
      /\ syncVersions[u].clock \in Nat /\ syncVersions[u].source \in Nat /\ t \in Nat /\ u \in Nat
  BY <1>1, VersionTypes, SyncAssumption
<1>6. /\ syncVersions[t].source = t \/ syncVersions[t].source = u
      /\ syncVersions[u].source = t \/ syncVersions[u].source = u
      /\ syncVersions[u].source = t => syncVersions[u].clock <= syncVersions[t].clock
      /\ syncVersions[t].source = u => syncVersions[t].clock <= syncVersions[u].clock
  BY TwoSources DEF Members, SourceBound
<1>7. /\ syncVersions[t].clock > 0 /\ syncVersions[t].source = t => ~IsNewer(syncVersions[t], syncVersions[u])
      /\ syncVersions[u].clock > 0 /\ syncVersions[u].source = u => ~IsNewer(syncVersions[u], syncVersions[t])
  BY <1>2, <1>3, <1>4 DEF OwnCovered
<1>8. CASE syncVersions[t].clock = 0 /\ syncVersions[u].clock = 0
  BY <1>8, ZeroIsInitial
<1>9. CASE syncVersions[t].clock > 0 \/ syncVersions[u].clock > 0
  <2>1. \/ syncVersions[u].source = t /\ syncVersions[u].clock = syncVersions[t].clock
        \/ syncVersions[t].source = u /\ syncVersions[t].clock = syncVersions[u].clock
    BY <1>5, <1>6, <1>7, <1>9 DEF IsNewer
  <2> QED BY <1>4, <2>1 DEF OwnHeld
<1> QED BY <1>5, <1>8, <1>9

LEMMA PairsAgree ==
  ASSUME Inv, Members, SourceBound, Pairs, Orderly, Few
  PROVE  VersionIdentifiesValue
<1> SUFFICES ASSUME NEW t \in Tabs, NEW u \in Tabs, open[t], open[u], t # u, syncVersions[t] = syncVersions[u]
             PROVE  value[t] = value[u]
  BY DEF VersionIdentifiesValue
<1>1. syncVersions[t].source = t \/ syncVersions[t].source = u
  BY TwoSources DEF Members
<1>2. OwnHeld(t, u) /\ OwnHeld(u, t)
  BY DEF Pairs
<1> QED BY <1>1, <1>2 DEF OwnHeld

-----------------------------------------------------------------------------
(***************************************************************************)
(* More tabs, while a snapshot is asked for.                               *)
(***************************************************************************)

LEMMA AskIsUniform == Inv /\ (\E k \in Nat, v \in Stamps : AskFacts(k, v)) => Uniform
<1> SUFFICES ASSUME Inv, NEW k \in Nat, NEW v \in Stamps, AskFacts(k, v) PROVE Uniform
  OBVIOUS
<1>1. TypeOK /\ wire \in Wires
  BY InvIs
<1>2. ASSUME NEW t \in Tabs, open[t]
      PROVE  (syncVersions[t].clock = k /\ value[t] = v) \/ (syncVersions[t].clock = 0 /\ value[t] = 0)
  BY <1>2, ZeroIsInitial DEF AskFacts
<1>3. ASSUME NEW x \in Tabs, NEW y \in Tabs, NEW m \in States(wire, x, y)
      PROVE  (m.clock = k /\ m.data = v) \/ (m.clock = 0 /\ m.data = 0)
  BY ZeroIsInitial DEF AskFacts
\* If k is 0 and a tab, or a message, has it at v, then v is 0.
<1>4. /\ \A t \in Tabs : open[t] /\ syncVersions[t].clock = 0 => value[t] = 0
      /\ \A x, y \in Tabs : \A m \in States(wire, x, y) : m.clock = 0 => m.data = 0
  BY ZeroIsInitial
<1> QED BY <1>2, <1>3, <1>4 DEF Uniform, SameVersion

LEMMA AskKept ==
  ASSUME Inv, Inv', Moves, Calm, Members, SourceBound, Asking,
         NEW k \in Nat, NEW v \in Stamps, AskFacts(k, v)
  PROVE  AskFacts(k, v)'
<1>1. TypeOK /\ TypeOK' /\ wire \in Wires /\ wire' \in Wires
  BY InvIs DEF Inv, TypeOK, Wires
<1>2. UNCHANGED <<open, opened>>
  BY DEF Moves
<1>3. ASSUME NEW t \in Tabs
      PROVE  /\ syncVersions[t].clock \in Nat /\ syncVersions'[t].clock \in Nat
             /\ syncVersions[t].clock <= syncVersions'[t].clock
  <2>1. /\ syncVersions[t].clock \in Nat /\ syncVersions[t].source \in Nat
        /\ syncVersions'[t].clock \in Nat /\ syncVersions'[t].source \in Nat
    BY <1>1, VersionTypes, SyncAssumption DEF TypeOK, Version
  <2> QED BY <2>1, VersionsGrow DEF IsNewer
<1>4. ASSUME NEW t \in Tabs, open[t]
      PROVE  (syncVersions'[t].clock = k /\ value'[t] = v) \/ syncVersions'[t].clock = 0
  <2>1. CASE Kept(t)
    BY <1>4, <2>1 DEF Kept, AskFacts
  <2>2. CASE Wrote(t)
    BY <2>2 DEF Calm
  <2>3. CASE Took(t)
    BY <2>3 DEF Took, SameVersion, AskFacts
  <2> QED BY <2>1, <2>2, <2>3 DEF Moves
<1>5. ASSUME NEW x \in Tabs, NEW y \in Tabs, NEW m \in States(wire', x, y)
      PROVE  m.reply /\ ((m.clock = k /\ m.data = v) \/ m.clock = 0)
  <2>1. m \in Sent(wire', x, y) /\ m.type = "sync-state"
    BY DEF States
  <2>2. CASE m \in Sent(wire, x, y)
    BY <2>1, <2>2 DEF States, AskFacts
  <2>3. CASE open[x] /\ Speaks(m, x)
    BY <1>4, <2>3 DEF Speaks, Calm
  <2> QED BY <2>1, <2>2, <2>3 DEF Moves
<1>6. ASSUME NEW t \in Tabs, open[t], syncVersions[t].clock = k PROVE syncVersions'[t].clock = k
  BY <1>3, <1>4, <1>6
<1>7. ASSUME NEW t \in Tabs, NEW u \in Tabs, open[t], open[u], t # u
      PROVE  syncVersions[t].clock = k \/ syncVersions[u].clock = k
  BY <1>7 DEF AskFacts
<1>8. ASSUME ~lost', NEW t \in Tabs, NEW u \in Tabs, open[t], open[u], t # u,
             syncVersions'[t].clock = k, syncVersions'[u].clock # k
      PROVE  Asks(u, t)' \/ Told(t, u)'
  <2>1. syncVersions[u].clock # k /\ syncVersions[t].clock = k /\ ~lost
    BY <1>6, <1>7, <1>8 DEF Moves
  <2>2. Asks(u, t) \/ Told(t, u)
    BY <1>8, <2>1 DEF AskFacts
  <2>3. CASE Asks(u, t)
    BY <1>8, <2>3 DEF Moves
  <2>4. CASE Told(t, u)
    <3>1. PICK m \in States(wire, t, u) : m.clock = k
      BY <2>1, <2>4 DEF Told
    <3>2. CASE m \in States(wire', t, u)
      BY <1>8, <3>1, <3>2 DEF Told
    <3>3. CASE ~IsNewer(m, syncVersions'[u])
      <4>1. k <= syncVersions'[u].clock
        BY <1>3, <3>1, <3>3 DEF IsNewer
      <4> QED BY <1>3, <1>4, <1>8, <4>1
    <3> QED BY <1>8, <3>2, <3>3 DEF Moves
  <2> QED BY <2>2, <2>3, <2>4
<1>9. \A t, u \in Tabs :
        open[t] /\ open[u] /\ t # u => syncVersions'[t].clock = k \/ syncVersions'[u].clock = k
  BY <1>6, <1>7
<1> QED BY <1>2, <1>4, <1>5, <1>8, <1>9 DEF AskFacts

\* When nobody asks any more, all have the value; or one is left, that did not get it.
LEMMA AskOver ==
  Inv /\ (\E k \in Nat, v \in Stamps : AskFacts(k, v)) /\ ~Asking /\ ~lost =>
    \E k \in Nat, v \in Stamps : WriteFacts(k, v)
<1> SUFFICES ASSUME Inv, NEW k \in Nat, NEW v \in Stamps, AskFacts(k, v), ~Asking, ~lost
             PROVE  \E k1 \in Nat, v1 \in Stamps : WriteFacts(k1, v1)
  OBVIOUS
<1>1. TypeOK /\ wire \in Wires
  BY InvIs
<1>2. \A x, y \in Tabs : States(wire, x, y) = {}
  BY AskingIs DEF AskFacts, States
<1>3. \A t, u \in Tabs : ~Asks(u, t) /\ ~Told(t, u)
  BY <1>2, AskingIs DEF Asks, Requested, Told
<1>4. ASSUME NEW c \in Nat, NEW d \in Stamps,
             \A t \in Tabs : open[t] => syncVersions[t].clock = c /\ value[t] = d
      PROVE  WriteFacts(c, d)
  <2>1. \A t \in Tabs : open[t] => ~(syncVersions[t].clock > c)
    BY <1>4
  <2> QED BY <1>2, <1>4, <2>1 DEF WriteFacts
<1>5. CASE \A t \in Tabs : open[t] => syncVersions[t].clock = k
  <2>1. \A t \in Tabs : open[t] => syncVersions[t].clock = k /\ (value[t] = v \/ k = 0)
    BY <1>5 DEF AskFacts
  <2>2. CASE k = 0
    <3>1. 0 \in Stamps /\ \A t \in Tabs : open[t] => value[t] = 0
      BY <2>1, <2>2, ZeroIsInitial, SyncAssumption DEF Stamps
    <3> QED BY <1>4, <2>1, <3>1
  <2>3. CASE k # 0
    BY <1>4, <2>1, <2>3
  <2> QED BY <2>2, <2>3
<1>6. ASSUME NEW u \in Tabs, open[u], syncVersions[u].clock # k
      PROVE  \E k1 \in Nat, v1 \in Stamps : WriteFacts(k1, v1)
  <2>1. \A t \in Tabs : open[t] => t = u
    BY <1>3, <1>6 DEF AskFacts
  <2>2. syncVersions[u].clock = 0 /\ value[u] = 0
    BY <1>6, ZeroIsInitial DEF AskFacts
  <2>3. 0 \in Nat /\ 0 \in Stamps
    BY SyncAssumption DEF Stamps
  <2>4. \A t \in Tabs : open[t] => syncVersions[t].clock = 0 /\ value[t] = 0
    BY <2>1, <2>2
  <2> QED BY <1>4, <2>3, <2>4
<1> QED BY <1>5, <1>6

LEMMA NextStates ==
  /\ (Inv /\ \E k \in Nat, v \in Stamps : AskFacts(k, v))' => Uniform'
  /\ (Inv /\ (\E k \in Nat, v \in Stamps : AskFacts(k, v)) /\ ~Asking /\ ~lost)' =>
       (\E k \in Nat, v \in Stamps : WriteFacts(k, v))'
  BY AskIsUniform, AskOver, PTL

-----------------------------------------------------------------------------
(***************************************************************************)
(* More tabs, between snapshots.                                           *)
(***************************************************************************)

\* What a step that nobody asks before leaves: it was there, or it is the version
\* that one tab wrote, which nobody had.
LEMMA Claims ==
  ASSUME Inv, Inv', Moves, Calm, Members, SourceBound, ~Asking
  PROVE  /\ \A t \in Tabs : open[t] => Kept(t) \/ Wrote(t) \/ Took(t)
         /\ \A x, y \in Tabs : \A m \in States(wire', x, y) :
              \/ m \in States(wire, x, y)
              \/ /\ open[x] /\ Wrote(x) /\ ~unsent'[x]
                 /\ m.source = x /\ m.clock = syncVersions'[x].clock /\ m.data = value'[x]
         /\ \A t \in Tabs, p \in Tabs : open[t] /\ open[p] /\ t # p /\ Wrote(p) =>
              Kept(t) /\ ~SameVersion(syncVersions[t], syncVersions'[p])
         /\ \A p, x, y \in Tabs : \A m \in States(wire, x, y) :
              open[p] /\ Wrote(p) => ~SameVersion(m, syncVersions'[p])
<1>1. TypeOK /\ TypeOK' /\ wire \in Wires /\ wire' \in Wires
  BY InvIs DEF Inv, TypeOK, Wires
<1>2. \A t \in Tabs : syncVersions[t].clock \in Nat /\ syncVersions'[t].clock \in Nat
  BY <1>1, VersionTypes DEF TypeOK, Version
<1>3. ASSUME NEW x \in Tabs, NEW y \in Tabs, NEW m \in States(wire', x, y), m \notin States(wire, x, y)
      PROVE  /\ open[x] /\ Wrote(x) /\ ~unsent'[x]
             /\ m.source = x /\ m.clock = syncVersions'[x].clock /\ m.data = value'[x]
  <2>1. m \in Sent(wire', x, y) /\ m.type = "sync-state" /\ m \notin Sent(wire, x, y)
    BY <1>3 DEF States
  <2>2. open[x] /\ Speaks(m, x)
    BY <2>1 DEF Moves
  <2> QED BY <2>2 DEF Speaks
<1>4. ASSUME NEW t \in Tabs, NEW p \in Tabs, open[t], open[p], t # p, Wrote(p)
      PROVE  Kept(t) /\ ~SameVersion(syncVersions[t], syncVersions'[p])
  <2>1. ~Kept(p)
    BY <1>1, <1>4, KeptOrWrote
  <2>2. Kept(t)
    BY <1>4, <2>1 DEF Moves
  <2>3. syncVersions[t].source = p => syncVersions[t].clock <= syncVersions[p].clock
    BY <1>4 DEF SourceBound
  <2> QED BY <1>2, <1>4, <2>2, <2>3 DEF SameVersion, Wrote
<1>5. ASSUME NEW p \in Tabs, NEW x \in Tabs, NEW y \in Tabs, NEW m \in States(wire, x, y), open[p], Wrote(p)
      PROVE  ~SameVersion(m, syncVersions'[p])
  <2>1. m.source = x /\ (open[x] => m.clock <= syncVersions[x].clock) /\ m.clock \in Nat
    BY <1>1, StateTypes DEF SourceBound
  <2> QED BY <1>2, <1>5, <2>1 DEF SameVersion, Wrote
<1>6. \A t \in Tabs : open[t] => Kept(t) \/ Wrote(t) \/ Took(t)
  BY DEF Moves
<1> QED BY <1>3, <1>4, <1>5, <1>6

\* A version a tab wrote is that tab's alone until it is sent.
LEMMA UniformKept ==
  ASSUME Inv, Inv', Moves, Calm, Members, SourceBound, ~Asking, Uniform
  PROVE  Uniform'
<1>1. TypeOK /\ TypeOK'
  BY DEF Inv
<1>2. UNCHANGED open
  BY DEF Moves
<1>3. \A t \in Tabs : Kept(t) => ~Wrote(t)
  BY <1>1, KeptOrWrote
\* A version of the next state is one that Uniform is about, or the new one.
<1>4. ASSUME NEW t \in Tabs, open[t], NEW u \in Tabs, open[u], ~Wrote(t),
             SameVersion(syncVersions'[t], syncVersions'[u]), ~Wrote(u)
      PROVE  value'[t] = value'[u]
  <2>1. CASE Kept(t) /\ Kept(u)
    BY <1>4, <2>1 DEF Kept, Uniform
  <2>2. CASE Took(t) /\ Kept(u)
    <3>1. PICK x \in Tabs : \E m \in States(wire, x, t) :
            SameVersion(syncVersions'[t], m) /\ value'[t] = m.data
      BY <2>2 DEF Took
    <3>2. PICK m \in States(wire, x, t) : SameVersion(syncVersions'[t], m) /\ value'[t] = m.data
      BY <3>1
    <3>3. SameVersion(m, syncVersions[u])
      BY <1>4, <2>2, <3>2 DEF SameVersion, Kept
    <3>4. m.data = value[u]
      BY <1>4, <3>3 DEF Uniform
    <3> QED BY <2>2, <3>2, <3>4 DEF Kept
  <2>3. CASE Kept(t) /\ Took(u)
    <3>1. PICK x \in Tabs : \E m \in States(wire, x, u) :
            SameVersion(syncVersions'[u], m) /\ value'[u] = m.data
      BY <2>3 DEF Took
    <3>2. PICK m \in States(wire, x, u) : SameVersion(syncVersions'[u], m) /\ value'[u] = m.data
      BY <3>1
    <3>3. SameVersion(m, syncVersions[t])
      BY <1>4, <2>3, <3>2 DEF SameVersion, Kept
    <3>4. m.data = value[t]
      BY <1>4, <3>3 DEF Uniform
    <3> QED BY <2>3, <3>2, <3>4 DEF Kept
  <2>4. CASE t = u
    BY <2>4
  <2> QED BY <1>4, <2>1, <2>2, <2>3, <2>4, Claims DEF Moves
<1>5. ASSUME NEW t \in Tabs, NEW u \in Tabs, open[t], open[u], SameVersion(syncVersions'[t], syncVersions'[u])
      PROVE  value'[t] = value'[u]
  <2>1. CASE t # u /\ Wrote(t)
    <3>1. Kept(u) /\ ~SameVersion(syncVersions[u], syncVersions'[t])
      BY <1>5, <2>1, Claims
    <3> QED BY <1>5, <3>1 DEF Kept, SameVersion
  <2>2. CASE t # u /\ Wrote(u)
    <3>1. Kept(t) /\ ~SameVersion(syncVersions[t], syncVersions'[u])
      BY <1>5, <2>2, Claims
    <3> QED BY <1>5, <3>1 DEF Kept, SameVersion
  <2>3. CASE t = u
    BY <2>3
  <2> QED BY <1>4, <1>5, <2>1, <2>2, <2>3
<1>6. ASSUME NEW t \in Tabs, NEW x \in Tabs, NEW y \in Tabs, NEW m \in States(wire', x, y),
             open[t], SameVersion(m, syncVersions'[t])
      PROVE  m.data = value'[t]
  <2>1. CASE m \in States(wire, x, y)
    <3>1. CASE Kept(t)
      BY <1>6, <2>1, <3>1 DEF Kept, Uniform
    <3>2. CASE Wrote(t)
      BY <1>6, <2>1, <3>2, Claims
    <3>3. CASE Took(t)
      <4>1. PICK z \in Tabs : \E n \in States(wire, z, t) :
              SameVersion(syncVersions'[t], n) /\ value'[t] = n.data
        BY <3>3 DEF Took
      <4>2. PICK n \in States(wire, z, t) : SameVersion(syncVersions'[t], n) /\ value'[t] = n.data
        BY <4>1
      <4>3. SameVersion(m, n)
        BY <1>6, <4>2 DEF SameVersion
      <4> QED BY <2>1, <4>2, <4>3 DEF Uniform
    <3> QED BY <1>6, <3>1, <3>2, <3>3, Claims
  <2>2. CASE open[x] /\ Wrote(x) /\ m.source = x /\ m.clock = syncVersions'[x].clock /\ m.data = value'[x]
    <3>1. SameVersion(syncVersions'[x], syncVersions'[t])
      BY <1>6, <2>2 DEF SameVersion, Wrote
    <3> QED BY <1>5, <1>6, <2>2, <3>1
  <2> QED BY <2>1, <2>2, Claims
<1>7. ASSUME NEW x \in Tabs, NEW y \in Tabs, NEW x1 \in Tabs, NEW y1 \in Tabs,
             NEW m \in States(wire', x, y), NEW n \in States(wire', x1, y1), SameVersion(m, n)
      PROVE  m.data = n.data
  <2>1. CASE m \in States(wire, x, y) /\ n \in States(wire, x1, y1)
    BY <1>7, <2>1 DEF Uniform
  <2>2. CASE open[x] /\ Wrote(x) /\ m.source = x /\ m.clock = syncVersions'[x].clock /\ m.data = value'[x]
    <3>1. SameVersion(n, syncVersions'[x])
      BY <1>7, <2>2 DEF SameVersion, Wrote
    <3> QED BY <1>6, <2>2, <3>1
  <2>3. CASE open[x1] /\ Wrote(x1) /\ n.source = x1 /\ n.clock = syncVersions'[x1].clock /\ n.data = value'[x1]
    <3>1. SameVersion(m, syncVersions'[x1])
      BY <1>7, <2>3 DEF SameVersion, Wrote
    <3> QED BY <1>6, <2>3, <3>1
  <2> QED BY <2>1, <2>2, <2>3, Claims
<1> QED BY <1>2, <1>5, <1>6, <1>7 DEF Uniform

\* What has reached u, or was sent to it, reaches it.
LEMMA ReachesKept ==
  ASSUME Inv, Inv', Moves, ~lost', NEW q, q.clock \in Nat, q.source \in Nat, NEW u \in Tabs, Reaches(q, u)
  PROVE  ~IsNewer(q, syncVersions'[u]) \/ \E x \in Tabs : \E n \in States(wire', x, u) : ~IsNewer(q, n)
<1>1. TypeOK /\ TypeOK' /\ wire \in Wires
  BY InvIs DEF Inv
<1>2. /\ syncVersions[u].clock \in Nat /\ syncVersions[u].source \in Nat
      /\ syncVersions'[u].clock \in Nat /\ syncVersions'[u].source \in Nat
  BY <1>1, VersionTypes, SyncAssumption DEF TypeOK, Version
<1>3. CASE ~IsNewer(q, syncVersions[u])
  <2>1. ~IsNewer(syncVersions[u], syncVersions'[u])
    BY VersionsGrow
  <2> QED BY <1>2, <1>3, <2>1 DEF IsNewer
<1>4. ASSUME NEW x \in Tabs, NEW n \in States(wire, x, u), ~IsNewer(q, n)
      PROVE  n \in States(wire', x, u) \/ ~IsNewer(q, syncVersions'[u])
  <2>1. n.clock \in Nat /\ n.source \in Nat
    BY <1>1, StateTypes, SyncAssumption
  <2>2. CASE ~IsNewer(n, syncVersions'[u])
    BY <1>2, <1>4, <2>1, <2>2 DEF IsNewer
  <2> QED BY <2>2 DEF Moves
<1> QED BY <1>3, <1>4 DEF Reaches

LEMMA WriteKept ==
  ASSUME Inv, Inv', Moves, Calm, Members, SourceBound, ~Asking, ~lost',
         NEW k \in Nat, NEW v \in Stamps, WriteFacts(k, v)
  PROVE  WriteFacts(k, v)'
<1>1. TypeOK /\ TypeOK' /\ wire \in Wires /\ wire' \in Wires
  BY InvIs DEF Inv, TypeOK, Wires
<1>2. UNCHANGED open
  BY DEF Moves
<1>3. ASSUME NEW t \in Tabs
      PROVE  /\ syncVersions[t].clock \in Nat /\ syncVersions[t].source \in Nat
             /\ syncVersions'[t].clock \in Nat /\ syncVersions'[t].source \in Nat
  BY <1>1, VersionTypes, SyncAssumption DEF TypeOK, Version
<1>4. \A x, y \in Tabs : \A m \in States(wire, x, y) : m.clock \in Nat /\ m.source \in Nat
  BY <1>1, StateTypes, SyncAssumption
<1>5. ASSUME NEW t \in Tabs, open[t]
      PROVE  syncVersions'[t].clock >= k /\ (syncVersions'[t].clock = k => value'[t] = v)
  <2>1. CASE Kept(t)
    BY <1>5, <2>1 DEF Kept, WriteFacts
  <2>2. CASE Wrote(t)
    <3>1. syncVersions[t].clock >= k
      BY <1>5 DEF WriteFacts
    <3> QED BY <1>3, <2>2, <3>1 DEF Wrote
  <2>3. CASE Took(t)
    <3>1. PICK x \in Tabs : \E m \in States(wire, x, t) : SameVersion(syncVersions'[t], m)
      BY <2>3 DEF Took
    <3>2. PICK m \in States(wire, x, t) : SameVersion(syncVersions'[t], m)
      BY <3>1
    <3>3. m.clock > k
      BY DEF WriteFacts
    <3> QED BY <1>3, <3>2, <3>3 DEF SameVersion
  <2> QED BY <1>5, <2>1, <2>2, <2>3, Claims
<1>6. ASSUME NEW t \in Tabs, open[t], Wrote(t) PROVE syncVersions'[t].clock > k
  <2>1. syncVersions[t].clock >= k
    BY <1>6 DEF WriteFacts
  <2> QED BY <1>3, <1>6, <2>1 DEF Wrote
<1>7. ASSUME NEW x \in Tabs, NEW y \in Tabs, NEW m \in States(wire', x, y)
      PROVE  m.clock > k
  <2>1. CASE m \in States(wire, x, y)
    BY <2>1 DEF WriteFacts
  <2>2. CASE open[x] /\ Wrote(x) /\ m.clock = syncVersions'[x].clock
    BY <1>6, <2>2
  <2> QED BY <2>1, <2>2, Claims
\* What a tab wrote is with it, and on its way to every other unless it is not sent.
<1>8. ASSUME NEW t \in Tabs, NEW u \in Tabs, open[t], open[u], Wrote(t), ~unsent'[t],
             NEW q, SameVersion(q, syncVersions'[t])
      PROVE  Reaches(q, u)'
  <2>1. CASE t = u
    <3>1. ~IsNewer(q, syncVersions'[u])
      BY <1>3, <1>8, <2>1 DEF IsNewer, SameVersion
    <3> QED BY <3>1 DEF Reaches
  <2>2. CASE t # u
    <3>1. ~Kept(t)
      BY <1>1, <1>8, KeptOrWrote
    <3>2. ~Took(t)
      BY <1>8, TookFrom DEF Wrote
    <3>3. Told(t, u)'
      BY <1>8, <2>2, <3>1, <3>2 DEF Moves
    <3>4. PICK m \in States(wire', t, u) : m.clock = syncVersions'[t].clock
      BY <3>3 DEF Told
    <3>5. m.source = t /\ syncVersions'[t].source = t
      BY <1>8, BasicsKept DEF SourceBound, Wrote
    <3>6. ~IsNewer(q, m)
      BY <1>3, <1>8, <3>4, <3>5 DEF IsNewer, SameVersion
    <3> QED BY <3>6 DEF Reaches
  <2> QED BY <2>1, <2>2
<1>9. ASSUME NEW t \in Tabs, NEW u \in Tabs, open[t], open[u], ~unsent'[t], syncVersions'[t].clock > k
      PROVE  Reaches(syncVersions[t], u)'
  <2>1. CASE Kept(t)
    <3>1. ~unsent[t] /\ syncVersions[t].clock > k /\ syncVersions'[t] = syncVersions[t]
      BY <1>9, <2>1 DEF Kept, Calm
    <3>2. Reaches(syncVersions[t], u)
      BY <1>9, <3>1 DEF WriteFacts
    <3>3. PICK q : q = syncVersions[t]
      OBVIOUS
    <3>4. ~IsNewer(q, syncVersions'[u]) \/ \E x \in Tabs : \E n \in States(wire', x, u) : ~IsNewer(q, n)
      BY <1>3, <3>2, <3>3, ReachesKept
    <3> QED BY <3>1, <3>3, <3>4 DEF Reaches
  <2>2. CASE Wrote(t)
    <3>1. PICK q : q = syncVersions'[t]
      OBVIOUS
    <3>2. Reaches(q, u)'
      BY <1>8, <1>9, <2>2, <3>1 DEF SameVersion
    <3> QED BY <3>1, <3>2 DEF Reaches
  <2>3. CASE Took(t)
    <3>1. PICK x \in Tabs : \E m \in States(wire, x, t) : SameVersion(syncVersions'[t], m)
      BY <2>3 DEF Took
    <3>2. PICK m \in States(wire, x, t) : SameVersion(syncVersions'[t], m)
      BY <3>1
    <3>3. Reaches(m, u)
      BY <1>9 DEF WriteFacts
    <3>4. ~IsNewer(m, syncVersions'[u]) \/ \E z \in Tabs : \E n \in States(wire', z, u) : ~IsNewer(m, n)
      BY <1>4, <3>3, ReachesKept
    <3> QED BY <3>2, <3>4 DEF Reaches, IsNewer, SameVersion
  <2> QED BY <1>9, <2>1, <2>2, <2>3, Claims
<1>10. ASSUME NEW x \in Tabs, NEW y \in Tabs, NEW u \in Tabs, NEW m \in States(wire', x, y), open[u]
       PROVE  Reaches(m, u)'
  <2>1. CASE m \in States(wire, x, y)
    <3>1. Reaches(m, u)
      BY <1>10, <2>1 DEF WriteFacts
    <3>2. ~IsNewer(m, syncVersions'[u]) \/ \E z \in Tabs : \E n \in States(wire', z, u) : ~IsNewer(m, n)
      BY <1>4, <2>1, <3>1, ReachesKept
    <3> QED BY <3>2 DEF Reaches
  <2>2. CASE open[x] /\ Wrote(x) /\ ~unsent'[x] /\ m.source = x /\ m.clock = syncVersions'[x].clock
    <3>1. SameVersion(m, syncVersions'[x])
      BY <2>2 DEF SameVersion, Wrote
    <3> QED BY <1>8, <1>10, <2>2, <3>1
  <2> QED BY <2>1, <2>2, Claims
<1> QED BY <1>2, <1>5, <1>7, <1>9, <1>10 DEF WriteFacts

LEMMA PhasesKept ==
  ASSUME Inv, Inv', Moves, Calm, Members, SourceBound, Phases, Asking' => Asking
  PROVE  Phases'
<1>1. CASE Asking
  <2>1. PICK k \in Nat, v \in Stamps : AskFacts(k, v)
    BY <1>1 DEF Phases
  <2>2. AskFacts(k, v)'
    BY <1>1, <2>1, AskKept
  <2>3. (\E k1 \in Nat, v1 \in Stamps : AskFacts(k1, v1))'
    BY <2>2
  <2> QED BY <2>3, NextStates DEF Phases
<1>2. CASE ~Asking
  <2>1. Uniform'
    BY <1>2, UniformKept DEF Phases
  <2>2. ASSUME ~lost' PROVE (\E k \in Nat, v \in Stamps : WriteFacts(k, v))'
    <3>1. ~lost
      BY <2>2 DEF Moves
    <3>2. PICK k \in Nat, v \in Stamps : WriteFacts(k, v)
      BY <1>2, <3>1 DEF Phases
    <3>3. WriteFacts(k, v)'
      BY <1>2, <2>2, <3>2, WriteKept
    <3> QED BY <3>3
  <2> QED BY <1>2, <2>1, <2>2 DEF Phases
<1> QED BY <1>1, <1>2

\* At rest more tabs show the same too.
LEMMA PhasesAtRest ==
  ASSUME Inv, Phases, InStep, ~Asking, NEW t \in Tabs, NEW u \in Tabs, open[t], open[u]
  PROVE  value[t] = value[u]
<1>1. TypeOK
  BY DEF Inv
<1>2. /\ \A x, y \in Tabs : States(wire, x, y) = {}
      /\ ~lost /\ ~unsent[t] /\ ~unsent[u]
  BY QuietIs DEF InStep, States
<1>3. PICK k \in Nat, v \in Stamps : WriteFacts(k, v)
  BY <1>2 DEF Phases
<1>4. /\ syncVersions[t].clock \in Nat /\ syncVersions[t].source \in Nat
      /\ syncVersions[u].clock \in Nat /\ syncVersions[u].source \in Nat
  BY <1>1, VersionTypes
<1>5. /\ syncVersions[t].clock >= k /\ (syncVersions[t].clock = k => value[t] = v)
      /\ syncVersions[u].clock >= k /\ (syncVersions[u].clock = k => value[u] = v)
  BY <1>3 DEF WriteFacts
<1>6. /\ syncVersions[t].clock > k => ~IsNewer(syncVersions[t], syncVersions[u])
      /\ syncVersions[u].clock > k => ~IsNewer(syncVersions[u], syncVersions[t])
  BY <1>2, <1>3 DEF WriteFacts, Reaches
<1>7. CASE syncVersions[t].clock > k \/ syncVersions[u].clock > k
  <2>1. SameVersion(syncVersions[t], syncVersions[u])
    BY <1>4, <1>5, <1>6, <1>7 DEF IsNewer, SameVersion
  <2> QED BY <2>1 DEF Phases, Uniform
<1> QED BY <1>4, <1>5, <1>7

-----------------------------------------------------------------------------
(***************************************************************************)
(* Every action keeps what makes the tabs converge.                        *)
(***************************************************************************)

LEMMA AskingNext ==
  Asking' <=> \/ \E t \in Tabs : setup'[t]
              \/ \E x, y \in Tabs : \E m \in Sent(wire', x, y) : m.type = "sync-request" \/ m.reply
<1>1. Asking' <=> (\/ \E t \in Tabs : setup[t]
                   \/ \E x, y \in Tabs : \E m \in Sent(wire, x, y) : m.type = "sync-request" \/ m.reply)'
  BY AskingIs, PTL
<1> QED BY <1>1

\* Taking a message off the wire asks for nothing.
LEMMA TakingAsksNothing ==
  ASSUME Inv, NEW u \in Tabs, NEW t \in Tabs, wire[<<u, t>>] # <<>>, wire' = Deliver(u, t), UNCHANGED setup,
         Asking'
  PROVE  Asking
<1>1. \A x, y \in Tabs : Sent(wire', x, y) \subseteq Sent(wire, x, y)
  BY DeliverLeaves
<1> QED BY <1>1, AskingIs, AskingNext

\* Nor does a write.
LEMMA WritingAsksNothing ==
  ASSUME Inv, Inv', NEW t \in Tabs, Write(t), Asking'
  PROVE  Asking
<1>1. TypeOK /\ TypeOK' /\ wire \in Wires /\ FALSE \in BOOLEAN
  BY InvIs DEF Inv
<1>2. setup' = setup
  BY DEF Write, tabVars
<1>3. CASE \A x, y \in Tabs : Sent(wire', x, y) = Sent(wire, x, y)
  BY <1>2, <1>3, AskingIs, AskingNext
<1>4. CASE Says(wire, t, FALSE)
  <2>1. PICK m \in Message :
          /\ m.type = "sync-state" /\ m.reply = FALSE
          /\ \A x, y \in Tabs : Sent(wire', x, y) =
               IF x = t /\ y # t /\ open[y] THEN Sent(wire, x, y) \cup {m} ELSE Sent(wire, x, y)
    BY <1>4 DEF Says
  <2>2. \A x, y \in Tabs : \A n \in Sent(wire', x, y) : n \in Sent(wire, x, y) \/ n = m
    BY <2>1
  <2> QED BY <1>2, <2>1, <2>2, AskingIs, AskingNext
<1>5. CASE BroadcastSync(wire, t, FALSE)
  BY <1>1, <1>3, <1>4, <1>5, BroadcastSays
<1>6. CASE UNCHANGED wire
  BY <1>3, <1>6
<1> QED BY <1>5, <1>6 DEF Write

LEMMA FewTabs ==
  ASSUME Inv, Orderly
  PROVE  /\ Few <=> Cardinality(opened) <= 2
         /\ Resolver => Few
         /\ \A o \in SUBSET Tabs : opened \subseteq o /\ Cardinality(o) <= 2 => Few
<1>1. opened \in SUBSET Tabs /\ IsFiniteSet(Tabs)
  BY SyncAssumption DEF Inv, TypeOK
<1>2. ASSUME NEW o \in SUBSET Tabs, opened \subseteq o, Cardinality(o) <= 2 PROVE Cardinality(opened) <= 2
  <2>1. IsFiniteSet(o) /\ IsFiniteSet(opened)
    BY <1>1, FS_Subset
  <2>2. /\ Cardinality(opened) <= Cardinality(o)
        /\ Cardinality(o) \in Nat /\ Cardinality(opened) \in Nat
    BY <1>2, <2>1, FS_Subset, FS_CardinalityType
  <2> QED BY <1>2, <2>2
<1> QED BY <1>1, <1>2 DEF Few, Orderly

\* At rest all tabs have one version's value.
LEMMA RestAgrees ==
  ASSUME Inv, ConvergenceInv, Orderly, InStep, ~Asking
  PROVE  /\ \A x, y \in Tabs : Sent(wire, x, y) = {}
         /\ \E k \in Nat, v \in Stamps :
              \A t \in Tabs : open[t] => syncVersions[t].clock = k /\ value[t] = v
<1>1. TypeOK
  BY DEF Inv
<1>2. ASSUME NEW t \in Tabs, NEW u \in Tabs, open[t], open[u]
      PROVE  value[t] = value[u] /\ syncVersions[t].clock = syncVersions[u].clock
  <2>1. value[t] = value[u]
    BY <1>2, PairsAtRest, PhasesAtRest DEF ConvergenceInv
  <2> QED BY <1>2, <2>1, ZeroIsInitial
<1>3. \E k \in Nat, v \in Stamps :
        \A t \in Tabs : open[t] => syncVersions[t].clock = k /\ value[t] = v
  <2>1. ASSUME NEW u \in Tabs, open[u]
        PROVE  \E k \in Nat, v \in Stamps :
                 \A t \in Tabs : open[t] => syncVersions[t].clock = k /\ value[t] = v
    <3>1. syncVersions[u].clock \in Nat /\ value[u] \in Stamps
      BY <1>1, VersionTypes DEF TypeOK
    <3> QED BY <1>2, <2>1, <3>1
  <2>2. CASE \A u \in Tabs : ~open[u]
    <3>1. 0 \in Nat /\ 0 \in Stamps
      BY SyncAssumption DEF Stamps
    <3> QED BY <2>2, <3>1
  <2> QED BY <2>1, <2>2
<1> QED BY <1>3, QuietIs DEF InStep

LEMMA CreateStoreConverges ==
  ASSUME Inv, Inv', Orderly, ConvergenceInv, NEW t \in Tabs, CreateStore(t)
  PROVE  ConvergenceInv'
<1>1. TypeOK /\ TypeOK' /\ wire \in Wires /\ ClosedIsEmpty(wire, open)
  BY InvIs DEF Inv
<1>2. /\ t \notin opened /\ ~open[t] /\ opened' = opened \cup {t} /\ UNCHANGED <<wire, lost, unsent>>
      /\ open'[t] /\ \A x \in Tabs : x # t => open'[x] = open[x] /\ setup'[x] = setup[x] /\ value'[x] = value[x]
      /\ setup'[t] /\ value'[t] = 0
  BY <1>1 DEF CreateStore, Orderly, TypeOK
<1>3. /\ syncVersions'[t].clock = 0 /\ syncVersions'[t].source = t
      /\ \A x \in Tabs : x # t => syncVersions'[x] = syncVersions[x]
  <2>1. PICK v : v = [clock |-> syncClocks[t], source |-> t]
    OBVIOUS
  <2>2. syncVersions' = [syncVersions EXCEPT ![t] = v] /\ v.clock = syncClocks[t] /\ v.source = t
    BY <2>1 DEF CreateStore
  <2> QED BY <1>1, <1>2, <2>2, ZeroIsInitial DEF TypeOK
\* Nobody has a version of this tab, or has sent it anything.
<1>4. /\ \A x \in Tabs : open[x] => syncVersions[x].source # t
      /\ \A y \in Tabs : Sent(wire, t, y) = {}
      /\ \A x \in Tabs : Sent(wire, x, t) = {}
  <2>1. ASSUME NEW x \in Tabs PROVE Sent(wire, x, t) = {}
    <3>1. <<x, t>> \in Tabs \X Tabs /\ <<x, t>>[2] = t
      OBVIOUS
    <3>2. wire[<<x, t>>] = <<>>
      BY <1>1, <1>2, <3>1 DEF ClosedIsEmpty
    <3> QED BY <3>2 DEF Sent
  <2> QED BY <1>2, <2>1 DEF ConvergenceInv, Members
<1>5. Members'
  BY <1>2, <1>3 DEF ConvergenceInv, Members
<1>6. SourceBound'
  <2>1. ASSUME NEW x \in Tabs, NEW s \in Tabs, open'[x], open'[s], syncVersions'[x].source = s
        PROVE  syncVersions'[x].clock <= syncVersions'[s].clock
    <3>1. CASE x = t
      BY <1>3, <2>1, <3>1
    <3>2. CASE x # t
      BY <1>2, <1>3, <1>4, <2>1, <3>2 DEF ConvergenceInv, SourceBound
    <3> QED BY <3>1, <3>2
  <2>2. ASSUME NEW x \in Tabs, NEW y \in Tabs, NEW m \in States(wire', x, y)
        PROVE  m.source = x /\ (open'[x] => m.clock <= syncVersions'[x].clock)
    BY <1>2, <1>3, <1>4 DEF ConvergenceInv, SourceBound, States
  <2> QED BY <2>1, <2>2 DEF SourceBound
<1>7. ASSUME Few' PROVE Pairs'
  <2>1. Few
    <3>1. opened \subseteq opened' /\ opened' \in SUBSET Tabs
      BY <1>1, <1>2 DEF TypeOK
    <3>2. Cardinality(opened') <= 2
      BY <1>7 DEF Few, Orderly
    <3> QED BY <3>1, <3>2, FewTabs
  <2>2. Pairs
    BY <2>1 DEF ConvergenceInv
  <2> SUFFICES ASSUME NEW x \in Tabs, NEW y \in Tabs, open'[x], open'[y], x # y
               PROVE  OwnHeld(x, y)' /\ OwnSent(x, y)' /\ OwnCovered(x, y)'
    BY DEF Pairs
  <2>3. CASE x = t
    BY <1>2, <1>3, <1>4, <2>3 DEF OwnHeld, OwnSent, OwnCovered, States
  <2>4. CASE y = t
    BY <1>2, <1>3, <1>4, <2>4 DEF OwnHeld, OwnSent, OwnCovered, States, Asks
  <2>5. CASE x # t /\ y # t
    <3>1. OwnHeld(x, y) /\ OwnSent(x, y) /\ OwnCovered(x, y)
      BY <1>2, <2>2, <2>5 DEF Pairs
    <3>2. /\ syncVersions'[x] = syncVersions[x] /\ syncVersions'[y] = syncVersions[y]
          /\ value'[x] = value[x] /\ value'[y] = value[y] /\ setup'[y] = setup[y]
          /\ wire' = wire /\ lost' = lost /\ unsent' = unsent
      BY <1>2, <1>3, <2>5
    <3> QED BY <3>1, <3>2 DEF OwnHeld, OwnSent, OwnCovered, Told, Asks
  <2> QED BY <2>3, <2>4, <2>5
<1>8. ASSUME ~Few' PROVE Phases'
  <2>1. InStep /\ ~Asking
    BY <1>2, <1>8 DEF CreateStore, MayOpen, Few
  <2>2. PICK k \in Nat, v \in Stamps :
          \A x \in Tabs : open[x] => syncVersions[x].clock = k /\ value[x] = v
    BY <2>1, RestAgrees
  <2>3. \A x, y \in Tabs : States(wire', x, y) = {}
    BY <1>2, <2>1, RestAgrees DEF States
  <2>4. \A x \in Tabs : open'[x] /\ x # t => syncVersions'[x].clock = k /\ value'[x] = v
    BY <1>2, <1>3, <2>2
  <2>5. \A x \in Tabs : Asks(t, x)'
    BY <1>2 DEF Asks
  <2>6. AskFacts(k, v)'
    BY <1>3, <2>3, <2>4, <2>5 DEF AskFacts
  <2>7. (\E k1 \in Nat, v1 \in Stamps : AskFacts(k1, v1))'
    BY <2>6
  <2>8. Asking'
    BY <1>2, AskingNext
  <2> QED BY <2>7, <2>8, NextStates DEF Phases
<1> QED BY <1>5, <1>6, <1>7, <1>8 DEF ConvergenceInv

LEMMA DeleteStoreConverges ==
  ASSUME Inv, Inv', ConvergenceInv, NEW t \in Tabs, DeleteStore(t)
  PROVE  ConvergenceInv'
<1>1. TypeOK /\ wire \in Wires
  BY InvIs DEF Inv
<1>2. /\ opened' = opened /\ lost' = lost /\ value' = value /\ ~open'[t] /\ ~setup'[t]
      /\ \A x \in Tabs : x # t => /\ open'[x] = open[x] /\ setup'[x] = setup[x]
                                  /\ syncVersions'[x] = syncVersions[x] /\ unsent'[x] = unsent[x]
  <2>1. PICK v : v = [clock |-> 0, source |-> t]
    OBVIOUS
  <2>2. syncVersions' = [syncVersions EXCEPT ![t] = v]
    BY <2>1 DEF DeleteStore
  <2> QED BY <1>1, <2>2 DEF DeleteStore, TypeOK
<1>3. \A x, y \in Tabs : Sent(wire', x, y) = IF y = t THEN {} ELSE Sent(wire, x, y)
  <2> SUFFICES ASSUME NEW x \in Tabs, NEW y \in Tabs
               PROVE  Sent(wire', x, y) = IF y = t THEN {} ELSE Sent(wire, x, y)
    OBVIOUS
  <2>1. <<x, y>> \in Tabs \X Tabs /\ <<x, y>>[2] = y
    OBVIOUS
  <2>2. wire'[<<x, y>>] = IF y = t THEN <<>> ELSE wire[<<x, y>>]
    BY <2>1 DEF DeleteStore
  <2> QED BY <2>2 DEF Sent
<1>4. \A x, y \in Tabs : /\ Sent(wire', x, y) \subseteq Sent(wire, x, y)
                         /\ States(wire', x, y) \subseteq States(wire, x, y)
                         /\ y # t => States(wire', x, y) = States(wire, x, y)
  BY <1>3 DEF States
<1>5. Asking' => Asking
  <2>1. \A x \in Tabs : setup'[x] => setup[x]
    BY <1>2
  <2> QED BY <1>4, <2>1, AskingIs, AskingNext
<1>6. Members'
  <2>1. \A x \in Tabs : open'[x] => open[x] /\ syncVersions'[x] = syncVersions[x] /\ x # t
    BY <1>2
  <2>2. \A x \in Tabs : setup'[x] => setup[x] /\ x # t
    BY <1>2
  <2> QED BY <1>2, <1>4, <2>1, <2>2 DEF ConvergenceInv, Members
<1>7. SourceBound'
  <2>1. \A x \in Tabs : open'[x] => open[x] /\ syncVersions'[x] = syncVersions[x]
    BY <1>2
  <2> QED BY <1>4, <2>1 DEF ConvergenceInv, SourceBound
<1>8. ASSUME Pairs PROVE Pairs'
  <2> SUFFICES ASSUME NEW x \in Tabs, NEW y \in Tabs, open'[x], open'[y], x # y
               PROVE  OwnHeld(x, y)' /\ OwnSent(x, y)' /\ OwnCovered(x, y)'
    BY DEF Pairs
  <2>1. x # t /\ y # t
    BY <1>2
  <2>2. OwnHeld(x, y) /\ OwnSent(x, y) /\ OwnCovered(x, y)
    BY <1>2, <1>8, <2>1 DEF Pairs
  <2>3. /\ syncVersions'[x] = syncVersions[x] /\ syncVersions'[y] = syncVersions[y]
        /\ value' = value /\ setup'[y] = setup[y] /\ lost' = lost /\ unsent'[x] = unsent[x]
        /\ States(wire', x, y) = States(wire, x, y) /\ Sent(wire', y, x) = Sent(wire, y, x)
    BY <1>2, <1>3, <1>4, <2>1
  <2> QED BY <2>2, <2>3 DEF OwnHeld, OwnSent, OwnCovered, Told, Asks, Requested
<1>9. ASSUME Phases PROVE Phases'
  <2>1. \A x \in Tabs : open'[x] => open[x] /\ x # t /\ syncVersions'[x] = syncVersions[x] /\ unsent'[x] = unsent[x]
    BY <1>2
  <2>2. Uniform'
    BY <1>2, <1>4, <1>9, <2>1 DEF Phases, Uniform
  <2>3. ASSUME NEW k \in Nat, NEW v \in Stamps, AskFacts(k, v)
        PROVE  AskFacts(k, v)'
    <3>1. \A x, y \in Tabs : open'[x] /\ open'[y] => (Asks(y, x)' <=> Asks(y, x)) /\ (Told(x, y)' <=> Told(x, y))
      <4> SUFFICES ASSUME NEW x \in Tabs, NEW y \in Tabs, open'[x], open'[y]
                   PROVE  (Asks(y, x)' <=> Asks(y, x)) /\ (Told(x, y)' <=> Told(x, y))
        OBVIOUS
      <4>1. /\ Sent(wire', y, x) = Sent(wire, y, x) /\ States(wire', x, y) = States(wire, x, y)
            /\ setup'[y] = setup[y] /\ syncVersions'[x] = syncVersions[x]
        BY <1>2, <1>3, <1>4, <2>1
      <4> QED BY <4>1 DEF Asks, Requested, Told
    <3> QED BY <1>2, <1>4, <2>1, <2>3, <3>1 DEF AskFacts
  <2>4. ASSUME NEW k \in Nat, NEW v \in Stamps, WriteFacts(k, v)
        PROVE  WriteFacts(k, v)'
    <3>1. ASSUME NEW q, NEW u \in Tabs, open'[u], Reaches(q, u)
          PROVE  ~IsNewer(q, syncVersions'[u]) \/ \E x \in Tabs : \E n \in States(wire', x, u) : ~IsNewer(q, n)
      BY <1>4, <2>1, <3>1 DEF Reaches
    <3>2. ASSUME NEW x \in Tabs, NEW u \in Tabs, open'[x], open'[u], ~unsent'[x], syncVersions'[x].clock > k
          PROVE  Reaches(syncVersions[x], u)'
      <4>1. Reaches(syncVersions[x], u)
        BY <2>1, <2>4, <3>2 DEF WriteFacts
      <4>2. syncVersions'[x] = syncVersions[x]
        BY <2>1, <3>2
      <4> QED BY <3>1, <3>2, <4>1, <4>2 DEF Reaches
    <3>3. ASSUME NEW x \in Tabs, NEW y \in Tabs, NEW u \in Tabs, NEW m \in States(wire', x, y), open'[u]
          PROVE  Reaches(m, u)'
      <4>1. Reaches(m, u)
        BY <1>4, <2>1, <2>4, <3>3 DEF WriteFacts
      <4> QED BY <3>1, <3>3, <4>1 DEF Reaches
    <3> QED BY <1>2, <1>4, <2>1, <2>4, <3>2, <3>3 DEF WriteFacts
  <2>5. ASSUME Asking' PROVE (\E k \in Nat, v \in Stamps : AskFacts(k, v))'
    <3>1. PICK k \in Nat, v \in Stamps : AskFacts(k, v)
      BY <1>5, <1>9, <2>5 DEF Phases
    <3>2. AskFacts(k, v)'
      BY <2>3, <3>1
    <3> QED BY <3>2
  <2>6. ASSUME ~Asking', ~lost' PROVE (\E k \in Nat, v \in Stamps : WriteFacts(k, v))'
    <3>1. CASE Asking
      <4>1. PICK k \in Nat, v \in Stamps : AskFacts(k, v)
        BY <1>9, <3>1 DEF Phases
      <4>2. AskFacts(k, v)'
        BY <2>3, <4>1
      <4>3. (\E k1 \in Nat, v1 \in Stamps : AskFacts(k1, v1))'
        BY <4>2
      <4> QED BY <2>6, <4>3, NextStates
    <3>2. CASE ~Asking
      <4>1. PICK k \in Nat, v \in Stamps : WriteFacts(k, v)
        BY <1>2, <1>9, <2>6, <3>2 DEF Phases
      <4>2. WriteFacts(k, v)'
        BY <2>4, <4>1
      <4> QED BY <4>2
    <3> QED BY <3>1, <3>2
  <2> QED BY <2>2, <2>5, <2>6 DEF Phases
<1>10. Few' <=> Few
  BY <1>2 DEF Few
<1> QED BY <1>6, <1>7, <1>8, <1>9, <1>10 DEF ConvergenceInv

\* On focus, or online, when there are more tabs: all of them have one value.
LEMMA FocusRequestConverges ==
  ASSUME Inv, Inv', Orderly, ConvergenceInv, ~Few, NEW t \in Tabs, FocusRequest(t)
  PROVE  Phases'
<1>1. TypeOK /\ wire \in Wires
  BY InvIs DEF Inv
<1>2. /\ InStep /\ ~Asking /\ wire' = Post(wire, t, [type |-> "sync-request"])
      /\ UNCHANGED <<open, value, syncVersions, lost>>
  BY DEF FocusRequest, MayAsk, tabVars, stateVars
<1>3. PICK k \in Nat, v \in Stamps :
        \A x \in Tabs : open[x] => syncVersions[x].clock = k /\ value[x] = v
  BY <1>2, RestAgrees
<1>4. \A x, y \in Tabs : States(wire', x, y) = {}
  <2>1. PICK m : m = [type |-> "sync-request"]
    OBVIOUS
  <2>2. m.type = "sync-request" /\ wire' = Post(wire, t, m)
    BY <1>2, <2>1
  <2>3. \A x, y \in Tabs : Sent(wire', x, y) \subseteq {m}
    BY <1>1, <1>2, <2>2, PostSends, RestAgrees
  <2> QED BY <2>2, <2>3 DEF States
<1>5. AskFacts(k, v)'
  BY <1>2, <1>3, <1>4 DEF AskFacts
<1>6. (\E k1 \in Nat, v1 \in Stamps : AskFacts(k1, v1))'
  BY <1>5
<1> QED BY <1>6, NextStates DEF Phases

\* A step after which nobody asks who did not ask before, or of one of two tabs.
LEMMA MovesConverge ==
  ASSUME Inv, Inv', Orderly, ConvergenceInv, Moves, ~Few => Calm /\ (Asking' => Asking)
  PROVE  ConvergenceInv'
<1>1. Members /\ SourceBound
  BY DEF ConvergenceInv
<1>2. Members' /\ SourceBound'
  BY <1>1, BasicsKept
<1>3. Few' <=> Few
  BY DEF Moves, Few
<1>4. Few => Pairs'
  BY <1>1, PairsKept DEF ConvergenceInv
<1>5. ~Few => Phases'
  BY <1>1, PhasesKept DEF ConvergenceInv
<1> QED BY <1>2, <1>3, <1>4, <1>5 DEF ConvergenceInv

LEMMA NextConverges ==
  ASSUME Inv, Inv', Orderly, ConvergenceInv, [Next]_vars
  PROVE  ConvergenceInv'
<1>1. Members /\ SourceBound /\ TypeOK
  BY DEF ConvergenceInv, Inv
<1>2. ASSUME NEW t \in Tabs, CreateStore(t) \/ DeleteStore(t) PROVE ConvergenceInv'
  BY <1>2, CreateStoreConverges, DeleteStoreConverges
<1>3. ASSUME NEW t \in Tabs, SetupRequest(t) PROVE ConvergenceInv'
  <2>1. Asking
    BY <1>3 DEF SetupRequest, Asking
  <2> QED BY <1>1, <1>3, <2>1, RequestMoves, MovesConverge
<1>4. ASSUME NEW t \in Tabs, FocusRequest(t) PROVE ConvergenceInv'
  <2>1. Moves
    BY <1>1, <1>4, RequestMoves
  <2>2. CASE Few
    BY <2>1, <2>2, MovesConverge
  <2>3. CASE ~Few
    <3>1. Phases' /\ ~Few'
      BY <1>4, <2>1, <2>3, FocusRequestConverges DEF Moves, Few
    <3> QED BY <1>1, <2>1, <3>1, BasicsKept DEF ConvergenceInv
  <2> QED BY <2>2, <2>3
<1>5. ASSUME NEW t \in Tabs, Write(t) PROVE ConvergenceInv'
  BY <1>5, WriteMoves, WritingAsksNothing, MovesConverge
<1>6. ASSUME NEW u \in Tabs, NEW t \in Tabs, AnswerRequest(u, t) PROVE ConvergenceInv'
  <2>1. Asking
    <3>1. wire[<<u, t>>] # <<>> /\ Head(wire[<<u, t>>]).type = "sync-request"
      BY <1>6 DEF AnswerRequest, Arrives
    <3>2. Head(wire[<<u, t>>]) \in Sent(wire, u, t)
      BY <1>1, <3>1, DeliverTakes
    <3> QED BY <3>1, <3>2, AskingIs
  <2> QED BY <1>6, <2>1, AnswerRequestMoves, MovesConverge
<1>7. ASSUME NEW u \in Tabs, NEW t \in Tabs, Accept(u, t) PROVE ConvergenceInv'
  <2>1. wire[<<u, t>>] # <<>> /\ wire' = Deliver(u, t) /\ UNCHANGED setup
    BY <1>7 DEF Accept, Arrives, tabVars
  <2>2. Asking' => Asking
    BY <2>1, TakingAsksNothing
  <2> QED BY <1>1, <1>7, <2>2, AcceptMoves, MovesConverge
<1>8. ASSUME NEW u \in Tabs, NEW t \in Tabs, Ignore(u, t) \/ Reject(u, t) PROVE ConvergenceInv'
  <2>1. wire[<<u, t>>] # <<>> /\ wire' = Deliver(u, t) /\ UNCHANGED setup
    BY <1>8 DEF Ignore, Reject, Arrives, tabVars
  <2>2. Asking' => Asking
    BY <2>1, TakingAsksNothing
  <2> QED BY <1>8, <2>2, DropMoves, MovesConverge
<1>9. ASSUME NEW u \in Tabs, NEW t \in Tabs, Resolve(u, t) PROVE ConvergenceInv'
  <2>1. Few
    BY <1>9, FewTabs DEF Resolve
  <2> QED BY <1>9, <2>1, ResolveMoves, MovesConverge
<1>10. ASSUME UNCHANGED vars PROVE ConvergenceInv'
  <2>1. UNCHANGED <<open, opened, setup, value, syncVersions, unsent, wire, lost>>
    BY <1>10 DEF vars, tabVars, stateVars
  <2>2. Moves /\ Calm
    BY <1>1, <2>1, KeptOrWrote DEF Moves, Calm, Kept, Asks, Requested, States
  <2>3. Asking' => Asking
    BY <2>1 DEF Asking
  <2> QED BY <2>2, <2>3, MovesConverge
<1> QED BY <1>2, <1>3, <1>4, <1>5, <1>6, <1>7, <1>8, <1>9, <1>10 DEF Next

LEMMA InitConverges == Init /\ Orderly => ConvergenceInv
<1> SUFFICES ASSUME Init, Orderly PROVE ConvergenceInv
  OBVIOUS
<1>1. \A t \in Tabs : ~open[t] /\ ~setup[t]
  BY DEF Init
<1>2. \A x, y \in Tabs : Sent(wire, x, y) = {}
  <2>1. Quiet
    BY DEF Init, Quiet
  <2> QED BY <2>1, QuietIs
<1>3. Few
  <2>1. Cardinality(opened) = 0
    BY FS_EmptySet DEF Init
  <2> QED BY <2>1 DEF Few
<1>4. Pairs
  BY <1>1 DEF Pairs
<1> QED BY <1>1, <1>2, <1>3, <1>4 DEF ConvergenceInv, Members, SourceBound, States

LEMMA SpecConverges ==
  ASSUME Orderly
  PROVE  Spec => [](Inv /\ ConvergenceInv)
<1>1. Init => Inv /\ ConvergenceInv
  BY InitInv, InitConverges
<1>2. Inv /\ ConvergenceInv /\ [Next]_vars => (Inv /\ ConvergenceInv)'
  BY NextInv, NextConverges
<1> QED BY <1>1, <1>2, PTL DEF Spec

\* Once every message has arrived, if none was dropped and no tab keeps a write the loop
\* guard suppressed, all tabs show the same value, and at any time a version stands for one
\* value: for any number of tabs, writes and requests, with or without drops, and for two
\* tabs with a resolver too (broadcastSync, handleIncomingSyncMessage, requestSyncSnapshot).
THEOREM TabsConverge ==
  ASSUME Orderly
  PROVE  Spec => []Converged
<1>1. ASSUME Inv, ConvergenceInv PROVE Converged
  <2>1. VersionIdentifiesValue
    <3>1. CASE Few
      BY <1>1, <3>1, PairsAgree DEF ConvergenceInv
    <3>2. CASE ~Few
      BY <1>1, <3>2 DEF ConvergenceInv, Phases, Uniform, SameVersion, VersionIdentifiesValue
    <3> QED BY <3>1, <3>2
  <2>2. ASSUME InStep, ~Asking, NEW t \in Tabs, NEW u \in Tabs, open[t], open[u]
        PROVE  value[t] = value[u]
    <3>1. PICK k \in Nat, v \in Stamps :
            \A x \in Tabs : open[x] => syncVersions[x].clock = k /\ value[x] = v
      BY <1>1, <2>2, RestAgrees
    <3> QED BY <2>2, <3>1
  <2> QED BY <2>1, <2>2 DEF Converged
<1>2. Inv /\ ConvergenceInv => Converged
  BY <1>1
<1> QED BY <1>2, SpecConverges, PTL
=============================================================================
