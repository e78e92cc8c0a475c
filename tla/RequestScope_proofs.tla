------------------------ MODULE RequestScope_proofs ------------------------
(***************************************************************************)
(* Proofs about RequestScope: its types, that capture() is current, and    *)
(* that no notification of a request outlives it.  All of it is about      *)
(* requests whose hydrates do not overlap, in whose last microtasks no     *)
(* callback runs, whose synchronous hydrates find no chunked flush and whose *)
(* bound callbacks settle before the rendering does.                       *)
(*                                                                         *)
(* Then proofs about AsyncSlots, the tables that a request's registry has for *)
(* its asynchronous calls: their types and limits, that the index of slots is *)
(* complete, and that deletion is exact.                                   *)
(***************************************************************************)
EXTENDS RequestScope, AsyncSlots, SequenceTheorems, FiniteSetTheorems, WellFoundedInduction,
        TLAPS

OnePerTurn == ~Overlap /\ ~LateCalls /\ ~SyncInFlush /\ ~BoundOutlives

-----------------------------------------------------------------------------
(***************************************************************************)
(* The inductive invariant.                                                *)
(***************************************************************************)

Busy(h) == phase[h] \notin {"new", "done"}

\* The carrier kept is that of the hydrate which is not over: there is only one.
KeptWhileBusy == \A h \in Hydrates : Busy(h) => memo = h

\* None found another's carrier, and a bound callback puts its own back.
NothingToRestore ==
  /\ \A h \in Hydrates : previous[h] = 0
  /\ \A h \in bound : memo = h /\ phase[h] = "render"

\* A carrier is cleared only after the buffer was filled from it.
ClearedLate == \A h \in cleaning : phase[h] \in {"synced", "left", "done"}

\* A synchronous rendering and its drain have no chunked flush beside them.
NoFlushBeside ==
  /\ \A h \in synchronous : phase[h] # "new"
  /\ OnStack # {} => chunks = {}

\* Where the request's values are: on the carrier until the buffer is filled from it.
OnCarrier == memo # 0 /\ phase[memo] \in {"render", "settling", "idle"}
Shown(n) == IF OnCarrier THEN Capture(memo)[n] ELSE buffer[n]

\* They are what the request made of the stores, and of a store that exists it made something.
ShownIsOwed ==
  /\ \A n \in Names \ loose : Shown(n) = owed[n]
  /\ \A n \in metaEntries \ loose : owed[n] # 0

\* A hydrate that has found its notifications idle owes none any more.
NothingDue == memo = 0 \/ phase[memo] \in {"idle", "synced", "left"} => due = {}

Inv ==
  /\ TypeOK
  /\ stamp > 0
  /\ KeptWhileBusy
  /\ NothingToRestore
  /\ ClearedLate
  /\ NoFlushBeside
  /\ ShownIsOwed
  /\ NothingDue

-----------------------------------------------------------------------------
(***************************************************************************)
(* What one operation does to the values.                                  *)
(***************************************************************************)

\* Store n was written or deleted; the other stores are as they were.
Touches(n) ==
  /\ stamp' \in Stamps /\ stamp' > 0
  /\ stores' \in Snapshot /\ carrier' \in [Hydrates -> Snapshot] /\ metaEntries' \subseteq Names
  /\ \A m \in Names \ {n} : /\ m \in metaEntries' <=> m \in metaEntries
                            /\ stores'[m] = stores[m]
                            /\ \A h \in Hydrates : carrier'[h][m] = carrier[h][m]
  /\ n \in metaEntries' /\ memo # 0 => carrier'[memo][n] = stamp'

LEMMA Setting ==
  ASSUME TypeOK, NEW n \in Names, NEW v \in Stamps, SetValue(n, v)
  PROVE  /\ stores' \in Snapshot /\ carrier' \in [Hydrates -> Snapshot]
         /\ \A m \in Names \ {n} : /\ stores'[m] = stores[m]
                                   /\ \A h \in Hydrates : carrier'[h][m] = carrier[h][m]
         /\ memo # 0 => carrier'[memo][n] = v
<1>1. stores \in [Names -> Stamps] /\ carrier \in [Hydrates -> [Names -> Stamps]]
  BY DEF TypeOK, Snapshot
<1>2. CASE memo # 0
  <2>1. memo \in Hydrates
    BY <1>2 DEF TypeOK
  <2>2. carrier' = [carrier EXCEPT ![memo] = [carrier[memo] EXCEPT ![n] = v]] /\ stores' = stores
    BY <1>2 DEF SetValue
  <2>3. PICK c : c = [carrier[memo] EXCEPT ![n] = v]
    OBVIOUS
  <2>4. c \in [Names -> Stamps] /\ c[n] = v /\ \A m \in Names \ {n} : c[m] = carrier[memo][m]
    BY <1>1, <2>1, <2>3
  <2>5. carrier' = [carrier EXCEPT ![memo] = c]
    BY <2>2, <2>3
  <2> QED BY <1>1, <1>2, <2>1, <2>2, <2>4, <2>5 DEF Snapshot
<1>3. CASE memo = 0
  BY <1>1, <1>3 DEF SetValue, Snapshot
<1> QED BY <1>2, <1>3

LEMMA NewStampIs ==
  ASSUME TypeOK, stamp > 0, NewStamp
  PROVE  stamp' \in Stamps /\ stamp' > 0
  BY RequestAssumption DEF TypeOK, NewStamp, Stamps

LEMMA OperationIs ==
  ASSUME TypeOK, stamp > 0, NEW n \in Names, Operation(n)
  PROVE  /\ Touches(n)
         /\ pending' \subseteq metaEntries' /\ chunks' \subseteq metaEntries' /\ chunks' \subseteq chunks
         /\ pending \ {n} \subseteq pending' /\ chunks \ {n} \subseteq chunks'
<1>1. /\ stores \in [Names -> Stamps] /\ carrier \in [Hydrates -> [Names -> Stamps]]
      /\ metaEntries \subseteq Names /\ pending \subseteq metaEntries /\ chunks \subseteq metaEntries
      /\ stamp \in Stamps /\ memo \in Hydrates \cup {0}
  BY DEF TypeOK, Snapshot
<1>2. CASE WriteStore(n)
  <2>1. stamp' \in Stamps /\ stamp' > 0
    BY <1>2, NewStampIs DEF WriteStore
  <2> QED BY <1>1, <1>2, <2>1, Setting DEF WriteStore, Touches
<1>3. CASE CreateStore(n)
  <2>1. stamp' \in Stamps /\ stamp' > 0
    BY <1>3, NewStampIs DEF CreateStore
  <2> QED BY <1>1, <1>3, <2>1, Setting DEF CreateStore, Touches
<1>4. CASE DeleteStore(n)
  <2>1. 0 \in Stamps /\ stamp' = stamp
    BY <1>4, RequestAssumption DEF DeleteStore, Stamps
  <2>2. stores' \in [Names -> Stamps] /\ \A m \in Names \ {n} : stores'[m] = stores[m]
    BY <1>1, <1>4, <2>1 DEF DeleteStore
  <2>3. carrier' \in [Hydrates -> [Names -> Stamps]]
        /\ \A m \in Names \ {n}, h \in Hydrates : carrier'[h][m] = carrier[h][m]
    <3>1. CASE memo # 0
      <4>1. PICK c : c = [carrier[memo] EXCEPT ![n] = 0]
        OBVIOUS
      <4>2. c \in [Names -> Stamps] /\ \A m \in Names \ {n} : c[m] = carrier[memo][m]
        BY <1>1, <2>1, <3>1, <4>1
      <4>3. carrier' = [carrier EXCEPT ![memo] = c]
        BY <1>4, <3>1, <4>1 DEF DeleteStore
      <4> QED BY <1>1, <3>1, <4>2, <4>3
    <3>2. CASE memo = 0
      BY <1>1, <1>4, <3>2 DEF DeleteStore
    <3> QED BY <3>1, <3>2
  <2> QED BY <1>1, <1>4, <2>1, <2>2, <2>3 DEF DeleteStore, Touches, Snapshot
<1> QED BY <1>2, <1>3, <1>4 DEF Operation

\* While a request runs, or none does, an operation that is owed shows, and one that
\* is not is loose.
LEMMA TouchKeepsShown ==
  ASSUME TypeOK, stamp > 0, ShownIsOwed, NEW n \in Names, Touches(n), UNCHANGED <<buffer, phase, memo>>,
         \/ /\ memo # 0 /\ phase[memo] \in {"render", "settling"}
            /\ owed' = [owed EXCEPT ![n] = IF n \in metaEntries' THEN stamp' ELSE 0]
            /\ loose' = loose \ {n}
         \/ owed' = owed /\ loose' = loose \cup {n}
  PROVE  ShownIsOwed' /\ owed' \in Snapshot /\ loose' \subseteq Names
<1>1. /\ owed \in [Names -> Stamps] /\ loose \subseteq Names /\ memo \in Hydrates \cup {0}
      /\ OnCarrier' = OnCarrier /\ buffer' = buffer /\ memo' = memo
  BY DEF TypeOK, Snapshot, OnCarrier
<1>2. /\ stamp' \in Nat /\ stamp' # 0 /\ stamp' \in Stamps /\ 0 \in Stamps
      /\ metaEntries \subseteq Names /\ metaEntries' \subseteq Names
      /\ \A m \in Names \ {n} : m \in metaEntries' <=> m \in metaEntries
  BY RequestAssumption DEF Touches, Stamps, TypeOK
<1>3. ASSUME NEW m \in Names \ {n} PROVE Shown(m)' = Shown(m)
  <2>1. CASE OnCarrier
    <3>1. memo \in Hydrates /\ OnCarrier'
      BY <1>1, <2>1 DEF OnCarrier
    <3>2. /\ m \in metaEntries' <=> m \in metaEntries
          /\ stores'[m] = stores[m] /\ carrier'[memo][m] = carrier[memo][m]
      BY <3>1 DEF Touches
    <3>3. Capture(memo)'[m] = Capture(memo)[m]
      BY <1>1, <3>2 DEF Capture
    <3> QED BY <2>1, <3>1, <3>3 DEF Shown
  <2>2. CASE ~OnCarrier
    BY <1>1, <2>2 DEF Shown
  <2> QED BY <2>1, <2>2
<1>4. CASE /\ memo # 0 /\ phase[memo] \in {"render", "settling"}
           /\ owed' = [owed EXCEPT ![n] = IF n \in metaEntries' THEN stamp' ELSE 0]
           /\ loose' = loose \ {n}
  <2>1. OnCarrier /\ OnCarrier'
    BY <1>1, <1>4 DEF OnCarrier
  <2>2. PICK v : v = IF n \in metaEntries' THEN stamp' ELSE 0
    OBVIOUS
  <2>3. /\ v \in Stamps /\ (n \in metaEntries' => v # 0)
        /\ owed' \in [Names -> Stamps] /\ owed'[n] = v
        /\ \A m \in Names \ {n} : owed'[m] = owed[m]
    BY <1>1, <1>2, <1>4, <2>2
  <2>4. Shown(n)' = v
    <3>1. Capture(memo)'[n] = IF n \notin metaEntries' THEN 0
                              ELSE IF carrier'[memo][n] # 0 THEN carrier'[memo][n] ELSE stores'[n]
      BY <1>1 DEF Capture
    <3>2. n \in metaEntries' => carrier'[memo][n] = stamp'
      BY <1>4 DEF Touches
    <3> QED BY <1>2, <2>1, <2>2, <3>1, <3>2 DEF Shown
  <2>5. \A m \in Names \ loose' : Shown(m)' = owed'[m]
    BY <1>3, <1>4, <2>3, <2>4 DEF ShownIsOwed
  <2>6. \A m \in metaEntries' \ loose' : owed'[m] # 0
    BY <1>2, <1>4, <2>3 DEF ShownIsOwed
  <2> QED BY <1>1, <1>4, <2>3, <2>5, <2>6 DEF ShownIsOwed, Snapshot
<1>5. CASE owed' = owed /\ loose' = loose \cup {n}
  <2>1. \A m \in Names \ loose' : Shown(m)' = owed'[m]
    BY <1>3, <1>5 DEF ShownIsOwed
  <2>2. \A m \in metaEntries' \ loose' : owed'[m] # 0
    BY <1>2, <1>5 DEF ShownIsOwed
  <2> QED BY <1>1, <1>5, <2>1, <2>2 DEF ShownIsOwed, Snapshot
<1> QED BY <1>4, <1>5

-----------------------------------------------------------------------------
(***************************************************************************)
(* Steps that operate on the stores.                                       *)
(***************************************************************************)

\* No step of an operation moves a hydrate on.
Stays == UNCHANGED <<buffer, phase, synchronous, memo, previous, cleaning>>

\* Which operations can run: the hydrate kept, if there is one, renders or settles.
AtWork == memo = 0 \/ (memo \in Hydrates /\ phase[memo] \in {"render", "settling"})

LEMMA NotEnding ==
  ASSUME Inv, ~Ending
  PROVE  AtWork
<1>1. CASE memo # 0
  <2>1. memo \in Hydrates /\ phase[memo] \notin {"new", "done"}
    BY <1>1 DEF Inv, TypeOK
  <2>2. phase[memo] \in {"new", "render", "settling", "idle", "synced", "left", "done"}
    BY <2>1 DEF Inv, TypeOK
  <2> QED BY <2>1, <2>2 DEF Ending, AtWork
<1> QED BY <1>1 DEF AtWork

\* What an operation leaves as it was, it keeps.
LEMMA OperationKeeps ==
  ASSUME Inv, Stays, AtWork, NEW n \in Names, Touches(n),
         pending' \subseteq metaEntries', chunks' \subseteq metaEntries', OnStack # {} => chunks' \subseteq chunks,
         \A h \in bound' : h \in bound \/ (h \in Hydrates /\ memo = h /\ phase[h] = "render"),
         due' \subseteq pending' \cup chunks',
         \/ /\ memo # 0
            /\ owed' = [owed EXCEPT ![n] = IF n \in metaEntries' THEN stamp' ELSE 0]
            /\ loose' = loose \ {n}
         \/ /\ owed' = owed /\ loose' = loose \cup {n}
            /\ due' \subseteq due
  PROVE  Inv'
<1>1. ShownIsOwed' /\ owed' \in Snapshot /\ loose' \subseteq Names
  BY TouchKeepsShown DEF Inv, Stays, AtWork
<1>2. TypeOK'
  BY <1>1 DEF Inv, Stays, TypeOK, Touches
<1>3. stamp' > 0
  BY DEF Touches
<1>4. KeptWhileBusy' /\ ClearedLate'
  BY DEF Inv, Stays, KeptWhileBusy, ClearedLate, Busy
<1>5. NothingToRestore'
  BY DEF Inv, Stays, NothingToRestore
<1>6. NoFlushBeside'
  BY DEF Inv, Stays, NoFlushBeside, OnStack
<1>7. NothingDue'
  BY DEF Inv, Stays, NothingDue, AtWork
<1> QED BY <1>1, <1>2, <1>3, <1>4, <1>5, <1>6, <1>7 DEF Inv

\* Owe: the request answers for the operation.
LEMMA OwedKeeps ==
  ASSUME Inv, Stays, AtWork, memo # 0, NEW n \in Names, Operation(n), Owe(n),
         \A h \in bound' : h \in bound \/ (h \in Hydrates /\ memo = h /\ phase[h] = "render")
  PROVE  Inv'
<1>1. TypeOK /\ stamp > 0
  BY DEF Inv
<1>2. /\ Touches(n)
      /\ pending' \subseteq metaEntries' /\ chunks' \subseteq metaEntries' /\ chunks' \subseteq chunks
      /\ pending \ {n} \subseteq pending' /\ chunks \ {n} \subseteq chunks'
  BY <1>1, OperationIs
<1>3. due' \subseteq pending' \cup chunks'
  BY <1>1, <1>2 DEF Owe, TypeOK
<1> QED BY <1>2, <1>3, OperationKeeps DEF Owe

\* Nobody does.
LEMMA UnowedKeeps ==
  ASSUME Inv, Stays, bound' = bound, AtWork, NEW n \in Names, Operation(n), OweNothing(n)
  PROVE  Inv'
<1>1. TypeOK /\ stamp > 0
  BY DEF Inv
<1>2. /\ Touches(n)
      /\ pending' \subseteq metaEntries' /\ chunks' \subseteq metaEntries' /\ chunks' \subseteq chunks
  BY <1>1, OperationIs
<1>3. due' \subseteq pending' \cup chunks' /\ due' \subseteq due
  BY DEF OweNothing
<1> QED BY <1>2, <1>3, OperationKeeps DEF OweNothing

LEMMA RenderKeeps ==
  ASSUME Inv, NEW h \in Hydrates, NEW n \in Names, Render(h, n)
  PROVE  Inv'
<1>1. memo = h /\ phase[h] = "render" /\ h # 0
  BY DEF Inv, KeptWhileBusy, Busy, Render, Hydrates
<1>2. AtWork /\ Stays /\ bound' = bound
  BY <1>1 DEF AtWork, Stays, Render, hydrateVars
<1> QED BY <1>1, <1>2, OwedKeeps DEF Render

LEMMA BoundCallbackKeeps ==
  ASSUME OnePerTurn, Inv, NEW n \in Names, BoundCallback(n)
  PROVE  Inv'
<1>1. AtWork /\ memo # 0 /\ Stays
  BY NotEnding DEF OnePerTurn, BoundCallback, Stays
<1>2. \A h \in bound' : h \in bound \/ (h \in Hydrates /\ memo = h /\ phase[h] = "render")
  BY <1>1 DEF OnePerTurn, BoundCallback, AtWork
<1> QED BY <1>1, <1>2, OwedKeeps DEF BoundCallback

LEMMA DetachedKeeps ==
  ASSUME OnePerTurn, Inv, NEW h \in Hydrates, NEW n \in Names, Detached(h, n)
  PROVE  Inv'
<1>1. AtWork /\ Stays /\ bound' = bound
  BY NotEnding DEF OnePerTurn, Detached, Stays, hydrateVars
<1> QED BY <1>1, UnowedKeeps DEF Detached

\* The subscribers of n, one of which may write.
LEMMA DeliverKeeps ==
  ASSUME Inv, Stays, bound' = bound, AtWork, NEW n \in Names,
         NEW p \in SUBSET pending, NEW c \in SUBSET chunks, Deliver(n, p, c),
         pending \cup chunks \subseteq p \cup c \cup {n}
  PROVE  Inv'
<1>1. TypeOK /\ stamp > 0 /\ pending \subseteq metaEntries /\ chunks \subseteq metaEntries
      /\ metaEntries \subseteq Names /\ due \subseteq pending \cup chunks
  BY DEF Inv, TypeOK
<1>2. CASE /\ pending' = p /\ chunks' = c
           /\ due' = due \ {n}
           /\ UNCHANGED <<valueVars, owed, loose>>
  <2>1. /\ UNCHANGED <<stamp, metaEntries, stores, carrier, owed, loose>>
        /\ Stays /\ bound' = bound
    BY <1>2 DEF valueVars
  <2>2. due' \subseteq pending' \cup chunks' /\ due' \subseteq due
    BY <1>1, <1>2
  <2>3. TypeOK'
    BY <1>1, <1>2, <2>1, <2>2 DEF Stays, TypeOK
  <2>4. ShownIsOwed'
    BY <2>1 DEF Stays, Inv, ShownIsOwed, Shown, OnCarrier, Capture
  <2>5. KeptWhileBusy' /\ ClearedLate' /\ NothingToRestore' /\ stamp' > 0
    BY <1>1, <2>1 DEF Inv, Stays, KeptWhileBusy, ClearedLate, Busy, NothingToRestore
  <2>6. NoFlushBeside'
    BY <1>2 DEF Inv, Stays, NoFlushBeside, OnStack
  <2>7. NothingDue'
    BY <2>2 DEF Inv, Stays, NothingDue
  <2> QED BY <2>3, <2>4, <2>5, <2>6, <2>7 DEF Inv
<1>3. ASSUME NEW m \in metaEntries,
             NewStamp, SetValue(m, stamp'),
             pending' = p \cup {m}, chunks' = c,
             IF memo # 0
             THEN /\ owed' = [owed EXCEPT ![m] = stamp']
                  /\ loose' = loose \ {m}
                  /\ due' = (due \ {n}) \cup {m}
             ELSE /\ loose' = loose \cup {m}
                  /\ due' = due \ {n}
                  /\ UNCHANGED owed,
             metaEntries' = metaEntries
      PROVE  Inv'
  <2>1. m \in Names /\ stamp' \in Stamps /\ stamp' > 0
    BY <1>1, <1>3, NewStampIs
  <2>2. Touches(m)
    BY <1>1, <1>3, <2>1, Setting DEF Touches
  <2>3. pending' \subseteq metaEntries' /\ chunks' \subseteq metaEntries' /\ chunks' \subseteq chunks
    BY <1>1, <1>3
  <2>4. due' \subseteq pending' \cup chunks' /\ (memo = 0 => due' \subseteq due)
    BY <1>1, <1>3
  <2>5. memo # 0 => /\ owed' = [owed EXCEPT ![m] = IF m \in metaEntries' THEN stamp' ELSE 0]
                    /\ loose' = loose \ {m}
    BY <1>3
  <2>6. memo = 0 => owed' = owed /\ loose' = loose \cup {m}
    BY <1>3
  <2> QED BY <2>1, <2>2, <2>3, <2>4, <2>5, <2>6, OperationKeeps
<1> QED BY <1>2, <1>3 DEF Deliver

LEMMA ChunkDeliverKeeps ==
  ASSUME OnePerTurn, Inv, NEW n \in Names, ChunkDeliver(n)
  PROVE  Inv'
<1>1. AtWork /\ Stays /\ bound' = bound
  BY NotEnding DEF OnePerTurn, ChunkDeliver, Stays, hydrateVars
<1> QED BY <1>1, DeliverKeeps DEF ChunkDeliver

LEMMA InlineDeliverKeeps ==
  ASSUME Inv, NEW n \in Names, InlineDeliver(n)
  PROVE  Inv'
<1>1. PICK h \in Hydrates : phase[h] = "settling"
  BY DEF InlineDeliver
<1>2. memo = h
  BY <1>1 DEF Inv, KeptWhileBusy, Busy
<1>3. AtWork /\ Stays /\ bound' = bound
  BY <1>1, <1>2 DEF AtWork, InlineDeliver, Stays, hydrateVars
<1>4. chunks = {} /\ Deliver(n, pending \ {n}, {})
  BY DEF InlineDeliver
<1> QED BY <1>3, <1>4, DeliverKeeps

-----------------------------------------------------------------------------
(***************************************************************************)
(* Steps of the hydrate.                                                   *)
(***************************************************************************)

LEMMA InitInv ==
  ASSUME Init
  PROVE  Inv
<1>1. 0 \in Stamps /\ 1 \in Stamps
  BY RequestAssumption DEF Stamps
<1>2. TypeOK
  BY <1>1 DEF Init, TypeOK, Snapshot, Nothing, Hydrates
<1>3. ShownIsOwed /\ NothingDue
  BY DEF Init, ShownIsOwed, Shown, OnCarrier, NothingDue
<1>4. KeptWhileBusy /\ NothingToRestore /\ ClearedLate /\ NoFlushBeside /\ stamp > 0
  BY DEF Init, KeptWhileBusy, Busy, NothingToRestore, ClearedLate, NoFlushBeside, OnStack
<1> QED BY <1>2, <1>3, <1>4 DEF Inv

\* A hydrate begins: the values of the buffer become those of the carrier.
LEMMA HydrateKeeps ==
  ASSUME OnePerTurn, Inv, NEW h \in Hydrates, NEW sync \in BOOLEAN, Hydrate(h, sync)
  PROVE  Inv'
<1> DEFINE names == {n \in Names : buffer[n] # 0}
<1>1. TypeOK /\ ShownIsOwed
  BY DEF Inv
<1>2. /\ \A g \in Hydrates : ~Busy(g)
      /\ phase[h] = "new" /\ h # 0 /\ memo = 0
      /\ sync => chunks = {}
  BY <1>1 DEF OnePerTurn, Hydrate, Over, Busy, Hydrates, TypeOK
<1>3. /\ phase' = [phase EXCEPT ![h] = "render"]
      /\ synchronous' = IF sync THEN synchronous \cup {h} ELSE synchronous
      /\ carrier' = [carrier EXCEPT ![h] = buffer]
      /\ previous' = [previous EXCEPT ![h] = memo] /\ memo' = h
      /\ metaEntries' = metaEntries \cup names
      /\ pending' = pending \cup (names \cap metaEntries)
      /\ owed' = [n \in Names |-> IF n \in names THEN buffer[n] ELSE owed[n]]
      /\ loose' = loose \ names
      /\ due' = due \cup (names \cap metaEntries)
      /\ UNCHANGED <<stamp, stores, buffer, cleaning, bound, chunks>>
  BY DEF Hydrate
<1>4. names \subseteq Names
  OBVIOUS
<1>5. \A n \in Names : n \notin names => buffer[n] = 0
  OBVIOUS
<1>6. \A n \in names : buffer[n] # 0
  OBVIOUS
<1> HIDE DEF names
<1>7. /\ phase' \in [Hydrates -> {"new", "render", "settling", "idle", "synced", "left", "done"}]
      /\ phase'[h] = "render" /\ \A g \in Hydrates \ {h} : phase'[g] = phase[g]
  BY <1>1, <1>3 DEF TypeOK
<1>8. carrier' \in [Hydrates -> Snapshot] /\ carrier'[h] = buffer
  BY <1>1, <1>3 DEF TypeOK
<1>9. owed' \in Snapshot
  BY <1>1, <1>3 DEF TypeOK, Snapshot
<1>10. TypeOK'
  BY <1>1, <1>2, <1>3, <1>4, <1>7, <1>8, <1>9 DEF TypeOK
<1>11. KeptWhileBusy'
  BY <1>2, <1>3, <1>7 DEF KeptWhileBusy, Busy
<1>12. bound = {}
  <2>1. \A g \in bound : g = 0 /\ g \in Hydrates
    BY <1>1, <1>2 DEF Inv, TypeOK, NothingToRestore
  <2>2. 0 \notin Hydrates
    BY DEF Hydrates
  <2> QED BY <2>1, <2>2
<1>13. NothingToRestore'
  <2>1. \A g \in Hydrates : previous'[g] = 0
    BY <1>1, <1>2, <1>3 DEF Inv, NothingToRestore, TypeOK
  <2> QED BY <1>3, <1>12, <2>1 DEF NothingToRestore
<1>14. ClearedLate'
  BY <1>2, <1>3, <1>7 DEF Inv, ClearedLate, TypeOK
<1>15. NoFlushBeside'
  <2>1. OnStack' # {} => sync
    BY <1>2, <1>3, <1>7 DEF OnStack, Inv, NoFlushBeside, Busy, TypeOK
  <2> QED BY <1>2, <1>3, <1>7, <2>1 DEF Inv, NoFlushBeside, TypeOK
<1>16. NothingDue'
  BY <1>2, <1>3, <1>7 DEF NothingDue
<1>17. ShownIsOwed'
  <2>1. /\ \A n \in Names \ loose : buffer[n] = owed[n]
        /\ \A n \in metaEntries \ loose : owed[n] # 0
    BY <1>1, <1>2 DEF ShownIsOwed, Shown, OnCarrier
  <2>2. OnCarrier'
    BY <1>2, <1>3, <1>7 DEF OnCarrier
  <2>3. \A n \in metaEntries' \ loose' : n \in names
    BY <1>1, <1>3, <1>5, <2>1 DEF TypeOK
  <2>4. ASSUME NEW n \in Names \ loose' PROVE Shown(n)' = owed'[n]
    <3>1. Capture(memo)'[n] = IF n \notin metaEntries' THEN 0
                              ELSE IF carrier'[h][n] # 0 THEN carrier'[h][n] ELSE stores'[n]
      BY <1>3 DEF Capture
    <3>2. Shown(n)' = Capture(memo)'[n]
      BY <2>2 DEF Shown
    <3>3. CASE n \in names
      BY <1>3, <1>6, <1>8, <3>1, <3>2, <3>3
    <3>4. CASE n \notin names
      <4>1. n \notin metaEntries' /\ Shown(n)' = 0
        BY <2>3, <3>1, <3>2, <3>4
      <4>2. owed'[n] = owed[n] /\ n \notin loose
        BY <1>3, <3>4
      <4>3. owed[n] = 0
        BY <1>5, <2>1, <3>4, <4>2
      <4> QED BY <4>1, <4>2, <4>3
    <3> QED BY <3>3, <3>4
  <2>5. \A n \in metaEntries' \ loose' : owed'[n] # 0
    BY <1>1, <1>3, <1>4, <1>6, <2>3
  <2> QED BY <2>4, <2>5 DEF ShownIsOwed
<1> QED BY <1>3, <1>10, <1>11, <1>13, <1>14, <1>15, <1>16, <1>17 DEF Inv

\* The hydrate kept goes from one phase to the next.
LEMMA PhaseKeeps ==
  ASSUME Inv, NEW h \in Hydrates, Busy(h),
         NEW p \in {"settling", "idle", "synced", "left"}, phase' = [phase EXCEPT ![h] = p],
         p = "settling" => bound = {},
         p # "settling" => phase[h] # "render" /\ due = {},
         UNCHANGED <<valueVars, synchronous, memo, previous, bound, queueVars, ghosts>>,
         p \in {"settling", "idle"} =>
           phase[h] \in {"render", "settling"} /\ UNCHANGED <<buffer, cleaning>>,
         p \in {"synced", "left"} => cleaning' \subseteq cleaning \cup {h},
         p = "synced" => phase[h] = "idle" /\ buffer' = Capture(h),
         p = "left" => phase[h] = "synced" /\ UNCHANGED buffer
  PROVE  Inv'
<1>1. /\ TypeOK /\ memo = h /\ h # 0
      /\ UNCHANGED <<stamp, metaEntries, stores, carrier, synchronous, memo, previous, bound,
                     pending, chunks, owed, loose, due>>
  BY DEF Inv, KeptWhileBusy, valueVars, queueVars, ghosts, Hydrates
<1>2. phase'[h] = p /\ \A g \in Hydrates \ {h} : phase'[g] = phase[g]
  BY <1>1 DEF TypeOK
<1>3. \A n \in Names : Capture(h)[n] \in Stamps
  BY <1>1, RequestAssumption DEF Capture, TypeOK, Snapshot, Stamps
<1>4. buffer' \in Snapshot /\ cleaning' \subseteq Hydrates
  BY <1>1, <1>3 DEF TypeOK, Snapshot, Capture
<1>5. TypeOK'
  BY <1>1, <1>2, <1>4 DEF TypeOK
<1>6. KeptWhileBusy'
  BY <1>1, <1>2 DEF Inv, KeptWhileBusy, Busy
<1>7. NothingToRestore'
  BY <1>1, <1>2 DEF Inv, NothingToRestore
<1>8. ClearedLate'
  BY <1>1, <1>2 DEF Inv, ClearedLate, TypeOK
<1>9. NoFlushBeside'
  BY <1>1, <1>2 DEF Inv, NoFlushBeside, OnStack, Busy
<1>10. ShownIsOwed'
  <2>1. Capture(h)' = Capture(h)
    BY <1>1 DEF Capture
  <2>2. CASE p \in {"settling", "idle"}
    <3>1. OnCarrier /\ OnCarrier'
      BY <1>1, <1>2, <2>2 DEF OnCarrier
    <3> QED BY <1>1, <2>1, <3>1 DEF Inv, ShownIsOwed, Shown
  <2>3. CASE p = "synced"
    <3>1. OnCarrier /\ ~OnCarrier' /\ buffer' = Capture(h)
      BY <1>1, <1>2, <2>3 DEF OnCarrier
    <3> QED BY <1>1, <3>1 DEF Inv, ShownIsOwed, Shown
  <2>4. CASE p = "left"
    <3>1. ~OnCarrier /\ ~OnCarrier' /\ buffer' = buffer
      BY <1>1, <1>2, <2>4 DEF OnCarrier
    <3> QED BY <1>1, <3>1 DEF Inv, ShownIsOwed, Shown
  <2> QED BY <2>2, <2>3, <2>4
<1>11. NothingDue'
  BY <1>1, <1>2 DEF NothingDue
<1> QED BY <1>1, <1>5, <1>6, <1>7, <1>8, <1>9, <1>10, <1>11 DEF Inv

\* It is over: the registry has no carrier, and the buffer has what the request made.
LEMMA DoneKeeps ==
  ASSUME Inv, NEW h \in Hydrates, Busy(h), phase' = [phase EXCEPT ![h] = "done"],
         bound = {}, due = {}, memo' = previous[h],
         UNCHANGED <<valueVars, synchronous, previous, bound, queueVars, ghosts>>,
         \/ phase[h] = "settling" /\ buffer' = Capture(h) /\ cleaning' = cleaning \cup {h}
         \/ phase[h] = "left" /\ UNCHANGED <<buffer, cleaning>>
  PROVE  Inv'
<1>1. /\ TypeOK /\ memo = h /\ h # 0 /\ memo' = 0
      /\ UNCHANGED <<stamp, metaEntries, stores, carrier, synchronous, previous, bound,
                     pending, chunks, owed, loose, due>>
  BY DEF Inv, KeptWhileBusy, NothingToRestore, valueVars, queueVars, ghosts, Hydrates
<1>2. phase'[h] = "done" /\ \A g \in Hydrates \ {h} : phase'[g] = phase[g]
  BY <1>1 DEF TypeOK
<1>3. \A n \in Names : Capture(h)[n] \in Stamps
  BY <1>1, RequestAssumption DEF Capture, TypeOK, Snapshot, Stamps
<1>4. buffer' \in Snapshot /\ cleaning' \subseteq Hydrates
  BY <1>1, <1>3 DEF TypeOK, Snapshot, Capture
<1>5. TypeOK'
  BY <1>1, <1>2, <1>4 DEF TypeOK
<1>6. KeptWhileBusy'
  BY <1>1, <1>2 DEF Inv, KeptWhileBusy, Busy
<1>7. NothingToRestore'
  BY <1>1, <1>2 DEF Inv, NothingToRestore
<1>8. ClearedLate'
  BY <1>1, <1>2 DEF Inv, ClearedLate, TypeOK
<1>9. NoFlushBeside'
  BY <1>1, <1>2 DEF Inv, NoFlushBeside, OnStack, Busy
<1>10. ShownIsOwed'
  <2>1. \A n \in Names : buffer'[n] = Shown(n)
    BY <1>1 DEF Shown, OnCarrier
  <2>2. ~OnCarrier'
    BY <1>1 DEF OnCarrier
  <2> QED BY <1>1, <2>1, <2>2 DEF Inv, ShownIsOwed, Shown
<1>11. NothingDue'
  BY <1>1 DEF NothingDue
<1> QED BY <1>1, <1>5, <1>6, <1>7, <1>8, <1>9, <1>10, <1>11 DEF Inv

LEMMA HydrateStepKeeps ==
  ASSUME OnePerTurn, Inv, NEW h \in Hydrates,
         \/ RenderEnds(h) \/ Settled(h) \/ SyncBuffer(h) \/ LeaveHydrate(h)
         \/ FinalizeHydrateSync(h) \/ Restore(h)
  PROVE  Inv'
<1>1. TypeOK /\ due \subseteq pending \cup chunks
  BY DEF Inv, TypeOK
<1>2. Busy(h) => memo = h
  BY DEF Inv, KeptWhileBusy
<1>3. phase[h] # "render" /\ Busy(h) => bound = {}
  BY <1>2 DEF Inv, NothingToRestore
<1>4. phase[h] \in {"idle", "synced", "left"} => due = {}
  BY <1>2 DEF Inv, NothingDue, Busy
<1>5. CASE RenderEnds(h)
  BY <1>5, PhaseKeeps DEF OnePerTurn, RenderEnds, Busy
<1>6. CASE Settled(h)
  <2>1. due = {}
    BY <1>1, <1>6 DEF Settled, NotificationsIdle
  <2> QED BY <1>6, <2>1, PhaseKeeps DEF Settled, Busy
<1>7. CASE SyncBuffer(h)
  BY <1>4, <1>7, PhaseKeeps DEF SyncBuffer, Busy
<1>8. CASE LeaveHydrate(h)
  BY <1>4, <1>8, PhaseKeeps DEF LeaveHydrate, Busy
<1>9. CASE FinalizeHydrateSync(h)
  <2>1. h \in OnStack
    BY <1>9 DEF FinalizeHydrateSync, OnStack
  <2>2. due = {}
    BY <1>1, <1>9, <2>1 DEF Inv, NoFlushBeside, FinalizeHydrateSync
  <2> QED BY <1>3, <1>9, <2>2, DoneKeeps DEF FinalizeHydrateSync, Busy
<1>10. CASE Restore(h)
  BY <1>3, <1>4, <1>10, DoneKeeps DEF Restore, Busy
<1> QED BY <1>5, <1>6, <1>7, <1>8, <1>9, <1>10

LEMMA BoundSettlesKeeps ==
  ASSUME Inv, NEW h \in Hydrates, BoundSettles(h)
  PROVE  Inv'
<1>1. /\ h \in bound /\ bound' = bound \ {h} /\ memo' = h
      /\ UNCHANGED <<stamp, metaEntries, stores, carrier, buffer, phase, synchronous, previous,
                     cleaning, pending, chunks, owed, loose, due>>
  BY DEF BoundSettles, valueVars, queueVars, ghosts
<1>2. memo' = memo
  BY <1>1 DEF Inv, NothingToRestore
<1>3. TypeOK'
  BY <1>1, <1>2 DEF Inv, TypeOK
<1>4. ShownIsOwed'
  BY <1>1, <1>2 DEF Inv, ShownIsOwed, Shown, OnCarrier, Capture
<1>5. KeptWhileBusy' /\ NothingToRestore' /\ ClearedLate' /\ NothingDue'
  BY <1>1, <1>2 DEF Inv, KeptWhileBusy, Busy, NothingToRestore, ClearedLate, NothingDue
<1>6. NoFlushBeside'
  BY <1>1 DEF Inv, NoFlushBeside, OnStack
<1> QED BY <1>1, <1>3, <1>4, <1>5, <1>6 DEF Inv

\* A carrier that is cleared is not the one the request's values are on.
LEMMA ClearCarrierKeeps ==
  ASSUME Inv, NEW h \in Hydrates, ClearCarrierBuffer(h)
  PROVE  Inv'
<1>1. /\ h \in cleaning /\ carrier' = [carrier EXCEPT ![h] = Nothing] /\ cleaning' = cleaning \ {h}
      /\ UNCHANGED <<stamp, metaEntries, stores, buffer, phase, synchronous, memo, previous, bound,
                     pending, chunks, owed, loose, due>>
  BY DEF ClearCarrierBuffer, queueVars, ghosts
<1>2. TypeOK /\ phase[h] \in {"synced", "left", "done"}
  BY <1>1 DEF Inv, ClearedLate
<1>3. Nothing \in Snapshot
  BY RequestAssumption DEF Nothing, Snapshot, Stamps
<1>4. carrier' \in [Hydrates -> Snapshot] /\ \A g \in Hydrates \ {h} : carrier'[g] = carrier[g]
  BY <1>1, <1>2, <1>3 DEF TypeOK
<1>5. TypeOK'
  BY <1>1, <1>2, <1>4 DEF TypeOK
<1>6. ShownIsOwed'
  <2>1. OnCarrier' = OnCarrier
    BY <1>1 DEF OnCarrier
  <2>2. CASE OnCarrier
    <3>1. memo \in Hydrates \ {h}
      BY <1>2, <2>2 DEF OnCarrier, TypeOK
    <3>2. carrier'[memo] = carrier[memo]
      BY <1>4, <3>1
    <3>3. Capture(memo)' = Capture(memo)
      BY <1>1, <3>2 DEF Capture
    <3> QED BY <1>1, <2>1, <2>2, <3>3 DEF Inv, ShownIsOwed, Shown
  <2>3. CASE ~OnCarrier
    BY <1>1, <2>1, <2>3 DEF Inv, ShownIsOwed, Shown
  <2> QED BY <2>2, <2>3
<1>7. KeptWhileBusy' /\ NothingToRestore' /\ ClearedLate' /\ NothingDue'
  BY <1>1 DEF Inv, KeptWhileBusy, Busy, NothingToRestore, ClearedLate, NothingDue
<1>8. NoFlushBeside'
  BY <1>1 DEF Inv, NoFlushBeside, OnStack
<1> QED BY <1>1, <1>5, <1>6, <1>7, <1>8 DEF Inv

LEMMA StartFlushKeeps ==
  ASSUME Inv, StartFlush
  PROVE  Inv'
<1>1. /\ OnStack = {} /\ chunks = {} /\ chunks' = pending /\ pending' = {}
      /\ UNCHANGED <<stamp, metaEntries, stores, carrier, buffer, phase, synchronous, memo, previous,
                     cleaning, bound, owed, loose, due>>
  BY DEF StartFlush, valueVars, hydrateVars, ghosts
<1>2. TypeOK'
  BY <1>1 DEF Inv, TypeOK
<1>3. ShownIsOwed'
  BY <1>1 DEF Inv, ShownIsOwed, Shown, OnCarrier, Capture
<1>4. KeptWhileBusy' /\ NothingToRestore' /\ ClearedLate' /\ NothingDue'
  BY <1>1 DEF Inv, KeptWhileBusy, Busy, NothingToRestore, ClearedLate, NothingDue
<1>5. NoFlushBeside'
  BY <1>1 DEF Inv, NoFlushBeside, OnStack
<1> QED BY <1>1, <1>2, <1>3, <1>4, <1>5 DEF Inv

LEMMA StutterKeeps ==
  ASSUME Inv, UNCHANGED vars
  PROVE  Inv'
<1>1. UNCHANGED <<stamp, metaEntries, stores, carrier, buffer, phase, synchronous, memo, previous,
                  cleaning, bound, pending, chunks, owed, loose, due>>
  BY DEF vars, valueVars, hydrateVars, queueVars, ghosts
<1>2. TypeOK'
  BY <1>1 DEF Inv, TypeOK
<1>3. ShownIsOwed'
  BY <1>1 DEF Inv, ShownIsOwed, Shown, OnCarrier, Capture
<1>4. KeptWhileBusy' /\ NothingToRestore' /\ ClearedLate' /\ NothingDue'
  BY <1>1 DEF Inv, KeptWhileBusy, Busy, NothingToRestore, ClearedLate, NothingDue
<1>5. NoFlushBeside'
  BY <1>1 DEF Inv, NoFlushBeside, OnStack
<1> QED BY <1>1, <1>2, <1>3, <1>4, <1>5 DEF Inv

LEMMA NextInv ==
  ASSUME OnePerTurn, Inv, [Next]_vars
  PROVE  Inv'
<1>1. ASSUME NEW h \in Hydrates, \E sync \in BOOLEAN : Hydrate(h, sync) PROVE Inv'
  BY <1>1, HydrateKeeps
<1>2. ASSUME NEW h \in Hydrates, NEW n \in Names, Render(h, n) \/ Detached(h, n) PROVE Inv'
  BY <1>2, RenderKeeps, DetachedKeeps
<1>3. ASSUME NEW h \in Hydrates,
             \/ BoundSettles(h) \/ RenderEnds(h) \/ FinalizeHydrateSync(h)
             \/ Settled(h) \/ SyncBuffer(h) \/ LeaveHydrate(h) \/ Restore(h) \/ ClearCarrierBuffer(h)
      PROVE  Inv'
  BY <1>3, BoundSettlesKeeps, HydrateStepKeeps, ClearCarrierKeeps
<1>4. ASSUME NEW n \in Names, BoundCallback(n) \/ ChunkDeliver(n) \/ InlineDeliver(n) PROVE Inv'
  BY <1>4, BoundCallbackKeeps, ChunkDeliverKeeps, InlineDeliverKeeps
<1> QED BY <1>1, <1>2, <1>3, <1>4, StartFlushKeeps, StutterKeeps DEF Next

LEMMA SpecInv ==
  ASSUME OnePerTurn
  PROVE  Spec => []Inv
<1>1. Inv /\ [Next]_vars => Inv'
  BY NextInv
<1> QED BY InitInv, <1>1, PTL DEF Spec

-----------------------------------------------------------------------------
(***************************************************************************)
(* Theorems.                                                               *)
(***************************************************************************)

\* Every variable keeps its type: the carrier kept for the registry is always that of a
\* hydrate which is not over (memoizedCarrierByRegistry), and a notification owed to
\* subscribers is queued.
THEOREM TypeCorrect ==
  ASSUME OnePerTurn
  PROVE  Spec => []TypeOK
<1>1. Inv => TypeOK
  BY DEF Inv
<1> QED BY SpecInv, <1>1, PTL

\* capture(), and snapshot() between hydrates, show of every store what the request made of
\* it last, for any number of hydrates, bound callbacks and flushes, also of stores that were
\* deleted, or that detached code wrote before.
THEOREM CapturesAreCurrent ==
  ASSUME OnePerTurn
  PROVE  Spec => []CaptureIsCurrent
<1>1. Inv => CaptureIsCurrent
  <2> SUFFICES ASSUME Inv, ~Ending, NEW n \in Names \ loose PROVE Captured[n] = owed[n]
    BY DEF CaptureIsCurrent
  <2>1. memo = 0 \/ OnCarrier
    BY NotEnding DEF AtWork, OnCarrier
  <2>2. Shown(n) = owed[n]
    BY DEF Inv, ShownIsOwed
  <2> QED BY <2>1, <2>2 DEF Captured, Shown, OnCarrier
<1> QED BY SpecInv, <1>1, PTL

\* When hydrate is over, no subscriber of a store the request wrote is left for a flush
\* that has no carrier (finalizeHydrateSync, waitForNotificationIdle).
THEOREM NothingLeftQueued ==
  ASSUME OnePerTurn
  PROVE  Spec => []QueueFinalized
<1>1. Inv => QueueFinalized
  <2> SUFFICES ASSUME Inv, Over PROVE due = {}
    BY DEF QueueFinalized
  <2>1. memo = 0
    BY DEF Over, Inv, TypeOK
  <2> QED BY <2>1 DEF Inv, NothingDue
<1> QED BY SpecInv, <1>1, PTL

-----------------------------------------------------------------------------
(***************************************************************************)
(* AsyncSlots.  First sets of numbers and sequences of slots: the library's *)
(* induction takes an operator as a parameter, so what Without leaves is shown *)
(* by the least number for which it would not.                             *)
(***************************************************************************)

\* A set of naturals that is not empty has a least member.
LEMMA LeastExists ==
  ASSUME NEW S \in SUBSET Nat, S # {}
  PROVE  \E i \in S : \A j \in S : i <= j
<1>1. PICK R : R = OpToRel(<, Nat)
  OBVIOUS
<1>2. IsWellFoundedOn(R, Nat)
  BY <1>1, NatLessThanWellFounded
<1>3. \A i, j \in Nat : i < j => <<i, j>> \in R
  BY <1>1 DEF OpToRel
<1>4. PICK i \in S : \A j \in S : <<j, i>> \notin R
  BY <1>2, WFMin
<1>5. \A j \in S : ~(j < i)
  BY <1>3, <1>4
<1> QED BY <1>5

\* A set of naturals that holds 0, and with a number its successor, holds them all.
LEMMA Counting ==
  ASSUME NEW P \in SUBSET Nat, 0 \in P, \A n \in P : n + 1 \in P
  PROVE  P = Nat
<1> SUFFICES ASSUME Nat \ P # {} PROVE FALSE
  OBVIOUS
<1>1. PICK n \in Nat \ P : \A m \in Nat \ P : n <= m
  BY LeastExists
<1>2. n - 1 \in Nat /\ ~(n <= n - 1)
  BY <1>1
<1>3. n - 1 \in P
  BY <1>1, <1>2
<1> QED BY <1>1, <1>3

\* One slot more at the end.
LEMMA AppendIs ==
  ASSUME NEW S, NEW q \in Seq(S), IsInjective(q), NEW e \in S, e \notin Range(q)
  PROVE  /\ Append(q, e) \in Seq(S) /\ IsInjective(Append(q, e))
         /\ Range(Append(q, e)) = Range(q) \cup {e}
<1>1. PICK N \in Nat : N = Len(q) /\ DOMAIN q = 1 .. N
  BY LenProperties
<1>2. PICK m : m = Append(q, e)
  OBVIOUS
<1>3. m \in Seq(S) /\ Len(m) = N + 1 /\ m[N + 1] = e /\ \A i \in 1 .. N : m[i] = q[i]
  BY <1>1, <1>2, AppendProperties
<1>4. DOMAIN m = 1 .. N + 1
  BY <1>3, LenProperties
<1>5. \A i \in 1 .. N : q[i] # e
  BY <1>1 DEF Range
<1>6. \A i \in 1 .. N + 1 : i = N + 1 \/ i \in 1 .. N
  BY <1>1
<1>7. IsInjective(m)
  BY <1>1, <1>3, <1>4, <1>5, <1>6 DEF IsInjective
<1>8. Range(m) = Range(q) \cup {e}
  <2>1. ASSUME NEW x \in Range(m) PROVE x \in Range(q) \cup {e}
    <3>1. PICK i \in 1 .. N + 1 : x = m[i]
      BY <1>4, <2>1 DEF Range
    <3> QED BY <1>1, <1>3, <1>6, <3>1 DEF Range
  <2>2. ASSUME NEW x \in Range(q) PROVE x \in Range(m)
    <3>1. PICK i \in 1 .. N : x = q[i]
      BY <1>1, <2>2 DEF Range
    <3>2. i \in 1 .. N + 1
      BY <1>1, <3>1
    <3> QED BY <1>3, <1>4, <3>1, <3>2 DEF Range
  <2>3. e \in Range(m)
    <3>1. N + 1 \in 1 .. N + 1
      BY <1>1
    <3> QED BY <1>3, <1>4, <3>1 DEF Range
  <2> QED BY <2>1, <2>2, <2>3
<1> QED BY <1>2, <1>3, <1>7, <1>8

\* f is the function Without(seq, X) is defined by, up to n.
Keeps(f, seq, X, n) ==
  f = [i \in 0 .. n |-> IF i = 0 THEN <<>>
                        ELSE IF seq[i] \in X THEN f[i - 1] ELSE Append(f[i - 1], seq[i])]

\* There is such a function: it is built up to any n.
LEMMA KeepsExists ==
  ASSUME NEW seq, NEW X, NEW m \in Nat
  PROVE  \E f : Keeps(f, seq, X, m)
<1> DEFINE good == {n \in Nat : \E f : Keeps(f, seq, X, n)}
<1>1. 0 \in good
  <2>1. Keeps([i \in 0 .. 0 |-> <<>>], seq, X, 0)
    BY DEF Keeps
  <2> QED BY <2>1
<1>2. ASSUME NEW n \in good PROVE n + 1 \in good
  <2>1. PICK f : Keeps(f, seq, X, n)
    BY <1>2
  <2> DEFINE g == [i \in 0 .. n + 1 |-> IF i = n + 1
                     THEN IF seq[n + 1] \in X THEN f[n] ELSE Append(f[n], seq[n + 1]) ELSE f[i]]
  <2>2. \A i \in 0 .. n : f[i] = IF i = 0 THEN <<>>
                                 ELSE IF seq[i] \in X THEN f[i - 1] ELSE Append(f[i - 1], seq[i])
    BY <2>1 DEF Keeps
  <2>3. \A i \in 0 .. n + 1 : g[i] = IF i = 0 THEN <<>>
                                     ELSE IF seq[i] \in X THEN g[i - 1] ELSE Append(g[i - 1], seq[i])
    BY <2>2
  <2>4. Keeps(g, seq, X, n + 1)
    BY <2>3 DEF Keeps
  <2> QED BY <1>2, <2>4
<1>3. good = Nat
  BY <1>1, <1>2, Counting
<1> QED BY <1>3

\* What is left of a sequence without the slots of X.
LEMMA WithoutIs ==
  ASSUME NEW S, NEW seq \in Seq(S), IsInjective(seq), NEW X
  PROVE  /\ Without(seq, X) \in Seq(S) /\ IsInjective(Without(seq, X))
         /\ Range(Without(seq, X)) = Range(seq) \ X
<1>1. PICK N \in Nat : N = Len(seq) /\ DOMAIN seq = 1 .. N /\ \A i \in 1 .. N : seq[i] \in S
  BY LenProperties, ElementOfSeq
<1>2. PICK f : f = CHOOSE g : Keeps(g, seq, X, N)
  OBVIOUS
<1>3. Keeps(f, seq, X, N)
  BY <1>1, <1>2, KeepsExists
<1>4. Without(seq, X) = f[N]
  BY <1>1, <1>2 DEF Without, Keeps
<1>5. \A i \in 0 .. N : f[i] = IF i = 0 THEN <<>>
                               ELSE IF seq[i] \in X THEN f[i - 1] ELSE Append(f[i - 1], seq[i])
  BY <1>3 DEF Keeps
<1> DEFINE front(n) == {seq[i] : i \in 1 .. n}
           good == {n \in Nat : n <= N =>
                      f[n] \in Seq(S) /\ IsInjective(f[n]) /\ Range(f[n]) = front(n) \ X}
<1>6. 0 \in good
  <2>1. f[0] = <<>>
    BY <1>1, <1>5
  <2>2. <<>> \in Seq(S) /\ DOMAIN <<>> = {}
    BY EmptySeq
  <2>3. IsInjective(f[0]) /\ Range(f[0]) = {}
    BY <2>1, <2>2 DEF IsInjective, Range
  <2>4. front(0) = {}
    OBVIOUS
  <2> QED BY <2>1, <2>2, <2>3, <2>4
<1>7. ASSUME NEW n \in good PROVE n + 1 \in good
  <2> SUFFICES ASSUME n + 1 <= N
               PROVE  f[n + 1] \in Seq(S) /\ IsInjective(f[n + 1]) /\ Range(f[n + 1]) = front(n + 1) \ X
    BY <1>7
  <2>1. n \in Nat /\ n <= N /\ n + 1 \in 1 .. N /\ n + 1 \in 0 .. N /\ n + 1 # 0 /\ n + 1 - 1 = n
    BY <1>1, <1>7
  <2>2. f[n] \in Seq(S) /\ IsInjective(f[n]) /\ Range(f[n]) = front(n) \ X
    BY <1>7, <2>1
  <2>3. f[n + 1] = IF seq[n + 1] \in X THEN f[n] ELSE Append(f[n], seq[n + 1])
    BY <1>5, <2>1
  <2>4. front(n + 1) = front(n) \cup {seq[n + 1]}
    <3>1. \A i \in 1 .. n + 1 : i \in 1 .. n \/ i = n + 1
      BY <2>1
    <3>2. \A i \in 1 .. n : i \in 1 .. n + 1
      BY <2>1
    <3>3. n + 1 \in 1 .. n + 1
      BY <2>1
    <3> QED BY <3>1, <3>2, <3>3
  <2>5. seq[n + 1] \notin front(n)
    <3> SUFFICES ASSUME NEW i \in 1 .. n, seq[i] = seq[n + 1] PROVE FALSE
      OBVIOUS
    <3>1. i \in 1 .. N /\ i # n + 1
      BY <1>1, <2>1
    <3> QED BY <1>1, <2>1, <3>1 DEF IsInjective
  <2>6. PICK e \in S : e = seq[n + 1]
    BY <1>1, <2>1
  <2> HIDE DEF front
  <2>7. CASE e \in X
    BY <2>2, <2>3, <2>4, <2>6, <2>7
  <2>8. CASE e \notin X
    <3>1. e \notin Range(f[n]) /\ f[n + 1] = Append(f[n], e)
      BY <2>2, <2>3, <2>5, <2>6, <2>8
    <3>2. Append(f[n], e) \in Seq(S) /\ IsInjective(Append(f[n], e)) /\ Range(Append(f[n], e)) = Range(f[n]) \cup {e}
      BY <2>2, <3>1, AppendIs
    <3> QED BY <2>2, <2>4, <2>6, <2>8, <3>1, <3>2
  <2> QED BY <2>7, <2>8
<1>8. N \in good
  <2> HIDE DEF good
  <2>1. good = Nat
    <3>1. good \in SUBSET Nat
      BY DEF good
    <3> QED BY <1>6, <1>7, <3>1, Counting
  <2> QED BY <1>1, <2>1
<1>9. Range(seq) = front(N)
  BY <1>1 DEF Range
<1> QED BY <1>1, <1>4, <1>8, <1>9

\* The first k slots.
LEMMA HeadIs ==
  ASSUME NEW S, NEW q \in Seq(S), NEW k \in Nat, k <= Len(q)
  PROVE  /\ DOMAIN SubSeq(q, 1, k) = 1 .. k
         /\ \A i \in 1 .. k : SubSeq(q, 1, k)[i] = q[i]
         /\ Range(SubSeq(q, 1, k)) \subseteq Range(q)
<1>1. PICK N \in Nat : N = Len(q) /\ DOMAIN q = 1 .. N /\ \A i \in 1 .. N : q[i] \in S
  BY LenProperties, ElementOfSeq
<1>2. PICK h : h = SubSeq(q, 1, k)
  OBVIOUS
<1>3. DOMAIN h = 1 .. k /\ \A i \in 1 .. k : h[i] = q[i]
  <2>1. \A i \in 1 .. k : q[i] \in S
    BY <1>1
  <2>2. /\ h \in Seq(S)
        /\ Len(h) = IF 1 <= k THEN k - 1 + 1 ELSE 0
        /\ \A i \in 1 .. k - 1 + 1 : h[i] = q[1 + i - 1]
    BY ONLY <1>2, <2>1, k \in Nat, SubSeqProperties
  <2>3. Len(h) = k
    BY <2>2
  <2>4. DOMAIN h = 1 .. k
    BY <2>2, <2>3, LenProperties
  <2>5. ASSUME NEW i \in 1 .. k PROVE h[i] = q[i]
    <3>1. i \in 1 .. k - 1 + 1 /\ 1 + i - 1 = i
      OBVIOUS
    <3> QED BY <2>2, <3>1
  <2> QED BY <2>4, <2>5
<1>4. \A i \in 1 .. k : i \in 1 .. N
  BY <1>1
<1> QED BY <1>1, <1>2, <1>3, <1>4 DEF Range

\* How many are left without them.
LEMMA NewestIs ==
  ASSUME NEW S, NEW q \in Seq(S), NEW k \in Nat, k <= Len(q), NEW R, R \subseteq Range(q) \ Range(SubSeq(q, 1, k))
  PROVE  IsFiniteSet(R) /\ Cardinality(R) \in Nat /\ Cardinality(R) <= Len(q) - k
<1>1. PICK N \in Nat : N = Len(q) /\ DOMAIN q = 1 .. N /\ \A i \in 1 .. N : q[i] \in S
  BY LenProperties, ElementOfSeq
<1>2. PICK h : h = SubSeq(q, 1, k)
  OBVIOUS
<1>3. DOMAIN h = 1 .. k /\ \A i \in 1 .. k : h[i] = q[i]
  BY <1>2, HeadIs
<1> DEFINE last == [i \in k + 1 .. N |-> q[i]]
           T == {last[i] : i \in k + 1 .. N}
<1>4. R \subseteq T
  <2> SUFFICES ASSUME NEW x \in R PROVE x \in T
    OBVIOUS
  <2>1. PICK i \in 1 .. N : x = q[i]
    BY <1>1 DEF Range
  <2>2. i \notin 1 .. k
    BY <1>2, <1>3, <2>1 DEF Range
  <2>3. i \in k + 1 .. N
    BY <1>1, <2>2
  <2> QED BY <2>1, <2>3
<1>5. IsFiniteSet(k + 1 .. N) /\ Cardinality(k + 1 .. N) = N - k
  <2>1. /\ IsFiniteSet(k + 1 .. N)
        /\ Cardinality(k + 1 .. N) = IF k + 1 > N THEN 0 ELSE N - (k + 1) + 1
    <3>1. k + 1 \in Int /\ N \in Int
      BY <1>1
    <3> QED BY <3>1, FS_Interval
  <2> QED BY <1>1, <2>1
<1>6. IsFiniteSet(T) /\ Cardinality(T) <= N - k /\ Cardinality(T) \in Nat
  <2>1. last \in Surjection(k + 1 .. N, T)
    BY DEF Surjection
  <2> HIDE DEF T, last
  <2> QED BY <1>5, <2>1, FS_Surjection, FS_CardinalityType
<1> HIDE DEF T
<1>7. IsFiniteSet(R) /\ Cardinality(R) \in Nat /\ Cardinality(R) <= Cardinality(T)
  BY <1>4, <1>6, FS_Subset, FS_CardinalityType
<1> QED BY <1>1, <1>6, <1>7

-----------------------------------------------------------------------------
(***************************************************************************)
(* What the tables, the calls and the requests are.                        *)
(***************************************************************************)

\* The slots of one store are no other's: no cacheKey makes them alike.
Apart == \A m, n \in Stores : m # n => SlotsOf[m] \cap SlotsOf[n] = {}

\* The tables, whose sets are finite.
Tables ==
  /\ existing \subseteq Stores
  /\ inflight \subseteq Slots /\ rateWindows \subseteq Slots
  /\ requestVersion \in [Slots -> Version] /\ requestSequence \in [Slots -> Version]
  /\ cacheMeta \in Seq(Slots) /\ IsInjective(cacheMeta)
  /\ ratePruneTimer \in BOOLEAN
  /\ slotOwners \in [Slots -> Stores \cup {NoStore}]
  /\ slotsByStore \in [Stores -> SUBSET Slots]
  /\ cachePruneCounters \in [Stores -> 0 .. PruneInterval - 1]
  /\ IsFiniteSet(inflight)
  /\ \A n \in Stores : IsFiniteSet(slotsByStore[n])

\* Calls and requests use slots of their stores; a version is given when a request is.
Placed(q, phases) ==
  /\ q \in Request /\ q.slot \in SlotsOf[q.store] /\ q.phase \in phases
  /\ q.phase # "cached" => q.version # 0

Calls ==
  /\ call # None => Placed(call, {"cached", "loading", "starting"})
  /\ request \in [Requests -> Request \cup {None}]
  /\ \A r \in Requests : request[r] # None => Placed(request[r], {"running", "over"})

\* None is no request.
LEMMA NoneIs ==
  /\ None.phase = "none" /\ None \notin Request
  /\ \A q \in Request : q # None
  BY DEF None, Request

\* A phase, or the mark of an abort, leaves the rest as it was.
LEMMA RequestIs ==
  ASSUME NEW q \in Request
  PROVE  /\ q.store \in Stores /\ q.slot \in Slots /\ q.version \in Version /\ q.aborted \in BOOLEAN
         /\ \A p \in {"cached", "loading", "starting", "running", "over"} :
              LET new == [q EXCEPT !.phase = p] IN
              /\ new \in Request /\ new.phase = p /\ new.store = q.store /\ new.slot = q.slot
              /\ new.version = q.version /\ new.aborted = q.aborted
         /\ LET new == [q EXCEPT !.aborted = TRUE] IN
              /\ new \in Request /\ new.phase = q.phase /\ new.store = q.store /\ new.slot = q.slot
              /\ new.version = q.version
  BY DEF Request

\* A request in a later phase is of the same slot.
LEMMA RephasedIs ==
  ASSUME NEW q \in Request, NEW p \in {"running", "over"}
  PROVE  \E new : new = [q EXCEPT !.phase = p] /\ new # None /\ new.slot = q.slot
<1>1. PICK new : new = [q EXCEPT !.phase = p]
  OBVIOUS
<1>2. new \in Request /\ new.slot = q.slot
  BY <1>1 DEF Request
<1> QED BY <1>1, <1>2, NoneIs

\* Every slot is a store's.
LEMMA SlotsAre ==
  /\ \A n \in Stores : SlotsOf[n] \subseteq Slots
  /\ \A s \in Slots : \E n \in Stores : s \in SlotsOf[n]
  BY DEF Slots

\* What the clean-ups do to a request: it is as before, or aborted.
AsBefore(new, old) == new = old \/ (old \in Request /\ new = [old EXCEPT !.aborted = TRUE])

\* runStoreCleanups, for any stores.
LEMMA AbortIs ==
  ASSUME Calls, NEW N, Abort(N)
  PROVE  /\ request' \in [Requests -> Request \cup {None}]
         /\ \A r \in Requests : AsBefore(request'[r], request[r])
         /\ AsBefore(call', call)
<1> DEFINE aborted(q) == IF q.phase # "none" /\ q.store \in N THEN [q EXCEPT !.aborted = TRUE] ELSE q
<1>1. \A q \in Request \cup {None} : aborted(q) \in Request \cup {None} /\ AsBefore(aborted(q), q)
  <2> SUFFICES ASSUME NEW q \in Request \cup {None}
               PROVE  aborted(q) \in Request \cup {None} /\ AsBefore(aborted(q), q)
    OBVIOUS
  <2>1. CASE q \in Request
    BY <2>1, RequestIs DEF AsBefore
  <2>2. CASE q = None
    BY <2>2, NoneIs DEF AsBefore
  <2> QED BY <2>1, <2>2
<1>2. request' = [r \in Requests |-> aborted(request[r])] /\ (call' = aborted(call) \/ call' = call)
  BY DEF Abort
<1>3. call \in Request \cup {None} /\ \A r \in Requests : request[r] \in Request \cup {None}
  BY DEF Calls, Placed
<1> HIDE DEF aborted
<1>4. \A r \in Requests : request'[r] = aborted(request[r])
  BY <1>2
<1>5. AsBefore(call', call)
  BY <1>1, <1>2, <1>3 DEF AsBefore
<1> QED BY <1>1, <1>2, <1>3, <1>4, <1>5

\* An aborted request is the same otherwise.
LEMMA AsBeforeIs ==
  ASSUME NEW old, NEW new, AsBefore(new, old), NEW phases
  PROVE  /\ new = None <=> old = None
         /\ old # None /\ Placed(old, phases) =>
              Placed(new, phases) /\ new.phase = old.phase /\ new.store = old.store /\ new.slot = old.slot
              /\ new.version = old.version
<1>1. CASE new = old
  BY <1>1
<1>2. CASE old \in Request /\ new = [old EXCEPT !.aborted = TRUE]
  <2>1. /\ new \in Request /\ new.phase = old.phase /\ new.store = old.store /\ new.slot = old.slot
        /\ new.version = old.version
    BY <1>2, RequestIs
  <2>2. new # None /\ old # None
    BY <1>2, <2>1, NoneIs
  <2> QED BY <2>1, <2>2 DEF Placed
<1> QED BY <1>1, <1>2 DEF AsBefore

LEMMA InitCalls == SlotsInit => Tables /\ Calls
<1> SUFFICES ASSUME SlotsInit PROVE Tables /\ Calls
  OBVIOUS
<1>1. 0 \in Version /\ 0 \in 0 .. PruneInterval - 1
  BY SlotsAssumption DEF Version
<1>2. <<>> \in Seq(Slots) /\ IsInjective(<<>>)
  <2>1. DOMAIN <<>> = {}
    OBVIOUS
  <2> QED BY <2>1, EmptySeq DEF IsInjective
<1>3. Tables
  BY <1>1, <1>2, FS_EmptySet DEF SlotsInit, Tables, NoVersions, Unowned, NoSlots
<1>4. Calls
  BY NoneIs DEF SlotsInit, Calls
<1> QED BY <1>3, <1>4

\* A request replaced.
LEMMA Replacing ==
  ASSUME Calls, NEW r \in Requests, NEW q \in Request \cup {None},
         request' = [request EXCEPT ![r] = q], q # None => Placed(q, {"running", "over"})
  PROVE  /\ request' \in [Requests -> Request \cup {None}] /\ request'[r] = q
         /\ \A t \in Requests : t # r => request'[t] = request[t]
         /\ \A t \in Requests : request'[t] # None => Placed(request'[t], {"running", "over"})
<1>1. request \in [Requests -> Request \cup {None}]
  BY DEF Calls
<1>2. request' \in [Requests -> Request \cup {None}] /\ request'[r] = q
      /\ \A t \in Requests : t # r => request'[t] = request[t]
  BY <1>1
<1> QED BY <1>2 DEF Calls

\* A call or request keeps the slot of its store, and from its start on a version.
LEMMA NextCalls ==
  ASSUME Tables, Calls, [SlotsNext]_slotsVars
  PROVE  Calls'
<1>1. /\ request \in [Requests -> Request \cup {None}]
      /\ \A r \in Requests : request[r] # None => Placed(request[r], {"running", "over"})
      /\ call # None => Placed(call, {"cached", "loading", "starting"})
  BY DEF Calls
<1>2. \A q, phases : Placed(q, phases) =>
        /\ q \in Request /\ q # None /\ q.slot \in SlotsOf[q.store] /\ q.phase \in phases
        /\ q.phase # "cached" => q.version # 0
  BY NoneIs DEF Placed
<1>3. ASSUME NEW n \in Stores, NEW s \in SlotsOf[n], ShowCached(n, s) PROVE Calls'
  <2>1. /\ call' = [phase |-> "cached", store |-> n, slot |-> s, version |-> 0, aborted |-> FALSE]
        /\ UNCHANGED request
    BY <1>3 DEF ShowCached
  <2>2. Placed(call', {"cached", "loading", "starting"})
    <3>1. s \in Slots /\ 0 \in Version
      BY SlotsAre, SlotsAssumption DEF Version
    <3> QED BY <2>1, <3>1 DEF Placed, Request
  <2> QED BY <1>1, <2>1, <2>2 DEF Calls
<1>4. ASSUME NEW n \in Stores, NEW s \in SlotsOf[n], Join(n, s) PROVE Calls'
  BY <1>1, <1>4 DEF Join, Calls
<1>5. ASSUME NEW n \in Stores, NEW s \in SlotsOf[n], NEW X, Call(n, s, X) PROVE Calls'
  <2>1. /\ UNCHANGED request
        /\ \/ call' = None
           \/ /\ requestSequence[s] < MaxVersion
              /\ call' = [phase |-> "loading", store |-> n, slot |-> s, aborted |-> FALSE,
                          version |-> requestSequence[s] + 1]
    BY <1>5 DEF Call
  <2>2. CASE call' = None
    BY <1>1, <2>1, <2>2 DEF Calls
  <2>3. CASE /\ requestSequence[s] < MaxVersion
             /\ call' = [phase |-> "loading", store |-> n, slot |-> s, aborted |-> FALSE,
                         version |-> requestSequence[s] + 1]
    <3>1. s \in Slots /\ requestSequence[s] \in Version
      BY SlotsAre DEF Tables
    <3>2. requestSequence[s] + 1 \in Version /\ requestSequence[s] + 1 # 0
      BY <2>3, <3>1, SlotsAssumption DEF Version
    <3>3. Placed(call', {"cached", "loading", "starting"})
      BY <2>3, <3>1, <3>2 DEF Placed, Request
    <3> QED BY <1>1, <2>1, <3>3 DEF Calls
  <2> QED BY <2>1, <2>2, <2>3
<1>6. CASE RegisterCleanup
  <2>1. call.phase = "loading" /\ call' = [call EXCEPT !.phase = "starting"] /\ UNCHANGED request
    BY <1>6 DEF RegisterCleanup
  <2>2. call # None
    BY <2>1, NoneIs
  <2>3. Placed(call', {"cached", "loading", "starting"})
    BY <1>1, <2>1, <2>2, RequestIs DEF Placed
  <2> QED BY <1>1, <2>1, <2>3 DEF Calls
<1>7. CASE Enter
  <2>1. PICK r \in Requests : request[r] = None /\ request' = [request EXCEPT ![r] = [call EXCEPT !.phase = "running"]]
    BY <1>7 DEF Enter
  <2>2. call.phase = "starting" /\ call' = None
    BY <1>7 DEF Enter
  <2>3. Placed([call EXCEPT !.phase = "running"], {"running", "over"})
    BY <1>1, <2>2, NoneIs, RequestIs DEF Placed
  <2>4. [call EXCEPT !.phase = "running"] \in Request
    BY <2>3 DEF Placed
  <2> QED BY <2>1, <2>2, <2>3, <2>4, Replacing DEF Calls
<1>8. ASSUME NEW r \in Requests, request[r].phase = "running", UNCHANGED call,
             request' = [request EXCEPT ![r].phase = "over"]
      PROVE  Calls'
  <2>1. request[r] # None
    BY <1>8, NoneIs
  <2>2. Placed([request[r] EXCEPT !.phase = "over"], {"running", "over"})
    <3>1. PICK old : old = request[r]
      OBVIOUS
    <3>2. old \in Request /\ old.slot \in SlotsOf[old.store] /\ old.version # 0
      BY <1>1, <1>2, <1>8, <2>1, <3>1
    <3> QED BY <3>1, <3>2, RequestIs DEF Placed
  <2>3. PICK q : q = [request[r] EXCEPT !.phase = "over"]
    OBVIOUS
  <2>4. request' = [request EXCEPT ![r] = q] /\ q \in Request /\ Placed(q, {"running", "over"})
    BY <1>8, <2>2, <2>3 DEF Placed
  <2> QED BY <1>1, <1>8, <2>4, Replacing DEF Calls
<1>9. ASSUME NEW r \in Requests, NEW expired, Answer(r, expired) PROVE Calls'
  BY <1>8, <1>9 DEF Answer
<1>10. ASSUME NEW r \in Requests, EndWithoutAnswer(r) PROVE Calls'
  BY <1>8, <1>10 DEF EndWithoutAnswer
<1>11. ASSUME NEW r \in Requests, Settle(r) PROVE Calls'
  <2>1. request' = [request EXCEPT ![r] = None] /\ UNCHANGED call
    BY <1>11 DEF Settle
  <2> QED BY <1>1, <2>1, Replacing DEF Calls
<1>12. ASSUME NEW N, Abort(N) PROVE Calls'
  <2>1. call # None => Placed(call', {"cached", "loading", "starting"})
    BY <1>1, <1>12, AbortIs, AsBeforeIs
  <2>2. call' # None => call # None
    BY <1>12, AbortIs, AsBeforeIs
  <2>3. ASSUME NEW r \in Requests, request'[r] # None PROVE Placed(request'[r], {"running", "over"})
    BY <1>1, <1>12, <2>3, AbortIs, AsBeforeIs
  <2>4. request' \in [Requests -> Request \cup {None}]
    BY <1>12, AbortIs
  <2> QED BY <2>1, <2>2, <2>3, <2>4 DEF Calls
<1>13. CASE UNCHANGED <<call, request>>
  BY <1>1, <1>13 DEF Calls
<1> QED BY <1>3, <1>4, <1>5, <1>6, <1>7, <1>9, <1>10, <1>11, <1>12, <1>13
        DEF SlotsNext, RatePruneTimer, Create, Delete, ResetAsyncState, slotsVars

-----------------------------------------------------------------------------
(***************************************************************************)
(* The index.                                                              *)
(***************************************************************************)

\* The owner of a slot is a store that uses it.
Owned == \A s \in Slots : slotOwners[s] # NoStore => s \in SlotsOf[slotOwners[s]]

\* hasSlotReferences.
LEMMA ReferencedIs ==
  ASSUME Tables
  PROVE  /\ Referenced \subseteq Slots
         /\ \A s \in Slots : s \in Referenced <=>
              \/ s \in inflight \/ s \in Range(cacheMeta) \/ s \in rateWindows
              \/ requestVersion[s] # 0 \/ requestSequence[s] # 0
<1>1. Range(cacheMeta) \subseteq Slots
  BY ElementOfSeq, LenProperties DEF Tables, Range
<1> QED BY <1>1 DEF Tables, Referenced

\* What a slot's owner becomes.
Reowned(X, n, s) ==
  /\ slotOwners' \in [Slots -> Stores \cup {NoStore}]
  /\ slotsByStore' \in [Stores -> SUBSET Slots]
  /\ \A m \in Stores : IsFiniteSet(slotsByStore'[m])
  /\ \A x \in Slots : slotOwners'[x] = IF x = s THEN n
                                       ELSE IF x \in X /\ x \notin Referenced' THEN NoStore ELSE slotOwners[x]
  /\ \A m \in Stores, x \in Slots :
       x \in slotsByStore'[m] <=>
         IF x = s THEN m = n
         ELSE x \in slotsByStore[m] /\ (x \in X /\ x \notin Referenced' => slotOwners[x] # m)

\* trackAsyncSlot, after releaseAsyncSlotIfOrphaned of the slots of X.
LEMMA TrackingIs ==
  ASSUME Tables, NEW X, NEW n \in Stores, NEW s \in Slots, ReleaseThenTrack(X, n, s)
  PROVE  Reowned(X, n, s)
<1>1. PICK gone : gone = X \ ({s} \cup Referenced')
  OBVIOUS
<1>2. /\ slotOwners' = [x \in Slots |-> IF x = s THEN n ELSE IF x \in gone THEN NoStore ELSE slotOwners[x]]
      /\ slotsByStore' = [m \in Stores |->
           {x \in slotsByStore[m] : x # s /\ (x \in gone => slotOwners[x] # m)}
             \cup (IF m = n THEN {s} ELSE {})]
  BY <1>1 DEF ReleaseThenTrack
<1>3. /\ slotOwners \in [Slots -> Stores \cup {NoStore}]
      /\ slotsByStore \in [Stores -> SUBSET Slots]
      /\ \A m \in Stores : IsFiniteSet(slotsByStore[m])
  BY DEF Tables
<1>4. slotOwners' \in [Slots -> Stores \cup {NoStore}] /\ slotsByStore' \in [Stores -> SUBSET Slots]
  BY <1>2, <1>3
<1>5. ASSUME NEW m \in Stores PROVE IsFiniteSet(slotsByStore'[m])
  <2>1. IsFiniteSet(slotsByStore[m] \cup {s}) /\ slotsByStore'[m] \subseteq slotsByStore[m] \cup {s}
    BY <1>2, <1>3, FS_AddElement
  <2> QED BY <2>1, FS_Subset
<1>6. ASSUME NEW x \in Slots
      PROVE  slotOwners'[x] = IF x = s THEN n
                              ELSE IF x \in X /\ x \notin Referenced' THEN NoStore ELSE slotOwners[x]
  BY <1>1, <1>2
<1>7. ASSUME NEW m \in Stores, NEW x \in Slots
      PROVE  x \in slotsByStore'[m] <=>
               IF x = s THEN m = n
               ELSE x \in slotsByStore[m] /\ (x \in X /\ x \notin Referenced' => slotOwners[x] # m)
  BY <1>1, <1>2
<1> QED BY <1>4, <1>5, <1>6, <1>7 DEF Reowned

\* The same without a slot that is tracked: NoStore is no slot's name.
Freed(X) ==
  /\ slotOwners' \in [Slots -> Stores \cup {NoStore}]
  /\ slotsByStore' \in [Stores -> SUBSET Slots]
  /\ \A m \in Stores : IsFiniteSet(slotsByStore'[m])
  /\ \A x \in Slots : slotOwners'[x] = IF x \in X /\ x \notin Referenced' THEN NoStore ELSE slotOwners[x]
  /\ \A m \in Stores, x \in Slots :
       x \in slotsByStore'[m] <=>
         x \in slotsByStore[m] /\ (x \in X /\ x \notin Referenced' => slotOwners[x] # m)

\* releaseAsyncSlotIfOrphaned.
LEMMA ReleaseIs ==
  ASSUME Tables, NEW X, Release(X)
  PROVE  Freed(X)
<1>1. PICK gone : gone = X \ Referenced'
  OBVIOUS
<1>2. /\ slotOwners' = [x \in Slots |-> IF x \in gone THEN NoStore ELSE slotOwners[x]]
      /\ slotsByStore' = [m \in Stores |-> {x \in slotsByStore[m] : x \in gone => slotOwners[x] # m}]
  BY <1>1 DEF Release
<1>3. /\ slotOwners \in [Slots -> Stores \cup {NoStore}]
      /\ slotsByStore \in [Stores -> SUBSET Slots]
      /\ \A m \in Stores : IsFiniteSet(slotsByStore[m])
  BY DEF Tables
<1>4. slotOwners' \in [Slots -> Stores \cup {NoStore}] /\ slotsByStore' \in [Stores -> SUBSET Slots]
  BY <1>2, <1>3
<1>5. ASSUME NEW m \in Stores PROVE IsFiniteSet(slotsByStore'[m])
  <2>1. slotsByStore'[m] \subseteq slotsByStore[m]
    BY <1>2
  <2> QED BY <1>3, <2>1, FS_Subset
<1>6. ASSUME NEW x \in Slots
      PROVE  slotOwners'[x] = IF x \in X /\ x \notin Referenced' THEN NoStore ELSE slotOwners[x]
  BY <1>1, <1>2
<1>7. ASSUME NEW m \in Stores, NEW x \in Slots
      PROVE  x \in slotsByStore'[m] <=>
               x \in slotsByStore[m] /\ (x \in X /\ x \notin Referenced' => slotOwners[x] # m)
  BY <1>1, <1>2
<1> QED BY <1>4, <1>5, <1>6, <1>7 DEF Freed

\* An index that was complete still is, if nothing but s is newly referenced.
LEMMA TrackingCompletes ==
  ASSUME Tables, IndexComplete, Owned, NEW X, NEW n \in Stores, NEW s \in SlotsOf[n], Reowned(X, n, s),
         Referenced' \subseteq Referenced \cup {s}
  PROVE  IndexComplete' /\ Owned'
<1>1. s \in Slots /\ \A m \in Stores : m # NoStore
  BY SlotsAre, SlotsAssumption
<1>2. ASSUME NEW x \in Slots, NEW m \in Stores PROVE slotOwners'[x] = m <=> x \in slotsByStore'[m]
  BY <1>1 DEF Reowned, IndexComplete
<1>3. ASSUME NEW x \in Slots, slotOwners'[x] # NoStore PROVE x \in SlotsOf[slotOwners'[x]]
  BY <1>1, <1>3 DEF Reowned, Owned
<1>4. ASSUME NEW x \in Referenced' PROVE slotOwners'[x] # NoStore
  <2>1. x \in Slots
    BY <1>1, <1>4, ReferencedIs
  <2>2. x = s \/ x \in Referenced
    BY <1>4
  <2> QED BY <1>1, <1>4, <2>1, <2>2 DEF Reowned, IndexComplete
<1>5. Referenced' \subseteq Slots
  BY <1>1, ReferencedIs
<1> QED BY <1>2, <1>3, <1>4, <1>5 DEF IndexComplete, Owned

\* The same when no slot is tracked.
LEMMA FreeingCompletes ==
  ASSUME Tables, IndexComplete, Owned, NEW X, Freed(X), Referenced' \subseteq Referenced
  PROVE  IndexComplete' /\ Owned'
<1>1. \A m \in Stores : m # NoStore
  BY SlotsAssumption
<1>2. ASSUME NEW x \in Slots, NEW m \in Stores PROVE slotOwners'[x] = m <=> x \in slotsByStore'[m]
  BY <1>1 DEF Freed, IndexComplete
<1>3. ASSUME NEW x \in Slots, slotOwners'[x] # NoStore PROVE x \in SlotsOf[slotOwners'[x]]
  BY <1>1, <1>3 DEF Freed, Owned
<1>4. ASSUME NEW x \in Referenced' PROVE slotOwners'[x] # NoStore
  BY <1>4, ReferencedIs DEF Freed, IndexComplete
<1>5. Referenced' \subseteq Slots
  BY ReferencedIs
<1> QED BY <1>2, <1>3, <1>4, <1>5 DEF IndexComplete, Owned

\* Versions cleared by a pruning or a deletion.
LEMMA ClearedVersions ==
  ASSUME Tables, NEW X
  PROVE  /\ [s \in Slots |-> IF s \in X THEN 0 ELSE requestVersion[s]] \in [Slots -> Version]
         /\ [s \in Slots |-> IF s \in X THEN 0 ELSE requestSequence[s]] \in [Slots -> Version]
  BY SlotsAssumption DEF Tables, Version

\* shouldUseCache only ever drops an entry; the store exists afterwards, unless the call had
\* shown a cached entry of it before.
LEMMA LookupIs ==
  ASSUME Tables, NEW n \in Stores, NEW s, Lookup(n, s)
  PROVE  /\ cacheMeta' \in Seq(Slots) /\ IsInjective(cacheMeta') /\ Range(cacheMeta') \subseteq Range(cacheMeta)
         /\ existing' = existing \cup {n} \/ (UNCHANGED existing /\ call.phase = "cached" /\ call.store = n)
         /\ existing' \subseteq Stores
<1>1. cacheMeta \in Seq(Slots) /\ IsInjective(cacheMeta) /\ existing \subseteq Stores
  BY DEF Tables
<1>2. cacheMeta' = cacheMeta \/ cacheMeta' = Without(cacheMeta, {s})
  BY DEF Lookup
<1>3. existing' = existing \cup {n} \/ (UNCHANGED existing /\ call.phase = "cached" /\ call.store = n)
  BY DEF Lookup
<1> QED BY <1>1, <1>2, <1>3, WithoutIs

\* What a cached answer leaves: of the store's slots no more than MaxSlots are cached.
Answered(r, n, s, drop) ==
  /\ n = request[r].store /\ s = request[r].slot /\ s \in SlotsOf[n] /\ request[r] # None /\ call = None
  /\ drop \subseteq slotsByStore[n] \cup {s}
  /\ cacheMeta' \in Seq(Slots) /\ IsInjective(cacheMeta')
  /\ Range(cacheMeta') = (Range(cacheMeta) \cup {s}) \ drop
  /\ Cardinality((slotsByStore[n] \cup {s}) \cap Range(cacheMeta')) <= MaxSlots
  /\ requestVersion' = [x \in Slots |-> IF x \in drop THEN 0 ELSE requestVersion[x]]
  /\ requestSequence' = [x \in Slots |-> IF x \in drop THEN 0 ELSE requestSequence[x]]
  /\ cachePruneCounters' \in [Stores -> 0 .. PruneInterval - 1]
  /\ UNCHANGED <<existing, inflight, rateWindows, ratePruneTimer, call>>
  /\ Reowned(drop, n, s)

\* The cache after an answer, between two prunings or after one (pruneAsyncCache).
LEMMA AnswerIs ==
  ASSUME Tables, Calls, NEW r \in Requests, NEW expired, Answer(r, expired)
  PROVE  \E n \in Stores, s \in Slots, drop \in SUBSET Slots : Answered(r, n, s, drop)
<1>1. PICK n, s, tracked, cache, drop :
        /\ n = request[r].store /\ s = request[r].slot
        /\ tracked = slotsByStore[n] \cup {s}
        /\ cache = Append(Without(cacheMeta, {s}), s)
        /\ drop = IF NoteWrite(n, tracked) THEN Pruned(cache, tracked, expired) ELSE {}
  OBVIOUS
<1>2. /\ call = None /\ request[r].phase = "running"
      /\ expired \subseteq (Range(cacheMeta) \cap tracked) \ {s}
      /\ cacheMeta' = Without(cache, drop)
      /\ ReleaseThenTrack(drop, n, s)
      /\ requestVersion' = [x \in Slots |-> IF x \in drop THEN 0 ELSE requestVersion[x]]
      /\ requestSequence' = [x \in Slots |-> IF x \in drop THEN 0 ELSE requestSequence[x]]
      /\ cachePruneCounters' = [cachePruneCounters EXCEPT ![n] = IF NoteWrite(n, tracked) THEN 0 ELSE @ + 1]
      /\ UNCHANGED <<existing, inflight, rateWindows, ratePruneTimer, call>>
  BY ONLY Answer(r, expired), <1>1 DEF Answer
<1>3. request[r] # None /\ n \in Stores /\ s \in SlotsOf[n] /\ s \in Slots
  <2>1. request[r] # None
    BY <1>2, NoneIs
  <2> QED BY <1>1, <2>1, RequestIs DEF Calls, Placed
<1>4. tracked \subseteq Slots /\ IsFiniteSet(tracked)
  BY <1>1, <1>3, FS_AddElement DEF Tables
<1>5. cache \in Seq(Slots) /\ IsInjective(cache) /\ Range(cache) = Range(cacheMeta) \cup {s}
  <2>1. PICK rest : rest = Without(cacheMeta, {s})
    OBVIOUS
  <2>2. rest \in Seq(Slots) /\ IsInjective(rest) /\ Range(rest) = Range(cacheMeta) \ {s}
    BY <2>1, WithoutIs DEF Tables
  <2>3. Append(rest, s) \in Seq(Slots) /\ IsInjective(Append(rest, s)) /\ Range(Append(rest, s)) = Range(rest) \cup {s}
    BY ONLY <1>3, <2>2, AppendIs
  <2> QED BY ONLY <1>1, <2>1, <2>2, <2>3
<1>6. cacheMeta' \in Seq(Slots) /\ IsInjective(cacheMeta') /\ Range(cacheMeta') = Range(cache) \ drop
  BY ONLY <1>2, <1>5, WithoutIs
<1>7. drop \subseteq tracked /\ Cardinality(tracked \cap Range(cacheMeta')) <= MaxSlots
  <2>1. CASE NoteWrite(n, tracked)
    <3>1. PICK q : q = Without(cache, Slots \ (tracked \ expired))
      OBVIOUS
    <3>2. q \in Seq(Slots) /\ Range(q) = Range(cache) \ (Slots \ (tracked \ expired))
      BY ONLY <1>5, <3>1, WithoutIs
    <3>3. Range(cache) \subseteq Slots
      BY ONLY <1>5, ElementOfSeq, LenProperties DEF Range
    <3>4. PICK k \in Nat : k = IF Len(q) > MaxSlots THEN Len(q) - MaxSlots ELSE 0
      BY <3>2, LenProperties, SlotsAssumption
    <3>5. PICK N \in Nat : N = Len(q) /\ k <= N /\ N - k <= MaxSlots
      BY <3>2, <3>4, LenProperties, SlotsAssumption
    <3>6. PICK H : H = Range(SubSeq(q, 1, k)) /\ H \subseteq Range(q)
      BY <3>2, <3>5, HeadIs
    <3>7. drop = expired \cup H
      BY ONLY <1>1, <2>1, <3>1, <3>4, <3>6 DEF Pruned
    <3>8. tracked \cap Range(cacheMeta') \subseteq Range(q) \ H
      BY ONLY <1>6, <1>4, <3>2, <3>3, <3>7
    <3>9. PICK R : R = tracked \cap Range(cacheMeta')
      OBVIOUS
    <3>10. Cardinality(R) \in Nat /\ Cardinality(R) <= N - k
      BY ONLY <3>2, <3>5, <3>6, <3>8, <3>9, NewestIs
    <3>11. MaxSlots \in Nat /\ Cardinality(R) <= MaxSlots
      BY <3>5, <3>10, SlotsAssumption
    <3> QED BY ONLY <1>2, <1>4, <3>2, <3>3, <3>6, <3>7, <3>9, <3>11
  <2>2. CASE ~NoteWrite(n, tracked)
    <3>1. Cardinality(tracked \cap Range(cacheMeta')) <= Cardinality(tracked)
          /\ Cardinality(tracked \cap Range(cacheMeta')) \in Nat /\ Cardinality(tracked) \in Nat
      <4>1. tracked \cap Range(cacheMeta') \subseteq tracked
        OBVIOUS
      <4> QED BY ONLY <1>4, <4>1, FS_Subset, FS_CardinalityType
    <3>2. ~(Cardinality(tracked) > MaxSlots)
      BY <2>2 DEF NoteWrite
    <3>3. drop = {}
      BY ONLY <1>1, <2>2
    <3>4. MaxSlots \in Nat
      BY SlotsAssumption
    <3> QED BY ONLY <3>1, <3>2, <3>3, <3>4
  <2> QED BY <2>1, <2>2
<1>8. cachePruneCounters' \in [Stores -> 0 .. PruneInterval - 1]
  <2>1. cachePruneCounters \in [Stores -> 0 .. PruneInterval - 1] /\ PruneInterval \in Nat \ {0}
    BY SlotsAssumption DEF Tables
  <2>2. PICK c \in 0 .. PruneInterval - 1 : c = cachePruneCounters[n]
    BY <1>3, <2>1
  <2>3. CASE NoteWrite(n, tracked)
    <3>1. cachePruneCounters' = [cachePruneCounters EXCEPT ![n] = 0]
      BY ONLY <1>2, <2>3
    <3>2. 0 \in 0 .. PruneInterval - 1
      BY ONLY <2>1
    <3> QED BY ONLY <2>1, <3>1, <3>2
  <2>4. CASE ~NoteWrite(n, tracked)
    <3>1. c + 1 \in 0 .. PruneInterval - 1
      BY ONLY <2>1, <2>2, <2>4 DEF NoteWrite
    <3>2. cachePruneCounters' = [cachePruneCounters EXCEPT ![n] = c + 1]
      BY ONLY <1>2, <2>2, <2>4
    <3> QED BY ONLY <2>1, <3>1, <3>2
  <2> QED BY <2>3, <2>4
<1>9. Reowned(drop, n, s)
  BY <1>2, <1>3, TrackingIs
<1>10. drop \in SUBSET Slots
  BY ONLY <1>4, <1>7
<1>11. Answered(r, n, s, drop)
  BY ONLY <1>1, <1>2, <1>3, <1>5, <1>6, <1>7, <1>8, <1>9 DEF Answered
<1> QED BY ONLY <1>3, <1>10, <1>11

\* Every step keeps the tables in order.
LEMMA NextTables ==
  ASSUME Tables, Calls, [SlotsNext]_slotsVars
  PROVE  Tables'
<1>1. /\ existing \subseteq Stores
      /\ inflight \subseteq Slots /\ rateWindows \subseteq Slots
      /\ requestVersion \in [Slots -> Version] /\ requestSequence \in [Slots -> Version]
      /\ cacheMeta \in Seq(Slots) /\ IsInjective(cacheMeta)
      /\ ratePruneTimer \in BOOLEAN
      /\ slotOwners \in [Slots -> Stores \cup {NoStore}]
      /\ slotsByStore \in [Stores -> SUBSET Slots]
      /\ cachePruneCounters \in [Stores -> 0 .. PruneInterval - 1]
      /\ IsFiniteSet(inflight)
      /\ \A n \in Stores : IsFiniteSet(slotsByStore[n])
  BY DEF Tables
<1>2. \A n \in Stores : \A s \in SlotsOf[n] : s \in Slots
  BY SlotsAre
<1>3. 0 \in Version /\ 0 \in 0 .. PruneInterval - 1 /\ PruneInterval \in Nat /\ MaxVersion \in Nat
  BY SlotsAssumption DEF Version
<1>4. ASSUME NEW n \in Stores, NEW s \in SlotsOf[n], Join(n, s) PROVE Tables'
  <2>1. Freed({s})
    BY <1>4, ReleaseIs DEF Join
  <2>2. cacheMeta' \in Seq(Slots) /\ IsInjective(cacheMeta') /\ existing' \subseteq Stores
    BY <1>4, LookupIs DEF Join
  <2> QED BY <1>1, <1>4, <2>1, <2>2 DEF Join, Tables, versions, Freed
<1>5. ASSUME NEW n \in Stores, NEW s \in SlotsOf[n], NEW X \in SUBSET rateWindows, Call(n, s, X) PROVE Tables'
  <2>1. Reowned(X \cup {s}, n, s)
    BY <1>2, <1>5, TrackingIs DEF Call, RateHit
  <2>2. cacheMeta' \in Seq(Slots) /\ IsInjective(cacheMeta') /\ existing' \subseteq Stores
    BY <1>5, LookupIs DEF Call
  <2>3. rateWindows' \subseteq Slots /\ ratePruneTimer' = TRUE /\ UNCHANGED <<inflight, cachePruneCounters>>
    BY <1>1, <1>2, <1>5 DEF Call, RateHit
  <2>4. requestVersion' \in [Slots -> Version] /\ requestSequence' \in [Slots -> Version]
    <3>1. CASE UNCHANGED versions
      BY <1>1, <3>1 DEF versions
    <3>2. CASE /\ requestSequence[s] < MaxVersion
               /\ requestSequence' = [requestSequence EXCEPT ![s] = @ + 1]
               /\ requestVersion' = [requestVersion EXCEPT ![s] = requestSequence[s] + 1]
      <4>1. PICK v \in Version : v = requestSequence[s] + 1
        <5>1. requestSequence[s] \in 0 .. MaxVersion
          BY <1>1, <1>2 DEF Version
        <5> QED BY <1>3, <3>2, <5>1 DEF Version
      <4>2. requestSequence' = [requestSequence EXCEPT ![s] = v] /\ requestVersion' = [requestVersion EXCEPT ![s] = v]
        BY <3>2, <4>1
      <4> QED BY <1>1, <4>1, <4>2
    <3> QED BY <1>5, <3>1, <3>2 DEF Call
  <2> QED BY <1>1, <2>1, <2>2, <2>3, <2>4 DEF Tables, Reowned
<1>6. CASE Enter
  <2>1. call.slot \in Slots /\ call.store \in Stores
    <3>1. call # None
      BY <1>6, NoneIs DEF Enter
    <3> QED BY <3>1, RequestIs DEF Calls, Placed
  <2>2. Reowned({}, call.store, call.slot)
    BY <1>6, <2>1, TrackingIs DEF Enter
  <2>3. inflight' = inflight \cup {call.slot}
        /\ UNCHANGED <<existing, requestVersion, requestSequence, cacheMeta, rateWindows, ratePruneTimer, cachePruneCounters>>
    BY <1>6 DEF Enter, versions
  <2>4. IsFiniteSet(inflight') /\ inflight' \subseteq Slots
    BY <1>1, <2>1, <2>3, FS_AddElement
  <2> QED BY <1>1, <2>2, <2>3, <2>4 DEF Tables, Reowned
<1>7. ASSUME NEW r \in Requests, NEW expired, Answer(r, expired) PROVE Tables'
  <2>1. PICK n \in Stores, s \in Slots, drop \in SUBSET Slots : Answered(r, n, s, drop)
    BY <1>7, AnswerIs
  <2>2. requestVersion' \in [Slots -> Version] /\ requestSequence' \in [Slots -> Version]
    BY <2>1, ClearedVersions DEF Answered
  <2>3. /\ cacheMeta' \in Seq(Slots) /\ IsInjective(cacheMeta')
        /\ cachePruneCounters' \in [Stores -> 0 .. PruneInterval - 1]
        /\ UNCHANGED <<existing, inflight, rateWindows, ratePruneTimer>>
        /\ slotOwners' \in [Slots -> Stores \cup {NoStore}] /\ slotsByStore' \in [Stores -> SUBSET Slots]
        /\ \A m \in Stores : IsFiniteSet(slotsByStore'[m])
    BY <2>1 DEF Answered, Reowned
  <2> QED BY ONLY <1>1, <2>2, <2>3 DEF Tables
<1>8. ASSUME NEW r \in Requests, Settle(r) PROVE Tables'
  <2>1. Freed({request[r].slot})
    BY <1>8, ReleaseIs DEF Settle
  <2>2. requestVersion' \in [Slots -> Version]
    BY <1>1, <1>3, <1>8 DEF Settle
  <2>3. inflight' \subseteq inflight
        /\ UNCHANGED <<existing, requestSequence, cacheMeta, rateWindows, ratePruneTimer, cachePruneCounters>>
    BY <1>8 DEF Settle
  <2>4. IsFiniteSet(inflight') /\ inflight' \subseteq Slots
    BY <1>1, <2>3, FS_Subset
  <2> QED BY <1>1, <2>1, <2>2, <2>3, <2>4 DEF Tables, Freed
<1>9. ASSUME NEW X \in SUBSET rateWindows, RatePruneTimer(X) PROVE Tables'
  <2>1. Freed(X)
    BY <1>9, ReleaseIs DEF RatePruneTimer
  <2> QED BY <1>1, <1>9, <2>1 DEF RatePruneTimer, versions, Tables, Freed
<1>10. ASSUME NEW n \in Stores, Delete(n) PROVE Tables'
  <2>1. PICK S : S = {BaseSlot[n]} \cup IF slotsByStore[n] # {} THEN slotsByStore[n] ELSE Scan(n)
    OBVIOUS
  <2>2. /\ existing' = existing \ {n} /\ ClearSlots(S)
        /\ slotOwners' = [s \in Slots |-> IF s \in S THEN NoStore ELSE slotOwners[s]]
        /\ slotsByStore' = [slotsByStore EXCEPT ![n] = {}]
        /\ cachePruneCounters' = [cachePruneCounters EXCEPT ![n] = 0]
        /\ UNCHANGED ratePruneTimer
    BY <1>10, <2>1 DEF Delete
  <2>3. cacheMeta' \in Seq(Slots) /\ IsInjective(cacheMeta')
    BY <1>1, <2>2, WithoutIs DEF ClearSlots
  <2>4. requestVersion' \in [Slots -> Version] /\ requestSequence' \in [Slots -> Version]
    BY <2>2, ClearedVersions DEF ClearSlots
  <2>5. inflight' \subseteq inflight /\ rateWindows' \subseteq Slots /\ IsFiniteSet(inflight')
    BY <1>1, <2>2, FS_Subset DEF ClearSlots
  <2>6. slotOwners' \in [Slots -> Stores \cup {NoStore}]
    BY <1>1, <2>2
  <2>7. slotsByStore' \in [Stores -> SUBSET Slots] /\ \A m \in Stores : IsFiniteSet(slotsByStore'[m])
    BY <1>1, <2>2, FS_EmptySet
  <2>8. cachePruneCounters' \in [Stores -> 0 .. PruneInterval - 1]
    BY <1>1, <1>3, <2>2
  <2> QED BY <1>1, <2>2, <2>3, <2>4, <2>5, <2>6, <2>7, <2>8 DEF Tables
<1>11. CASE ResetAsyncState
  <2>1. <<>> \in Seq(Slots) /\ IsInjective(<<>>)
    <3>1. DOMAIN <<>> = {}
      OBVIOUS
    <3> QED BY <3>1, EmptySeq DEF IsInjective
  <2> QED BY <1>1, <1>3, <1>11, <2>1, FS_EmptySet DEF ResetAsyncState, Tables, NoVersions, Unowned, NoSlots
<1>12. ASSUME existing' \subseteq Stores,
              UNCHANGED <<inflight, requestVersion, requestSequence, cacheMeta, rateWindows, ratePruneTimer,
                          slotOwners, slotsByStore, cachePruneCounters>>
       PROVE  Tables'
  BY <1>1, <1>12 DEF Tables
<1>13. CASE RegisterCleanup
  BY <1>1, <1>12, <1>13 DEF RegisterCleanup, versions, index
<1>14. ASSUME NEW n \in Stores, NEW s \in SlotsOf[n], ShowCached(n, s) PROVE Tables'
  BY <1>1, <1>12, <1>14 DEF ShowCached, versions, index
<1>15. ASSUME NEW r \in Requests, EndWithoutAnswer(r) PROVE Tables'
  BY <1>1, <1>12, <1>15 DEF EndWithoutAnswer, versions, index
<1>16. ASSUME NEW n \in Stores, Create(n) PROVE Tables'
  BY <1>1, <1>12, <1>16 DEF Create, versions, index
<1>17. CASE UNCHANGED slotsVars
  BY <1>1, <1>12, <1>17 DEF slotsVars, versions, index
<1> QED BY <1>4, <1>5, <1>6, <1>7, <1>8, <1>9, <1>10, <1>11, <1>13, <1>14, <1>15, <1>16, <1>17 DEF SlotsNext


\* What is referenced after a step that adds nothing but slots of Y.
LEMMA ReferencedMoves ==
  ASSUME NEW Y,
         inflight' \subseteq inflight \cup Y, rateWindows' \subseteq rateWindows \cup Y,
         Range(cacheMeta') \subseteq Range(cacheMeta) \cup Y,
         \A x \in Slots : x \notin Y /\ requestVersion'[x] # 0 => requestVersion[x] # 0,
         \A x \in Slots : x \notin Y /\ requestSequence'[x] # 0 => requestSequence[x] # 0
  PROVE  Referenced' \subseteq Referenced \cup Y
  BY DEF Referenced

\* The slots that go with a store are the store's, and they are all that the index has.
LEMMA DeleteIs ==
  ASSUME Tables, IndexComplete, Owned, Apart, NEW n \in Stores, Delete(n)
  PROVE  \E S \in SUBSET SlotsOf[n] :
           /\ slotsByStore[n] \subseteq S /\ ClearSlots(S)
           /\ existing' = existing \ {n} /\ n \in existing
           /\ \A s \in Slots : slotOwners'[s] = IF s \in S THEN NoStore ELSE slotOwners[s]
           /\ \A m \in Stores : slotsByStore'[m] = IF m = n THEN {} ELSE slotsByStore[m]
<1>1. PICK S : S = {BaseSlot[n]} \cup IF slotsByStore[n] # {} THEN slotsByStore[n] ELSE Scan(n)
  OBVIOUS
<1>2. /\ existing' = existing \ {n} /\ n \in existing /\ ClearSlots(S)
      /\ slotOwners' = [s \in Slots |-> IF s \in S THEN NoStore ELSE slotOwners[s]]
      /\ slotsByStore' = [slotsByStore EXCEPT ![n] = {}]
  BY ONLY Delete(n), <1>1 DEF Delete
<1>3. slotsByStore \in [Stores -> SUBSET Slots] /\ n # NoStore
  BY SlotsAssumption DEF Tables
<1>4. slotsByStore[n] \subseteq SlotsOf[n]
  BY <1>3 DEF IndexComplete, Owned
<1>5. slotsByStore[n] = {} => Scan(n) = {}
  BY DEF Scan, IndexComplete
<1>6. S = {BaseSlot[n]} \cup slotsByStore[n]
  BY ONLY <1>1, <1>5
<1>7. S \in SUBSET SlotsOf[n] /\ slotsByStore[n] \subseteq S
  BY <1>4, <1>6, SlotsAssumption
<1>8. \A m \in Stores : slotsByStore'[m] = IF m = n THEN {} ELSE slotsByStore[m]
  BY ONLY <1>2, <1>3
<1>9. \A s \in Slots : slotOwners'[s] = IF s \in S THEN NoStore ELSE slotOwners[s]
  BY ONLY <1>2
<1> QED BY ONLY <1>2, <1>7, <1>8, <1>9

\* Every step keeps the index complete.
LEMMA NextIndexed ==
  ASSUME Tables, Calls, IndexComplete, Owned, Apart, [SlotsNext]_slotsVars
  PROVE  IndexComplete' /\ Owned'
<1>1. \A n \in Stores : \A s \in SlotsOf[n] : s \in Slots
  BY SlotsAre
<1>2. ASSUME NEW n \in Stores, NEW s \in SlotsOf[n], Join(n, s) PROVE IndexComplete' /\ Owned'
  <2>1. Freed({s})
    BY <1>2, ReleaseIs DEF Join
  <2>2. Range(cacheMeta') \subseteq Range(cacheMeta)
    BY <1>2, LookupIs DEF Join
  <2>3. Referenced' \subseteq Referenced \cup {}
    BY <1>2, <2>2, ReferencedMoves DEF Join, versions
  <2> QED BY <2>1, <2>3, FreeingCompletes
<1>3. ASSUME NEW n \in Stores, NEW s \in SlotsOf[n], NEW X \in SUBSET rateWindows, Call(n, s, X)
      PROVE  IndexComplete' /\ Owned'
  <2>1. Reowned(X \cup {s}, n, s)
    BY <1>1, <1>3, TrackingIs DEF Call, RateHit
  <2>2. Range(cacheMeta') \subseteq Range(cacheMeta)
    BY <1>3, LookupIs DEF Call
  <2>3. rateWindows' \subseteq rateWindows \cup {s} /\ UNCHANGED inflight
    BY <1>3 DEF Call, RateHit
  <2>4. \A x \in Slots : x # s => requestVersion'[x] = requestVersion[x] /\ requestSequence'[x] = requestSequence[x]
    <3>1. CASE UNCHANGED versions
      BY <3>1 DEF versions
    <3>2. CASE /\ requestSequence' = [requestSequence EXCEPT ![s] = @ + 1]
               /\ requestVersion' = [requestVersion EXCEPT ![s] = requestSequence[s] + 1]
      BY <3>2 DEF Tables
    <3> QED BY <1>3, <3>1, <3>2 DEF Call
  <2>5. Referenced' \subseteq Referenced \cup {s}
    BY <2>2, <2>3, <2>4, ReferencedMoves
  <2> QED BY <2>1, <2>5, TrackingCompletes
<1>4. CASE Enter
  <2>1. call.slot \in SlotsOf[call.store] /\ call.slot \in Slots /\ call.store \in Stores
    <3>1. call # None
      BY <1>4, NoneIs DEF Enter
    <3> QED BY <3>1, RequestIs DEF Calls, Placed
  <2>2. Reowned({}, call.store, call.slot)
    BY <1>4, <2>1, TrackingIs DEF Enter
  <2>3. Referenced' \subseteq Referenced \cup {call.slot}
    BY <1>4, ReferencedMoves DEF Enter, versions
  <2>4. PICK n \in Stores, s \in Slots : n = call.store /\ s = call.slot
    BY <2>1
  <2> QED BY <2>1, <2>2, <2>3, <2>4, TrackingCompletes
<1>5. ASSUME NEW r \in Requests, NEW expired, Answer(r, expired) PROVE IndexComplete' /\ Owned'
  <2>1. PICK n \in Stores, s \in Slots, drop \in SUBSET Slots : Answered(r, n, s, drop)
    BY <1>5, AnswerIs
  <2>2. /\ Range(cacheMeta') \subseteq Range(cacheMeta) \cup {s} /\ UNCHANGED <<inflight, rateWindows>>
        /\ \A x \in Slots : requestVersion'[x] = IF x \in drop THEN 0 ELSE requestVersion[x]
        /\ \A x \in Slots : requestSequence'[x] = IF x \in drop THEN 0 ELSE requestSequence[x]
        /\ s \in SlotsOf[n] /\ Reowned(drop, n, s)
    BY <2>1 DEF Answered
  <2>3. Referenced' \subseteq Referenced \cup {s}
    BY <2>2, ReferencedMoves
  <2> QED BY <2>2, <2>3, TrackingCompletes
<1>6. ASSUME NEW r \in Requests, Settle(r) PROVE IndexComplete' /\ Owned'
  <2>1. Freed({request[r].slot})
    BY <1>6, ReleaseIs DEF Settle
  <2>2. \A x \in Slots : requestVersion'[x] # 0 => requestVersion[x] # 0
    BY <1>6 DEF Settle, Tables
  <2>3. Referenced' \subseteq Referenced \cup {}
    BY <1>6, <2>2, ReferencedMoves DEF Settle
  <2> QED BY <2>1, <2>3, FreeingCompletes
<1>7. ASSUME NEW X, RatePruneTimer(X) PROVE IndexComplete' /\ Owned'
  <2>1. Freed(X)
    BY <1>7, ReleaseIs DEF RatePruneTimer
  <2>2. Referenced' \subseteq Referenced \cup {}
    BY <1>7, ReferencedMoves DEF RatePruneTimer, versions
  <2> QED BY <2>1, <2>2, FreeingCompletes
<1>8. ASSUME NEW n \in Stores, Delete(n) PROVE IndexComplete' /\ Owned'
  <2>1. PICK S \in SUBSET SlotsOf[n] :
          /\ slotsByStore[n] \subseteq S /\ ClearSlots(S)
          /\ \A s \in Slots : slotOwners'[s] = IF s \in S THEN NoStore ELSE slotOwners[s]
          /\ \A m \in Stores : slotsByStore'[m] = IF m = n THEN {} ELSE slotsByStore[m]
    BY <1>8, DeleteIs
  <2>2. \A m \in Stores : slotsByStore[m] \subseteq SlotsOf[m] /\ m # NoStore
    BY SlotsAssumption DEF Tables, IndexComplete, Owned
  <2>3. ASSUME NEW s \in Slots, NEW m \in Stores PROVE slotOwners'[s] = m <=> s \in slotsByStore'[m]
    <3>1. slotOwners[s] = m <=> s \in slotsByStore[m]
      BY DEF IndexComplete
    <3>2. s \in S /\ m # n => s \notin slotsByStore[m]
      BY <2>1, <2>2 DEF Apart
    <3> QED BY <2>1, <2>2, <3>1, <3>2
  <2>4. Owned'
    BY <2>1 DEF Owned
  <2>5. ASSUME NEW x \in Referenced' PROVE slotOwners'[x] # NoStore /\ x \in Slots
    <3>1. Range(cacheMeta') = Range(cacheMeta) \ S
      BY <2>1, WithoutIs DEF ClearSlots, Tables
    <3>2. x \notin S /\ x \in Referenced
      BY <2>1, <2>5, <3>1 DEF ClearSlots, Referenced
    <3>3. x \in Slots
      BY <3>2, ReferencedIs
    <3> QED BY <2>1, <3>2, <3>3 DEF IndexComplete
  <2> QED BY <2>3, <2>4, <2>5 DEF IndexComplete, Owned
<1>9. CASE ResetAsyncState
  <2>1. Referenced' = {}
    <3>1. Range(cacheMeta') = {}
      BY <1>9 DEF ResetAsyncState, Range
    <3> QED BY <1>9, <3>1 DEF ResetAsyncState, NoVersions, Referenced
  <2> QED BY <1>9, <2>1, SlotsAssumption DEF ResetAsyncState, Unowned, NoSlots, IndexComplete, Owned
<1>10. ASSUME UNCHANGED <<inflight, requestVersion, requestSequence, cacheMeta, rateWindows, slotOwners, slotsByStore>>
       PROVE  IndexComplete' /\ Owned'
  BY <1>10 DEF IndexComplete, Owned, Referenced
<1>11. CASE RegisterCleanup
  BY <1>10, <1>11 DEF RegisterCleanup, versions, index
<1>12. ASSUME NEW n, NEW s, ShowCached(n, s) PROVE IndexComplete' /\ Owned'
  BY <1>10, <1>12 DEF ShowCached, versions, index
<1>13. ASSUME NEW r, EndWithoutAnswer(r) PROVE IndexComplete' /\ Owned'
  BY <1>10, <1>13 DEF EndWithoutAnswer, versions, index
<1>14. ASSUME NEW n, Create(n) PROVE IndexComplete' /\ Owned'
  BY <1>10, <1>14 DEF Create, versions, index
<1>15. CASE UNCHANGED slotsVars
  BY <1>10, <1>15 DEF slotsVars, versions, index
<1> QED BY <1>2, <1>3, <1>4, <1>5, <1>6, <1>7, <1>8, <1>9, <1>11, <1>12, <1>13, <1>14, <1>15 DEF SlotsNext


-----------------------------------------------------------------------------
(***************************************************************************)
(* The limits.                                                             *)
(***************************************************************************)

\* The limits of SlotsTypeOK.
Limits ==
  \A n \in Stores : /\ Cardinality(SlotsOf[n] \cap Range(cacheMeta)) <= MaxSlots
                    /\ Cardinality(SlotsOf[n] \cap inflight) <= MaxInflight

\* A request that is starting has been counted; nothing else goes in flight before it.
Room ==
  call.phase \in {"loading", "starting"} =>
    call.slot \in inflight \/ Cardinality(SlotsOf[call.store] \cap inflight) < MaxInflight

\* A part of a finite set.
LEMMA FewerIs ==
  ASSUME NEW A, NEW B, A \subseteq B, IsFiniteSet(B)
  PROVE  IsFiniteSet(A) /\ Cardinality(A) \in Nat /\ Cardinality(B) \in Nat /\ Cardinality(A) <= Cardinality(B)
  BY FS_Subset, FS_CardinalityType

\* The index has a store's slots, and no other store's.
LEMMA OwnIs ==
  ASSUME Tables, IndexComplete, Owned, Apart, NEW n \in Stores
  PROVE  slotsByStore[n] \subseteq SlotsOf[n] /\ SlotsOf[n] \cap Referenced \subseteq slotsByStore[n]
<1>1. slotsByStore[n] \subseteq SlotsOf[n]
  BY SlotsAssumption DEF Tables, IndexComplete, Owned
<1>2. ASSUME NEW s \in SlotsOf[n] \cap Referenced PROVE s \in slotsByStore[n]
  <2>1. s \in Slots /\ slotOwners[s] \in Stores \cup {NoStore} /\ slotOwners[s] # NoStore /\ s \in SlotsOf[slotOwners[s]]
    BY ReferencedIs DEF Tables, IndexComplete
  <2>2. slotOwners[s] = n
    BY <2>1 DEF Apart
  <2> QED BY <2>1, <2>2 DEF IndexComplete
<1> QED BY <1>1, <1>2

\* The number of entries of a store, for fewer of them.
LEMMA StillFits ==
  ASSUME Tables, IndexComplete, Owned, Apart, Limits, NEW n \in Stores
  PROVE  /\ SlotsOf[n] \cap Range(cacheMeta') \subseteq SlotsOf[n] \cap Range(cacheMeta) =>
              Cardinality(SlotsOf[n] \cap Range(cacheMeta')) <= MaxSlots
         /\ SlotsOf[n] \cap inflight' \subseteq SlotsOf[n] \cap inflight =>
              /\ Cardinality(SlotsOf[n] \cap inflight') <= MaxInflight
              /\ Cardinality(SlotsOf[n] \cap inflight') <= Cardinality(SlotsOf[n] \cap inflight)
<1>1. IsFiniteSet(SlotsOf[n] \cap Range(cacheMeta)) /\ IsFiniteSet(SlotsOf[n] \cap inflight)
  <2>1. IsFiniteSet(slotsByStore[n]) /\ IsFiniteSet(inflight)
    BY DEF Tables
  <2>2. SlotsOf[n] \cap Range(cacheMeta) \subseteq slotsByStore[n]
    BY OwnIs DEF Referenced
  <2> QED BY <2>1, <2>2, FS_Subset
<1>2. MaxSlots \in Nat /\ MaxInflight \in Nat
  BY SlotsAssumption
<1>3. SlotsOf[n] \cap Range(cacheMeta') \subseteq SlotsOf[n] \cap Range(cacheMeta) =>
        Cardinality(SlotsOf[n] \cap Range(cacheMeta')) <= MaxSlots
  <2> SUFFICES ASSUME SlotsOf[n] \cap Range(cacheMeta') \subseteq SlotsOf[n] \cap Range(cacheMeta)
               PROVE  Cardinality(SlotsOf[n] \cap Range(cacheMeta')) <= MaxSlots
    OBVIOUS
  <2>1. PICK A, B : A = SlotsOf[n] \cap Range(cacheMeta') /\ B = SlotsOf[n] \cap Range(cacheMeta)
    OBVIOUS
  <2>2. Cardinality(A) \in Nat /\ Cardinality(B) \in Nat /\ Cardinality(A) <= Cardinality(B)
    BY <1>1, <2>1, FewerIs
  <2>3. Cardinality(B) <= MaxSlots
    BY <2>1 DEF Limits
  <2> QED BY ONLY <1>2, <2>1, <2>2, <2>3
<1>4. SlotsOf[n] \cap inflight' \subseteq SlotsOf[n] \cap inflight =>
        /\ Cardinality(SlotsOf[n] \cap inflight') <= MaxInflight
        /\ Cardinality(SlotsOf[n] \cap inflight') <= Cardinality(SlotsOf[n] \cap inflight)
  <2> SUFFICES ASSUME SlotsOf[n] \cap inflight' \subseteq SlotsOf[n] \cap inflight
               PROVE  /\ Cardinality(SlotsOf[n] \cap inflight') <= MaxInflight
                      /\ Cardinality(SlotsOf[n] \cap inflight') <= Cardinality(SlotsOf[n] \cap inflight)
    OBVIOUS
  <2>1. PICK A, B : A = SlotsOf[n] \cap inflight' /\ B = SlotsOf[n] \cap inflight
    OBVIOUS
  <2>2. Cardinality(A) \in Nat /\ Cardinality(B) \in Nat /\ Cardinality(A) <= Cardinality(B)
    BY <1>1, <2>1, FewerIs
  <2>3. Cardinality(B) <= MaxInflight
    BY <2>1 DEF Limits
  <2> QED BY ONLY <1>2, <2>1, <2>2, <2>3
<1> QED BY <1>3, <1>4

\* Every step keeps the limits: only Enter adds an entry in flight, and only Answer one to the
\* cache.
LEMMA NextLimits ==
  ASSUME Tables, Calls, IndexComplete, Owned, Apart, Limits, Room, [SlotsNext]_slotsVars
  PROVE  Limits' /\ Room'
<1>1. ASSUME Range(cacheMeta') \subseteq Range(cacheMeta), inflight' \subseteq inflight PROVE Limits'
  BY <1>1, StillFits DEF Limits
<1>2. ASSUME NEW n \in Stores, NEW s \in SlotsOf[n], Join(n, s) PROVE Limits' /\ Room'
  <2>1. Range(cacheMeta') \subseteq Range(cacheMeta) /\ UNCHANGED inflight /\ call' = None
    BY <1>2, LookupIs DEF Join
  <2> QED BY <1>1, <2>1, NoneIs DEF Room
<1>3. ASSUME NEW n \in Stores, NEW s \in SlotsOf[n], NEW X, Call(n, s, X) PROVE Limits' /\ Room'
  <2>1. Range(cacheMeta') \subseteq Range(cacheMeta) /\ UNCHANGED inflight
    BY <1>3, LookupIs DEF Call
  <2>2. \/ call' = None
        \/ /\ ~NoSlotLeft(n, s)
           /\ call' = [phase |-> "loading", store |-> n, slot |-> s, aborted |-> FALSE,
                       version |-> requestSequence[s] + 1]
    BY <1>3 DEF Call
  <2>3. CASE call' = None
    BY <1>1, <2>1, <2>3, NoneIs DEF Room
  <2>4. CASE ~NoSlotLeft(n, s) /\ call'.store = n /\ call'.slot = s
    <3>1. CASE s \in inflight
      BY <1>1, <2>1, <2>4, <3>1 DEF Room
    <3>2. CASE s \notin inflight
      <4>1. PICK A, B : A = SlotsOf[n] \cap inflight /\ B = inflight \cap slotsByStore[n]
        OBVIOUS
      <4>2. A \subseteq B
        BY <4>1, OwnIs DEF Referenced
      <4>3. IsFiniteSet(B)
        BY <4>1, FS_Subset DEF Tables
      <4>4. Cardinality(A) \in Nat /\ Cardinality(B) \in Nat /\ Cardinality(A) <= Cardinality(B)
        BY <4>2, <4>3, FewerIs
      <4>5. ~(Cardinality(B) >= MaxInflight) /\ MaxInflight \in Nat
        BY <2>4, <3>2, <4>1, SlotsAssumption DEF NoSlotLeft, CountInflight
      <4>6. Cardinality(A) < MaxInflight
        BY ONLY <4>4, <4>5
      <4> QED BY <1>1, <2>1, <2>4, <4>1, <4>6 DEF Room
    <3> QED BY <3>1, <3>2
  <2> QED BY <2>2, <2>3, <2>4
<1>4. CASE Enter
  <2>1. /\ call.slot \in SlotsOf[call.store] /\ call.store \in Stores
        /\ call.slot \in inflight \/ Cardinality(SlotsOf[call.store] \cap inflight) < MaxInflight
    <3>1. call # None /\ call.phase \in {"loading", "starting"}
      BY <1>4, NoneIs DEF Enter
    <3> QED BY <3>1, RequestIs DEF Calls, Placed, Room
  <2>2. PICK n \in Stores, s \in SlotsOf[call.store] : n = call.store /\ s = call.slot
    BY <2>1
  <2>3. inflight' = inflight \cup {s} /\ UNCHANGED cacheMeta /\ call' = None
    BY <1>4, <2>2 DEF Enter
  <2>4. ASSUME NEW m \in Stores PROVE Cardinality(SlotsOf[m] \cap inflight') <= MaxInflight
    <3>1. CASE m # n \/ s \in inflight
      <4>1. SlotsOf[m] \cap inflight' \subseteq SlotsOf[m] \cap inflight
        BY <2>2, <2>3, <3>1 DEF Apart
      <4> QED BY <4>1, StillFits
    <3>2. CASE m = n /\ s \notin inflight
      <4>1. PICK A : A = SlotsOf[n] \cap inflight
        OBVIOUS
      <4>2. IsFiniteSet(A)
        BY <4>1, FS_Subset DEF Tables
      <4>3. SlotsOf[m] \cap inflight' = A \cup {s} /\ s \notin A
        BY <2>2, <2>3, <3>2, <4>1
      <4>4. Cardinality(A \cup {s}) = Cardinality(A) + 1 /\ Cardinality(A) \in Nat
        BY <4>2, <4>3, FS_AddElement, FS_CardinalityType
      <4>5. Cardinality(A) < MaxInflight /\ MaxInflight \in Nat
        BY <2>1, <2>2, <3>2, <4>1, SlotsAssumption
      <4>6. Cardinality(A \cup {s}) <= MaxInflight
        BY ONLY <4>4, <4>5
      <4> QED BY <4>3, <4>6
    <3> QED BY <3>1, <3>2
  <2>5. \A m \in Stores : Cardinality(SlotsOf[m] \cap Range(cacheMeta')) <= MaxSlots
    BY <2>3, StillFits
  <2> QED BY <2>3, <2>4, <2>5, NoneIs DEF Limits, Room
<1>5. ASSUME NEW r \in Requests, NEW expired, Answer(r, expired) PROVE Limits' /\ Room'
  <2>1. PICK n \in Stores, s \in Slots, drop \in SUBSET Slots : Answered(r, n, s, drop)
    BY <1>5, AnswerIs
  <2>2. /\ Range(cacheMeta') = (Range(cacheMeta) \cup {s}) \ drop /\ s \in SlotsOf[n]
        /\ Cardinality((slotsByStore[n] \cup {s}) \cap Range(cacheMeta')) <= MaxSlots
        /\ UNCHANGED <<inflight, call>> /\ call = None
    BY <2>1 DEF Answered
  <2>3. ASSUME NEW m \in Stores PROVE Cardinality(SlotsOf[m] \cap Range(cacheMeta')) <= MaxSlots
    <3>1. CASE m # n
      <4>1. SlotsOf[m] \cap Range(cacheMeta') \subseteq SlotsOf[m] \cap Range(cacheMeta)
        BY <2>2, <3>1 DEF Apart
      <4> QED BY <4>1, StillFits
    <3>2. CASE m = n
      <4>1. PICK A, B : A = SlotsOf[n] \cap Range(cacheMeta') /\ B = (slotsByStore[n] \cup {s}) \cap Range(cacheMeta')
        OBVIOUS
      <4>2. A \subseteq B
        BY <2>2, <4>1, OwnIs DEF Referenced
      <4>3. IsFiniteSet(B)
        <5>1. IsFiniteSet(slotsByStore[n] \cup {s})
          BY FS_AddElement DEF Tables
        <5> QED BY <4>1, <5>1, FS_Subset
      <4>4. Cardinality(A) \in Nat /\ Cardinality(B) \in Nat /\ Cardinality(A) <= Cardinality(B)
        BY <4>2, <4>3, FewerIs
      <4>5. MaxSlots \in Nat
        BY SlotsAssumption
      <4> QED BY ONLY <2>2, <3>2, <4>1, <4>4, <4>5
    <3> QED BY <3>1, <3>2
  <2>4. \A m \in Stores : Cardinality(SlotsOf[m] \cap inflight') <= MaxInflight
    BY <2>2, StillFits
  <2> QED BY <2>2, <2>3, <2>4, NoneIs DEF Limits, Room
<1>6. ASSUME NEW r \in Requests, Settle(r) PROVE Limits' /\ Room'
  BY <1>1, <1>6, NoneIs DEF Settle, Room
<1>7. ASSUME NEW X, RatePruneTimer(X) PROVE Limits' /\ Room'
  BY <1>1, <1>7, NoneIs DEF RatePruneTimer, Room
<1>8. ASSUME NEW n \in Stores, Delete(n) PROVE Limits' /\ Room'
  <2>1. PICK S \in SUBSET SlotsOf[n] : slotsByStore[n] \subseteq S /\ ClearSlots(S)
    BY <1>8, DeleteIs
  <2>2. Range(cacheMeta') \subseteq Range(cacheMeta) /\ inflight' = inflight \ S
    BY <2>1, WithoutIs DEF ClearSlots, Tables
  <2>3. ASSUME call'.phase \in {"loading", "starting"}
        PROVE  /\ call.phase \in {"loading", "starting"} /\ call'.slot = call.slot /\ call'.store = call.store
               /\ call.store \in Stores /\ call.slot \in SlotsOf[call.store]
    <3>1. AsBefore(call', call)
      BY <1>8, AbortIs DEF Delete
    <3>2. call # None
      BY <2>3, <3>1, NoneIs, AsBeforeIs
    <3>3. Placed(call, {"cached", "loading", "starting"})
      BY <3>2 DEF Calls
    <3>4. call'.phase = call.phase /\ call'.store = call.store /\ call'.slot = call.slot
      BY ONLY <3>1, <3>2, <3>3, AsBeforeIs
    <3> QED BY <2>3, <3>3, <3>4, RequestIs DEF Placed
  <2>4. Room'
    <3> SUFFICES ASSUME call'.phase \in {"loading", "starting"}
                 PROVE  call'.slot \in inflight' \/ Cardinality(SlotsOf[call'.store] \cap inflight') < MaxInflight
      BY DEF Room
    <3>1. PICK m \in Stores, s \in SlotsOf[call.store] : m = call.store /\ s = call.slot /\ m = call'.store /\ s = call'.slot
      BY <2>3
    <3>2. CASE m = n
      <4>1. SlotsOf[m] \cap inflight' = {}
        BY <2>1, <2>2, <3>2, OwnIs DEF Referenced
      <4>2. Cardinality(SlotsOf[m] \cap inflight') = 0
        BY <4>1, FS_EmptySet
      <4>3. 0 < MaxInflight
        BY SlotsAssumption
      <4>4. Cardinality(SlotsOf[m] \cap inflight') < MaxInflight
        BY ONLY <4>2, <4>3
      <4> QED BY ONLY <3>1, <4>4
    <3>3. CASE m # n
      <4>1. SlotsOf[m] \cap inflight' = SlotsOf[m] \cap inflight /\ (s \in inflight' <=> s \in inflight)
        BY <2>1, <2>2, <3>1, <3>3 DEF Apart
      <4>2. s \in inflight \/ Cardinality(SlotsOf[m] \cap inflight) < MaxInflight
        BY <2>3, <3>1 DEF Room
      <4>3. s \in inflight' \/ Cardinality(SlotsOf[m] \cap inflight') < MaxInflight
        BY ONLY <4>1, <4>2
      <4> QED BY ONLY <3>1, <4>3
    <3> QED BY <3>2, <3>3
  <2> QED BY <1>1, <2>2, <2>4
<1>9. CASE ResetAsyncState
  <2>1. inflight' = {} /\ Range(cacheMeta') = {}
    BY <1>9 DEF ResetAsyncState, Range
  <2>2. call' = None
    <3>1. call = None /\ AsBefore(call', call)
      BY <1>9, AbortIs DEF ResetAsyncState
    <3> QED BY <3>1, AsBeforeIs
  <2> QED BY <1>1, <2>1, <2>2, NoneIs DEF Room
<1>10. ASSUME UNCHANGED <<inflight, cacheMeta>>, UNCHANGED call \/ ~(call'.phase \in {"loading", "starting"})
       PROVE  Limits' /\ Room'
  BY <1>1, <1>10 DEF Room
<1>11. CASE RegisterCleanup
  <2>1. call.phase = "loading" /\ call' = [call EXCEPT !.phase = "starting"] /\ UNCHANGED <<inflight, cacheMeta>>
    BY <1>11 DEF RegisterCleanup
  <2>2. call \in Request
    BY <2>1, NoneIs DEF Calls, Placed
  <2>3. call'.slot = call.slot /\ call'.store = call.store
    BY <2>1, <2>2, RequestIs
  <2> QED BY <1>1, <2>1, <2>3 DEF Room
<1>12. ASSUME NEW n, NEW s, ShowCached(n, s) PROVE Limits' /\ Room'
  BY <1>10, <1>12 DEF ShowCached
<1>13. ASSUME NEW r, EndWithoutAnswer(r) PROVE Limits' /\ Room'
  BY <1>10, <1>13 DEF EndWithoutAnswer
<1>14. ASSUME NEW n, Create(n) PROVE Limits' /\ Room'
  BY <1>10, <1>14 DEF Create
<1>15. CASE UNCHANGED slotsVars
  BY <1>10, <1>15 DEF slotsVars
<1> QED BY <1>2, <1>3, <1>4, <1>5, <1>6, <1>7, <1>8, <1>9, <1>11, <1>12, <1>13, <1>14, <1>15 DEF SlotsNext


-----------------------------------------------------------------------------
(***************************************************************************)
(* Stores that are gone.                                                   *)
(***************************************************************************)

\* An entry in flight has its request; a store that shows a cached
\* entry exists.  Of a store that is gone only requests are left, and their slots.
Empty(n, s) ==
  /\ requestVersion[s] = 0 /\ requestSequence[s] = 0 /\ s \notin Range(cacheMeta) \cup rateWindows
  /\ slotOwners[s] = n => s \in inflight

Gone ==
  /\ \A s \in inflight : \E r \in Requests : request[r] # None /\ request[r].slot = s
  /\ call.phase = "cached" => call.store \in existing
  /\ \A n \in Stores \ existing : \A s \in SlotsOf[n] : Empty(n, s)

\* Entries in flight, after a step of the requests' clean-ups or of none.
LEMMA StillRequested ==
  ASSUME Gone, Calls, inflight' \subseteq inflight,
         \/ UNCHANGED request
         \/ \E N : Abort(N)
  PROVE  \A s \in inflight' : \E r \in Requests : request'[r] # None /\ request'[r].slot = s
<1> SUFFICES ASSUME NEW s \in inflight' PROVE \E r \in Requests : request'[r] # None /\ request'[r].slot = s
  OBVIOUS
<1>1. PICK r \in Requests : request[r] # None /\ request[r].slot = s
  BY DEF Gone
<1>2. Placed(request[r], {"running", "over"})
  BY <1>1 DEF Calls
<1>3. ASSUME NEW N, Abort(N) PROVE request'[r] # None /\ request'[r].slot = s
  <2>1. AsBefore(request'[r], request[r])
    BY <1>3, AbortIs
  <2> QED BY ONLY <1>1, <1>2, <2>1, AsBeforeIs
<1> QED BY <1>1, <1>3

\* A store that was gone already, and gained nothing.
LEMMA StillEmpty ==
  ASSUME Tables, NEW n \in Stores, NEW s \in SlotsOf[n], Empty(n, s),
         requestVersion'[s] # 0 => requestVersion[s] # 0, requestSequence'[s] # 0 => requestSequence[s] # 0,
         s \in Range(cacheMeta') \cup rateWindows' => s \in Range(cacheMeta) \cup rateWindows,
         slotOwners'[s] = n => s \in inflight' \/ (slotOwners[s] = n /\ (s \in inflight => s \in inflight'))
  PROVE  Empty(n, s)'
  BY DEF Empty

\* Every step leaves of stores that are gone what their requests hold.  An answer for one is
\* not cached: its version was cleared with the store.
LEMMA NextGone ==
  ASSUME Tables, Calls, IndexComplete, Owned, Apart, Gone, ~DeleteWhileShowing, [SlotsNext]_slotsVars
  PROVE  Gone'
<1>1. ASSUME NEW n \in Stores, NEW m \in Stores, m # n, NEW s \in SlotsOf[n], NEW x \in SlotsOf[m]
      PROVE  x # s /\ x \in Slots /\ m # NoStore
  BY <1>1, SlotsAre, SlotsAssumption DEF Apart
<1>2. ASSUME NEW n \in Stores, NEW s \in SlotsOf[n], Lookup(n, s)
      PROVE  existing' = existing \cup {n} /\ Range(cacheMeta') \subseteq Range(cacheMeta)
  BY <1>2, LookupIs DEF Gone
<1>3. ASSUME NEW n \in Stores, NEW s \in SlotsOf[n], Join(n, s) PROVE Gone'
  <2>1. /\ call' = None /\ UNCHANGED <<inflight, requestVersion, requestSequence, rateWindows, request>>
        /\ existing' = existing \cup {n} /\ Range(cacheMeta') \subseteq Range(cacheMeta)
        /\ Freed({s})
    BY <1>2, <1>3, ReleaseIs DEF Join, versions
  <2>2. ASSUME NEW m \in Stores \ existing', NEW x \in SlotsOf[m] PROVE Empty(m, x)'
    <3>1. Empty(m, x) /\ x \in Slots /\ m # NoStore
      BY <2>1, <2>2, SlotsAre, SlotsAssumption DEF Gone
    <3> QED BY <2>1, <3>1, StillEmpty DEF Freed
  <2> QED BY <2>1, <2>2, StillRequested, NoneIs DEF Gone
<1>4. ASSUME NEW n \in Stores, NEW s \in SlotsOf[n], NEW X \in SUBSET rateWindows, Call(n, s, X) PROVE Gone'
  <2>1. /\ UNCHANGED <<inflight, request>>
        /\ existing' = existing \cup {n} /\ Range(cacheMeta') \subseteq Range(cacheMeta)
        /\ rateWindows' = (rateWindows \ X) \cup {s}
        /\ call' = None \/ call'.phase = "loading"
    BY <1>2, <1>4 DEF Call, RateHit
  <2>2. Reowned(X \cup {s}, n, s)
    BY <1>4, SlotsAre, TrackingIs DEF Call, RateHit
  <2>3. \A x \in Slots : x # s => requestVersion'[x] = requestVersion[x] /\ requestSequence'[x] = requestSequence[x]
    <3>1. CASE UNCHANGED versions
      BY <3>1 DEF versions
    <3>2. CASE /\ requestSequence' = [requestSequence EXCEPT ![s] = @ + 1]
               /\ requestVersion' = [requestVersion EXCEPT ![s] = requestSequence[s] + 1]
      BY <3>2 DEF Tables
    <3> QED BY <1>4, <3>1, <3>2 DEF Call
  <2>4. ASSUME NEW m \in Stores \ existing', NEW x \in SlotsOf[m] PROVE Empty(m, x)'
    <3>1. m \in Stores /\ m # n /\ Empty(m, x)
      BY <2>1, <2>4 DEF Gone
    <3>2. x # s /\ x \in Slots /\ m # NoStore
      BY <1>1, <3>1
    <3> QED BY <2>1, <2>2, <2>3, <3>1, <3>2, StillEmpty DEF Reowned
  <2> QED BY <2>1, <2>4, StillRequested, NoneIs DEF Gone
<1>5. CASE Enter
  <2>1. /\ call.phase = "starting" /\ call' = None /\ inflight' = inflight \cup {call.slot}
        /\ UNCHANGED <<existing, requestVersion, requestSequence, cacheMeta, rateWindows>>
        /\ ReleaseThenTrack({}, call.store, call.slot)
    BY <1>5 DEF Enter, versions
  <2>2. PICK n \in Stores, s \in Slots : n = call.store /\ s = call.slot /\ call \in Request
    BY <2>1, NoneIs, RequestIs DEF Calls, Placed
  <2>3. Reowned({}, n, s)
    BY <2>1, <2>2, TrackingIs
  <2>4. PICK r \in Requests : request[r] = None /\ request' = [request EXCEPT ![r] = [call EXCEPT !.phase = "running"]]
    BY <1>5 DEF Enter
  <2>5. PICK q : q = [call EXCEPT !.phase = "running"] /\ q # None /\ q.slot = s
    BY <2>2, RephasedIs
  <2>6. request'[r] = q /\ \A t \in Requests : t # r => request'[t] = request[t]
    BY <2>4, <2>5 DEF Calls
  <2>7. ASSUME NEW x \in inflight' PROVE \E t \in Requests : request'[t] # None /\ request'[t].slot = x
    <3>1. CASE x = s
      BY <2>5, <2>6, <3>1
    <3>2. CASE x \in inflight
      <4>1. PICK t \in Requests : request[t] # None /\ request[t].slot = x
        BY <3>2 DEF Gone
      <4> QED BY <2>4, <2>6, <4>1
    <3> QED BY <2>1, <2>2, <2>7, <3>1, <3>2
  <2>8. ASSUME NEW m \in Stores \ existing', NEW x \in SlotsOf[m] PROVE Empty(m, x)'
    <3>1. Empty(m, x) /\ x \in Slots
      BY <2>1, <2>8, SlotsAre DEF Gone
    <3> QED BY <2>1, <2>2, <2>3, <3>1, StillEmpty DEF Reowned
  <2> QED BY <2>1, <2>7, <2>8, NoneIs DEF Gone
<1>6. ASSUME NEW r \in Requests, NEW expired, Answer(r, expired) PROVE Gone'
  <2>1. PICK n \in Stores, s \in Slots, drop \in SUBSET Slots : Answered(r, n, s, drop)
    BY <1>6, AnswerIs
  <2>2. /\ n = request[r].store /\ s = request[r].slot /\ s \in SlotsOf[n] /\ request[r] # None /\ call = None
        /\ Range(cacheMeta') = (Range(cacheMeta) \cup {s}) \ drop
        /\ requestVersion' = [x \in Slots |-> IF x \in drop THEN 0 ELSE requestVersion[x]]
        /\ requestSequence' = [x \in Slots |-> IF x \in drop THEN 0 ELSE requestSequence[x]]
        /\ UNCHANGED <<existing, inflight, rateWindows, call>>
        /\ Reowned(drop, n, s)
    BY <2>1 DEF Answered
  <2>3. n \in existing
    <3>1. requestVersion[s] = request[r].version
      BY <1>6, <2>2 DEF Answer
    <3>2. request[r].version # 0
      BY <2>2 DEF Calls, Placed
    <3> QED BY <2>2, <3>1, <3>2 DEF Gone, Empty
  <2>4. ASSUME NEW m \in Stores \ existing', NEW x \in SlotsOf[m] PROVE Empty(m, x)'
    <3>1. m \in Stores /\ m # n /\ Empty(m, x)
      BY <2>2, <2>3, <2>4 DEF Gone
    <3>2. x # s /\ x \in Slots /\ m # NoStore
      BY <1>1, <2>2, <3>1
    <3> QED BY <2>2, <3>1, <3>2, StillEmpty DEF Reowned
  <2>5. ASSUME NEW x \in inflight' PROVE \E t \in Requests : request'[t] # None /\ request'[t].slot = x
    <3>1. PICK t \in Requests : request[t] # None /\ request[t].slot = x
      BY <2>2, <2>5 DEF Gone
    <3>2. PICK q : q = [request[r] EXCEPT !.phase = "over"] /\ q # None /\ q.slot = s
      BY <2>2, RephasedIs DEF Calls, Placed
    <3>3. request' = [request EXCEPT ![r] = q]
      BY <1>6, <3>2 DEF Answer
    <3>4. request'[r] = q /\ \A u \in Requests : u # r => request'[u] = request[u]
      BY <3>3 DEF Calls
    <3> QED BY <2>2, <3>1, <3>2, <3>4
  <2> QED BY <2>2, <2>4, <2>5, NoneIs DEF Gone
<1>7. ASSUME NEW r \in Requests, EndWithoutAnswer(r) PROVE Gone'
  <2>1. /\ request[r].phase = "running" /\ request' = [request EXCEPT ![r].phase = "over"]
        /\ UNCHANGED <<existing, inflight, requestVersion, requestSequence, cacheMeta, rateWindows, slotOwners, call>>
    BY <1>7 DEF EndWithoutAnswer, versions, index
  <2>2. PICK q : q = [request[r] EXCEPT !.phase = "over"] /\ q # None /\ q.slot = request[r].slot
    BY <2>1, NoneIs, RephasedIs DEF Calls, Placed
  <2>3. request'[r] = q /\ \A u \in Requests : u # r => request'[u] = request[u]
    BY <2>1, <2>2 DEF Calls
  <2>4. ASSUME NEW x \in inflight' PROVE \E t \in Requests : request'[t] # None /\ request'[t].slot = x
    <3>1. PICK t \in Requests : request[t] # None /\ request[t].slot = x
      BY <2>1, <2>4 DEF Gone
    <3> QED BY <2>2, <2>3, <3>1
  <2> QED BY <2>1, <2>4 DEF Gone, Empty
<1>8. ASSUME NEW r \in Requests, Settle(r) PROVE Gone'
  <2>1. PICK s : s = request[r].slot
    OBVIOUS
  <2>2. /\ request' = [request EXCEPT ![r] = None] /\ inflight' = inflight \ {s}
        /\ UNCHANGED <<existing, requestSequence, cacheMeta, rateWindows, call>> /\ call = None
        /\ requestVersion' = [requestVersion EXCEPT ![s] = IF @ = request[r].version THEN 0 ELSE @]
        /\ Freed({s})
    BY <1>8, <2>1, ReleaseIs DEF Settle
  <2>3. \A x \in Slots : requestVersion'[x] # 0 => requestVersion[x] # 0
    BY <2>2 DEF Tables
  <2>4. ASSUME NEW m \in Stores \ existing', NEW x \in SlotsOf[m] PROVE Empty(m, x)'
    <3>1. Empty(m, x) /\ x \in Slots /\ m # NoStore
      BY <2>2, <2>4, SlotsAre, SlotsAssumption DEF Gone
    <3>2. x = s => x \notin Referenced'
      BY <2>2, <2>3, <3>1 DEF Empty, Referenced
    <3> QED BY <2>2, <2>3, <3>1, <3>2, StillEmpty DEF Freed
  <2>5. ASSUME NEW x \in inflight' PROVE \E t \in Requests : request'[t] # None /\ request'[t].slot = x
    <3>1. x # s /\ x \in inflight
      BY <2>2, <2>5
    <3>2. PICK t \in Requests : request[t] # None /\ request[t].slot = x
      BY <3>1 DEF Gone
    <3>3. request'[t] = request[t]
      BY <2>1, <2>2, <3>1, <3>2 DEF Calls
    <3> QED BY <3>2, <3>3
  <2> QED BY <2>2, <2>4, <2>5, NoneIs DEF Gone
<1>9. ASSUME NEW X, RatePruneTimer(X) PROVE Gone'
  <2>1. /\ UNCHANGED <<existing, inflight, requestVersion, requestSequence, cacheMeta, call, request>>
        /\ rateWindows' = rateWindows \ X /\ Freed(X)
    BY <1>9, ReleaseIs DEF RatePruneTimer, versions
  <2>2. ASSUME NEW m \in Stores \ existing', NEW x \in SlotsOf[m] PROVE Empty(m, x)'
    <3>1. Empty(m, x) /\ x \in Slots /\ m # NoStore
      BY <2>1, <2>2, SlotsAre, SlotsAssumption DEF Gone
    <3> QED BY <2>1, <3>1, StillEmpty DEF Freed
  <2> QED BY <2>1, <2>2 DEF Gone
<1>10. ASSUME NEW n \in Stores, Delete(n) PROVE Gone'
  <2>1. PICK S \in SUBSET SlotsOf[n] :
          /\ slotsByStore[n] \subseteq S /\ ClearSlots(S) /\ existing' = existing \ {n}
          /\ \A s \in Slots : slotOwners'[s] = IF s \in S THEN NoStore ELSE slotOwners[s]
    BY <1>10, DeleteIs
  <2>2. /\ inflight' = inflight \ S /\ rateWindows' = rateWindows \ S
        /\ requestVersion' = [s \in Slots |-> IF s \in S THEN 0 ELSE requestVersion[s]]
        /\ requestSequence' = [s \in Slots |-> IF s \in S THEN 0 ELSE requestSequence[s]]
        /\ Range(cacheMeta') = Range(cacheMeta) \ S
    BY <2>1, WithoutIs DEF ClearSlots, Tables
  <2>3. Abort({n})
    BY <1>10 DEF Delete
  <2>4. ASSUME NEW m \in Stores \ existing', NEW x \in SlotsOf[m] PROVE Empty(m, x)'
    <3>1. m \in Stores /\ x \in Slots /\ m # NoStore
      BY <2>4, SlotsAre, SlotsAssumption
    <3>2. CASE m # n
      <4>1. Empty(m, x) /\ x \notin S
        BY <1>1, <2>1, <2>4, <3>2 DEF Gone
      <4> QED BY <2>1, <2>2, <3>1, <4>1, StillEmpty
    <3>3. CASE m = n
      <4>1. x \notin S => x \notin Referenced /\ slotOwners[x] # n
        BY <2>1, <2>4, <3>1, <3>3, OwnIs DEF IndexComplete
      <4>2. x \notin S => requestVersion[x] = 0 /\ requestSequence[x] = 0 /\ x \notin Range(cacheMeta) \cup rateWindows
        BY <3>1, <4>1, ReferencedIs
      <4> QED BY <2>1, <2>2, <3>1, <3>3, <4>1, <4>2 DEF Empty
    <3> QED BY <3>2, <3>3
  <2>5. call'.phase = "cached" => call'.store \in existing'
    <3> SUFFICES ASSUME call'.phase = "cached" PROVE call'.store \in existing'
      OBVIOUS
    <3>1. AsBefore(call', call) /\ call' # None
      BY <2>3, AbortIs, NoneIs
    <3>2. call # None
      BY <3>1, AsBeforeIs
    <3>3. Placed(call, {"cached", "loading", "starting"})
      BY <3>2 DEF Calls
    <3>4. call'.phase = call.phase /\ call'.store = call.store
      BY ONLY <3>1, <3>2, <3>3, AsBeforeIs
    <3>5. call.phase = "cached" /\ call.store # n
      BY <1>10, <3>4 DEF Delete
    <3> QED BY <2>1, <3>4, <3>5 DEF Gone
  <2> QED BY <2>2, <2>3, <2>4, <2>5, StillRequested DEF Gone
<1>11. CASE ResetAsyncState
  <2>1. /\ inflight' = {} /\ requestVersion' = NoVersions /\ requestSequence' = NoVersions
        /\ Range(cacheMeta') = {} /\ rateWindows' = {} /\ slotOwners' = Unowned
    BY <1>11 DEF ResetAsyncState, Range
  <2>2. call' = None
    <3>1. call = None /\ AsBefore(call', call)
      BY <1>11, AbortIs DEF ResetAsyncState
    <3> QED BY <3>1, AsBeforeIs
  <2>3. ASSUME NEW m \in Stores \ existing', NEW x \in SlotsOf[m] PROVE Empty(m, x)'
    <3>1. m # NoStore /\ x \in Slots
      BY <2>3, SlotsAre, SlotsAssumption
    <3> QED BY <2>1, <3>1 DEF Empty, NoVersions, Unowned
  <2> QED BY <2>1, <2>2, <2>3, NoneIs DEF Gone
<1>12. ASSUME UNCHANGED <<inflight, requestVersion, requestSequence, cacheMeta, rateWindows, slotOwners, request>>,
              existing \subseteq existing', call'.phase = "cached" => call'.store \in existing'
       PROVE  Gone'
  BY <1>12 DEF Gone, Empty
<1>13. CASE RegisterCleanup
  <2>1. call.phase = "loading" /\ call' = [call EXCEPT !.phase = "starting"]
        /\ UNCHANGED <<existing, inflight, requestVersion, requestSequence, cacheMeta, rateWindows, slotOwners, request>>
    BY <1>13 DEF RegisterCleanup, versions, index
  <2>2. call'.phase # "cached"
    BY <2>1, NoneIs, RequestIs DEF Calls, Placed
  <2> QED BY <1>12, <2>1, <2>2
<1>14. ASSUME NEW n \in Stores, NEW s \in SlotsOf[n], ShowCached(n, s) PROVE Gone'
  BY <1>12, <1>14 DEF ShowCached, versions, index
<1>15. ASSUME NEW n, Create(n) PROVE Gone'
  BY <1>12, <1>15 DEF Create, versions, index, Gone
<1>16. CASE UNCHANGED slotsVars
  BY <1>12, <1>16 DEF slotsVars, versions, index, Gone
<1> QED BY <1>3, <1>4, <1>5, <1>6, <1>7, <1>8, <1>9, <1>10, <1>11, <1>13, <1>14, <1>15, <1>16 DEF SlotsNext

\* When the requests have settled nothing holds a slot.
LEMMA GoneLeaksNothing ==
  ASSUME Tables, Calls, IndexComplete, Owned, Apart, Gone
  PROVE  NothingLeaks
<1> SUFFICES ASSUME NEW n \in Stores \ existing, \A r \in Requests : request[r] # None => request[r].store # n
             PROVE  SlotsOf[n] \cap Referenced = {} /\ slotsByStore[n] = {}
  BY DEF NothingLeaks
<1>1. ASSUME NEW s \in SlotsOf[n] PROVE s \notin inflight
  <2> SUFFICES ASSUME s \in inflight PROVE FALSE
    OBVIOUS
  <2>1. PICK r \in Requests : request[r] # None /\ request[r].slot = s
    BY DEF Gone
  <2>2. request[r].store \in Stores /\ s \in SlotsOf[request[r].store]
    BY <2>1, RequestIs DEF Calls, Placed
  <2> QED BY <2>1, <2>2 DEF Apart
<1>2. ASSUME NEW s \in SlotsOf[n] PROVE s \notin Referenced /\ slotOwners[s] # n
  BY <1>1, <1>2 DEF Gone, Empty, Referenced
<1>3. slotsByStore[n] \subseteq SlotsOf[n] /\ \A s \in slotsByStore[n] : slotOwners[s] = n
  BY OwnIs DEF Tables, IndexComplete
<1> QED BY <1>2, <1>3


-----------------------------------------------------------------------------
(***************************************************************************)
(* Theorems about AsyncSlots.                                              *)
(***************************************************************************)

\* At first every table is empty.
LEMMA InitSlots == SlotsInit => Tables /\ Calls /\ IndexComplete /\ Owned /\ Limits /\ Room /\ Gone
<1> SUFFICES ASSUME SlotsInit PROVE Tables /\ Calls /\ IndexComplete /\ Owned /\ Limits /\ Room /\ Gone
  OBVIOUS
<1>1. Referenced = {} /\ Range(cacheMeta) = {} /\ inflight = {}
  <2>1. Range(cacheMeta) = {}
    BY DEF SlotsInit, Range
  <2> QED BY <2>1 DEF SlotsInit, Referenced, NoVersions
<1>2. IndexComplete /\ Owned
  BY <1>1, SlotsAssumption DEF SlotsInit, IndexComplete, Owned, Unowned, NoSlots
<1>3. Limits
  BY <1>1, FS_EmptySet, SlotsAssumption DEF Limits
<1>4. Room
  BY NoneIs DEF SlotsInit, Room
<1>5. Gone
  <2>1. ASSUME NEW n \in Stores, NEW s \in SlotsOf[n] PROVE Empty(n, s)
    <3>1. s \in Slots /\ n # NoStore
      BY SlotsAre, SlotsAssumption
    <3> QED BY <1>1, <3>1 DEF SlotsInit, Empty, NoVersions, Unowned
  <2> QED BY <1>1, <2>1, NoneIs DEF SlotsInit, Gone
<1> QED BY <1>2, <1>3, <1>4, <1>5, InitCalls

\* The inductive invariant, to which DeletionsAreExact adds Gone.
SlotsInv == Tables /\ Calls /\ IndexComplete /\ Owned /\ Limits /\ Room

\* It holds of every behaviour, whatever order requests settle, prune and go in.
LEMMA SlotsSpecInv ==
  ASSUME Apart
  PROVE  SlotsSpec => []SlotsInv
<1>1. SlotsInit => SlotsInv
  BY InitSlots DEF SlotsInv
<1>2. SlotsInv /\ [SlotsNext]_slotsVars => SlotsInv'
  BY NextTables, NextCalls, NextIndexed, NextLimits DEF SlotsInv
<1> QED BY <1>1, <1>2, PTL DEF SlotsSpec

\* The tables keep their types, and the limits of cached and in-flight slots of a store
\* (MAX_CACHE_SLOTS_PER_STORE, MAX_INFLIGHT_SLOTS_PER_STORE) hold at every moment, between two
\* prunings too, and although a request is counted before it is in flight.
THEOREM SlotTypes ==
  ASSUME Apart
  PROVE  SlotsSpec => []SlotsTypeOK
<1>1. SlotsInv => SlotsTypeOK
  BY DEF SlotsInv, Tables, Calls, Placed, Limits, SlotsTypeOK
<1> QED BY <1>1, SlotsSpecInv, PTL

\* The index has every slot that a table holds, under the store that uses it, whatever order
\* requests settle, prune, lose their windows or are deleted in (trackAsyncSlot,
\* releaseAsyncSlotIfOrphaned): collectStoreSlotsByScan finds nothing it does not have.
THEOREM IndexLosesNothing ==
  ASSUME Apart
  PROVE  SlotsSpec => []IndexComplete
<1>1. SlotsInv => IndexComplete
  BY DEF SlotsInv
<1> QED BY <1>1, SlotsSpecInv, PTL

\* Deleting a store takes all of its slots and no other store's, and what its requests still
\* write afterwards goes with them (clearAsyncMeta, clearInflightEntry), unless a hook deletes
\* the store between the cached entry that a call shows and the call's next step.
THEOREM DeletionsAreExact ==
  ASSUME Apart, ~DeleteWhileShowing
  PROVE  SlotsSpec => DeletionIsExact
<1> DEFINE Exact == \A n \in existing \ existing' : \A s \in Referenced \ SlotsOf[n] :
                      /\ s \in Referenced'
                      /\ s \in inflight <=> s \in inflight'
                      /\ requestVersion'[s] = requestVersion[s]
<1>1. SlotsInit => Gone
  BY InitSlots
<1>2. SlotsInv /\ Gone /\ [SlotsNext]_slotsVars => Gone'
  BY NextGone DEF SlotsInv
<1>3. SlotsInv /\ Gone => NothingLeaks
  BY GoneLeaksNothing DEF SlotsInv
<1>4. ASSUME SlotsInv, SlotsNext PROVE Exact
  <2> SUFFICES ASSUME NEW n \in existing \ existing', NEW s \in Referenced \ SlotsOf[n]
               PROVE  /\ s \in Referenced'
                      /\ s \in inflight <=> s \in inflight'
                      /\ requestVersion'[s] = requestVersion[s]
    OBVIOUS
  <2>1. n \in Stores
    BY <1>4 DEF SlotsInv, Tables
  <2>2. PICK m \in Stores : Delete(m)
    <3>1. ASSUME NEW k \in Stores, NEW x, Lookup(k, x) PROVE existing \subseteq existing'
      BY <3>1 DEF Lookup
    <3> QED BY <1>4, <3>1 DEF SlotsNext, ShowCached, Join, Call, RegisterCleanup, Enter, Answer, EndWithoutAnswer,
               Settle, RatePruneTimer, Create, ResetAsyncState
  <2>3. PICK S \in SUBSET SlotsOf[m] : ClearSlots(S) /\ existing' = existing \ {m}
    BY <1>4, <2>2, DeleteIs DEF SlotsInv
  <2>4. s \notin S /\ s \in Slots
    BY <1>4, <2>3, ReferencedIs DEF SlotsInv
  <2>5. /\ s \in inflight <=> s \in inflight'
        /\ s \in rateWindows <=> s \in rateWindows'
        /\ requestVersion'[s] = requestVersion[s] /\ requestSequence'[s] = requestSequence[s]
    BY <2>3, <2>4 DEF ClearSlots
  <2>6. Range(cacheMeta') = Range(cacheMeta) \ S
    BY <1>4, <2>3, WithoutIs DEF ClearSlots, SlotsInv, Tables
  <2>7. s \in Referenced'
    BY <2>4, <2>5, <2>6 DEF Referenced
  <2> QED BY <2>5, <2>7
<1>5. SlotsInv /\ (NothingLeaks)' /\ [SlotsNext]_slotsVars =>
        [/\ NothingLeaks'
         /\ \A n \in existing \ existing' : \A s \in Referenced \ SlotsOf[n] :
              /\ s \in Referenced'
              /\ s \in inflight <=> s \in inflight'
              /\ requestVersion'[s] = requestVersion[s]]_slotsVars
  BY <1>4
<1> QED BY <1>1, <1>2, <1>3, <1>5, SlotsSpecInv, PTL DEF SlotsSpec, DeletionIsExact
=============================================================================
