-------------------------- MODULE Persist_proofs ---------------------------
(***************************************************************************)
(* Proofs about Persist: its types, that an older state never replaces a   *)
(* newer one, and that nothing is forgotten, for any number of writes,     *)
(* creations and page hides, with a slow or a synchronous driver, and with *)
(* faults.                                                                 *)
(***************************************************************************)
EXTENDS Persist, SequenceTheorems, TLAPS

-----------------------------------------------------------------------------
(***************************************************************************)
(* What the helpers make of the writes under way.                          *)
(***************************************************************************)

\* v is w, but for what tells who waits for whom.
Same(v, w) ==
  /\ v.incarnation = w.incarnation /\ v.sequence = w.sequence
  /\ v.timed = w.timed /\ v.stage = w.stage /\ v.payload = w.payload

LEMMA WritesAre ==
  ASSUME NEW ws \in Seq(WriteRecord)
  PROVE  /\ Len(ws) \in Nat /\ DOMAIN ws = 1 .. Len(ws) /\ (ws = <<>> <=> Len(ws) = 0)
         /\ \A i \in DOMAIN ws :
              /\ ws[i] \in WriteRecord
              /\ ws[i].incarnation \in 1 .. MaxCreates /\ ws[i].sequence \in Nat
              /\ ws[i].timed \in {"no", "current", "superseded"} /\ ws[i].behind \in BOOLEAN
              /\ ws[i].stage \in {"wait", "sealing", "sent", "stored"} /\ ws[i].payload \in Stamps
<1>1. Len(ws) \in Nat /\ DOMAIN ws = 1 .. Len(ws) /\ \A i \in DOMAIN ws : ws[i] \in WriteRecord
  BY LenProperties, ElementOfSeq
<1>2. ws = <<>> <=> Len(ws) = 0
  BY EmptySeq
<1> QED BY <1>1, <1>2 DEF WriteRecord

LEMMA SupersedeIs ==
  ASSUME NEW ws \in Seq(WriteRecord)
  PROVE  /\ Supersede(ws) \in Seq(WriteRecord) /\ Len(Supersede(ws)) = Len(ws)
         /\ DOMAIN Supersede(ws) = DOMAIN ws
         /\ \A i \in DOMAIN ws :
              /\ Supersede(ws)[i] = [ws[i] EXCEPT !.timed = IF @ = "current" THEN "superseded" ELSE @]
              /\ Supersede(ws)[i].incarnation = ws[i].incarnation
              /\ Supersede(ws)[i].sequence = ws[i].sequence
              /\ Supersede(ws)[i].behind = ws[i].behind
              /\ Supersede(ws)[i].stage = ws[i].stage
              /\ Supersede(ws)[i].payload = ws[i].payload
              /\ Supersede(ws)[i].timed # "current"
<1> DEFINE f(i) == [ws[i] EXCEPT !.timed = IF @ = "current" THEN "superseded" ELSE @]
<1>1. PICK n \in Nat : n = Len(ws)
  BY WritesAre
<1>2. DOMAIN ws = 1 .. n
  BY <1>1, WritesAre
<1>3. ASSUME NEW i \in 1 .. n
      PROVE  /\ f(i) \in WriteRecord /\ f(i).timed # "current"
             /\ f(i).incarnation = ws[i].incarnation /\ f(i).sequence = ws[i].sequence
             /\ f(i).behind = ws[i].behind /\ f(i).stage = ws[i].stage /\ f(i).payload = ws[i].payload
  <2>1. ws[i] \in WriteRecord
    BY <1>2, WritesAre
  <2> QED BY <2>1 DEF WriteRecord
<1>4. Supersede(ws) = [i \in 1 .. n |-> f(i)]
  BY <1>2 DEF Supersede
<1>5. Supersede(ws) \in Seq(WriteRecord)
  BY <1>3, <1>4
<1>6. DOMAIN Supersede(ws) = 1 .. n /\ \A i \in 1 .. n : Supersede(ws)[i] = f(i)
  BY <1>4
<1>7. Len(Supersede(ws)) = n
  BY <1>1, <1>5, <1>6, LenProperties
<1> HIDE DEF f
<1> QED BY <1>1, <1>2, <1>3, <1>5, <1>6, <1>7 DEF f

LEMMA FinishIs ==
  ASSUME writes \in Seq(WriteRecord), NEW i \in DOMAIN writes, FinishWrite(i)
  PROVE  /\ writes' \in Seq(WriteRecord) /\ Len(writes') = Len(writes) - 1
         /\ DOMAIN writes' = 1 .. Len(writes) - 1
         /\ \A j \in 1 .. Len(writes) - 1 :
              LET w == writes[IF j < i THEN j ELSE j + 1]
              IN  Same(writes'[j], w) /\ writes'[j].behind = (w.behind /\ j # i)
<1>1. PICK n \in Nat : n = Len(writes)
  BY WritesAre
<1>2. PICK ws : ws = writes
  OBVIOUS
<1>3. /\ ws \in Seq(WriteRecord) /\ n = Len(ws) /\ i \in 1 .. n /\ DOMAIN ws = 1 .. n
      /\ \A j \in 1 .. n : ws[j] \in WriteRecord
  BY <1>1, <1>2, WritesAre
<1>4. PICK a, b : a = SubSeq(ws, 1, i - 1) /\ b = SubSeq(ws, i + 1, n)
  OBVIOUS
<1>5. /\ a \in Seq(WriteRecord) /\ Len(a) = i - 1
      /\ \A j \in 1 .. i - 1 : a[j] = ws[j]
  <2>1. \A j \in 1 .. i - 1 : ws[j] \in WriteRecord
    BY <1>3
  <2>2. /\ a \in Seq(WriteRecord) /\ Len(a) = IF 1 <= i - 1 THEN i - 1 - 1 + 1 ELSE 0
        /\ \A j \in 1 .. i - 1 - 1 + 1 : a[j] = ws[1 + j - 1]
    BY <1>3, <1>4, <2>1, SubSeqProperties
  <2> QED BY <1>3, <2>2
<1>6. /\ b \in Seq(WriteRecord) /\ Len(b) = n - i
      /\ \A j \in 1 .. n - i : b[j] = ws[i + j]
  <2>1. \A j \in i + 1 .. n : ws[j] \in WriteRecord
    BY <1>3
  <2>2. /\ b \in Seq(WriteRecord) /\ Len(b) = IF i + 1 <= n THEN n - (i + 1) + 1 ELSE 0
        /\ \A j \in 1 .. n - (i + 1) + 1 : b[j] = ws[i + 1 + j - 1]
    BY <1>1, <1>3, <1>4, <2>1, SubSeqProperties
  <2>3. Len(b) = n - i
    BY <1>1, <1>3, <2>2
  <2>4. ASSUME NEW j \in 1 .. n - i PROVE b[j] = ws[i + j]
    <3>1. j \in 1 .. n - (i + 1) + 1 /\ i + 1 + j - 1 = i + j
      BY <1>1, <1>3, <2>4
    <3> QED BY <2>2, <3>1
  <2> QED BY <2>2, <2>3, <2>4
<1>7. PICK r : r = RemoveAt(writes, i)
  OBVIOUS
<1>8. r = a \o b
  BY <1>1, <1>2, <1>4, <1>7 DEF RemoveAt
<1>9. /\ r \in Seq(WriteRecord) /\ Len(r) = n - 1
      /\ \A j \in 1 .. n - 1 : r[j] = IF j <= i - 1 THEN a[j] ELSE b[j - (i - 1)]
  <2>1. i \in Nat /\ n \in Nat /\ Len(a) = i - 1 /\ Len(b) = n - i
    BY <1>1, <1>3, <1>5, <1>6
  <2>2. Len(a) + Len(b) = n - 1
    BY <2>1
  <2>3. /\ a \o b \in Seq(WriteRecord) /\ Len(a \o b) = Len(a) + Len(b)
        /\ \A j \in 1 .. Len(a) + Len(b) : (a \o b)[j] = IF j <= Len(a) THEN a[j] ELSE b[j - Len(a)]
    BY <1>5, <1>6, ConcatProperties
  <2> QED BY <1>8, <2>1, <2>2, <2>3
<1>10. DOMAIN r = 1 .. n - 1 /\ n - 1 \in Nat
  BY <1>3, <1>9, LenProperties
<1>11. ASSUME NEW j \in 1 .. n - 1
       PROVE  r[j] = writes[IF j < i THEN j ELSE j + 1] /\ r[j] \in WriteRecord
  <2>1. CASE j < i
    BY <1>2, <1>3, <1>5, <1>9, <2>1
  <2>2. CASE ~(j < i)
    <3>1. j - (i - 1) \in 1 .. n - i /\ i + (j - (i - 1)) = j + 1 /\ ~(j <= i - 1) /\ j + 1 \in 1 .. n
      BY <1>3, <2>2
    <3>2. r[j] = ws[j + 1]
      BY <1>6, <1>9, <3>1
    <3> QED BY <1>2, <1>3, <2>2, <3>1, <3>2
  <2> QED BY <2>1, <2>2
<1> DEFINE f(j) == [r[j] EXCEPT !.behind = @ /\ j # i]
<1>12. writes' = [j \in 1 .. n - 1 |-> f(j)]
  BY <1>7, <1>10 DEF FinishWrite
<1>13. ASSUME NEW j \in 1 .. n - 1
       PROVE  f(j) \in WriteRecord /\ Same(f(j), r[j]) /\ f(j).behind = (r[j].behind /\ j # i)
  <2>1. r[j] \in WriteRecord
    BY <1>11
  <2> QED BY <2>1 DEF WriteRecord, Same
<1>14. writes' \in Seq(WriteRecord)
  <2>1. PICK m \in Nat : m = n - 1
    BY <1>10
  <2>2. writes' = [j \in 1 .. m |-> f(j)] /\ \A j \in 1 .. m : f(j) \in WriteRecord
    BY <1>12, <1>13, <2>1
  <2> HIDE DEF f
  <2> QED BY <2>2
<1>15. DOMAIN writes' = 1 .. n - 1 /\ \A j \in 1 .. n - 1 : writes'[j] = f(j)
  BY <1>12
<1>16. Len(writes') = n - 1
  BY <1>10, <1>14, <1>15, LenProperties
<1> HIDE DEF f
<1>17. \A j \in 1 .. n - 1 : Same(writes'[j], writes[IF j < i THEN j ELSE j + 1])
  BY <1>11, <1>13, <1>15
<1>18. \A j \in 1 .. n - 1 : writes'[j].behind = (writes[IF j < i THEN j ELSE j + 1].behind /\ j # i)
  BY <1>11, <1>13, <1>15
<1> QED BY <1>1, <1>14, <1>15, <1>16, <1>17, <1>18

\* A write that goes on: its stage, and its payload if it waited.
GoesOn(i, s, p) ==
  \/ writes' = [writes EXCEPT ![i].stage = s, ![i].payload = p]
  \/ writes' = [writes EXCEPT ![i].stage = s] /\ p = writes[i].payload

LEMMA GoingOnIs ==
  ASSUME writes \in Seq(WriteRecord), NEW i \in DOMAIN writes,
         NEW s \in {"sealing", "sent", "stored"}, NEW p \in Stamps,
         GoesOn(i, s, p)
  PROVE  /\ writes' \in Seq(WriteRecord) /\ Len(writes') = Len(writes) /\ DOMAIN writes' = DOMAIN writes
         /\ \A j \in DOMAIN writes : j # i => writes'[j] = writes[j]
         /\ writes'[i].incarnation = writes[i].incarnation /\ writes'[i].sequence = writes[i].sequence
         /\ writes'[i].timed = writes[i].timed /\ writes'[i].behind = writes[i].behind
         /\ writes'[i].stage = s /\ writes'[i].payload = p
<1>1. PICK w : w = [writes[i] EXCEPT !.stage = s, !.payload = p]
  OBVIOUS
<1>2. writes[i] \in WriteRecord /\ DOMAIN writes = 1 .. Len(writes)
  BY WritesAre
<1>3. /\ w \in WriteRecord /\ w.stage = s /\ w.payload = p /\ w.incarnation = writes[i].incarnation
      /\ w.sequence = writes[i].sequence /\ w.timed = writes[i].timed /\ w.behind = writes[i].behind
  BY <1>1, <1>2 DEF WriteRecord
<1>4. writes' = [writes EXCEPT ![i] = w]
  <2>1. PICK v : v = [writes[i] EXCEPT !.stage = s]
    OBVIOUS
  <2>2. v = [writes[i] EXCEPT !.stage = s] /\ w = [v EXCEPT !.payload = p]
    BY <1>1, <2>1
  <2>3. CASE writes' = [writes EXCEPT ![i].stage = s, ![i].payload = p]
    <3>1. PICK f : f = [writes EXCEPT ![i] = v]
      OBVIOUS
    <3>2. f = [writes EXCEPT ![i].stage = s] /\ f[i] = v
      BY <2>1, <3>1
    <3>3. writes' = [f EXCEPT ![i] = w]
      BY <2>2, <2>3, <3>2
    <3> QED BY <3>1, <3>3
  <2>4. CASE writes' = [writes EXCEPT ![i].stage = s] /\ p = writes[i].payload
    <3>1. w = v
      BY <1>2, <2>2, <2>4 DEF WriteRecord
    <3> QED BY <2>1, <2>4, <3>1
  <2> QED BY <2>3, <2>4 DEF GoesOn
<1>5. /\ writes' \in Seq(WriteRecord) /\ Len(writes') = Len(writes)
      /\ \A j \in 1 .. Len(writes) : writes'[j] = IF j = i THEN w ELSE writes[j]
  BY <1>2, <1>3, <1>4, ExceptSeq
<1>6. DOMAIN writes' = DOMAIN writes
  BY <1>2, <1>5, LenProperties
<1> QED BY <1>2, <1>3, <1>5, <1>6

LEMMA StartIs ==
  ASSUME NEW ws \in Seq(WriteRecord), NEW timed \in {"no", "current"}, StartWrite(ws, timed),
         incarnation \in 1 .. MaxCreates, persistSequence \in Nat, value \in Stamps
  PROVE  /\ persistSequence' = persistSequence + 1
         /\ writes' \in Seq(WriteRecord) /\ Len(writes') = Len(ws) + 1
         /\ DOMAIN writes' = 1 .. Len(ws) + 1
         /\ \A j \in DOMAIN ws : writes'[j] = ws[j]
         /\ LET w == writes'[Len(ws) + 1]
            IN  /\ w.incarnation = incarnation /\ w.sequence = persistSequence + 1 /\ w.timed = timed
                /\ w.behind <=> InFlight(ws)
                /\ InFlight(ws) => w.stage = "wait" /\ w.payload = 0
                /\ ~InFlight(ws) => w.stage = "sealing" /\ w.payload = value
<1>1. PICK w : w = [incarnation |-> incarnation, sequence |-> persistSequence + 1,
       timed |-> timed, behind |-> InFlight(ws),
       stage |-> IF InFlight(ws) THEN "wait" ELSE "sealing",
       payload |-> IF InFlight(ws) THEN 0 ELSE value]
  OBVIOUS
<1>2. 0 \in Stamps /\ InFlight(ws) \in BOOLEAN
  BY PersistAssumption DEF Stamps, InFlight
<1>3. w \in WriteRecord
  BY <1>1, <1>2 DEF WriteRecord
<1>4. persistSequence' = persistSequence + 1 /\ writes' = Append(ws, w)
  BY <1>1 DEF StartWrite
<1>5. /\ writes' \in Seq(WriteRecord) /\ Len(writes') = Len(ws) + 1
      /\ \A j \in 1 .. Len(ws) : writes'[j] = ws[j]
      /\ writes'[Len(ws) + 1] = w
  BY <1>3, <1>4, AppendProperties
<1>6. DOMAIN writes' = 1 .. Len(ws) + 1 /\ DOMAIN ws = 1 .. Len(ws)
  BY <1>5, LenProperties
<1>7. /\ w.incarnation = incarnation /\ w.sequence = persistSequence + 1 /\ w.timed = timed
      /\ w.behind <=> InFlight(ws)
      /\ InFlight(ws) => w.stage = "wait" /\ w.payload = 0
      /\ ~InFlight(ws) => w.stage = "sealing" /\ w.payload = value
  BY <1>1
<1> QED BY <1>4, <1>5, <1>6, <1>7

-----------------------------------------------------------------------------
(***************************************************************************)
(* Types: the timer that fired is that of one write.                       *)
(***************************************************************************)

OneTimer(ws) == \A i, j \in DOMAIN ws : ws[i].timed = "current" /\ ws[j].timed = "current" => i = j

\* The timer t and the writes ws fit each other.
Timed(t, ws) ==
  /\ t \in {"none", "due", "fired"}
  /\ ws \in Seq(WriteRecord)
  /\ t = "fired" <=> \E i \in DOMAIN ws : ws[i].timed = "current"
  /\ OneTimer(ws)

Types ==
  /\ TypeOK
  /\ OneTimer(writes)
  /\ alive => incarnation >= 1
  /\ ~alive => timer = "none" /\ loading = "no"

LEMMA NumbersAre ==
  ASSUME Types
  PROVE  /\ Stamps \subseteq Nat /\ 0 \in Stamps /\ None \in Nat /\ None \notin Stamps
         /\ stamp \in Nat /\ value \in Nat /\ MaxWrites \in Nat /\ MaxCreates \in Nat
         /\ alive => incarnation \in 1 .. MaxCreates
         /\ Timed(timer, writes)
         /\ \A i \in DOMAIN writes : writes[i].payload \in Nat /\ writes[i].sequence \in Nat
         /\ persistSequence \in Nat /\ (storage # None => storage \in Nat)
<1>1. Stamps \subseteq Nat /\ 0 \in Stamps /\ None \in Nat /\ None \notin Stamps
  BY PersistAssumption DEF Stamps, None
<1>2. alive => incarnation \in 1 .. MaxCreates
  BY PersistAssumption DEF Types, TypeOK
<1> QED BY <1>1, <1>2, WritesAre, PersistAssumption DEF Types, TypeOK, Timed

LEMMA PersistSaveTimed ==
  ASSUME Timed(timer, writes), PersistSave
  PROVE  Timed(timer', writes')
  BY SupersedeIs DEF Timed, OneTimer, PersistSave

LEMMA FinishTimed ==
  ASSUME Timed(timer, writes), NEW i \in DOMAIN writes, FinishWrite(i)
  PROVE  Timed(timer', writes')
<1>1. PICK n \in Nat : n = Len(writes) /\ DOMAIN writes = 1 .. n
  BY WritesAre DEF Timed
<1>2. /\ writes' \in Seq(WriteRecord) /\ DOMAIN writes' = 1 .. n - 1
      /\ \A j \in 1 .. n - 1 : writes'[j].timed = writes[IF j < i THEN j ELSE j + 1].timed
  BY <1>1, FinishIs DEF Timed, Same
<1>3. timer' = IF writes[i].timed = "current" THEN "none" ELSE timer
  BY DEF FinishWrite
<1>4. i \in 1 .. n /\ \A j \in 1 .. n - 1 : j \in 1 .. n /\ j + 1 \in 1 .. n
  BY <1>1
<1>5. OneTimer(writes')
  BY <1>1, <1>2, <1>4 DEF Timed, OneTimer
<1>6. CASE writes[i].timed = "current"
  <2>1. ASSUME NEW j \in 1 .. n - 1 PROVE writes'[j].timed # "current"
    <3>1. \A k \in 1 .. n : writes[k].timed = "current" => k = i
      BY <1>1, <1>6 DEF Timed, OneTimer
    <3>2. PICK k : k = IF j < i THEN j ELSE j + 1
      OBVIOUS
    <3>3. k \in 1 .. n /\ k # i
      BY <1>4, <3>2
    <3> QED BY <1>2, <3>1, <3>2, <3>3
  <2> QED BY <1>2, <1>3, <1>5, <1>6, <2>1 DEF Timed
<1>7. CASE writes[i].timed # "current"
  <2>1. ASSUME NEW k \in 1 .. n, writes[k].timed = "current"
        PROVE  \E j \in 1 .. n - 1 : writes'[j].timed = "current"
    <3>1. CASE k < i
      <4>1. k \in 1 .. n - 1 /\ writes'[k].timed = writes[k].timed
        BY <1>2, <1>4, <3>1
      <4> QED BY <2>1, <4>1
    <3>2. CASE k > i
      <4>1. k - 1 \in 1 .. n - 1 /\ ~(k - 1 < i) /\ k - 1 + 1 = k
        BY <1>4, <3>2
      <4>2. writes'[k - 1].timed = writes[k].timed
        BY <1>2, <4>1
      <4> QED BY <2>1, <4>1, <4>2
    <3> QED BY <1>4, <1>7, <2>1, <3>1, <3>2
  <2>2. (\E j \in 1 .. n - 1 : writes'[j].timed = "current") <=> \E k \in 1 .. n : writes[k].timed = "current"
    BY <1>2, <1>4, <2>1
  <2> QED BY <1>1, <1>2, <1>3, <1>5, <1>7, <2>2 DEF Timed
<1> QED BY <1>6, <1>7

LEMMA GoingOnTimed ==
  ASSUME Timed(timer, writes), NEW i \in DOMAIN writes, timer' = timer,
         NEW s \in {"sealing", "sent", "stored"}, NEW p \in Stamps,
         GoesOn(i, s, p)
  PROVE  Timed(timer', writes')
<1>1. /\ writes' \in Seq(WriteRecord) /\ DOMAIN writes' = DOMAIN writes
      /\ \A j \in DOMAIN writes : writes'[j].timed = writes[j].timed
  BY GoingOnIs DEF Timed
<1> QED BY <1>1 DEF Timed, OneTimer

LEMMA StartTimed ==
  ASSUME NEW ws \in Seq(WriteRecord), NEW timed \in {"no", "current"}, StartWrite(ws, timed),
         incarnation \in 1 .. MaxCreates, persistSequence \in Nat, value \in Stamps,
         \A j \in DOMAIN ws : ws[j].timed # "current",
         timer' = IF timed = "current" THEN "fired" ELSE "none"
  PROVE  Timed(timer', writes')
<1>1. PICK n \in Nat : n = Len(ws) /\ DOMAIN ws = 1 .. n
  BY WritesAre
<1>2. /\ writes' \in Seq(WriteRecord) /\ DOMAIN writes' = 1 .. n + 1
      /\ \A j \in 1 .. n : writes'[j].timed # "current"
      /\ writes'[n + 1].timed = timed
  BY <1>1, StartIs
<1>3. n + 1 \in 1 .. n + 1 /\ \A j \in 1 .. n + 1 : j = n + 1 \/ j \in 1 .. n
  BY <1>1
<1> QED BY <1>2, <1>3 DEF Timed, OneTimer

\* What is not about writes.
TypeRest ==
  /\ {slow, alive, listening, hidden, failed, rejected} \subseteq BOOLEAN
  /\ value \in Stamps /\ stamp \in Stamps
  /\ updateCount \in Nat /\ persistSequence \in Nat
  /\ incarnation \in 0 .. MaxCreates /\ hides \in 0 .. MaxHides
  /\ storage \in Stamps \cup {None}
  /\ loads \subseteq [incarnation : 1 .. MaxCreates, raw : Stamps \cup {None}]
  /\ loading \in {"no", "loading", "pendingSave"}
  /\ alive => incarnation >= 1
  /\ ~alive => loading = "no"

LEMMA TypesAre == Types <=> TypeRest /\ Timed(timer, writes) /\ (~alive => timer = "none")
  BY DEF Types, TypeOK, TypeRest, Timed

LEMMA EmptyTimed == Timed("none", <<>>)
<1>1. <<>> \in Seq(WriteRecord) /\ Len(<<>>) = 0
  BY EmptySeq
<1>2. DOMAIN <<>> = {}
  BY <1>1, LenProperties
<1> QED BY <1>1, <1>2 DEF Timed, OneTimer

LEMMA TypesNext == Types' <=> TypeRest' /\ Timed(timer', writes') /\ (~alive' => timer' = "none")
<1>1. Types' <=> (TypeRest /\ Timed(timer, writes) /\ (~alive => timer = "none"))'
  BY TypesAre, PTL
<1> QED BY <1>1

LEMMA InitTypes == Init => Types
<1> SUFFICES ASSUME Init PROVE Types
  OBVIOUS
<1>1. Timed(timer, writes)
  BY EmptyTimed DEF Init
<1>2. 0 \in Stamps /\ 0 \in 0 .. MaxCreates /\ 0 \in 0 .. MaxHides
  BY PersistAssumption DEF Stamps
<1>3. TypeRest
  BY <1>2 DEF Init, TypeRest
<1> QED BY <1>1, <1>3, TypesAre DEF Init

LEMMA NextTypes ==
  ASSUME Types, [Next]_vars
  PROVE  Types'
<1>1. /\ TypeRest /\ Timed(timer, writes) /\ writes \in Seq(WriteRecord)
      /\ ~alive => timer = "none" /\ loading = "no"
  BY TypesAre DEF Timed, TypeRest
<1>2. /\ Stamps \subseteq Nat /\ 0 \in Stamps /\ None \notin Stamps /\ MaxWrites \in Nat /\ MaxCreates \in Nat /\ MaxHides \in Nat
      /\ alive => incarnation \in 1 .. MaxCreates
  BY NumbersAre, PersistAssumption
<1> SUFFICES TypeRest' /\ Timed(timer', writes') /\ (~alive' => timer' = "none")
  BY TypesNext
<1>3. ASSUME CreateStore PROVE TypeRest' /\ Timed(timer', writes') /\ alive'
  <2>1. TypeRest'
    <3>1. PICK l : l = [incarnation |-> incarnation', raw |-> storage]
      OBVIOUS
    <3>2. incarnation' \in 1 .. MaxCreates
      BY <1>1, <1>2, <1>3 DEF CreateStore, TypeRest
    <3>3. l \in [incarnation : 1 .. MaxCreates, raw : Stamps \cup {None}]
      BY <1>1, <3>1, <3>2 DEF TypeRest
    <3>4. loads' = loads \cup {l} \/ loads' = loads
      BY <1>3, <3>1 DEF CreateStore, loadVars
    <3>5. /\ value' \in Stamps /\ updateCount' \in {0, 1} /\ rejected' \in BOOLEAN
          /\ loading' \in {"no", "loading", "pendingSave"}
      <4>1. value' \in Stamps
        BY <1>1, <1>2, <1>3 DEF CreateStore, TypeRest
      <4>2. updateCount' \in {0, 1} /\ rejected' \in BOOLEAN
        BY <1>3 DEF CreateStore
      <4>3. loading' \in {"no", "loading", "pendingSave"}
        BY <1>1, <1>3 DEF CreateStore, TypeRest, loadVars
      <4> QED BY <4>1, <4>2, <4>3
    <3>6. /\ {slow, alive, listening, hidden, failed, rejected}' \subseteq BOOLEAN
          /\ stamp' \in Stamps /\ persistSequence' \in Nat /\ hides' \in 0 .. MaxHides /\ storage' \in Stamps \cup {None}
      BY <1>1, <1>3, <3>5 DEF CreateStore, TypeRest
    <3>7. alive' /\ incarnation' \in 0 .. MaxCreates /\ incarnation' >= 1
      BY <1>2, <1>3, <3>2 DEF CreateStore
    <3>8. loads' \subseteq [incarnation : 1 .. MaxCreates, raw : Stamps \cup {None}]
      BY <1>1, <3>3, <3>4 DEF TypeRest
    <3>9. updateCount' \in Nat
      BY <3>5
    <3> QED BY <3>5, <3>6, <3>7, <3>8, <3>9 DEF TypeRest
  <2>2. Timed(timer', writes')
    BY <1>1, <1>3, PersistSaveTimed DEF CreateStore
  <2> QED BY <1>3, <2>1, <2>2 DEF CreateStore
<1>4. ASSUME Write PROVE TypeRest' /\ Timed(timer', writes') /\ alive'
  <2>1. stamp' \in Stamps /\ value' \in Stamps /\ updateCount' \in Nat
    BY <1>1, <1>2, <1>4 DEF Write, TypeRest, Stamps
  <2>2. /\ loading' \in {"no", "loading", "pendingSave"} /\ hidden' \in BOOLEAN /\ alive' /\ alive
        /\ UNCHANGED <<slow, alive, incarnation, storage, persistSequence, loads, listening, hides, failed, rejected>>
    BY <1>1, <1>4 DEF Write, TypeRest, ghosts
  <2>3. TypeRest'
    BY <1>1, <2>1, <2>2 DEF TypeRest
  <2>4. Timed(timer', writes')
    BY <1>1, <1>4, PersistSaveTimed DEF Write
  <2> QED BY <2>2, <2>3, <2>4
<1>5. ASSUME FireTimer PROVE TypeRest' /\ Timed(timer', writes') /\ alive'
  <2>1. /\ alive /\ incarnation \in 1 .. MaxCreates /\ timer = "due" /\ timer' = "fired"
        /\ StartWrite(writes, "current")
        /\ UNCHANGED <<slow, alive, value, updateCount, incarnation, storage, loads, loading, listening, hides, hidden, stamp, failed, rejected>>
    BY <1>1, <1>2, <1>5 DEF FireTimer, storeVars, loadVars, hideVars, ghosts
  <2>2. Timed(timer', writes')
    BY <1>1, <2>1, StartTimed DEF Timed, TypeRest
  <2>3. persistSequence' \in Nat
    BY <1>1, <2>1 DEF StartWrite, TypeRest
  <2> QED BY <1>1, <2>1, <2>2, <2>3 DEF TypeRest
<1>6. ASSUME PageHide PROVE TypeRest' /\ Timed(timer', writes') /\ alive'
  <2>1. /\ alive /\ incarnation \in 1 .. MaxCreates
        /\ hides' \in 0 .. MaxHides /\ hidden' \in BOOLEAN /\ listening' \in BOOLEAN
        /\ UNCHANGED <<slow, alive, value, updateCount, incarnation, storage, loads, loading, stamp, failed, rejected>>
    <3>1. hides' \in 0 .. MaxHides
      BY <1>1, <1>2, <1>6 DEF PageHide, TypeRest
    <3> QED BY <1>2, <1>6, <3>1 DEF PageHide, storeVars, loadVars, ghosts
  <2>2. Timed(timer', writes') /\ persistSequence' \in Nat
    <3>1. CASE timer' = "none" /\ StartWrite(Supersede(writes), "no")
      <4>1. Supersede(writes) \in Seq(WriteRecord) /\ \A j \in DOMAIN Supersede(writes) : Supersede(writes)[j].timed # "current"
        BY <1>1, SupersedeIs
      <4> QED BY <1>1, <2>1, <3>1, <4>1, StartTimed, StartIs DEF TypeRest
    <3>2. CASE UNCHANGED saveVars
      BY <1>1, <3>2 DEF saveVars, TypeRest
    <3> QED BY <1>6, <3>1, <3>2 DEF PageHide, FlushPersistImmediately
  <2> QED BY <1>1, <2>1, <2>2 DEF TypeRest
<1>7. ASSUME DeleteStore PROVE TypeRest' /\ Timed(timer', writes') /\ timer' = "none"
  <2>1. Timed(timer', writes')
    BY <1>1, <1>7, SupersedeIs DEF DeleteStore, Timed, OneTimer
  <2>2. /\ UNCHANGED <<slow, value, updateCount, incarnation, loads, hides, stamp, failed, rejected>>
        /\ ~alive' /\ alive' \in BOOLEAN /\ storage' = None /\ persistSequence' = 0 /\ loading' = "no"
        /\ listening' \in BOOLEAN /\ hidden' \in BOOLEAN /\ timer' = "none"
    BY <1>7 DEF DeleteStore, ghosts
  <2> QED BY <1>1, <2>1, <2>2 DEF TypeRest
<1>8. ASSUME Reload PROVE TypeRest' /\ Timed(timer', writes') /\ timer' = "none"
  <2>1. /\ UNCHANGED <<slow, value, updateCount, incarnation, storage, hides, stamp, failed, rejected>>
        /\ ~alive' /\ alive' \in BOOLEAN /\ persistSequence' = 0 /\ loads' = {} /\ loading' = "no"
        /\ listening' \in BOOLEAN /\ hidden' \in BOOLEAN /\ timer' = "none" /\ writes' = <<>>
    BY <1>8 DEF Reload, ghosts
  <2>2. TypeRest'
    BY <1>1, <2>1 DEF TypeRest
  <2> QED BY <2>1, <2>2, EmptyTimed
<1>9. ASSUME NEW l \in loads, FinishLoad(l) PROVE TypeRest' /\ Timed(timer', writes') /\ (~alive' => timer' = "none")
  <2>1. /\ UNCHANGED <<slow, alive, incarnation, storage, persistSequence, listening, hides, stamp, failed>>
        /\ loads' \subseteq loads /\ loading' = "no"
        /\ hidden' = (hidden /\ value' = value)
    BY <1>9 DEF FinishLoad
  <2>2. value' \in Stamps /\ updateCount' \in Nat /\ rejected' \in BOOLEAN
    <3>1. l.raw # None => l.raw \in Stamps
      BY <1>1 DEF TypeRest
    <3>2. value' \in {value, l.raw, 0} /\ ((value' = l.raw /\ l.raw # None) \/ value' \in {value, 0})
      BY <1>9 DEF FinishLoad
    <3>3. updateCount' = updateCount \/ updateCount' = updateCount + 1
      BY <1>9 DEF FinishLoad
    <3>4. rejected' = rejected \/ rejected' = TRUE
      BY <1>9 DEF FinishLoad
    <3>5. value \in Stamps /\ updateCount \in Nat /\ rejected \in BOOLEAN
      BY <1>1 DEF TypeRest
    <3>6. value' \in Stamps
      BY <1>2, <3>1, <3>2, <3>5
    <3>7. updateCount' \in Nat
      BY <3>3, <3>5
    <3>8. rejected' \in BOOLEAN
      BY <3>4, <3>5, Zenon
    <3> QED BY <3>6, <3>7, <3>8
  <2>3. Timed(timer', writes') /\ (~alive => timer' = "none")
    BY <1>1, <1>9, PersistSaveTimed DEF FinishLoad
  <2> QED BY <1>1, <2>1, <2>2, <2>3 DEF TypeRest
<1>10. ASSUME NEW i \in DOMAIN writes, Continue(i) \/ Sealed(i) \/ SetItem(i) \/ Answered(i)
       PROVE  TypeRest' /\ Timed(timer', writes') /\ (~alive' => timer' = "none")
  <2>1. /\ UNCHANGED <<slow, alive, value, updateCount, incarnation, persistSequence, loads, loading, listening, hides, hidden, stamp>>
        /\ storage' = storage \/ (SetItem(i) /\ storage' = writes[i].payload)
        /\ failed' \in BOOLEAN /\ rejected' \in BOOLEAN
    BY <1>1, <1>10 DEF Continue, Sealed, SetItem, Answered, storeVars, loadVars, hideVars, ghosts, TypeRest
  <2>2. writes[i].payload \in Stamps
    BY <1>1, WritesAre
  <2>3. Timed(timer', writes') /\ (timer' = timer \/ timer' = "none")
    <3>1. CASE FinishWrite(i)
      BY <1>1, <3>1, FinishTimed DEF FinishWrite
    <3>2. CASE writes' = [writes EXCEPT ![i].stage = "sealing", ![i].payload = value] /\ UNCHANGED timer
      <4>1. GoesOn(i, "sealing", value)
        BY <3>2 DEF GoesOn
      <4> QED BY <1>1, <3>2, <4>1, GoingOnTimed DEF TypeRest
    <3>3. CASE (writes' = [writes EXCEPT ![i].stage = "sent"] \/ writes' = [writes EXCEPT ![i].stage = "stored"]) /\ UNCHANGED timer
      <4>1. GoesOn(i, "sent", writes[i].payload) \/ GoesOn(i, "stored", writes[i].payload)
        BY <3>3 DEF GoesOn
      <4> QED BY <1>1, <2>2, <3>3, <4>1, GoingOnTimed
    <3> QED BY <1>10, <3>1, <3>2, <3>3 DEF Continue, Sealed, SetItem, Answered
  <2> QED BY <1>1, <2>1, <2>2, <2>3 DEF TypeRest
<1>11. ASSUME UNCHANGED vars PROVE TypeRest' /\ Timed(timer', writes') /\ (~alive' => timer' = "none")
  BY <1>1, <1>11 DEF vars, storeVars, saveVars, loadVars, hideVars, ghosts, TypeRest
<1> QED BY <1>3, <1>4, <1>5, <1>6, <1>7, <1>8, <1>9, <1>10, <1>11 DEF Next

LEMMA SpecTypes == Spec => []Types
<1>1. Types /\ [Next]_vars => Types'
  BY NextTypes
<1> QED BY InitTypes, <1>1, PTL DEF Spec

-----------------------------------------------------------------------------
(***************************************************************************)
(* The inductive invariant.  It needs a page that is not hidden before its *)
(* load has ended, and a store that is created again only when all of the  *)
(* last one is over: without either TLC finds that an older state wins.    *)
(***************************************************************************)

Undisturbed == ~HideWhileLoading /\ ~RecreateBusy

\* The writes under way wait one for the other, and only the last is wanted.
Chain ==
  /\ \A i \in DOMAIN writes : writes[i].incarnation = incarnation /\ writes[i].sequence > 0
  /\ \A i \in DOMAIN writes : writes[i].behind <=> i # 1
  /\ \A i \in DOMAIN writes : i # 1 => writes[i].stage = "wait"
  /\ alive => \A i \in DOMAIN writes :
       writes[i].sequence <= persistSequence /\ (IsLatest(writes[i]) <=> i = Len(writes))
  /\ ~alive => persistSequence = 0

\* A store that loads what the key holds saves nothing before it has it.
LoadFirst ==
  /\ ~slow => loads = {}
  /\ ~alive => loading = "no" /\ timer = "none" /\ ~hidden
  /\ alive => (loading # "no" <=> loads # {}) /\ \A l \in loads : l.raw = storage
  /\ \A l, m \in loads : l = m
  /\ loading # "no" => writes = <<>> /\ timer = "none" /\ ~hidden
  /\ loading = "loading" => updateCount = 0
  /\ alive /\ updateCount = 0 => value = 0

\* What is stored is not newer than what will be, and that not newer than the store.
Ordered ==
  /\ value <= stamp /\ (storage # None => storage <= stamp)
  /\ \A i \in DOMAIN writes : writes[i].payload <= stamp /\ (alive => writes[i].payload <= value)
  /\ alive /\ storage # None /\ loading # "no" => updateCount = 0 \/ storage <= value
  /\ alive /\ storage # None /\ loading = "no" /\ ~rejected =>
       storage <= value /\ \A i \in DOMAIN writes : writes[i].stage = "wait" \/ storage <= writes[i].payload
  /\ ~alive => \A i \in DOMAIN writes : writes[i].stage = "sent" => storage = None

\* w will store, or has stored, the store's value.
Saves(w) ==
  IF w.stage = "wait" THEN w.timed # "superseded"
  ELSE w.payload = value /\ (w.stage = "stored" => storage = value)

\* When no timer will save the value, the last write does, or it is saved.
NothingForgotten ==
  alive /\ loading = "no" /\ timer # "due" =>
    IF writes = <<>> THEN failed \/ rejected \/ storage = value ELSE Saves(writes[Len(writes)])

HiddenIsSaved ==
  hidden /\ ~slow /\ ~HideAgain => timer # "due" /\ (writes = <<>> => failed \/ storage = value)

SaveInv == Chain /\ LoadFirst /\ Ordered /\ NothingForgotten /\ HiddenIsSaved

\* The parts of the invariant a step of the writes can disturb.
Facts ==
  /\ Stamps \subseteq Nat /\ None \in Nat /\ None \notin Stamps
  /\ stamp \in Nat /\ value \in Nat /\ persistSequence \in Nat /\ updateCount \in Nat
  /\ storage # None => storage \in Nat
  /\ Len(writes) \in Nat /\ DOMAIN writes = 1 .. Len(writes) /\ (writes = <<>> <=> Len(writes) = 0)
  /\ \A i \in DOMAIN writes : writes[i].payload \in Nat /\ writes[i].sequence \in Nat
  /\ timer \in {"none", "due", "fired"} /\ loading \in {"no", "loading", "pendingSave"}
  /\ timer = "due" => \A i \in DOMAIN writes : writes[i].timed # "current"
  /\ alive => incarnation \in 1 .. MaxCreates

LEMMA FactsHold == Types => Facts
  BY NumbersAre, WritesAre DEF Facts, Types, TypeOK

\* Writes of which only the timers changed.
Alike ==
  /\ Len(writes') = Len(writes) /\ DOMAIN writes' = DOMAIN writes
  /\ \A i \in DOMAIN writes :
       /\ writes'[i].incarnation = writes[i].incarnation /\ writes'[i].sequence = writes[i].sequence
       /\ writes'[i].behind = writes[i].behind /\ writes'[i].stage = writes[i].stage
       /\ writes'[i].payload = writes[i].payload

LEMMA PersistSaveAlike ==
  ASSUME Types, PersistSave \/ UNCHANGED writes
  PROVE  Alike /\ (writes' = <<>> <=> writes = <<>>)
<1>1. writes \in Seq(WriteRecord) /\ Supersede(writes) \in Seq(WriteRecord)
  BY SupersedeIs DEF Types, TypeOK
<1>2. CASE UNCHANGED writes
  BY <1>2 DEF Alike
<1>3. CASE writes' = Supersede(writes)
  <2>1. Alike
    BY <1>1, <1>3, SupersedeIs DEF Alike
  <2>2. (writes' = <<>> <=> Len(writes') = 0) /\ (writes = <<>> <=> Len(writes) = 0)
    BY <1>1, <1>3, WritesAre
  <2> QED BY <2>1, <2>2 DEF Alike
<1> QED BY <1>2, <1>3 DEF PersistSave

LEMMA CreateStoreSaves ==
  ASSUME Undisturbed, Types, SaveInv, CreateStore
  PROVE  SaveInv'
<1>1. Facts
  BY FactsHold
<1>2. /\ ~alive /\ alive' /\ writes = <<>> /\ loads = {} /\ ~hidden' /\ loading = "no" /\ timer = "none"
      /\ UNCHANGED <<slow, storage, persistSequence, stamp>>
  BY DEF CreateStore, Undisturbed, SaveInv, LoadFirst
<1>3. writes' = <<>> /\ DOMAIN writes' = {}
  BY <1>1, <1>2, PersistSaveAlike DEF CreateStore, Facts, Alike
<1>4. \/ slow /\ loading' = "loading" /\ value' = 0 /\ updateCount' = 0 /\ timer' = "none"
         /\ loads' = {[incarnation |-> incarnation', raw |-> storage]}
      \/ ~slow /\ loading' = "no" /\ loads' = {} /\ storage = None /\ value' = 0 /\ timer' = "due"
      \/ ~slow /\ loading' = "no" /\ loads' = {} /\ storage # None /\ value' = storage /\ updateCount' = 1
      \/ ~slow /\ loading' = "no" /\ loads' = {} /\ storage # None /\ value' = 0 /\ updateCount' = 1 /\ rejected'
  BY <1>2 DEF CreateStore, PersistSave, loadVars
<1>5. Chain'
  BY <1>2, <1>3 DEF Chain
<1>6. LoadFirst'
  <2>1. PICK r : r = [incarnation |-> incarnation', raw |-> storage]
    OBVIOUS
  <2>2. r.raw = storage
    BY <2>1
  <2>3. CASE slow
    BY <1>2, <1>3, <1>4, <2>1, <2>2, <2>3 DEF LoadFirst
  <2>4. CASE ~slow
    BY <1>2, <1>3, <1>4, <2>4 DEF LoadFirst
  <2> QED BY <2>3, <2>4
<1>7. Ordered'
  BY <1>1, <1>2, <1>3, <1>4 DEF SaveInv, Ordered, Facts
<1>8. NothingForgotten'
  BY <1>2, <1>3, <1>4 DEF NothingForgotten
<1> QED BY <1>2, <1>5, <1>6, <1>7, <1>8 DEF SaveInv, HiddenIsSaved

LEMMA WriteSaves ==
  ASSUME Undisturbed, Types, SaveInv, Write
  PROVE  SaveInv'
<1>1. Facts
  BY FactsHold
<1>2. /\ alive /\ alive' /\ stamp' = stamp + 1 /\ value' = stamp + 1 /\ updateCount' = updateCount + 1 /\ ~hidden'
      /\ UNCHANGED <<slow, incarnation, storage, persistSequence, loads, failed, rejected>>
      /\ \/ loading # "no" /\ loading' = "pendingSave" /\ UNCHANGED <<timer, writes>>
         \/ loading = "no" /\ loading' = "no" /\ timer' = "due"
  BY DEF Write, ghosts, PersistSave
<1>3. Alike /\ (writes' = <<>> <=> writes = <<>>)
  BY PersistSaveAlike DEF Write
<1>4. Chain'
  BY <1>2, <1>3 DEF SaveInv, Chain, Alike, IsLatest
<1>5. LoadFirst'
  BY <1>1, <1>2, <1>3 DEF SaveInv, LoadFirst, Facts
<1>6. Ordered'
  BY <1>1, <1>2, <1>3 DEF SaveInv, Ordered, Alike, Facts
<1>7. NothingForgotten'
  BY <1>2 DEF NothingForgotten
<1> QED BY <1>2, <1>4, <1>5, <1>6, <1>7 DEF SaveInv, HiddenIsSaved

LEMMA FinishLoadSaves ==
  ASSUME Undisturbed, Types, SaveInv, NEW l \in loads, FinishLoad(l)
  PROVE  SaveInv'
<1>1. Facts
  BY FactsHold
<1>2. /\ UNCHANGED <<slow, alive, incarnation, storage, persistSequence, stamp, failed>>
      /\ loads' = {} /\ loading' = "no" /\ hidden' = (hidden /\ value' = value)
  BY DEF FinishLoad, SaveInv, LoadFirst
<1>3. CASE ~alive
  <2>1. /\ loading = "no" /\ timer = "none" /\ ~hidden
        /\ UNCHANGED <<value, updateCount, rejected, timer, writes>>
    BY <1>3 DEF SaveInv, LoadFirst, FinishLoad, ShouldApply
  <2>2. Chain' /\ Ordered'
    BY <1>2, <1>3, <2>1 DEF SaveInv, Chain, Ordered, IsLatest
  <2>3. LoadFirst'
    BY <1>2, <1>3, <2>1 DEF SaveInv, LoadFirst
  <2>4. NothingForgotten' /\ HiddenIsSaved'
    BY <1>2, <1>3, <2>1 DEF NothingForgotten, HiddenIsSaved
  <2> QED BY <2>2, <2>3, <2>4 DEF SaveInv
<1>4. CASE alive
  <2>1. /\ loading # "no" /\ writes = <<>> /\ timer = "none" /\ ~hidden /\ l.raw = storage
        /\ (loading = "loading" => updateCount = 0) /\ (updateCount = 0 => value = 0)
    BY <1>4 DEF SaveInv, LoadFirst
  <2>2. writes' = <<>> /\ DOMAIN writes' = {}
    BY <1>1, <2>1, PersistSaveAlike DEF FinishLoad, Facts, Alike
  <2>3. \/ storage # None /\ updateCount = 0 /\ updateCount' = 1 /\ value' = storage /\ rejected' = rejected
        \/ storage # None /\ updateCount = 0 /\ updateCount' = 1 /\ value' = 0 /\ rejected' = TRUE
        \/ (storage = None \/ updateCount # 0) /\ UNCHANGED <<value, updateCount, rejected>>
    BY <1>1, <1>4, <2>1 DEF FinishLoad, ShouldApply, Facts
  <2>4. timer' = "due" \/ (timer' = "none" /\ loading = "loading" /\ storage # None)
    BY <2>1 DEF FinishLoad, PersistSave
  <2>5. Chain'
    BY <1>2, <1>4, <2>2 DEF Chain
  <2>6. LoadFirst'
    BY <1>1, <1>2, <1>4, <2>1, <2>2, <2>3 DEF LoadFirst, SaveInv, Facts
  <2>7. Ordered'
    BY <1>1, <1>2, <1>4, <2>1, <2>2, <2>3 DEF SaveInv, Ordered, Facts
  <2>8. NothingForgotten'
    BY <1>2, <1>4, <2>1, <2>2, <2>3, <2>4 DEF NothingForgotten
  <2> QED BY <1>2, <2>1, <2>5, <2>6, <2>7, <2>8 DEF SaveInv, HiddenIsSaved
<1> QED BY <1>3, <1>4

LEMMA DeleteStoreSaves ==
  ASSUME Undisturbed, Types, SaveInv, DeleteStore
  PROVE  SaveInv'
<1>1. Facts
  BY FactsHold
<1>2. /\ ~alive' /\ storage' = None /\ timer' = "none" /\ persistSequence' = 0 /\ loading' = "no" /\ ~hidden'
      /\ UNCHANGED <<slow, value, updateCount, incarnation, loads, stamp>>
      /\ writes' = Supersede(writes)
  BY DEF DeleteStore
<1>3. Alike
  <2>1. writes \in Seq(WriteRecord)
    BY DEF Types, TypeOK
  <2> QED BY <1>2, <2>1, SupersedeIs DEF Alike
<1>4. Chain'
  BY <1>2, <1>3 DEF SaveInv, Chain, Alike
<1>5. LoadFirst' /\ NothingForgotten' /\ HiddenIsSaved'
  BY <1>2 DEF SaveInv, LoadFirst, NothingForgotten, HiddenIsSaved
<1>6. Ordered'
  BY <1>1, <1>2, <1>3 DEF SaveInv, Ordered, Alike
<1> QED BY <1>4, <1>5, <1>6 DEF SaveInv

LEMMA ReloadSaves ==
  ASSUME Types, SaveInv, Reload
  PROVE  SaveInv'
<1>1. /\ ~alive' /\ timer' = "none" /\ writes' = <<>> /\ persistSequence' = 0 /\ loads' = {} /\ loading' = "no" /\ ~hidden'
      /\ UNCHANGED <<slow, value, updateCount, incarnation, storage, stamp>>
  BY DEF Reload
<1>2. DOMAIN writes' = {}
  BY <1>1
<1> QED BY <1>1, <1>2 DEF SaveInv, Chain, LoadFirst, Ordered, NothingForgotten, HiddenIsSaved

\* A new write behind the others.
LEMMA StartSaves ==
  ASSUME Types, SaveInv, alive, loading = "no",
         NEW ws \in Seq(WriteRecord), NEW timed \in {"no", "current"}, StartWrite(ws, timed),
         Len(ws) = Len(writes),
         \A i \in DOMAIN writes :
           /\ ws[i].incarnation = writes[i].incarnation /\ ws[i].sequence = writes[i].sequence
           /\ ws[i].behind = writes[i].behind /\ ws[i].stage = writes[i].stage
           /\ ws[i].payload = writes[i].payload,
         UNCHANGED <<slow, alive, value, updateCount, incarnation, storage, loads, loading, stamp, failed, rejected>>,
         timer' # "due"
  PROVE  Chain' /\ LoadFirst' /\ Ordered' /\ NothingForgotten' /\ writes' # <<>>
<1>1. Facts
  BY FactsHold
<1>2. PICK n \in Nat : n = Len(writes) /\ DOMAIN writes = 1 .. n
  BY <1>1 DEF Facts
<1>3. DOMAIN ws = 1 .. n
  BY <1>2, WritesAre
<1>4. InFlight(ws) <=> n # 0
  BY <1>2, <1>3 DEF InFlight, SaveInv, Chain
<1>5. PICK w : w = writes'[n + 1]
  OBVIOUS
<1>6. /\ persistSequence' = persistSequence + 1
      /\ Len(writes') = n + 1 /\ DOMAIN writes' = 1 .. n + 1
      /\ \A i \in 1 .. n : writes'[i] = ws[i]
      /\ w.incarnation = incarnation /\ w.sequence = persistSequence + 1 /\ w.timed = timed
      /\ w.behind <=> n # 0
      /\ n # 0 => w.stage = "wait" /\ w.payload = 0
      /\ n = 0 => w.stage = "sealing" /\ w.payload = value
  <2>1. value \in Stamps /\ persistSequence \in Nat /\ incarnation \in 1 .. MaxCreates
    BY <1>1 DEF Facts, Types, TypeOK
  <2>2. Len(ws) = n
    BY <1>2
  <2>3. /\ persistSequence' = persistSequence + 1
        /\ Len(writes') = n + 1 /\ DOMAIN writes' = 1 .. n + 1
        /\ \A i \in 1 .. n : writes'[i] = ws[i]
    BY <1>3, <2>1, <2>2, StartIs
  <2>4. /\ w.incarnation = incarnation /\ w.sequence = persistSequence + 1 /\ w.timed = timed
        /\ w.behind <=> InFlight(ws)
        /\ InFlight(ws) => w.stage = "wait" /\ w.payload = 0
        /\ ~InFlight(ws) => w.stage = "sealing" /\ w.payload = value
    BY <1>5, <2>1, <2>2, StartIs
  <2> QED BY <1>4, <2>3, <2>4
<1>7. \A i \in 1 .. n + 1 : i = n + 1 \/ i \in 1 .. n
  OBVIOUS
<1>8. /\ persistSequence \in Nat /\ value \in Nat /\ stamp \in Nat
      /\ \A i \in 1 .. n : writes[i].sequence \in Nat
  BY <1>1, <1>2 DEF Facts
<1>9. \A i \in 1 .. n : writes[i].sequence <= persistSequence /\ writes[i].sequence > 0
  BY <1>2 DEF SaveInv, Chain
<1>10. Chain'
  <2>1. ASSUME NEW i \in 1 .. n + 1
        PROVE  /\ writes'[i].incarnation = incarnation /\ writes'[i].sequence > 0
               /\ writes'[i].behind <=> i # 1
               /\ i # 1 => writes'[i].stage = "wait"
               /\ writes'[i].sequence <= persistSequence'
               /\ writes'[i].sequence = persistSequence' <=> i = n + 1
    <3>1. CASE i = n + 1
      <4>1. writes'[i] = w
        BY <1>5, <3>1
      <4>2. i # 1 <=> n # 0
        BY <3>1
      <4> QED BY <1>6, <1>8, <3>1, <4>1, <4>2
    <3>2. CASE i \in 1 .. n
      BY <1>2, <1>6, <1>8, <1>9, <3>2 DEF SaveInv, Chain
    <3> QED BY <1>7, <3>1, <3>2
  <2> QED BY <1>6, <2>1 DEF Chain, IsLatest
<1>11. writes = <<>> => n = 0
  BY <1>1, <1>2 DEF Facts
<1>12. LoadFirst'
  BY DEF SaveInv, LoadFirst
<1>13. Ordered'
  <2>1. ASSUME NEW i \in 1 .. n + 1
        PROVE  /\ writes'[i].payload <= stamp /\ writes'[i].payload <= value
               /\ storage # None /\ ~rejected => writes'[i].stage = "wait" \/ storage <= writes'[i].payload
    <3>1. CASE i = n + 1
      BY <1>5, <1>6, <1>8, <3>1 DEF SaveInv, Ordered
    <3>2. CASE i \in 1 .. n
      BY <1>2, <1>6, <3>2 DEF SaveInv, Ordered
    <3> QED BY <1>7, <3>1, <3>2
  <2> QED BY <1>6, <2>1 DEF SaveInv, Ordered
<1>14. writes' # <<>> /\ Saves(writes[Len(writes)])'
  <2>1. writes' # <<>>
    <3>1. Len(<<>>) = 0 /\ n + 1 # 0
      BY EmptySeq
    <3> QED BY <1>6, <3>1
  <2> QED BY <1>5, <1>6, <2>1 DEF Saves
<1>15. NothingForgotten'
  BY <1>14 DEF NothingForgotten
<1> QED BY <1>10, <1>12, <1>13, <1>14, <1>15

LEMMA FireTimerSaves ==
  ASSUME Types, SaveInv, FireTimer
  PROVE  SaveInv'
<1>1. /\ timer = "due" /\ timer' = "fired" /\ StartWrite(writes, "current")
      /\ UNCHANGED <<slow, alive, value, updateCount, incarnation, storage, loads, loading, stamp, failed, rejected, hidden>>
  BY DEF FireTimer, storeVars, loadVars, hideVars, ghosts
<1>2. alive /\ loading = "no"
  BY <1>1 DEF SaveInv, LoadFirst
<1>3. writes \in Seq(WriteRecord)
  BY DEF Types, TypeOK
<1>4. Chain' /\ LoadFirst' /\ Ordered' /\ NothingForgotten' /\ writes' # <<>>
  BY <1>1, <1>2, <1>3, StartSaves
<1> QED BY <1>1, <1>4 DEF SaveInv, HiddenIsSaved

LEMMA PageHideSaves ==
  ASSUME Undisturbed, Types, SaveInv, PageHide
  PROVE  SaveInv'
<1>1. /\ alive /\ loading = "no" /\ (listening \/ HideAgain)
      /\ UNCHANGED <<slow, alive, value, updateCount, incarnation, storage, loads, loading, stamp, failed, rejected>>
  BY DEF PageHide, Undisturbed, storeVars, loadVars, ghosts
<1>2. CASE listening
  <2>1. timer' = "none" /\ StartWrite(Supersede(writes), "no")
    BY <1>2 DEF PageHide, FlushPersistImmediately
  <2>2. writes \in Seq(WriteRecord)
    BY DEF Types, TypeOK
  <2>3. /\ Supersede(writes) \in Seq(WriteRecord) /\ Len(Supersede(writes)) = Len(writes)
        /\ \A i \in DOMAIN writes :
             /\ Supersede(writes)[i].incarnation = writes[i].incarnation
             /\ Supersede(writes)[i].sequence = writes[i].sequence
             /\ Supersede(writes)[i].behind = writes[i].behind
             /\ Supersede(writes)[i].stage = writes[i].stage
             /\ Supersede(writes)[i].payload = writes[i].payload
    BY <2>2, SupersedeIs
  <2>4. Chain' /\ LoadFirst' /\ Ordered' /\ NothingForgotten' /\ writes' # <<>>
  <3>1. PICK ws \in Seq(WriteRecord) : ws = Supersede(writes)
    BY <2>3
  <3> QED BY <1>1, <2>1, <2>3, <3>1, StartSaves
  <2> QED BY <2>1, <2>4 DEF SaveInv, HiddenIsSaved
<1>3. CASE ~listening
  <2>1. HideAgain /\ UNCHANGED <<timer, persistSequence, writes>>
    BY <1>1, <1>3 DEF PageHide, saveVars
  <2>2. Chain' /\ LoadFirst' /\ Ordered' /\ NothingForgotten'
    BY <1>1, <2>1 DEF SaveInv, Chain, LoadFirst, Ordered, NothingForgotten, Saves, IsLatest
  <2> QED BY <2>1, <2>2 DEF SaveInv, HiddenIsSaved
<1> QED BY <1>2, <1>3

\* Only the first of the writes does anything.
LEMMA FirstActs ==
  ASSUME SaveInv, NEW i \in DOMAIN writes, Continue(i) \/ Sealed(i) \/ SetItem(i) \/ Answered(i)
  PROVE  i = 1
<1>1. ~writes[i].behind \/ writes[i].stage # "wait"
  BY DEF Continue, Sealed, SetItem, Answered
<1> QED BY <1>1 DEF SaveInv, Chain

\* The first write ends: when it is the last, the value is saved, or setItem failed.
LEMMA FinishSaves ==
  ASSUME Types, SaveInv, 1 \in DOMAIN writes, FinishWrite(1),
         UNCHANGED <<slow, alive, value, updateCount, incarnation, storage, persistSequence, loads, loading, hidden, stamp, rejected>>,
         failed => failed',
         alive /\ Len(writes) = 1 /\ timer # "due" => failed' \/ storage = value
  PROVE  SaveInv'
<1>1. Facts
  BY FactsHold
<1>2. PICK n \in Nat : n = Len(writes) /\ DOMAIN writes = 1 .. n
  BY <1>1 DEF Facts
<1>3. n # 0 /\ n - 1 \in Nat
  BY <1>2
<1>4. /\ Len(writes') = n - 1 /\ DOMAIN writes' = 1 .. n - 1
      /\ \A j \in 1 .. n - 1 : Same(writes'[j], writes[j + 1]) /\ (writes'[j].behind <=> writes[j + 1].behind /\ j # 1)
  <2>1. writes \in Seq(WriteRecord)
    BY DEF Types, TypeOK
  <2>2. \A j \in 1 .. n - 1 : ~(j < 1)
    BY <1>2
  <2> QED BY <1>2, <2>1, <2>2, FinishIs
<1>5. \A j \in 1 .. n - 1 : j + 1 \in 1 .. n /\ j + 1 # 1 /\ (j + 1 = n <=> j = n - 1)
  BY <1>2
<1>6. loading = "no" /\ loads' = loads
  <2>1. writes # <<>>
    BY <1>1, <1>2, <1>3 DEF Facts
  <2> QED BY <2>1 DEF SaveInv, LoadFirst
<1>7. timer' # "due" <=> timer # "due"
  BY <1>1 DEF FinishWrite, Facts
<1>8. ~alive => timer' = "none"
  BY DEF FinishWrite, SaveInv, LoadFirst
<1>9. Chain'
  <2>1. ASSUME NEW j \in 1 .. n - 1
        PROVE  /\ writes'[j].incarnation = incarnation /\ writes'[j].sequence > 0
               /\ writes'[j].behind <=> j # 1
               /\ writes'[j].stage = "wait"
               /\ alive => writes'[j].sequence <= persistSequence
               /\ alive => (writes'[j].sequence = persistSequence <=> j = n - 1)
    <3>1. j + 1 \in 1 .. n /\ j + 1 # 1 /\ (j + 1 = n <=> j = n - 1)
      BY <1>5
    <3>2. PICK v : v = writes[j + 1]
      OBVIOUS
    <3>3. Same(writes'[j], v) /\ (writes'[j].behind <=> v.behind /\ j # 1)
      BY <1>4, <3>2
    <3>4. /\ v.incarnation = incarnation /\ v.sequence > 0 /\ v.behind /\ v.stage = "wait"
          /\ alive => v.sequence <= persistSequence
          /\ alive => (v.sequence = persistSequence <=> j = n - 1)
      BY <1>2, <3>1, <3>2 DEF SaveInv, Chain, IsLatest
    <3> QED BY <3>3, <3>4 DEF Same
  <2>2. ~alive => persistSequence = 0
    BY DEF SaveInv, Chain
  <2> QED BY <1>4, <2>1, <2>2 DEF Chain, IsLatest
<1>10. LoadFirst'
  BY <1>6, <1>8 DEF SaveInv, LoadFirst
<1>11. Ordered'
  <2>1. ASSUME NEW j \in 1 .. n - 1
        PROVE  /\ writes'[j].payload <= stamp /\ (alive => writes'[j].payload <= value)
               /\ writes'[j].stage = "wait"
    <3>1. j + 1 \in 1 .. n /\ j + 1 # 1 /\ Same(writes'[j], writes[j + 1])
      BY <1>4, <1>5
    <3> QED BY <1>2, <3>1 DEF SaveInv, Chain, Ordered, Same
  <2>2. "wait" # "sent"
    OBVIOUS
  <2> QED BY <1>4, <1>6, <2>1, <2>2 DEF SaveInv, Ordered
<1>12. writes' = <<>> <=> n = 1
  <2>1. writes' \in Seq(WriteRecord)
    BY FinishIs DEF Types, TypeOK
  <2>2. writes' = <<>> <=> Len(writes') = 0
    BY <2>1, WritesAre
  <2> QED BY <1>2, <1>4, <2>2
<1>13. NothingForgotten'
  <2> SUFFICES ASSUME alive, timer # "due"
               PROVE  IF n = 1 THEN failed' \/ rejected' \/ storage' = value' ELSE Saves(writes[Len(writes)])'
    BY <1>7, <1>12 DEF NothingForgotten
  <2>1. CASE n = 1
    BY <1>2, <2>1
  <2>2. CASE n # 1
    <3>1. Saves(writes[n])
      BY <1>1, <1>2, <1>3, <1>6 DEF SaveInv, NothingForgotten, Facts
    <3>2. Same(writes'[n - 1], writes[n]) /\ Len(writes') = n - 1
      BY <1>2, <1>3, <1>4, <2>2
    <3> QED BY <2>2, <3>1, <3>2 DEF Saves, Same
  <2> QED BY <2>1, <2>2
<1>14. HiddenIsSaved'
  <2>1. hidden => alive
    BY DEF SaveInv, LoadFirst
  <2> QED BY <1>2, <1>7, <1>12, <2>1 DEF SaveInv, HiddenIsSaved
<1> QED BY <1>9, <1>10, <1>11, <1>13, <1>14 DEF SaveInv

\* The first write goes on; what it stores is the store's value.
LEMMA GoesOnSaves ==
  ASSUME Types, SaveInv, 1 \in DOMAIN writes,
         NEW s \in {"sealing", "sent", "stored"}, NEW p \in Stamps,
         GoesOn(1, s, p),
         writes[1].stage = "wait" => p = value /\ Len(writes) = 1 /\ alive /\ s = "sealing",
         writes[1].stage # "wait" => p = writes[1].payload,
         UNCHANGED <<slow, alive, value, updateCount, incarnation, persistSequence, loads, loading, hidden, stamp, timer>>,
         IF s = "stored" THEN storage' = p /\ ~failed' /\ ~rejected' ELSE UNCHANGED <<storage, failed, rejected>>,
         s = "sent" => alive
  PROVE  SaveInv'
<1>1. Facts
  BY FactsHold
<1>2. PICK n \in Nat : n = Len(writes) /\ DOMAIN writes = 1 .. n
  BY <1>1 DEF Facts
<1>3. /\ Len(writes') = n /\ DOMAIN writes' = 1 .. n
      /\ \A j \in 1 .. n : j # 1 => writes'[j] = writes[j]
      /\ writes'[1].incarnation = writes[1].incarnation /\ writes'[1].sequence = writes[1].sequence
      /\ writes'[1].timed = writes[1].timed /\ writes'[1].behind = writes[1].behind
      /\ writes'[1].stage = s /\ writes'[1].payload = p
  <2>1. writes \in Seq(WriteRecord)
    BY DEF Types, TypeOK
  <2>2. /\ Len(writes') = Len(writes) /\ DOMAIN writes' = DOMAIN writes
        /\ \A j \in DOMAIN writes : j # 1 => writes'[j] = writes[j]
        /\ writes'[1].incarnation = writes[1].incarnation /\ writes'[1].sequence = writes[1].sequence
        /\ writes'[1].timed = writes[1].timed /\ writes'[1].behind = writes[1].behind
        /\ writes'[1].stage = s /\ writes'[1].payload = p
    BY <2>1, GoingOnIs
  <2> QED BY <1>2, <2>2
<1>4. n >= 1 /\ writes # <<>> /\ writes' # <<>>
  <2>1. Len(<<>>) = 0 /\ n >= 1
    BY <1>2, EmptySeq
  <2> QED BY <1>2, <1>3, <2>1
<1>5. loading = "no" /\ (alive => loads = {})
  BY <1>4 DEF SaveInv, LoadFirst
<1>6. Chain'
  BY <1>2, <1>3 DEF SaveInv, Chain, IsLatest
<1>7. LoadFirst'
  BY <1>4, <1>5 DEF SaveInv, LoadFirst
<1>8. p <= stamp /\ (alive => p <= value) /\ p \in Nat /\ p # None
      /\ (alive /\ storage # None /\ ~rejected => storage <= p)
  BY <1>1, <1>2, <1>5 DEF SaveInv, Ordered, Facts
<1>9. Ordered'
  <2>1. ASSUME NEW j \in 1 .. n
        PROVE  /\ writes'[j].payload <= stamp /\ (alive => writes'[j].payload <= value)
               /\ j # 1 => writes'[j].stage = "wait"
    <3>1. CASE j = 1
      BY <1>3, <1>8, <3>1
    <3>2. CASE j # 1
      BY <1>2, <1>3, <3>2 DEF SaveInv, Chain, Ordered
    <3> QED BY <3>1, <3>2
  <2>2. CASE s = "stored"
    BY <1>1, <1>3, <1>5, <1>8, <2>1, <2>2 DEF SaveInv, Ordered, Facts
  <2>3. CASE s # "stored"
    <3>1. UNCHANGED <<storage, failed, rejected>> /\ (s = "sent" => alive)
      BY <2>3
    <3> QED BY <1>1, <1>3, <1>5, <1>8, <2>1, <3>1 DEF SaveInv, Ordered, Facts
  <2> QED BY <2>2, <2>3
<1>10. NothingForgotten'
  <2> SUFFICES ASSUME alive, timer # "due" PROVE Saves(writes[Len(writes)])'
    BY <1>4 DEF NothingForgotten
  <2>1. Saves(writes[n])
    BY <1>2, <1>4, <1>5 DEF SaveInv, NothingForgotten
  <2>2. CASE n = 1
    BY <1>2, <1>3, <2>1, <2>2 DEF Saves
  <2>3. CASE n # 1
    <3>1. writes'[n] = writes[n] /\ writes[n].stage = "wait" /\ Len(writes') = n
      BY <1>2, <1>3, <1>4, <2>3 DEF SaveInv, Chain
    <3> QED BY <2>1, <3>1 DEF Saves
  <2> QED BY <2>2, <2>3
<1>11. HiddenIsSaved'
  BY <1>4 DEF SaveInv, HiddenIsSaved
<1> QED BY <1>6, <1>7, <1>9, <1>10, <1>11 DEF SaveInv

\* Each step of a write.
LEMMA StepSaves ==
  ASSUME Types, SaveInv, NEW i \in DOMAIN writes, Continue(i) \/ Sealed(i) \/ SetItem(i) \/ Answered(i)
  PROVE  SaveInv'
<1>1. Facts
  BY FactsHold
<1>2. i = 1 /\ 1 \in DOMAIN writes
  BY FirstActs
<1>3. PICK n \in Nat : n = Len(writes) /\ DOMAIN writes = 1 .. n /\ n >= 1
  <2>1. PICK m \in Nat : m = Len(writes) /\ DOMAIN writes = 1 .. m
    BY <1>1 DEF Facts
  <2>2. m >= 1
    BY <1>2, <2>1
  <2> QED BY <2>1, <2>2
<1>4. PICK w : w = writes[1]
  OBVIOUS
<1>5. loading = "no" /\ w.incarnation = incarnation /\ w.sequence > 0 /\ w.sequence \in Nat
      /\ (alive => (w.sequence = persistSequence <=> n = 1)) /\ (~alive => persistSequence = 0)
      /\ w.payload \in Stamps /\ value \in Stamps
  <2>1. writes # <<>>
    BY <1>1, <1>3 DEF Facts
  <2>2. loading = "no"
    BY <2>1 DEF SaveInv, LoadFirst
  <2>3. w.incarnation = incarnation /\ w.sequence > 0 /\ (alive => (w.sequence = persistSequence <=> n = 1))
        /\ (~alive => persistSequence = 0)
    BY <1>2, <1>3, <1>4 DEF SaveInv, Chain, IsLatest
  <2>4. w.payload \in Stamps /\ value \in Stamps /\ w.sequence \in Nat
    BY <1>2, <1>4, WritesAre DEF Types, TypeOK
  <2> QED BY <2>2, <2>3, <2>4
<1>6. alive /\ n = 1 /\ timer # "due" => Saves(w)
  BY <1>1, <1>3, <1>4, <1>5 DEF SaveInv, NothingForgotten, Facts
<1>7. ASSUME Continue(1) PROVE SaveInv'
  <2>1. /\ w.stage = "wait"
        /\ UNCHANGED <<slow, alive, value, updateCount, incarnation, storage, persistSequence, loads, loading, hidden, stamp, failed, rejected>>
    BY <1>4, <1>7 DEF Continue, storeVars, loadVars, hideVars, ghosts
  <2>2. CASE w.timed # "superseded" /\ IsLatest(w) /\ alive
    <3>1. writes' = [writes EXCEPT ![1].stage = "sealing", ![1].payload = value] /\ UNCHANGED timer
      BY <1>4, <1>5, <1>7, <2>2 DEF Continue
    <3>2. GoesOn(1, "sealing", value)
      BY <3>1 DEF GoesOn
    <3>3. Len(writes) = 1 /\ alive
      BY <1>3, <1>5, <2>2 DEF IsLatest
    <3> QED BY <1>2, <1>4, <1>5, <2>1, <3>1, <3>2, <3>3, GoesOnSaves
  <2>3. CASE ~(w.timed # "superseded" /\ IsLatest(w) /\ alive)
    <3>1. FinishWrite(1)
      BY <1>4, <1>7, <2>3 DEF Continue
    <3>2. ~(alive /\ Len(writes) = 1 /\ timer # "due")
      BY <1>3, <1>5, <1>6, <2>1, <2>3 DEF Saves, IsLatest
    <3> QED BY <1>2, <2>1, <3>1, <3>2, FinishSaves
  <2> QED BY <2>2, <2>3
<1>8. ASSUME Sealed(1) PROVE SaveInv'
  <2>1. /\ w.stage = "sealing"
        /\ UNCHANGED <<slow, alive, value, updateCount, incarnation, storage, persistSequence, loads, loading, hidden, stamp, failed, rejected>>
    BY <1>4, <1>8 DEF Sealed, storeVars, loadVars, hideVars, ghosts
  <2>2. CASE IsLatest(w)
    <3>1. writes' = [writes EXCEPT ![1].stage = "sent"] /\ UNCHANGED timer
      BY <1>4, <1>8, <2>2 DEF Sealed
    <3>2. GoesOn(1, "sent", w.payload)
      BY <1>4, <3>1 DEF GoesOn
    <3>3. alive
      BY <1>5, <2>2 DEF IsLatest
    <3> QED BY <1>2, <1>4, <1>5, <2>1, <3>1, <3>2, <3>3, GoesOnSaves
  <2>3. CASE ~IsLatest(w)
    <3>1. FinishWrite(1)
      BY <1>4, <1>8, <2>3 DEF Sealed
    <3>2. ~(alive /\ Len(writes) = 1)
      BY <1>3, <1>5, <2>3 DEF IsLatest
    <3> QED BY <1>2, <2>1, <3>1, <3>2, FinishSaves
  <2> QED BY <2>2, <2>3
<1>9. ASSUME SetItem(1) PROVE SaveInv'
  <2>1. /\ w.stage = "sent"
        /\ UNCHANGED <<slow, alive, value, updateCount, incarnation, persistSequence, loads, loading, hidden, stamp>>
    BY <1>4, <1>9 DEF SetItem, storeVars, loadVars, hideVars
  <2>2. CASE storage' = writes[1].payload /\ failed' = FALSE /\ rejected' = FALSE
             /\ writes' = [writes EXCEPT ![1].stage = "stored"] /\ UNCHANGED timer
    <3>1. GoesOn(1, "stored", w.payload)
      BY <1>4, <2>2 DEF GoesOn
    <3> QED BY <1>2, <1>4, <1>5, <2>1, <2>2, <3>1, GoesOnSaves
  <2>3. CASE failed' = TRUE /\ FinishWrite(1) /\ UNCHANGED <<storage, rejected>>
    BY <1>2, <2>1, <2>3, FinishSaves
  <2> QED BY <1>9, <2>2, <2>3 DEF SetItem
<1>10. ASSUME Answered(1) PROVE SaveInv'
  <2>1. /\ w.stage = "stored" /\ FinishWrite(1)
        /\ UNCHANGED <<slow, alive, value, updateCount, incarnation, storage, persistSequence, loads, loading, hidden, stamp, failed, rejected>>
    BY <1>4, <1>10 DEF Answered, storeVars, loadVars, hideVars, ghosts
  <2>2. alive /\ Len(writes) = 1 /\ timer # "due" => storage = value
    BY <1>3, <1>6, <2>1 DEF Saves
  <2> QED BY <1>2, <2>1, <2>2, FinishSaves
<1> QED BY <1>2, <1>7, <1>8, <1>9, <1>10

LEMMA NextSaves ==
  ASSUME Undisturbed, Types, SaveInv, [Next]_vars
  PROVE  SaveInv'
<1>1. CASE UNCHANGED vars
  BY <1>1 DEF vars, storeVars, saveVars, loadVars, hideVars, ghosts, SaveInv, Chain, LoadFirst, Ordered,
              NothingForgotten, HiddenIsSaved, Saves, IsLatest
<1> QED BY <1>1, CreateStoreSaves, WriteSaves, FireTimerSaves, PageHideSaves, DeleteStoreSaves, ReloadSaves,
           FinishLoadSaves, StepSaves DEF Next

LEMMA InitSaves == Init => SaveInv
<1> SUFFICES ASSUME Init PROVE SaveInv
  OBVIOUS
<1>1. DOMAIN writes = {}
  BY DEF Init
<1> QED BY <1>1 DEF Init, SaveInv, Chain, LoadFirst, Ordered, NothingForgotten, HiddenIsSaved

LEMMA SpecSaves == ASSUME Undisturbed PROVE Spec => [](Types /\ SaveInv)
<1>1. Types /\ SaveInv /\ [Next]_vars => (Types /\ SaveInv)'
  BY NextTypes, NextSaves
<1> QED BY InitTypes, InitSaves, <1>1, PTL DEF Spec

-----------------------------------------------------------------------------
(***************************************************************************)
(* Theorems.                                                               *)
(***************************************************************************)

\* Type correctness, for every choice of the bounds: persistTimers holds a timer
\* that fired as long as the write it started is under way, and no longer.
THEOREM TypeCorrect == Spec => []TypeOK
<1>1. Types => TypeOK
  BY DEF Types
<1> QED BY SpecTypes, <1>1, PTL

LEMMA IdleFromInv == ASSUME ~HideAgain, Types, SaveInv PROVE SavedWhenIdle
<1>1. ASSUME alive, timer = "none", writes = <<>>, loads = {}, ~failed, ~rejected
      PROVE  storage = value
  <2>1. loading = "no"
    BY <1>1 DEF SaveInv, LoadFirst
  <2> QED BY <1>1, <2>1 DEF SaveInv, NothingForgotten
<1>2. ASSUME hidden, ~slow, writes = <<>>, ~failed PROVE storage = value
  BY <1>2 DEF SaveInv, HiddenIsSaved
<1> QED BY <1>1, <1>2 DEF SavedWhenIdle

\* The save chain, its sequence numbers and the pending save of a load forget
\* nothing: when neither timer nor load nor write is left the key holds the store's
\* value, and after pagehide it does so as soon as the microtasks have run.  For
\* any number of writes, creations, hides, reloads and failures of setItem.
THEOREM IdleIsSaved ==
  ASSUME Undisturbed, ~HideAgain
  PROVE  Spec => []SavedWhenIdle
<1>1. Types /\ SaveInv => SavedWhenIdle
  BY IdleFromInv
<1> QED BY SpecSaves, <1>1, PTL

\* The step a save takes effect in stores nothing older.
LEMMA NextNewer ==
  ASSUME Undisturbed, Types, SaveInv, [Next]_vars
  PROVE  /\ storage # None /\ storage' # None /\ ~rejected => storage' >= storage
         /\ alive /\ alive' /\ incarnation' = incarnation => value' >= value
<1>1. Facts
  BY FactsHold
<1>2. ASSUME UNCHANGED <<storage, value>> PROVE storage # None => storage' >= storage /\ value' >= value
  BY <1>1, <1>2 DEF Facts
<1>3. CASE CreateStore
  BY <1>1, <1>3 DEF CreateStore, Facts
<1>4. CASE Write
  <2>1. value' = stamp + 1 /\ storage' = storage /\ value <= stamp
    BY <1>4 DEF Write, SaveInv, Ordered
  <2> QED BY <1>1, <2>1 DEF Facts
<1>5. CASE FireTimer \/ PageHide \/ Reload \/ UNCHANGED vars
  <2>1. UNCHANGED <<storage, value>>
    BY <1>5 DEF FireTimer, PageHide, Reload, vars, storeVars
  <2> QED BY <1>1, <2>1 DEF Facts
<1>6. CASE DeleteStore
  BY <1>6 DEF DeleteStore
<1>7. ASSUME NEW l \in loads, FinishLoad(l)
      PROVE  storage' = storage /\ (alive => value' >= value)
  <2>1. storage' = storage /\ (UNCHANGED value \/ (ShouldApply /\ value' \in {0, l.raw} /\ (value' = 0 \/ l.raw # None)))
    BY <1>7 DEF FinishLoad
  <2>2. ShouldApply => value = 0
    BY DEF ShouldApply, SaveInv, LoadFirst
  <2>3. l.raw # None => l.raw \in Nat
    BY <1>1 DEF Types, TypeOK, Facts
  <2> QED BY <1>1, <2>1, <2>2, <2>3 DEF Facts
<1>8. ASSUME NEW i \in DOMAIN writes, Continue(i) \/ Sealed(i) \/ SetItem(i) \/ Answered(i)
      PROVE  value' = value /\ (storage # None /\ ~rejected => storage' >= storage)
  <2>1. value' = value
    BY <1>8 DEF Continue, Sealed, SetItem, Answered, storeVars
  <2>2. CASE UNCHANGED storage
    BY <1>1, <2>1, <2>2 DEF Facts
  <2>3. CASE writes[i].stage = "sent" /\ storage' = writes[i].payload
    <3>1. loading = "no"
      <4>1. writes # <<>>
        BY <1>1, <1>8 DEF Facts
      <4> QED BY <4>1 DEF SaveInv, LoadFirst
    <3>2. storage # None => alive
      BY <1>8, <2>3 DEF SaveInv, Ordered
    <3>3. storage # None /\ ~rejected => storage <= writes[i].payload
      BY <1>8, <2>3, <3>1, <3>2 DEF SaveInv, Ordered
    <3> QED BY <2>1, <2>3, <3>3
  <2> QED BY <1>8, <2>2, <2>3 DEF Continue, Sealed, SetItem, Answered
<1>9. storage # None => storage \in Nat /\ storage >= storage
  BY <1>1 DEF Facts
<1>10. value >= value
  BY <1>1 DEF Facts
<1> QED BY <1>3, <1>4, <1>5, <1>6, <1>7, <1>8, <1>9, <1>10 DEF Next

\* An older state never replaces a newer one, in the key (saves are stored in the
\* order of the writes, a load that has not ended is not overwritten) or in the store
\* (a load never takes back a write).
THEOREM NewerWins ==
  ASSUME Undisturbed
  PROVE  Spec => NeverGoesBack
<1>1. Types /\ SaveInv /\ [Next]_vars =>
        [/\ storage # None /\ storage' # None /\ ~rejected => storage' >= storage
         /\ alive /\ alive' /\ incarnation' = incarnation => value' >= value]_vars
  BY NextNewer
<1> QED BY SpecSaves, <1>1, PTL DEF Spec, NeverGoesBack
=============================================================================
