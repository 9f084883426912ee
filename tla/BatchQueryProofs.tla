--------------------------- MODULE BatchQueryProofs ---------------------------
(***************************************************************************)
(* The loop of batch_event_sql is right for every pair of snapshots a      *)
(* batch can have and for every Near.                                      *)
(***************************************************************************)
EXTENDS BatchQuery, SnapshotsProofs

Walked(x) == x \notin todo

\* What holds at every turn of the loop: the range has come down over every id
\* walked so far or, from the first id that was too far, the list has them all.
LoopInv ==
    /\ TypeOK
    /\ WellFormed(last) /\ Later(last, cur)
    /\ todo \subseteq Stragglers(last, cur) /\ arr \subseteq Stragglers(last, cur)
    /\ \A x \in todo : x < txStart
    /\ \A x \in todo : \A y \in arr : x < y
    /\ \A x \in Stragglers(last, cur) : Walked(x) => x \in arr \/ txStart <= x
    /\ \A x \in arr : x + Near < txStart
    /\ \/ txStart = last.xmax
       \/ txStart \in Stragglers(last, cur) /\ Reaches(txStart, last, cur)
    /\ arr # {} => \E y \in arr : \A z \in Stragglers(last, cur) : z > y => txStart <= z

LEMMA LoopInit == Init => LoopInv
<1> SUFFICES ASSUME Init PROVE LoopInv
  OBVIOUS
<1>1. /\ last \in [xmin : Ids, xmax : Ids, xip : SUBSET Ids] /\ WellFormed(last)
      /\ cur \in [xmin : Ids, xmax : Ids, xip : SUBSET Ids] /\ Later(last, cur)
      /\ todo = Stragglers(last, cur) /\ txStart = last.xmax /\ arr = {}
  BY DEF Init
<1>2. Ids \subseteq Nat
  BY MaxIdAssumption DEF Ids
<1>3. TypeOK
  BY <1>1, <1>2 DEF TypeOK, Snapshot, Stragglers
<1>4. \A x \in todo : x < txStart
  BY <1>1 DEF Stragglers, WellFormed
<1> QED
  BY <1>1, <1>3, <1>4 DEF LoopInv, Walked

LEMMA WidenStep == ASSUME LoopInv, Widen PROVE LoopInv'
<1>1. PICK x \in todo :
         /\ \A y \in todo : y <= x
         /\ txStart <= x + Near
         /\ txStart' = x /\ todo' = todo \ {x} /\ UNCHANGED <<last, cur, arr>>
  BY DEF Widen, First, Nearby
<1>2. /\ Near \in Nat /\ txStart \in Nat /\ last.xmax \in Nat
      /\ todo \subseteq Nat /\ arr \subseteq Nat /\ Stragglers(last, cur) \subseteq Nat
  BY NearAssumption, MaxIdAssumption DEF LoopInv, TypeOK, Ids, Snapshot, Stragglers
<1>3. x \in Stragglers(last, cur) /\ x < txStart /\ x < last.xmax
  BY <1>1 DEF LoopInv, Stragglers, WellFormed
<1>4. arr = {}
  <2> SUFFICES ASSUME NEW y \in arr PROVE FALSE
    OBVIOUS
  <2>1. x < y /\ y + Near < txStart
    BY <1>1 DEF LoopInv
  <2> QED
    BY <1>1, <1>2, <2>1
<1>5. \A y \in todo' : y < txStart'
  BY <1>1, <1>2
<1>6. \A y \in Stragglers(last, cur) : y \notin todo' => txStart' <= y
  <2>1. ASSUME NEW y \in Stragglers(last, cur), y \notin todo' PROVE x <= y
    <3>1. CASE y = x
      BY <1>2, <3>1
    <3>2. CASE y \notin todo
      BY <1>2, <1>3, <1>4, <3>2 DEF LoopInv, Walked
    <3> QED
      BY <1>1, <2>1, <3>1, <3>2
  <2> QED
    BY <1>1, <2>1
<1>7. Reaches(x, last, cur)
  <2> SUFFICES ASSUME NEW y \in Stragglers(last, cur), y >= x
               PROVE  \E z \in Stragglers(last, cur) \cup {last.xmax} :
                         z > y /\ z <= y + Near
    BY DEF Reaches
  <2>1. txStart \in Stragglers(last, cur) \cup {last.xmax}
    BY DEF LoopInv
  <2>2. CASE y = x
    BY <1>1, <1>2, <1>3, <2>1, <2>2
  <2>3. CASE y # x
    <3>1. txStart <= y
      BY <1>1, <1>2, <1>4, <2>3 DEF LoopInv, Walked
    <3>2. y < last.xmax
      BY DEF LoopInv, WellFormed, Stragglers
    <3>3. txStart # last.xmax
      BY <1>2, <3>1, <3>2
    <3> QED
      BY <1>2, <3>1, <3>3 DEF LoopInv, Reaches
  <2> QED
    BY <2>2, <2>3
<1>8. TypeOK'
  BY <1>1 DEF LoopInv, TypeOK
<1> QED
  BY <1>1, <1>3, <1>4, <1>5, <1>6, <1>7, <1>8 DEF LoopInv, Walked

LEMMA ListStep == ASSUME LoopInv, List PROVE LoopInv'
<1>1. PICK x \in todo :
         /\ \A y \in todo : y <= x
         /\ ~(txStart <= x + Near)
         /\ arr' = arr \cup {x} /\ todo' = todo \ {x} /\ UNCHANGED <<last, cur, txStart>>
  BY DEF List, First, Nearby
<1>2. /\ Near \in Nat /\ txStart \in Nat
      /\ todo \subseteq Nat /\ arr \subseteq Nat /\ Stragglers(last, cur) \subseteq Nat
  BY NearAssumption, MaxIdAssumption DEF LoopInv, TypeOK, Ids, Snapshot, Stragglers
<1>3. x \in Stragglers(last, cur) /\ \A y \in arr : x < y
  BY <1>1 DEF LoopInv
<1>4. \A y \in arr' : y + Near < txStart
  BY <1>1, <1>2 DEF LoopInv
<1>5. \A y \in todo' : \A z \in arr' : y < z
  BY <1>1, <1>2 DEF LoopInv
<1>6. \A y \in Stragglers(last, cur) : y \notin todo' => y \in arr' \/ txStart <= y
  BY <1>1 DEF LoopInv, Walked
<1>7. \E y \in arr' : \A z \in Stragglers(last, cur) : z > y => txStart <= z
  <2>1. CASE arr = {}
    <3>1. ASSUME NEW z \in Stragglers(last, cur), z > x PROVE txStart <= z
      <4>1. z \notin todo
        BY <1>1, <1>2, <3>1
      <4> QED
        BY <2>1, <4>1 DEF LoopInv, Walked
    <3> QED
      BY <1>1, <3>1
  <2>2. CASE arr # {}
    BY <1>1, <2>2 DEF LoopInv
  <2> QED
    BY <2>1, <2>2
<1>8. TypeOK'
  BY <1>1 DEF LoopInv, TypeOK
<1> QED
  BY <1>1, <1>3, <1>4, <1>5, <1>6, <1>7, <1>8 DEF LoopInv, Walked

LEMMA LoopInvariant == Spec => []LoopInv
<1>1. LoopInv /\ [Next]_vars => LoopInv'
  <2> SUFFICES ASSUME LoopInv, [Next]_vars PROVE LoopInv'
    OBVIOUS
  <2>1. CASE UNCHANGED vars
    BY <2>1 DEF vars, LoopInv, TypeOK, Walked
  <2> QED
    BY <2>1, WidenStep, ListStep DEF Next
<1> QED
  BY <1>1, LoopInit, PTL DEF Spec

(* The query the loop builds selects a transaction exactly when it         *)
(* committed between the batch's two ticks, and never in both arms.        *)
THEOREM QueryIsExact == Spec => []QueryIsTheDiff
<1>1. LoopInv => QueryIsTheDiff
  <2> SUFFICES ASSUME LoopInv, todo = {}, NEW x \in Ids
               PROVE  /\ RangeArm(x) \/ ListArm(x) <=> Between(x, last, cur)
                      /\ ~(RangeArm(x) /\ ListArm(x))
    BY DEF QueryIsTheDiff
  <2>1. /\ Near \in Nat /\ txStart \in Nat /\ x \in Nat
        /\ last.xmax \in Nat /\ cur.xmax \in Nat /\ last.xmax <= cur.xmax
        /\ last.xip \subseteq Nat /\ \A y \in last.xip : y < last.xmax
    BY NearAssumption, MaxIdAssumption
    DEF LoopInv, TypeOK, Ids, Snapshot, WellFormed, Later
  <2>2. x \in arr => x \in last.xip /\ x \notin cur.xip /\ x < txStart
    BY <2>1 DEF LoopInv, Stragglers
  <2>3. txStart <= last.xmax
    BY <2>1 DEF LoopInv, Stragglers
  <2>4. ~(RangeArm(x) /\ ListArm(x))
    BY <2>1, <2>2 DEF RangeArm, ListArm
  <2>5. RangeArm(x) \/ ListArm(x) => Between(x, last, cur)
    BY <2>1, <2>2 DEF RangeArm, ListArm, Between, Visible
  <2>6. ASSUME Between(x, last, cur) PROVE RangeArm(x) \/ ListArm(x)
    <3>1. x < cur.xmax /\ x \notin cur.xip /\ (x >= last.xmax \/ x \in last.xip)
      BY <2>1, <2>6 DEF Between, Visible
    <3>2. txStart <= x \/ x \in arr
      <4>1. CASE x >= last.xmax
        BY <2>1, <2>3, <4>1
      <4>2. CASE x \in last.xip
        BY <3>1, <4>2 DEF LoopInv, Stragglers, Walked
      <4> QED
        BY <3>1, <4>1, <4>2
    <3> QED
      BY <2>1, <2>6, <3>1, <3>2 DEF RangeArm, ListArm, Between
  <2> QED
    BY <2>4, <2>5, <2>6
<1> QED
  BY <1>1, LoopInvariant, PTL

(* The loop computes the closed form that the event log's model uses.      *)
THEOREM LoopComputesClosedForm == Spec => []LoopIsClosedForm
<1>1. LoopInv => LoopIsClosedForm
  <2> SUFFICES ASSUME LoopInv, todo = {}
               PROVE  /\ txStart = TxStart(last, cur)
                      /\ \A x \in Ids : x \in arr <=> InList(x, last, cur)
    BY DEF LoopIsClosedForm
  <2>1. /\ Near \in Nat /\ txStart \in Nat /\ last.xmax \in Nat
        /\ arr \subseteq Nat /\ Stragglers(last, cur) \subseteq Nat
        /\ arr \subseteq Stragglers(last, cur)
    BY NearAssumption, MaxIdAssumption
    DEF LoopInv, TypeOK, Ids, Snapshot, Stragglers
  <2> DEFINE S == {last.xmax} \cup {x \in Stragglers(last, cur) : Reaches(x, last, cur)}
  <2>2. S \in SUBSET Nat /\ S # {} /\ txStart \in S
    BY <2>1 DEF LoopInv
  <2>3. ASSUME NEW m \in S PROVE txStart <= m
    <3>1. CASE m = last.xmax
      BY <2>1, <3>1 DEF LoopInv, Stragglers, WellFormed
    <3>2. CASE m \in Stragglers(last, cur) /\ Reaches(m, last, cur)
      <4> SUFFICES ASSUME ~(txStart <= m) PROVE FALSE
        OBVIOUS
      <4>1. m \in arr
        BY <3>2 DEF LoopInv, Walked
      <4>2. PICK y \in arr : \A z \in Stragglers(last, cur) : z > y => txStart <= z
        BY <4>1 DEF LoopInv
      <4>3. y + Near < txStart
        BY DEF LoopInv
      <4>4. y >= m
        BY <2>1, <3>2, <4>1, <4>2
      <4>5. PICK z \in Stragglers(last, cur) \cup {last.xmax} : z > y /\ z <= y + Near
        BY <2>1, <3>2, <4>4 DEF Reaches
      <4>6. txStart <= z
        BY <2>1, <3>1, <4>2, <4>5 DEF LoopInv, Stragglers, WellFormed
      <4> QED
        BY <2>1, <4>3, <4>5, <4>6
    <3> QED
      BY <3>1, <3>2
  <2>4. Least(S) \in S /\ \A m \in S : Least(S) <= m
    BY <2>2, LeastProperty
  <2>5. txStart = Least(S)
    <3>1. txStart <= Least(S) /\ Least(S) <= txStart /\ Least(S) \in Nat
      BY <2>2, <2>3, <2>4
    <3> QED
      BY <2>1, <3>1
  <2>6. txStart = TxStart(last, cur)
    BY <2>5 DEF TxStart
  <2>7. ASSUME NEW x \in Ids PROVE x \in arr <=> InList(x, last, cur)
    <3>1. x \in arr => x \in Stragglers(last, cur) /\ x < txStart
      BY <2>1 DEF LoopInv
    <3>2. x \in Stragglers(last, cur) /\ x < txStart => x \in arr
      BY <2>1 DEF LoopInv, Walked
    <3> QED
      BY <2>6, <3>1, <3>2 DEF InList
  <2> QED
    BY <2>6, <2>7
<1> QED
  BY <1>1, LoopInvariant, PTL
=============================================================================
