---------------------------- MODULE SnapshotsProofs ----------------------------
(***************************************************************************)
(* Facts about snapshots and the batch difference, for every Near.         *)
(***************************************************************************)
EXTENDS Snapshots, TLAPS, WellFoundedInduction

(* A nonempty set of naturals has a least element.                         *)
LEMMA LeastProperty ==
    ASSUME NEW S \in SUBSET Nat, S # {}
    PROVE  Least(S) \in S /\ \A m \in S : Least(S) <= m
<1> DEFINE R == {ss \in Nat \X Nat : ss[1] < ss[2]}
<1>1. IsWellFoundedOn(R, Nat)
  BY NatLessThanWellFounded DEF OpToRel
<1> HIDE DEF R
<1>2. PICK x \in S : \A y \in S : ~(<<y, x>> \in R)
  BY <1>1, WFMin
<1>3. ASSUME NEW y \in S PROVE x <= y
  <2>1. ~(<<y, x>> \in R)
    BY <1>2
  <2>2. x \in Nat /\ y \in Nat
    OBVIOUS
  <2> QED
    BY <2>1, <2>2 DEF R
<1> QED
  BY <1>3 DEF Least

(* What pg_current_snapshot() returns.                                     *)
LEMMA CurrentSnapshotShape ==
    ASSUME NEW running \in SUBSET Nat, NEW newestFinished \in Nat
    PROVE  LET s == CurrentSnapshot(running, newestFinished)
           IN  /\ s \in Snapshot
               /\ s.xmax = newestFinished + 1
               /\ s.xip = {x \in running : x < s.xmax}
               /\ s.xmin \in s.xip \cup {s.xmax}
               /\ s.xmin <= s.xmax
               /\ \A x \in s.xip : s.xmin <= x
<1> DEFINE xip == {x \in running : x < newestFinished + 1}
           all == xip \cup {newestFinished + 1}
<1>1. all \in SUBSET Nat /\ all # {}
  <2>1. newestFinished + 1 \in Nat
    OBVIOUS
  <2>2. newestFinished + 1 \in all
    OBVIOUS
  <2>3. xip \subseteq Nat
    OBVIOUS
  <2> QED
    BY <2>1, <2>2, <2>3
<1>2. Least(all) \in all /\ \A m \in all : Least(all) <= m
  BY <1>1, LeastProperty
<1>3. CurrentSnapshot(running, newestFinished) =
          [xmin |-> Least(all), xmax |-> newestFinished + 1, xip |-> xip]
  BY DEF CurrentSnapshot
<1> QED
  BY <1>1, <1>2, <1>3 DEF Snapshot

(* The range never starts above the last tick's xmax.                      *)
LEMMA TxStartBound ==
    ASSUME NEW last \in Snapshot, NEW cur \in Snapshot
    PROVE  TxStart(last, cur) \in Nat /\ TxStart(last, cur) <= last.xmax
<1> DEFINE S == {last.xmax} \cup {x \in Stragglers(last, cur) : Reaches(x, last, cur)}
<1>1. S \in SUBSET Nat /\ S # {}
  BY DEF Stragglers, Snapshot
<1>2. Least(S) \in S /\ \A m \in S : Least(S) <= m
  BY <1>1, LeastProperty
<1> QED
  BY <1>1, <1>2 DEF TxStart

(* The query of batch_event_sql -- an id range lowered towards nearby      *)
(* stragglers plus an IN list for the far ones -- selects a transaction    *)
(* exactly when it finished between the two ticks, and never twice,        *)
(* whatever the distance Near at which the range stops growing.            *)
THEOREM BatchQueryIsTheDiff ==
    ASSUME NEW last \in Snapshot, NEW cur \in Snapshot, NEW x \in Nat,
           last.xmax <= cur.xmax,
           \A y \in last.xip : y < last.xmax
    PROVE  /\ Selected(x, last, cur) <=> Between(x, last, cur)
           /\ ~(InRange(x, last, cur) /\ InList(x, last, cur))
<1>1. TxStart(last, cur) \in Nat /\ TxStart(last, cur) <= last.xmax
  BY TxStartBound
<1>2. last.xmax \in Nat /\ cur.xmax \in Nat
  BY DEF Snapshot
<1>3. InList(x, last, cur) => Between(x, last, cur)
  BY <1>2 DEF InList, Stragglers, Between, Visible
<1>4. InRange(x, last, cur) => Between(x, last, cur)
  BY DEF InRange, Between
<1>5. ASSUME Between(x, last, cur) PROVE Selected(x, last, cur)
  <2>1. CASE x >= last.xmax
    BY <1>1, <1>2, <1>5, <2>1 DEF Between, Visible, Selected, InRange
  <2>2. CASE x \in last.xip
    BY <1>1, <1>2, <1>5, <2>2
    DEF Between, Visible, Selected, InRange, InList, Stragglers
  <2> QED
    BY <1>2, <1>5, <2>1, <2>2 DEF Between, Visible
<1>6. ~(InRange(x, last, cur) /\ InList(x, last, cur))
  BY <1>1 DEF InRange, InList
<1> QED
  BY <1>3, <1>4, <1>5, <1>6 DEF Selected
=============================================================================
