---------------------------- MODULE EventLogProofs ----------------------------
(***************************************************************************)
(* EventLog keeps its safety properties, for every set of producers and    *)
(* consumers, every number of tables and every Near, as long as the three  *)
(* schedules in Gaps are excluded.                                         *)
(***************************************************************************)
EXTENDS EventLogInv, SnapshotsProofs

(* The tables next to the current one exist and differ from it.            *)
LEMMA Neighbours ==
    ASSUME curTable \in Tables
    PROVE  /\ PrevTable \in Tables /\ NextTable \in Tables
           /\ PrevTable # curTable /\ NextTable # curTable
BY NTablesAssumption DEF Tables, PrevTable, NextTable

-----------------------------------------------------------------------------
(* Type correctness.                                                       *)

LEMMA TypeInit == Init => TypeOK
<1> SUFFICES ASSUME Init PROVE TypeOK
  OBVIOUS
<1>1. FirstSnapshot \in Snapshot
  BY DEF FirstSnapshot, Snapshot
<1>2. curTable \in Tables
  BY NTablesAssumption DEF Init, Tables
<1> QED
  BY <1>1, <1>2 DEF Init, TypeOK, NoTx, NoSub, NoReader, NoTable

\* A new tick is a snapshot, and so every tick remains one.
LEMMA TickTypes ==
    ASSUME TypeOK, Tick
    PROVE  /\ DOMAIN ticks' \subseteq Nat \ {0}
           /\ \A t \in DOMAIN ticks' : ticks'[t] \in Snapshot
<1> DEFINE s == CurrentSnapshot(running, newestFinished)
<1>1. s \in Snapshot
  BY CurrentSnapshotShape DEF TypeOK
<1>2. ticks' = [t \in DOMAIN ticks \cup {tickSeq + 1} |->
                   IF t = tickSeq + 1 THEN s ELSE ticks[t]]
  BY DEF Tick
<1>3. tickSeq + 1 \in Nat \ {0}
  BY DEF TypeOK
<1> HIDE DEF s
<1> QED
  BY <1>1, <1>2, <1>3 DEF TypeOK

LEMMA TypeStep == TypeOK /\ [Next]_vars => TypeOK'
<1> SUFFICES ASSUME TypeOK, [Next]_vars PROVE TypeOK'
  OBVIOUS
<1> USE DEF TypeOK, xidVars, queueVars, rowVars, tickVars, subVars
<1>1. ASSUME NEW p \in Producers, ReadQueue(p) PROVE TypeOK'
  BY <1>1 DEF ReadQueue
<1>2. ASSUME NEW p \in Producers, InsertEvent(p) PROVE TypeOK'
  <2> DEFINE x == IF tx[p].xid = 0 THEN nextXid ELSE tx[p].xid
             e == [id |-> evSeq + 1, xid |-> x, tbl |-> tx[p].tbl]
  <2>1. x \in Nat /\ tx[p].tbl \in Tables
    BY <1>2 DEF InsertEvent
  <2>2. e \in Row
    BY <2>1 DEF Row
  <2>3. kept' = kept \cup {e} /\ sent' = sent \cup {e} /\ evSeq' = evSeq + 1
    BY <1>2 DEF InsertEvent
  <2>4. nextXid' \in Nat /\ running' \in SUBSET Nat /\ newestFinished' \in Nat
    <3>1. CASE tx[p].xid = 0
      <4>1. nextXid' = nextXid + 1 /\ running' = running \cup {nextXid}
            /\ newestFinished' = newestFinished
        BY <1>2, <3>1 DEF InsertEvent, Assign
      <4> QED
        BY <4>1
    <3>2. CASE tx[p].xid # 0
      BY <1>2, <3>2 DEF InsertEvent
    <3> QED
      BY <3>1, <3>2
  <2>5. tx' \in [Producers -> [xid : Nat, tbl : Tables \cup {NoTable}]]
    BY <1>2, <2>1 DEF InsertEvent
  <2> HIDE DEF x, e
  <2> QED
    BY <1>2, <2>2, <2>3, <2>4, <2>5 DEF InsertEvent
<1>3. ASSUME NEW p \in Producers, Commit(p) PROVE TypeOK'
  BY <1>3 DEF Commit, Finish, NoTx
<1>4. ASSUME NEW p \in Producers, Abort(p) PROVE TypeOK'
  BY <1>4 DEF Abort, Finish, NoTx
<1>5. ASSUME Tick PROVE TypeOK'
  <2>1. /\ DOMAIN ticks' \subseteq Nat \ {0}
        /\ \A t \in DOMAIN ticks' : ticks'[t] \in Snapshot
    BY <1>5, TickTypes
  <2>2. /\ tickSeq' = tickSeq + 1 /\ nextXid' = nextXid + 1
        /\ newestFinished' = nextXid /\ running' = running
        /\ UNCHANGED <<queueVars, rowVars, tx, subVars>>
    BY <1>5 DEF Tick, AssignAndFinish
  <2> QED
    BY <2>1, <2>2
<1>6. ASSUME RotateStep1Start PROVE TypeOK'
  BY <1>6 DEF RotateStep1Start, Assign
<1>7. ASSUME RotateStep1Commit PROVE TypeOK'
  BY <1>7, Neighbours DEF RotateStep1Commit, Finish
<1>8. ASSUME RotateStep1Skip PROVE TypeOK'
  BY <1>8 DEF RotateStep1Skip, Finish
<1>9. ASSUME RotateStep2 PROVE TypeOK'
  BY <1>9 DEF RotateStep2, AssignAndFinish
<1>10. ASSUME NEW c \in Consumers, RegisterRead(c) \/ RegisterAtRead(c) PROVE TypeOK'
  <2>1. PICK t \in DOMAIN ticks : position' = [position EXCEPT ![c] = t]
    BY <1>10 DEF RegisterRead, RegisterAtRead
  <2>2. /\ moves' = moves + 1
        /\ UNCHANGED <<xidVars, queueVars, rowVars, tickVars, tx, sub, reader, start, acked>>
    BY <1>10 DEF RegisterRead, RegisterAtRead
  <2> QED
    BY <2>1, <2>2
<1>11. ASSUME NEW c \in Consumers, RegisterWrite(c) PROVE TypeOK'
  BY <1>11 DEF RegisterWrite, NoReader
<1>12. ASSUME NEW c \in Consumers, RegisterAbort(c) \/ Unregister(c) PROVE TypeOK'
  <2>1. CASE RegisterAbort(c)
    BY <2>1 DEF RegisterAbort
  <2>2. CASE Unregister(c)
    BY <2>2 DEF Unregister, NoSub, NoReader
  <2> QED
    BY <1>12, <2>1, <2>2
<1>13. ASSUME NEW c \in Consumers, NEW n \in DOMAIN ticks, OpenBatch(c, n) PROVE TypeOK'
  BY <1>13 DEF OpenBatch
<1>14. ASSUME NEW c \in Consumers, PlanQuery(c) PROVE TypeOK'
  BY <1>14, Neighbours DEF PlanQuery, BatchEventTables
<1>15. ASSUME NEW c \in Consumers, RunQuery(c) PROVE TypeOK'
  BY <1>15 DEF RunQuery, BatchRows
<1>16. ASSUME NEW c \in Consumers, ConsumerCrash(c) \/ FinishBatch(c) PROVE TypeOK'
  <2>1. CASE ConsumerCrash(c)
    BY <2>1 DEF ConsumerCrash, NoReader
  <2>2. CASE FinishBatch(c)
    BY <2>2 DEF FinishBatch, NoReader
  <2> QED
    BY <1>16, <2>1, <2>2
<1>17. CASE UNCHANGED vars
  BY <1>17 DEF vars
<1> QED
  BY <1>1, <1>2, <1>3, <1>4, <1>5, <1>6, <1>7, <1>8, <1>9, <1>10, <1>11, <1>12,
     <1>13, <1>14, <1>15, <1>16, <1>17
  DEF Next, Produce, Maintain, Subscribe, Consume, NextBatch, NextBatchCustom

(* Every reachable state is well typed.                                    *)
THEOREM TypeCorrect == Spec => []TypeOK
BY TypeInit, TypeStep, PTL DEF Spec

-----------------------------------------------------------------------------
(* What a conjunct of IInv reads: a step that leaves it alone keeps it.    *)

LEMMA FrameIds ==
    ASSUME IdsOK, UNCHANGED <<xidVars, step1, step2>> PROVE IdsOK'
BY DEF IdsOK, xidVars

LEMMA FrameTx ==
    ASSUME TxOK, UNCHANGED <<tx, running, rotating, step2, curTable>> PROVE TxOK'
BY DEF TxOK, PrevTable

LEMMA FrameRotation ==
    ASSUME RotationOK, UNCHANGED <<rotating, step2, running, sub, ticks>>
    PROVE  RotationOK'
BY DEF RotationOK, Registered, LastTick

LEMMA FrameTicks ==
    ASSUME TicksOK, UNCHANGED <<ticks, tickSeq, running, newestFinished>>
    PROVE  TicksOK'
BY DEF TicksOK, Past

LEMMA FrameRows ==
    ASSUME RowsOK,
           UNCHANGED <<kept, sent, nextXid, running, rotating, step1, step2, curTable, ticks>>
    PROVE  RowsOK'
BY DEF RowsOK, PrevTable

LEMMA FrameSubs ==
    ASSUME SubsOK, UNCHANGED <<sub, reader, ticks, start, sent>> PROVE SubsOK'
BY DEF SubsOK, Registered, HasBatch, LastTick, CurTick

LEMMA FrameExists ==
    ASSUME SubscribedTickExists, UNCHANGED <<sub, ticks>> PROVE SubscribedTickExists'
BY DEF SubscribedTickExists, Registered, HasBatch

LEMMA FrameRetained ==
    ASSUME RetainedTicksComplete, UNCHANGED <<ticks, sent, kept, curTable>>
    PROVE  RetainedTicksComplete'
BY DEF RetainedTicksComplete, PrevTable

LEMMA FrameMissed ==
    ASSUME NothingMissed, UNCHANGED <<reader, sent, ticks, sub>> PROVE NothingMissed'
BY DEF NothingMissed, LastTick, CurTick

LEMMA FrameOnce ==
    ASSUME ExactlyOnce, UNCHANGED <<acked, sent, start, ticks, sub, reader>>
    PROVE  ExactlyOnce'
BY DEF ExactlyOnce, Registered, LastTick

-----------------------------------------------------------------------------
(* Producers.                                                              *)

LEMMA ReadQueueStep ==
    ASSUME IInv, NEW p \in Producers, ReadQueue(p) PROVE IInv'
<1> USE DEF IInv
<1>1. TypeOK'
  BY TypeStep DEF Next, Produce
<1>2. TxOK'
  BY DEF TxOK, ReadQueue, TypeOK, xidVars, queueVars, PrevTable
<1>3. UNCHANGED <<xidVars, queueVars, rowVars, tickVars, subVars>>
  BY DEF ReadQueue
<1> QED
  BY <1>1, <1>2, <1>3, FrameIds, FrameRotation, FrameTicks, FrameRows, FrameSubs,
     FrameExists, FrameRetained, FrameMissed, FrameOnce
  DEF xidVars, queueVars, rowVars, tickVars, subVars

\* What an inserted row looks like once its transaction has an id.
LEMMA InsertFacts ==
    ASSUME IInv, Gaps = {}, NEW p \in Producers, InsertEvent(p)
    PROVE  \E e \in Row :
              /\ kept' = kept \cup {e} /\ sent' = sent \cup {e}
              /\ tx' = [tx EXCEPT ![p] =
                           [xid |-> e.xid,
                            tbl |-> IF p \in RepeatableRead THEN @.tbl ELSE NoTable]]
              /\ e.tbl = tx[p].tbl /\ e.tbl # NoTable
              /\ e.tbl \in {PrevTable, curTable}
              /\ step2 # 0 /\ e.xid > step2 => e.tbl = curTable
              /\ running' = running \cup {e.xid}
              /\ newestFinished' = newestFinished
              /\ \/ e.xid = nextXid /\ nextXid' = nextXid + 1 /\ tx[p].xid = 0
                 \/ e.xid = tx[p].xid /\ nextXid' = nextXid /\ e.xid \in running
<1> DEFINE x == IF tx[p].xid = 0 THEN nextXid ELSE tx[p].xid
           e == [id |-> evSeq + 1, xid |-> x, tbl |-> tx[p].tbl]
<1>1. x \in Nat /\ tx[p].tbl \in Tables /\ tx[p].tbl # NoTable
  BY DEF IInv, TypeOK, InsertEvent
<1>2. e \in Row
  BY <1>1 DEF Row, IInv, TypeOK
<1>3. /\ kept' = kept \cup {e} /\ sent' = sent \cup {e}
      /\ tx' = [tx EXCEPT ![p] =
                   [xid |-> x,
                    tbl |-> IF p \in RepeatableRead THEN @.tbl ELSE NoTable]]
  BY DEF InsertEvent
<1>4. CASE tx[p].xid = 0
  <2>1. /\ nextXid' = nextXid + 1 /\ running' = running \cup {nextXid}
        /\ newestFinished' = newestFinished
    BY <1>4 DEF InsertEvent, Assign
  <2>2. tx[p].tbl = curTable \/ (step2 = 0 /\ tx[p].tbl = PrevTable)
    BY <1>4 DEF InsertEvent, TableIsFresh
  <2> QED
    BY <1>1, <1>2, <1>3, <1>4, <2>1, <2>2
<1>5. CASE tx[p].xid # 0
  <2>1. nextXid' = nextXid /\ running' = running /\ newestFinished' = newestFinished
    BY <1>5 DEF InsertEvent, xidVars
  <2>2. /\ tx[p].xid \in running
        /\ tx[p].tbl \in {PrevTable, curTable}
        /\ step2 # 0 /\ tx[p].xid > step2 => tx[p].tbl = curTable
    BY <1>1, <1>5 DEF IInv, TxOK
  <2> QED
    BY <1>1, <1>2, <1>3, <1>5, <2>1, <2>2
<1> QED
  BY <1>4, <1>5

LEMMA InsertStep ==
    ASSUME IInv, Gaps = {}, NEW p \in Producers, InsertEvent(p) PROVE IInv'
<1>1. PICK e \in Row :
         /\ kept' = kept \cup {e} /\ sent' = sent \cup {e}
         /\ tx' = [tx EXCEPT ![p] =
                      [xid |-> e.xid,
                       tbl |-> IF p \in RepeatableRead THEN @.tbl ELSE NoTable]]
         /\ e.tbl = tx[p].tbl /\ e.tbl # NoTable
         /\ e.tbl \in {PrevTable, curTable}
         /\ step2 # 0 /\ e.xid > step2 => e.tbl = curTable
         /\ running' = running \cup {e.xid}
         /\ newestFinished' = newestFinished
         /\ \/ e.xid = nextXid /\ nextXid' = nextXid + 1 /\ tx[p].xid = 0
            \/ e.xid = tx[p].xid /\ nextXid' = nextXid /\ e.xid \in running
  BY InsertFacts
<1>2. UNCHANGED <<curTable, step1, step2, rotating, ticks, tickSeq>>
      /\ UNCHANGED <<sub, position, reader, start, acked>>
  BY DEF InsertEvent, queueVars, tickVars, subVars
<1>3. TypeOK /\ IdsOK /\ TxOK /\ RotationOK /\ TicksOK /\ RowsOK /\ SubsOK
      /\ SubscribedTickExists /\ RetainedTicksComplete /\ NothingMissed /\ ExactlyOnce
  BY DEF IInv
<1>4. TypeOK'
  BY <1>3, TypeStep DEF Next, Produce
<1>5. /\ e.xid \in Nat /\ nextXid \in Nat /\ newestFinished \in Nat /\ step2 \in Nat
      /\ newestFinished < nextXid /\ step2 <= newestFinished
      /\ e.xid < nextXid' /\ e.xid \notin {0, step2, rotating}
  <2>1. rotating # 0 => rotating \in running /\ rotating < nextXid
    BY <1>3 DEF RotationOK, IdsOK
  <2> QED
    BY <1>1, <1>3, <2>1 DEF TypeOK, IdsOK, TxOK, Row
<1>6. \A t \in DOMAIN ticks : ~Visible(e.xid, ticks[t])
  <2> SUFFICES ASSUME NEW t \in DOMAIN ticks PROVE ~Visible(e.xid, ticks[t])
    OBVIOUS
  <2>1. ticks[t].xmax \in Nat /\ ticks[t].xmax <= newestFinished + 1
    BY <1>3 DEF TypeOK, TicksOK, Past, Snapshot
  <2>2. CASE e.xid = nextXid
    BY <1>5, <2>1, <2>2 DEF Visible
  <2>3. CASE e.xid \in running
    BY <1>3, <2>3 DEF TicksOK, Past
  <2> QED
    BY <1>1, <2>2, <2>3
<1>7. IdsOK'
  <2>1. \A x \in running' : 0 < x /\ x < nextXid'
    BY <1>1, <1>3, <1>5 DEF IdsOK, TypeOK
  <2>2. \A x \in 0 .. nextXid' - 1 : x \notin running' => x <= newestFinished'
    <3>1. CASE e.xid = nextXid /\ nextXid' = nextXid + 1
      <4>1. \A x \in 0 .. nextXid : x = nextXid \/ x \in 0 .. nextXid - 1
        BY <1>5
      <4> QED
        BY <1>1, <1>3, <1>5, <3>1, <4>1 DEF IdsOK
    <3>2. CASE nextXid' = nextXid
      BY <1>1, <1>3, <3>2 DEF IdsOK
    <3> QED
      BY <1>1, <3>1, <3>2
  <2> QED
    BY <1>1, <1>2, <1>3, <1>5, <2>1, <2>2 DEF IdsOK
<1>8. TxOK'
  <2>1. \A q \in Producers : tx'[q].xid = IF q = p THEN e.xid ELSE tx[q].xid
    BY <1>1, <1>3 DEF TypeOK
  <2>2. \A q \in Producers : tx'[q].tbl \in {tx[q].tbl, NoTable}
    BY <1>1, <1>3 DEF TypeOK
  <2>3. rotating # 0 => rotating \in running
    BY <1>3 DEF RotationOK
  <2>4. \A q \in Producers : tx[q].xid # 0 => tx[q].xid < nextXid
    BY <1>3 DEF TxOK, IdsOK
  <2>5. e.xid # rotating
    BY <1>1, <1>3, <1>5, <2>3 DEF TxOK, IdsOK
  <2>6. \A q \in Producers : tx'[q].xid # 0 =>
           /\ tx'[q].xid \in running'
           /\ tx'[q].xid # rotating /\ tx'[q].xid # step2
    BY <1>1, <1>3, <1>5, <2>1, <2>5 DEF TxOK
  <2>7. \A q \in Producers \ {p} : tx[q].xid # e.xid
    BY <1>1, <1>3, <1>5, <2>4 DEF TxOK, TypeOK
  <2>8. \A q \in Producers : tx'[q].xid # 0 =>
            \A r \in Producers \ {q} : tx'[r].xid # tx'[q].xid
    BY <1>3, <2>1, <2>7 DEF TxOK
  <2>9. \A q \in Producers : tx'[q].xid # 0 /\ tx'[q].tbl # NoTable =>
           /\ tx'[q].tbl \in {PrevTable, curTable}
           /\ step2 # 0 /\ tx'[q].xid > step2 => tx'[q].tbl = curTable
    BY <1>1, <1>3, <2>1, <2>2 DEF TxOK
  <2> QED
    BY <1>2, <2>6, <2>8, <2>9 DEF TxOK, PrevTable
<1>9. RotationOK'
  BY <1>1, <1>2, <1>3, <1>5 DEF RotationOK, Registered, LastTick
<1>10. TicksOK'
  BY <1>1, <1>2, <1>3, <1>6 DEF TicksOK, Past
<1>11. RowsOK'
  <2>1. kept' \subseteq sent'
    BY <1>1, <1>3 DEF RowsOK
  <2>2. \A f \in sent' : f.xid < nextXid' /\ f.xid \notin {0, step2, rotating}
    BY <1>1, <1>3, <1>5 DEF RowsOK, TypeOK, Row
  <2>3. \A f \in sent' : step2 # 0 /\ f.xid > step2 => f \in kept' /\ f.tbl = curTable
    BY <1>1, <1>3 DEF RowsOK
  <2>4. \A f \in sent : f.xid # nextXid
    BY <1>3, <1>5 DEF RowsOK
  <2>5. \A f \in sent' : f.xid \in running' =>
                            f \in kept' /\ f.tbl \in {PrevTable, curTable}
    BY <1>1, <1>3, <2>4 DEF RowsOK
  <2>6. \A f \in kept', t \in DOMAIN ticks :
           f.tbl = curTable /\ ticks[t].xmax < step1 => ~Visible(f.xid, ticks[t])
    BY <1>1, <1>3, <1>6 DEF RowsOK
  <2> QED
    BY <1>2, <2>1, <2>2, <2>3, <2>5, <2>6 DEF RowsOK, PrevTable
<1>12. \A c \in Consumers :
          Registered(c) => ~Between(e.xid, start[c], LastTick(c))
  BY <1>3, <1>6 DEF SubscribedTickExists, LastTick, Between
<1>13. \A c \in Consumers :
          reader[c].phase # "idle" => ~Between(e.xid, LastTick(c), CurTick(c))
  BY <1>3, <1>6 DEF SubscribedTickExists, SubsOK, CurTick, Between
<1>14. SubsOK'
  BY <1>1, <1>2, <1>3, <1>13
  DEF SubsOK, Registered, HasBatch, LastTick, CurTick
<1>15. SubscribedTickExists'
  BY <1>2, <1>3, FrameExists
<1>16. RetainedTicksComplete'
  BY <1>1, <1>2, <1>3 DEF RetainedTicksComplete, PrevTable
<1>17. NothingMissed'
  BY <1>1, <1>2, <1>3, <1>13 DEF NothingMissed, LastTick, CurTick
<1>18. ExactlyOnce'
  BY <1>1, <1>2, <1>3, <1>12 DEF ExactlyOnce, Registered, LastTick
<1> QED
  BY <1>4, <1>7, <1>8, <1>9, <1>10, <1>11, <1>14, <1>15, <1>16, <1>17, <1>18 DEF IInv

\* A transaction that was running has finished.
LEMMA FinishFacts ==
    ASSUME TypeOK, IdsOK, NEW x \in running, Finish(x)
    PROVE  /\ nextXid' = nextXid /\ running' = running \ {x}
           /\ newestFinished' \in Nat
           /\ newestFinished <= newestFinished' /\ x <= newestFinished'
           /\ newestFinished' < nextXid'
           /\ \A y \in running' : 0 < y /\ y < nextXid'
           /\ \A y \in 0 .. nextXid' - 1 : y \notin running' => y <= newestFinished'
<1>1. x \in Nat /\ newestFinished \in Nat /\ nextXid \in Nat /\ x < nextXid
  BY DEF TypeOK, IdsOK
<1>2. /\ nextXid' = nextXid /\ running' = running \ {x}
      /\ newestFinished' = IF x > newestFinished THEN x ELSE newestFinished
  BY DEF Finish
<1>3. /\ newestFinished' \in Nat
      /\ newestFinished <= newestFinished' /\ x <= newestFinished'
      /\ newestFinished' < nextXid
  BY <1>1, <1>2 DEF IdsOK
<1>4. \A y \in running' : 0 < y /\ y < nextXid'
  BY <1>2 DEF IdsOK
<1>5. ASSUME NEW y \in 0 .. nextXid' - 1, y \notin running'
      PROVE  y <= newestFinished'
  <2>1. CASE y = x
    BY <1>3, <2>1
  <2>2. CASE y \notin running
    <3>1. y <= newestFinished
      BY <1>2, <1>5, <2>2 DEF IdsOK
    <3> QED
      BY <1>1, <1>2, <1>3, <3>1
  <2> QED
    BY <1>2, <1>5, <2>1, <2>2
<1> QED
  BY <1>2, <1>3, <1>4, <1>5

LEMMA FinishTicks ==
    ASSUME TypeOK, IdsOK, TicksOK, NEW x \in running, Finish(x),
           UNCHANGED <<ticks, tickSeq>>
    PROVE  TicksOK'
<1>1. /\ running' \subseteq running /\ newestFinished' \in Nat
      /\ newestFinished \in Nat /\ newestFinished <= newestFinished'
  BY FinishFacts DEF TypeOK
<1>2. ASSUME NEW t \in DOMAIN ticks PROVE Past(ticks[t], running', newestFinished')
  <2>1. Past(ticks[t], running, newestFinished) /\ ticks[t].xmax \in Nat
    BY DEF TicksOK, TypeOK, Snapshot
  <2> QED
    BY <1>1, <2>1 DEF Past
<1> QED
  BY <1>2 DEF TicksOK

LEMMA CommitStep ==
    ASSUME IInv, NEW p \in Producers, Commit(p) PROVE IInv'
<1> DEFINE x == tx[p].xid
<1>1. TypeOK /\ IdsOK /\ TxOK /\ RotationOK /\ TicksOK /\ RowsOK /\ SubsOK
      /\ SubscribedTickExists /\ RetainedTicksComplete /\ NothingMissed /\ ExactlyOnce
  BY DEF IInv
<1>2. TypeOK'
  BY <1>1, TypeStep DEF Next, Produce
<1>3. /\ x \in running /\ Finish(x) /\ x # rotating
      /\ tx' = [tx EXCEPT ![p] = NoTx]
      /\ UNCHANGED <<queueVars, rowVars, tickVars, subVars>>
  BY <1>1 DEF Commit, TxOK
<1>4. /\ nextXid' = nextXid /\ running' = running \ {x}
      /\ IdsOK'
  <2>1. step1' = step1 /\ step2' = step2 /\ step1 \in Nat /\ step2 \in Nat
        /\ newestFinished \in Nat
    BY <1>1, <1>3 DEF queueVars, TypeOK
  <2> HIDE DEF x
  <2> QED
    BY <1>1, <1>3, <2>1, FinishFacts DEF IdsOK
<1>5. TxOK'
  <2>1. \A q \in Producers : tx'[q] = IF q = p THEN NoTx ELSE tx[q]
    BY <1>1, <1>3 DEF TypeOK
  <2>2. \A q \in Producers \ {p} : tx[q].xid # 0 => tx[q].xid \in running'
    BY <1>1, <1>4 DEF TxOK
  <2>3. UNCHANGED <<curTable, step2, rotating>>
    BY <1>3 DEF queueVars
  <2> HIDE DEF x
  <2> QED
    BY <1>1, <2>1, <2>2, <2>3 DEF TxOK, NoTx, PrevTable
<1>6. RotationOK'
  BY <1>1, <1>3, <1>4 DEF RotationOK, queueVars, subVars, tickVars, Registered, LastTick
<1>7. TicksOK'
  BY <1>1, <1>3, FinishTicks DEF tickVars
<1>8. RowsOK'
  BY <1>1, <1>3, <1>4 DEF RowsOK, queueVars, rowVars, tickVars, PrevTable
<1> QED
  BY <1>1, <1>2, <1>3, <1>4, <1>5, <1>6, <1>7, <1>8, FrameSubs, FrameExists,
     FrameRetained, FrameMissed, FrameOnce
  DEF IInv, queueVars, rowVars, tickVars, subVars

\* Rows of a running transaction are in no batch, finished or open.
LEMMA RunningRowsUnseen ==
    ASSUME IInv, NEW x \in running
    PROVE  /\ \A t \in DOMAIN ticks : ~Visible(x, ticks[t])
           /\ \A c \in Consumers : Registered(c) => ~Between(x, start[c], LastTick(c))
           /\ \A c \in Consumers :
                 reader[c].phase # "idle" => ~Between(x, LastTick(c), CurTick(c))
BY DEF IInv, TicksOK, Past, SubscribedTickExists, SubsOK, LastTick, CurTick, Between

LEMMA AbortStep ==
    ASSUME IInv, NEW p \in Producers, Abort(p) PROVE IInv'
<1> DEFINE x == tx[p].xid
<1>1. TypeOK /\ IdsOK /\ TxOK /\ RotationOK /\ TicksOK /\ RowsOK /\ SubsOK
      /\ SubscribedTickExists /\ RetainedTicksComplete /\ NothingMissed /\ ExactlyOnce
  BY DEF IInv
<1>2. TypeOK'
  BY <1>1, TypeStep DEF Next, Produce
<1>3. /\ kept' = {e \in kept : e.xid # x} /\ sent' = {e \in sent : e.xid # x}
      /\ tx' = [tx EXCEPT ![p] = NoTx]
      /\ UNCHANGED <<queueVars, tickVars, subVars>>
  BY DEF Abort
<1>4. CASE x = 0
  <2>1. kept' = kept /\ sent' = sent
    BY <1>1, <1>3, <1>4 DEF RowsOK
  <2>2. UNCHANGED xidVars
    BY <1>4 DEF Abort
  <2>3. TxOK'
    <3>1. \A q \in Producers : tx'[q] = IF q = p THEN NoTx ELSE tx[q]
      BY <1>1, <1>3 DEF TypeOK
    <3> HIDE DEF x
    <3> QED
      BY <1>1, <1>3, <2>2, <3>1 DEF TxOK, NoTx, PrevTable, xidVars, queueVars
  <2> QED
    BY <1>1, <1>2, <1>3, <2>1, <2>2, <2>3, FrameIds, FrameRotation, FrameTicks,
       FrameRows, FrameSubs, FrameExists, FrameRetained, FrameMissed, FrameOnce
    DEF IInv, xidVars, queueVars, tickVars, subVars
<1>5. CASE x # 0
  <2>1. x \in running /\ Finish(x) /\ x # rotating
    BY <1>1, <1>5 DEF Abort, TxOK
  <2>2. /\ \A t \in DOMAIN ticks : ~Visible(x, ticks[t])
        /\ \A c \in Consumers : Registered(c) => ~Between(x, start[c], LastTick(c))
        /\ \A c \in Consumers :
              reader[c].phase # "idle" => ~Between(x, LastTick(c), CurTick(c))
    BY <2>1, RunningRowsUnseen
  <2>3. UNCHANGED <<curTable, step1, step2, rotating, ticks, tickSeq>>
        /\ UNCHANGED <<sub, position, reader, start, acked>>
    BY <1>3 DEF queueVars, tickVars, subVars
  <2>4. nextXid' = nextXid /\ running' = running \ {x} /\ IdsOK'
    <3>1. step1 \in Nat /\ step2 \in Nat /\ newestFinished \in Nat
      BY <1>1 DEF TypeOK
    <3> HIDE DEF x
    <3> QED
      BY <1>1, <2>1, <2>3, <3>1, FinishFacts DEF IdsOK
  <2>5. TxOK'
    <3>1. \A q \in Producers : tx'[q] = IF q = p THEN NoTx ELSE tx[q]
      BY <1>1, <1>3 DEF TypeOK
    <3>2. \A q \in Producers \ {p} : tx[q].xid # 0 => tx[q].xid \in running'
      BY <1>1, <1>5, <2>4 DEF TxOK
    <3> HIDE DEF x
    <3> QED
      BY <1>1, <2>3, <3>1, <3>2 DEF TxOK, NoTx, PrevTable
  <2>6. RotationOK'
    BY <1>1, <2>1, <2>3, <2>4 DEF RotationOK, Registered, LastTick
  <2>7. TicksOK'
    BY <1>1, <2>1, <2>3, FinishTicks
  <2>8. RowsOK'
    BY <1>1, <1>3, <2>3, <2>4 DEF RowsOK, PrevTable
  <2>9. SubsOK'
    BY <1>1, <1>3, <2>3 DEF SubsOK, Registered, HasBatch, LastTick, CurTick
  <2>10. SubscribedTickExists'
    BY <1>1, <2>3, FrameExists
  <2>11. RetainedTicksComplete'
    BY <1>1, <1>3, <2>3 DEF RetainedTicksComplete, PrevTable
  <2>12. NothingMissed'
    BY <1>1, <1>3, <2>2, <2>3 DEF NothingMissed, LastTick, CurTick
  <2>13. ExactlyOnce'
    BY <1>1, <1>3, <2>2, <2>3 DEF ExactlyOnce, Registered, LastTick
  <2> QED
    BY <1>2, <2>4, <2>5, <2>6, <2>7, <2>8, <2>9, <2>10, <2>11, <2>12, <2>13 DEF IInv
<1> QED
  BY <1>4, <1>5

-----------------------------------------------------------------------------
(* Ticker and rotation.                                                    *)

\* Subscriptions only look at their own ticks.
LEMMA SubscribedTicksKept ==
    ASSUME IInv,
           UNCHANGED <<sub, reader, start, acked, sent>>,
           \A c \in Consumers : \A t \in {sub[c].last, sub[c].next} :
               Registered(c) /\ t # 0 => t \in DOMAIN ticks' /\ ticks'[t] = ticks[t]
    PROVE  SubsOK' /\ SubscribedTickExists' /\ NothingMissed' /\ ExactlyOnce'
<1>1. SubsOK /\ SubscribedTickExists /\ NothingMissed /\ ExactlyOnce
  BY DEF IInv
<1>2. \A c \in Consumers : Registered(c) =>
         sub[c].last \in DOMAIN ticks' /\ ticks'[sub[c].last] = ticks[sub[c].last]
  BY DEF Registered
<1>3. \A c \in Consumers : HasBatch(c) =>
         /\ Registered(c)
         /\ sub[c].next \in DOMAIN ticks' /\ ticks'[sub[c].next] = ticks[sub[c].next]
  BY <1>1 DEF SubsOK, HasBatch
<1>4. SubscribedTickExists'
  BY <1>2, <1>3 DEF SubscribedTickExists, Registered, HasBatch
<1>5. \A c \in Consumers : reader[c].phase # "idle" => HasBatch(c)
  BY <1>1 DEF SubsOK
<1>6. \A c \in Consumers :
         /\ Registered(c) => LastTick(c)' = LastTick(c)
         /\ HasBatch(c) => LastTick(c)' = LastTick(c) /\ CurTick(c)' = CurTick(c)
  BY <1>2, <1>3 DEF LastTick, CurTick
<1>7. SubsOK'
  BY <1>1, <1>5, <1>6 DEF SubsOK, Registered, HasBatch
<1>8. NothingMissed'
  BY <1>1, <1>5, <1>6 DEF NothingMissed
<1>9. ExactlyOnce'
  BY <1>1, <1>6 DEF ExactlyOnce, Registered
<1> QED
  BY <1>4, <1>7, <1>8, <1>9

LEMMA TickStep ==
    ASSUME IInv, Tick PROVE IInv'
<1> DEFINE s == CurrentSnapshot(running, newestFinished)
           n == tickSeq + 1
<1>1. TypeOK /\ IdsOK /\ TxOK /\ RotationOK /\ TicksOK /\ RowsOK /\ SubsOK
      /\ SubscribedTickExists /\ RetainedTicksComplete /\ NothingMissed /\ ExactlyOnce
  BY DEF IInv
<1>2. TypeOK'
  BY <1>1, TypeStep DEF Next, Maintain
<1>3. /\ s \in Snapshot
      /\ s.xmax = newestFinished + 1
      /\ s.xip = {x \in running : x < s.xmax}
      /\ s.xmin \in s.xip \cup {s.xmax}
      /\ s.xmin <= s.xmax
      /\ \A x \in s.xip : s.xmin <= x
  BY <1>1, CurrentSnapshotShape DEF TypeOK
<1> HIDE DEF s
<1>4. /\ ticks' = [t \in DOMAIN ticks \cup {n} |-> IF t = n THEN s ELSE ticks[t]]
      /\ tickSeq' = n
      /\ nextXid' = nextXid + 1 /\ newestFinished' = nextXid /\ running' = running
      /\ rotating = 0
      /\ UNCHANGED <<queueVars, rowVars, tx, subVars>>
  BY DEF Tick, AssignAndFinish, s
<1>5. /\ nextXid \in Nat /\ newestFinished \in Nat /\ tickSeq \in Nat
      /\ newestFinished < nextXid /\ step1 <= newestFinished /\ step2 <= newestFinished
      /\ step1 \in Nat /\ step2 \in Nat
  BY <1>1 DEF TypeOK, IdsOK
<1>6. \A t \in DOMAIN ticks : t # n /\ t <= tickSeq /\ t \in Nat
  BY <1>1, <1>5 DEF TicksOK, TypeOK
<1>7. /\ DOMAIN ticks' = DOMAIN ticks \cup {n} /\ ticks'[n] = s
      /\ \A t \in DOMAIN ticks : ticks'[t] = ticks[t]
  BY <1>4, <1>6
<1>8. \A x \in running : ~Visible(x, s)
  BY <1>3 DEF Visible
<1>9. UNCHANGED <<curTable, step1, step2, rotating, kept, sent, sub, reader, start, acked>>
  BY <1>4 DEF queueVars, rowVars, subVars
<1>10. IdsOK'
  <2>1. newestFinished' < nextXid' /\ step1' <= newestFinished' /\ step2' <= newestFinished'
    BY <1>4, <1>5, <1>9
  <2>2. \A x \in running' : 0 < x /\ x < nextXid'
    BY <1>1, <1>4, <1>5 DEF IdsOK, TypeOK
  <2>3. \A x \in 0 .. nextXid' - 1 : x <= newestFinished'
    BY <1>4, <1>5
  <2> QED
    BY <2>1, <2>2, <2>3 DEF IdsOK
<1>11. TxOK'
  BY <1>1, <1>4, <1>9, FrameTx
<1>12. RotationOK'
  BY <1>4, <1>9 DEF RotationOK
<1>13. TicksOK'
  <2>1. ASSUME NEW t \in DOMAIN ticks PROVE Past(ticks[t], running', newestFinished')
    <3>1. Past(ticks[t], running, newestFinished) /\ ticks[t].xmax \in Nat
      BY <1>1 DEF TicksOK, TypeOK, Snapshot
    <3> QED
      BY <1>4, <1>5, <3>1 DEF Past
  <2>2. Past(s, running', newestFinished')
    BY <1>3, <1>4, <1>5, <1>8 DEF Past
  <2>3. ASSUME NEW t \in DOMAIN ticks
        PROVE  ticks[t].xmin <= s.xmin /\ Extends(ticks[t], s)
    <3>1. Past(ticks[t], running, newestFinished) /\ ticks[t] \in Snapshot
      BY <1>1 DEF TicksOK, TypeOK
    <3>2. ticks[t].xmax <= s.xmax
      BY <1>3, <3>1 DEF Past
    <3>3. ASSUME NEW x \in 0 .. ticks[t].xmax, Visible(x, ticks[t])
          PROVE  Visible(x, s)
      <4>1. x \notin running
        BY <3>1, <3>3 DEF Past
      <4>2. x < s.xmax
        BY <1>3, <3>1, <3>2, <3>3 DEF Visible, Snapshot
      <4> QED
        BY <1>3, <4>1, <4>2 DEF Visible
    <3>4. ticks[t].xmin <= s.xmin
      <4>1. CASE s.xmin = s.xmax
        BY <1>3, <3>1, <3>2, <4>1 DEF Past, Snapshot
      <4>2. CASE s.xmin \in running
        <5>1. ~Visible(s.xmin, ticks[t])
          BY <3>1, <4>2 DEF Past
        <5> QED
          BY <1>3, <3>1, <5>1 DEF Visible, Past, Snapshot
      <4> QED
        BY <1>3, <4>1, <4>2
    <3> QED
      BY <3>2, <3>3, <3>4 DEF Extends
  <2>4. Extends(s, s) /\ s.xmin <= s.xmin
    BY <1>3 DEF Extends, Snapshot
  <2>5. \A t \in DOMAIN ticks' :
           t <= tickSeq' /\ Past(ticks'[t], running', newestFinished')
    BY <1>4, <1>5, <1>6, <1>7, <2>1, <2>2
  <2>6. ASSUME NEW t \in DOMAIN ticks', NEW u \in DOMAIN ticks', t <= u
        PROVE  ticks'[t].xmin <= ticks'[u].xmin /\ Extends(ticks'[t], ticks'[u])
    <3>1. CASE t \in DOMAIN ticks /\ u \in DOMAIN ticks
      BY <1>1, <1>7, <2>6, <3>1 DEF TicksOK
    <3>2. CASE t \in DOMAIN ticks /\ u = n
      BY <1>7, <2>3, <3>2
    <3>3. CASE t = n /\ u \in DOMAIN ticks
      BY <1>5, <1>6, <2>6, <3>3
    <3>4. CASE t = n /\ u = n
      BY <1>7, <2>4, <3>4
    <3> QED
      BY <1>7, <3>1, <3>2, <3>3, <3>4
  <2> QED
    BY <2>5, <2>6 DEF TicksOK
<1>14. RowsOK'
  <2>1. \A e \in sent : e.xid < nextXid'
    BY <1>1, <1>4, <1>5 DEF RowsOK, TypeOK, Row
  <2>2. ASSUME NEW e \in kept, NEW t \in DOMAIN ticks',
               e.tbl = curTable, ticks'[t].xmax < step1
        PROVE  ~Visible(e.xid, ticks'[t])
    <3>1. CASE t = n
      BY <1>3, <1>5, <1>7, <2>2, <3>1
    <3>2. CASE t \in DOMAIN ticks
      BY <1>1, <1>7, <2>2, <3>2 DEF RowsOK
    <3> QED
      BY <1>7, <3>1, <3>2
  <2> QED
    BY <1>1, <1>4, <1>9, <2>1, <2>2 DEF RowsOK, PrevTable
<1>15. SubsOK' /\ SubscribedTickExists' /\ NothingMissed' /\ ExactlyOnce'
  <2>1. \A c \in Consumers : \A t \in {sub[c].last, sub[c].next} :
           Registered(c) /\ t # 0 => t \in DOMAIN ticks' /\ ticks'[t] = ticks[t]
    BY <1>1, <1>7 DEF SubscribedTickExists, HasBatch
  <2> QED
    BY <1>9, <2>1, SubscribedTicksKept
<1>16. RetainedTicksComplete'
  <2>1. ASSUME NEW e \in sent, ~Visible(e.xid, s)
        PROVE  e \in kept /\ e.tbl \in {PrevTable, curTable}
    <3>1. e.xid \in Nat /\ e.xid < nextXid
      BY <1>1 DEF RowsOK, TypeOK, Row
    <3>2. e.xid \in running
      BY <1>1, <1>3, <1>5, <2>1, <3>1 DEF Visible, IdsOK
    <3> QED
      BY <1>1, <3>2 DEF RowsOK
  <2> QED
    BY <1>1, <1>7, <1>9, <2>1 DEF RetainedTicksComplete, PrevTable
<1> QED
  BY <1>2, <1>10, <1>11, <1>12, <1>13, <1>14, <1>15, <1>16 DEF IInv

\* A tick has seen every transaction below its xmin finish.
LEMMA XminAbove ==
    ASSUME IInv, NEW t \in DOMAIN ticks, NEW x \in Nat, ~Visible(x, ticks[t])
    PROVE  ticks[t].xmin <= x
<1>1. /\ ticks[t].xmin \in Nat /\ ticks[t].xmax \in Nat
      /\ ticks[t].xmin <= ticks[t].xmax
      /\ \A y \in ticks[t].xip : ticks[t].xmin <= y
  BY DEF IInv, TypeOK, Snapshot, TicksOK, Past
<1> QED
  BY <1>1 DEF Visible

LEMMA RotateStep1StartStep ==
    ASSUME IInv, Gaps = {}, RotateStep1Start PROVE IInv'
<1>1. TypeOK /\ IdsOK /\ TxOK /\ RotationOK /\ TicksOK /\ RowsOK /\ SubsOK
      /\ SubscribedTickExists /\ RetainedTicksComplete /\ NothingMissed /\ ExactlyOnce
  BY DEF IInv
<1>2. TypeOK'
  BY <1>1, TypeStep DEF Next, Maintain
<1>3. /\ nextXid' = nextXid + 1 /\ running' = running \cup {nextXid}
      /\ newestFinished' = newestFinished
      /\ rotating' = nextXid /\ step2 # 0
      /\ UNCHANGED <<curTable, step1, step2, rowVars, tickVars, tx, subVars>>
  BY DEF RotateStep1Start, Assign
<1>4. /\ nextXid \in Nat /\ newestFinished \in Nat /\ step2 \in Nat
      /\ newestFinished < nextXid /\ step1 <= newestFinished /\ step2 <= newestFinished
  BY <1>1 DEF TypeOK, IdsOK
<1>5. UNCHANGED <<curTable, step1, step2, ticks, tickSeq, kept, sent, tx>>
      /\ UNCHANGED <<sub, position, reader, start, acked>>
  BY <1>3 DEF rowVars, tickVars, subVars
<1>6. IdsOK'
  <2>1. \A x \in running' : 0 < x /\ x < nextXid'
    BY <1>1, <1>3, <1>4 DEF IdsOK, TypeOK
  <2>2. \A x \in 0 .. nextXid' - 1 : x \notin running' => x <= newestFinished'
    <3>1. \A x \in 0 .. nextXid : x = nextXid \/ x \in 0 .. nextXid - 1
      BY <1>4
    <3> QED
      BY <1>1, <1>3, <1>4, <3>1 DEF IdsOK
  <2> QED
    BY <1>3, <1>4, <1>5, <2>1, <2>2 DEF IdsOK
<1>7. \A x \in running : x \in Nat /\ x < nextXid
  BY <1>1 DEF IdsOK, TypeOK
<1>8. TxOK'
  BY <1>1, <1>3, <1>4, <1>5, <1>7 DEF TxOK, PrevTable
<1>9. RotationOK'
  <2>1. CASE NobodyRegistered /\ WatchedRotation
    <3>1. \A x \in running' : x > step2
      BY <1>3, <1>4, <2>1 DEF WatchedRotation
    <3> QED
      BY <1>3, <1>5, <2>1, <3>1 DEF RotationOK, NobodyRegistered, Registered
  <2>2. CASE SlowestIsPast(step2)
    <3>1. PICK c \in Consumers :
             /\ Registered(c)
             /\ \A d \in Consumers : Registered(d) => sub[c].last <= sub[d].last
             /\ sub[c].last \in DOMAIN ticks
             /\ LastTick(c).xmin > step2
      BY <2>2 DEF SlowestIsPast
    <3>2. LastTick(c).xmin \in Nat
      BY <1>1, <3>1 DEF LastTick, TypeOK, Snapshot
    <3>3. ASSUME NEW x \in running PROVE x > step2
      <4>1. ~Visible(x, LastTick(c))
        BY <1>1, <3>1 DEF TicksOK, Past, LastTick
      <4>2. LastTick(c).xmin <= x
        BY <1>4, <1>7, <3>1, <4>1, XminAbove DEF LastTick
      <4> QED
        BY <1>4, <1>7, <3>1, <3>2, <4>2
    <3>4. ASSUME NEW d \in Consumers, Registered(d)
          PROVE  LastTick(d).xmin >= step2
      <4>1. sub[d].last \in DOMAIN ticks
        BY <1>1, <3>4 DEF SubscribedTickExists
      <4>2. LastTick(c).xmin <= LastTick(d).xmin
        BY <1>1, <3>1, <3>4, <4>1 DEF TicksOK, LastTick
      <4>3. LastTick(d).xmin \in Nat
        BY <1>1, <4>1 DEF TypeOK, Snapshot, LastTick
      <4> QED
        BY <1>4, <3>1, <3>2, <4>2, <4>3
    <3>5. \A x \in running' : x > step2
      BY <1>3, <1>4, <3>3
    <3> QED
      BY <1>3, <1>5, <3>4, <3>5 DEF RotationOK, Registered, LastTick
  <2> QED
    BY <2>1, <2>2 DEF RotateStep1Start
<1>10. TicksOK'
  <2>1. ASSUME NEW t \in DOMAIN ticks PROVE Past(ticks[t], running', newestFinished')
    <3>1. Past(ticks[t], running, newestFinished) /\ ticks[t].xmax \in Nat
      BY <1>1 DEF TicksOK, TypeOK, Snapshot
    <3>2. ~Visible(nextXid, ticks[t])
      BY <1>4, <3>1 DEF Past, Visible
    <3> QED
      BY <1>3, <3>1, <3>2 DEF Past
  <2> QED
    BY <1>1, <1>5, <2>1 DEF TicksOK
<1>11. RowsOK'
  <2>1. \A e \in sent : e.xid \in Nat /\ e.xid < nextXid
    BY <1>1 DEF RowsOK, TypeOK, Row
  <2> QED
    BY <1>1, <1>3, <1>4, <1>5, <2>1 DEF RowsOK, PrevTable
<1> QED
  BY <1>1, <1>2, <1>5, <1>6, <1>8, <1>9, <1>10, <1>11, FrameSubs, FrameExists,
     FrameRetained, FrameMissed, FrameOnce
  DEF IInv

\* Step 1 makes the next table current, so the current one becomes the previous.
LEMMA PrevOfNext ==
    ASSUME curTable \in Tables, curTable' = NextTable
    PROVE  PrevTable' = curTable /\ curTable' # curTable
BY NTablesAssumption DEF Tables, PrevTable, NextTable

LEMMA RotateStep1CommitStep ==
    ASSUME IInv, RotateStep1Commit PROVE IInv'
<1>1. TypeOK /\ IdsOK /\ TxOK /\ RotationOK /\ TicksOK /\ RowsOK /\ SubsOK
      /\ SubscribedTickExists /\ RetainedTicksComplete /\ NothingMissed /\ ExactlyOnce
  BY DEF IInv
<1>2. TypeOK'
  BY <1>1, TypeStep DEF Next, Maintain
<1>3. /\ rotating # 0 /\ Finish(rotating)
      /\ kept' = {e \in kept : e.tbl # NextTable}
      /\ curTable' = NextTable /\ step1' = rotating /\ step2' = 0 /\ rotating' = 0
      /\ ticks' = [t \in {u \in DOMAIN ticks : TickSurvives(u)} |-> ticks[t]]
      /\ UNCHANGED <<sent, tickSeq, tx, subVars>>
  BY DEF RotateStep1Commit
<1>4. /\ rotating \in running
      /\ \A x \in running : x > step2
      /\ \A c \in Consumers : Registered(c) => LastTick(c).xmin >= step2
      /\ step2 # 0 /\ step2 \in Nat
  BY <1>1, <1>3 DEF RotationOK, TypeOK
<1>5. PrevTable' = curTable /\ curTable' # curTable
  BY <1>1, <1>3, PrevOfNext DEF TypeOK
<1>6. /\ running' = running \ {rotating} /\ nextXid' = nextXid
      /\ rotating <= newestFinished'
  BY <1>1, <1>3, <1>4, FinishFacts
<1>7. IdsOK'
  BY <1>1, <1>3, <1>4, FinishFacts DEF IdsOK
<1>8. TxOK'
  <2>1. \A p \in Producers : tx[p].xid # 0 /\ tx[p].tbl # NoTable =>
                                tx[p].tbl = curTable
    BY <1>1, <1>4 DEF TxOK
  <2> QED
    BY <1>1, <1>3, <1>5, <1>6, <2>1 DEF TxOK
<1>9. RotationOK'
  BY <1>3 DEF RotationOK
<1>10. /\ DOMAIN ticks' = {u \in DOMAIN ticks : TickSurvives(u)}
       /\ \A t \in DOMAIN ticks' : t \in DOMAIN ticks /\ ticks'[t] = ticks[t]
  BY <1>3
<1>11. TicksOK'
  <2>1. ASSUME NEW t \in DOMAIN ticks'
        PROVE  t <= tickSeq' /\ Past(ticks'[t], running', newestFinished')
    <3>1. /\ Past(ticks[t], running, newestFinished) /\ ticks[t].xmax \in Nat
          /\ t <= tickSeq
      BY <1>1, <1>10 DEF TicksOK, TypeOK, Snapshot
    <3>2. /\ newestFinished \in Nat /\ newestFinished' \in Nat
          /\ newestFinished <= newestFinished'
      BY <1>1, <1>3, <1>4, FinishFacts DEF TypeOK
    <3> QED
      BY <1>3, <1>6, <1>10, <3>1, <3>2 DEF Past
  <2> QED
    BY <1>1, <1>10, <2>1 DEF TicksOK
<1>12. RowsOK'
  <2>1. \A e \in sent : e.xid \in running' => e \in kept' /\ e.tbl = curTable
    BY <1>1, <1>3, <1>4, <1>5, <1>6 DEF RowsOK
  <2>2. \A e \in kept' : e.tbl # curTable'
    BY <1>3
  <2>3. kept' \subseteq sent' /\ \A e \in sent' : e.xid < nextXid' /\ e.xid # 0
    BY <1>1, <1>3, <1>6 DEF RowsOK
  <2> QED
    BY <1>3, <1>5, <2>1, <2>2, <2>3 DEF RowsOK
<1>13. SubsOK' /\ SubscribedTickExists' /\ NothingMissed' /\ ExactlyOnce'
  <2>1. ASSUME NEW c \in Consumers, Registered(c)
        PROVE  sub[c].last \in DOMAIN ticks'
    BY <1>1, <1>4, <1>10, <2>1 DEF SubscribedTickExists, TickSurvives, LastTick
  <2>2. ASSUME NEW c \in Consumers, HasBatch(c)
        PROVE  sub[c].next \in DOMAIN ticks'
    <3>1. /\ Registered(c) /\ sub[c].last < sub[c].next
          /\ sub[c].last \in DOMAIN ticks /\ sub[c].next \in DOMAIN ticks
      BY <1>1, <2>2 DEF SubsOK, SubscribedTickExists
    <3>2. sub[c].last \in Nat /\ sub[c].next \in Nat
      BY <1>1 DEF TypeOK
    <3>3. LastTick(c).xmin <= CurTick(c).xmin
      BY <1>1, <3>1, <3>2 DEF TicksOK, LastTick, CurTick
    <3>4. LastTick(c).xmin \in Nat /\ CurTick(c).xmin \in Nat
      BY <1>1, <3>1 DEF TypeOK, Snapshot, LastTick, CurTick
    <3>5. CurTick(c).xmin >= step2
      BY <1>4, <3>1, <3>3, <3>4
    <3> QED
      BY <1>10, <3>1, <3>5 DEF TickSurvives, CurTick
  <2>3. \A c \in Consumers : \A t \in {sub[c].last, sub[c].next} :
           Registered(c) /\ t # 0 => t \in DOMAIN ticks' /\ ticks'[t] = ticks[t]
    BY <1>10, <2>1, <2>2 DEF HasBatch
  <2> QED
    BY <1>3, <2>3, SubscribedTicksKept DEF subVars
<1>14. RetainedTicksComplete'
  <2>1. ASSUME NEW t \in DOMAIN ticks', NEW e \in sent, ~Visible(e.xid, ticks[t])
        PROVE  e \in kept' /\ e.tbl = curTable
    <3>1. t \in DOMAIN ticks /\ ticks[t].xmin >= step2 /\ ticks[t].xmin \in Nat
      BY <1>1, <1>10 DEF TickSurvives, TypeOK, Snapshot
    <3>2. e.xid \in Nat /\ e.xid # step2
      BY <1>1 DEF RowsOK, TypeOK, Row
    <3>3. ticks[t].xmin <= e.xid
      BY <1>4, <2>1, <3>1, <3>2, XminAbove
    <3>4. e.xid > step2
      BY <1>4, <3>1, <3>2, <3>3
    <3> QED
      BY <1>1, <1>3, <1>4, <1>5, <3>4 DEF RowsOK
  <2> QED
    BY <1>3, <1>5, <1>10, <2>1 DEF RetainedTicksComplete
<1> QED
  BY <1>2, <1>7, <1>8, <1>9, <1>11, <1>12, <1>13, <1>14 DEF IInv

LEMMA RotateStep1SkipStep ==
    ASSUME IInv, RotateStep1Skip PROVE IInv'
<1>1. TypeOK /\ IdsOK /\ TxOK /\ RotationOK /\ TicksOK /\ RowsOK /\ SubsOK
      /\ SubscribedTickExists /\ RetainedTicksComplete /\ NothingMissed /\ ExactlyOnce
  BY DEF IInv
<1>2. TypeOK'
  BY <1>1, TypeStep DEF Next, Maintain
<1>3. /\ rotating \in running /\ Finish(rotating) /\ rotating' = 0
      /\ UNCHANGED <<curTable, step1, step2, rowVars, tickVars, tx, subVars>>
  BY <1>1 DEF RotateStep1Skip, RotationOK
<1>4. nextXid' = nextXid /\ running' = running \ {rotating}
  BY <1>1, <1>3, FinishFacts
<1>5. IdsOK'
  <2>1. step1 \in Nat /\ step2 \in Nat /\ newestFinished \in Nat
    BY <1>1 DEF TypeOK
  <2> QED
    BY <1>1, <1>3, <2>1, FinishFacts DEF IdsOK
<1>6. TxOK'
  BY <1>1, <1>3, <1>4 DEF TxOK, PrevTable
<1>7. RotationOK'
  BY <1>3 DEF RotationOK
<1>8. TicksOK'
  BY <1>1, <1>3, FinishTicks DEF tickVars
<1>9. RowsOK'
  BY <1>1, <1>3, <1>4 DEF RowsOK, rowVars, tickVars, PrevTable
<1> QED
  BY <1>1, <1>2, <1>3, <1>5, <1>6, <1>7, <1>8, <1>9, FrameSubs, FrameExists,
     FrameRetained, FrameMissed, FrameOnce
  DEF IInv, rowVars, tickVars, subVars

LEMMA RotateStep2Step ==
    ASSUME IInv, RotateStep2 PROVE IInv'
<1>1. TypeOK /\ IdsOK /\ TxOK /\ RotationOK /\ TicksOK /\ RowsOK /\ SubsOK
      /\ SubscribedTickExists /\ RetainedTicksComplete /\ NothingMissed /\ ExactlyOnce
  BY DEF IInv
<1>2. TypeOK'
  BY <1>1, TypeStep DEF Next, Maintain
<1>3. /\ step2 = 0 /\ step2' = nextXid
      /\ nextXid' = nextXid + 1 /\ newestFinished' = nextXid /\ running' = running
      /\ UNCHANGED <<curTable, step1, rotating, rowVars, tickVars, tx, subVars>>
  BY DEF RotateStep2, AssignAndFinish
<1>4. /\ nextXid \in Nat /\ newestFinished \in Nat /\ newestFinished < nextXid
      /\ step1 <= newestFinished /\ step1 \in Nat /\ nextXid # 0
      /\ \A x \in running : x \in Nat /\ 0 < x /\ x < nextXid
  BY <1>1 DEF TypeOK, IdsOK
<1>5. IdsOK'
  <2>1. \A x \in 0 .. nextXid' - 1 : x <= newestFinished'
    BY <1>3, <1>4
  <2> QED
    BY <1>3, <1>4, <2>1 DEF IdsOK
<1>6. TxOK'
  <2>1. \A p \in Producers : tx[p].xid # 0 => tx[p].xid \in Nat /\ tx[p].xid < nextXid
    BY <1>1, <1>4 DEF TxOK
  <2> QED
    BY <1>1, <1>3, <1>4, <2>1 DEF TxOK, PrevTable
<1>7. RotationOK'
  BY <1>1, <1>3 DEF RotationOK
<1>8. TicksOK'
  <2>1. ASSUME NEW t \in DOMAIN ticks PROVE Past(ticks[t], running', newestFinished')
    <3>1. Past(ticks[t], running, newestFinished) /\ ticks[t].xmax \in Nat
      BY <1>1 DEF TicksOK, TypeOK, Snapshot
    <3> QED
      BY <1>3, <1>4, <3>1 DEF Past
  <2> QED
    BY <1>1, <1>3, <2>1 DEF TicksOK, tickVars
<1>9. RowsOK'
  <2>1. \A e \in sent : e.xid \in Nat /\ e.xid < nextXid
    BY <1>1 DEF RowsOK, TypeOK, Row
  <2> QED
    BY <1>1, <1>3, <1>4, <2>1 DEF RowsOK, rowVars, tickVars, PrevTable
<1> QED
  BY <1>1, <1>2, <1>3, <1>5, <1>6, <1>7, <1>8, <1>9, FrameSubs, FrameExists,
     FrameRetained, FrameMissed, FrameOnce
  DEF IInv, rowVars, tickVars, subVars

-----------------------------------------------------------------------------
(* Registration.                                                           *)

\* Reading a position, and giving it up, changes nothing the invariant reads.
LEMMA PositionStep ==
    ASSUME IInv, NEW c \in Consumers,
           RegisterRead(c) \/ RegisterAtRead(c) \/ RegisterAbort(c)
    PROVE  IInv'
<1>1. TypeOK /\ IdsOK /\ TxOK /\ RotationOK /\ TicksOK /\ RowsOK /\ SubsOK
      /\ SubscribedTickExists /\ RetainedTicksComplete /\ NothingMissed /\ ExactlyOnce
  BY DEF IInv
<1>2. TypeOK'
  BY <1>1, TypeStep DEF Next, Subscribe
<1>3. UNCHANGED <<xidVars, queueVars, rowVars, tickVars, tx, sub, reader, start, acked>>
  BY DEF RegisterRead, RegisterAtRead, RegisterAbort
<1> QED
  BY <1>1, <1>2, <1>3, FrameIds, FrameTx, FrameRotation, FrameTicks, FrameRows,
     FrameSubs, FrameExists, FrameRetained, FrameMissed, FrameOnce
  DEF IInv, xidVars, queueVars, rowVars, tickVars

LEMMA RegisterWriteStep ==
    ASSUME IInv, Gaps = {}, NEW c \in Consumers, RegisterWrite(c) PROVE IInv'
<1>1. TypeOK /\ IdsOK /\ TxOK /\ RotationOK /\ TicksOK /\ RowsOK /\ SubsOK
      /\ SubscribedTickExists /\ RetainedTicksComplete /\ NothingMissed /\ ExactlyOnce
  BY DEF IInv
<1>2. TypeOK'
  BY <1>1, TypeStep DEF Next, Subscribe
<1> DEFINE t == position[c]
<1>3. /\ t \in DOMAIN ticks
      /\ rotating # 0 => TickSurvives(t)
      /\ UNCHANGED <<xidVars, queueVars, rowVars, tickVars, tx>>
  BY DEF RegisterWrite, PositionStays
<1>4. /\ sub' = [sub EXCEPT ![c] = [last |-> t, next |-> 0]]
      /\ start' = [start EXCEPT ![c] = ticks[t]]
      /\ acked' = [acked EXCEPT ![c] = {}]
      /\ reader' = [reader EXCEPT ![c] = NoReader]
  BY <1>3 DEF RegisterWrite
<1>5. UNCHANGED <<ticks, tickSeq, kept, sent, rotating, step1, step2, running,
                  newestFinished, nextXid, curTable>>
  BY <1>3 DEF xidVars, queueVars, rowVars, tickVars
<1>6. /\ sub'[c] = [last |-> t, next |-> 0] /\ start'[c] = ticks[t]
      /\ acked'[c] = {} /\ reader'[c] = NoReader
      /\ \A d \in Consumers \ {c} :
            /\ sub'[d] = sub[d] /\ start'[d] = start[d]
            /\ acked'[d] = acked[d] /\ reader'[d] = reader[d]
  BY <1>1, <1>4 DEF TypeOK
<1>7. ticks[t] \in Snapshot /\ Extends(ticks[t], ticks[t])
  BY <1>1, <1>3 DEF TypeOK, TicksOK, Extends, Snapshot
<1> HIDE DEF t
<1>8. RotationOK'
  <2>1. rotating # 0 => ticks[t].xmin >= step2
    BY <1>3 DEF TickSurvives
  <2> QED
    BY <1>1, <1>5, <1>6, <2>1 DEF RotationOK, Registered, LastTick
<1>9. SubsOK'
  BY <1>1, <1>5, <1>6, <1>7
  DEF SubsOK, Registered, HasBatch, LastTick, CurTick, NoReader
<1>10. SubscribedTickExists'
  BY <1>1, <1>3, <1>5, <1>6 DEF SubscribedTickExists, Registered, HasBatch, t
<1>11. NothingMissed'
  BY <1>1, <1>5, <1>6 DEF NothingMissed, LastTick, CurTick, NoReader
<1>12. ExactlyOnce'
  <2>1. \A e \in sent : ~Between(e.xid, ticks[t], ticks[t])
    BY DEF Between
  <2>2. {e \in sent : Between(e.xid, ticks[t], ticks[t])} = {}
    BY <2>1
  <2>3. acked'[c] = {e \in sent' : Between(e.xid, start'[c], LastTick(c)')}
        /\ acked'[c] \cap reader'[c].got = {}
    BY <1>5, <1>6, <2>2 DEF LastTick
  <2>4. ASSUME NEW d \in Consumers \ {c}, Registered(d)'
        PROVE  /\ acked'[d] = {e \in sent' : Between(e.xid, start'[d], LastTick(d)')}
               /\ acked'[d] \cap reader'[d].got = {}
    <3>1. Registered(d) /\ LastTick(d)' = LastTick(d)
      BY <1>5, <1>6, <2>4 DEF Registered, LastTick
    <3> QED
      BY <1>1, <1>5, <1>6, <3>1 DEF ExactlyOnce
  <2> QED
    BY <2>3, <2>4 DEF ExactlyOnce
<1> QED
  BY <1>1, <1>2, <1>3, <1>5, <1>8, <1>9, <1>10, <1>11, <1>12, FrameIds, FrameTx,
     FrameTicks, FrameRows, FrameRetained
  DEF IInv

LEMMA UnregisterStep ==
    ASSUME IInv, NEW c \in Consumers, Unregister(c) PROVE IInv'
<1>1. TypeOK /\ IdsOK /\ TxOK /\ RotationOK /\ TicksOK /\ RowsOK /\ SubsOK
      /\ SubscribedTickExists /\ RetainedTicksComplete /\ NothingMissed /\ ExactlyOnce
  BY DEF IInv
<1>2. TypeOK'
  BY <1>1, TypeStep DEF Next, Subscribe
<1>3. /\ sub' = [sub EXCEPT ![c] = NoSub]
      /\ acked' = [acked EXCEPT ![c] = {}]
      /\ reader' = [reader EXCEPT ![c] = NoReader]
      /\ UNCHANGED <<xidVars, queueVars, rowVars, tickVars, tx, start>>
  BY DEF Unregister
<1>4. UNCHANGED <<ticks, tickSeq, kept, sent, rotating, step1, step2, running,
                  newestFinished, nextXid, curTable>>
  BY <1>3 DEF xidVars, queueVars, rowVars, tickVars
<1>5. /\ sub'[c] = NoSub /\ acked'[c] = {} /\ reader'[c] = NoReader
      /\ \A d \in Consumers \ {c} :
            sub'[d] = sub[d] /\ acked'[d] = acked[d] /\ reader'[d] = reader[d]
  BY <1>1, <1>3 DEF TypeOK
<1>6. RotationOK'
  BY <1>1, <1>4, <1>5 DEF RotationOK, Registered, LastTick, NoSub
<1>7. SubsOK'
  BY <1>1, <1>3, <1>4, <1>5
  DEF SubsOK, Registered, HasBatch, LastTick, CurTick, NoReader, NoSub
<1>8. SubscribedTickExists'
  BY <1>1, <1>4, <1>5 DEF SubscribedTickExists, Registered, HasBatch, NoSub
<1>9. NothingMissed'
  BY <1>1, <1>4, <1>5 DEF NothingMissed, LastTick, CurTick, NoReader
<1>10. ExactlyOnce'
  <2> SUFFICES ASSUME NEW d \in Consumers, Registered(d)'
               PROVE  /\ acked'[d] = {e \in sent' : Between(e.xid, start'[d], LastTick(d)')}
                      /\ acked'[d] \cap reader'[d].got = {}
    BY DEF ExactlyOnce
  <2>1. d # c
    BY <1>5 DEF Registered, NoSub
  <2>2. Registered(d) /\ LastTick(d)' = LastTick(d)
    BY <1>4, <1>5, <2>1 DEF Registered, LastTick
  <2> QED
    BY <1>1, <1>3, <1>4, <1>5, <2>1, <2>2 DEF ExactlyOnce
<1> QED
  BY <1>1, <1>2, <1>3, <1>4, <1>6, <1>7, <1>8, <1>9, <1>10, FrameIds, FrameTx,
     FrameTicks, FrameRows, FrameRetained
  DEF IInv

-----------------------------------------------------------------------------
(* Consumers.                                                              *)

LEMMA OpenBatchStep ==
    ASSUME IInv, NEW c \in Consumers, NEW n \in DOMAIN ticks, OpenBatch(c, n), Next
    PROVE  IInv'
<1>1. TypeOK /\ IdsOK /\ TxOK /\ RotationOK /\ TicksOK /\ RowsOK /\ SubsOK
      /\ SubscribedTickExists /\ RetainedTicksComplete /\ NothingMissed /\ ExactlyOnce
  BY DEF IInv
<1>2. TypeOK'
  BY <1>1, TypeStep
<1>3. /\ sub' = [sub EXCEPT ![c].next = n]
      /\ Registered(c) /\ ~HasBatch(c) /\ n > sub[c].last
      /\ UNCHANGED <<xidVars, queueVars, rowVars, tickVars, tx, reader, start, acked>>
  BY DEF OpenBatch
<1>4. UNCHANGED <<ticks, tickSeq, kept, sent, rotating, step1, step2, running,
                  newestFinished, nextXid, curTable>>
  BY <1>3 DEF xidVars, queueVars, rowVars, tickVars
<1>5. /\ sub'[c].last = sub[c].last /\ sub'[c].next = n
      /\ \A d \in Consumers \ {c} : sub'[d] = sub[d]
      /\ n # 0 /\ sub[c].last \in Nat /\ n \in Nat
  BY <1>1, <1>3 DEF TypeOK
<1>6. reader[c].phase = "idle"
  BY <1>1, <1>3 DEF SubsOK
<1>7. \A d \in Consumers : sub'[d].last = sub[d].last
  BY <1>5
<1>8. RotationOK' /\ ExactlyOnce'
  BY <1>1, <1>3, <1>4, <1>7 DEF RotationOK, ExactlyOnce, Registered, LastTick
<1>9. SubsOK'
  <2> SUFFICES ASSUME NEW d \in Consumers
               PROVE  /\ HasBatch(d)' => Registered(d)' /\ sub'[d].last < sub'[d].next
                      /\ Registered(d)' => Extends(start'[d], LastTick(d)')
                      /\ reader'[d].phase # "idle" => HasBatch(d)'
                      /\ reader'[d].phase # "fetched" => reader'[d].got = {}
                      /\ reader'[d].phase = "planned" =>
                            \A e \in sent' :
                               Between(e.xid, LastTick(d)', CurTick(d)') =>
                                  e.tbl \in reader'[d].plan
    BY DEF SubsOK
  <2>1. CASE d = c
    BY <1>1, <1>3, <1>4, <1>5, <1>6, <2>1 DEF SubsOK, Registered, HasBatch, LastTick
  <2>2. CASE d # c
    BY <1>1, <1>3, <1>4, <1>5, <2>2
    DEF SubsOK, Registered, HasBatch, LastTick, CurTick
  <2> QED
    BY <2>1, <2>2
<1>10. SubscribedTickExists'
  BY <1>1, <1>4, <1>5 DEF SubscribedTickExists, Registered, HasBatch
<1>11. NothingMissed'
  BY <1>1, <1>3, <1>4, <1>5, <1>6 DEF NothingMissed, LastTick, CurTick
<1> QED
  BY <1>1, <1>2, <1>3, <1>4, <1>8, <1>9, <1>10, <1>11, FrameIds, FrameTx,
     FrameTicks, FrameRows, FrameRetained
  DEF IInv

\* The tables a batch query names hold every row of the batch.
LEMMA PlanCoversBatch ==
    ASSUME IInv, NEW c \in Consumers, Registered(c), HasBatch(c), NEW e \in sent,
           Between(e.xid, LastTick(c), CurTick(c))
    PROVE  e.tbl \in BatchEventTables(c)
<1>1. sub[c].last \in DOMAIN ticks /\ sub[c].next \in DOMAIN ticks
  BY DEF IInv, SubscribedTickExists
<1>2. ~Visible(e.xid, ticks[sub[c].last]) /\ Visible(e.xid, ticks[sub[c].next])
  BY DEF Between, LastTick, CurTick
<1>3. e \in kept /\ e.tbl \in {PrevTable, curTable}
  BY <1>1, <1>2 DEF IInv, RetainedTicksComplete
<1>4. CASE CurTick(c).xmax < step1
  <2>1. e.tbl # curTable
    BY <1>1, <1>2, <1>3, <1>4 DEF IInv, RowsOK, CurTick
  <2> QED
    BY <1>3, <1>4, <2>1 DEF BatchEventTables
<1>5. CASE ~(CurTick(c).xmax < step1) /\ step2 # 0 /\ LastTick(c).xmin > step2
  <2>1. /\ e.xid \in Nat /\ step2 \in Nat /\ LastTick(c).xmin \in Nat
    BY <1>1 DEF IInv, TypeOK, Row, Snapshot, LastTick
  <2>2. LastTick(c).xmin <= e.xid
    BY <1>1, <1>2, <2>1, XminAbove DEF LastTick
  <2>3. e.xid > step2
    BY <1>5, <2>1, <2>2
  <2>4. e.tbl = curTable
    BY <1>5, <2>3 DEF IInv, RowsOK
  <2> QED
    BY <1>5, <2>4 DEF BatchEventTables
<1> QED
  BY <1>3, <1>4, <1>5 DEF BatchEventTables

LEMMA PlanQueryStep ==
    ASSUME IInv, NEW c \in Consumers, PlanQuery(c) PROVE IInv'
<1>1. TypeOK /\ IdsOK /\ TxOK /\ RotationOK /\ TicksOK /\ RowsOK /\ SubsOK
      /\ SubscribedTickExists /\ RetainedTicksComplete /\ NothingMissed /\ ExactlyOnce
  BY DEF IInv
<1>2. TypeOK'
  BY <1>1, TypeStep DEF Next, Consume
<1>3. /\ HasBatch(c)
      /\ reader' = [reader EXCEPT ![c] =
                       [phase |-> "planned", plan |-> BatchEventTables(c), got |-> {}]]
      /\ UNCHANGED <<xidVars, queueVars, rowVars, tickVars, tx, sub, start, acked>>
  BY DEF PlanQuery
<1>4. UNCHANGED <<ticks, tickSeq, kept, sent, rotating, step1, step2, running,
                  newestFinished, nextXid, curTable>>
  BY <1>3 DEF xidVars, queueVars, rowVars, tickVars
<1>5. /\ reader'[c].phase = "planned" /\ reader'[c].plan = BatchEventTables(c)
      /\ reader'[c].got = {}
      /\ \A d \in Consumers \ {c} : reader'[d] = reader[d]
  BY <1>1, <1>3 DEF TypeOK
<1>6. \A e \in sent : Between(e.xid, LastTick(c), CurTick(c)) =>
                         e.tbl \in reader'[c].plan
  BY <1>1, <1>3, <1>5, PlanCoversBatch DEF SubsOK
<1>7. SubsOK'
  BY <1>1, <1>3, <1>4, <1>5, <1>6
  DEF SubsOK, Registered, HasBatch, LastTick, CurTick
<1>8. NothingMissed'
  BY <1>1, <1>3, <1>4, <1>5 DEF NothingMissed, LastTick, CurTick
<1>9. ExactlyOnce'
  BY <1>1, <1>3, <1>4, <1>5 DEF ExactlyOnce, Registered, LastTick
<1> QED
  BY <1>1, <1>2, <1>3, <1>4, <1>7, <1>8, <1>9, FrameIds, FrameTx, FrameRotation,
     FrameTicks, FrameRows, FrameExists, FrameRetained
  DEF IInv

\* The planned query returns the whole batch and nothing else.
LEMMA BatchRowsAreTheBatch ==
    ASSUME IInv, NEW c \in Consumers, reader[c].phase = "planned"
    PROVE  BatchRows(c, reader[c].plan) =
               {e \in sent : Between(e.xid, LastTick(c), CurTick(c))}
<1>1. /\ HasBatch(c) /\ Registered(c) /\ sub[c].last < sub[c].next
      /\ \A e \in sent : Between(e.xid, LastTick(c), CurTick(c)) =>
                            e.tbl \in reader[c].plan
  BY DEF IInv, SubsOK
<1>2. sub[c].last \in DOMAIN ticks /\ sub[c].next \in DOMAIN ticks
  BY <1>1 DEF IInv, SubscribedTickExists
<1>3. sub[c].last \in Nat /\ sub[c].next \in Nat
  BY DEF IInv, TypeOK
<1>4. /\ LastTick(c) \in Snapshot /\ CurTick(c) \in Snapshot
      /\ \A y \in LastTick(c).xip : y < LastTick(c).xmax
      /\ \A x \in running : ~Visible(x, CurTick(c))
      /\ LastTick(c).xmax <= CurTick(c).xmax
  BY <1>1, <1>2, <1>3 DEF IInv, TypeOK, TicksOK, Past, Extends, LastTick, CurTick
<1>5. ASSUME NEW e \in sent
      PROVE  Selected(e.xid, LastTick(c), CurTick(c)) <=>
             Between(e.xid, LastTick(c), CurTick(c))
  <2>1. e.xid \in Nat
    BY DEF IInv, TypeOK, Row
  <2> QED
    BY <1>4, <2>1, BatchQueryIsTheDiff
<1>6. ASSUME NEW e \in sent, Between(e.xid, LastTick(c), CurTick(c))
      PROVE  e \in kept /\ e.tbl \in reader[c].plan /\ e.xid \notin running
  <2>1. e \in kept
    BY <1>2, <1>6 DEF IInv, RetainedTicksComplete, Between, LastTick
  <2> QED
    BY <1>1, <1>4, <1>6, <2>1 DEF Between
<1>7. kept \subseteq sent
  BY DEF IInv, RowsOK
<1> QED
  BY <1>5, <1>6, <1>7 DEF BatchRows

LEMMA RunQueryStep ==
    ASSUME IInv, NEW c \in Consumers, RunQuery(c) PROVE IInv'
<1>1. TypeOK /\ IdsOK /\ TxOK /\ RotationOK /\ TicksOK /\ RowsOK /\ SubsOK
      /\ SubscribedTickExists /\ RetainedTicksComplete /\ NothingMissed /\ ExactlyOnce
  BY DEF IInv
<1>2. TypeOK'
  BY <1>1, TypeStep DEF Next, Consume
<1> DEFINE batch == {e \in sent : Between(e.xid, LastTick(c), CurTick(c))}
<1>3. /\ reader[c].phase = "planned"
      /\ reader' = [reader EXCEPT ![c] =
                       [phase |-> "fetched", plan |-> {}, got |-> batch]]
      /\ UNCHANGED <<xidVars, queueVars, rowVars, tickVars, tx, sub, start, acked>>
  BY BatchRowsAreTheBatch DEF RunQuery
<1>4. UNCHANGED <<ticks, tickSeq, kept, sent, rotating, step1, step2, running,
                  newestFinished, nextXid, curTable>>
  BY <1>3 DEF xidVars, queueVars, rowVars, tickVars
<1>5. /\ reader'[c].phase = "fetched" /\ reader'[c].got = batch
      /\ \A d \in Consumers \ {c} : reader'[d] = reader[d]
  BY <1>1, <1>3 DEF TypeOK
<1>6. SubsOK'
  BY <1>1, <1>3, <1>4, <1>5 DEF SubsOK, Registered, HasBatch, LastTick, CurTick
<1>7. NothingMissed'
  BY <1>1, <1>3, <1>4, <1>5 DEF NothingMissed, LastTick, CurTick
<1>8. ExactlyOnce'
  <2>1. Registered(c) => acked[c] \cap batch = {}
    BY <1>1 DEF ExactlyOnce, Between
  <2> QED
    BY <1>1, <1>3, <1>4, <1>5, <2>1 DEF ExactlyOnce, Registered, LastTick
<1> QED
  BY <1>1, <1>2, <1>3, <1>4, <1>6, <1>7, <1>8, FrameIds, FrameTx, FrameRotation,
     FrameTicks, FrameRows, FrameExists, FrameRetained
  DEF IInv

LEMMA ConsumerCrashStep ==
    ASSUME IInv, NEW c \in Consumers, ConsumerCrash(c) PROVE IInv'
<1>1. TypeOK /\ IdsOK /\ TxOK /\ RotationOK /\ TicksOK /\ RowsOK /\ SubsOK
      /\ SubscribedTickExists /\ RetainedTicksComplete /\ NothingMissed /\ ExactlyOnce
  BY DEF IInv
<1>2. TypeOK'
  BY <1>1, TypeStep DEF Next, Consume
<1>3. /\ reader' = [reader EXCEPT ![c] = NoReader]
      /\ UNCHANGED <<xidVars, queueVars, rowVars, tickVars, tx, sub, start, acked>>
  BY DEF ConsumerCrash
<1>4. UNCHANGED <<ticks, tickSeq, kept, sent, rotating, step1, step2, running,
                  newestFinished, nextXid, curTable>>
  BY <1>3 DEF xidVars, queueVars, rowVars, tickVars
<1>5. /\ reader'[c] = NoReader
      /\ \A d \in Consumers \ {c} : reader'[d] = reader[d]
  BY <1>1, <1>3 DEF TypeOK
<1>6. SubsOK'
  BY <1>1, <1>3, <1>4, <1>5
  DEF SubsOK, Registered, HasBatch, LastTick, CurTick, NoReader
<1>7. NothingMissed'
  BY <1>1, <1>3, <1>4, <1>5 DEF NothingMissed, LastTick, CurTick, NoReader
<1>8. ExactlyOnce'
  BY <1>1, <1>3, <1>4, <1>5 DEF ExactlyOnce, Registered, LastTick, NoReader
<1> QED
  BY <1>1, <1>2, <1>3, <1>4, <1>6, <1>7, <1>8, FrameIds, FrameTx, FrameRotation,
     FrameTicks, FrameRows, FrameExists, FrameRetained
  DEF IInv

\* Two adjacent differences of snapshots make up the whole one.
LEMMA BetweenJoins ==
    ASSUME NEW r \in Snapshot, NEW s \in Snapshot, NEW t \in Snapshot, NEW x \in Nat,
           Extends(r, s), Extends(s, t)
    PROVE  /\ Extends(r, t)
           /\ Between(x, r, t) <=> Between(x, r, s) \/ Between(x, s, t)
<1>1. r.xmax \in Nat /\ s.xmax \in Nat /\ t.xmax \in Nat
  BY DEF Snapshot
<1>2. \A y \in Nat : Visible(y, r) => Visible(y, s)
  BY <1>1 DEF Extends, Visible
<1>3. \A y \in Nat : Visible(y, s) => Visible(y, t)
  BY <1>1 DEF Extends, Visible
<1>4. Extends(r, t)
  BY <1>1, <1>2, <1>3 DEF Extends
<1> QED
  BY <1>2, <1>3, <1>4 DEF Between

LEMMA FinishBatchStep ==
    ASSUME IInv, NEW c \in Consumers, FinishBatch(c) PROVE IInv'
<1>1. TypeOK /\ IdsOK /\ TxOK /\ RotationOK /\ TicksOK /\ RowsOK /\ SubsOK
      /\ SubscribedTickExists /\ RetainedTicksComplete /\ NothingMissed /\ ExactlyOnce
  BY DEF IInv
<1>2. TypeOK'
  BY <1>1, TypeStep DEF Next, Consume
<1>3. /\ reader[c].phase = "fetched"
      /\ sub' = [sub EXCEPT ![c] = [last |-> @.next, next |-> 0]]
      /\ acked' = [acked EXCEPT ![c] = @ \cup reader[c].got]
      /\ reader' = [reader EXCEPT ![c] = NoReader]
      /\ UNCHANGED <<xidVars, queueVars, rowVars, tickVars, tx, start>>
  BY DEF FinishBatch
<1>4. UNCHANGED <<ticks, tickSeq, kept, sent, rotating, step1, step2, running,
                  newestFinished, nextXid, curTable>>
  BY <1>3 DEF xidVars, queueVars, rowVars, tickVars
<1>5. /\ sub'[c] = [last |-> sub[c].next, next |-> 0]
      /\ acked'[c] = acked[c] \cup reader[c].got /\ reader'[c] = NoReader
      /\ \A d \in Consumers \ {c} :
            sub'[d] = sub[d] /\ acked'[d] = acked[d] /\ reader'[d] = reader[d]
  BY <1>1, <1>3 DEF TypeOK
<1>6. /\ HasBatch(c) /\ Registered(c) /\ sub[c].last < sub[c].next
      /\ sub[c].last \in DOMAIN ticks /\ sub[c].next \in DOMAIN ticks
      /\ sub[c].last \in Nat /\ sub[c].next \in Nat
  BY <1>1, <1>3 DEF SubsOK, SubscribedTickExists, TypeOK
<1>7. /\ LastTick(c) \in Snapshot /\ CurTick(c) \in Snapshot /\ start[c] \in Snapshot
      /\ LastTick(c).xmin <= CurTick(c).xmin
      /\ Extends(LastTick(c), CurTick(c)) /\ Extends(start[c], LastTick(c))
  BY <1>1, <1>6 DEF TypeOK, TicksOK, SubsOK, LastTick, CurTick
<1>8. LastTick(c)' = CurTick(c) /\ (Registered(c))'
  BY <1>4, <1>5, <1>6 DEF LastTick, CurTick, Registered, HasBatch
<1>9. \A d \in Consumers \ {c} :
         /\ LastTick(d)' = LastTick(d) /\ CurTick(d)' = CurTick(d)
         /\ Registered(d)' <=> Registered(d)
         /\ HasBatch(d)' <=> HasBatch(d)
  BY <1>4, <1>5 DEF LastTick, CurTick, Registered, HasBatch
<1>10. RotationOK'
  <2>1. rotating # 0 => CurTick(c).xmin >= step2
    <3>1. CurTick(c).xmin \in Nat /\ LastTick(c).xmin \in Nat /\ step2 \in Nat
      BY <1>1, <1>7 DEF Snapshot, TypeOK
    <3> QED
      BY <1>1, <1>6, <1>7, <3>1 DEF RotationOK
  <2> QED
    BY <1>1, <1>4, <1>8, <1>9, <2>1 DEF RotationOK
<1>11. Extends(start[c], CurTick(c))
  BY <1>7, BetweenJoins, 0 \in Nat
<1>12. SubsOK'
  <2> SUFFICES ASSUME NEW d \in Consumers
               PROVE  /\ HasBatch(d)' => Registered(d)' /\ sub'[d].last < sub'[d].next
                      /\ Registered(d)' => Extends(start'[d], LastTick(d)')
                      /\ reader'[d].phase # "idle" => HasBatch(d)'
                      /\ reader'[d].phase # "fetched" => reader'[d].got = {}
                      /\ reader'[d].phase = "planned" =>
                            \A e \in sent' :
                               Between(e.xid, LastTick(d)', CurTick(d)') =>
                                  e.tbl \in reader'[d].plan
    BY DEF SubsOK
  <2>1. CASE d = c
    <3>1. ~(HasBatch(c)')
      BY <1>5 DEF HasBatch
    <3> QED
      BY <1>3, <1>5, <1>8, <1>11, <2>1, <3>1 DEF NoReader
  <2>2. CASE d # c
    BY <1>1, <1>3, <1>4, <1>5, <1>9, <2>2 DEF SubsOK
  <2> QED
    BY <2>1, <2>2
<1>13. SubscribedTickExists'
  BY <1>1, <1>4, <1>5, <1>6 DEF SubscribedTickExists, Registered, HasBatch
<1>14. NothingMissed'
  BY <1>1, <1>4, <1>5, <1>9 DEF NothingMissed, NoReader
<1>15. ExactlyOnce'
  <2>1. acked[c] = {e \in sent : Between(e.xid, start[c], LastTick(c))}
        /\ reader[c].got = {e \in sent : Between(e.xid, LastTick(c), CurTick(c))}
    BY <1>1, <1>3, <1>6 DEF ExactlyOnce, NothingMissed
  <2>2. \A e \in sent :
           Between(e.xid, start[c], CurTick(c)) <=>
              \/ Between(e.xid, start[c], LastTick(c))
              \/ Between(e.xid, LastTick(c), CurTick(c))
    BY <1>1, <1>7, BetweenJoins DEF TypeOK, Row
  <2>3. acked'[c] = {e \in sent' : Between(e.xid, start'[c], LastTick(c)')}
    BY <1>3, <1>4, <1>5, <1>8, <2>1, <2>2
  <2>4. acked'[c] \cap reader'[c].got = {}
    BY <1>5 DEF NoReader
  <2> QED
    BY <1>1, <1>3, <1>4, <1>5, <1>9, <2>3, <2>4 DEF ExactlyOnce
<1> QED
  BY <1>1, <1>2, <1>3, <1>4, <1>10, <1>12, <1>13, <1>14, <1>15, FrameIds, FrameTx,
     FrameTicks, FrameRows, FrameRetained
  DEF IInv

-----------------------------------------------------------------------------
(* The invariant holds initially and is preserved.                         *)

LEMMA InvInit == Init => IInv
<1> SUFFICES ASSUME Init PROVE IInv
  OBVIOUS
<1>1. TypeOK
  BY TypeInit
<1>2. /\ nextXid = 2 /\ running = {} /\ newestFinished = 1
      /\ step1 = 1 /\ step2 = 1 /\ rotating = 0
      /\ kept = {} /\ sent = {} /\ ticks = [t \in {1} |-> FirstSnapshot] /\ tickSeq = 1
      /\ tx = [p \in Producers |-> NoTx]
      /\ sub = [c \in Consumers |-> NoSub]
      /\ reader = [c \in Consumers |-> NoReader]
  BY DEF Init
<1>3. IdsOK
  BY <1>2 DEF IdsOK
<1>4. TxOK /\ RotationOK
  BY <1>2 DEF TxOK, RotationOK, NoTx
<1>5. DOMAIN ticks = {1} /\ ticks[1] = FirstSnapshot
  BY <1>2
<1>6. TicksOK
  BY <1>2, <1>5 DEF TicksOK, Past, Extends, FirstSnapshot, Visible
<1>7. RowsOK /\ RetainedTicksComplete
  BY <1>2 DEF RowsOK, RetainedTicksComplete
<1>8. SubsOK /\ SubscribedTickExists /\ NothingMissed /\ ExactlyOnce
  BY <1>2 DEF SubsOK, SubscribedTickExists, NothingMissed, ExactlyOnce,
              Registered, HasBatch, NoSub, NoReader
<1> QED
  BY <1>1, <1>3, <1>4, <1>6, <1>7, <1>8 DEF IInv

LEMMA StutterStep == ASSUME IInv, UNCHANGED vars PROVE IInv'
<1>1. UNCHANGED <<nextXid, running, newestFinished, curTable, step1, step2, rotating,
                  kept, sent, ticks, tickSeq, tx>>
      /\ UNCHANGED <<sub, position, reader, start, acked>>
  BY DEF vars, xidVars, queueVars, rowVars, tickVars, subVars
<1>2. TypeOK'
  BY TypeStep DEF IInv
<1> QED
  BY <1>1, <1>2, FrameIds, FrameTx, FrameRotation, FrameTicks, FrameRows, FrameSubs,
     FrameExists, FrameRetained, FrameMissed, FrameOnce
  DEF IInv, xidVars

\* Every step of the system without the three schedules keeps the invariant.
LEMMA InvStep == ASSUME Gaps = {} PROVE IInv /\ [Next]_vars => IInv'
<1> SUFFICES ASSUME IInv, [Next]_vars PROVE IInv'
  OBVIOUS
<1>1. ASSUME NEW p \in Producers, Produce(p) PROVE IInv'
  BY <1>1, ReadQueueStep, InsertStep, CommitStep, AbortStep DEF Produce
<1>2. ASSUME Maintain PROVE IInv'
  BY <1>2, TickStep, RotateStep1StartStep, RotateStep1CommitStep,
     RotateStep1SkipStep, RotateStep2Step
  DEF Maintain
<1>3. ASSUME NEW c \in Consumers, Subscribe(c) PROVE IInv'
  BY <1>3, PositionStep, RegisterWriteStep, UnregisterStep DEF Subscribe
<1>4. ASSUME NEW c \in Consumers, Consume(c) PROVE IInv'
  <2>1. Next
    BY <1>4 DEF Next
  <2>2. CASE NextBatch(c) \/ NextBatchCustom(c)
    BY <2>1, <2>2, OpenBatchStep DEF NextBatch, NextBatchCustom
  <2> QED
    BY <1>4, <2>2, PlanQueryStep, RunQueryStep, ConsumerCrashStep, FinishBatchStep
    DEF Consume
<1>5. CASE UNCHANGED vars
  BY <1>5, StutterStep
<1> QED
  BY <1>1, <1>2, <1>3, <1>4, <1>5 DEF Next

(* Without the three schedules of Gaps the invariant holds of every        *)
(* behaviour of the event log.                                             *)
THEOREM Invariance == ASSUME Gaps = {} PROVE Spec => []IInv
BY InvInit, InvStep, PTL DEF Spec

(* Rotation never deletes a tick a subscription stands on or is about to   *)
(* reach, however registrations, batches and rotations interleave.         *)
THEOREM TicksAreNotLost == ASSUME Gaps = {} PROVE Spec => []SubscribedTickExists
<1>1. IInv => SubscribedTickExists
  BY DEF IInv
<1> QED
  BY <1>1, Invariance, PTL

(* From every tick still recorded, everything after it is still stored.    *)
THEOREM RetainedTicksAreComplete ==
    ASSUME Gaps = {} PROVE Spec => []RetainedTicksComplete
<1>1. IInv => RetainedTicksComplete
  BY DEF IInv
<1> QED
  BY <1>1, Invariance, PTL

(* A batch holds exactly the rows committed between its two ticks.         *)
THEOREM BatchesAreExact == ASSUME Gaps = {} PROVE Spec => []NothingMissed
<1>1. IInv => NothingMissed
  BY DEF IInv
<1> QED
  BY <1>1, Invariance, PTL

(* A subscription's finished batches hold every row since its start, once. *)
THEOREM DeliveredExactlyOnce == ASSUME Gaps = {} PROVE Spec => []ExactlyOnce
<1>1. IInv => ExactlyOnce
  BY DEF IInv
<1> QED
  BY <1>1, Invariance, PTL
=============================================================================
