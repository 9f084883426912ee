---------------------------- MODULE RetryDlqProofs ----------------------------
(***************************************************************************)
(* Proofs about RetryDlq, for every number of consumers, events and        *)
(* retries.                                                                *)
(***************************************************************************)
EXTENDS RetryDlqInv, FiniteSetTheorems, TLAPS

USE DEF vars, logVars, subIds, subVars, historyVars

-----------------------------------------------------------------------------
(* Types.                                                                  *)

LEMMA TypeInit == Init => TypeOK
  BY FS_EmptySet, RetriesAssumption, BoundsAssumption
     DEF Init, TypeOK, NoSub, NoNack

LEMMA TypeLog ==
    ASSUME TypeOK, Send \/ Tick PROVE TypeOK'
  <1>1. CASE Send BY <1>1 DEF TypeOK, Send, Event
  <1>2. CASE Tick BY <1>2 DEF TypeOK, Tick
  <1> QED BY <1>1, <1>2

LEMMA TypeMaint ==
    ASSUME TypeOK, MaintSelect \/ MaintCommit \/ MaintAbort PROVE TypeOK'
  <1>1. CASE MaintSelect BY <1>1 DEF TypeOK, MaintSelect
  <1>2. CASE MaintCommit
    <2>1. log' \subseteq Event
      BY <1>2 DEF TypeOK, MaintCommit, Event, Retry
    <2>2. retryQueue' \subseteq Retry
      BY <1>2 DEF TypeOK, MaintCommit
    <2>3. commits' \in Nat /\ ticks' \subseteq 0 .. commits'
      BY <1>2 DEF TypeOK, MaintCommit
    <2> QED BY <1>2, <2>1, <2>2, <2>3 DEF TypeOK, MaintCommit
  <1>3. CASE MaintAbort BY <1>3 DEF TypeOK, MaintAbort, Call
  <1> QED BY <1>1, <1>2, <1>3

LEMMA TypeSubscribe ==
    ASSUME TypeOK, NEW c \in Consumers, Subscribe(c) PROVE TypeOK'
  <1>1. CASE Register(c)
    <2>1. PICK t \in ticks :
             sub' = [sub EXCEPT ![c] = [id |-> subSeq + 1, last |-> t, next |-> 0]]
      BY <1>1 DEF Register
    <2>2. t \in Nat BY DEF TypeOK
    <2>3. sub' \in [Consumers -> [id : Nat, last : Nat, next : Nat]]
      BY <2>1, <2>2 DEF TypeOK
    <2> QED BY <1>1, <2>3 DEF TypeOK, Register, Call
  <1>2. CASE Unregister(c)
    <2>1. IsFiniteSet(dead')
      BY <1>2, FS_Subset DEF TypeOK, Unregister
    <2> QED BY <1>2, <2>1 DEF TypeOK, Unregister, Call, NoSub
  <1>3. ASSUME NEW t \in ticks, MoveTo(c, t) PROVE TypeOK'
    <2>1. t \in Nat BY DEF TypeOK
    <2>2. sub' \in [Consumers -> [id : Nat, last : Nat, next : Nat]]
      BY <1>3, <2>1 DEF TypeOK, MoveTo
    <2> QED BY <1>3, <2>2 DEF TypeOK, MoveTo, Call
  <1> QED BY <1>1, <1>2, <1>3 DEF Subscribe

LEMMA TypeConsume ==
    ASSUME TypeOK, NEW c \in Consumers,
           \/ Receive(c) \/ FinishBatch(c) \/ BatchRetry(c)
           \/ \E t \in ticks : NextBatchCustom(c, t)
    PROVE TypeOK'
  <1>1. CASE Receive(c)
    <2>1. PICK t \in ticks :
             sub' = IF RowsUpTo(c, t) = {} THEN [sub EXCEPT ![c].last = t]
                                           ELSE [sub EXCEPT ![c].next = t]
      BY <1>1 DEF Receive
    <2>2. t \in Nat BY DEF TypeOK
    <2>3. sub' \in [Consumers -> [id : Nat, last : Nat, next : Nat]]
      BY <2>1, <2>2 DEF TypeOK
    <2> QED BY <1>1, <2>3 DEF TypeOK, Receive
  <1>2. CASE FinishBatch(c) BY <1>2 DEF TypeOK, FinishBatch
  <1>3. CASE BatchRetry(c)
    <2> DEFINE rows == {r \in Batch(c) : \A q \in retryQueue :
                                             ~(q.owner = sub[c].id /\ q.ev = r.ev)}
    <2>1. rows \subseteq Event BY DEF TypeOK, Batch, RowsUpTo
    <2>2. sub[c].id \in Nat \ {0} BY <1>3 DEF BatchRetry, Registered, TypeOK
    <2>3. retryQueue' \subseteq Retry
      <3>1. retryQueue' = retryQueue \cup
               {[owner |-> sub[c].id, ev |-> r.ev, retry |-> r.retry + 1] : r \in rows}
        BY <1>3 DEF BatchRetry
      <3> QED BY <2>1, <2>2, <3>1 DEF TypeOK, Retry, Event
    <2>4. nackers' \subseteq Nat \X Nat \X Nat
      <3>1. nackers' = nackers \cup {<<sub[c].id, r.ev, r.retry>> : r \in rows}
        BY <1>3 DEF BatchRetry
      <3> QED BY <2>1, <2>2, <3>1 DEF TypeOK, Event
    <2>5. EventsIn(Batch(c)) \subseteq Nat
      BY DEF TypeOK, EventsIn, Batch, RowsUpTo, Event
    <2> QED BY <1>3, <2>3, <2>4, <2>5 DEF TypeOK, BatchRetry, Call
  <1>4. ASSUME NEW t \in ticks, NextBatchCustom(c, t) PROVE TypeOK'
    <2>1. t \in Nat BY DEF TypeOK
    <2>2. sub' \in [Consumers -> [id : Nat, last : Nat, next : Nat]]
      BY <1>4, <2>1 DEF TypeOK, NextBatchCustom
    <2> QED BY <1>4, <2>2 DEF TypeOK, NextBatchCustom, Call
  <1> QED BY <1>1, <1>2, <1>3, <1>4

LEMMA RememberType ==
    ASSUME TypeOK, NEW c \in Consumers, Remember(c)
    PROVE /\ nackers' \subseteq Nat \X Nat \X Nat
          /\ nacked' \in [Consumers -> SUBSET Nat]
          /\ nackedNow' \in [Consumers -> SUBSET Nat]
  <1>1. /\ nacking[c].owner \in Nat /\ nacking[c].ev \in Nat /\ nacking[c].retry \in Nat
    BY DEF TypeOK
  <1>2. nackers' \subseteq Nat \X Nat \X Nat BY <1>1 DEF Remember, TypeOK
  <1>3. nacked' \in [Consumers -> SUBSET Nat] BY <1>1 DEF Remember, TypeOK
  <1>4. nackedNow' \in [Consumers -> SUBSET Nat] BY <1>1 DEF Remember, TypeOK
  <1> QED BY <1>2, <1>3, <1>4

LEMMA TypeNack ==
    ASSUME TypeOK, NEW c \in Consumers, Nack(c) PROVE TypeOK'
  <1> USE DEF NoNack
  <1>1. ASSUME NEW ev \in 1 .. evSeq, NackRead(c, ev) PROVE TypeOK'
    <2>1. PICK r \in Copies(c, ev) :
             nacking' = [nacking EXCEPT ![c] =
                [owner |-> sub[c].id, ev |-> ev, retry |-> r.retry,
                 twice |-> \E s \in Copies(c, ev) : s # r,
                 last |-> sub[c].last, next |-> sub[c].next]]
      BY <1>1 DEF NackRead
    <2>2. r \in Event /\ ev \in Nat BY DEF TypeOK, Copies, Batch, RowsUpTo
    <2>3. sub[c] \in [id : Nat, last : Nat, next : Nat] BY DEF TypeOK
    <2> DEFINE new == [owner |-> sub[c].id, ev |-> ev, retry |-> r.retry,
                       twice |-> \E s \in Copies(c, ev) : s # r,
                       last |-> sub[c].last, next |-> sub[c].next]
               T == [owner : Nat, ev : Nat, retry : Nat, twice : BOOLEAN,
                     last : Nat, next : Nat]
    <2>4. (\E s \in Copies(c, ev) : s # r) \in BOOLEAN OBVIOUS
    <2>5. new \in T BY <2>2, <2>3, <2>4 DEF Event
    <2>6. nacking \in [Consumers -> T] BY DEF TypeOK
    <2>7. nacking' \in [Consumers -> T]
      <3> HIDE DEF new, T
      <3>1. nacking' = [nacking EXCEPT ![c] = new] BY <2>1 DEF new
      <3> QED BY <2>5, <2>6, <3>1
    <2> QED BY <1>1, <2>7 DEF TypeOK, NackRead, Call
  <1>2. CASE NackToRetry(c)
    <2>1. Remember(c) BY <1>2 DEF NackToRetry
    <2>2. nacking[c].owner \in Nat \ {0} /\ nacking[c].ev \in Nat /\ nacking[c].retry \in Nat
      BY <1>2 DEF TypeOK, NackToRetry
    <2>3. RetryRow(nacking[c]) \in Retry BY <2>2 DEF RetryRow, Retry
    <2>4. retryQueue' \subseteq Retry BY <1>2, <2>3 DEF NackToRetry, TypeOK
    <2> QED BY <1>2, <2>1, <2>4, RememberType DEF TypeOK, NackToRetry
  <1>3. CASE NackToDead(c)
    <2>1. Remember(c) BY <1>3 DEF NackToDead
    <2>2. nacking[c].ev \in Nat BY DEF TypeOK
    <2>3. dead' = dead \cup {[consumer |-> c, ev |-> nacking[c].ev]}
      BY <1>3 DEF NackToDead
    <2>4. IsFiniteSet(dead')
      <3>1. IsFiniteSet(dead) BY DEF TypeOK
      <3>2. IsFiniteSet(dead \cup {[consumer |-> c, ev |-> nacking[c].ev]})
        BY ONLY <3>1, FS_AddElement, Zenon
      <3> QED BY <2>3, <3>2
    <2> QED BY <1>3, <2>1, <2>2, <2>3, <2>4, RememberType DEF TypeOK, NackToDead
  <1>4. CASE NackFails(c) BY <1>4 DEF TypeOK, NackFails, Call
  <1> QED BY <1>1, <1>2, <1>3, <1>4 DEF Nack

LEMMA SettleType ==
    ASSUME TypeOK, NEW gone, Settle(gone)
    PROVE /\ nackers' \subseteq Nat \X Nat \X Nat
          /\ nacked' \in [Consumers -> SUBSET Nat]
          /\ nackedNow' \in [Consumers -> SUBSET Nat]
  BY DEF TypeOK, Settle

LEMMA TypeReplay ==
    ASSUME TypeOK, NEW gone \in SUBSET dead, Replay(gone) PROVE TypeOK'
  <1>1. Cardinality(gone) \in Nat
    <2>1. IsFiniteSet(gone) BY FS_Subset DEF TypeOK
    <2> QED BY <2>1, FS_CardinalityType
  <1>2. IsFiniteSet(dead') BY FS_Subset DEF TypeOK, Replay
  <1>3. log' \subseteq Event
    <2>1. PICK newId \in Injection(gone, evSeq + 1 .. evSeq + Cardinality(gone)) :
             log' = log \cup {[owner |-> 0, ev |-> newId[d], retry |-> 0,
                               at |-> commits + 1] : d \in gone}
      BY DEF Replay
    <2>2. \A d \in gone : newId[d] \in Nat BY <1>1 DEF Injection, TypeOK
    <2> QED BY <2>1, <2>2 DEF TypeOK, Event
  <1>4. evSeq' \in Nat /\ commits' \in Nat /\ ticks' \subseteq 0 .. commits'
    BY <1>1 DEF TypeOK, Replay
  <1>5. Settle(gone) BY DEF Replay
  <1> QED BY <1>2, <1>3, <1>4, <1>5, SettleType DEF TypeOK, Replay

LEMMA TypePurge ==
    ASSUME TypeOK, NEW gone \in SUBSET dead, DlqPurge(gone) PROVE TypeOK'
  <1>1. IsFiniteSet(dead') BY FS_Subset DEF TypeOK, DlqPurge
  <1>2. Settle(gone) BY DEF DlqPurge
  <1> QED BY <1>1, <1>2, SettleType DEF TypeOK, DlqPurge, Call

LEMMA TypeStep == TypeOK /\ [Next]_vars => TypeOK'
  <1> SUFFICES ASSUME TypeOK, [Next]_vars PROVE TypeOK' OBVIOUS
  <1>1. CASE Send BY <1>1, TypeLog
  <1>2. CASE Maintain
    <2>1. CASE Tick BY <2>1, TypeLog
    <2>2. CASE MaintSelect \/ MaintCommit \/ MaintAbort BY <2>2, TypeMaint
    <2>3. CASE DlqReplay \/ DlqReplayAll
      <3>1. \E gone \in SUBSET dead : Replay(gone) BY <2>3 DEF DlqReplay, DlqReplayAll
      <3> QED BY <3>1, TypeReplay
    <2>4. CASE \E gone \in SUBSET dead : DlqPurge(gone) BY <2>4, TypePurge
    <2> QED BY <1>2, <2>1, <2>2, <2>3, <2>4 DEF Maintain
  <1>3. ASSUME NEW c \in Consumers, Subscribe(c) \/ Consume(c) PROVE TypeOK'
    BY <1>3, TypeSubscribe, TypeConsume, TypeNack DEF Consume
  <1>4. CASE UNCHANGED vars BY <1>4 DEF TypeOK
  <1> QED BY <1>1, <1>2, <1>3, <1>4 DEF Next

\* Type correctness, whether or not a batch with two copies of an event is nacked.
THEOREM TypeCorrect == Spec => []TypeOK
  BY TypeInit, TypeStep, PTL DEF Spec

-----------------------------------------------------------------------------
(* Steps, one action at a time.                                            *)

\* What a lemma about steps has to show of each kind of step.
LEMMA StepCases ==
    ASSUME [Next]_vars
    PROVE \/ Send \/ Tick \/ MaintSelect \/ MaintCommit \/ MaintAbort
          \/ \E gone \in SUBSET dead : Replay(gone) \/ DlqPurge(gone)
          \/ \E c \in Consumers :
                \/ Register(c) \/ Unregister(c) \/ \E t \in ticks : MoveTo(c, t)
                \/ Receive(c) \/ FinishBatch(c) \/ BatchRetry(c)
                \/ \E t \in ticks : NextBatchCustom(c, t)
                \/ \E ev \in 1 .. evSeq : NackRead(c, ev)
                \/ NackToRetry(c) \/ NackToDead(c) \/ NackFails(c)
          \/ UNCHANGED vars
  <1>1. CASE Send BY <1>1
  <1>2. CASE Maintain
    <2>1. CASE DlqReplay \/ DlqReplayAll
      <3>1. \E gone \in SUBSET dead : Replay(gone) BY <2>1 DEF DlqReplay, DlqReplayAll
      <3> QED BY <3>1
    <2> QED BY <1>2, <2>1 DEF Maintain
  <1>3. ASSUME NEW c \in Consumers, Subscribe(c) \/ Consume(c)
        PROVE \/ Register(c) \/ Unregister(c) \/ \E t \in ticks : MoveTo(c, t)
              \/ Receive(c) \/ FinishBatch(c) \/ BatchRetry(c)
              \/ \E t \in ticks : NextBatchCustom(c, t)
              \/ \E ev \in 1 .. evSeq : NackRead(c, ev)
              \/ NackToRetry(c) \/ NackToDead(c) \/ NackFails(c)
    BY <1>3 DEF Subscribe, Consume, Nack
  <1>4. CASE UNCHANGED vars BY <1>4
  <1> QED BY <1>1, <1>2, <1>3, <1>4 DEF Next

-----------------------------------------------------------------------------
(* Positions, ids and what belongs to whom.                                *)

LEMMA SubsInit == Init => SubsOK
  BY DEF Init, SubsOK, HasBatch, Registered, NoSub, NoNack

LEMMA SubsSubscribe ==
    ASSUME TypeOK, SubsOK, NEW c \in Consumers,
           Register(c) \/ Unregister(c) \/ \E t \in ticks : MoveTo(c, t)
    PROVE SubsOK'
  <1>1. CASE Register(c)
    <2>1. PICK t \in ticks :
             sub' = [sub EXCEPT ![c] = [id |-> subSeq + 1, last |-> t, next |-> 0]]
      BY <1>1 DEF Register
    <2>2. t \in Nat /\ t <= commits BY DEF TypeOK
    <2>3. nackedNow[c] = {} BY <1>1 DEF SubsOK, Register, HasBatch, Registered
    <2> QED BY <1>1, <2>1, <2>2, <2>3 DEF SubsOK, TypeOK, Register, HasBatch, Registered
  <1>2. CASE Unregister(c)
    BY <1>2 DEF SubsOK, TypeOK, Unregister, HasBatch, Registered, NoSub
  <1>3. ASSUME NEW t \in ticks, MoveTo(c, t) PROVE SubsOK'
    <2>1. t \in Nat /\ t <= commits BY DEF TypeOK
    <2>2. /\ sub' = [sub EXCEPT ![c].last = t, ![c].next = 0]
          /\ \A d \in Consumers : nacked'[d] \subseteq nacked[d]
          /\ nackedNow' = [nackedNow EXCEPT ![c] = {}]
          /\ UNCHANGED <<logVars, subIds, nacking>>
      BY <1>3 DEF MoveTo, TypeOK
    <2> QED BY <2>1, <2>2 DEF SubsOK, TypeOK, HasBatch, Registered
  <1> QED BY <1>1, <1>2, <1>3

LEMMA SubsBatch ==
    ASSUME TypeOK, SubsOK, NEW c \in Consumers,
           \/ Receive(c) \/ FinishBatch(c) \/ BatchRetry(c)
           \/ \E t \in ticks : NextBatchCustom(c, t)
    PROVE SubsOK'
  <1>1. CASE Receive(c)
    <2>1. PICK t \in ticks :
             /\ Registered(c) /\ ~HasBatch(c) /\ t > sub[c].last
             /\ sub' = IF RowsUpTo(c, t) = {} THEN [sub EXCEPT ![c].last = t]
                                              ELSE [sub EXCEPT ![c].next = t]
             /\ UNCHANGED <<logVars, ticks, subIds, nacking, historyVars>>
      BY <1>1 DEF Receive
    <2>2. t \in Nat /\ t <= commits BY DEF TypeOK
    <2>3. CASE sub' = [sub EXCEPT ![c].last = t]
      BY <2>1, <2>2, <2>3 DEF SubsOK, TypeOK, HasBatch, Registered
    <2>4. CASE sub' = [sub EXCEPT ![c].next = t]
      BY <2>1, <2>2, <2>4 DEF SubsOK, TypeOK, HasBatch, Registered
    <2> QED BY <2>1, <2>3, <2>4
  <1>2. CASE FinishBatch(c)
    BY <1>2 DEF SubsOK, TypeOK, FinishBatch, HasBatch, Registered
  <1>3. CASE BatchRetry(c)
    BY <1>3 DEF SubsOK, TypeOK, BatchRetry, HasBatch, Registered
  <1>4. ASSUME NEW t \in ticks, NextBatchCustom(c, t) PROVE SubsOK'
    <2>1. t \in Nat /\ t <= commits BY DEF TypeOK
    <2> QED BY <1>4, <2>1 DEF SubsOK, TypeOK, NextBatchCustom, HasBatch, Registered
  <1> QED BY <1>1, <1>2, <1>3, <1>4

LEMMA SubsNack ==
    ASSUME TypeOK, SubsOK, NEW c \in Consumers,
           \/ \E ev \in 1 .. evSeq : NackRead(c, ev)
           \/ NackToRetry(c) \/ NackToDead(c) \/ NackFails(c)
    PROVE SubsOK'
  <1>1. ASSUME NEW ev \in 1 .. evSeq, NackRead(c, ev) PROVE SubsOK'
    BY <1>1 DEF SubsOK, TypeOK, NackRead, HasBatch, Registered
  <1>2. ASSUME Remember(c), nacking[c].owner # 0
        PROVE /\ \A d \in Consumers : d # c => /\ nacked'[d] = nacked[d]
                                               /\ nackedNow'[d] = nackedNow[d]
              /\ ~HasBatch(c) => nackedNow'[c] = {}
              /\ ~Registered(c) => nacked'[c] = {}
    BY <1>2 DEF SubsOK, TypeOK, Remember, HasBatch, Registered
  <1>3. CASE NackToRetry(c)
    <2>1. Remember(c) /\ nacking[c].owner # 0 BY <1>3 DEF NackToRetry
    <2> QED BY <1>2, <1>3, <2>1
            DEF SubsOK, TypeOK, NackToRetry, HasBatch, Registered, NoNack
  <1>4. CASE NackToDead(c)
    <2>1. Remember(c) /\ nacking[c].owner # 0 BY <1>4 DEF NackToDead
    <2> QED BY <1>2, <1>4, <2>1
            DEF SubsOK, TypeOK, NackToDead, HasBatch, Registered, NoNack
  <1>5. CASE NackFails(c)
    BY <1>5 DEF SubsOK, TypeOK, NackFails, HasBatch, Registered, NoNack
  <1> QED BY <1>1, <1>3, <1>4, <1>5

LEMMA SubsOthers ==
    ASSUME TypeOK, SubsOK,
           \/ Send \/ Tick \/ MaintSelect \/ MaintCommit \/ MaintAbort
           \/ \E gone \in SUBSET dead : Replay(gone) \/ DlqPurge(gone)
           \/ UNCHANGED vars
    PROVE SubsOK'
  <1>1. CASE Send BY <1>1 DEF SubsOK, TypeOK, Send, Event, HasBatch, Registered
  <1>2. CASE Tick BY <1>2 DEF SubsOK, TypeOK, Tick, HasBatch, Registered
  <1>3. CASE MaintSelect BY <1>3 DEF SubsOK, TypeOK, MaintSelect, HasBatch, Registered
  <1>4. CASE MaintCommit
    BY <1>4 DEF SubsOK, TypeOK, MaintCommit, Event, HasBatch, Registered
  <1>5. CASE MaintAbort BY <1>5 DEF SubsOK, TypeOK, MaintAbort, HasBatch, Registered
  <1>6. ASSUME NEW gone \in SUBSET dead, Replay(gone) PROVE SubsOK'
    <2>1. \A r \in log' : r.at <= commits'
      BY <1>6 DEF SubsOK, TypeOK, Event, Replay
    <2>2. /\ \A d \in Consumers : /\ nacked'[d] \subseteq nacked[d]
                                 /\ nackedNow'[d] \subseteq nackedNow[d]
          /\ commits' = commits + 1
          /\ UNCHANGED <<subVars, nacking>>
      BY <1>6 DEF Replay, Settle
    <2> QED BY <2>1, <2>2 DEF SubsOK, TypeOK, HasBatch, Registered
  <1>7. ASSUME NEW gone \in SUBSET dead, DlqPurge(gone) PROVE SubsOK'
    BY <1>7 DEF SubsOK, TypeOK, DlqPurge, Settle, HasBatch, Registered
  <1>8. CASE UNCHANGED vars BY <1>8 DEF SubsOK, HasBatch, Registered
  <1> QED BY <1>1, <1>2, <1>3, <1>4, <1>5, <1>6, <1>7, <1>8

LEMMA SubsStep == ASSUME TypeOK, SubsOK, [Next]_vars PROVE SubsOK'
  BY StepCases, SubsSubscribe, SubsBatch, SubsNack, SubsOthers

-----------------------------------------------------------------------------
(* What has been nacked: every count is preceded by the one before.        *)

LEMMA RetriesInit == Init => RetriesOK
  BY DEF Init, RetriesOK, Known, NoNack

\* A step that adds rows already known and nacks of counts already known.
LEMMA RetriesKeep ==
    ASSUME TypeOK, RetriesOK, nackers' \subseteq Nat \X Nat \X Nat,
           nackers \subseteq nackers',
           \A r \in (retryQueue' \cup moving') \ (retryQueue \cup moving) :
               Known(r.owner, r.ev, r.retry)',
           \A r \in log' \ log :
               Known(r.owner, r.ev, r.retry)' /\ (r.owner = 0 => r.retry = 0),
           \A c \in Consumers : \/ nacking'[c] = nacking[c]
                                \/ Known(nacking[c].owner, nacking[c].ev, nacking[c].retry)',
           \A n \in nackers' \ nackers :
               Known(n[1], n[2], n[3])
    PROVE RetriesOK'
  <1>1. \A n \in nackers' \ nackers : \A k \in 0 .. n[3] : <<n[1], n[2], k>> \in nackers'
    <2> SUFFICES ASSUME NEW n \in nackers' \ nackers, NEW k \in 0 .. n[3]
                 PROVE <<n[1], n[2], k>> \in nackers'
      OBVIOUS
    <2>1. n[1] \in Nat /\ n[2] \in Nat /\ n[3] \in Nat /\ n = <<n[1], n[2], n[3]>>
      OBVIOUS
    <2>2. CASE k = n[3] BY <2>1, <2>2
    <2>3. CASE k # n[3]
      <3>1. n[3] > 0 /\ k \in 0 .. (n[3] - 1) BY <2>1, <2>3
      <3>2. <<n[1], n[2], n[3] - 1>> \in nackers BY <3>1 DEF Known
      <3> DEFINE m == <<n[1], n[2], n[3] - 1>>
      <3>3. m \in nackers /\ k \in 0 .. m[3] BY <3>1, <3>2
      <3>4. <<m[1], m[2], k>> \in nackers BY <3>3 DEF RetriesOK
      <3> QED BY <3>4
    <2> QED BY <2>2, <2>3
  <1>2. \A n \in nackers : \A k \in 0 .. n[3] : <<n[1], n[2], k>> \in nackers'
    BY DEF RetriesOK
  <1>3. \A r \in retryQueue' \cup moving' : Known(r.owner, r.ev, r.retry)'
    BY DEF RetriesOK, Known
  <1>4. \A r \in log' : Known(r.owner, r.ev, r.retry)' /\ (r.owner = 0 => r.retry = 0)
    BY DEF RetriesOK, Known
  <1>5. \A c \in Consumers : Known(nacking[c].owner, nacking[c].ev, nacking[c].retry)'
    BY DEF RetriesOK, Known
  <1> QED BY <1>1, <1>2, <1>3, <1>4, <1>5 DEF RetriesOK

LEMMA RetriesLog ==
    ASSUME TypeOK, TypeOK', RetriesOK,
           \/ Send \/ MaintSelect \/ MaintCommit
           \/ \E gone \in SUBSET dead : Replay(gone)
    PROVE RetriesOK'
  <1>1. CASE Send
    <2>1. log' = log \cup {[owner |-> 0, ev |-> evSeq + 1, retry |-> 0, at |-> commits + 1]}
      BY <1>1 DEF Send
    <2> QED BY <1>1, <2>1, RetriesKeep DEF Send, TypeOK, Known
  <1>2. CASE MaintSelect
    <2>1. moving' \subseteq retryQueue BY <1>2 DEF MaintSelect
    <2> QED BY <1>2, <2>1, RetriesKeep DEF MaintSelect, TypeOK, Known
  <1>3. CASE MaintCommit
    <2>1. \A r \in log' \ log : Known(r.owner, r.ev, r.retry)' /\ (r.owner = 0 => r.retry = 0)
      <3> SUFFICES ASSUME NEW r \in log' \ log
                   PROVE Known(r.owner, r.ev, r.retry)' /\ (r.owner = 0 => r.retry = 0)
        OBVIOUS
      <3>1. PICK m \in moving : r = [owner |-> m.owner, ev |-> m.ev, retry |-> m.retry,
                                     at |-> commits + 1]
        BY <1>3 DEF MaintCommit
      <3>2. Known(m.owner, m.ev, m.retry) BY DEF RetriesOK
      <3>3. m.owner # 0 BY DEF TypeOK, Retry
      <3>4. nackers' = nackers BY <1>3 DEF MaintCommit
      <3> QED BY <3>1, <3>2, <3>3, <3>4 DEF Known
    <2>2. retryQueue' \subseteq retryQueue /\ moving' = {} /\ UNCHANGED <<nacking, nackers>>
      BY <1>3 DEF MaintCommit
    <2> QED BY <2>1, <2>2, RetriesKeep DEF TypeOK
  <1>4. ASSUME NEW gone \in SUBSET dead, Replay(gone) PROVE RetriesOK'
    <2>1. \A r \in log' \ log : r.owner = 0 /\ r.retry = 0 BY <1>4 DEF Replay
    <2>2. UNCHANGED <<retryQueue, moving, nacking, nackers>> BY <1>4 DEF Replay, Settle
    <2> QED BY <2>1, <2>2, RetriesKeep DEF TypeOK, Known
  <1> QED BY <1>1, <1>2, <1>3, <1>4

\* The row that a nack or batch_retry writes carries the count of its nack plus one.
LEMMA RetriesNack ==
    ASSUME TypeOK, TypeOK', RetriesOK, NEW c \in Consumers,
           \/ \E ev \in 1 .. evSeq : NackRead(c, ev)
           \/ NackToRetry(c) \/ NackToDead(c) \/ NackFails(c) \/ BatchRetry(c)
    PROVE RetriesOK'
  <1>1. ASSUME NEW r \in Batch(c)
        PROVE r \in Event /\ Known(sub[c].id, r.ev, r.retry)
    <2>1. r \in log /\ r \in Event /\ Deliverable(r, c)
      BY <1>1 DEF Batch, RowsUpTo, TypeOK
    <2>2. Known(r.owner, r.ev, r.retry) /\ (r.owner = 0 => r.retry = 0)
      BY <2>1 DEF RetriesOK
    <2>3. CASE r.owner = 0 BY <2>1, <2>2, <2>3 DEF Known
    <2>4. CASE r.owner = sub[c].id BY <2>1, <2>2, <2>4
    <2> QED BY <2>1, <2>3, <2>4 DEF Deliverable
  <1>2. ASSUME NEW ev \in 1 .. evSeq, NackRead(c, ev) PROVE RetriesOK'
    <2>1. PICK r \in Copies(c, ev) :
             nacking' = [nacking EXCEPT ![c] =
                [owner |-> sub[c].id, ev |-> ev, retry |-> r.retry,
                 twice |-> \E s \in Copies(c, ev) : s # r,
                 last |-> sub[c].last, next |-> sub[c].next]]
      BY <1>2 DEF NackRead
    <2>2. Known(sub[c].id, ev, r.retry) BY <1>1 DEF Copies
    <2>3. UNCHANGED <<log, retryQueue, moving, nackers>> BY <1>2 DEF NackRead
    <2>4. /\ nacking'[c].owner = sub[c].id /\ nacking'[c].ev = ev
          /\ nacking'[c].retry = r.retry
          /\ \A d \in Consumers \ {c} : nacking'[d] = nacking[d]
      BY <2>1 DEF TypeOK
    <2> QED BY <2>2, <2>3, <2>4, RetriesKeep DEF TypeOK, Known
  <1> DEFINE n == nacking[c]
  <1>3. /\ n.owner \in Nat /\ n.ev \in Nat /\ n.retry \in Nat
        /\ Known(n.owner, n.ev, n.retry)
    BY DEF TypeOK, RetriesOK
  <1>4. ASSUME nacking' = [nacking EXCEPT ![c] = NoNack]
        PROVE \A d \in Consumers : nacking'[d] = nacking[d] \/ nacking'[d].retry = 0
    BY <1>4 DEF TypeOK, NoNack
  <1>5. ASSUME Remember(c) PROVE nackers' = nackers \cup {<<n.owner, n.ev, n.retry>>}
    BY <1>5 DEF Remember
  <1>6. CASE NackToRetry(c)
    <2>1. nackers' = nackers \cup {<<n.owner, n.ev, n.retry>>}
      BY <1>5, <1>6 DEF NackToRetry
    <2>2. \A m \in nackers' \ nackers : Known(m[1], m[2], m[3]) BY <1>3, <2>1
    <2>3. \A d \in Consumers : nacking'[d] = nacking[d] \/ nacking'[d].retry = 0
      BY <1>4, <1>6 DEF NackToRetry
    <2>4. \A r \in retryQueue' \ retryQueue : Known(r.owner, r.ev, r.retry)'
      BY <1>3, <1>6, <2>1 DEF NackToRetry, RetryRow, Known
    <2>5. UNCHANGED <<log, moving>> BY <1>6 DEF NackToRetry
    <2> QED BY <2>1, <2>2, <2>3, <2>4, <2>5, RetriesKeep DEF TypeOK, Known
  <1>7. CASE NackToDead(c)
    <2>1. nackers' = nackers \cup {<<n.owner, n.ev, n.retry>>}
      BY <1>5, <1>7 DEF NackToDead
    <2>2. \A m \in nackers' \ nackers : Known(m[1], m[2], m[3]) BY <1>3, <2>1
    <2>3. \A d \in Consumers : nacking'[d] = nacking[d] \/ nacking'[d].retry = 0
      BY <1>4, <1>7 DEF NackToDead
    <2>4. UNCHANGED <<log, retryQueue, moving>> BY <1>7 DEF NackToDead
    <2> QED BY <2>1, <2>2, <2>3, <2>4, RetriesKeep DEF TypeOK, Known
  <1>8. CASE NackFails(c)
    <2>1. \A d \in Consumers : nacking'[d] = nacking[d] \/ nacking'[d].retry = 0
      BY <1>4, <1>8 DEF NackFails
    <2>2. UNCHANGED <<log, retryQueue, moving, nackers>> BY <1>8 DEF NackFails
    <2> QED BY <2>1, <2>2, RetriesKeep DEF TypeOK, Known
  <1>9. CASE BatchRetry(c)
    <2> DEFINE rows == {r \in Batch(c) : \A q \in retryQueue :
                                             ~(q.owner = sub[c].id /\ q.ev = r.ev)}
    <2>1. /\ retryQueue' = retryQueue \cup
                {[owner |-> sub[c].id, ev |-> r.ev, retry |-> r.retry + 1] : r \in rows}
          /\ nackers' = nackers \cup {<<sub[c].id, r.ev, r.retry>> : r \in rows}
          /\ UNCHANGED <<log, moving, nacking>>
      BY <1>9 DEF BatchRetry
    <2>2. \A r \in rows : r \in Event /\ Known(sub[c].id, r.ev, r.retry) BY <1>1
    <2>3. \A m \in nackers' \ nackers : Known(m[1], m[2], m[3]) BY <2>1, <2>2
    <2>4. \A q \in retryQueue' \ retryQueue : Known(q.owner, q.ev, q.retry)'
      <3> SUFFICES ASSUME NEW q \in retryQueue' \ retryQueue
                   PROVE Known(q.owner, q.ev, q.retry)'
        OBVIOUS
      <3> HIDE DEF rows
      <3>1. PICK r \in rows : q = [owner |-> sub[c].id, ev |-> r.ev, retry |-> r.retry + 1]
        BY <2>1
      <3>2. r.retry \in Nat BY <2>2 DEF Event
      <3>3. <<sub[c].id, r.ev, r.retry>> \in nackers' BY <2>1
      <3> QED BY <3>1, <3>2, <3>3 DEF Known
    <2> HIDE DEF rows
    <2> QED BY <2>1, <2>3, <2>4, RetriesKeep DEF TypeOK
  <1> QED BY <1>2, <1>6, <1>7, <1>8, <1>9

LEMMA RetriesOthers ==
    ASSUME TypeOK, TypeOK', RetriesOK,
           \/ Tick \/ MaintAbort
           \/ \E gone \in SUBSET dead : DlqPurge(gone)
           \/ \E c \in Consumers :
                 \/ Register(c) \/ Unregister(c) \/ \E t \in ticks : MoveTo(c, t)
                 \/ Receive(c) \/ FinishBatch(c)
                 \/ \E t \in ticks : NextBatchCustom(c, t)
           \/ UNCHANGED vars
    PROVE RetriesOK'
  <1>1. UNCHANGED <<log, nacking, nackers>>
        /\ retryQueue' \subseteq retryQueue /\ moving' \subseteq moving
    BY DEF Tick, MaintAbort, DlqPurge, Settle, Register, Unregister, MoveTo, Receive,
           FinishBatch, NextBatchCustom
  <1> QED BY <1>1, RetriesKeep DEF TypeOK

LEMMA RetriesStep == ASSUME TypeOK, TypeOK', RetriesOK, [Next]_vars PROVE RetriesOK'
  BY StepCases, RetriesLog, RetriesNack, RetriesOthers

-----------------------------------------------------------------------------
(* Dead letters.                                                           *)

LEMMA DeadStep ==
    ASSUME TypeOK, SubsOK, RetriesOK', DeadAfterMaxRetries, [Next]_vars
    PROVE DeadAfterMaxRetries'
  <1>1. ASSUME nackers \subseteq nackers', dead' \subseteq dead,
               \A c \in Consumers : idsOf[c] \subseteq idsOf'[c]
        PROVE DeadAfterMaxRetries'
    <2> SUFFICES ASSUME NEW d \in dead'
                 PROVE \E id \in idsOf'[d.consumer] : \A k \in 0 .. MaxRetries :
                           <<id, d.ev, k>> \in nackers'
      BY DEF DeadAfterMaxRetries
    <2>1. PICK id \in idsOf[d.consumer] : \A k \in 0 .. MaxRetries :
             <<id, d.ev, k>> \in nackers
      BY <1>1 DEF DeadAfterMaxRetries
    <2>2. d.consumer \in Consumers BY <1>1 DEF TypeOK
    <2> QED BY <1>1, <2>1, <2>2
  <1>2. CASE Send \/ Tick \/ MaintSelect \/ MaintCommit \/ MaintAbort \/ UNCHANGED vars
    BY <1>1, <1>2 DEF Send, Tick, MaintSelect, MaintCommit, MaintAbort
  <1>3. ASSUME NEW gone \in SUBSET dead, Replay(gone) \/ DlqPurge(gone)
        PROVE DeadAfterMaxRetries'
    BY <1>1, <1>3 DEF Replay, DlqPurge, Settle
  <1>4. ASSUME NEW c \in Consumers,
               \/ Receive(c) \/ FinishBatch(c) \/ Unregister(c)
               \/ \E t \in ticks : MoveTo(c, t) \/ NextBatchCustom(c, t)
               \/ \E ev \in 1 .. evSeq : NackRead(c, ev)
               \/ NackFails(c) \/ BatchRetry(c) \/ NackToRetry(c)
        PROVE DeadAfterMaxRetries'
    <2>1. idsOf' = idsOf /\ nackers \subseteq nackers' /\ dead' \subseteq dead
      BY <1>4 DEF Receive, FinishBatch, Unregister, MoveTo, NextBatchCustom, NackRead,
                  NackFails, BatchRetry, NackToRetry, Remember
    <2> QED BY <1>1, <2>1
  <1>5. ASSUME NEW c \in Consumers, Register(c) PROVE DeadAfterMaxRetries'
    BY <1>1, <1>5 DEF Register, TypeOK
  <1>6. ASSUME NEW c \in Consumers, NackToDead(c) PROVE DeadAfterMaxRetries'
    <2> DEFINE n == nacking[c]
    <2>1. /\ n.owner \in Nat /\ n.ev \in Nat /\ n.retry \in Nat /\ n.retry >= MaxRetries
          /\ n.owner \in idsOf[c]
      BY <1>6 DEF NackToDead, Exhausted, TypeOK, SubsOK
    <2>2. /\ nackers' = nackers \cup {<<n.owner, n.ev, n.retry>>}
          /\ dead' = dead \cup {[consumer |-> c, ev |-> n.ev]}
          /\ idsOf' = idsOf
      BY <1>6 DEF NackToDead, Remember
    <2>3. \A k \in 0 .. n.retry : <<n.owner, n.ev, k>> \in nackers'
      <3> DEFINE m == <<n.owner, n.ev, n.retry>>
      <3>1. m \in nackers' BY <2>2
      <3>2. \A k \in 0 .. m[3] : <<m[1], m[2], k>> \in nackers' BY <3>1 DEF RetriesOK
      <3> QED BY <3>2
    <2>4. \A k \in 0 .. MaxRetries : <<n.owner, n.ev, k>> \in nackers'
      BY <2>1, <2>3, RetriesAssumption
    <2>5. ASSUME NEW d \in dead'
          PROVE \E id \in idsOf'[d.consumer] : \A k \in 0 .. MaxRetries :
                    <<id, d.ev, k>> \in nackers'
      <3>1. CASE d \in dead BY <2>2, <3>1 DEF DeadAfterMaxRetries
      <3>2. CASE d = [consumer |-> c, ev |-> n.ev]
        <4>1. d.consumer = c /\ d.ev = n.ev BY <3>2
        <4> QED BY <2>1, <2>2, <2>4, <4>1
      <3> QED BY <2>2, <3>1, <3>2
    <2> QED BY <2>5 DEF DeadAfterMaxRetries
  <1> QED BY <1>2, <1>3, <1>4, <1>5, <1>6, StepCases

LEMMA CountsStep == CountsInv /\ [Next]_vars => CountsInv'
  BY TypeStep, SubsStep, RetriesStep, DeadStep DEF CountsInv

LEMMA CountsInit == Init => CountsInv
  BY TypeInit, SubsInit, RetriesInit DEF CountsInv, Init, DeadAfterMaxRetries

LEMMA CountsAlways == Spec => []CountsInv
  BY CountsInit, CountsStep, PTL DEF Spec

\* Only the subscription that nacked an event gets its retries, with an unbroken
\* count: a consequence of the owner filter of the batch query and of the counts
\* that the retry queue and maint_retry_events hand on.
THEOREM RetriedOnlyForItsNacker == Spec => []RetriedForItsNacker
  <1>1. CountsInv => RetriedForItsNacker
    <2> SUFFICES ASSUME CountsInv, NEW c \in Consumers, NEW r \in Batch(c), r.retry > 0
                 PROVE <<sub[c].id, r.ev, r.retry - 1>> \in nackers
      BY DEF RetriedForItsNacker
    <2>1. Deliverable(r, c) /\ r \in log BY DEF Batch, RowsUpTo
    <2>2. Known(r.owner, r.ev, r.retry) /\ (r.owner = 0 => r.retry = 0)
      BY <2>1 DEF CountsInv, RetriesOK
    <2>3. r.owner = sub[c].id BY <2>1, <2>2 DEF Deliverable
    <2> QED BY <2>2, <2>3 DEF Known
  <1> QED BY <1>1, CountsAlways, PTL

\* nack makes a dead letter only of an event that the consumer nacked at every
\* count from 0 to max_retries.
THEOREM DeadOnlyAfterMaxRetries == Spec => []DeadAfterMaxRetries
  <1>1. CountsInv => DeadAfterMaxRetries BY DEF CountsInv
  <1> QED BY <1>1, CountsAlways, PTL

-----------------------------------------------------------------------------
(* What has been nacked is not lost, where no batch holds two copies of an *)
(* event that is nacked.                                                   *)

LEMMA TwiceStep ==
    ASSUME TypeOK, ~CopiesInOneBatch, [Next]_vars,
           \A d \in Consumers : ~nacking[d].twice
    PROVE \A d \in Consumers : ~nacking'[d].twice
  <1>1. ASSUME NEW c \in Consumers, NEW ev \in 1 .. evSeq, NackRead(c, ev)
        PROVE \A d \in Consumers : ~nacking'[d].twice
    <2>1. PICK r \in Copies(c, ev) :
             nacking' = [nacking EXCEPT ![c] =
                [owner |-> sub[c].id, ev |-> ev, retry |-> r.retry,
                 twice |-> \E s \in Copies(c, ev) : s # r,
                 last |-> sub[c].last, next |-> sub[c].next]]
      BY <1>1 DEF NackRead
    <2>2. ~ \E s \in Copies(c, ev) : s # r BY <1>1 DEF NackRead
    <2>3. nacking'[c].twice = \E s \in Copies(c, ev) : s # r BY <2>1 DEF TypeOK
    <2>4. \A d \in Consumers \ {c} : nacking'[d] = nacking[d] BY <2>1 DEF TypeOK
    <2> QED BY <2>2, <2>3, <2>4
  <1>2. ASSUME NEW c \in Consumers, nacking' = [nacking EXCEPT ![c] = NoNack]
        PROVE \A d \in Consumers : ~nacking'[d].twice
    BY <1>2 DEF TypeOK, NoNack
  <1>3. ASSUME NEW c \in Consumers, NackToRetry(c) \/ NackToDead(c) \/ NackFails(c)
        PROVE \A d \in Consumers : ~nacking'[d].twice
    <2>1. nacking' = [nacking EXCEPT ![c] = NoNack]
      BY <1>3 DEF NackToRetry, NackToDead, NackFails
    <2> QED BY <1>2, <2>1
  <1>4. CASE UNCHANGED nacking BY <1>4
  <1>5. ASSUME \/ Send \/ Tick \/ MaintSelect \/ MaintCommit \/ MaintAbort
               \/ \E gone \in SUBSET dead : Replay(gone) \/ DlqPurge(gone)
               \/ \E c \in Consumers :
                     \/ Register(c) \/ Unregister(c) \/ \E t \in ticks : MoveTo(c, t)
                     \/ Receive(c) \/ FinishBatch(c) \/ BatchRetry(c)
                     \/ \E t \in ticks : NextBatchCustom(c, t)
               \/ UNCHANGED vars
        PROVE UNCHANGED nacking
    BY <1>5 DEF Send, Tick, MaintSelect, MaintCommit, MaintAbort, Replay, DlqPurge,
                Register, Unregister, MoveTo, Receive, FinishBatch, BatchRetry,
                NextBatchCustom
  <1> QED BY <1>1, <1>3, <1>4, <1>5, StepCases

\* A step that leaves the consumer's subscription and everything that waits for it.
LEMMA KeptSame ==
    ASSUME NEW d \in Consumers, Kept(d),
           sub'[d] = sub[d], nacked'[d] \subseteq nacked[d],
           nackedNow'[d] \subseteq nackedNow[d],
           \A r \in retryQueue : r.owner = sub[d].id => r \in retryQueue',
           log \subseteq log',
           \A ev \in nacked'[d] \cup nackedNow'[d] :
               [consumer |-> d, ev |-> ev] \in dead => [consumer |-> d, ev |-> ev] \in dead'
    PROVE Kept(d)'
  BY DEF Kept, Waits

\* The same for a step that moves the position, when nothing that waits lies
\* between the old and the new position.
LEMMA KeptMoved ==
    ASSUME TypeOK, NEW c \in Consumers, NEW t \in Nat,
           \A ev \in nacked'[c] : Waits(c, ev, sub[c].last),
           \A ev \in nacked'[c] : ev \notin EventsIn(RowsUpTo(c, t)),
           sub'[c].id = sub[c].id, sub'[c].last = t, nackedNow'[c] = {},
           UNCHANGED <<log, retryQueue, dead>>
    PROVE Kept(c)'
  <1> SUFFICES ASSUME NEW ev \in nacked'[c] PROVE Waits(c, ev, sub[c].last)'
    BY DEF Kept
  <1>1. Waits(c, ev, sub[c].last) OBVIOUS
  <1>2. CASE \E r \in log : r.owner = sub[c].id /\ r.ev = ev /\ r.at > sub[c].last
    <2>1. PICK r \in log : r.owner = sub[c].id /\ r.ev = ev /\ r.at > sub[c].last BY <1>2
    <2>2. r \notin RowsUpTo(c, t) BY <2>1 DEF EventsIn
    <2>3. ~(r.at <= t) BY <2>1, <2>2 DEF RowsUpTo, Deliverable
    <2>4. r.at > t
      <3>1. r.at \in Nat BY DEF TypeOK, Event
      <3> QED BY <2>3, <3>1
    <2> QED BY <2>1, <2>4 DEF Waits
  <1>3. CASE ~ \E r \in log : r.owner = sub[c].id /\ r.ev = ev /\ r.at > sub[c].last
    BY <1>1, <1>3 DEF Waits
  <1> QED BY <1>2, <1>3

LEMMA KeptOthers ==
    ASSUME TypeOK, NEW d \in Consumers, Kept(d),
           \/ Send \/ Tick \/ MaintSelect \/ MaintAbort \/ UNCHANGED vars
           \/ \E gone \in SUBSET dead : Replay(gone) \/ DlqPurge(gone)
           \/ \E c \in Consumers :
                 \/ \E ev \in 1 .. evSeq : NackRead(c, ev)
                 \/ NackFails(c)
    PROVE Kept(d)'
  <1>1. ASSUME NEW gone \in SUBSET dead, Replay(gone) \/ DlqPurge(gone) PROVE Kept(d)'
    <2>1. /\ dead' = dead \ gone /\ Settle(gone)
          /\ sub' = sub /\ retryQueue' = retryQueue /\ log \subseteq log'
      BY <1>1 DEF Replay, DlqPurge
    <2> DEFINE mine == {e.ev : e \in {e \in gone : e.consumer = d}}
    <2>2. nacked'[d] = nacked[d] \ mine /\ nackedNow'[d] = nackedNow[d] \ mine
      BY <2>1 DEF Settle
    <2>3. \A ev : [consumer |-> d, ev |-> ev] \in gone => ev \in mine
      <3> TAKE ev
      <3> HAVE [consumer |-> d, ev |-> ev] \in gone
      <3> DEFINE e == [consumer |-> d, ev |-> ev]
      <3>1. e \in gone /\ e.consumer = d /\ e.ev = ev OBVIOUS
      <3> QED BY <3>1
    <2> HIDE DEF mine
    <2> QED BY <2>1, <2>2, <2>3, KeptSame
  <1>2. CASE \/ Send \/ Tick \/ MaintSelect \/ MaintAbort \/ UNCHANGED vars
             \/ \E c \in Consumers : \/ \E ev \in 1 .. evSeq : NackRead(c, ev)
                                     \/ NackFails(c)
    <2>1. UNCHANGED <<sub, retryQueue, dead, nacked, nackedNow>> /\ log \subseteq log'
      BY <1>2 DEF Send, Tick, MaintSelect, MaintAbort, NackRead, NackFails
    <2> QED BY <2>1, KeptSame
  <1> QED BY <1>1, <1>2

\* A row leaves the retry queue for the end of the log, behind every position.
LEMMA KeptMaint ==
    ASSUME TypeOK, SubsOK, NEW d \in Consumers, Kept(d), MaintCommit PROVE Kept(d)'
  <1>1. /\ UNCHANGED <<sub, dead, nacked, nackedNow>> /\ log \subseteq log'
        /\ retryQueue' = {r \in retryQueue : ~Moved(r)}
        /\ \A m \in moving : [owner |-> m.owner, ev |-> m.ev, retry |-> m.retry,
                              at |-> commits + 1] \in log'
    BY DEF MaintCommit
  <1>2. ASSUME NEW ev, NEW t \in Nat, t <= commits, Waits(d, ev, t) PROVE Waits(d, ev, t)'
    <2>1. ASSUME NEW r \in retryQueue, r.owner = sub[d].id, r.ev = ev, Moved(r)
          PROVE Waits(d, ev, t)'
      <3>1. PICK m \in moving : m.owner = r.owner /\ m.ev = r.ev BY <2>1 DEF Moved
      <3> DEFINE row == [owner |-> m.owner, ev |-> m.ev, retry |-> m.retry,
                         at |-> commits + 1]
      <3>2. row \in log' /\ row.owner = sub[d].id /\ row.ev = ev /\ row.at = commits + 1
        BY <1>1, <2>1, <3>1
      <3>3. commits + 1 > t BY <1>2 DEF TypeOK
      <3> HIDE DEF row
      <3> QED BY <1>1, <3>2, <3>3 DEF Waits
    <2> QED BY <1>1, <1>2, <2>1 DEF Waits
  <1>3. /\ sub[d].last \in Nat /\ sub[d].last <= commits
        /\ sub[d].next \in Nat /\ sub[d].next <= commits
    BY DEF TypeOK, SubsOK
  <1>4. \A ev \in nacked'[d] : Waits(d, ev, sub[d].last)' BY <1>1, <1>2, <1>3 DEF Kept
  <1>5. \A ev \in nackedNow'[d] : Waits(d, ev, sub[d].next)' BY <1>1, <1>2, <1>3 DEF Kept
  <1> QED BY <1>4, <1>5 DEF Kept

LEMMA KeptSubscribe ==
    ASSUME TypeOK, SubsOK, NEW d \in Consumers, Kept(d), NEW c \in Consumers,
           Register(c) \/ Unregister(c) \/ \E t \in ticks : MoveTo(c, t)
    PROVE Kept(d)'
  <1>1. CASE d # c
    <2>1. /\ sub'[d] = sub[d] /\ nacked'[d] = nacked[d] /\ nackedNow'[d] = nackedNow[d]
          /\ log' = log
      BY <1>1 DEF TypeOK, Register, Unregister, MoveTo
    <2>2. CASE Register(c) \/ \E t \in ticks : MoveTo(c, t)
      BY <2>1, <2>2, KeptSame DEF Register, MoveTo
    <2>3. CASE Unregister(c)
      <3>1. sub[d].id # sub[c].id BY <1>1, <2>3 DEF SubsOK, Unregister
      <3> QED BY <1>1, <2>1, <2>3, <3>1, KeptSame DEF Unregister
    <2> QED BY <2>2, <2>3
  <1>2. CASE d = c /\ (Register(c) \/ Unregister(c))
    <2>1. nacked'[c] = {} /\ nackedNow'[c] = {}
      BY <1>2 DEF SubsOK, TypeOK, Register, Unregister, Registered, HasBatch
    <2> QED BY <1>2, <2>1 DEF Kept
  <1>3. ASSUME d = c, NEW t \in ticks, MoveTo(c, t) PROVE Kept(d)'
    <2>1. /\ sub' = [sub EXCEPT ![c].last = t, ![c].next = 0]
          /\ nacked'[c] = nacked[c] \ EventsIn(RowsUpTo(c, t)) /\ nackedNow'[c] = {}
          /\ UNCHANGED <<log, retryQueue, dead>>
      BY <1>3 DEF MoveTo, TypeOK
    <2>2. sub'[c].last = t /\ sub'[c].id = sub[c].id BY <2>1 DEF TypeOK
    <2>3. t \in Nat BY DEF TypeOK
    <2>4. \A ev \in nacked'[c] : Waits(c, ev, sub[c].last) BY <1>3, <2>1 DEF Kept
    <2> QED BY <1>3, <2>1, <2>2, <2>3, <2>4, KeptMoved
  <1> QED BY <1>1, <1>2, <1>3

LEMMA KeptBatch ==
    ASSUME TypeOK, SubsOK, NEW d \in Consumers, Kept(d), NEW c \in Consumers,
           Receive(c) \/ FinishBatch(c) \/ \E t \in ticks : NextBatchCustom(c, t)
    PROVE Kept(d)'
  <1>1. UNCHANGED <<log, retryQueue, dead>>
    BY DEF Receive, FinishBatch, NextBatchCustom
  <1>2. CASE d # c
    <2>1. sub'[d] = sub[d] /\ nacked'[d] = nacked[d] /\ nackedNow'[d] = nackedNow[d]
      BY <1>2 DEF TypeOK, Receive, FinishBatch, NextBatchCustom
    <2> QED BY <1>1, <2>1, KeptSame
  <1>3. ASSUME d = c, NEW t \in ticks, sub' = [sub EXCEPT ![c].next = t], ~HasBatch(c),
               UNCHANGED <<nacked, nackedNow>>
        PROVE Kept(d)'
    <2>1. nackedNow'[c] = {} BY <1>3 DEF SubsOK
    <2>2. sub'[c].last = sub[c].last /\ sub'[c].id = sub[c].id BY <1>3 DEF TypeOK
    <2> QED BY <1>1, <1>3, <2>1, <2>2 DEF Kept, Waits
  <1>4. CASE d = c /\ \E t \in ticks : NextBatchCustom(c, t)
    BY <1>3, <1>4 DEF NextBatchCustom
  <1>5. CASE d = c /\ Receive(c)
    <2>1. PICK t \in ticks :
             /\ ~HasBatch(c)
             /\ sub' = IF RowsUpTo(c, t) = {} THEN [sub EXCEPT ![c].last = t]
                                              ELSE [sub EXCEPT ![c].next = t]
             /\ UNCHANGED historyVars
      BY <1>5 DEF Receive
    <2>2. t \in Nat BY DEF TypeOK
    <2>3. CASE RowsUpTo(c, t) = {}
      <3>1. sub' = [sub EXCEPT ![c].last = t] BY <2>1, <2>3
      <3>2. sub'[c].last = t /\ sub'[c].id = sub[c].id BY <3>1 DEF TypeOK
      <3>3. nackedNow'[c] = {} /\ nacked' = nacked BY <2>1 DEF SubsOK
      <3>4. EventsIn(RowsUpTo(c, t)) = {} BY <2>3 DEF EventsIn
      <3>5. \A ev \in nacked'[c] : Waits(c, ev, sub[c].last) BY <1>5, <3>3 DEF Kept
      <3> QED BY <1>1, <1>5, <2>2, <3>2, <3>3, <3>4, <3>5, KeptMoved
    <2>4. CASE RowsUpTo(c, t) # {} BY <1>3, <1>5, <2>1, <2>4
    <2> QED BY <2>3, <2>4
  <1>6. CASE d = c /\ FinishBatch(c)
    <2>1. /\ sub' = [sub EXCEPT ![c].last = sub[c].next, ![c].next = 0]
          /\ nacked'[c] = nacked[c] \ (EventsIn(Batch(c)) \ nackedNow[c])
          /\ nackedNow'[c] = {}
      BY <1>6 DEF FinishBatch, TypeOK
    <2>2. sub'[c].last = sub[c].next /\ sub'[c].id = sub[c].id BY <2>1 DEF TypeOK
    <2>3. ASSUME NEW ev \in nacked'[c] PROVE Waits(c, ev, sub[c].last)'
      <3>1. CASE ev \in nackedNow[c]
        <4>1. Waits(c, ev, sub[c].next) BY <1>6, <3>1 DEF Kept
        <4> QED BY <1>1, <2>2, <4>1 DEF Waits
      <3>2. CASE ev \notin EventsIn(Batch(c))
        <4>1. Waits(c, ev, sub[c].last) BY <1>6, <2>1, <2>3 DEF Kept
        <4>2. ASSUME NEW r \in log, r.owner = sub[c].id, r.ev = ev, r.at > sub[c].last
              PROVE r.at > sub[c].next
          <5>1. r \notin Batch(c) BY <3>2, <4>2 DEF EventsIn
          <5>2. ~(r.at <= sub[c].next) BY <4>2, <5>1 DEF Batch, RowsUpTo, Deliverable
          <5>3. r.at \in Nat /\ sub[c].next \in Nat BY DEF TypeOK, Event
          <5> QED BY <5>2, <5>3
        <4> QED BY <1>1, <2>2, <4>1, <4>2 DEF Waits
      <3> QED BY <2>1, <3>1, <3>2
    <2> QED BY <1>6, <2>1, <2>3 DEF Kept
  <1> QED BY <1>2, <1>4, <1>5, <1>6

\* A nack that succeeds leaves its event in the retry queue or among the dead letters.
LEMMA KeptNack ==
    ASSUME TypeOK, SubsOK, NEW d \in Consumers, Kept(d), NEW c \in Consumers,
           NackToRetry(c) \/ NackToDead(c) \/ BatchRetry(c), ~nacking[c].twice
    PROVE Kept(d)'
  <1>1. /\ sub' = sub /\ retryQueue \subseteq retryQueue' /\ log' = log
        /\ dead \subseteq dead'
    BY DEF NackToRetry, NackToDead, BatchRetry
  <1>2. CASE d # c
    <2>1. nacked'[d] = nacked[d] /\ nackedNow'[d] = nackedNow[d]
      BY <1>2 DEF TypeOK, NackToRetry, NackToDead, BatchRetry, Remember
    <2> QED BY <1>1, <2>1, KeptSame
  <1>3. ASSUME NEW E, nacked'[c] \subseteq nacked[c] \cup E,
               nackedNow'[c] \subseteq nackedNow[c] \cup E,
               \A ev \in E : \/ \E r \in retryQueue' : r.owner = sub[c].id /\ r.ev = ev
                             \/ [consumer |-> c, ev |-> ev] \in dead',
               d = c
        PROVE Kept(d)'
    BY <1>1, <1>3 DEF Kept, Waits
  <1> DEFINE n == nacking[c]
             E == IF sub[c].id = n.owner THEN {n.ev} ELSE {}
  <1>4. ASSUME Remember(c)
        PROVE nacked'[c] \subseteq nacked[c] \cup E /\ nackedNow'[c] \subseteq nackedNow[c] \cup E
    BY <1>4 DEF Remember, TypeOK
  <1>5. CASE d = c /\ NackToRetry(c)
    <2>1. \E r \in retryQueue' : r.owner = n.owner /\ r.ev = n.ev
      <3>1. CASE RetryConflict(n)
        <4>1. \E r \in retryQueue : r.owner = n.owner /\ r.ev = n.ev
          BY <3>1 DEF RetryConflict
        <4> QED BY <1>1, <4>1
      <3>2. CASE ~RetryConflict(n)
        <4>1. RetryRow(n) \in retryQueue' BY <1>5, <3>2 DEF NackToRetry
        <4>2. RetryRow(n).owner = n.owner /\ RetryRow(n).ev = n.ev BY DEF RetryRow
        <4> QED BY <4>1, <4>2
      <3> QED BY <3>1, <3>2
    <2>2. Remember(c) BY <1>5 DEF NackToRetry
    <2>3. \A ev \in E : \E r \in retryQueue' : r.owner = sub[c].id /\ r.ev = ev BY <2>1
    <2> HIDE DEF E
    <2> QED BY <1>3, <1>4, <1>5, <2>2, <2>3
  <1>6. CASE d = c /\ NackToDead(c)
    <2>1. [consumer |-> c, ev |-> n.ev] \in dead' BY <1>6 DEF NackToDead
    <2>2. Remember(c) BY <1>6 DEF NackToDead
    <2>3. \A ev \in E : [consumer |-> c, ev |-> ev] \in dead' BY <2>1
    <2> HIDE DEF E
    <2> QED BY <1>3, <1>4, <1>6, <2>2, <2>3
  <1>7. CASE d = c /\ BatchRetry(c)
    <2> DEFINE rows == {r \in Batch(c) : \A q \in retryQueue :
                                             ~(q.owner = sub[c].id /\ q.ev = r.ev)}
    <2>1. /\ retryQueue' = retryQueue \cup
                {[owner |-> sub[c].id, ev |-> r.ev, retry |-> r.retry + 1] : r \in rows}
          /\ nacked'[c] = nacked[c] \cup EventsIn(Batch(c))
          /\ nackedNow'[c] = nackedNow[c] \cup EventsIn(Batch(c))
      BY <1>7 DEF BatchRetry, TypeOK
    <2>2. \A ev \in EventsIn(Batch(c)) :
             \E r \in retryQueue' : r.owner = sub[c].id /\ r.ev = ev
      <3> SUFFICES ASSUME NEW r \in Batch(c)
                   PROVE \E q \in retryQueue' : q.owner = sub[c].id /\ q.ev = r.ev
        BY DEF EventsIn
      <3>1. CASE r \in rows
        <4> DEFINE q == [owner |-> sub[c].id, ev |-> r.ev, retry |-> r.retry + 1]
        <4> HIDE DEF rows
        <4>1. q \in retryQueue' BY <2>1, <3>1
        <4>2. q.owner = sub[c].id /\ q.ev = r.ev OBVIOUS
        <4> QED BY <4>1, <4>2
      <3>2. CASE r \notin rows BY <2>1, <3>2
      <3> QED BY <3>1, <3>2
    <2> QED BY <1>3, <1>7, <2>1, <2>2
  <1> QED BY <1>2, <1>5, <1>6, <1>7

LEMMA PromisesStep ==
    ASSUME TypeOK, SubsOK, ~CopiesInOneBatch, PromisesOK, [Next]_vars PROVE PromisesOK'
  <1>1. \A d \in Consumers : ~nacking'[d].twice BY TwiceStep DEF PromisesOK
  <1>2. ASSUME NEW d \in Consumers PROVE Kept(d)'
    <2>1. Kept(d) BY DEF PromisesOK
    <2>2. \A c \in Consumers : ~nacking[c].twice BY DEF PromisesOK
    <2> QED BY <2>1, <2>2, StepCases, KeptOthers, KeptMaint, KeptSubscribe, KeptBatch, KeptNack
  <1> QED BY <1>1, <1>2 DEF PromisesOK

LEMMA PromisesInit == Init => PromisesOK
  BY DEF Init, PromisesOK, Kept, NoNack

\* An event whose nack has returned is never lost to the consumer, whatever
\* maintenance, other sessions and replays do meanwhile, if no nack finds its event
\* twice in its batch (event_retry's swallowed conflict is the gap).
THEOREM NackedNeverLost == ~CopiesInOneBatch => (Spec => []NackedIsNotLost)
  <1> SUFFICES ASSUME ~CopiesInOneBatch PROVE Spec => []NackedIsNotLost OBVIOUS
  <1>1. Init => IInv BY CountsInit, PromisesInit DEF IInv
  <1>2. IInv /\ [Next]_vars => IInv'
    BY CountsStep, PromisesStep DEF IInv, CountsInv
  <1>3. IInv => NackedIsNotLost BY DEF IInv, PromisesOK, Kept, NackedIsNotLost
  <1> QED BY <1>1, <1>2, <1>3, PTL DEF Spec
=============================================================================
