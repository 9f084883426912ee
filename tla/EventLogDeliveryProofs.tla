------------------------ MODULE EventLogDeliveryProofs ------------------------
(***************************************************************************)
(* EventLog implements Delivery, for every value of the constants, without *)
(* the schedules of Gaps.                                                  *)
(***************************************************************************)
EXTENDS EventLogDelivery, EventLogProofs

\* What the mapping reads: the rows each tick of a subscription sees, the
\* subscriptions and their readers.
LEMMA SubsFrame ==
    ASSUME IInv, UNCHANGED <<sub, reader>>,
           \A c \in Consumers : \A t \in {sub[c].last, sub[c].next} :
              Registered(c) /\ t # 0 => SeenAt(t)' = SeenAt(t)
    PROVE  UNCHANGED <<Phase, At, Upto, Got>>
<1>1. \A c \in Consumers : HasBatch(c) => Registered(c)
  BY DEF IInv, SubsOK
<1>2. Phase' = Phase /\ Got' = Got
  BY DEF Phase, Got, Registered, HasBatch
<1>3. At' = At
  BY DEF At, Registered
<1>4. Upto' = Upto
  BY <1>1 DEF Upto, HasBatch
<1> QED
  BY <1>2, <1>3, <1>4

LEMMA SameTicks ==
    ASSUME IInv, UNCHANGED <<sub, reader, ticks>>,
           \A t \in DOMAIN ticks : SeenAt(t)' = SeenAt(t)
    PROVE  UNCHANGED <<Cuts, Phase, At, Upto, Got>>
<1>1. Cuts' = Cuts
  BY DEF Cuts
<1>2. \A c \in Consumers : \A t \in {sub[c].last, sub[c].next} :
         Registered(c) /\ t # 0 => SeenAt(t)' = SeenAt(t)
  BY DEF IInv, SubscribedTickExists, HasBatch
<1> QED
  BY <1>1, <1>2, SubsFrame

LEMMA SameRows ==
    ASSUME IInv, UNCHANGED <<sub, reader, ticks, sent, running>> PROVE UNCHANGED D!vars
<1>1. Committed' = Committed
  BY DEF Committed
<1>2. \A t \in DOMAIN ticks : SeenAt(t)' = SeenAt(t)
  BY DEF SeenAt
<1> QED
  BY <1>1, <1>2, SameTicks DEF D!vars

\* The rows of running transactions are in no cut.
LEMMA SeenIsCommitted ==
    ASSUME IInv, NEW t \in DOMAIN ticks PROVE SeenAt(t) \subseteq Committed
BY DEF IInv, TicksOK, Past, SeenAt, Committed

-----------------------------------------------------------------------------
LEMMA ProduceMaps ==
    ASSUME IInv, IInv', NEW p \in Producers, Gaps = {}, Produce(p)
    PROVE  [D!Next]_(D!vars)
<1>1. UNCHANGED <<sub, reader, ticks>>
  BY DEF Produce, ReadQueue, InsertEvent, Commit, Abort, subVars, tickVars
<1>2. CASE ReadQueue(p)
  BY <1>1, <1>2, SameRows DEF ReadQueue, rowVars, xidVars
<1>3. CASE InsertEvent(p)
  <2>1. PICK e \in Row :
           /\ sent' = sent \cup {e} /\ running' = running \cup {e.xid}
           /\ e.xid = nextXid \/ e.xid \in running
    BY <1>3, InsertFacts
  <2>2. \A t \in DOMAIN ticks : ~Visible(e.xid, ticks[t])
    BY <1>1, <2>1 DEF IInv, TicksOK, Past
  <2>3. \A t \in DOMAIN ticks : SeenAt(t)' = SeenAt(t)
    BY <1>1, <2>1, <2>2 DEF SeenAt
  <2>4. \A f \in sent : f.xid # nextXid
    BY DEF IInv, RowsOK, TypeOK, Row
  <2>5. Committed' = Committed
    BY <2>1, <2>4 DEF Committed
  <2> QED
    BY <1>1, <2>3, <2>5, SameTicks DEF D!vars
<1>4. CASE Commit(p)
  <2>1. running' \subseteq running /\ sent' = sent
    BY <1>4 DEF Commit, Finish, rowVars
  <2>2. Committed \subseteq Committed'
    BY <2>1 DEF Committed
  <2>3. \A t \in DOMAIN ticks : SeenAt(t)' = SeenAt(t)
    BY <1>1, <2>1 DEF SeenAt
  <2> QED
    BY <1>1, <2>2, <2>3, SameTicks DEF D!Publish, D!Next
<1>5. CASE Abort(p)
  <2>1. sent' = {e \in sent : e.xid # tx[p].xid}
    BY <1>5 DEF Abort
  <2>2. \A e \in sent : e.xid = tx[p].xid => e.xid \in running
    BY DEF IInv, RowsOK, TxOK
  <2>3. running' = running \ {tx[p].xid}
    BY <1>5 DEF Abort, Finish, xidVars, IInv, TypeOK, IdsOK
  <2>4. Committed' = Committed
    BY <2>1, <2>2, <2>3 DEF Committed
  <2>5. \A t \in DOMAIN ticks : SeenAt(t)' = SeenAt(t)
    BY <1>1, <2>1, <2>2 DEF SeenAt, IInv, TicksOK, Past
  <2> QED
    BY <1>1, <2>4, <2>5, SameTicks DEF D!vars
<1> QED
  BY <1>2, <1>3, <1>4, <1>5 DEF Produce

\* A tick cuts off exactly what has committed.
LEMMA TickMaps == ASSUME IInv, IInv', Tick PROVE [D!Next]_(D!vars)
<1> DEFINE s == CurrentSnapshot(running, newestFinished)
           n == tickSeq + 1
<1>1. /\ s.xmax = newestFinished + 1 /\ s.xip = {x \in running : x < s.xmax}
  BY CurrentSnapshotShape DEF IInv, TypeOK
<1>2. ticks' = [t \in DOMAIN ticks \cup {n} |-> IF t = n THEN s ELSE ticks[t]]
  BY DEF Tick
<1>3. UNCHANGED <<sub, reader, sent, running>>
  BY DEF Tick, AssignAndFinish, subVars, rowVars
<1>4. n \notin DOMAIN ticks
  BY DEF IInv, TicksOK, TypeOK
<1> HIDE DEF s, n
<1>5. DOMAIN ticks' = DOMAIN ticks \cup {n} /\ ticks'[n] = s
      /\ \A t \in DOMAIN ticks : ticks'[t] = ticks[t]
  BY <1>2, <1>4
<1>6. Committed' = Committed
  BY <1>3 DEF Committed
<1>7. \A t \in DOMAIN ticks : SeenAt(t)' = SeenAt(t)
  BY <1>3, <1>5 DEF SeenAt
<1>8. \A t \in DOMAIN ticks' : t = n => SeenAt(t)' = Committed
  <2>1. ASSUME NEW e \in sent PROVE Visible(e.xid, s) <=> e.xid \notin running
    <3>1. /\ e.xid \in Nat /\ e.xid < nextXid /\ newestFinished \in Nat /\ nextXid \in Nat
          /\ e.xid \notin running => e.xid <= newestFinished
      BY DEF IInv, TypeOK, RowsOK, Row, IdsOK
    <3> QED
      BY <1>1, <3>1 DEF Visible
  <2> QED
    BY <1>3, <1>5, <2>1 DEF SeenAt, Committed
<1>9. Cuts' = Cuts \cup {Committed}
  <2>1. n \in DOMAIN ticks'
    BY <1>5
  <2>2. \A t \in DOMAIN ticks' : SeenAt(t)' \in Cuts \cup {Committed}
    BY <1>5, <1>7, <1>8 DEF Cuts
  <2>3. \A t \in DOMAIN ticks : SeenAt(t) \in Cuts'
    BY <1>5, <1>7 DEF Cuts
  <2>4. Committed \in Cuts'
    BY <1>8, <2>1 DEF Cuts
  <2> QED
    BY <2>2, <2>3, <2>4 DEF Cuts
<1>10. UNCHANGED <<Phase, At, Upto, Got>>
  <2>1. \A c \in Consumers : \A t \in {sub[c].last, sub[c].next} :
           Registered(c) /\ t # 0 => SeenAt(t)' = SeenAt(t)
    BY <1>7 DEF IInv, SubscribedTickExists, HasBatch
  <2> QED
    BY <1>3, <2>1, SubsFrame
<1> QED
  BY <1>6, <1>9, <1>10 DEF D!Cut, D!Next

LEMMA RotateStep1CommitMaps ==
    ASSUME IInv, IInv', RotateStep1Commit PROVE [D!Next]_(D!vars)
<1>1. /\ UNCHANGED <<sub, reader, sent>>
      /\ running' = running \ {rotating} /\ rotating # 0
      /\ ticks' = [t \in {u \in DOMAIN ticks : TickSurvives(u)} |-> ticks[t]]
  BY DEF RotateStep1Commit, Finish, subVars
<1>2. DOMAIN ticks' \subseteq DOMAIN ticks
      /\ \A t \in DOMAIN ticks' : ticks'[t] = ticks[t]
  BY <1>1
<1>3. Committed' = Committed
  BY <1>1 DEF Committed, IInv, RowsOK
<1>4. \A t \in DOMAIN ticks' : SeenAt(t)' = SeenAt(t)
  BY <1>1, <1>2 DEF SeenAt
<1>5. Cuts' = {SeenAt(t) : t \in DOMAIN ticks'}
  BY <1>4 DEF Cuts
<1>6. \A c \in Consumers :
         /\ Registered(c) => sub[c].last \in DOMAIN ticks'
         /\ HasBatch(c) => Registered(c) /\ sub[c].next \in DOMAIN ticks'
  BY <1>1 DEF IInv, SubscribedTickExists, SubsOK, Registered, HasBatch
<1>7. UNCHANGED <<Phase, At, Upto, Got>>
  <2>1. \A c \in Consumers : \A t \in {sub[c].last, sub[c].next} :
           Registered(c) /\ t # 0 => SeenAt(t)' = SeenAt(t)
    BY <1>4, <1>6 DEF HasBatch
  <2> QED
    BY <1>1, <2>1, SubsFrame
<1>8. \A c \in Consumers : /\ Phase[c] # "out" => At[c] \in Cuts'
                           /\ Phase[c] \in {"open", "read"} => Upto[c] \in Cuts'
  BY <1>5, <1>6 DEF Phase, At, Upto
<1>9. Cuts' \subseteq Cuts
  BY <1>2, <1>5 DEF Cuts
<1> QED
  BY <1>3, <1>7, <1>8, <1>9 DEF D!Forget, D!Next

LEMMA MaintainMaps ==
    ASSUME IInv, IInv', Maintain PROVE [D!Next]_(D!vars)
<1>1. CASE RotateStep1Start
  <2>1. UNCHANGED <<sub, reader, ticks, sent>> /\ running' = running \cup {nextXid}
    BY <1>1 DEF RotateStep1Start, Assign, subVars, tickVars, rowVars
  <2>2. \A e \in sent : e.xid # nextXid
    BY DEF IInv, RowsOK, TypeOK, Row
  <2>3. Committed' = Committed
    BY <2>1, <2>2 DEF Committed
  <2>4. \A t \in DOMAIN ticks : SeenAt(t)' = SeenAt(t)
    BY <2>1 DEF SeenAt
  <2> QED
    BY <2>1, <2>3, <2>4, SameTicks DEF D!vars
<1>2. CASE RotateStep1Skip
  <2>1. UNCHANGED <<sub, reader, ticks, sent>> /\ running' = running \ {rotating}
    BY <1>2 DEF RotateStep1Skip, Finish, subVars, tickVars, rowVars
  <2>2. Committed' = Committed
    BY <2>1 DEF Committed, IInv, RowsOK
  <2>3. \A t \in DOMAIN ticks : SeenAt(t)' = SeenAt(t)
    BY <2>1 DEF SeenAt
  <2> QED
    BY <2>1, <2>2, <2>3, SameTicks DEF D!vars
<1>3. CASE RotateStep2
  BY <1>3, SameRows DEF RotateStep2, AssignAndFinish, subVars, tickVars, rowVars
<1> QED
  BY <1>1, <1>2, <1>3, TickMaps, RotateStep1CommitMaps DEF Maintain

-----------------------------------------------------------------------------
\* A step that only subscriptions and readers take.
LEMMA OnlySubs ==
    ASSUME UNCHANGED <<ticks, sent, running>>
    PROVE  /\ Committed' = Committed /\ Cuts' = Cuts
           /\ \A t \in DOMAIN ticks : SeenAt(t)' = SeenAt(t)
BY DEF Committed, Cuts, SeenAt

\* Two functions on Consumers that differ at c.
LEMMA Except ==
    ASSUME NEW f, NEW g, NEW c \in Consumers, NEW v,
           f = [d \in Consumers |-> f[d]], g = [d \in Consumers |-> g[d]],
           g[c] = v, \A d \in Consumers \ {c} : g[d] = f[d]
    PROVE  g = [f EXCEPT ![c] = v]
OBVIOUS

\* What changes in the mapped state when one subscription and its reader change.
LEMMA OneSub ==
    ASSUME UNCHANGED <<ticks, sent, running>>, NEW c \in Consumers,
           \A d \in Consumers \ {c} : sub'[d] = sub[d] /\ reader'[d] = reader[d]
    PROVE  /\ Phase' = [Phase EXCEPT ![c] = Phase'[c]]
           /\ At' = [At EXCEPT ![c] = At'[c]]
           /\ Upto' = [Upto EXCEPT ![c] = Upto'[c]]
           /\ Got' = [Got EXCEPT ![c] = Got'[c]]
<1>1. /\ Phase = [d \in Consumers |-> Phase[d]] /\ Phase' = [d \in Consumers |-> Phase'[d]]
      /\ At = [d \in Consumers |-> At[d]] /\ At' = [d \in Consumers |-> At'[d]]
      /\ Upto = [d \in Consumers |-> Upto[d]] /\ Upto' = [d \in Consumers |-> Upto'[d]]
      /\ Got = [d \in Consumers |-> Got[d]] /\ Got' = [d \in Consumers |-> Got'[d]]
  BY DEF Phase, At, Upto, Got
<1>2. ASSUME NEW d \in Consumers \ {c}
      PROVE  /\ Phase'[d] = Phase[d] /\ At'[d] = At[d]
             /\ Upto'[d] = Upto[d] /\ Got'[d] = Got[d]
  <2>1. sub'[d] = sub[d] /\ reader'[d] = reader[d]
    BY <1>2
  <2>2. Phase'[d] = Phase[d] /\ Got'[d] = Got[d]
    BY <2>1 DEF Phase, Got, Registered, HasBatch
  <2>3. At'[d] = At[d] /\ Upto'[d] = Upto[d]
    BY <2>1 DEF At, Upto, Registered, HasBatch, SeenAt
  <2> QED
    BY <2>2, <2>3
<1> QED
  BY <1>1, <1>2, Except

LEMMA SubscribeMaps ==
    ASSUME IInv, IInv', Gaps = {}, NEW c \in Consumers, Subscribe(c)
    PROVE  [D!Next]_(D!vars)
<1>1. UNCHANGED <<ticks, sent, running>>
  BY DEF Subscribe, RegisterRead, RegisterAtRead, RegisterWrite, RegisterAbort,
         Unregister, xidVars, rowVars, tickVars
<1>2. CASE RegisterRead(c) \/ RegisterAtRead(c) \/ RegisterAbort(c)
  BY <1>1, <1>2, SameRows DEF RegisterRead, RegisterAtRead, RegisterAbort
<1>3. /\ sub \in [Consumers -> [last : Nat, next : Nat]]
      /\ reader \in [Consumers -> [phase : {"idle", "planned", "fetched"},
                                   plan : SUBSET Tables, got : SUBSET Row]]
  BY DEF IInv, TypeOK
<1>4. CASE RegisterWrite(c)
  <2> DEFINE t == position[c]
  <2>1. /\ t \in DOMAIN ticks /\ t # 0
        /\ sub' = [sub EXCEPT ![c] = [last |-> t, next |-> 0]]
        /\ reader' = [reader EXCEPT ![c] = NoReader]
    BY <1>4 DEF RegisterWrite, PositionStays
  <2> HIDE DEF t
  <2>2. /\ sub'[c] = [last |-> t, next |-> 0] /\ reader'[c] = NoReader
        /\ \A d \in Consumers \ {c} : sub'[d] = sub[d] /\ reader'[d] = reader[d]
    BY <1>3, <2>1
  <2>3. SeenAt(t) \in Cuts
    BY <2>1 DEF Cuts
  <2>4. At'[c] = SeenAt(t) /\ Upto'[c] = {}
    BY <1>1, <2>1, <2>2 DEF At, Upto, Registered, HasBatch, SeenAt
  <2>5. Phase'[c] = "idle" /\ Got'[c] = {}
    BY <2>1, <2>2 DEF Phase, Got, Registered, HasBatch, NoReader
  <2> QED
    BY <1>1, <2>2, <2>3, <2>4, <2>5, OneSub, OnlySubs DEF D!Seek, D!Next
<1>5. CASE Unregister(c)
  <2>1. /\ sub' = [sub EXCEPT ![c] = NoSub]
        /\ reader' = [reader EXCEPT ![c] = NoReader]
    BY <1>5 DEF Unregister
  <2>2. /\ sub'[c] = NoSub /\ reader'[c] = NoReader
        /\ \A d \in Consumers \ {c} : sub'[d] = sub[d] /\ reader'[d] = reader[d]
    BY <1>3, <2>1
  <2>3. At'[c] = {} /\ Upto'[c] = {}
    BY <2>2 DEF At, Upto, Registered, HasBatch, NoSub
  <2>4. Phase'[c] = "out" /\ Got'[c] = {}
    BY <2>2 DEF Phase, Got, Registered, NoSub, NoReader
  <2> QED
    BY <1>1, <2>2, <2>3, <2>4, OneSub, OnlySubs DEF D!Leave, D!Next
<1> QED
  BY <1>2, <1>4, <1>5 DEF Subscribe

LEMMA OpenMaps ==
    ASSUME IInv, IInv', NEW c \in Consumers, NEW n \in DOMAIN ticks, OpenBatch(c, n)
    PROVE  [D!Next]_(D!vars)
<1>1. /\ UNCHANGED <<ticks, sent, running, reader>>
      /\ Registered(c) /\ ~HasBatch(c)
      /\ sub[c].last \in DOMAIN ticks /\ n > sub[c].last
      /\ sub' = [sub EXCEPT ![c].next = n]
  BY DEF OpenBatch, xidVars, rowVars, tickVars
<1>2. sub \in [Consumers -> [last : Nat, next : Nat]] /\ n \in Nat /\ n # 0
  BY DEF IInv, TypeOK
<1>3. /\ sub'[c].last = sub[c].last /\ sub'[c].next = n
      /\ \A d \in Consumers \ {c} : sub'[d] = sub[d]
  BY <1>1, <1>2
<1>4. SeenAt(sub[c].last) \subseteq SeenAt(n) /\ SeenAt(n) \in Cuts
  <2>1. Extends(ticks[sub[c].last], ticks[n]) /\ ticks[sub[c].last].xmax \in Nat
    BY <1>1, <1>2 DEF IInv, TicksOK, TypeOK, Snapshot
  <2>2. \A e \in sent : Visible(e.xid, ticks[sub[c].last]) => Visible(e.xid, ticks[n])
    BY <2>1 DEF Extends, Visible, IInv, TypeOK, Row
  <2> QED
    BY <2>2 DEF SeenAt, Cuts
<1>5. reader[c].phase = "idle"
  BY <1>1 DEF IInv, SubsOK
<1>6. At' = At /\ Got' = Got
  BY <1>1, <1>3 DEF At, Got, Registered, SeenAt
<1>7. Upto' = [Upto EXCEPT ![c] = SeenAt(n)]
  BY <1>1, <1>2, <1>3 DEF Upto, HasBatch, SeenAt
<1>8. Phase[c] = "idle" /\ Phase' = [Phase EXCEPT ![c] = "open"]
  BY <1>1, <1>2, <1>3, <1>5 DEF Phase, Registered, HasBatch
<1>9. At[c] \subseteq SeenAt(n)
  BY <1>1, <1>4 DEF At
<1> QED
  BY <1>1, <1>4, <1>6, <1>7, <1>8, <1>9, OnlySubs DEF D!Open, D!Next

LEMMA RunQueryMaps ==
    ASSUME IInv, IInv', NEW c \in Consumers, RunQuery(c) PROVE [D!Next]_(D!vars)
<1> DEFINE batch == {e \in sent : Between(e.xid, LastTick(c), CurTick(c))}
<1>1. /\ UNCHANGED <<ticks, sent, running, sub>>
      /\ reader[c].phase = "planned"
      /\ reader' = [reader EXCEPT ![c] =
                       [phase |-> "fetched", plan |-> {}, got |-> batch]]
  BY BatchRowsAreTheBatch DEF RunQuery, xidVars, rowVars, tickVars
<1>2. reader \in [Consumers -> [phase : {"idle", "planned", "fetched"},
                                plan : SUBSET Tables, got : SUBSET Row]]
  BY DEF IInv, TypeOK
<1>3. /\ reader'[c].phase = "fetched" /\ reader'[c].got = batch
      /\ \A d \in Consumers \ {c} : reader'[d] = reader[d]
  BY <1>1, <1>2
<1>4. Registered(c) /\ HasBatch(c)
  BY <1>1 DEF IInv, SubsOK
<1>5. batch = Upto[c] \ At[c]
  BY <1>4 DEF Upto, At, SeenAt, Between, LastTick, CurTick
<1>6. UNCHANGED <<At, Upto>>
  BY <1>1 DEF At, Upto, Registered, HasBatch, SeenAt
<1>7. Phase[c] = "open" /\ Phase' = [Phase EXCEPT ![c] = "read"]
  BY <1>1, <1>3, <1>4 DEF Phase, Registered, HasBatch
<1>8. Got' = [Got EXCEPT ![c] = Upto[c] \ At[c]]
  BY <1>3, <1>5 DEF Got
<1> QED
  BY <1>1, <1>6, <1>7, <1>8, OnlySubs DEF D!Read, D!Next

LEMMA ReaderResetMaps ==
    ASSUME IInv, IInv', NEW c \in Consumers, PlanQuery(c) \/ ConsumerCrash(c)
    PROVE  [D!Next]_(D!vars)
<1>1. UNCHANGED <<ticks, sent, running, sub>>
  BY DEF PlanQuery, ConsumerCrash, xidVars, rowVars, tickVars
<1>2. reader \in [Consumers -> [phase : {"idle", "planned", "fetched"},
                                plan : SUBSET Tables, got : SUBSET Row]]
  BY DEF IInv, TypeOK
<1>3. UNCHANGED <<At, Upto, Cuts, Committed>>
  BY <1>1, OnlySubs DEF At, Upto, Registered, HasBatch, SeenAt
<1>4. /\ reader'[c].phase # "fetched" /\ reader'[c].got = {}
      /\ \A d \in Consumers \ {c} : reader'[d] = reader[d]
  BY <1>2 DEF PlanQuery, ConsumerCrash, NoReader
<1>5. Registered(c) /\ HasBatch(c)
  BY DEF PlanQuery, ConsumerCrash, IInv, SubsOK
<1>6. CASE reader[c].phase # "fetched"
  <2>1. reader[c].got = {}
    BY <1>6 DEF IInv, SubsOK
  <2>2. Phase' = Phase /\ Got' = Got
    BY <1>1, <1>4, <1>6, <2>1 DEF Phase, Got, Registered, HasBatch
  <2> QED
    BY <1>3, <2>2 DEF D!vars
<1>7. CASE reader[c].phase = "fetched"
  <2>1. Phase[c] = "read" /\ Phase' = [Phase EXCEPT ![c] = "open"]
    BY <1>1, <1>4, <1>5, <1>7 DEF Phase, Registered, HasBatch
  <2>2. Got' = [Got EXCEPT ![c] = {}]
    BY <1>4 DEF Got
  <2> QED
    BY <1>3, <2>1, <2>2 DEF D!Lose, D!Next
<1> QED
  BY <1>6, <1>7

LEMMA FinishBatchMaps ==
    ASSUME IInv, IInv', NEW c \in Consumers, FinishBatch(c) PROVE [D!Next]_(D!vars)
<1>1. /\ UNCHANGED <<ticks, sent, running>>
      /\ reader[c].phase = "fetched"
      /\ sub' = [sub EXCEPT ![c] = [last |-> @.next, next |-> 0]]
      /\ reader' = [reader EXCEPT ![c] = NoReader]
  BY DEF FinishBatch, xidVars, rowVars, tickVars
<1>2. /\ sub \in [Consumers -> [last : Nat, next : Nat]]
      /\ reader \in [Consumers -> [phase : {"idle", "planned", "fetched"},
                                   plan : SUBSET Tables, got : SUBSET Row]]
  BY DEF IInv, TypeOK
<1>3. /\ sub'[c] = [last |-> sub[c].next, next |-> 0] /\ reader'[c] = NoReader
      /\ \A d \in Consumers \ {c} : sub'[d] = sub[d] /\ reader'[d] = reader[d]
  BY <1>1, <1>2
<1>4. Registered(c) /\ HasBatch(c)
  BY <1>1 DEF IInv, SubsOK
<1>5. At'[c] = Upto[c] /\ Upto'[c] = {}
  BY <1>1, <1>3, <1>4 DEF At, Upto, Registered, HasBatch, SeenAt
<1>6. Phase[c] = "read" /\ Phase'[c] = "idle" /\ Got'[c] = {}
  BY <1>1, <1>3, <1>4 DEF Phase, Got, Registered, HasBatch, NoReader
<1> QED
  BY <1>1, <1>3, <1>5, <1>6, OneSub, OnlySubs DEF D!Acknowledge, D!Next

-----------------------------------------------------------------------------
LEMMA InitMaps == Init => D!Init
<1> SUFFICES ASSUME Init PROVE D!Init
  OBVIOUS
<1>1. /\ sent = {} /\ DOMAIN ticks = {1}
      /\ sub = [c \in Consumers |-> NoSub] /\ reader = [c \in Consumers |-> NoReader]
  BY DEF Init
<1>2. Committed = {} /\ Cuts = {{}}
  BY <1>1 DEF Committed, Cuts, SeenAt
<1>3. /\ Phase = [c \in Consumers |-> "out"]
      /\ At = [c \in Consumers |-> {}] /\ Upto = [c \in Consumers |-> {}]
      /\ Got = [c \in Consumers |-> {}]
  BY <1>1 DEF Phase, At, Upto, Got, Registered, HasBatch, NoSub, NoReader
<1> QED
  BY <1>2, <1>3 DEF D!Init

LEMMA StepMaps ==
    ASSUME Gaps = {} PROVE IInv /\ IInv' /\ [Next]_vars => [D!Next]_(D!vars)
<1> SUFFICES ASSUME IInv, IInv', [Next]_vars PROVE [D!Next]_(D!vars)
  OBVIOUS
<1>1. ASSUME NEW c \in Consumers, Consume(c) PROVE [D!Next]_(D!vars)
  BY <1>1, OpenMaps, RunQueryMaps, ReaderResetMaps, FinishBatchMaps
  DEF Consume, NextBatch, NextBatchCustom
<1>2. CASE UNCHANGED vars
  BY <1>2, SameRows DEF vars, subVars, tickVars, rowVars, xidVars
<1> QED
  BY <1>1, <1>2, ProduceMaps, MaintainMaps, SubscribeMaps DEF Next

(* The tables, ticks and rotations of the event log implement the abstract *)
(* log: each batch is exactly what committed between two cuts, no cut a    *)
(* subscription needs is forgotten, acknowledging moves it by one batch.   *)
THEOREM EventLogImplementsDelivery == ASSUME Gaps = {} PROVE Spec => ImplementsDelivery
BY Invariance, InitMaps, StepMaps, PTL DEF Spec, ImplementsDelivery, D!Spec
=============================================================================
