------------------------------- MODULE EventLog -------------------------------
(***************************************************************************)
(* The snapshot-diff log of one queue: producers insert rows into the      *)
(* current data table, the ticker records a snapshot per tick, consumers   *)
(* read the difference of two ticks and move on, and maintenance rotates   *)
(* the data tables in two transactions, truncating the oldest.             *)
(*                                                                         *)
(* Postgres is modelled where the algorithm leans on it: transaction ids   *)
(* are handed out in order when a transaction first writes, a transaction  *)
(* finishes later (commit or abort), a snapshot is what had finished.      *)
(* A row carries the id of its transaction, so a row of a running          *)
(* transaction is in a table but visible to no query.                      *)
(*                                                                         *)
(* Times are abstracted: a rotation period has always elapsed, the ticker  *)
(* may tick at any moment.  Retried events and cooperative members have    *)
(* modules of their own; here every row has a null ev_owner.               *)
(***************************************************************************)
EXTENDS Integers, Snapshots

CONSTANTS
    Producers,          \* sessions that insert events
    RepeatableRead,     \* those of them whose transaction keeps one snapshot
    Consumers,
    NTables,            \* queue_ntables, 3 in the code
    Gaps,               \* schedules the code does not exclude (see GapNames)
    MaxEvents,          \* bound on event ids
    MaxTicks,           \* bound on ticks that bring nothing new
    MaxRotations,       \* bound on attempts of rotation step 1
    MaxMoves            \* bound on (re-)registrations

(* The three schedules below break the algorithm.  A passing run and the   *)
(* theorems exclude them, a violation run admits one.                      *)
(*  stale_table:        both rotation steps finish after a producer has    *)
(*                      read queue_cur_table and before its transaction    *)
(*                      gets an id;                                        *)
(*  late_registration:  step 1 deletes the tick that a registration has    *)
(*                      read and not yet stored;                           *)
(*  unwatched_rotation: step 1 finds no subscription while a transaction   *)
(*                      older than the previous step 2 is still running.   *)
GapNames == {"stale_table", "late_registration", "unwatched_rotation"}

ASSUME ProducersAssumption == RepeatableRead \subseteq Producers
ASSUME NTablesAssumption == NTables \in Nat /\ NTables >= 2
ASSUME GapsAssumption == Gaps \subseteq GapNames
ASSUME BoundsAssumption == /\ MaxEvents \in Nat /\ MaxTicks \in Nat
                           /\ MaxRotations \in Nat /\ MaxMoves \in Nat

VARIABLES
    nextXid,         \* the id the next writing transaction gets
    running,         \* ids of transactions in progress
    newestFinished,  \* the highest id that committed or aborted
    curTable,        \* queue_cur_table
    step1,           \* queue_switch_step1
    step2,           \* queue_switch_step2, 0 for NULL
    rotating,        \* id of the transaction inside rotation step 1, or 0
    ticks,           \* the rows of pgque.tick: tick id -> snapshot
    tickSeq,         \* queue_tick_seq
    kept,            \* rows now in the data tables
    tx,              \* producer -> its transaction and the table it has read
    sub,             \* consumer -> its row of pgque.subscription
    position,        \* consumer -> the tick a registration has read, or 0
    reader,          \* consumer -> its call of get_batch_events
    sent,            \* history: every row ever inserted and not aborted
    evSeq,           \* queue_event_seq
    start,           \* history: snapshot at which a subscription began
    acked,           \* history: the rows of a subscription's finished batches
    attempts, moves  \* what MaxRotations and MaxMoves count

xidVars   == <<nextXid, running, newestFinished>>
queueVars == <<curTable, step1, step2, rotating, attempts>>
rowVars   == <<kept, sent, evSeq>>
tickVars  == <<ticks, tickSeq>>
subVars   == <<sub, position, reader, start, acked, moves>>
vars == <<xidVars, queueVars, rowVars, tickVars, tx, subVars>>

NoTable == -1                \* a producer is not inside insert_event_raw
Tables  == 0 .. NTables - 1
Row     == [id : Nat, xid : Nat, tbl : Tables]

\* (Operators marked "mutant" are plausible bugs; nothing in the model uses them.)
\* mutant: the table number does not wrap around
PrevTableUnwrapped == curTable - 1

PrevTable == IF curTable = 0 THEN NTables - 1 ELSE curTable - 1
NextTable == IF curTable + 1 = NTables THEN 0 ELSE curTable + 1

Registered(c) == sub[c].last # 0
HasBatch(c)   == sub[c].next # 0
LastTick(c)   == ticks[sub[c].last]
CurTick(c)    == ticks[sub[c].next]

NoTx     == [xid |-> 0, tbl |-> NoTable]
NoSub    == [last |-> 0, next |-> 0]
NoReader == [phase |-> "idle", plan |-> {}, got |-> {}]

TypeOK ==
    /\ nextXid \in Nat /\ running \in SUBSET Nat /\ newestFinished \in Nat
    /\ curTable \in Tables
    /\ step1 \in Nat /\ step2 \in Nat /\ rotating \in Nat
    /\ DOMAIN ticks \subseteq Nat \ {0}
    /\ \A t \in DOMAIN ticks : ticks[t] \in Snapshot
    /\ tickSeq \in Nat /\ evSeq \in Nat
    /\ kept \subseteq Row /\ sent \subseteq Row
    /\ tx \in [Producers -> [xid : Nat, tbl : Tables \cup {NoTable}]]
    /\ sub \in [Consumers -> [last : Nat, next : Nat]]
    /\ position \in [Consumers -> Nat]
    /\ reader \in [Consumers -> [phase : {"idle", "planned", "fetched"},
                                 plan : SUBSET Tables, got : SUBSET Row]]
    /\ start \in [Consumers -> Snapshot] /\ acked \in [Consumers -> SUBSET Row]
    /\ attempts \in Nat /\ moves \in Nat

-----------------------------------------------------------------------------
(* create_queue stores its own id (1) as both switch steps and takes the   *)
(* first tick before that transaction has finished.                        *)
FirstSnapshot == [xmin |-> 1, xmax |-> 1, xip |-> {}]

Init ==
    /\ nextXid = 2 /\ running = {} /\ newestFinished = 1
    /\ curTable = 0 /\ step1 = 1 /\ step2 = 1 /\ rotating = 0 /\ attempts = 0
    /\ ticks = [t \in {1} |-> FirstSnapshot] /\ tickSeq = 1
    /\ kept = {} /\ sent = {} /\ evSeq = 0
    /\ tx = [p \in Producers |-> NoTx]
    /\ sub = [c \in Consumers |-> NoSub]
    /\ position = [c \in Consumers |-> 0]
    /\ reader = [c \in Consumers |-> NoReader]
    /\ start = [c \in Consumers |-> FirstSnapshot]
    /\ acked = [c \in Consumers |-> {}]
    /\ moves = 0

(* Transaction ids: one is assigned, a set of them finishes.               *)
Assign(x) ==
    /\ x = nextXid
    /\ nextXid' = nextXid + 1
    /\ running' = running \cup {x}
    /\ UNCHANGED newestFinished

Finish(x) ==
    /\ running' = running \ {x}
    /\ newestFinished' = IF x > newestFinished THEN x ELSE newestFinished
    /\ UNCHANGED nextXid

\* A transaction that takes an id and finishes in one step of the model.
AssignAndFinish(x) ==
    /\ x = nextXid
    /\ nextXid' = nextXid + 1
    /\ newestFinished' = x
    /\ UNCHANGED running

-----------------------------------------------------------------------------
(* Producers: insert_event_raw first selects queue_cur_table, then inserts *)
(* into the table it saw.  The transaction gets its id only at the insert  *)
(* (the default of ev_txid), unless it already has one.  A repeatable-read *)
(* transaction keeps seeing the queue row of its first statement.          *)

ReadQueue(p) ==
    /\ tx[p].tbl = NoTable
    /\ evSeq < MaxEvents
    /\ tx' = [tx EXCEPT ![p].tbl = curTable]
    /\ UNCHANGED <<xidVars, queueVars, rowVars, tickVars, subVars>>

\* The rotation the producer has not seen is at most half done.
TableIsFresh(t) ==
    \/ "stale_table" \in Gaps
    \/ t = curTable
    \/ step2 = 0 /\ t = PrevTable

InsertEvent(p) ==
    /\ tx[p].tbl # NoTable
    /\ evSeq < MaxEvents
    /\ LET x == IF tx[p].xid = 0 THEN nextXid ELSE tx[p].xid
           e == [id |-> evSeq + 1, xid |-> x, tbl |-> tx[p].tbl]
       IN  /\ IF tx[p].xid = 0
              THEN TableIsFresh(tx[p].tbl) /\ Assign(x)
              ELSE UNCHANGED xidVars
           /\ kept' = kept \cup {e}
           /\ sent' = sent \cup {e}
           /\ evSeq' = evSeq + 1
           /\ tx' = [tx EXCEPT ![p] =
                        [xid |-> x,
                         tbl |-> IF p \in RepeatableRead THEN @.tbl ELSE NoTable]]
    /\ UNCHANGED <<queueVars, tickVars, subVars>>

Commit(p) ==
    /\ tx[p].xid # 0
    /\ tx[p].tbl = NoTable \/ p \in RepeatableRead
    /\ Finish(tx[p].xid)
    /\ tx' = [tx EXCEPT ![p] = NoTx]
    /\ UNCHANGED <<queueVars, rowVars, tickVars, subVars>>

\* The rows of an aborted transaction are never visible again.
Abort(p) ==
    /\ tx[p] # NoTx
    /\ IF tx[p].xid = 0 THEN UNCHANGED xidVars ELSE Finish(tx[p].xid)
    /\ kept' = {e \in kept : e.xid # tx[p].xid}
    /\ sent' = {e \in sent : e.xid # tx[p].xid}
    /\ tx' = [tx EXCEPT ![p] = NoTx]
    /\ UNCHANGED <<queueVars, tickVars, subVars, evSeq>>

-----------------------------------------------------------------------------
(* The ticker: the snapshot and the tick row come from one INSERT.  Its    *)
(* foreign key waits for the queue row that rotation step 1 has locked.    *)
(* There is one ticker, as the scheduler runs it.                          *)

NewestTick(t) == t \in DOMAIN ticks /\ \A u \in DOMAIN ticks : u <= t

\* Some query or rotation would see the difference.
WorthATick(s) ==
    \/ DOMAIN ticks = {}
    \/ \E t \in DOMAIN ticks :
          /\ NewestTick(t)
          /\ \/ \E e \in sent : Between(e.xid, ticks[t], s)
             \/ ticks[t].xmin <= step2 /\ s.xmin > step2

Tick ==
    /\ rotating = 0
    /\ LET s == CurrentSnapshot(running, newestFinished)
       IN  /\ tickSeq < MaxTicks \/ WorthATick(s)
           /\ ticks' = [t \in DOMAIN ticks \cup {tickSeq + 1} |->
                           IF t = tickSeq + 1 THEN s ELSE ticks[t]]
    /\ tickSeq' = tickSeq + 1
    /\ AssignAndFinish(nextXid)
    /\ UNCHANGED <<queueVars, rowVars, tx, subVars>>

-----------------------------------------------------------------------------
(* Rotation step 1 locks the queue row, looks at the slowest subscription  *)
(* and then truncates the next table, makes it current and deletes the     *)
(* ticks older than the previous rotation.  Step 2 is a transaction of its *)
(* own; its id marks where every later transaction uses the new table.     *)

\* mutant: looks at the fastest subscription
FastestIsPast(limit) ==
    \E c \in Consumers :
        /\ Registered(c)
        /\ \A d \in Consumers : Registered(d) => sub[c].last >= sub[d].last
        /\ sub[c].last \in DOMAIN ticks
        /\ LastTick(c).xmin > limit

\* mutant: compares the tick's xmax instead of its xmin
SlowestIsPastByXmax(limit) ==
    \E c \in Consumers :
        /\ Registered(c)
        /\ \A d \in Consumers : Registered(d) => sub[c].last <= sub[d].last
        /\ sub[c].last \in DOMAIN ticks
        /\ LastTick(c).xmax > limit

\* mutant: looks at the oldest tick instead of the slowest subscription's
OldestTickIsPast(limit) == \A t \in DOMAIN ticks : ticks[t].xmin > limit

\* The slowest subscription no longer needs the previous table.
SlowestIsPast(limit) ==
    \E c \in Consumers :
        /\ Registered(c)
        /\ \A d \in Consumers : Registered(d) => sub[c].last <= sub[d].last
        /\ sub[c].last \in DOMAIN ticks
        /\ LastTick(c).xmin > limit

NobodyRegistered == \A c \in Consumers : ~Registered(c)

\* What the code does not check when nobody is registered.
WatchedRotation ==
    \/ "unwatched_rotation" \in Gaps
    \/ \A x \in running : x > step2

RotateStep1Start ==
    /\ rotating = 0 /\ step2 # 0
    /\ attempts < MaxRotations
    /\ \/ NobodyRegistered /\ WatchedRotation
       \/ SlowestIsPast(step2)
    /\ Assign(nextXid)
    /\ rotating' = nextXid
    /\ attempts' = attempts + 1
    /\ UNCHANGED <<curTable, step1, step2, rowVars, tickVars, tx, subVars>>

\* TRUNCATE needs a lock that every transaction with rows in the table holds.
NextTableLocked == \E e \in kept : e.tbl = NextTable /\ e.xid \in running

\* mutant: a tick survives by its xmax
TickSurvivesByXmax(t) == ticks[t].xmax >= step2

TickSurvives(t) == ticks[t].xmin >= step2

RotateStep1Commit ==
    /\ rotating # 0
    /\ ~NextTableLocked
    /\ kept' = {e \in kept : e.tbl # NextTable}
    /\ curTable' = NextTable
    /\ step1' = rotating
    /\ step2' = 0
    /\ ticks' = [t \in {u \in DOMAIN ticks : TickSurvives(u)} |-> ticks[t]]
    /\ rotating' = 0
    /\ Finish(rotating)
    /\ UNCHANGED <<attempts, sent, evSeq, tickSeq, tx, subVars>>

\* lock ... nowait failed: step 1 returns without rotating.  The lock may be a
\* producer's, or a reader's or pg_dump's, which are not modelled.
RotateStep1Skip ==
    /\ rotating # 0
    /\ rotating' = 0
    /\ Finish(rotating)
    /\ UNCHANGED <<curTable, step1, step2, attempts, rowVars, tickVars, tx, subVars>>

RotateStep2 ==
    /\ step2 = 0
    /\ step2' = nextXid
    /\ AssignAndFinish(nextXid)
    /\ UNCHANGED <<curTable, step1, rotating, attempts, rowVars, tickVars, tx, subVars>>

-----------------------------------------------------------------------------
(* Registration reads a tick, then writes the subscription row: a new one  *)
(* (its foreign key waits for a running step 1) or a moved one.            *)

RegisterRead(c) ==
    /\ position[c] = 0
    /\ ~Registered(c)
    /\ moves < MaxMoves
    /\ \E t \in DOMAIN ticks :
          NewestTick(t) /\ position' = [position EXCEPT ![c] = t]
    /\ moves' = moves + 1
    /\ UNCHANGED <<xidVars, queueVars, rowVars, tickVars, tx, sub, reader, start, acked>>

\* register_consumer_at with a tick position, also for a registered consumer.
RegisterAtRead(c) ==
    /\ position[c] = 0
    /\ moves < MaxMoves
    /\ \E t \in DOMAIN ticks : position' = [position EXCEPT ![c] = t]
    /\ moves' = moves + 1
    /\ UNCHANGED <<xidVars, queueVars, rowVars, tickVars, tx, sub, reader, start, acked>>

PositionStays(t) ==
    \/ "late_registration" \in Gaps
    \/ t \in DOMAIN ticks /\ (rotating # 0 => TickSurvives(t))

RegisterWrite(c) ==
    /\ position[c] # 0
    /\ Registered(c) \/ rotating = 0
    /\ PositionStays(position[c])
    /\ sub' = [sub EXCEPT ![c] = [last |-> position[c], next |-> 0]]
    /\ start' = [start EXCEPT ![c] = IF position[c] \in DOMAIN ticks
                                     THEN ticks[position[c]] ELSE @]
    /\ acked' = [acked EXCEPT ![c] = {}]
    /\ reader' = [reader EXCEPT ![c] = NoReader]
    /\ position' = [position EXCEPT ![c] = 0]
    /\ UNCHANGED <<xidVars, queueVars, rowVars, tickVars, tx, moves>>

\* An abandoned registration (the call fails or its session ends).
RegisterAbort(c) ==
    /\ position[c] # 0
    /\ position' = [position EXCEPT ![c] = 0]
    /\ UNCHANGED <<xidVars, queueVars, rowVars, tickVars, tx,
                   sub, reader, start, acked, moves>>

\* The consumer row is locked by a registration in progress.
Unregister(c) ==
    /\ Registered(c) /\ position[c] = 0
    /\ sub' = [sub EXCEPT ![c] = NoSub]
    /\ acked' = [acked EXCEPT ![c] = {}]
    /\ reader' = [reader EXCEPT ![c] = NoReader]
    /\ UNCHANGED <<xidVars, queueVars, rowVars, tickVars, tx, position, start, moves>>

-----------------------------------------------------------------------------
(* Consumers: open a batch, build its query, run it, finish the batch.     *)

\* mutant: opens a batch over an open one
OpenBatchAgain(c, n) ==
    /\ Registered(c)
    /\ sub[c].last \in DOMAIN ticks
    /\ n \in DOMAIN ticks /\ n > sub[c].last
    /\ sub' = [sub EXCEPT ![c].next = n]
    /\ UNCHANGED <<xidVars, queueVars, rowVars, tickVars, tx,
                   position, reader, start, acked, moves>>

OpenBatch(c, n) ==
    /\ Registered(c) /\ ~HasBatch(c)
    /\ sub[c].last \in DOMAIN ticks     \* else: PgQ corruption
    /\ n \in DOMAIN ticks /\ n > sub[c].last
    /\ sub' = [sub EXCEPT ![c].next = n]
    /\ UNCHANGED <<xidVars, queueVars, rowVars, tickVars, tx,
                   position, reader, start, acked, moves>>

NextBatch(c) ==
    \E n \in DOMAIN ticks :
        /\ \A t \in DOMAIN ticks : t > sub[c].last => n <= t
        /\ OpenBatch(c, n)

\* With min_count or min_interval find_tick_helper may pick a later tick.
NextBatchCustom(c) == \E n \in DOMAIN ticks : OpenBatch(c, n)

\* mutant: takes the last tick's xmax for its xmin
BatchEventTablesByXmax(c) ==
    IF CurTick(c).xmax < step1 THEN {PrevTable}
    ELSE IF step2 # 0 /\ LastTick(c).xmax > step2 THEN {curTable}
    ELSE {PrevTable, curTable}

\* mutant: takes the current table alone once step 2 is done
BatchEventTablesAfterStep2(c) ==
    IF CurTick(c).xmax < step1 THEN {PrevTable}
    ELSE IF step2 # 0 THEN {curTable}
    ELSE {PrevTable, curTable}

BatchEventTables(c) ==
    IF CurTick(c).xmax < step1 THEN {PrevTable}
    ELSE IF step2 # 0 /\ LastTick(c).xmin > step2 THEN {curTable}
    ELSE {PrevTable, curTable}

\* get_batch_events names the tables in its query text ...
PlanQuery(c) ==
    /\ HasBatch(c) /\ reader[c].phase = "idle"
    /\ {sub[c].last, sub[c].next} \subseteq DOMAIN ticks
    /\ reader' = [reader EXCEPT ![c] =
                     [phase |-> "planned", plan |-> BatchEventTables(c), got |-> {}]]
    /\ UNCHANGED <<xidVars, queueVars, rowVars, tickVars, tx,
                   sub, position, start, acked, moves>>

\* ... and then runs it: committed rows of these tables that the diff selects.
BatchRows(c, plan) ==
    {e \in kept : /\ e.tbl \in plan
                  /\ e.xid \notin running
                  /\ Selected(e.xid, LastTick(c), CurTick(c))}

RunQuery(c) ==
    /\ reader[c].phase = "planned"
    /\ {sub[c].last, sub[c].next} \subseteq DOMAIN ticks
    /\ reader' = [reader EXCEPT ![c] =
                     [phase |-> "fetched", plan |-> {},
                      got |-> BatchRows(c, reader[c].plan)]]
    /\ UNCHANGED <<xidVars, queueVars, rowVars, tickVars, tx,
                   sub, position, start, acked, moves>>

\* The consumer process dies; next_batch reissues the open batch.
ConsumerCrash(c) ==
    /\ reader[c].phase # "idle"
    /\ moves < MaxMoves
    /\ moves' = moves + 1
    /\ reader' = [reader EXCEPT ![c] = NoReader]
    /\ UNCHANGED <<xidVars, queueVars, rowVars, tickVars, tx,
                   sub, position, start, acked>>

FinishBatch(c) ==
    /\ reader[c].phase = "fetched"
    /\ sub' = [sub EXCEPT ![c] = [last |-> @.next, next |-> 0]]
    /\ acked' = [acked EXCEPT ![c] = @ \cup reader[c].got]
    /\ reader' = [reader EXCEPT ![c] = NoReader]
    /\ UNCHANGED <<xidVars, queueVars, rowVars, tickVars, tx, position, start, moves>>

-----------------------------------------------------------------------------
Produce(p) == ReadQueue(p) \/ InsertEvent(p) \/ Commit(p) \/ Abort(p)

Maintain == \/ Tick \/ RotateStep1Start \/ RotateStep1Commit
            \/ RotateStep1Skip \/ RotateStep2

Subscribe(c) == \/ RegisterRead(c) \/ RegisterAtRead(c) \/ RegisterWrite(c)
                \/ RegisterAbort(c) \/ Unregister(c)

Consume(c) == \/ NextBatch(c) \/ NextBatchCustom(c) \/ PlanQuery(c)
              \/ RunQuery(c) \/ ConsumerCrash(c) \/ FinishBatch(c)

Next == \/ \E p \in Producers : Produce(p)
        \/ Maintain
        \/ \E c \in Consumers : Subscribe(c) \/ Consume(c)

Spec == Init /\ [][Next]_vars

(* The scheduler keeps calling ticker and both rotation steps, every       *)
(* transaction ends, and a consumer that stays registered keeps polling.   *)
Fairness ==
    /\ WF_vars(Tick)
    /\ WF_vars(RotateStep1Start)
    /\ WF_vars(RotateStep1Commit \/ RotateStep1Skip)
    /\ WF_vars(RotateStep2)
    /\ \A p \in Producers : WF_vars(Commit(p) \/ Abort(p))
    /\ \A c \in Consumers : /\ WF_vars(NextBatch(c))
                            /\ WF_vars(PlanQuery(c))
                            /\ WF_vars(RunQuery(c))
                            /\ WF_vars(FinishBatch(c))

FairSpec == Spec /\ Fairness

-----------------------------------------------------------------------------
(* Safety.                                                                 *)

\* Rotation never deletes a tick that a subscription stands on or is about to
\* reach: next_batch never meets "PgQ corruption".
SubscribedTickExists ==
    \A c \in Consumers :
        /\ Registered(c) => sub[c].last \in DOMAIN ticks
        /\ HasBatch(c) => sub[c].next \in DOMAIN ticks

\* From any tick still recorded a consumer can go on without losing a row: what
\* the tick has not seen is still stored, in the current or the previous table.
\* (The promise of the comment in maint_rotate_tables_step1 about moving a
\* consumer back.)
RetainedTicksComplete ==
    \A t \in DOMAIN ticks : \A e \in sent :
        ~Visible(e.xid, ticks[t]) => e \in kept /\ e.tbl \in {PrevTable, curTable}

\* A batch query that has run returned exactly the rows whose transaction
\* committed between the two ticks, although rotation may have moved on between
\* naming the tables and reading them.
NothingMissed ==
    \A c \in Consumers :
        reader[c].phase = "fetched" =>
            reader[c].got = {e \in sent : Between(e.xid, LastTick(c), CurTick(c))}

\* The finished batches of a subscription together hold every row committed
\* between its start and its position, and the open batch repeats none of them.
ExactlyOnce ==
    \A c \in Consumers : Registered(c) =>
        /\ acked[c] = {e \in sent : Between(e.xid, start[c], LastTick(c))}
        /\ acked[c] \cap reader[c].got = {}

-----------------------------------------------------------------------------
(* Liveness.                                                               *)

Awaits(c, n) ==
    /\ Registered(c)
    /\ \E e \in sent \ acked[c] :
          e.id = n /\ e.xid \notin running /\ ~Visible(e.xid, start[c])

\* A committed event that a subscription is owed is delivered and acknowledged,
\* unless the consumer is unregistered or moved past it.
EventuallyDelivered ==
    \A c \in Consumers : \A n \in 1 .. MaxEvents :
        Awaits(c, n) ~> ~Awaits(c, n)

\* While consumers keep up, a finished rotation is followed by the next one.
RotationGoesOn ==
    step2 # 0 ~> (rotating # 0 \/ attempts = MaxRotations)
=============================================================================
