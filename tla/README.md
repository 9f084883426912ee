# PgQue in TLA+

PgQue is a queue inside Postgres, derived from PgQ: a log of events in rotated
data tables, read in batches that are the difference of two snapshots. The
implementation is SQL and PL/pgSQL, with client libraries; line numbers below refer to
`src/devel/sql/pgque.sql` (a function defined twice counts at its last definition) or, where
named, to `client.py` and `consumer.py` in `src/clients/python/pgque/`.
This directory holds TLA+ models of its core, TLC configurations that check them,
and TLAPS proofs about them.

    tlc -workers 2 -config EventLogSafe.cfg EventLogMC      # one run
    tlapm EventLogProofs.tla                                # one proof module

`PROJECT.json` lists components, runs, mutants (a plausible bug for each property,
which the run must then find), the source lines of each definition, findings,
hazards and theorems. An operator commented "mutant" in a module is one of those
bugs; the specification itself never uses it.

## The system

| component | state | operations | interacts with |
|---|---|---|---|
| Event log | `queue` row (current table, `queue_switch_step1/2`), `queue_ntables` data tables, id sequence | `insert_event*` (2870), `maint_rotate_tables_step1` (871), `..._step2` (974) | every other part writes or reads rows through it |
| Ticks | `tick` (snapshot, event sequence, time) | `ticker` in three forms (655, 694, 798), `force_tick` (1274) | rotation deletes them; batches join them |
| Subscriptions | `subscription` (last tick, next tick, batch id, role), `consumer` | `register_consumer[_at]` (1753), `unregister_consumer` (5572) | rotation looks at the slowest one |
| Batches | the open batch of a subscription | `next_batch*` (1959, 5724), `get_batch_events` (2178), `finish_batch` (5951) | ticks and data tables |
| Snapshot diff | none | `batch_event_sql` (311), `batch_event_tables` (444) | ticks and data tables |
| Retry queue, dead letters | `retry_queue`, `dead_letter` | `event_retry`, `batch_retry`, `maint_retry_events` (826), `nack`, `event_dead`, `dlq_replay*`, `dlq_purge` | puts rows with `ev_owner` back into the log |
| Cooperative consumers | member rows under a main row | cooperative `next_batch`, `receive_coop`, takeover of dead members (6237 on) | share one cursor |
| Partition slots | slot leases with an epoch and a TTL | `claim_slot` (7473), renew, release, acknowledge | one subscription per slot |
| Idempotent send | `idem` claims with a TTL | `send_idem` (7870 on), reaping | `insert_event` |
| Scheduler | `config`, pg_cron jobs | `start` (4268), `stop`, `ticker_loop` (4168), `maint` (5261) | calls ticker, rotation, retry |
| Client API | none | `PgqueClient.send`, `receive`, `ack`, `nack`, `receive_coop` and their errors (`_wrap_sql_error`, client.py:45) | one SQL function each |
| Consumer loop | `_running`, the connection with its buffered NOTIFYs, one transaction per poll | `start`, `stop`, `_run_session`, `_poll_once`, `_wait_for_notify_or_stop` (consumer.py) | the client API; the row lock of its subscription; the NOTIFY of a tick |

What makes them hard, and what correct means:

* **Event log, ticks, batches.** Transactions commit out of id order, so a batch
  must pick up what was running at its first tick and nothing twice. Table names are read
  before they are used, by producers (queue row, then insert) and by
  consumers (query text, then its execution). Rotation is two transactions with
  producers, ticks and readers between and inside them. Correct: every row
  committed between two ticks is in that batch, once; no truncation and no tick
  deletion takes away what a subscription still needs; everything is eventually delivered.
* **Retry and dead letters.** A retried event returns as a new row under the old id
  for one owner; it may be retried again before it is moved, its owner may leave, a
  dead letter may be replayed and purged at once. Correct: a nacked event waits in the
  retry queue, the log or the dead letters until it is settled, and it returns to its own
  subscription only.
* **Cooperative consumers, slots, idempotency.** Timeouts race late answers. Correct: a batch,
  a slot, a key has one owner at a time, and a late answer of a former owner changes nothing.
* **Consumer loop.** A batch lives in one transaction with its nacks and its ack, and each of them, the
  COMMIT and the connection may fail; several processes may run under one name; a NOTIFY may come at any point
  of a poll. Correct: nothing is acknowledged that was neither handled nor requeued, a wait never sleeps on
  work, and the loop goes on after every error until it is stopped.
* **Scheduler.** Ticks thin out when a queue is idle and may be made by two sessions.
  Correct: a committed event is ticked within the configured lag; tick ids and snapshots agree in order.

## The modules

    Snapshots ── BatchQuery ── BatchQueryProofs (with SnapshotsProofs)
        │
    EventLog ── EventLogInv ── EventLogDelivery ── EventLogMC (TLC)
                    │               │  └ INSTANCE Delivery
              EventLogProofs ── EventLogDeliveryProofs

    RetryDlq ── RetryDlqInv ── RetryDlqMC (TLC)
                    └ RetryDlqProofs

    ClientLoop ── ClientLoopInv ── ClientLoopConsumer ── ClientLoopMC (TLC)
                                       │  └ INSTANCE OneConsumer
                                   ClientLoopProofs

    CoopConsumers ── CoopConsumersInv ── CoopConsumersGroup ── CoopConsumersMC (TLC)
                          │                 │  └ INSTANCE CoopGroup
                  CoopConsumersProofs ── CoopGroupProofs

**Snapshots** holds `pg_snapshot` values (xmin, xmax, in-progress ids) and the closed form
of what `batch_event_sql` selects: the ids in progress at the last tick and no longer
at the current one (`Stragglers`); those a chain of gaps of at most `Near` ids connects
to the range lower its start (`TxStart`), the others form the IN list (`InList`). `Near` is 100 in the code.

**BatchQuery** is the loop at 378–397 itself, one action per turn: `Widen` lowers the start
of the range, `List` appends to the IN list. Its initial states are all pairs of
snapshots where the second is no earlier than the first.

**EventLog** is one queue. A transaction of the code is one action where it reads and
writes under one lock, and is split where another session can come between:

| actions | code | why split there |
|---|---|---|
| `ReadQueue`, `InsertEvent`, `Commit`, `Abort` | `insert_event_raw` | the table is read in one statement; the transaction gets an id (`ev_txid`'s default) in the next |
| `Tick` | `ticker(queue)` | one INSERT takes the snapshot and stores it |
| `RotateStep1Start`, `RotateStep1Commit` / `RotateStep1Skip` | step 1 | the checks use the state before; the truncation and the tick deletion appear at commit |
| `RotateStep2` | step 2 | a transaction of its own |
| `RegisterRead` / `RegisterAtRead`, `RegisterWrite`, `RegisterAbort`, `Unregister` | `register_consumer[_at]`, `unregister_consumer` | the tick is looked up, then stored |
| `NextBatch`, `NextBatchCustom` | `next_batch`, `next_batch_custom` | under the row lock of the subscription |
| `PlanQuery`, `RunQuery` | `get_batch_events` | the query text names tables and is executed afterwards, with a later view of the data |
| `ConsumerCrash`, `FinishBatch` | end of a session, `finish_batch` | |

State: `ticks` is the `tick` table, `sub` the `subscription` table (0 for NULL), `kept` the
rows stored in the data tables with their table number, `curTable/step1/step2` the queue
row, `rotating` the id of the transaction inside step 1, `nextXid/running/newestFinished`
Postgres' transaction counters, `reader` a consumer's call of `get_batch_events`. `sent`, `start` and
`acked` are history: all rows not aborted, where a subscription began, what its finished batches contained.

Postgres is modelled where the algorithm leans on it: ids are given in order at the first write;
`pg_current_snapshot()` has xmax = newest finished id + 1 and lists the
running ids below it; a repeatable-read transaction keeps the queue row of its
first statement; a foreign-key check waits for a locked queue row (so a tick or a *new* subscription
waits for step 1, while moving an existing one does not); a producer's lock on the table it has
written makes `LOCK ... NOWAIT` fail. So may a lock of a reader or of pg_dump, which are not
modelled: step 1 may always skip (`RotateStep1Skip`). Step 1's early returns change nothing but a transaction
id and are stuttering steps. The event id, drawn by `nextval` in the producer's first
statement, is given at the insert: only its uniqueness is used.

Abstracted: times (a rotation period has always elapsed; a tick may come at any moment; `find_tick_helper` may choose
any later tick), event contents, batch ids (a stale acknowledgement finds no row and changes
nothing), `ev_owner` (null in this module). There is one ticker, as `start()` schedules it.

**Gaps.** Three schedules break the algorithm; the constant `Gaps` says which of them are
admitted. Each is excluded by one guard that the code does not have (`TableIsFresh`,
`PositionStays`, `WatchedRotation`), and for each a violation run shows that the guard is needed. Every
passing run and every theorem about safety (`TypeCorrect` apart) assumes `Gaps = {}`; this
is the precise form of "transactions are short compared with the rotation period".

**Delivery** is what the log promises, without tables, snapshots or rotation: committed rows grow, a *cut* is
the set of rows committed so far, a batch is what one cut adds to another, whole.
**EventLogDelivery** maps EventLog onto it: a tick is the set of rows its snapshot sees.

**EventLogInv** is the inductive invariant. **EventLogMC** declares model values for TLC.

**RetryDlq** is one queue's retries and dead letters, over the log that `Delivery` promises:
rows carry the number of the commit that published them, a tick is such a number, a
batch is what lies between two ticks and is either without owner or owned by the subscription. Rotation and snapshots do not
appear; EventLog is shown to provide this log.

| actions | code | why split there |
|---|---|---|
| `NackRead`; `NackToRetry`, `NackToDead`, `NackFails` | `nack` (`_nack_batch_event`, 5444), `event_retry`, `event_dead` | the event is read from the batch, then written, with no lock on the subscription: another session may finish or unregister in between |
| `BatchRetry` | `batch_retry` | |
| `MaintSelect`; `MaintCommit`, `MaintAbort` | `maint_retry_events` | the rows are selected first; nacks and unregistrations commit before the inserts and deletions do; a table lock admits one mover |
| `DlqReplay`, `DlqReplayAll`, `DlqPurge` | `dlq_replay`, `dlq_replay_all`, `dlq_purge` | row locks make them exclusive |
| `Register`, `MoveTo`, `Unregister`, `Receive`, `NextBatchCustom`, `FinishBatch`, `Send`, `Tick` | the functions of these names; `Receive` finishes an empty batch at once | |

`retryQueue` and `dead` are the tables, `moving` the rows a mover has selected, `nacking` what a
nack under way has read. `Elsewhere` are the consumers with another queue: their consumer row, and so
their dead letters, survive unregistration here. History: `nackers` (who nacked what at which count), `nacked`
(nacked and not settled since), `nackedNow` (nacked in the open batch), `idsOf` (sub_ids a consumer had). A nacked event is
settled when a later batch with it is finished without a nack, when its dead letter is replayed
or purged, and when its consumer is moved past it or unregistered.

Abstracted: times (any retry may be due, any dead letter old enough), `max_return`, event contents. `batch_retry`
is one step. Left out: slots, whose nack is fenced by a lease. Cooperative members are the subject of CoopConsumers,
where a window that was nacked or routed is simply requeued.

The constant `CopiesInOneBatch` is RetryDlq's gap: whether an event may be nacked in a batch that
holds it twice. Such a batch arises when a nack is repeated after the mover has
moved its first retry row, and when `next_batch_custom` after a move backwards spans the original and its retry.

**ClientLoop** is the Python `Consumer`: several processes with one consumer name, each with a connection, a buffer for
NOTIFYs and a poll under way. The database is reduced to what a poll sees: windows of messages between ticks, a cursor with
an open window, the row lock, and the set of requeued messages.

| actions | code (consumer.py) | why split there |
|---|---|---|
| `Start`, `Stop`, `SeesStop` | `start`, `stop`, each look at `_running` | another thread or a signal sets the flag at any point |
| `Connect`, `ConnectFails`, `BackoffOver` | `_run_session`, `_sleep_before_reconnect` | |
| `NextPoll`; `ReceiveNothing`, `ReceiveEmpty`, `ReceiveBatch`, `ReceiveOverflow`, `ReceiveFails` | `_poll_once` up to `receive` | waits for the row lock; others tick, stop and notify meanwhile |
| `HandlerReturns`, `HandlerRaises`, `NoHandler`; `Dispatched` | the loop over the messages | a handler takes time; each nack may fail by itself |
| `Ack`, `AckFails`, `Commit`, `CommitAnswerLost` | `ack` and the end of the transaction block | the connection may break before or after the server has committed |
| `PollAgain`, `EnterWait`, `Wake`, `PollInterval` | the loop of `_run_session`, `_wait_for_notify_or_stop` | a NOTIFY may come in between |
| `Disconnect`, `NoticesLoss`, `Crash` | the environment; the `except` of `start` | the server rolls back at once, the client notices at its next call |

`poll[w]` is the transaction with the local variables of `_poll_once`; nothing of it reaches `cursor` or `requeued` before
`CommitOnServer`. An SQL error of a nack aborts the transaction, a failure before the server is reached does not; both set
`nack_failed`. `ErrorClass` is `_wrap_sql_error`: it decides whether an error of `receive` ends the consumer (overflow) or
starts a new session. `done`, `runs` and `asked` are history: what was handled (or passed by policy) in a committed ack, how
often a handler ran, whether stop was called. Abstracted: durations (any wait may end by `poll_interval`), the order of a
batch's messages, handler tables (`Unhandled` is the set of messages nobody handles), what becomes of a requeued message
(RetryDlq). Assumed of psycopg is what the comment at consumer.py:255 says: a NOTIFY that arrives during another
statement stays buffered until `notifies()` is called.

**OneConsumer** is what the processes of one name promise together: one consumer that settles the published windows in order and whole.
`Settle` acknowledges the next window, each message of it handled or handed back, never both and never neither; `HandBack` is the
attempt whose nack failed: some messages go back, the window comes again. In **ClientLoopConsumer** a tick is a `Publish`, a `Commit`
(or a commit whose answer is lost) a `Settle`, a `HandBack` or a stutter, and everything else, on however many connections, a stutter.

**CoopConsumers** is one group: a main row with the cursor, a row per member with its batch, and processes whose transactions
stay open until they commit: each call under autocommit, or a whole poll in a `Consumer` with a subconsumer. `row` is
the committed table, `new` what open transactions have written, `lock` who holds each row.

| actions | code | why split there |
|---|---|---|
| `Register` | `register_subconsumer` (6051) | locks the main row, then the member's |
| `ReceiveAgain`, `TakeOver`, `ReceiveNext` | `receive_coop` (6658), `next_batch_custom` (6237) | one call each; the outcomes exclude each other |
| `PlainReceiveAgain`, `PlainReceiveNext` | `receive` on the main row (5724) | a plain consumer of the same name, before or beside the group |
| `Nack`, `Ack`, `AckTooLate`, `Touch` | `_nack_batch_event` (5444), `finish_batch` (5951), `touch_subconsumer` (6209) | found by batch id, whoever calls |
| `Commit`, `Rollback`, `Crash`, `Restart`, `GoesStale` | the caller, the session, the clock | `sub_active` older than `dead_interval` is a flag of the row |
| `Unregister` | `unregister_subconsumer` (6483), by another session | one transaction, the main row locked first |
| `Unsubscribe`; `Demote` | `unregister_consumer` on a member's row (5572) | it looks for siblings without the main row's lock, and waits for it afterwards |

A batch is one window between ticks and is settled as a whole; an overflow of `receive_coop` is a `Rollback`. Left out:
`min_lag` and custom tick windows (they only skip or lengthen windows), unregistration of the whole group, and the events inside a window.

**CoopGroup** is what a group promises, without row locks and without open transactions: windows are handed out in order,
a window is in one hand at a time under a token of its own, and it leaves the hand when its batch is acknowledged, when its
stale holder loses it to a member that delivers, or when its holder is removed and its events are requeued. `Deliver` is a whole transaction: the
member takes over windows of stale members, takes the next ones, and of all these acknowledges some and keeps at most one;
none is dropped unless it is empty. **CoopConsumersGroup** is the refinement mapping: the abstract group is the *committed* rows (`Hand`, `Stale`,
`row[Main].last`), so the `Commit` of a member is a `Deliver`, that of the main row a `DeliverPlainly`, `Unregister` (one transaction) a `Remove`,
and every statement inside a transaction, every rollback and every crash a stutter.

## The runs

| run | checks | instance | distinct states |
|---|---|---|---|
| `safe` | `TypeOK`, `RetainedTicksComplete`, `NothingMissed`, `IInv` | two producers, one repeatable-read; 2 events, 2 rotations, 1 registration or crash | 2.3 M |
| `moves_live` | `SubscribedTickExists`, `ExactlyOnce`, `ImplementsDelivery`, `EventuallyDelivered`, `RotationGoesOn` | two consumers, 1 event, 2 rotations, 2 registrations, moves or crashes, fair scheduler | 494 k |
| `batch_query` | `QueryIsTheDiff`, `LoopIsClosedForm` | every pair of snapshots over ids 0–7, `Near` = 2 | |
| `retry` | `TypeOK`, `NackedIsNotLost`, `RetriedForItsNacker`, `DeadAfterMaxRetries`, `NackSettles` | two consumers, one also registered elsewhere; 2 event ids, 1 retry, 4 calls, fair maintenance | 372 k |
| `loop_safe` | `TypeOK`, `NothingLost`, `RunsOncePerFault`, `NoLostWakeup`, `ImplementsOneConsumer` | two processes (symmetric), 2 messages, one without a handler, 2 ticks, 2 faults | 2.0 M |
| `loop_live` | `EverySentSettles`, `StopEndsIt` | two processes, 2 messages with `max_messages` 1, policy "ack", 1 tick, 1 fault, fair | 113 k |
| `coop` | `TypeOK`, `NoWindowLost`, `OneOwner`, `TokensAreFenced`, `MainHoldsNoBatch`, `AckedOnce`, `ImplementsGroup`, `WindowsSettle` | two members and a plain consumer of the main name; 2 windows, 1 fault, 1 removal, fair | 134 k |
| `stale_table`, `late_registration`, `unwatched_rotation`, `retry_copies`, `coop_role` | one finding each; a violation | | |

Bounds: `MaxEvents` rows, `MaxTicks` ticks that would change no query and no rotation (a
tick that does is always allowed, see `WorthATick`, so the bound never stops delivery), `MaxRotations` attempts
of step 1, `MaxMoves` registrations, moves and crashes together; `MaxId` ids in BatchQuery. Two
rotations of three tables make every table take each role once (current, previous, out of use) and delete the first
tick, and a transaction can stay open across both; two events suffice for one row on each side
of a tick or of a rotation. `Near` = 1 makes both arms of the query occur with the few ids of EventLog; 2 of 8
ids lets chains form, break and end one id too far. Behaviours end when the bounds are used
up, so deadlock is not checked.

In RetryDlq `MaxEvents` bounds event ids (a replay takes a new one) and `MaxCalls` what nothing obliges anyone to do: nacks,
registrations, moves, custom batches, purges, aborts. Ticks, batches, moved retries and
ends of calls are not bounded by it. With `MaxRetries` = 1 an event goes through the retry queue and becomes a
dead letter, which its replay sends again under the second id; four calls register two consumers and leave both to nack one event, or one of them to
nack to death, to be moved, or to leave and return. `MoveLimit` is 10 in the code; 2 is enough for two consumers' retries of one event to be moved in one call, or in two.

In ClientLoop `MaxTicks` bounds ticks (a tick on an empty window leaves room for one more, so sent messages always get
theirs) and `MaxFaults` everything that fails: two faults let a nack fail and then the COMMIT, or a process die while it holds the lock and
its successor lose its connection. In CoopConsumers `MaxFaults` bounds rollbacks, crashes and live members that
go stale, `MaxLeaves` removals; a dead member goes stale outside the bound. One fault and two
members make a takeover with a late acknowledgement; two windows let the former owner receive the next one.

**Fairness** (`FairSpec`) of EventLog is weak fairness of the ticker, of both rotation steps, of the end of
every producer's transaction, and of a consumer's calls. `start()` schedules the ticker every second (4268), `maint`, which
runs step 1, every 30 s (4287) and step 2 every 10 s in its own transaction (4297);
consumers poll. Nothing is assumed of registrations or of producers beginning work.
A started rotation commits or skips.

In RetryDlq: weak fairness of the ticker, of `maint_retry_events` (every 30 s, 4281) selecting and committing,
of receiving and finishing, and of the end of a nack that has begun. The timeout of 25 s may cut a move off, at most
`MaxCalls` times. `MaintSelect` may take any due rows, so that a given row is taken rests on the bounded number of
nacks: each retry is moved once, and no new ones come for ever. (The code's `order by ev_retry_after` gives more.)

In ClientLoop: the ticker runs, a dead process is started again (a supervisor's business, without which nothing is
promised), handlers return and every step of the loop is taken; `receive` is strongly fair, because the lock of the subscription's row comes and goes and Postgres
grants it in turn to those who wait. In CoopConsumers: a member whose process is up calls `receive_coop` with a `dead_interval`, settles what it
holds and commits, strongly fair where it waits for a row; a dead member goes stale as time passes. That a dead
process restarts, or that producers go on, is not assumed there: the others take over its window.

## The proofs

For every number of producers, consumers, tables (at least two), events and
transactions, and every `Near`:

* `BatchQueryIsTheDiff`: the closed form selects an id exactly when it finished
  between the two snapshots, in one arm of the UNION ALL. `QueryIsExact` and `LoopComputesClosedForm` show the same
  of the loop, so EventLog may use the closed form. The loop's invariant: ids above those still to
  do are either in the range, joined by a chain, or listed.
* `TypeCorrect`: types, all gaps admitted.
* `Invariance`: `Spec => []IInv`, if `Gaps = {}`; from it `TicksAreNotLost`,
  `RetainedTicksAreComplete`, `BatchesAreExact`, `DeliveredExactlyOnce`.
* `EventLogImplementsDelivery`: every step of EventLog is a step of Delivery or stutters.

The safety properties are not inductive alone. `IInv` adds:
`IdsOK` (what the counters and the switch ids say about which ids have finished), `TxOK` (a producer with an
id holds a table its rows may still go to), `RotationOK` (inside step 1 nothing running is older than the previous step 2,
and no subscription stands on a tick that will be deleted), `TicksOK` (tick ids and snapshots grow together, and
no tick sees a running id), `RowsOK` (a row younger than step 2 is in the current table; a row a running
transaction may still commit is in one of the two tables; a tick older than step 1 sees nothing
of the current table), `SubsOK` (a batch ends later than it starts; the tables named in a query still
hold its rows when it is run). The proof has one lemma per action and invariant part; the one at its
heart is that `SlowestIsPast` at the start of step 1 still protects every registered consumer at its commit.

* Of RetryDlq: `TypeCorrect`, `RetriedOnlyForItsNacker` and `DeadOnlyAfterMaxRetries` without condition,
  `NackedNeverLost` if not `CopiesInOneBatch`. The invariant (RetryDlqInv) adds to the properties that positions and rows lie
  within the commits and sub_ids are never shared (`SubsOK`), that every retried row, wherever it is, was nacked
  at the count before and no count was skipped (`RetriesOK`), and that what was nacked in the open batch waits
  *behind the end* of that batch (`Kept`): this is what finishing a batch needs, and it holds
  because the mover publishes behind every position (`KeptMaint`) and a nack finds its event in the retry queue or
  the dead letters afterwards (`KeptNack`, where the gap is).

* Of ClientLoop: `TypeCorrect`, `NeverLost`, `NeverAsleep`, `RunsBounded` and `BehavesAsOne`, for any number of processes, messages and faults and either policy. `IInv` adds what
  one transaction knows: who is between its receive and its commit on a live connection has the row lock, so that the
  cursor is still the one it read (`TransactionInv`); until a nack fails every message of its window waits, is fine or is nacked
  (`DispatchInv`), which becomes the window's account when the ack commits (`CommitInv`); and a drained poll without a NOTIFY in the buffer
  stands at the last tick (`DrainedInv`). The bound on handler runs needs a potential (`RunsInv`): the runs of a message that were, and one for each
  worker that still has it before it, are at most 1 + `faults`; and while nobody has settled it or holds it in a transaction
  in which nothing went wrong, they are at most `faults`, so that the run which a new receive makes certain is in reserve. A receive spends the reserve, which the row lock
  lets only one worker do; only a fault takes a clean batch from its holder. That windows share no message (`WindowsDisjoint`) keeps a settled message from coming back.
  For the refinement to OneConsumer `BatchInv` adds that the messages before the worker, the fine and the nacked ones are disjoint and all of the
  window in hand; with `CommitInv` they are then exactly the window when the ack commits.
* Of CoopConsumers: `TypeCorrect`, `NoneLost`, `Fenced` and `MainFree`, for any number of members. `IInv` speaks of the committed rows and of what open
  transactions have written together: a locked row belongs to an open transaction (`Unlocked`), batches and windows come and go
  together and only members and a normal main row have them (`Shapes`), the ids on a row or in its process's hands are nobody
  else's (`Fences`), and each window that a transaction has taken off a row or off the cursor is on another of its rows or
  settled by it (`Coverage`): this is what a commit needs, and a rollback leaves the committed rows as they were.
* Of CoopConsumers as a CoopGroup: `OwnedOnce`, `FinishedOnce` and `GroupImplemented`. The invariant `GInv` (CoopConsumersGroup) says what a transaction may
  rely on until it commits: a window is on two rows, one committed and one not, only while one transaction has locked both (`Owners`); ids are
  drawn under the lock of the main row, so they are committed in order (`Tokens`); what a takeover found on its victim's row stays true (`Victims`); a member
  leaves the main row's own batch alone (`MainOwn`); an acknowledged window is nowhere again (`Acked`); and `Dealt`: of the windows a transaction would take at its commit
  (`Reach`), each is empty, acknowledged by it or the one that it keeps. `Dealt` and `Nacked` are the guards of the abstract `Deliver`; the others are
  what makes them hold. The proof has one lemma per action and part of the invariant, and one per abstract action it maps to (`MemberCommitMaps` is the
  long one).

Assumed: the ASSUMEs of the modules (`NTables >= 2`, `Near \in Nat`,
`RepeatableRead \subseteq Producers`, names distinct, bounds natural), `Gaps = {}` and `~CopiesInOneBatch` where stated. Only
model-checked: the liveness properties `EventuallyDelivered`, `RotationGoesOn`, `NackSettles`, `EverySentSettles`, `StopEndsIt` and `WindowsSettle`
(fairness and ENABLED are outside the prover's reach). Every invariant of a passing run, and the three refinements, have a theorem.

## Findings

1. `stale_table`: a repeatable-read transaction that reads the queue row, and first writes after both rotation
   steps are done, inserts into the previous table with an id above `queue_switch_step2`. A batch whose first
   tick is past step 2 reads the current table only: the row is not delivered.
2. `late_registration`: `register_consumer_at` checks that a tick exists and stores it later;
   step 1 may delete the tick in between, and each later `next_batch` raises "PgQ corruption".
3. `unwatched_rotation`: with no subscription, step 1 skips the comparison with `queue_switch_step2`. After two
   rotations a row of a still open transaction is in neither table that a batch
   reads, and a consumer registered meanwhile misses it.

4. `retry_copies`: `event_retry` inserts one row per copy of the event in the batch and takes every
   unique violation for "already in queue". Two copies conflict with each other: nothing is queued,
   `nack` returns 1, and the acknowledgement of the batch loses the event.

5. `coop_role`: a member that leaves through `unregister_consumer` (`unsubscribe` with its full name `main.member`) looks for siblings
   before it has the main row's lock. A sibling that registers in between is then a member of a main row that becomes
   'normal' (5656–5668), and each `receive_coop` of it raises. Two members that leave at once see each other and leave
   a `coop_main` row without members. `unregister_subconsumer` locks the main row first and has no such race.

Met while modelling, without a run of their own:

* A window without events is finished inside `receive()`, which returns as little as for no batch; the loop then waits for
  NOTIFY or `poll_interval` although the windows behind it are there (consumer.py:321; the comment at 212 speaks
  of draining the backlog). ClientLoop has this (`emptied`); `NoLostWakeup` therefore speaks of polls that found no tick.
* `stop()` before `start()` has no effect: `start` sets `_running` (consumer.py:135).
* A `Consumer` with a subconsumer keeps the main row locked through all its handlers (6092, 6285), so members work one after
  another, and a hung one cannot be taken over before its session ends. `WindowsSettle` rests on handlers that return.
* `sub_active` is set to `now()`, the start of the transaction: a receive that waited long for a lock is already stale
  when it commits (`GoesStale`).
* After the last member has left, the main row is normal, and a cold `receive_coop` raises although reference.md:196 says a
  worker can call it cold; the Python client has no argument for the conversion (client.py:368).
* A `coop_main` row without members passes the check at 5842, and `receive` gets a batch id that the update at 5938 does not store;
  CoopConsumers lets that call fail.
* The comment on `maint()` at 5257 says it runs retries, the one at 4277 that it does not; `start()` follows the second.

## Not modelled

* **Ticker schedule**: lag, count and idle thresholds (777) and the external ticker (5166) decide on clock readings and event rates, which the
  models abstract to "a tick may come at any moment". Two tickers on one queue (788) would need the tick id and the snapshot
  drawn in two steps; `start()` schedules one.
* **Partition slots** (leases with epochs, 7473 on) and **idempotent send** (claims with a TTL, 7870 on) are algorithms of
  their own beside the log; their hazards are listed in `PROJECT.json` without a property.
* **RetryDlq over EventLog**: RetryDlq uses the log that Delivery promises, with owners; EventLog has no owners, so the composition is by
  the interface, not by a checked refinement.
* The Go, TypeScript and Ruby consumers; in Python the benchmark and the conversion of values.
* Scheduler lifecycle (a few pg_cron jobs), triggers (row formatting), grants, information functions, queue configuration, packaging and
  the experimental addons: they hold no concurrent state, or are not part of the default install.
