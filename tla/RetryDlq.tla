------------------------------- MODULE RetryDlq -------------------------------
(***************************************************************************)
(* Retries and dead letters of one queue: a nacked event goes to the retry *)
(* queue, maintenance moves it back into the log for its owner alone, and  *)
(* after max_retries it becomes a dead letter that can be replayed or      *)
(* purged.                                                                 *)
(*                                                                         *)
(* The log is what Delivery promises and EventLog provides: rows carry the *)
(* number of the commit that published them, a tick is a commit number,    *)
(* and a batch is what lies between two ticks.  Times are abstracted: any  *)
(* row of the retry queue may be due, any dead letter old enough to purge. *)
(***************************************************************************)
EXTENDS Integers, FiniteSets, Functions

CONSTANTS
    Consumers,
    Elsewhere,         \* consumers that are registered on another queue, too
    MaxRetries,        \* queue_max_retries
    MoveLimit,         \* rows that one maint_retry_events call moves, 10 in the code
    CopiesInOneBatch,  \* TRUE admits the nack of an event that its batch holds twice
    MaxEvents,         \* bound on event ids
    MaxCalls           \* bound on the calls that nothing obliges anyone to make

ASSUME ElsewhereAssumption == Elsewhere \subseteq Consumers
ASSUME RetriesAssumption == MaxRetries \in Nat
ASSUME LimitAssumption == MoveLimit \in Nat \ {0}
ASSUME CopiesAssumption == CopiesInOneBatch \in BOOLEAN
ASSUME BoundsAssumption == MaxEvents \in Nat /\ MaxCalls \in Nat

VARIABLES
    log,        \* rows in the data tables
    commits,    \* how many transactions have published rows
    ticks,      \* commit numbers at which ticks were taken
    evSeq,      \* queue_event_seq
    subSeq,     \* the serial of sub_id
    idsOf,      \* history: consumer -> the sub_ids it has had
    sub,        \* consumer -> its row of pgque.subscription
    retryQueue, \* pgque.retry_queue
    moving,     \* rows a running maint_retry_events has selected
    dead,       \* pgque.dead_letter
    nacking,    \* consumer -> a nack under way: the row it has read
    calls,      \* what MaxCalls counts
    nackers,    \* history: who nacked what at which retry count
    nackedNow,  \* history: consumer -> the events nacked in its open batch
    nacked      \* history: consumer -> events nacked and not settled since

logVars     == <<log, commits, evSeq>>
subIds      == <<subSeq, idsOf>>
subVars     == <<sub, subIds>>
historyVars == <<nackers, nackedNow, nacked>>
vars == <<logVars, ticks, subVars, retryQueue, moving, dead, nacking, calls, historyVars>>

Retry  == [owner : Nat \ {0}, ev : Nat, retry : Nat \ {0}]
Event  == [owner : Nat, ev : Nat, retry : Nat, at : Nat]
NoSub  == [id |-> 0, last |-> 0, next |-> 0]
NoNack == [owner |-> 0, ev |-> 0, retry |-> 0, twice |-> FALSE, last |-> 0, next |-> 0]

TypeOK ==
    /\ log \subseteq Event
    /\ commits \in Nat /\ evSeq \in Nat /\ subSeq \in Nat /\ calls \in Nat
    /\ ticks \subseteq 0 .. commits
    /\ idsOf \in [Consumers -> SUBSET Nat]
    /\ sub \in [Consumers -> [id : Nat, last : Nat, next : Nat]]
    /\ retryQueue \subseteq Retry /\ moving \subseteq Retry
    /\ dead \subseteq [consumer : Consumers, ev : Nat] /\ IsFiniteSet(dead)
    /\ nacking \in [Consumers -> [owner : Nat, ev : Nat, retry : Nat, twice : BOOLEAN,
                                  last : Nat, next : Nat]]
    /\ nackers \subseteq Nat \X Nat \X Nat
    /\ nackedNow \in [Consumers -> SUBSET Nat] /\ nacked \in [Consumers -> SUBSET Nat]

Init ==
    /\ log = {} /\ commits = 0 /\ evSeq = 0
    /\ ticks = {0}
    /\ sub = [c \in Consumers |-> NoSub]
    /\ subSeq = 0 /\ idsOf = [c \in Consumers |-> {}]
    /\ retryQueue = {} /\ moving = {} /\ dead = {}
    /\ nacking = [c \in Consumers |-> NoNack]
    /\ calls = 0
    /\ nackers = {}
    /\ nackedNow = [c \in Consumers |-> {}] /\ nacked = [c \in Consumers |-> {}]

Call == calls < MaxCalls /\ calls' = calls + 1

Registered(c) == sub[c].id # 0
HasBatch(c)   == sub[c].next # 0

-----------------------------------------------------------------------------
(* The log.                                                                *)

Send ==
    /\ evSeq < MaxEvents
    /\ evSeq' = evSeq + 1
    /\ commits' = commits + 1
    /\ log' = log \cup {[owner |-> 0, ev |-> evSeq + 1, retry |-> 0, at |-> commits + 1]}
    /\ UNCHANGED <<ticks, subVars, retryQueue, moving, dead, nacking, calls, historyVars>>

Tick ==
    /\ commits \notin ticks
    /\ ticks' = ticks \cup {commits}
    /\ UNCHANGED <<logVars, subVars, retryQueue, moving, dead, nacking, calls, historyVars>>

\* mutant: no filter on ev_owner
DeliverableToAll(r, c) == TRUE

\* mutant: ev_owner is null
DeliverableIfNew(r, c) == r.owner = 0

\* ev_owner is null or ev_owner = sub_id
Deliverable(r, c) == r.owner = 0 \/ r.owner = sub[c].id

\* The rows that c gets between its position and the tick t.
RowsUpTo(c, t) == {r \in log : Deliverable(r, c) /\ sub[c].last < r.at /\ r.at <= t}
Batch(c)       == RowsUpTo(c, sub[c].next)
EventsIn(rows) == {r.ev : r \in rows}

-----------------------------------------------------------------------------
(* Subscriptions.                                                          *)

Register(c) ==
    /\ Call
    /\ ~Registered(c)
    /\ \E t \in ticks :
          /\ \A u \in ticks : u <= t
          /\ sub' = [sub EXCEPT ![c] = [id |-> subSeq + 1, last |-> t, next |-> 0]]
    /\ subSeq' = subSeq + 1
    /\ idsOf' = [idsOf EXCEPT ![c] = @ \cup {subSeq + 1}]
    /\ UNCHANGED <<logVars, ticks, retryQueue, moving, dead, nacking, historyVars>>

\* register_consumer_at: events that are skipped by a move forward are given up.
MoveTo(c, t) ==
    /\ Call
    /\ Registered(c) /\ t \in ticks
    /\ sub' = [sub EXCEPT ![c].last = t, ![c].next = 0]
    /\ nacked' = [nacked EXCEPT ![c] = @ \ EventsIn(RowsUpTo(c, t))]
    /\ nackedNow' = [nackedNow EXCEPT ![c] = {}]
    /\ UNCHANGED <<logVars, ticks, subIds, retryQueue, moving, dead, nacking, nackers>>

\* Deletes the retries of the subscription; the dead letters go with the consumer,
\* whose row goes with its last subscription.
Unregister(c) ==
    /\ Call
    /\ Registered(c)
    /\ retryQueue' = {r \in retryQueue : r.owner # sub[c].id}
    /\ dead' = IF c \in Elsewhere THEN dead ELSE {d \in dead : d.consumer # c}
    /\ sub' = [sub EXCEPT ![c] = NoSub]
    /\ nacked' = [nacked EXCEPT ![c] = {}]
    /\ nackedNow' = [nackedNow EXCEPT ![c] = {}]
    /\ UNCHANGED <<logVars, ticks, subIds, moving, nacking, nackers>>

-----------------------------------------------------------------------------
(* Consumers.                                                              *)

\* receive: the batch up to the next tick; an empty one is finished at once.
Receive(c) ==
    \E t \in ticks :
        /\ Registered(c) /\ ~HasBatch(c)
        /\ t > sub[c].last
        /\ \A u \in ticks : u > sub[c].last => t <= u
        /\ sub' = IF RowsUpTo(c, t) = {} THEN [sub EXCEPT ![c].last = t]
                                         ELSE [sub EXCEPT ![c].next = t]
        /\ UNCHANGED <<logVars, ticks, subIds, retryQueue, moving, dead, nacking, calls,
                       historyVars>>

\* next_batch_custom: the batch may reach further.
NextBatchCustom(c, t) ==
    /\ Call
    /\ Registered(c) /\ ~HasBatch(c)
    /\ t \in ticks /\ t > sub[c].last
    /\ sub' = [sub EXCEPT ![c].next = t]
    /\ UNCHANGED <<logVars, ticks, subIds, retryQueue, moving, dead, nacking, historyVars>>

\* finish_batch: what was not nacked in the batch counts as handled.
FinishBatch(c) ==
    /\ Registered(c) /\ HasBatch(c)
    /\ sub' = [sub EXCEPT ![c].last = sub[c].next, ![c].next = 0]
    /\ nacked' = [nacked EXCEPT ![c] = @ \ (EventsIn(Batch(c)) \ nackedNow[c])]
    /\ nackedNow' = [nackedNow EXCEPT ![c] = {}]
    /\ UNCHANGED <<logVars, ticks, subIds, retryQueue, moving, dead, nacking, calls, nackers>>

(* nack reads the event from the batch in one statement and writes it to   *)
(* the retry queue or the dead letters later; no lock on the subscription  *)
(* keeps another session from finishing or removing it in between.  The    *)
(* rows of a batch do not change, so its reads are one, the last, and an   *)
(* earlier end of the batch is a NackFails.                                *)

Copies(c, ev) == {r \in Batch(c) : r.ev = ev}

NackRead(c, ev) ==
    /\ Call
    /\ Registered(c) /\ HasBatch(c) /\ nacking[c] = NoNack
    /\ CopiesInOneBatch \/ \A r, s \in Copies(c, ev) : r = s
    /\ \E r \in Copies(c, ev) :
          nacking' = [nacking EXCEPT ![c] =
                         [owner |-> sub[c].id, ev |-> ev, retry |-> r.retry,
                          twice |-> \E s \in Copies(c, ev) : s # r,
                          last |-> sub[c].last, next |-> sub[c].next]]
    /\ UNCHANGED <<logVars, ticks, subVars, retryQueue, moving, dead, historyVars>>

\* mutant: one retry too few
ExhaustedEarly(retry) == retry + 1 >= MaxRetries

Exhausted(retry) == retry >= MaxRetries

\* mutant: the count is not raised
RetryUncounted(n) == [owner |-> n.owner, ev |-> n.ev, retry |-> n.retry]

RetryRow(n) == [owner |-> n.owner, ev |-> n.ev, retry |-> n.retry + 1]

\* The key of the retry queue is (ev_owner, ev_id); event_retry takes a conflict
\* with it for "already in the queue", also when its own rows conflict.
RetryConflict(n) ==
    n.twice \/ \E r \in retryQueue : r.owner = n.owner /\ r.ev = n.ev

\* A nack that has returned 1.
Remember(c) ==
    LET n == nacking[c]
    IN  /\ nackers' = nackers \cup {<<n.owner, n.ev, n.retry>>}
        /\ nacked' = IF sub[c].id = n.owner THEN [nacked EXCEPT ![c] = @ \cup {n.ev}]
                                            ELSE nacked
        /\ nackedNow' = IF /\ sub[c].id = n.owner
                           /\ sub[c].last = n.last /\ sub[c].next = n.next
                        THEN [nackedNow EXCEPT ![c] = @ \cup {n.ev}]
                        ELSE nackedNow

NackToRetry(c) ==
    LET n == nacking[c]
    IN  /\ n.owner # 0
        /\ ~Exhausted(n.retry)
        /\ retryQueue' = IF RetryConflict(n) THEN retryQueue
                                             ELSE retryQueue \cup {RetryRow(n)}
        /\ Remember(c)
        /\ nacking' = [nacking EXCEPT ![c] = NoNack]
        /\ UNCHANGED <<logVars, ticks, subVars, moving, dead, calls>>

\* The foreign key refuses a dead letter of a consumer that is gone.
NackToDead(c) ==
    LET n == nacking[c]
    IN  /\ n.owner # 0
        /\ Exhausted(n.retry)
        /\ n.owner = sub[c].id \/ c \in Elsewhere
        /\ dead' = dead \cup {[consumer |-> c, ev |-> n.ev]}
        /\ Remember(c)
        /\ nacking' = [nacking EXCEPT ![c] = NoNack]
        /\ UNCHANGED <<logVars, ticks, subVars, retryQueue, moving, calls>>

\* The call fails: its consumer is gone or its session has ended.
NackFails(c) ==
    /\ nacking[c].owner # 0
    /\ IF nacking[c].owner = sub[c].id THEN Call ELSE UNCHANGED calls
    /\ nacking' = [nacking EXCEPT ![c] = NoNack]
    /\ UNCHANGED <<logVars, ticks, subVars, retryQueue, moving, dead, historyVars>>

\* batch_retry: every event of the batch that is not in the retry queue; it knows
\* no ceiling.  Copies of an event with different counts make it fail.
BatchRetry(c) ==
    LET rows == {r \in Batch(c) : \A q \in retryQueue :
                                      ~(q.owner = sub[c].id /\ q.ev = r.ev)}
    IN  /\ Call
        /\ Registered(c) /\ HasBatch(c)
        /\ \A r, s \in rows : r.ev = s.ev => r.retry = s.retry
        /\ retryQueue' = retryQueue \cup
              {[owner |-> sub[c].id, ev |-> r.ev, retry |-> r.retry + 1] : r \in rows}
        /\ nackers' = nackers \cup {<<sub[c].id, r.ev, r.retry>> : r \in rows}
        /\ nacked' = [nacked EXCEPT ![c] = @ \cup EventsIn(Batch(c))]
        /\ nackedNow' = [nackedNow EXCEPT ![c] = @ \cup EventsIn(Batch(c))]
        /\ UNCHANGED <<logVars, ticks, subVars, moving, dead, nacking>>

-----------------------------------------------------------------------------
(* maint_retry_events: one mover at a time selects due rows and then, for  *)
(* each, inserts the event into the log and deletes the row by its key.    *)

MaintSelect ==
    /\ moving = {}
    /\ \E rows \in SUBSET retryQueue :
          /\ rows # {} /\ Cardinality(rows) <= MoveLimit
          /\ moving' = rows
    /\ UNCHANGED <<logVars, ticks, subVars, retryQueue, dead, nacking, calls, historyVars>>

\* mutant: deletes by event id alone
MovedByEvent(r) == \E m \in moving : m.ev = r.ev

Moved(r) == \E m \in moving : m.owner = r.owner /\ m.ev = r.ev

\* A row that unregistering has deleted meanwhile is inserted all the same.
MaintCommit ==
    /\ moving # {}
    /\ commits' = commits + 1
    /\ log' = log \cup {[owner |-> m.owner, ev |-> m.ev, retry |-> m.retry,
                         at |-> commits + 1] : m \in moving}
    /\ retryQueue' = {r \in retryQueue : ~Moved(r)}
    /\ moving' = {}
    /\ UNCHANGED <<evSeq, ticks, subVars, dead, nacking, calls, historyVars>>

\* statement_timeout or a restart rolls the move back.
MaintAbort ==
    /\ Call
    /\ moving # {}
    /\ moving' = {}
    /\ UNCHANGED <<logVars, ticks, subVars, retryQueue, dead, nacking, historyVars>>

-----------------------------------------------------------------------------
(* Dead letters.  Row locks make a replay, a replay of all and a purge of  *)
(* one dead letter exclude each other.                                     *)

\* A dead letter that is replayed or purged is settled for its consumer.
Settle(gone) ==
    /\ nacked' = [c \in Consumers |->
                     nacked[c] \ {d.ev : d \in {e \in gone : e.consumer = c}}]
    /\ nackedNow' = [c \in Consumers |->
                     nackedNow[c] \ {d.ev : d \in {e \in gone : e.consumer = c}}]
    /\ UNCHANGED nackers

\* The events of a set of dead letters return to the queue under new ids, for
\* every consumer: dlq_replay takes one, dlq_replay_all those that are not locked
\* and do not fail.
Replay(gone) ==
    /\ gone # {}
    /\ evSeq + Cardinality(gone) <= MaxEvents
    /\ commits' = commits + 1
    /\ \E newId \in Injection(gone, evSeq + 1 .. evSeq + Cardinality(gone)) :
          log' = log \cup {[owner |-> 0, ev |-> newId[d], retry |-> 0,
                            at |-> commits + 1] : d \in gone}
    /\ evSeq' = evSeq + Cardinality(gone)
    /\ dead' = dead \ gone
    /\ Settle(gone)
    /\ UNCHANGED <<ticks, subVars, retryQueue, moving, nacking, calls>>

DlqReplay    == \E d \in dead : Replay({d})
DlqReplayAll == \E gone \in SUBSET dead : Replay(gone)

DlqPurge(gone) ==
    /\ Call
    /\ gone # {}
    /\ dead' = dead \ gone
    /\ Settle(gone)
    /\ UNCHANGED <<logVars, ticks, subVars, retryQueue, moving, nacking>>

-----------------------------------------------------------------------------
Nack(c) == \/ \E ev \in 1 .. evSeq : NackRead(c, ev)
           \/ NackToRetry(c) \/ NackToDead(c) \/ NackFails(c)

Consume(c) == \/ Receive(c) \/ FinishBatch(c) \/ BatchRetry(c) \/ Nack(c)
              \/ \E t \in ticks : NextBatchCustom(c, t)

Subscribe(c) == \/ Register(c) \/ Unregister(c)
                \/ \E t \in ticks : MoveTo(c, t)

Maintain == \/ Tick \/ MaintSelect \/ MaintCommit \/ MaintAbort
            \/ DlqReplay \/ DlqReplayAll
            \/ \E gone \in SUBSET dead : DlqPurge(gone)

Next == \/ Send \/ Maintain
        \/ \E c \in Consumers : Subscribe(c) \/ Consume(c)

Spec == Init /\ [][Next]_vars

(* The scheduler keeps calling the ticker and maint_retry_events, a        *)
(* statement that has begun ends, consumers keep polling and acknowledging.*)
Fairness ==
    /\ WF_vars(Tick) /\ WF_vars(MaintSelect) /\ WF_vars(MaintCommit)
    /\ \A c \in Consumers :
          /\ WF_vars(Receive(c))
          /\ WF_vars(FinishBatch(c))
          /\ WF_vars(NackToRetry(c) \/ NackToDead(c) \/ NackFails(c))

FairSpec == Spec /\ Fairness

-----------------------------------------------------------------------------
\* Where an event that c has nacked waits: in the retry queue, in the log after
\* the tick t, or among the dead letters.
Waits(c, ev, t) ==
    \/ \E r \in retryQueue : r.owner = sub[c].id /\ r.ev = ev
    \/ \E r \in log : r.owner = sub[c].id /\ r.ev = ev /\ r.at > t
    \/ [consumer |-> c, ev |-> ev] \in dead

\* An event whose nack has succeeded is delivered again or is a dead letter, until
\* a later batch with it is finished without a nack, its dead letter is replayed or
\* purged, or the consumer is moved past it.
NackedIsNotLost ==
    \A c \in Consumers : \A ev \in nacked[c] : Waits(c, ev, sub[c].last)

\* A retried row reaches a consumer only if its own subscription nacked the event
\* at the count before: never another consumer, never a later registration of the
\* same name.
RetriedForItsNacker ==
    \A c \in Consumers : HasBatch(c) =>
        \A r \in Batch(c) : r.retry > 0 => <<sub[c].id, r.ev, r.retry - 1>> \in nackers

\* A dead letter was nacked max_retries + 1 times, once at each retry count, by one
\* subscription of its consumer.
DeadAfterMaxRetries ==
    \A d \in dead : \E id \in idsOf[d.consumer] : \A k \in 0 .. MaxRetries :
        <<id, d.ev, k>> \in nackers

\* A nacked event does not wait for ever: it is handled or becomes a dead letter.
NackSettles ==
    \A c \in Consumers : \A ev \in 1 .. MaxEvents :
        ev \in nacked[c] ~> \/ ev \notin nacked[c]
                            \/ [consumer |-> c, ev |-> ev] \in dead
=============================================================================
