------------------------------ MODULE ClientLoop ------------------------------
(***************************************************************************)
(* The Python client's Consumer: processes that share one consumer name,   *)
(* each polling inside one transaction per batch, woken by NOTIFY, and     *)
(* reconnecting when its session fails.                                    *)
(*                                                                         *)
(* The database is what the loop sees of it.  Window k holds the messages  *)
(* between tick k-1 and tick k and the subscription is a cursor over the   *)
(* windows; next_batch locks its row to the end of the transaction.  A     *)
(* batch is named by its window: while the row is locked no other batch    *)
(* can be opened, so the id that the code compares names the same batch.   *)
(* What becomes of a nacked message afterwards is the subject of RetryDlq. *)
(***************************************************************************)
EXTENDS Integers, FiniteSets

CONSTANTS
    Workers,        \* processes that run Consumer.start() with the same name
    NoWorker,
    Msgs,
    Unhandled,      \* messages whose type has no handler and no "*" handler
    UnknownPolicy,  \* unknown_handler_policy
    MaxMessages,    \* max_messages
    MaxTicks,       \* bound on ticks
    MaxFaults       \* bound on what goes wrong

ASSUME NoWorkerAssumption == NoWorker \notin Workers
ASSUME UnhandledAssumption == Unhandled \subseteq Msgs
ASSUME PolicyAssumption == UnknownPolicy \in {"nack", "ack"}
ASSUME BoundsAssumption == MaxMessages \in Nat \ {0} /\ MaxTicks \in Nat /\ MaxFaults \in Nat

VARIABLES
    window,   \* the messages between two ticks; window[tick + 1] is still open
    tick,     \* the last tick
    cursor,   \* the subscription: position, and the window of the open batch or 0
    lock,     \* who holds the row lock of the subscription
    requeued, \* messages in the retry queue or the dead letters
    pc,       \* where each worker is
    running,  \* _running
    link,     \* the connection: none, up, or lost and not noticed
    notes,    \* is a NOTIFY waiting in the connection
    poll,     \* the call of _poll_once: its transaction and its variables
    faults,   \* what MaxFaults counts
    runs,     \* history: how often a handler was run for a message
    done,     \* history: messages handled, or let pass by policy, in an acked batch
    asked     \* history: stop() was called

database == <<window, tick, cursor, lock, requeued>>
worker   == <<pc, running, link, notes, poll>>
history  == <<runs, done, asked>>
vars == <<database, worker, faults, history>>

Labels == {"new", "connecting", "poll", "receive", "dispatch", "ack", "commit",
           "returned", "wait", "backoff", "stopped", "raised", "dead"}

\* A poll's result.  The code returns True for "acked" and False for the others;
\* it sees no difference between "drained" and "emptied", and "unacked" is its
\* nack_failed.
Results == {"none", "acked", "drained", "emptied", "unacked"}

Poll   == [txn : {"none", "open", "aborted"}, last : 0 .. MaxTicks, open : 0 .. MaxTicks,
           todo : SUBSET Msgs, fine : SUBSET Msgs, nacked : SUBSET Msgs, result : Results]
NoPoll == [txn |-> "none", last |-> 0, open |-> 0, todo |-> {}, fine |-> {}, nacked |-> {},
           result |-> "none"]

TypeOK ==
    /\ window \in [1 .. MaxTicks + 1 -> SUBSET Msgs]
    /\ tick \in 0 .. MaxTicks
    /\ cursor \in [last : 0 .. MaxTicks, open : 0 .. MaxTicks]
    /\ lock \in Workers \cup {NoWorker}
    /\ requeued \subseteq Msgs
    /\ pc \in [Workers -> Labels]
    /\ running \in [Workers -> BOOLEAN]
    /\ link \in [Workers -> {"none", "up", "lost"}]
    /\ notes \in [Workers -> BOOLEAN]
    /\ poll \in [Workers -> Poll]
    /\ faults \in Nat
    /\ runs \in [Msgs -> Nat]
    /\ done \subseteq Msgs
    /\ asked \in [Workers -> BOOLEAN]

Init ==
    /\ window = [k \in 1 .. MaxTicks + 1 |-> {}] /\ tick = 0
    /\ cursor = [last |-> 0, open |-> 0] /\ lock = NoWorker
    /\ requeued = {}
    /\ pc = [w \in Workers |-> "new"]
    /\ running = [w \in Workers |-> FALSE]
    /\ link = [w \in Workers |-> "none"]
    /\ notes = [w \in Workers |-> FALSE]
    /\ poll = [w \in Workers |-> NoPoll]
    /\ faults = 0
    /\ runs = [m \in Msgs |-> 0] /\ done = {} /\ asked = [w \in Workers |-> FALSE]

Fault  == faults < MaxFaults /\ faults' = faults + 1
Goto(w, label)    == pc' = [pc EXCEPT ![w] = label]
Step(w, from, to) == pc[w] = from /\ Goto(w, to)

-----------------------------------------------------------------------------
(* Producers and the ticker.                                               *)

Sent == UNION {window[k] : k \in 1 .. MaxTicks + 1}

\* send, or send_batch when more than one, and the commit of the caller.
Send(new) ==
    /\ tick < MaxTicks
    /\ new # {} /\ new \cap Sent = {}
    /\ window' = [window EXCEPT ![tick + 1] = @ \cup new]
    /\ UNCHANGED <<tick, cursor, lock, requeued, worker, faults, history>>

\* The ticker ticks an idle queue, too.  The commit of the tick notifies everyone who
\* listens.
Ticker ==
    /\ tick < MaxTicks
    /\ window[tick + 1] = {} => tick + 1 < MaxTicks
    /\ tick' = tick + 1
    /\ notes' = [w \in Workers |-> notes[w] \/ link[w] = "up"]
    /\ UNCHANGED <<window, cursor, lock, requeued, pc, running, link, poll, faults, history>>

-----------------------------------------------------------------------------
(* start(), stop() and the session.                                        *)

Start(w) ==
    /\ pc[w] \in {"new", "dead"} /\ Goto(w, "connecting")
    /\ running' = [running EXCEPT ![w] = TRUE]
    /\ UNCHANGED <<database, link, notes, poll, faults, history>>

\* stop() by another thread, or the signal handler.
Stop(w) ==
    /\ ~asked[w] /\ pc[w] \notin {"stopped", "raised", "dead"}
    /\ running' = [running EXCEPT ![w] = FALSE]
    /\ asked' = [asked EXCEPT ![w] = TRUE]
    /\ UNCHANGED <<database, pc, link, notes, poll, faults, runs, done>>

\* Connect and LISTEN, before the first poll.
Connect(w) ==
    /\ Step(w, "connecting", "poll") /\ running[w]
    /\ link' = [link EXCEPT ![w] = "up"]
    /\ UNCHANGED <<database, running, notes, poll, faults, history>>

\* The with block closes the connection; the server rolls back what is open.
Close(w) ==
    /\ link' = [link EXCEPT ![w] = "none"]
    /\ notes' = [notes EXCEPT ![w] = FALSE]
    /\ poll' = [poll EXCEPT ![w] = NoPoll]
    /\ lock' = IF lock = w THEN NoWorker ELSE lock

\* A database error reaches start().
Reconnect(w) ==
    /\ Goto(w, IF running[w] THEN "backoff" ELSE "stopped")
    /\ Close(w)
    /\ UNCHANGED <<window, tick, cursor, requeued, running, history>>

ConnectFails(w) ==
    /\ Fault
    /\ pc[w] = "connecting" /\ running[w]
    /\ Reconnect(w)

BackoffOver(w) ==
    /\ Step(w, "backoff", "connecting") /\ running[w]
    /\ UNCHANGED <<database, running, link, notes, poll, faults, history>>

\* mutant: the wait for NOTIFY does not look at _running
SeesStopAwake(w) ==
    /\ pc[w] \in {"connecting", "poll", "returned", "backoff"} /\ ~running[w]
    /\ Goto(w, "stopped")
    /\ Close(w)
    /\ UNCHANGED <<window, tick, cursor, requeued, running, faults, history>>

\* Every wait and every turn of the loops checks _running.
SeesStop(w) ==
    /\ pc[w] \in {"connecting", "poll", "returned", "wait", "backoff"} /\ ~running[w]
    /\ Goto(w, "stopped")
    /\ Close(w)
    /\ UNCHANGED <<window, tick, cursor, requeued, running, faults, history>>

-----------------------------------------------------------------------------
(* One poll: receive.                                                      *)

NextPoll(w) ==
    /\ Step(w, "poll", "receive") /\ running[w]
    /\ UNCHANGED <<database, running, link, notes, poll, faults, history>>

\* mutant: a row lock that next_batch does not take
Unlocked == TRUE

LockIsFree == lock = NoWorker

\* pgque.receive() has the row lock, and no error.
Received(w, p) ==
    /\ LockIsFree /\ link[w] = "up"
    /\ lock' = w
    /\ poll' = [poll EXCEPT ![w] = p]
    /\ UNCHANGED <<window, tick, cursor, requeued, running, link, notes, faults, history>>

\* The window of the open batch, or else the next one.
NextWindow == IF cursor.open # 0 THEN cursor.open ELSE cursor.last + 1

\* next_batch finds no tick.
ReceiveNothing(w) ==
    /\ NextWindow > tick
    /\ Step(w, "receive", "commit")
    /\ Received(w, [NoPoll EXCEPT !.txn = "open", !.last = cursor.last, !.result = "drained"])

\* receive() finishes an empty batch itself, and returns as little as for no batch.
ReceiveEmpty(w) ==
    /\ NextWindow <= tick /\ window[NextWindow] = {}
    /\ Step(w, "receive", "commit")
    /\ Received(w, [NoPoll EXCEPT !.txn = "open", !.last = NextWindow, !.result = "emptied"])

ReceiveBatch(w) ==
    /\ NextWindow <= tick /\ window[NextWindow] # {}
    /\ Cardinality(window[NextWindow]) <= MaxMessages
    /\ Step(w, "receive", "dispatch")
    /\ Received(w, [NoPoll EXCEPT !.txn = "open", !.last = cursor.last, !.open = NextWindow,
                                  !.todo = window[NextWindow]])

Overflows(k) == Cardinality(window[k]) > MaxMessages

\* _wrap_sql_error: the class of an error of the operation with the limit.  An error is
\* its sqlstate, the operation and the limit that its text names, if any, and what else
\* its text says is missing.
ErrorClass(e, operation, limit) ==
    CASE /\ e.sqlstate = "54000" /\ operation \in {"receive", "receive_coop"}
         /\ e.text = <<operation, limit>>     -> "PgqueReceiveOverflowError"
      [] e.missing = "queue"                  -> "PgqueQueueNotFound"
      [] e.missing = "consumer"               -> "PgqueConsumerNotFound"
      [] e.missing = "batch"                  -> "PgqueBatchNotFound"
      [] OTHER                                -> "PgqueError"

\* Errors of pgque.receive(): the overflow; a dropped queue, an unknown consumer, or a
\* limit that something else reports with the same sqlstate.
OverflowError == [sqlstate |-> "54000", text |-> <<"receive", MaxMessages>>, missing |-> "none"]
OtherErrors ==
    {[sqlstate |-> "P0001", text |-> <<>>, missing |-> "queue"],
     [sqlstate |-> "P0001", text |-> <<>>, missing |-> "consumer"],
     [sqlstate |-> "54000", text |-> <<>>, missing |-> "none"]}

\* The overflow leaves start(), every other error leads to a new session.
ReceiveRaises(w, e) ==
    IF ErrorClass(e, "receive", MaxMessages) = "PgqueReceiveOverflowError"
    THEN /\ Goto(w, "raised")
         /\ running' = [running EXCEPT ![w] = FALSE]
         /\ Close(w)
         /\ UNCHANGED <<window, tick, cursor, requeued, history>>
    ELSE Reconnect(w)

ReceiveOverflow(w) ==
    /\ pc[w] = "receive" /\ LockIsFree /\ link[w] = "up"
    /\ NextWindow <= tick /\ Overflows(NextWindow)
    /\ ReceiveRaises(w, OverflowError)
    /\ UNCHANGED faults

ReceiveFails(w) ==
    /\ Fault
    /\ pc[w] = "receive" /\ link[w] = "up"
    /\ \E e \in OtherErrors : ReceiveRaises(w, e)

-----------------------------------------------------------------------------
(* One poll: dispatch, nack and ack.  The order of the messages is left    *)
(* open.                                                                   *)

SetPoll(w, p) ==
    /\ poll' = [poll EXCEPT ![w] = p]
    /\ UNCHANGED <<database, running, link, notes>>

Works(w)       == poll[w].txn = "open" /\ link[w] = "up"
Without(p, m)  == [p EXCEPT !.todo = @ \ {m}]
Runs(m)        == runs' = [runs EXCEPT ![m] = @ + 1] /\ UNCHANGED <<done, asked>>

\* nack writes the row in the transaction of the poll.
Nacked(w, m) ==
    /\ Works(w)
    /\ SetPoll(w, [Without(poll[w], m) EXCEPT !.nacked = @ \cup {m}])
    /\ UNCHANGED faults

\* mutant: a failed nack is logged and forgotten
NackSwallowed(w, m) ==
    \/ ~Works(w) /\ SetPoll(w, Without(poll[w], m)) /\ UNCHANGED faults
    \/ Fault /\ Works(w) /\ SetPoll(w, Without(poll[w], m))

\* nack raises: on a dead connection or an aborted transaction, before it reaches the
\* server, or as an SQL error that aborts the transaction.  The batch goes on.
NackRaises(w, m) ==
    LET unacked == [Without(poll[w], m) EXCEPT !.result = "unacked"]
    IN  \/ ~Works(w) /\ SetPoll(w, unacked) /\ UNCHANGED faults
        \/ Fault /\ Works(w) /\ SetPoll(w, unacked)
        \/ Fault /\ Works(w) /\ SetPoll(w, [unacked EXCEPT !.txn = "aborted"])

HandlerReturns(w, m) ==
    /\ Step(w, "dispatch", "dispatch")
    /\ m \in poll[w].todo \ Unhandled
    /\ SetPoll(w, [Without(poll[w], m) EXCEPT !.fine = @ \cup {m}])
    /\ Runs(m)
    /\ UNCHANGED faults

HandlerRaises(w, m) ==
    /\ Step(w, "dispatch", "dispatch")
    /\ m \in poll[w].todo \ Unhandled
    /\ Nacked(w, m) \/ NackRaises(w, m)
    /\ Runs(m)

NoHandler(w, m) ==
    /\ Step(w, "dispatch", "dispatch")
    /\ m \in poll[w].todo \cap Unhandled
    /\ IF UnknownPolicy = "ack"
       THEN /\ SetPoll(w, [Without(poll[w], m) EXCEPT !.fine = @ \cup {m}])
            /\ UNCHANGED faults
       ELSE Nacked(w, m) \/ NackRaises(w, m)
    /\ UNCHANGED history

\* mutant: nack_failed read the wrong way
DispatchedInverted(w) ==
    /\ poll[w].todo = {}
    /\ Step(w, "dispatch", IF poll[w].result = "unacked" THEN "ack" ELSE "commit")
    /\ UNCHANGED <<database, running, link, notes, poll, faults, history>>

\* After the last message: the ack, unless a nack failed.
Dispatched(w) ==
    /\ poll[w].todo = {}
    /\ Step(w, "dispatch", IF poll[w].result = "unacked" THEN "commit" ELSE "ack")
    /\ UNCHANGED <<database, running, link, notes, poll, faults, history>>

\* mutant: the cursor goes one tick too far
AckFar(w) ==
    /\ Step(w, "ack", "commit") /\ link[w] = "up"
    /\ SetPoll(w, [poll[w] EXCEPT !.last = poll[w].open + 1, !.open = 0, !.result = "acked"])
    /\ UNCHANGED <<faults, history>>

Ack(w) ==
    /\ Step(w, "ack", "commit") /\ link[w] = "up"
    /\ SetPoll(w, [poll[w] EXCEPT !.last = poll[w].open, !.open = 0, !.result = "acked"])
    /\ UNCHANGED <<faults, history>>

AckFails(w) ==
    /\ Fault
    /\ pc[w] = "ack" /\ link[w] = "up"
    /\ Reconnect(w)

-----------------------------------------------------------------------------
(* The end of the transaction block.                                       *)

\* A COMMIT of an aborted transaction rolls back.
CommitOnServer(w) ==
    /\ IF poll[w].txn = "open"
       THEN /\ cursor' = [last |-> poll[w].last, open |-> poll[w].open]
            /\ requeued' = requeued \cup poll[w].nacked
            /\ done' = IF poll[w].result = "acked" THEN done \cup poll[w].fine ELSE done
       ELSE UNCHANGED <<cursor, requeued, done>>
    /\ UNCHANGED <<window, tick, runs, asked>>

Commit(w) ==
    /\ Step(w, "commit", "returned") /\ link[w] = "up"
    /\ CommitOnServer(w)
    /\ lock' = NoWorker
    /\ poll' = [poll EXCEPT ![w].txn = "none"]
    /\ UNCHANGED <<running, link, notes, faults>>

\* The server commits, the answer is lost with the connection.
CommitAnswerLost(w) ==
    /\ Fault
    /\ pc[w] = "commit" /\ link[w] = "up"
    /\ CommitOnServer(w)
    /\ Goto(w, IF running[w] THEN "backoff" ELSE "stopped")
    /\ Close(w)
    /\ UNCHANGED running

\* A non-empty batch was processed and acked: poll again.
PollAgain(w) ==
    /\ poll[w].result = "acked"
    /\ Step(w, "returned", "poll") /\ running[w]
    /\ UNCHANGED <<database, running, link, notes, poll, faults, history>>

\* mutant: only a NOTIFY that comes after the drain ends the wait
DrainOnly(w) ==
    /\ poll[w].result # "acked"
    /\ Step(w, "returned", "wait") /\ running[w] /\ link[w] = "up"
    /\ notes' = [notes EXCEPT ![w] = FALSE]
    /\ UNCHANGED <<database, running, link, poll, faults, history>>

\* Otherwise wait, unless a NOTIFY is already there.
EnterWait(w) ==
    /\ poll[w].result # "acked"
    /\ Step(w, "returned", IF notes[w] THEN "poll" ELSE "wait")
    /\ running[w] /\ link[w] = "up"
    /\ notes' = [notes EXCEPT ![w] = FALSE]
    /\ UNCHANGED <<database, running, link, poll, faults, history>>

Wake(w) ==
    /\ notes[w]
    /\ Step(w, "wait", "poll") /\ running[w] /\ link[w] = "up"
    /\ notes' = [notes EXCEPT ![w] = FALSE]
    /\ UNCHANGED <<database, running, link, poll, faults, history>>

PollInterval(w) ==
    /\ Step(w, "wait", "poll") /\ running[w]
    /\ UNCHANGED <<database, running, link, notes, poll, faults, history>>

-----------------------------------------------------------------------------
(* Faults of the connection and of the process.                            *)

\* The connection breaks; the server rolls back before the worker notices.
Disconnect(w) ==
    /\ Fault
    /\ link[w] = "up"
    /\ link' = [link EXCEPT ![w] = "lost"]
    /\ notes' = [notes EXCEPT ![w] = FALSE]
    /\ lock' = IF lock = w THEN NoWorker ELSE lock
    /\ UNCHANGED <<window, tick, cursor, requeued, pc, running, poll, history>>

\* The next call of the worker raises; a handler that runs is not interrupted.
NoticesLoss(w) ==
    /\ pc[w] \in {"receive", "ack", "commit", "returned", "wait"} /\ link[w] = "lost"
    /\ pc[w] = "returned" => running[w] /\ poll[w].result # "acked"
    /\ Reconnect(w)
    /\ UNCHANGED faults

\* The process is killed.
Crash(w) ==
    /\ Fault
    /\ pc[w] \notin {"new", "stopped", "raised", "dead"}
    /\ Goto(w, "dead")
    /\ Close(w)
    /\ running' = [running EXCEPT ![w] = FALSE]
    /\ asked' = [asked EXCEPT ![w] = FALSE]
    /\ UNCHANGED <<window, tick, cursor, requeued, runs, done>>

-----------------------------------------------------------------------------

Receive(w) ==
    ReceiveNothing(w) \/ ReceiveEmpty(w) \/ ReceiveBatch(w) \/ ReceiveOverflow(w)

Dispatch(w) ==
    \/ \E m \in Msgs : HandlerReturns(w, m) \/ HandlerRaises(w, m) \/ NoHandler(w, m)
    \/ Dispatched(w)

Proceed(w) ==
    \/ Connect(w) \/ BackoffOver(w) \/ SeesStop(w) \/ NextPoll(w)
    \/ Dispatch(w) \/ Ack(w) \/ Commit(w)
    \/ PollAgain(w) \/ EnterWait(w) \/ Wake(w) \/ PollInterval(w) \/ NoticesLoss(w)

Failure(w) ==
    \/ ConnectFails(w) \/ ReceiveFails(w) \/ AckFails(w) \/ CommitAnswerLost(w)
    \/ Disconnect(w) \/ Crash(w)

Next ==
    \/ \E new \in SUBSET Msgs : Send(new)
    \/ Ticker
    \/ \E w \in Workers : \/ Start(w) \/ Stop(w)
                          \/ Receive(w) \/ Proceed(w) \/ Failure(w)

Spec == Init /\ [][Next]_vars

\* The ticker is scheduled, a dead process is restarted, handlers return, and the row
\* lock is granted in turn.
Fairness ==
    /\ WF_vars(Ticker)
    /\ \A w \in Workers : WF_vars(Start(w)) /\ WF_vars(Proceed(w)) /\ SF_vars(Receive(w))

FairSpec == Spec /\ Fairness

=============================================================================
