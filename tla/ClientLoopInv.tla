---------------------------- MODULE ClientLoopInv ----------------------------
(* Correctness properties of the Consumer loop. *)
EXTENDS ClientLoop

Ended(w) == pc[w] \in {"stopped", "raised", "dead"}

\* Once the cursor is past a window, each of its messages was handled, let pass by policy,
\* or sits in the retry queue or the dead letters: a failed nack, a crash, a broken
\* connection or a lost answer to COMMIT never loses one.
NothingLost == \A k \in 1 .. cursor.last : window[k] \subseteq done \cup requeued

\* Two processes with the same name never work on a batch at once: without a fault each
\* handler runs once per message, and each fault costs at most one more run.
RunsOncePerFault == \A m \in Msgs : runs[m] <= 1 + faults

\* A worker whose last poll found no tick, and that waits with no NOTIFY in its
\* connection, has nothing to wait for: no wakeup is lost between the poll and the wait.
NoLostWakeup ==
    \A w \in Workers :
        (pc[w] = "wait" /\ link[w] = "up" /\ ~notes[w] /\ poll[w].result = "drained")
            => NextWindow > tick

\* Every message that was sent is in an acked batch in the end, unless the workers have
\* all stopped or raised.
EverySentSettles ==
    \A m \in Msgs :
        m \in Sent ~> \/ \E k \in 1 .. cursor.last : m \in window[k]
                      \/ \A w \in Workers : pc[w] \in {"stopped", "raised"}

\* stop() ends a consumer that has started, wherever it is: in a handler, in the wait for
\* NOTIFY, in the backoff, or blocked on the lock of another process.
StopEndsIt ==
    \A w \in Workers : (pc[w] # "new" /\ ~running[w]) ~> (pc[w] # "new" /\ Ended(w))

(* The inductive invariant of the theorems.                                *)

CursorInv ==
    /\ cursor.last <= tick
    /\ cursor.open # 0 => cursor.open = cursor.last + 1 /\ cursor.open <= tick

InTransaction(w) == pc[w] \in {"dispatch", "ack", "commit"} /\ link[w] = "up"

\* Until a nack fails, every message of the batch waits for its handler or is accounted for.
DispatchInv(w) ==
    LET p == poll[w]
    IN  pc[w] \in {"dispatch", "ack"} =>
            /\ p.last = cursor.last /\ p.open = cursor.last + 1 /\ p.open <= tick
            /\ p.result \in {"none", "unacked"}
            /\ p.result = "none" =>
                  /\ p.txn = "open"
                  /\ window[p.open] \subseteq p.todo \cup p.fine \cup p.nacked
            /\ pc[w] = "ack" => p.todo = {} /\ p.result = "none"

CommitInv(w) ==
    LET p == poll[w]
    IN  pc[w] = "commit" =>
            /\ p.result # "none"
            /\ p.result = "acked" =>
                  /\ p.txn = "open"
                  /\ p.last = cursor.last + 1 /\ p.last <= tick /\ p.open = 0
                  /\ window[p.last] \subseteq p.fine \cup p.nacked
            /\ p.result = "emptied" =>
                  /\ p.last = cursor.last + 1 /\ p.last <= tick /\ p.open = 0
                  /\ window[p.last] = {}
            /\ p.result = "drained" => p.last = cursor.last /\ p.open = 0
            /\ p.result = "unacked" =>
                  p.last = cursor.last /\ p.open = cursor.last + 1 /\ p.open <= tick

TransactionInv(w) == InTransaction(w) => lock = w /\ DispatchInv(w) /\ CommitInv(w)

DrainedInv(w) ==
    (pc[w] \in {"commit", "returned", "wait"} /\ link[w] = "up" /\ ~notes[w]
        /\ poll[w].result = "drained") => cursor.last = tick

IInv ==
    /\ TypeOK /\ CursorInv /\ NothingLost
    /\ \A w \in Workers : TransactionInv(w) /\ DrainedInv(w)

(* What bounds the runs of a handler.                                      *)

WindowsDisjoint ==
    \A k, l \in 1 .. MaxTicks + 1 : k # l => window[k] \cap window[l] = {}

\* The workers that have the message before them.
Dispatching(m) == {w \in Workers : pc[w] = "dispatch" /\ m \in poll[w].todo \ Unhandled}

\* The message is in the batch of w, and nothing has gone wrong with that batch.
Holds(w, m) ==
    /\ InTransaction(w) /\ poll[w].txn = "open"
    /\ IF pc[w] = "commit"
       THEN poll[w].result = "acked" /\ m \in window[poll[w].last]
       ELSE poll[w].result = "none" /\ m \in window[poll[w].open]

Settled(m) == \E k \in 1 .. cursor.last : m \in window[k]
Held(m)    == \E w \in Workers : Holds(w, m)

\* The runs that were and the runs that are certain to come.  While the message can be
\* received once more, a run is in reserve.
RunsInv(m) ==
    LET runsToCome == runs[m] + Cardinality(Dispatching(m))
    IN  /\ IsFiniteSet(Dispatching(m))
        /\ runsToCome <= 1 + faults
        /\ ~Settled(m) /\ ~Held(m) => runsToCome <= faults

FInv == IInv /\ WindowsDisjoint /\ \A m \in Msgs : RunsInv(m)

=============================================================================
