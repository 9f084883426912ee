---------------------------- MODULE CoopConsumers ----------------------------
(***************************************************************************)
(* Cooperative consumers: members share the cursor of one main consumer    *)
(* row, and each member row holds the batch that was handed to it.  The    *)
(* calls of the Python client run in transactions that stay open until the *)
(* caller commits: one call under autocommit, everything from the receive  *)
(* to the ack in a Consumer with a subconsumer.                            *)
(*                                                                         *)
(* A batch is the window between two ticks and is settled as a whole.  A   *)
(* transaction keeps what it has written, and with it the row locks, until *)
(* it ends; a call waits until every row it locks is free.  Of time the    *)
(* model keeps whether a row's sub_active is older than dead_interval.     *)
(***************************************************************************)
EXTENDS Integers

CONSTANTS
    Members,      \* subconsumers, and the processes that run them
    Main,         \* the main row, and a process that uses its name as a plain consumer
    NoOne,
    MaxTicks,     \* bound on ticks
    MaxFaults,    \* bound on what goes wrong
    MaxLeaves     \* bound on members removed

ASSUME MainAssumption == Main \notin Members /\ NoOne \notin Members \cup {Main}
ASSUME BoundsAssumption == MaxTicks \in Nat /\ MaxFaults \in Nat /\ MaxLeaves \in Nat

Workers == Members \cup {Main}

VARIABLES
    tick,      \* the last tick
    empty,     \* the windows without an event
    row,       \* pgque.subscription, as committed
    new,       \* its rows, with what open transactions have written to them
    lock,      \* the transaction that has the row lock
    seq,       \* pgque.batch_id_seq
    txn,       \* the rest of each process's transaction
    held,      \* the batch each process has received and still works on
    alive,     \* is the process up
    demoting,  \* is it in unregister_consumer, about to demote the main row
    finished,  \* windows whose batch was finished
    requeued,  \* windows in the retry queue or the dead letters
    faults, leaves,
    origin     \* history: the tick at which the group was created

log       == <<tick, empty, finished, requeued>>
table     == <<row, new, lock>>
processes == <<held, alive, demoting>>
bounds    == <<faults, leaves, origin>>
vars      == <<log, table, seq, txn, processes, bounds>>

\* last is the cursor of the main row; window and batch are the open batch, 0 if none.
Row == [role : {"none", "normal", "coop_main", "coop_member"}, last : 0 .. MaxTicks,
        batch : Nat, window : 0 .. MaxTicks, stale : BOOLEAN]
Batch == [id : Nat, window : 0 .. MaxTicks]
Txn == [open : BOOLEAN, held : Batch,
        finished : SUBSET (1 .. MaxTicks), requeued : SUBSET (1 .. MaxTicks)]

NoRow   == [role |-> "none", last |-> 0, batch |-> 0, window |-> 0, stale |-> FALSE]
NoBatch == [id |-> 0, window |-> 0]
Closed  == [open |-> FALSE, held |-> NoBatch, finished |-> {}, requeued |-> {}]

TypeOK ==
    /\ tick \in 0 .. MaxTicks /\ empty \subseteq 1 .. MaxTicks
    /\ row \in [Workers -> Row] /\ new \in [Workers -> Row]
    /\ lock \in [Workers -> Workers \cup {NoOne}]
    /\ seq \in Nat \ {0}
    /\ txn \in [Workers -> Txn]
    /\ held \in [Workers -> Batch]
    /\ alive \in [Workers -> BOOLEAN] /\ demoting \in [Workers -> BOOLEAN]
    /\ finished \subseteq 1 .. MaxTicks /\ requeued \subseteq 1 .. MaxTicks
    /\ faults \in Nat /\ leaves \in Nat /\ origin \in 0 .. MaxTicks

Init ==
    /\ tick = 0 /\ empty = {} /\ finished = {} /\ requeued = {}
    /\ \E main \in {NoRow, [NoRow EXCEPT !.role = "normal"]} :
          row = [r \in Workers |-> IF r = Main THEN main ELSE NoRow]
    /\ new = row
    /\ lock = [r \in Workers |-> NoOne]
    /\ seq = 1
    /\ txn = [w \in Workers |-> Closed]
    /\ held = [w \in Workers |-> NoBatch]
    /\ alive = [w \in Workers |-> TRUE]
    /\ demoting = [w \in Workers |-> FALSE]
    /\ faults = 0 /\ leaves = 0 /\ origin = 0

Fault == faults < MaxFaults /\ faults' = faults + 1 /\ UNCHANGED <<leaves, origin>>
Leave == leaves < MaxLeaves /\ leaves' = leaves + 1 /\ UNCHANGED <<faults, origin>>

\* Producers send, and the ticker ticks; with nothing sent the window is empty.
Publish(nothing) ==
    /\ tick < MaxTicks
    /\ tick' = tick + 1
    /\ empty' = IF nothing THEN empty \cup {tick + 1} ELSE empty
    /\ UNCHANGED <<finished, requeued, table, seq, txn, processes, bounds>>

-----------------------------------------------------------------------------
(* Transactions.                                                           *)

Calls(w) == alive[w] /\ ~demoting[w]

\* The transaction that w's next statement runs in.
Current(w) == IF txn[w].open THEN txn[w] ELSE [Closed EXCEPT !.open = TRUE, !.held = held[w]]

\* w can lock row r; it then reads new[r].
Free(w, r) == lock[r] \in {w, NoOne}

\* What w reads without a lock: its own writes, and what others have committed.
Seen(w, r) == IF lock[r] = w THEN new[r] ELSE row[r]

\* w's transaction goes on as t, with locks on rows.
Runs(w, t, rows) ==
    /\ txn' = [txn EXCEPT ![w] = t]
    /\ lock' = [r \in Workers |-> IF r \in rows THEN w ELSE lock[r]]
    /\ UNCHANGED <<log, row, held, alive>>

\* w's transaction ends: after is what its rows are then.
Ends(w, after) ==
    /\ row' = [r \in Workers |-> IF lock[r] = w THEN after[r] ELSE row[r]]
    /\ new' = [r \in Workers |-> IF lock[r] = w THEN after[r] ELSE new[r]]
    /\ lock' = [r \in Workers |-> IF lock[r] = w THEN NoOne ELSE lock[r]]
    /\ txn' = [txn EXCEPT ![w] = Closed]
    /\ demoting' = [demoting EXCEPT ![w] = FALSE]
    /\ UNCHANGED <<tick, empty, seq>>

Commit(w) ==
    /\ Calls(w) /\ txn[w].open
    /\ Ends(w, new)
    /\ finished' = finished \cup txn[w].finished
    /\ requeued' = requeued \cup txn[w].requeued
    /\ held' = [held EXCEPT ![w] = txn[w].held]
    /\ UNCHANGED <<alive, bounds>>

\* A call raises, as receive_coop on a batch that exceeds max_messages, or the session fails.
Rollback(w) ==
    /\ Fault
    /\ alive[w] /\ txn[w].open
    /\ Ends(w, row)
    /\ UNCHANGED <<finished, requeued, held, alive>>

Crash(w) ==
    /\ Fault
    /\ alive[w]
    /\ Ends(w, row)
    /\ alive' = [alive EXCEPT ![w] = FALSE]
    /\ held' = [held EXCEPT ![w] = NoBatch]
    /\ UNCHANGED <<finished, requeued>>

Restart(w) ==
    /\ ~alive[w]
    /\ alive' = [alive EXCEPT ![w] = TRUE]
    /\ UNCHANGED <<log, table, seq, txn, held, demoting, bounds>>

-----------------------------------------------------------------------------
(* register_subconsumer and receive_coop.                                  *)

\* mutant: the conversion does not look at the open batch
MayRegisterActive(w, convert) ==
    /\ w \in Members /\ Calls(w) /\ Free(w, Main) /\ Free(w, w)
    /\ new[Main].role = "normal" => convert

\* A normal main row is converted only if the caller says so, and not while it has a batch.
MayRegister(w, convert) ==
    /\ w \in Members /\ Calls(w) /\ Free(w, Main) /\ Free(w, w)
    /\ new[Main].role = "normal" => convert /\ new[Main].batch = 0

\* A new main row starts at the last tick.
MainRow == IF new[Main].role = "none" THEN [NoRow EXCEPT !.role = "coop_main", !.last = tick]
                                      ELSE [new[Main] EXCEPT !.role = "coop_main"]

MemberRow(w) == [new[w] EXCEPT !.role = "coop_member", !.stale = FALSE]

Register(w, convert) ==
    /\ MayRegister(w, convert)
    /\ new[w].role = "none" \/ new[Main].role = "normal"
    /\ Runs(w, Current(w), {Main, w})
    /\ new' = [new EXCEPT ![Main] = MainRow, ![w] = MemberRow(w)]
    /\ origin' = IF new[Main].role = "none" THEN tick ELSE origin
    /\ UNCHANGED <<seq, demoting, faults, leaves>>

Holds(r, b) == [r EXCEPT !.batch = b.id, !.window = b.window]

\* mutant: the window stays on the row
ClearedToken(r) == [r EXCEPT !.batch = 0, !.stale = FALSE]

\* _clear_member_cursor
Cleared(r) == [r EXCEPT !.batch = 0, !.window = 0, !.stale = FALSE]

\* receive_coop registers first; a group that it creates has nothing to hand out yet.  It
\* is called with nothing in hand.
MayReceive(w) ==
    /\ MayRegister(w, FALSE) /\ new[Main].role # "none"
    /\ Current(w).held = NoBatch

\* The member has an active batch: it gets it again.
ReceiveAgain(w) ==
    /\ MayReceive(w) /\ new[w].batch # 0
    /\ Runs(w, [Current(w) EXCEPT !.held = [id |-> new[w].batch, window |-> new[w].window]],
            {Main, w})
    /\ new' = [new EXCEPT ![w] = MemberRow(w)]
    /\ UNCHANGED <<seq, demoting, bounds>>

\* mutant: a takeover leaves the batch its id
SameId(victim) == [id |-> new[victim].batch, window |-> new[victim].window]

\* The victim's batch under a fresh id.
FreshId(victim) == [id |-> seq, window |-> new[victim].window]

\* mutant: sub_active compared the other way round
VictimFresh(w, victim) ==
    /\ victim \in Members \ {w} /\ Free(w, victim)
    /\ new[victim].batch # 0 /\ ~new[victim].stale

\* A stale member with a batch; one whose row is locked is skipped.  Which of several is
\* the stalest is left open.
Victim(w, victim) ==
    /\ victim \in Members \ {w} /\ Free(w, victim)
    /\ new[victim].batch # 0 /\ new[victim].stale

TakeOver(w, victim) ==
    /\ MayReceive(w) /\ new[w].batch = 0 /\ Victim(w, victim)
    /\ Runs(w, [Current(w) EXCEPT !.held = FreshId(victim)], {Main, w, victim})
    /\ new' = [new EXCEPT ![w] = Holds(MemberRow(w), FreshId(victim)), ![victim] = Cleared(@)]
    /\ seq' = seq + 1
    /\ UNCHANGED <<demoting, bounds>>

\* The next window; an empty one is finished in the same call.
NextBatch(window) == IF window \in empty THEN NoBatch ELSE [id |-> seq, window |-> window]

\* The main cursor moves when the batch is handed out.
ReceiveNext(w) ==
    LET window == new[Main].last + 1
    IN  /\ MayReceive(w) /\ new[w].batch = 0 /\ window <= tick
        /\ Runs(w, [Current(w) EXCEPT !.held = NextBatch(window)], {Main, w})
        /\ new' = [new EXCEPT ![Main].last = window,
                              ![w] = Holds(MemberRow(w), NextBatch(window))]
        /\ seq' = seq + 1
        /\ UNCHANGED <<demoting, bounds>>

\* receive() on the main row: refused while members are registered.  On a coop_main row
\* without members it fails, on a batch id that was never stored.
MayReceivePlainly ==
    /\ Calls(Main) /\ Free(Main, Main) /\ Current(Main).held = NoBatch
    /\ new[Main].role = "normal"

PlainReceiveAgain ==
    /\ MayReceivePlainly /\ new[Main].batch # 0
    /\ Runs(Main, [Current(Main) EXCEPT !.held = [id |-> new[Main].batch,
                                                  window |-> new[Main].window]], {Main})
    /\ UNCHANGED <<new, seq, demoting, bounds>>

PlainReceiveNext ==
    LET window == new[Main].last + 1
    IN  /\ MayReceivePlainly /\ new[Main].batch = 0 /\ window <= tick
        /\ Runs(Main, [Current(Main) EXCEPT !.held = NextBatch(window)], {Main})
        /\ new' = [new EXCEPT ![Main] = IF window \in empty THEN [@ EXCEPT !.last = window]
                                        ELSE Holds(@, NextBatch(window))]
        /\ seq' = seq + 1
        /\ UNCHANGED <<demoting, bounds>>

-----------------------------------------------------------------------------
(* nack, ack and touch_subconsumer.                                        *)

\* A row with the batch id that w holds.
Owner(w, r) == Seen(w, r).batch = Current(w).held.id

\* nack writes its row without a lock on the subscription, and raises for an unknown id.
Nack(w) ==
    /\ Calls(w) /\ Current(w).held # NoBatch
    /\ \E r \in Workers :
          /\ Owner(w, r)
          /\ Runs(w, [Current(w) EXCEPT !.requeued = @ \cup {Seen(w, r).window}], {})
    /\ UNCHANGED <<new, seq, demoting, bounds>>

\* mutant: the cursor of a normal consumer stays where it is
FinishStays(r) == Cleared(new[r])

\* finish_batch: a member is released, a normal consumer moves on.
Finish(r) == IF new[r].role = "coop_member" THEN Cleared(new[r])
             ELSE [Cleared(new[r]) EXCEPT !.last = new[r].window]

Ack(w) ==
    /\ Calls(w) /\ Current(w).held # NoBatch
    /\ \E r \in Workers :
          /\ Owner(w, r) /\ Free(w, r) /\ new[r].role # "coop_main"
          /\ Runs(w, [Current(w) EXCEPT !.held = NoBatch,
                                        !.finished = @ \cup {new[r].window}], {r})
          /\ new' = [new EXCEPT ![r] = Finish(r)]
    /\ UNCHANGED <<seq, demoting, bounds>>

\* ack returns 0: the batch is no longer anybody's.
AckTooLate(w) ==
    /\ Calls(w) /\ Current(w).held # NoBatch
    /\ \A r \in Workers : ~Owner(w, r)
    /\ Runs(w, [Current(w) EXCEPT !.held = NoBatch], {})
    /\ UNCHANGED <<new, seq, demoting, bounds>>

Touch(w) ==
    /\ w \in Members /\ Calls(w) /\ Free(w, w)
    /\ new[w].role = "coop_member" /\ new[w].stale
    /\ Runs(w, Current(w), {w})
    /\ new' = [new EXCEPT ![w].stale = FALSE]
    /\ UNCHANGED <<seq, demoting, bounds>>

\* sub_active of a member with a batch is older than dead_interval: its process is dead, or
\* slow, or its receive had waited long for a lock.
GoesStale(w) ==
    /\ w \in Members /\ row[w].batch # 0 /\ ~row[w].stale
    /\ IF alive[w] THEN Fault ELSE UNCHANGED bounds
    /\ row' = [row EXCEPT ![w].stale = TRUE]
    /\ new' = IF lock[w] = NoOne THEN [new EXCEPT ![w].stale = TRUE] ELSE new
    /\ UNCHANGED <<log, lock, seq, txn, processes>>

-----------------------------------------------------------------------------
(* Removing members.                                                       *)

OtherMembers(w, m) == {r \in Members \ {m} : Seen(w, r).role = "coop_member"}

\* mutant: the batch of the removed member is forgotten
NoRouting(m) == {}

\* mutant: an idle member routed, too
RoutedIdle(m) == {row[m].window}

\* batch_handling = 1: the events of the open batch go to the retry queue.
Routed(m) == {row[m].window} \ {0}

\* unregister_subconsumer, by another session under autocommit: it locks the main row and
\* the member.
Unregister(m) ==
    LET main  == [row[Main] EXCEPT !.role = IF OtherMembers(NoOne, m) = {} THEN "normal"
                                                                           ELSE "coop_main"]
        after == [row EXCEPT ![m] = NoRow, ![Main] = main]
    IN  /\ m \in Members /\ Leave
        /\ lock[Main] = NoOne /\ lock[m] = NoOne
        /\ row[Main].role = "coop_main" /\ row[m].role = "coop_member"
        /\ requeued' = requeued \cup Routed(m)
        /\ row' = after
        /\ new' = [r \in Workers |-> IF lock[r] = NoOne THEN after[r] ELSE new[r]]
        /\ UNCHANGED <<tick, empty, finished, lock, seq, txn, processes>>

\* unsubscribe, that is unregister_consumer, with the name of the member's own row.  It
\* does not lock the main row before it has found that no other member is left.
Unsubscribe(w) ==
    /\ w \in Members /\ Calls(w) /\ Leave
    /\ Free(w, w) /\ new[w].role = "coop_member" /\ new[w].batch = 0
    /\ Runs(w, Current(w), {w})
    /\ new' = [new EXCEPT ![w] = NoRow]
    /\ demoting' = [demoting EXCEPT ![w] = OtherMembers(w, w) = {}]
    /\ UNCHANGED seq

Demote(w) ==
    /\ alive[w] /\ demoting[w] /\ Free(w, Main)
    /\ Runs(w, Current(w), {Main})
    /\ new' = [new EXCEPT ![Main].role = IF @ = "coop_main" THEN "normal" ELSE @]
    /\ demoting' = [demoting EXCEPT ![w] = FALSE]
    /\ UNCHANGED <<seq, bounds>>

-----------------------------------------------------------------------------

Receive(w) == ReceiveAgain(w) \/ ReceiveNext(w) \/ \E victim \in Members : TakeOver(w, victim)

Settle(w) == Ack(w) \/ AckTooLate(w)

Next ==
    \/ \E nothing \in BOOLEAN : Publish(nothing)
    \/ PlainReceiveAgain \/ PlainReceiveNext
    \/ \E w \in Workers :
          \/ \E convert \in BOOLEAN : Register(w, convert)
          \/ Receive(w) \/ Nack(w) \/ Settle(w) \/ Touch(w)
          \/ Commit(w) \/ Rollback(w)
          \/ Crash(w) \/ Restart(w) \/ GoesStale(w)
          \/ Unregister(w) \/ Unsubscribe(w) \/ Demote(w)

Spec == Init /\ [][Next]_vars

\* Processes that are up poll with a dead_interval, their handlers return and they commit;
\* row locks are granted in turn; and time passes.
Fairness ==
    \A w \in Members :
        /\ WF_vars(Commit(w)) /\ WF_vars(GoesStale(w) /\ ~alive[w])
        /\ SF_vars(Receive(w)) /\ SF_vars(Settle(w)) /\ SF_vars(Demote(w))

FairSpec == Spec /\ Fairness

=============================================================================
