--------------------------- MODULE ClientLoopProofs ---------------------------
(* Proofs about the Consumer loop, for all workers, messages and bounds. *)
EXTENDS ClientLoopConsumer, FiniteSetTheorems, SequenceTheorems, TLAPS

LEMMA NoPollType == NoPoll \in Poll
  BY BoundsAssumption DEF Poll, NoPoll, Results

LEMMA PollUpdates ==
    ASSUME NEW p \in Poll, NEW m \in Msgs
    PROVE  /\ Without(p, m) \in Poll
           /\ [Without(p, m) EXCEPT !.nacked = @ \cup {m}] \in Poll
           /\ [Without(p, m) EXCEPT !.fine = @ \cup {m}] \in Poll
           /\ [Without(p, m) EXCEPT !.result = "unacked"] \in Poll
           /\ [[Without(p, m) EXCEPT !.result = "unacked"] EXCEPT !.txn = "aborted"] \in Poll
  <1> DEFINE q == Without(p, m)
  <1>1. q \in Poll
    BY DEF Poll, Without
  <1>2. q.nacked \cup {m} \in SUBSET Msgs /\ q.fine \cup {m} \in SUBSET Msgs
    BY <1>1 DEF Poll
  <1> HIDE DEF q
  <1>3. [q EXCEPT !.nacked = @ \cup {m}] \in Poll
    BY <1>1, <1>2 DEF Poll
  <1>4. [q EXCEPT !.fine = @ \cup {m}] \in Poll
    BY <1>1, <1>2 DEF Poll
  <1>5. [q EXCEPT !.result = "unacked"] \in Poll
    BY <1>1 DEF Poll, Results
  <1>6. [[q EXCEPT !.result = "unacked"] EXCEPT !.txn = "aborted"] \in Poll
    BY <1>5 DEF Poll
  <1> QED
    BY <1>1, <1>3, <1>4, <1>5, <1>6 DEF q

\* What receive and ack make of a poll.
LEMMA PollRecords ==
    ASSUME NEW p \in Poll, NEW l \in 0 .. MaxTicks, NEW k \in 0 .. MaxTicks,
           NEW msgs \in SUBSET Msgs, NEW r \in Results
    PROVE  /\ [p EXCEPT !.txn = "open", !.last = l, !.result = r] \in Poll
           /\ [p EXCEPT !.txn = "open", !.last = l, !.open = k, !.todo = msgs] \in Poll
           /\ [p EXCEPT !.last = l, !.open = k, !.result = r] \in Poll
  <1>1. [p EXCEPT !.txn = "open"] \in Poll
    BY DEF Poll
  <1>2. \A q \in Poll : [q EXCEPT !.last = l] \in Poll
    BY DEF Poll
  <1>3. \A q \in Poll : [q EXCEPT !.open = k] \in Poll
    BY DEF Poll
  <1>4. \A q \in Poll : [q EXCEPT !.todo = msgs] \in Poll
    BY DEF Poll
  <1>5. \A q \in Poll : [q EXCEPT !.result = r] \in Poll
    BY DEF Poll
  <1> DEFINE a == [[[p EXCEPT !.txn = "open"] EXCEPT !.last = l] EXCEPT !.result = r]
             b == [[[[p EXCEPT !.txn = "open"] EXCEPT !.last = l] EXCEPT !.open = k]
                      EXCEPT !.todo = msgs]
             c == [[[p EXCEPT !.last = l] EXCEPT !.open = k] EXCEPT !.result = r]
  <1>6. a \in Poll /\ b \in Poll /\ c \in Poll
    <2>1. [[p EXCEPT !.txn = "open"] EXCEPT !.last = l] \in Poll /\ [p EXCEPT !.last = l] \in Poll
      BY <1>1, <1>2
    <2>2. /\ [[[p EXCEPT !.txn = "open"] EXCEPT !.last = l] EXCEPT !.open = k] \in Poll
          /\ [[p EXCEPT !.last = l] EXCEPT !.open = k] \in Poll
      BY <2>1, <1>3
    <2> QED
      BY <2>1, <2>2, <1>4, <1>5
  <1>7. /\ a = [p EXCEPT !.txn = "open", !.last = l, !.result = r]
        /\ b = [p EXCEPT !.txn = "open", !.last = l, !.open = k, !.todo = msgs]
        /\ c = [p EXCEPT !.last = l, !.open = k, !.result = r]
    OBVIOUS
  <1> QED
    BY <1>6, <1>7

LEMMA CloseTypes ==
    ASSUME TypeOK, NEW w \in Workers, Close(w)
    PROVE  /\ lock' \in Workers \cup {NoWorker}
           /\ link' \in [Workers -> {"none", "up", "lost"}]
           /\ notes' \in [Workers -> BOOLEAN]
           /\ poll' \in [Workers -> Poll]
  BY NoPollType DEF TypeOK, Close

LEMMA ReconnectTypes ==
    ASSUME TypeOK, NEW w \in Workers, Reconnect(w), faults' \in Nat
    PROVE  TypeOK'
  <1>1. pc' \in [Workers -> Labels]
    BY DEF TypeOK, Reconnect, Goto, Labels
  <1> QED
    BY <1>1, CloseTypes DEF TypeOK, Reconnect, history

LEMMA ReceivedTypes ==
    ASSUME TypeOK, NEW w \in Workers, NEW p \in Poll, Received(w, p),
           pc' \in [Workers -> Labels]
    PROVE  TypeOK'
  BY DEF TypeOK, Received, history

LEMMA NextWindowType ==
    ASSUME TypeOK
    PROVE  /\ NextWindow \in Nat
           /\ NextWindow <= tick => NextWindow \in 1 .. MaxTicks /\ NextWindow \in 0 .. MaxTicks
  BY BoundsAssumption DEF TypeOK, NextWindow

LEMMA ReceiveTypes ==
    ASSUME TypeOK, NEW w \in Workers, Receive(w)
    PROVE  TypeOK'
  <1> USE BoundsAssumption
  <1>1. CASE ReceiveNothing(w)
    <2>1. [NoPoll EXCEPT !.txn = "open", !.last = cursor.last, !.result = "drained"] \in Poll
      BY NoPollType, PollRecords DEF TypeOK, Results
    <2>2. pc' \in [Workers -> Labels]
      BY <1>1 DEF ReceiveNothing, Step, Goto, TypeOK, Labels
    <2> QED
      BY <1>1, <2>1, <2>2, ReceivedTypes DEF ReceiveNothing
  <1>2. CASE ReceiveEmpty(w)
    <2>1. [NoPoll EXCEPT !.txn = "open", !.last = NextWindow, !.result = "emptied"] \in Poll
      <3>1. NextWindow \in 0 .. MaxTicks /\ "emptied" \in Results
        BY <1>2, NextWindowType DEF ReceiveEmpty, Results
      <3> QED
        BY <3>1, NoPollType, PollRecords
    <2>2. pc' \in [Workers -> Labels]
      BY <1>2 DEF ReceiveEmpty, Step, Goto, TypeOK, Labels
    <2> QED
      BY <1>2, <2>1, <2>2, ReceivedTypes DEF ReceiveEmpty
  <1>3. CASE ReceiveBatch(w)
    <2> DEFINE p == [NoPoll EXCEPT !.txn = "open", !.last = cursor.last, !.open = NextWindow,
                                   !.todo = window[NextWindow]]
    <2>1. window[NextWindow] \in SUBSET Msgs
      BY <1>3, NextWindowType DEF ReceiveBatch, TypeOK
    <2>2. p \in Poll
      <3>1. NextWindow \in 0 .. MaxTicks /\ cursor.last \in 0 .. MaxTicks /\ "none" \in Results
        BY <1>3, NextWindowType DEF ReceiveBatch, Results, TypeOK
      <3> QED
        BY <2>1, <3>1, NoPollType, PollRecords
    <2>3. pc' \in [Workers -> Labels]
      BY <1>3 DEF ReceiveBatch, Step, Goto, TypeOK, Labels
    <2> QED
      BY <1>3, <2>2, <2>3, ReceivedTypes DEF ReceiveBatch
  <1>4. CASE ReceiveOverflow(w)
    <2>1. ReceiveRaises(w, OverflowError) /\ faults' \in Nat
      BY <1>4 DEF ReceiveOverflow, TypeOK
    <2>2. CASE Reconnect(w)
      BY <2>1, <2>2, ReconnectTypes
    <2>3. CASE ~Reconnect(w)
      <3>1. /\ Goto(w, "raised") /\ running' = [running EXCEPT ![w] = FALSE] /\ Close(w)
            /\ UNCHANGED <<window, tick, cursor, requeued, history>>
        BY <2>1, <2>3 DEF ReceiveRaises
      <3> QED
        BY <3>1, <2>1, CloseTypes DEF TypeOK, Goto, Labels, history
    <2> QED
      BY <2>2, <2>3
  <1> QED
    BY <1>1, <1>2, <1>3, <1>4 DEF Receive

LEMMA SetPollTypes ==
    ASSUME TypeOK, NEW w \in Workers, NEW p \in Poll, SetPoll(w, p),
           pc' \in [Workers -> Labels], faults' \in Nat, runs' \in [Msgs -> Nat],
           done' \subseteq Msgs, asked' \in [Workers -> BOOLEAN]
    PROVE  TypeOK'
  BY DEF TypeOK, SetPoll, database

LEMMA NackTypes ==
    ASSUME TypeOK, NEW w \in Workers, NEW m \in Msgs, Nacked(w, m) \/ NackRaises(w, m)
    PROVE  /\ faults' \in Nat
           /\ \E p \in Poll : SetPoll(w, p)
  <1>1. poll[w] \in Poll
    BY DEF TypeOK
  <1>2. faults' \in Nat
    BY DEF TypeOK, Nacked, NackRaises, Fault
  <1> DEFINE nacked  == [Without(poll[w], m) EXCEPT !.nacked = @ \cup {m}]
             unacked == [Without(poll[w], m) EXCEPT !.result = "unacked"]
             aborted == [unacked EXCEPT !.txn = "aborted"]
  <1>3. nacked \in Poll /\ unacked \in Poll /\ aborted \in Poll
    BY <1>1, PollUpdates
  <1>4. SetPoll(w, nacked) \/ SetPoll(w, unacked) \/ SetPoll(w, aborted)
    BY DEF Nacked, NackRaises
  <1> QED
    BY <1>2, <1>3, <1>4

LEMMA DispatchTypes ==
    ASSUME TypeOK, NEW w \in Workers, Dispatch(w)
    PROVE  TypeOK'
  <1>1. poll[w] \in Poll
    BY DEF TypeOK
  <1>2. ASSUME NEW m \in Msgs, HandlerReturns(w, m)  PROVE TypeOK'
    <2>1. pc' \in [Workers -> Labels] /\ runs' \in [Msgs -> Nat]
      BY <1>2 DEF TypeOK, HandlerReturns, Runs, Step, Goto, Labels
    <2>2. faults' = faults /\ done' = done /\ asked' = asked
      BY <1>2 DEF HandlerReturns, Runs
    <2>3. SetPoll(w, [Without(poll[w], m) EXCEPT !.fine = @ \cup {m}])
      BY <1>2 DEF HandlerReturns
    <2> QED
      BY <1>1, <2>1, <2>2, <2>3, PollUpdates, SetPollTypes DEF TypeOK
  <1>3. ASSUME NEW m \in Msgs, HandlerRaises(w, m)  PROVE TypeOK'
    <2>1. pc' \in [Workers -> Labels] /\ runs' \in [Msgs -> Nat]
      BY <1>3 DEF TypeOK, HandlerRaises, Runs, Step, Goto, Labels
    <2>2. done' = done /\ asked' = asked
      BY <1>3 DEF HandlerRaises, Runs
    <2>3. faults' \in Nat /\ \E p \in Poll : SetPoll(w, p)
      BY <1>3, NackTypes DEF HandlerRaises
    <2> QED
      BY <2>1, <2>2, <2>3, SetPollTypes DEF TypeOK
  <1>4. ASSUME NEW m \in Msgs, NoHandler(w, m)  PROVE TypeOK'
    <2>1. pc' \in [Workers -> Labels]
      BY <1>4 DEF TypeOK, NoHandler, Step, Goto, Labels
    <2>2. runs' = runs /\ done' = done /\ asked' = asked
      BY <1>4 DEF NoHandler, history
    <2>3. faults' \in Nat /\ \E p \in Poll : SetPoll(w, p)
      BY <1>1, <1>4, NackTypes, PollUpdates DEF NoHandler, TypeOK
    <2> QED
      BY <2>1, <2>2, <2>3, SetPollTypes DEF TypeOK
  <1>5. CASE Dispatched(w)
    BY <1>5 DEF Dispatched, TypeOK, database, history, Step, Goto, Labels
  <1> QED
    BY <1>2, <1>3, <1>4, <1>5 DEF Dispatch

LEMMA CommitTypes ==
    ASSUME TypeOK, NEW w \in Workers, CommitOnServer(w)
    PROVE  /\ window' = window /\ tick' = tick /\ runs' = runs /\ asked' = asked
           /\ cursor' \in [last : 0 .. MaxTicks, open : 0 .. MaxTicks]
           /\ requeued' \subseteq Msgs /\ done' \subseteq Msgs
  <1>1. /\ poll[w].last \in 0 .. MaxTicks /\ poll[w].open \in 0 .. MaxTicks
        /\ poll[w].nacked \subseteq Msgs /\ poll[w].fine \subseteq Msgs
    BY DEF TypeOK, Poll
  <1> QED
    BY <1>1 DEF TypeOK, CommitOnServer

LEMMA ProceedTypes ==
    ASSUME TypeOK, NEW w \in Workers, Proceed(w)
    PROVE  TypeOK'
  <1> USE DEF TypeOK, database, history, Step, Goto, Labels
  <1>1. CASE Connect(w)       BY <1>1 DEF Connect
  <1>2. CASE BackoffOver(w)   BY <1>2 DEF BackoffOver
  <1>3. CASE NextPoll(w)      BY <1>3 DEF NextPoll
  <1>4. CASE PollAgain(w)     BY <1>4 DEF PollAgain
  <1>5. CASE EnterWait(w)     BY <1>5 DEF EnterWait
  <1>6. CASE Wake(w)          BY <1>6 DEF Wake
  <1>7. CASE PollInterval(w)  BY <1>7 DEF PollInterval
  <1>8. CASE SeesStop(w)      BY <1>8, CloseTypes DEF SeesStop
  <1>9. CASE Dispatch(w)      BY <1>9, DispatchTypes
  <1>10. CASE Ack(w)
    <2>1. poll[w] \in Poll /\ poll[w].open \in 0 .. MaxTicks
      BY DEF Poll
    <2>2. [poll[w] EXCEPT !.last = poll[w].open, !.open = 0, !.result = "acked"] \in Poll
      <3>1. 0 \in 0 .. MaxTicks /\ "acked" \in Results
        BY BoundsAssumption DEF Results
      <3>2. {} \in SUBSET Msgs
        OBVIOUS
      <3> HIDE DEF TypeOK
      <3> QED
        BY <2>1, <3>1, <3>2, PollRecords
    <2>3. pc' \in [Workers -> Labels]
      BY <1>10 DEF Ack
    <2> QED
      BY <1>10, <2>2, <2>3, SetPollTypes DEF Ack
  <1>11. CASE Commit(w)
    <2>1. [poll[w] EXCEPT !.txn = "none"] \in Poll
      BY DEF Poll
    <2>2. poll' = [poll EXCEPT ![w] = [poll[w] EXCEPT !.txn = "none"]]
      BY <1>11 DEF Commit
    <2> HIDE DEF history, database
    <2>3. CommitOnServer(w) /\ lock' = NoWorker /\ UNCHANGED <<running, link, notes, faults>>
      BY <1>11 DEF Commit
    <2>4. pc' \in [Workers -> Labels]
      BY <1>11 DEF Commit
    <2>5. poll' \in [Workers -> Poll]
      BY <2>1, <2>2
    <2> QED
      BY <2>3, <2>4, <2>5, CommitTypes
  <1>12. CASE NoticesLoss(w)
    BY <1>12, ReconnectTypes DEF NoticesLoss
  <1> QED
    BY <1>1, <1>2, <1>3, <1>4, <1>5, <1>6, <1>7, <1>8, <1>9, <1>10, <1>11, <1>12 DEF Proceed

LEMMA FailureTypes ==
    ASSUME TypeOK, NEW w \in Workers, Failure(w)
    PROVE  TypeOK'
  <1>1. faults' \in Nat
    BY DEF TypeOK, Failure, ConnectFails, ReceiveFails, AckFails, CommitAnswerLost, Disconnect,
           Crash, Fault
  <1>2. CASE Reconnect(w)
    BY <1>1, <1>2, ReconnectTypes
  <1>3. CASE ReceiveFails(w) /\ ~Reconnect(w)
    <2>1. /\ Goto(w, "raised") /\ running' = [running EXCEPT ![w] = FALSE] /\ Close(w)
          /\ UNCHANGED <<window, tick, cursor, requeued, history>>
      BY <1>3 DEF ReceiveFails, ReceiveRaises
    <2> QED
      BY <1>1, <2>1, CloseTypes DEF TypeOK, Goto, Labels, history
  <1>4. CASE CommitAnswerLost(w)
    <2>1. CommitOnServer(w) /\ Close(w) /\ running' = running
      BY <1>4 DEF CommitAnswerLost
    <2>2. pc' \in [Workers -> Labels]
      BY <1>4 DEF CommitAnswerLost, Goto, TypeOK, Labels
    <2> QED
      BY <1>1, <2>1, <2>2, CommitTypes, CloseTypes DEF TypeOK
  <1>5. CASE Disconnect(w)
    BY <1>1, <1>5 DEF Disconnect, TypeOK, history
  <1>6. CASE Crash(w)
    BY <1>1, <1>6, CloseTypes DEF Crash, TypeOK, Goto, Labels
  <1> QED
    BY <1>2, <1>3, <1>4, <1>5, <1>6 DEF Failure, ConnectFails, AckFails

LEMMA TypeStep == TypeOK /\ [Next]_vars => TypeOK'
  <1> SUFFICES ASSUME TypeOK, [Next]_vars  PROVE TypeOK'
    OBVIOUS
  <1>1. ASSUME NEW new \in SUBSET Msgs, Send(new)  PROVE TypeOK'
    BY <1>1, BoundsAssumption DEF Send, TypeOK, worker, history
  <1>2. CASE Ticker
    BY <1>2, BoundsAssumption DEF Ticker, TypeOK, history
  <1>3. ASSUME NEW w \in Workers, Start(w)  PROVE TypeOK'
    BY <1>3 DEF Start, TypeOK, database, history, Goto, Labels
  <1>4. ASSUME NEW w \in Workers, Stop(w)  PROVE TypeOK'
    BY <1>4 DEF Stop, TypeOK, database
  <1>5. CASE UNCHANGED vars
    BY <1>5 DEF TypeOK, vars, database, worker, history
  <1> QED
    BY <1>1, <1>2, <1>3, <1>4, <1>5, ReceiveTypes, ProceedTypes, FailureTypes DEF Next

\* The variables stay in their types: the windows, the transactions and the connections of
\* all workers.
THEOREM TypeCorrect == Spec => []TypeOK
  <1>1. Init => TypeOK
    BY NoPollType, BoundsAssumption DEF Init, TypeOK, Labels
  <1> QED
    BY <1>1, TypeStep, PTL DEF Spec

-----------------------------------------------------------------------------
(* Safety.  Only the holder of the row lock moves the cursor, so what a    *)
(* worker read of it stays true until its own commit; and a worker whose   *)
(* connection broke can commit nothing.                                    *)

SameFor(v) == pc'[v] = pc[v] /\ link'[v] = link[v] /\ poll'[v] = poll[v] /\ notes'[v] = notes[v]

\* A step of w that leaves the cursor alone.
LEMMA LocalStep ==
    ASSUME IInv, TypeOK', NEW w \in Workers,
           UNCHANGED <<window, tick, cursor>>,
           requeued \subseteq requeued', done \subseteq done',
           \A v \in Workers \ {w} : SameFor(v) /\ (lock = v => lock' = v),
           TransactionInv(w)', DrainedInv(w)'
    PROVE  IInv'
  <1>1. CursorInv'
    BY DEF IInv, CursorInv
  <1>2. NothingLost'
    BY DEF IInv, NothingLost
  <1>3. ASSUME NEW v \in Workers \ {w}  PROVE TransactionInv(v)' /\ DrainedInv(v)'
    <2>1. TransactionInv(v) /\ DrainedInv(v)
      BY DEF IInv
    <2> QED
      BY <2>1 DEF SameFor, TransactionInv, InTransaction, DispatchInv, CommitInv, DrainedInv
  <1> QED
    BY <1>1, <1>2, <1>3 DEF IInv

\* In particular one that leaves w outside a transaction, and not after a drained poll.
LEMMA OutsideStep ==
    ASSUME IInv, TypeOK', NEW w \in Workers,
           UNCHANGED <<window, tick, cursor, requeued, done>>,
           \A v \in Workers \ {w} : SameFor(v) /\ (lock = v => lock' = v),
           pc'[w] \notin {"dispatch", "ack", "commit", "returned", "wait"} \/ link'[w] # "up"
    PROVE  IInv'
  <1>1. TransactionInv(w)' /\ DrainedInv(w)'
    BY DEF TransactionInv, InTransaction, DrainedInv
  <1> QED
    BY <1>1, LocalStep

LEMMA CloseStep ==
    ASSUME IInv, TypeOK', NEW w \in Workers, NEW label, Close(w), Goto(w, label),
           UNCHANGED <<window, tick, cursor, requeued, done>>
    PROVE  IInv'
  <1>1. link'[w] = "none"
    BY DEF Close, IInv, TypeOK
  <1>2. ASSUME NEW v \in Workers \ {w}  PROVE SameFor(v) /\ (lock = v => lock' = v)
    BY DEF Close, Goto, SameFor, IInv, TypeOK
  <1> QED
    BY <1>1, <1>2, OutsideStep

LEMMA ReconnectStep ==
    ASSUME IInv, TypeOK', NEW w \in Workers, Reconnect(w)
    PROVE  IInv'
  BY CloseStep DEF Reconnect, history

LEMMA RaisesStep ==
    ASSUME IInv, TypeOK', NEW w \in Workers, NEW e, ReceiveRaises(w, e)
    PROVE  IInv'
  BY CloseStep, ReconnectStep DEF ReceiveRaises, history

\* Whoever received holds the lock, so no other worker was in a transaction.
LEMMA ReceivedStep ==
    ASSUME IInv, TypeOK', NEW w \in Workers, NEW p, NEW label,
           Step(w, "receive", label), Received(w, p),
           label \in {"dispatch", "commit"},
           label = "dispatch" =>
               /\ p.last = cursor.last /\ p.open = cursor.last + 1 /\ p.open <= tick
               /\ p.result = "none" /\ p.txn = "open" /\ window[p.open] \subseteq p.todo,
           label = "commit" =>
               \/ /\ p.result = "drained" /\ p.last = cursor.last /\ p.open = 0
                  /\ cursor.last = tick
               \/ /\ p.result = "emptied" /\ p.last = cursor.last + 1 /\ p.last <= tick
                  /\ p.open = 0 /\ window[p.last] = {}
    PROVE  IInv'
  <1>1. pc'[w] = label /\ poll'[w] = p /\ lock' = w /\ link'[w] = "up"
    BY DEF Step, Goto, Received, IInv, TypeOK
  <1>2. UNCHANGED <<window, tick, cursor, requeued, done>>
    BY DEF Received, history
  <1>3. ASSUME NEW v \in Workers \ {w}  PROVE SameFor(v) /\ lock # v
    BY NoWorkerAssumption DEF Step, Goto, Received, LockIsFree, SameFor, IInv, TypeOK
  <1>4. TransactionInv(w)'
    <2>1. DispatchInv(w)'
      BY <1>1, <1>2 DEF DispatchInv
    <2>2. CommitInv(w)'
      BY <1>1, <1>2 DEF CommitInv
    <2> QED
      BY <1>1, <2>1, <2>2 DEF TransactionInv
  <1>5. DrainedInv(w)'
    BY <1>1, <1>2 DEF DrainedInv
  <1> QED
    BY <1>2, <1>3, <1>4, <1>5, LocalStep

LEMMA NextWindowIs ==
    ASSUME IInv
    PROVE  /\ NextWindow = cursor.last + 1
           /\ NextWindow > tick => cursor.last = tick
  BY BoundsAssumption DEF IInv, CursorInv, NextWindow, TypeOK

LEMMA ReceiveStep ==
    ASSUME IInv, TypeOK', NEW w \in Workers, Receive(w)
    PROVE  IInv'
  <1>1. CASE ReceiveNothing(w)
    <2> DEFINE p == [NoPoll EXCEPT !.txn = "open", !.last = cursor.last, !.result = "drained"]
    <2>1. p.result = "drained" /\ p.last = cursor.last /\ p.open = 0
      BY DEF NoPoll
    <2>2. cursor.last = tick
      BY <1>1, NextWindowIs DEF ReceiveNothing
    <2> HIDE DEF p
    <2> QED
      BY <1>1, <2>1, <2>2, ReceivedStep DEF ReceiveNothing, p
  <1>2. CASE ReceiveEmpty(w)
    <2> DEFINE p == [NoPoll EXCEPT !.txn = "open", !.last = NextWindow, !.result = "emptied"]
    <2>1. p.result = "emptied" /\ p.last = NextWindow /\ p.open = 0
      BY DEF NoPoll
    <2>2. /\ NextWindow = cursor.last + 1 /\ NextWindow <= tick /\ window[NextWindow] = {}
          /\ Step(w, "receive", "commit") /\ Received(w, p)
      BY <1>2, NextWindowIs DEF ReceiveEmpty
    <2> HIDE DEF p
    <2> QED
      BY <2>1, <2>2, ReceivedStep
  <1>3. CASE ReceiveBatch(w)
    <2> DEFINE p == [NoPoll EXCEPT !.txn = "open", !.last = cursor.last, !.open = NextWindow,
                                   !.todo = window[NextWindow]]
    <2>1. /\ p.last = cursor.last /\ p.open = NextWindow /\ p.todo = window[NextWindow]
          /\ p.result = "none" /\ p.txn = "open"
      BY DEF NoPoll
    <2>2. /\ NextWindow = cursor.last + 1 /\ NextWindow <= tick
          /\ Step(w, "receive", "dispatch") /\ Received(w, p)
      BY <1>3, NextWindowIs DEF ReceiveBatch
    <2> HIDE DEF p
    <2> QED
      BY <2>1, <2>2, ReceivedStep
  <1>4. CASE ReceiveOverflow(w)
    BY <1>4, RaisesStep DEF ReceiveOverflow
  <1> QED
    BY <1>1, <1>2, <1>3, <1>4 DEF Receive

\* A message leaves the list: it is accounted for, or a nack has failed.
LEMMA MessageStep ==
    ASSUME IInv, TypeOK', NEW w \in Workers, NEW q,
           Step(w, "dispatch", "dispatch"), SetPoll(w, q), done' = done,
           q.last = poll[w].last, q.open = poll[w].open,
           \/ q.result = "unacked"
           \/ /\ q.result = poll[w].result /\ q.txn = poll[w].txn
              /\ poll[w].todo \cup poll[w].fine \cup poll[w].nacked
                    \subseteq q.todo \cup q.fine \cup q.nacked
    PROVE  IInv'
  <1>1. pc'[w] = "dispatch" /\ pc[w] = "dispatch" /\ poll'[w] = q /\ link'[w] = link[w]
    BY DEF Step, Goto, SetPoll, IInv, TypeOK
  <1>2. UNCHANGED <<window, tick, cursor, requeued, done, lock>>
    BY DEF SetPoll, database
  <1>3. ASSUME NEW v \in Workers \ {w}  PROVE SameFor(v)
    BY DEF SetPoll, Step, Goto, SameFor, IInv, TypeOK
  <1>4. TransactionInv(w)'
    <2> SUFFICES ASSUME link[w] = "up"  PROVE lock = w /\ DispatchInv(w)' /\ CommitInv(w)'
      BY <1>1, <1>2 DEF TransactionInv, InTransaction
    <2>1. lock = w /\ DispatchInv(w)
      BY <1>1 DEF IInv, TransactionInv, InTransaction
    <2>2. DispatchInv(w)'
      BY <1>1, <1>2, <2>1 DEF DispatchInv
    <2>3. CommitInv(w)'
      BY <1>1 DEF CommitInv
    <2> QED
      BY <2>1, <2>2, <2>3
  <1>5. DrainedInv(w)'
    BY <1>1 DEF DrainedInv
  <1> QED
    BY <1>2, <1>3, <1>4, <1>5, LocalStep

LEMMA WithoutIs ==
    ASSUME NEW p \in Poll, NEW m
    PROVE  LET q == Without(p, m)
           IN  /\ q.todo = p.todo \ {m} /\ q.last = p.last /\ q.open = p.open /\ q.txn = p.txn
               /\ q.result = p.result /\ q.fine = p.fine /\ q.nacked = p.nacked
               /\ q \in Poll
  BY DEF Without, Poll

LEMMA NackStep ==
    ASSUME IInv, TypeOK', NEW w \in Workers, NEW m \in Msgs,
           Step(w, "dispatch", "dispatch"), done' = done, Nacked(w, m) \/ NackRaises(w, m)
    PROVE  IInv'
  <1> DEFINE q == Without(poll[w], m)
  <1>1. /\ q.todo = poll[w].todo \ {m} /\ q.last = poll[w].last /\ q.open = poll[w].open
        /\ q.txn = poll[w].txn /\ q.result = poll[w].result /\ q.fine = poll[w].fine
        /\ q.nacked = poll[w].nacked /\ q \in Poll
    BY WithoutIs DEF IInv, TypeOK
  <1> DEFINE nacked  == [q EXCEPT !.nacked = @ \cup {m}]
             unacked == [q EXCEPT !.result = "unacked"]
             aborted == [unacked EXCEPT !.txn = "aborted"]
  <1>2. SetPoll(w, nacked) \/ SetPoll(w, unacked) \/ SetPoll(w, aborted)
    BY DEF Nacked, NackRaises
  <1> HIDE DEF q
  <1>3. /\ nacked.todo = q.todo /\ nacked.last = q.last /\ nacked.open = q.open
        /\ nacked.txn = q.txn /\ nacked.result = q.result /\ nacked.fine = q.fine
        /\ nacked.nacked = q.nacked \cup {m}
    BY <1>1 DEF Poll
  <1>4. /\ unacked.last = q.last /\ unacked.open = q.open /\ unacked.result = "unacked"
        /\ aborted.last = q.last /\ aborted.open = q.open /\ aborted.result = "unacked"
    BY <1>1 DEF Poll
  <1> HIDE DEF nacked, unacked, aborted
  <1>5. CASE SetPoll(w, nacked)
    BY <1>1, <1>3, <1>5, MessageStep
  <1>6. CASE SetPoll(w, unacked)
    BY <1>1, <1>4, <1>6, MessageStep
  <1>7. CASE SetPoll(w, aborted)
    BY <1>1, <1>4, <1>7, MessageStep
  <1> QED
    BY <1>2, <1>5, <1>6, <1>7

LEMMA FineStep ==
    ASSUME IInv, TypeOK', NEW w \in Workers, NEW m \in Msgs,
           Step(w, "dispatch", "dispatch"), done' = done,
           SetPoll(w, [Without(poll[w], m) EXCEPT !.fine = @ \cup {m}])
    PROVE  IInv'
  <1> DEFINE q == Without(poll[w], m)
             f == [q EXCEPT !.fine = @ \cup {m}]
  <1>1. /\ q.todo = poll[w].todo \ {m} /\ q.last = poll[w].last /\ q.open = poll[w].open
        /\ q.txn = poll[w].txn /\ q.result = poll[w].result /\ q.fine = poll[w].fine
        /\ q.nacked = poll[w].nacked /\ q \in Poll
    BY WithoutIs DEF IInv, TypeOK
  <1> HIDE DEF q
  <1>2. /\ f.todo = q.todo /\ f.last = q.last /\ f.open = q.open /\ f.txn = q.txn
        /\ f.result = q.result /\ f.nacked = q.nacked /\ f.fine = q.fine \cup {m}
    BY <1>1 DEF Poll
  <1>3. SetPoll(w, f)
    BY DEF q
  <1> HIDE DEF f
  <1> QED
    BY <1>1, <1>2, <1>3, MessageStep

LEMMA DispatchStep ==
    ASSUME IInv, TypeOK', NEW w \in Workers, Dispatch(w)
    PROVE  IInv'
  <1>1. ASSUME NEW m \in Msgs, HandlerReturns(w, m)  PROVE IInv'
    BY <1>1, FineStep DEF HandlerReturns, Runs
  <1>2. ASSUME NEW m \in Msgs, HandlerRaises(w, m)  PROVE IInv'
    BY <1>2, NackStep DEF HandlerRaises, Runs
  <1>3. ASSUME NEW m \in Msgs, NoHandler(w, m)  PROVE IInv'
    BY <1>3, FineStep, NackStep DEF NoHandler, history
  <1>4. CASE Dispatched(w)
    <2>1. /\ pc[w] = "dispatch" /\ pc'[w] = IF poll[w].result = "unacked" THEN "commit" ELSE "ack"
          /\ poll[w].todo = {}
      BY <1>4 DEF Dispatched, Step, Goto, IInv, TypeOK
    <2>2. UNCHANGED <<window, tick, cursor, requeued, done, lock, link, poll, notes>>
      BY <1>4 DEF Dispatched, database, history
    <2>3. ASSUME NEW v \in Workers \ {w}  PROVE SameFor(v)
      BY <1>4, <2>2 DEF Dispatched, Step, Goto, SameFor, IInv, TypeOK
    <2>4. TransactionInv(w)'
      <3> SUFFICES ASSUME link[w] = "up"  PROVE lock = w /\ DispatchInv(w)' /\ CommitInv(w)'
        BY <2>2 DEF TransactionInv, InTransaction
      <3>1. lock = w /\ DispatchInv(w)
        BY <2>1 DEF IInv, TransactionInv, InTransaction
      <3>2. DispatchInv(w)'
        BY <2>1, <2>2, <3>1 DEF DispatchInv
      <3>3. CommitInv(w)'
        BY <2>1, <2>2, <3>1 DEF DispatchInv, CommitInv
      <3> QED
        BY <3>1, <3>2, <3>3
    <2>5. DrainedInv(w)'
      <3>1. link[w] = "up" => poll[w].result # "drained"
        BY <2>1 DEF IInv, TransactionInv, InTransaction, DispatchInv
      <3> QED
        BY <2>2, <3>1 DEF DrainedInv
    <2> QED
      BY <2>2, <2>3, <2>4, <2>5, LocalStep
  <1> QED
    BY <1>1, <1>2, <1>3, <1>4 DEF Dispatch

LEMMA AckStep ==
    ASSUME IInv, TypeOK', NEW w \in Workers, Ack(w)
    PROVE  IInv'
  <1> DEFINE q == [poll[w] EXCEPT !.last = poll[w].open, !.open = 0, !.result = "acked"]
  <1>1. /\ q.last = poll[w].open /\ q.open = 0 /\ q.result = "acked" /\ q.txn = poll[w].txn
        /\ q.fine = poll[w].fine /\ q.nacked = poll[w].nacked
    BY DEF IInv, TypeOK, Poll
  <1>2. /\ pc[w] = "ack" /\ pc'[w] = "commit" /\ poll'[w] = q /\ link[w] = "up"
        /\ UNCHANGED <<window, tick, cursor, requeued, done, lock, link, notes>>
    BY DEF Ack, Step, Goto, SetPoll, database, history, IInv, TypeOK
  <1>3. ASSUME NEW v \in Workers \ {w}  PROVE SameFor(v)
    BY DEF Ack, Step, Goto, SetPoll, SameFor, IInv, TypeOK
  <1>4. lock = w /\ DispatchInv(w)
    BY <1>2 DEF IInv, TransactionInv, InTransaction
  <1> HIDE DEF q
  <1>5. CommitInv(w)'
    BY <1>1, <1>2, <1>4 DEF CommitInv, DispatchInv
  <1>6. TransactionInv(w)' /\ DrainedInv(w)'
    BY <1>1, <1>2, <1>4, <1>5 DEF TransactionInv, DispatchInv, DrainedInv
  <1> QED
    BY <1>2, <1>3, <1>6, LocalStep

\* The holder of the lock commits: what it read of the cursor is still true, and no other
\* worker relies on the cursor.
LEMMA CommitOnServerStep ==
    ASSUME IInv, TypeOK', NEW w \in Workers,
           pc[w] = "commit", link[w] = "up", CommitOnServer(w),
           \A v \in Workers \ {w} : SameFor(v),
           pc'[w] \notin {"dispatch", "ack", "commit"},
           link'[w] = "up" => notes'[w] = notes[w] /\ poll'[w].result = poll[w].result
    PROVE  IInv'
  <1> USE BoundsAssumption
  <1>1. lock = w /\ CommitInv(w)
    BY DEF IInv, TransactionInv, InTransaction
  <1>2. /\ cursor.last \in 0 .. MaxTicks /\ tick \in 0 .. MaxTicks
        /\ cursor.last <= tick
        /\ cursor.open # 0 => cursor.open = cursor.last + 1 /\ cursor.open <= tick
    BY DEF IInv, TypeOK, CursorInv
  <1>3. /\ window' = window /\ tick' = tick
        /\ done \subseteq done' /\ requeued \subseteq requeued'
    BY DEF CommitOnServer
  <1>4. /\ cursor'.last \in {cursor.last, cursor.last + 1} /\ cursor'.last <= tick
        /\ cursor'.open # 0 => cursor'.open = cursor'.last + 1 /\ cursor'.open <= tick
        /\ cursor'.last = cursor.last + 1 => window[cursor'.last] \subseteq done' \cup requeued'
    <2>1. CASE poll[w].txn # "open"
      <3>1. cursor' = cursor
        BY <2>1 DEF CommitOnServer
      <3> QED
        BY <1>2, <3>1
    <2>2. CASE poll[w].txn = "open"
      <3>1. /\ cursor'.last = poll[w].last /\ cursor'.open = poll[w].open
            /\ requeued' = requeued \cup poll[w].nacked
            /\ poll[w].result = "acked" => done' = done \cup poll[w].fine
        BY <2>2 DEF CommitOnServer
      <3>2. poll[w].result \in {"acked", "drained", "emptied", "unacked"}
        BY <1>1 DEF IInv, TypeOK, Poll, Results, CommitInv
      <3> QED
        BY <1>1, <1>2, <3>1, <3>2 DEF CommitInv
    <2> QED
      BY <2>1, <2>2
  <1>5. CursorInv'
    BY <1>3, <1>4 DEF CursorInv
  <1>6. NothingLost'
    BY <1>2, <1>3, <1>4 DEF IInv, NothingLost
  <1>7. ASSUME NEW v \in Workers  PROVE TransactionInv(v)'
    BY <1>1 DEF IInv, TransactionInv, InTransaction, SameFor
  <1>8. ASSUME NEW v \in Workers \ {w}  PROVE DrainedInv(v)'
    BY <1>2, <1>3, <1>4 DEF IInv, DrainedInv, SameFor
  <1>9. DrainedInv(w)'
    <2> SUFFICES ASSUME link'[w] = "up", ~notes'[w], poll'[w].result = "drained"
                 PROVE  cursor'.last = tick
      BY <1>3 DEF DrainedInv
    <2>1. cursor.last = tick /\ poll[w].last = cursor.last
      BY <1>1 DEF IInv, DrainedInv, CommitInv
    <2> QED
      BY <1>2, <1>4, <2>1
  <1> QED
    BY <1>5, <1>6, <1>7, <1>8, <1>9 DEF IInv

LEMMA CommitStep ==
    ASSUME IInv, TypeOK', NEW w \in Workers, Commit(w)
    PROVE  IInv'
  <1>1. /\ pc[w] = "commit" /\ link[w] = "up" /\ CommitOnServer(w) /\ pc'[w] = "returned"
        /\ notes'[w] = notes[w] /\ poll'[w].result = poll[w].result
    BY DEF Commit, Step, Goto, IInv, TypeOK, Poll
  <1>2. ASSUME NEW v \in Workers \ {w}  PROVE SameFor(v)
    BY DEF Commit, Step, Goto, SameFor, IInv, TypeOK
  <1> QED
    BY <1>1, <1>2, CommitOnServerStep

LEMMA ProceedStep ==
    ASSUME IInv, TypeOK', NEW w \in Workers, Proceed(w)
    PROVE  IInv'
  <1>1. CASE Connect(w) \/ BackoffOver(w) \/ NextPoll(w) \/ PollAgain(w) \/ Wake(w)
               \/ PollInterval(w)
    <2>1. /\ UNCHANGED <<window, tick, cursor, lock, requeued, done>>
          /\ pc'[w] \in {"poll", "connecting", "receive"}
      BY <1>1 DEF Connect, BackoffOver, NextPoll, PollAgain, Wake, PollInterval, database,
                  history, Step, Goto, IInv, TypeOK
    <2>2. ASSUME NEW v \in Workers \ {w}  PROVE SameFor(v)
      BY <1>1 DEF Connect, BackoffOver, NextPoll, PollAgain, Wake, PollInterval, SameFor,
                  Step, Goto, IInv, TypeOK
    <2> QED
      BY <2>1, <2>2, OutsideStep
  <1>2. CASE EnterWait(w)
    <2>1. /\ UNCHANGED <<window, tick, cursor, lock, requeued, done, link, poll>>
          /\ pc[w] = "returned"
          /\ pc'[w] = IF notes[w] THEN "poll" ELSE "wait"
      BY <1>2 DEF EnterWait, database, history, Step, Goto, IInv, TypeOK
    <2>2. ASSUME NEW v \in Workers \ {w}  PROVE SameFor(v)
      BY <1>2 DEF EnterWait, SameFor, Step, Goto, IInv, TypeOK
    <2>3. TransactionInv(w)' /\ DrainedInv(w)'
      BY <2>1 DEF IInv, TransactionInv, InTransaction, DrainedInv
    <2> QED
      BY <2>1, <2>2, <2>3, LocalStep
  <1>3. CASE SeesStop(w)
    BY <1>3, CloseStep DEF SeesStop, history
  <1>4. CASE NoticesLoss(w)
    BY <1>4, ReconnectStep DEF NoticesLoss
  <1> QED
    BY <1>1, <1>2, <1>3, <1>4, DispatchStep, AckStep, CommitStep DEF Proceed

LEMMA FailureStep ==
    ASSUME IInv, TypeOK', NEW w \in Workers, Failure(w)
    PROVE  IInv'
  <1>1. CASE ConnectFails(w) \/ AckFails(w)
    BY <1>1, ReconnectStep DEF ConnectFails, AckFails
  <1>2. CASE ReceiveFails(w)
    BY <1>2, RaisesStep DEF ReceiveFails
  <1>3. CASE CommitAnswerLost(w)
    <2>1. /\ pc[w] = "commit" /\ link[w] = "up" /\ CommitOnServer(w)
          /\ pc'[w] \in {"backoff", "stopped"} /\ link'[w] = "none"
      BY <1>3 DEF CommitAnswerLost, Close, Goto, IInv, TypeOK
    <2>2. ASSUME NEW v \in Workers \ {w}  PROVE SameFor(v)
      BY <1>3 DEF CommitAnswerLost, Close, Goto, SameFor, IInv, TypeOK
    <2> QED
      BY <2>1, <2>2, CommitOnServerStep
  <1>4. CASE Disconnect(w)
    <2>1. link'[w] = "lost" /\ UNCHANGED <<window, tick, cursor, requeued, done>>
      BY <1>4 DEF Disconnect, history, IInv, TypeOK
    <2>2. ASSUME NEW v \in Workers \ {w}  PROVE SameFor(v) /\ (lock = v => lock' = v)
      BY <1>4 DEF Disconnect, SameFor, IInv, TypeOK
    <2> QED
      BY <2>1, <2>2, OutsideStep
  <1>5. CASE Crash(w)
    BY <1>5, CloseStep DEF Crash
  <1> QED
    BY <1>1, <1>2, <1>3, <1>4, <1>5 DEF Failure

LEMMA SendStep ==
    ASSUME IInv, TypeOK', NEW new \in SUBSET Msgs, Send(new)
    PROVE  IInv'
  <1> USE BoundsAssumption
  <1>1. /\ \A k \in 1 .. tick : window'[k] = window[k]
        /\ UNCHANGED <<tick, cursor, lock, requeued, worker, done>>
        /\ tick \in 0 .. MaxTicks /\ cursor.last \in 0 .. MaxTicks /\ cursor.last <= tick
    BY DEF Send, history, IInv, TypeOK, CursorInv
  <1>2. CursorInv' /\ NothingLost'
    BY <1>1 DEF IInv, CursorInv, NothingLost
  <1>3. ASSUME NEW v \in Workers  PROVE TransactionInv(v)' /\ DrainedInv(v)'
    <2>1. TransactionInv(v) /\ DrainedInv(v) /\ poll[v] \in Poll
      BY DEF IInv, TypeOK
    <2> QED
      BY <1>1, <2>1 DEF TransactionInv, InTransaction, DispatchInv, CommitInv, DrainedInv, worker
  <1> QED
    BY <1>2, <1>3 DEF IInv

LEMMA TickerStep ==
    ASSUME IInv, TypeOK', Ticker
    PROVE  IInv'
  <1>1. /\ tick \in Nat /\ tick' = tick + 1 /\ cursor.last \in Nat /\ cursor.last <= tick
        /\ cursor.open \in Nat
        /\ UNCHANGED <<window, cursor, lock, requeued, pc, link, poll, done>>
    BY BoundsAssumption DEF Ticker, history, IInv, TypeOK, CursorInv
  <1>2. CursorInv' /\ NothingLost'
    BY <1>1 DEF IInv, CursorInv, NothingLost
  <1>3. ASSUME NEW v \in Workers  PROVE TransactionInv(v)' /\ DrainedInv(v)'
    <2>1. TransactionInv(v) /\ poll[v].last \in Nat /\ poll[v].open \in Nat
      BY BoundsAssumption DEF IInv, TypeOK, Poll
    <2>2. TransactionInv(v)'
      BY <1>1, <2>1 DEF TransactionInv, InTransaction, DispatchInv, CommitInv
    <2>3. DrainedInv(v)'
      BY <1>1 DEF Ticker, DrainedInv
    <2> QED
      BY <2>2, <2>3
  <1> QED
    BY <1>2, <1>3 DEF IInv

LEMMA InvStep == IInv /\ [Next]_vars => IInv'
  <1> SUFFICES ASSUME IInv, [Next]_vars  PROVE IInv'
    OBVIOUS
  <1>1. TypeOK'
    BY TypeStep DEF IInv
  <1>2. ASSUME NEW w \in Workers, Start(w)  PROVE IInv'
    <2>1. pc'[w] = "connecting" /\ UNCHANGED <<window, tick, cursor, lock, requeued, done>>
      BY <1>2 DEF Start, database, history, Goto, IInv, TypeOK
    <2>2. ASSUME NEW v \in Workers \ {w}  PROVE SameFor(v)
      BY <1>2 DEF Start, Goto, SameFor, IInv, TypeOK
    <2> QED
      BY <1>1, <2>1, <2>2, OutsideStep
  <1>3. CASE (\E w \in Workers : Stop(w)) \/ UNCHANGED vars
    <2>1. UNCHANGED <<database, pc, link, notes, poll, done>>
      BY <1>3 DEF Stop, vars, worker, history
    <2>2. CursorInv' /\ NothingLost'
      BY <2>1 DEF IInv, CursorInv, NothingLost, database
    <2>3. ASSUME NEW v \in Workers  PROVE TransactionInv(v)' /\ DrainedInv(v)'
      BY <2>1 DEF IInv, TransactionInv, InTransaction, DispatchInv, CommitInv, DrainedInv,
                  database
    <2> QED
      BY <1>1, <2>2, <2>3 DEF IInv
  <1> QED
    BY <1>1, <1>2, <1>3, SendStep, TickerStep, ReceiveStep, ProceedStep, FailureStep DEF Next

LEMMA InvInit == Init => IInv
  <1> SUFFICES ASSUME Init  PROVE IInv
    OBVIOUS
  <1>1. TypeOK
    BY NoPollType, BoundsAssumption DEF Init, TypeOK, Labels
  <1>2. CursorInv /\ NothingLost
    BY DEF Init, CursorInv, NothingLost
  <1>3. \A w \in Workers : TransactionInv(w) /\ DrainedInv(w)
    BY DEF Init, TransactionInv, InTransaction, DrainedInv
  <1> QED
    BY <1>1, <1>2, <1>3 DEF IInv

\* The inductive invariant: a worker in a transaction has the row lock, so the cursor is as it
\* read it, and what it has not yet handled of its window is still before it.
THEOREM Invariant == Spec => []IInv
  BY InvInit, InvStep, PTL DEF Spec

\* For any number of processes, messages, ticks and faults: no message of an acked batch is
\* lost.
THEOREM NeverLost == Spec => []NothingLost
  <1>1. IInv => NothingLost
    BY DEF IInv
  <1> QED
    BY <1>1, Invariant, PTL

\* For any number of processes: none waits past a tick that it has not been told of.
THEOREM NeverAsleep == Spec => []NoLostWakeup
  <1>1. IInv => NoLostWakeup
    <2> SUFFICES ASSUME IInv, NEW w \in Workers, pc[w] = "wait", link[w] = "up", ~notes[w],
                        poll[w].result = "drained"
                 PROVE  NextWindow > tick
      BY DEF NoLostWakeup
    <2>1. cursor.last = tick
      BY DEF IInv, DrainedInv
    <2> QED
      BY <2>1, NextWindowIs, BoundsAssumption DEF IInv, TypeOK
  <1> QED
    BY <1>1, Invariant, PTL

-----------------------------------------------------------------------------
(* The runs of a handler.  A message that nobody has acked and nobody      *)
(* works on cleanly is there because a fault took a batch away, or because *)
(* it was never received: the fault pays for the run that comes.           *)

LEMMA DisjointStep == IInv /\ WindowsDisjoint /\ [Next]_vars => WindowsDisjoint'
  <1> SUFFICES ASSUME IInv, WindowsDisjoint, [Next]_vars  PROVE WindowsDisjoint'
    OBVIOUS
  <1>1. CASE window' = window
    BY <1>1 DEF WindowsDisjoint
  <1>2. ASSUME NEW new \in SUBSET Msgs, Send(new)  PROVE WindowsDisjoint'
    <2>1. /\ window' = [window EXCEPT ![tick + 1] = @ \cup new]
          /\ \A k \in 1 .. MaxTicks + 1 : new \cap window[k] = {}
      BY <1>2 DEF Send, Sent
    <2>2. \A k \in 1 .. MaxTicks + 1 :
             window'[k] = IF k = tick + 1 THEN window[k] \cup new ELSE window[k]
      BY <2>1 DEF IInv, TypeOK
    <2> QED
      BY <2>1, <2>2 DEF WindowsDisjoint
  <1>3. window' = window \/ \E new \in SUBSET Msgs : Send(new)
    <2>1. ASSUME NEW w \in Workers, NEW e, ReceiveRaises(w, e)  PROVE window' = window
      BY <2>1 DEF ReceiveRaises, Reconnect
    <2>2. ASSUME NEW w \in Workers, Receive(w)  PROVE window' = window
      BY <2>1, <2>2 DEF Receive, ReceiveNothing, ReceiveEmpty, ReceiveBatch, ReceiveOverflow,
                        Received
    <2>3. ASSUME NEW w \in Workers, Dispatch(w)  PROVE window' = window
      BY <2>3 DEF Dispatch, HandlerReturns, HandlerRaises, NoHandler, Nacked, NackRaises,
                  SetPoll, Dispatched, database
    <2>4. ASSUME NEW w \in Workers, Proceed(w)  PROVE window' = window
      BY <2>3, <2>4 DEF Proceed, Connect, BackoffOver, SeesStop, NextPoll, Ack, SetPoll, Commit,
                  CommitOnServer, PollAgain, EnterWait, Wake, PollInterval, NoticesLoss,
                  Reconnect, database
    <2>5. ASSUME NEW w \in Workers, Failure(w)  PROVE window' = window
      BY <2>1, <2>5 DEF Failure, ConnectFails, ReceiveFails, AckFails, CommitAnswerLost,
                  CommitOnServer, Disconnect, Crash, Reconnect
    <2> QED
      BY <2>2, <2>4, <2>5 DEF Next, Ticker, Start, Stop, vars, database
  <1> QED
    BY <1>1, <1>2, <1>3

\* A step that runs no handler and puts the message before no worker.
LEMMA RunsKept ==
    ASSUME NEW m \in Msgs, TypeOK, TypeOK', RunsInv(m), runs'[m] = runs[m],
           Dispatching(m)' \subseteq Dispatching(m),
           \/ faults' = faults + 1
           \/ faults' = faults /\ (Settled(m) \/ Held(m) => (Settled(m) \/ Held(m))')
    PROVE  RunsInv(m)'
  <1> DEFINE D == Dispatching(m)
             E == Dispatching(m)'
             N == runs[m]
             settled == Settled(m) \/ Held(m)
             settledNext == (Settled(m) \/ Held(m))'
  <1>1. /\ IsFiniteSet(D) /\ N + Cardinality(D) <= 1 + faults
        /\ ~settled => N + Cardinality(D) <= faults
    BY DEF RunsInv
  <1>2. N \in Nat /\ faults \in Nat
    BY DEF TypeOK
  <1>3. E \subseteq D /\ runs'[m] = N
    OBVIOUS
  <1>4. faults' = faults + 1 \/ (faults' = faults /\ (settled => settledNext))
    OBVIOUS
  <1>5. /\ IsFiniteSet(E) /\ N + Cardinality(E) <= 1 + faults'
        /\ ~settledNext => N + Cardinality(E) <= faults'
    <2> HIDE DEF D, E, N, settled, settledNext
    <2>1. IsFiniteSet(E) /\ Cardinality(E) <= Cardinality(D)
      BY <1>1, <1>3, FS_Subset
    <2>2. Cardinality(E) \in Nat /\ Cardinality(D) \in Nat
      BY <1>1, <2>1, FS_CardinalityType
    <2> QED
      BY <1>1, <1>2, <1>4, <2>1, <2>2
  <1> QED
    BY <1>3, <1>5 DEF RunsInv

\* A worker runs the handler of the message that was before it.
LEMMA RunsOnce ==
    ASSUME NEW m \in Msgs, NEW w \in Workers, TypeOK, TypeOK', RunsInv(m),
           runs'[m] = runs[m] + 1,
           w \in Dispatching(m), Dispatching(m)' = Dispatching(m) \ {w},
           \/ faults' = faults + 1
           \/ faults' = faults /\ (Settled(m) \/ Held(m) => (Settled(m) \/ Held(m))')
    PROVE  RunsInv(m)'
  <1> DEFINE D == Dispatching(m)
             E == Dispatching(m)'
             N == runs[m]
             settled == Settled(m) \/ Held(m)
             settledNext == (Settled(m) \/ Held(m))'
  <1>1. /\ IsFiniteSet(D) /\ N + Cardinality(D) <= 1 + faults
        /\ ~settled => N + Cardinality(D) <= faults
    BY DEF RunsInv
  <1>2. N \in Nat /\ faults \in Nat
    BY DEF TypeOK
  <1>3. E = D \ {w} /\ w \in D /\ runs'[m] = N + 1
    OBVIOUS
  <1>4. faults' = faults + 1 \/ (faults' = faults /\ (settled => settledNext))
    OBVIOUS
  <1>5. /\ IsFiniteSet(E) /\ N + 1 + Cardinality(E) <= 1 + faults'
        /\ ~settledNext => N + 1 + Cardinality(E) <= faults'
    <2> HIDE DEF D, E, N, settled, settledNext
    <2>1. IsFiniteSet(E) /\ Cardinality(E) = Cardinality(D) - 1
      BY <1>1, <1>3, FS_RemoveElement
    <2>2. Cardinality(D) \in Nat
      BY <1>1, FS_CardinalityType
    <2> QED
      BY <1>1, <1>2, <1>4, <2>1, <2>2
  <1> QED
    BY <1>3, <1>5 DEF RunsInv

\* The first step of a run that is certain to come: the message was neither settled nor
\* held, and now it is held.
LEMMA RunsReceived ==
    ASSUME NEW m \in Msgs, NEW w \in Workers, TypeOK, TypeOK', RunsInv(m),
           runs'[m] = runs[m], faults' = faults,
           Dispatching(m)' \subseteq Dispatching(m) \cup {w},
           ~Settled(m), ~Held(m), Held(m)'
    PROVE  RunsInv(m)'
  <1> DEFINE D == Dispatching(m)
             E == Dispatching(m)'
             N == runs[m]
  <1>1. IsFiniteSet(D) /\ N + Cardinality(D) <= faults
    BY DEF RunsInv
  <1>2. N \in Nat /\ faults \in Nat
    BY DEF TypeOK
  <1>3. E \subseteq D \cup {w} /\ runs'[m] = N
    OBVIOUS
  <1>4. IsFiniteSet(E) /\ N + Cardinality(E) <= 1 + faults
    <2> HIDE DEF D, E, N
    <2>1. IsFiniteSet(D \cup {w}) /\ Cardinality(D \cup {w}) <= Cardinality(D) + 1
      <3>1. CASE w \in D
        <4>1. D \cup {w} = D
          BY <3>1
        <4>2. Cardinality(D) \in Nat
          BY <1>1, FS_CardinalityType
        <4>3. Cardinality(D) <= Cardinality(D) + 1
          BY <4>2
        <4> QED
          BY <1>1, <4>1, <4>3
      <3>2. CASE w \notin D
        <4>1. Cardinality(D) \in Nat
          BY <1>1, FS_CardinalityType
        <4>2. IsFiniteSet(D \cup {w}) /\ Cardinality(D \cup {w}) = Cardinality(D) + 1
          BY <1>1, <3>2, FS_AddElement
        <4> QED
          BY <4>1, <4>2
      <3> QED
        BY <3>1, <3>2
    <2>2. IsFiniteSet(E) /\ Cardinality(E) <= Cardinality(D \cup {w})
      BY <1>3, <2>1, FS_Subset
    <2>3. Cardinality(E) \in Nat /\ Cardinality(D) \in Nat /\ Cardinality(D \cup {w}) \in Nat
      BY <1>1, <2>1, <2>2, FS_CardinalityType
    <2> QED
      BY <1>1, <1>2, <2>1, <2>2, <2>3
  <1> QED
    BY <1>3, <1>4 DEF RunsInv

\* A step of one worker that runs no handler and receives nothing.
LEMMA QuietRuns ==
    ASSUME NEW m \in Msgs, NEW w \in Workers, TypeOK, TypeOK', RunsInv(m), window' = window,
           runs'[m] = runs[m],
           \A v \in Workers \ {w} : SameFor(v),
           pc'[w] = "dispatch" => pc[w] = "dispatch" /\ poll'[w].todo \ Unhandled \subseteq poll[w].todo,
           \/ faults' = faults + 1
           \/ /\ faults' = faults /\ (Settled(m) => Settled(m)')
              /\ Holds(w, m) => Holds(w, m)' \/ Settled(m)'
    PROVE  RunsInv(m)'
  <1>1. Dispatching(m)' \subseteq Dispatching(m)
    BY DEF Dispatching, SameFor
  <1>2. ASSUME NEW v \in Workers \ {w}, Holds(v, m)  PROVE Holds(v, m)'
    BY <1>2 DEF SameFor, Holds, InTransaction
  <1>3. CASE faults' = faults + 1
    BY <1>1, <1>3, RunsKept
  <1>4. CASE faults' = faults /\ (Settled(m) => Settled(m)')
             /\ (Holds(w, m) => Holds(w, m)' \/ Settled(m)')
    <2>1. Settled(m) \/ Held(m) => (Settled(m) \/ Held(m))'
      BY <1>2, <1>4 DEF Held
    <2> QED
      BY <1>1, <1>4, <2>1, RunsKept
  <1> QED
    BY <1>3, <1>4

\* The worker leaves the transaction, or was in none.
LEMMA OutsideRuns ==
    ASSUME NEW m \in Msgs, NEW w \in Workers, TypeOK, TypeOK', RunsInv(m),
           UNCHANGED <<window, cursor, runs>>,
           \A v \in Workers \ {w} : SameFor(v),
           pc'[w] # "dispatch",
           faults' = faults + 1 \/ (faults' = faults /\ ~InTransaction(w))
    PROVE  RunsInv(m)'
  <1>1. Settled(m) => Settled(m)'
    BY DEF Settled
  <1>2. ~InTransaction(w) => ~Holds(w, m)
    BY DEF Holds
  <1> QED
    BY <1>1, <1>2, QuietRuns

LEMMA CloseRuns ==
    ASSUME NEW m \in Msgs, NEW w \in Workers, NEW label, TypeOK, TypeOK', RunsInv(m),
           Close(w), Goto(w, label), label # "dispatch", UNCHANGED <<window, cursor, runs>>,
           faults' = faults + 1 \/ (faults' = faults /\ ~InTransaction(w))
    PROVE  RunsInv(m)'
  <1>1. \A v \in Workers \ {w} : SameFor(v)
    BY DEF Close, Goto, SameFor, TypeOK
  <1>2. pc'[w] # "dispatch"
    BY DEF Goto, TypeOK
  <1> QED
    BY <1>1, <1>2, OutsideRuns

LEMMA ReconnectRuns ==
    ASSUME NEW m \in Msgs, NEW w \in Workers, TypeOK, TypeOK', RunsInv(m), Reconnect(w),
           faults' = faults + 1 \/ (faults' = faults /\ ~InTransaction(w))
    PROVE  RunsInv(m)'
  <1>1. /\ Goto(w, IF running[w] THEN "backoff" ELSE "stopped") /\ Close(w)
        /\ UNCHANGED <<window, cursor, runs>>
    BY DEF Reconnect, history
  <1>2. (IF running[w] THEN "backoff" ELSE "stopped") # "dispatch"
    OBVIOUS
  <1> QED
    BY <1>1, <1>2, CloseRuns

LEMMA RaisesRuns ==
    ASSUME NEW m \in Msgs, NEW w \in Workers, NEW e, TypeOK, TypeOK', RunsInv(m),
           ReceiveRaises(w, e), pc[w] = "receive", faults' \in {faults, faults + 1}
    PROVE  RunsInv(m)'
  <1>1. ~InTransaction(w)
    BY DEF InTransaction
  <1>2. CASE Reconnect(w)
    BY <1>1, <1>2, ReconnectRuns
  <1>3. CASE ~Reconnect(w)
    <2>1. Goto(w, "raised") /\ Close(w) /\ UNCHANGED <<window, cursor, runs>>
      BY <1>3 DEF ReceiveRaises, history
    <2>2. "raised" # "dispatch"
      OBVIOUS
    <2> QED
      BY <1>1, <2>1, <2>2, CloseRuns
  <1> QED
    BY <1>2, <1>3

\* Nobody holds a message while the row lock is free.
LEMMA FreeIsUnheld ==
    ASSUME IInv, LockIsFree, NEW m
    PROVE  ~Held(m)
  BY NoWorkerAssumption DEF IInv, LockIsFree, Held, Holds, TransactionInv

LEMMA ReceiveBatchRuns ==
    ASSUME NEW m \in Msgs, NEW w \in Workers, IInv, TypeOK', WindowsDisjoint, RunsInv(m),
           ReceiveBatch(w)
    PROVE  RunsInv(m)'
  <1> DEFINE p == [NoPoll EXCEPT !.txn = "open", !.last = cursor.last, !.open = NextWindow,
                                 !.todo = window[NextWindow]]
  <1>1. TypeOK
    BY DEF IInv
  <1>2. p.open = NextWindow /\ p.todo = window[NextWindow] /\ p.result = "none" /\ p.txn = "open"
    BY DEF NoPoll
  <1>3. Step(w, "receive", "dispatch") /\ Received(w, p)
    BY DEF ReceiveBatch
  <1> HIDE DEF p
  <1>4. /\ pc[w] = "receive" /\ pc'[w] = "dispatch" /\ poll'[w] = p /\ link'[w] = "up"
        /\ faults' = faults /\ UNCHANGED <<window, cursor, runs>> /\ LockIsFree
    BY <1>1, <1>3 DEF Step, Goto, Received, TypeOK, history
  <1>5. \A v \in Workers \ {w} : SameFor(v)
    BY <1>1, <1>3 DEF Step, Goto, Received, SameFor, TypeOK
  <1>6. ~Held(m)
    BY <1>4, FreeIsUnheld
  <1>7. CASE m \notin window[NextWindow]
    <2>1. Dispatching(m)' \subseteq Dispatching(m)
      BY <1>2, <1>4, <1>5, <1>7 DEF Dispatching, SameFor
    <2>2. Settled(m) => Settled(m)'
      BY <1>4 DEF Settled
    <2> QED
      BY <1>1, <1>4, <1>6, <2>1, <2>2, RunsKept
  <1>8. CASE m \in window[NextWindow]
    <2>1. Dispatching(m)' \subseteq Dispatching(m) \cup {w}
      BY <1>5 DEF Dispatching, SameFor
    <2>2. ~Settled(m)
      <3>1. /\ NextWindow = cursor.last + 1 /\ NextWindow <= tick
            /\ tick \in 0 .. MaxTicks /\ cursor.last \in 0 .. MaxTicks
        BY <1>1, NextWindowIs DEF ReceiveBatch, TypeOK
      <3>2. NextWindow \in 1 .. MaxTicks + 1
            /\ \A k \in 1 .. cursor.last : k \in 1 .. MaxTicks + 1 /\ k # NextWindow
        BY <3>1, BoundsAssumption
      <3> HIDE DEF NextWindow
      <3> QED
        BY <1>8, <3>2 DEF Settled, WindowsDisjoint
    <2>3. Holds(w, m)'
      BY <1>2, <1>4, <1>8 DEF Holds, InTransaction
    <2>4. Held(m)'
      BY <2>3 DEF Held
    <2> QED
      BY <1>1, <1>4, <1>6, <2>1, <2>2, <2>4, RunsReceived
  <1> QED
    BY <1>7, <1>8

LEMMA ReceiveRuns ==
    ASSUME NEW m \in Msgs, NEW w \in Workers, IInv, TypeOK', WindowsDisjoint, RunsInv(m),
           Receive(w)
    PROVE  RunsInv(m)'
  <1>1. TypeOK
    BY DEF IInv
  <1>2. CASE ReceiveNothing(w) \/ ReceiveEmpty(w)
    <2>1. PICK p : Step(w, "receive", "commit") /\ Received(w, p)
      BY <1>2 DEF ReceiveNothing, ReceiveEmpty
    <2>2. /\ pc[w] = "receive" /\ pc'[w] = "commit" /\ faults' = faults
          /\ UNCHANGED <<window, cursor, runs>>
      BY <1>1, <2>1 DEF Step, Goto, Received, TypeOK, history
    <2>3. \A v \in Workers \ {w} : SameFor(v)
      BY <1>1, <2>1 DEF Step, Goto, Received, SameFor, TypeOK
    <2>4. ~InTransaction(w)
      BY <2>2 DEF InTransaction
    <2> QED
      BY <1>1, <2>2, <2>3, <2>4, OutsideRuns
  <1>3. CASE ReceiveOverflow(w)
    BY <1>1, <1>3, RaisesRuns DEF ReceiveOverflow
  <1> QED
    BY <1>2, <1>3, ReceiveBatchRuns DEF Receive

\* A step of the worker that has the messages before it: the poll becomes q.
LEMMA DispatchingIs ==
    ASSUME NEW m \in Msgs, NEW w \in Workers, NEW q, TypeOK,
           Step(w, "dispatch", "dispatch"), SetPoll(w, q),
           NEW n \in Msgs, q.todo = poll[w].todo \ {n}
    PROVE  Dispatching(m)' = IF m = n THEN Dispatching(m) \ {w} ELSE Dispatching(m)
  <1>1. /\ pc[w] = "dispatch" /\ pc'[w] = "dispatch" /\ poll'[w] = q
        /\ \A v \in Workers \ {w} : pc'[v] = pc[v] /\ poll'[v] = poll[v]
    BY DEF Step, Goto, SetPoll, TypeOK
  <1> QED
    BY <1>1 DEF Dispatching

LEMMA MessageHeld ==
    ASSUME NEW m \in Msgs, NEW w \in Workers, NEW q, TypeOK,
           Step(w, "dispatch", "dispatch"), SetPoll(w, q),
           Works(w) => q.txn = poll[w].txn /\ q.result = poll[w].result,
           q.open = poll[w].open
    PROVE  Settled(m) \/ Held(m) => (Settled(m) \/ Held(m))'
  <1>1. /\ pc[w] = "dispatch" /\ pc'[w] = "dispatch" /\ poll'[w] = q /\ link'[w] = link[w]
        /\ UNCHANGED <<window, cursor>>
    BY DEF Step, Goto, SetPoll, TypeOK, database
  <1>2. Settled(m) => Settled(m)'
    BY <1>1 DEF Settled
  <1>3. Holds(w, m) => Holds(w, m)'
    BY <1>1 DEF Holds, InTransaction, Works
  <1>4. ASSUME NEW v \in Workers \ {w}, Holds(v, m)  PROVE Holds(v, m)'
    <2>1. pc'[v] = pc[v] /\ poll'[v] = poll[v] /\ link'[v] = link[v]
      BY DEF Step, Goto, SetPoll, TypeOK
    <2> QED
      BY <1>1, <1>4, <2>1 DEF Holds, InTransaction
  <1> QED
    BY <1>2, <1>3, <1>4 DEF Held

\* One message: its handler ran and the run was counted, or it has no handler.
LEMMA MessageRuns ==
    ASSUME NEW m \in Msgs, NEW w \in Workers, NEW q, NEW n \in poll[w].todo,
           TypeOK, TypeOK', RunsInv(m),
           Step(w, "dispatch", "dispatch"), SetPoll(w, q),
           q.todo = poll[w].todo \ {n}, q.open = poll[w].open,
           \/ faults' = faults + 1
           \/ faults' = faults /\ (Works(w) => q.txn = poll[w].txn /\ q.result = poll[w].result),
           \/ n \in Unhandled /\ runs' = runs
           \/ n \notin Unhandled /\ runs' = [runs EXCEPT ![n] = @ + 1]
    PROVE  RunsInv(m)'
  <1>1. n \in Msgs
    BY DEF TypeOK, Poll
  <1>2. Dispatching(m)' = IF m = n THEN Dispatching(m) \ {w} ELSE Dispatching(m)
    BY <1>1, DispatchingIs
  <1>3. \/ faults' = faults + 1
        \/ faults' = faults /\ (Settled(m) \/ Held(m) => (Settled(m) \/ Held(m))')
    BY MessageHeld
  <1>4. CASE m = n /\ n \notin Unhandled
    <2>1. w \in Dispatching(m)
      BY <1>4 DEF Dispatching, Step
    <2>2. runs'[m] = runs[m] + 1
      BY <1>4 DEF TypeOK
    <2> QED
      BY <1>2, <1>3, <1>4, <2>1, <2>2, RunsOnce
  <1>5. CASE m # n \/ n \in Unhandled
    <2>1. runs'[m] = runs[m]
      BY <1>5 DEF TypeOK
    <2> QED
      BY <1>2, <1>3, <2>1, RunsKept
  <1> QED
    BY <1>4, <1>5

\* What a nack makes of the poll.
LEMMA NackPolls ==
    ASSUME NEW w \in Workers, NEW n \in Msgs, TypeOK, Nacked(w, n) \/ NackRaises(w, n)
    PROVE  \E q : /\ SetPoll(w, q) /\ q.todo = poll[w].todo \ {n} /\ q.open = poll[w].open
                  /\ \/ faults' = faults + 1
                     \/ /\ faults' = faults
                        /\ Works(w) => q.txn = poll[w].txn /\ q.result = poll[w].result
  <1> DEFINE r == Without(poll[w], n)
             nacked  == [r EXCEPT !.nacked = @ \cup {n}]
             unacked == [r EXCEPT !.result = "unacked"]
             aborted == [unacked EXCEPT !.txn = "aborted"]
  <1>1. /\ r.todo = poll[w].todo \ {n} /\ r.open = poll[w].open /\ r.txn = poll[w].txn
        /\ r.result = poll[w].result /\ r \in Poll
    BY WithoutIs DEF TypeOK
  <1>2. \/ Works(w) /\ SetPoll(w, nacked) /\ faults' = faults
        \/ ~Works(w) /\ SetPoll(w, unacked) /\ faults' = faults
        \/ faults' = faults + 1 /\ (SetPoll(w, unacked) \/ SetPoll(w, aborted))
    BY DEF Nacked, NackRaises, Fault
  <1> HIDE DEF r
  <1>3. /\ nacked.todo = r.todo /\ nacked.open = r.open /\ nacked.txn = r.txn
        /\ nacked.result = r.result
        /\ unacked.todo = r.todo /\ unacked.open = r.open
        /\ aborted.todo = r.todo /\ aborted.open = r.open
    BY <1>1 DEF Poll
  <1> HIDE DEF nacked, unacked, aborted
  <1> QED
    BY <1>1, <1>2, <1>3

\* What a handler that returns, or a policy that lets the message pass, makes of it.
LEMMA FinePoll ==
    ASSUME NEW w \in Workers, NEW n \in Msgs, TypeOK
    PROVE  LET q == [Without(poll[w], n) EXCEPT !.fine = @ \cup {n}]
           IN  /\ q.todo = poll[w].todo \ {n} /\ q.open = poll[w].open
               /\ q.txn = poll[w].txn /\ q.result = poll[w].result
  <1> DEFINE r == Without(poll[w], n)
  <1>1. /\ r.todo = poll[w].todo \ {n} /\ r.open = poll[w].open /\ r.txn = poll[w].txn
        /\ r.result = poll[w].result /\ r \in Poll
    BY WithoutIs DEF TypeOK
  <1> HIDE DEF r
  <1> QED
    BY <1>1 DEF r, Poll

LEMMA DispatchRuns ==
    ASSUME NEW m \in Msgs, NEW w \in Workers, TypeOK, TypeOK', RunsInv(m), Dispatch(w)
    PROVE  RunsInv(m)'
  <1>1. ASSUME NEW n \in Msgs, HandlerReturns(w, n)  PROVE RunsInv(m)'
    <2>1. PICK q : /\ SetPoll(w, q) /\ q.todo = poll[w].todo \ {n} /\ q.open = poll[w].open
                   /\ q.txn = poll[w].txn /\ q.result = poll[w].result
      BY <1>1, FinePoll DEF HandlerReturns
    <2>2. /\ Step(w, "dispatch", "dispatch") /\ n \in poll[w].todo /\ n \notin Unhandled
          /\ faults' = faults /\ runs' = [runs EXCEPT ![n] = @ + 1]
      BY <1>1 DEF HandlerReturns, Runs
    <2> QED
      BY <2>1, <2>2, MessageRuns
  <1>2. ASSUME NEW n \in Msgs, HandlerRaises(w, n)  PROVE RunsInv(m)'
    <2>1. /\ Step(w, "dispatch", "dispatch") /\ n \in poll[w].todo /\ n \notin Unhandled
          /\ runs' = [runs EXCEPT ![n] = @ + 1] /\ (Nacked(w, n) \/ NackRaises(w, n))
      BY <1>2 DEF HandlerRaises, Runs
    <2> QED
      BY <2>1, NackPolls, MessageRuns
  <1>3. ASSUME NEW n \in Msgs, NoHandler(w, n)  PROVE RunsInv(m)'
    <2>1. Step(w, "dispatch", "dispatch") /\ n \in poll[w].todo /\ n \in Unhandled /\ runs' = runs
      BY <1>3 DEF NoHandler, history
    <2>2. CASE UnknownPolicy = "ack"
      <3>1. PICK q : /\ SetPoll(w, q) /\ q.todo = poll[w].todo \ {n} /\ q.open = poll[w].open
                     /\ q.txn = poll[w].txn /\ q.result = poll[w].result
        BY <1>3, <2>2, FinePoll DEF NoHandler
      <3>2. faults' = faults
        BY <1>3, <2>2 DEF NoHandler
      <3> QED
        BY <2>1, <3>1, <3>2, MessageRuns
    <2>3. CASE UnknownPolicy # "ack"
      <3>1. Nacked(w, n) \/ NackRaises(w, n)
        BY <1>3, <2>3 DEF NoHandler
      <3> QED
        BY <2>1, <3>1, NackPolls, MessageRuns
    <2> QED
      BY <2>2, <2>3
  <1>4. CASE Dispatched(w)
    <2>1. /\ pc[w] = "dispatch" /\ pc'[w] = IF poll[w].result = "unacked" THEN "commit" ELSE "ack"
          /\ UNCHANGED <<window, cursor, runs, faults, link, poll>>
      BY <1>4 DEF Dispatched, Step, Goto, TypeOK, database, history
    <2>2. \A v \in Workers \ {w} : SameFor(v)
      BY <1>4 DEF Dispatched, Step, Goto, SameFor, TypeOK
    <2>3. Settled(m) => Settled(m)'
      BY <2>1 DEF Settled
    <2>4. Holds(w, m) => Holds(w, m)'
      BY <2>1 DEF Holds, InTransaction
    <2> QED
      BY <2>1, <2>2, <2>3, <2>4, QuietRuns
  <1> QED
    BY <1>1, <1>2, <1>3, <1>4 DEF Dispatch

LEMMA AckRuns ==
    ASSUME NEW m \in Msgs, NEW w \in Workers, IInv, TypeOK', RunsInv(m), Ack(w)
    PROVE  RunsInv(m)'
  <1> DEFINE q == [poll[w] EXCEPT !.last = poll[w].open, !.open = 0, !.result = "acked"]
  <1>1. q.last = poll[w].open /\ q.result = "acked" /\ q.txn = poll[w].txn
    BY DEF IInv, TypeOK, Poll
  <1>2. /\ pc[w] = "ack" /\ pc'[w] = "commit" /\ poll'[w] = q /\ link[w] = "up"
        /\ UNCHANGED <<window, cursor, link, faults, runs>>
    BY DEF Ack, Step, Goto, SetPoll, database, history, IInv, TypeOK
  <1>3. \A v \in Workers \ {w} : SameFor(v)
    BY DEF Ack, Step, Goto, SetPoll, SameFor, IInv, TypeOK
  <1> HIDE DEF q
  <1>4. Settled(m) => Settled(m)'
    BY <1>2 DEF Settled
  <1>5. Holds(w, m) => Holds(w, m)'
    BY <1>1, <1>2 DEF Holds, InTransaction
  <1>6. TypeOK
    BY DEF IInv
  <1> QED
    BY <1>2, <1>3, <1>4, <1>5, <1>6, QuietRuns

\* The commit settles the messages of an acked batch, and those alone.
LEMMA CommitSettles ==
    ASSUME NEW m \in Msgs, NEW w \in Workers, IInv, pc[w] = "commit", link[w] = "up",
           CommitOnServer(w)
    PROVE  /\ window' = window /\ runs' = runs
           /\ Settled(m) \/ Holds(w, m) => Settled(m)'
  <1>1. window' = window /\ runs' = runs
    BY DEF CommitOnServer
  <1>2. /\ cursor.last \in 0 .. MaxTicks
        /\ poll[w].result # "none"
        /\ poll[w].result = "acked" => poll[w].last = cursor.last + 1
        /\ poll[w].result \in {"drained", "unacked"} => poll[w].last = cursor.last
        /\ poll[w].result = "emptied" => poll[w].last = cursor.last + 1
        /\ poll[w].result \in {"acked", "drained", "unacked", "emptied"}
    BY DEF IInv, TypeOK, TransactionInv, InTransaction, CommitInv, Poll, Results
  <1>3. CASE poll[w].txn = "open"
    <2>1. cursor'.last = poll[w].last
      BY <1>3 DEF CommitOnServer
    <2>2. cursor'.last \in {cursor.last, cursor.last + 1}
      BY <1>2, <2>1
    <2>3. \A k \in 1 .. cursor.last : k \in 1 .. cursor'.last
      BY <1>2, <2>2, BoundsAssumption
    <2>4. Settled(m) => Settled(m)'
      BY <1>1, <2>3 DEF Settled
    <2>5. ASSUME Holds(w, m)  PROVE Settled(m)'
      <3>1. poll[w].result = "acked" /\ m \in window[poll[w].last]
        BY <2>5 DEF Holds
      <3>2. cursor'.last \in 1 .. cursor'.last /\ m \in window[cursor'.last]
        BY <1>2, <2>1, <3>1, BoundsAssumption
      <3> QED
        BY <1>1, <3>2 DEF Settled
    <2> QED
      BY <1>1, <2>4, <2>5
  <1>4. CASE poll[w].txn # "open"
    <2>1. cursor' = cursor /\ ~Holds(w, m)
      BY <1>4 DEF CommitOnServer, Holds
    <2> QED
      BY <1>1, <2>1 DEF Settled
  <1> QED
    BY <1>3, <1>4

LEMMA CommitRuns ==
    ASSUME NEW m \in Msgs, NEW w \in Workers, IInv, TypeOK', RunsInv(m), Commit(w)
    PROVE  RunsInv(m)'
  <1>1. /\ pc[w] = "commit" /\ pc'[w] = "returned" /\ link[w] = "up" /\ CommitOnServer(w)
        /\ faults' = faults
    BY DEF Commit, Step, Goto, IInv, TypeOK
  <1>2. \A v \in Workers \ {w} : SameFor(v)
    BY DEF Commit, Step, Goto, SameFor, IInv, TypeOK
  <1>3. TypeOK
    BY DEF IInv
  <1> QED
    BY <1>1, <1>2, <1>3, CommitSettles, QuietRuns

LEMMA ProceedRuns ==
    ASSUME NEW m \in Msgs, NEW w \in Workers, IInv, TypeOK', RunsInv(m), Proceed(w)
    PROVE  RunsInv(m)'
  <1>1. TypeOK
    BY DEF IInv
  <1>2. CASE Connect(w) \/ BackoffOver(w) \/ NextPoll(w) \/ PollAgain(w) \/ EnterWait(w)
               \/ Wake(w) \/ PollInterval(w)
    <2>1. /\ UNCHANGED <<window, cursor, runs, faults>>
          /\ pc'[w] \in {"poll", "connecting", "receive", "wait"}
          /\ pc[w] \in {"connecting", "backoff", "poll", "returned", "wait"}
      BY <1>1, <1>2 DEF Connect, BackoffOver, NextPoll, PollAgain, EnterWait, Wake,
                        PollInterval, database, history, Step, Goto, TypeOK
    <2>2. \A v \in Workers \ {w} : SameFor(v)
      BY <1>1, <1>2 DEF Connect, BackoffOver, NextPoll, PollAgain, EnterWait, Wake,
                        PollInterval, SameFor, Step, Goto, TypeOK
    <2>3. ~InTransaction(w)
      BY <2>1 DEF InTransaction
    <2> QED
      BY <1>1, <2>1, <2>2, <2>3, OutsideRuns
  <1>3. CASE SeesStop(w)
    <2>1. /\ Goto(w, "stopped") /\ Close(w) /\ UNCHANGED <<window, cursor, runs, faults>>
          /\ pc[w] \notin {"dispatch", "ack", "commit"}
      BY <1>3 DEF SeesStop, history
    <2>2. ~InTransaction(w) /\ "stopped" # "dispatch"
      BY <2>1 DEF InTransaction
    <2> QED
      BY <1>1, <2>1, <2>2, CloseRuns
  <1>4. CASE NoticesLoss(w)
    <2>1. Reconnect(w) /\ faults' = faults /\ link[w] = "lost"
      BY <1>4 DEF NoticesLoss
    <2>2. ~InTransaction(w)
      BY <2>1 DEF InTransaction
    <2> QED
      BY <1>1, <2>1, <2>2, ReconnectRuns
  <1> QED
    BY <1>1, <1>2, <1>3, <1>4, DispatchRuns, AckRuns, CommitRuns DEF Proceed

LEMMA FailureRuns ==
    ASSUME NEW m \in Msgs, NEW w \in Workers, IInv, TypeOK', RunsInv(m), Failure(w)
    PROVE  RunsInv(m)'
  <1>1. TypeOK
    BY DEF IInv
  <1>2. faults' = faults + 1
    BY DEF Failure, ConnectFails, ReceiveFails, AckFails, CommitAnswerLost, Disconnect, Crash,
           Fault
  <1>3. CASE ConnectFails(w) \/ AckFails(w)
    BY <1>1, <1>2, <1>3, ReconnectRuns DEF ConnectFails, AckFails
  <1>4. CASE ReceiveFails(w)
    BY <1>1, <1>2, <1>4, RaisesRuns DEF ReceiveFails
  <1>5. CASE CommitAnswerLost(w)
    <2>1. /\ pc[w] = "commit" /\ link[w] = "up" /\ CommitOnServer(w)
          /\ pc'[w] \in {"backoff", "stopped"}
      BY <1>1, <1>5 DEF CommitAnswerLost, Goto, TypeOK
    <2>2. \A v \in Workers \ {w} : SameFor(v)
      BY <1>1, <1>5 DEF CommitAnswerLost, Close, Goto, SameFor, TypeOK
    <2> QED
      BY <1>1, <1>2, <2>1, <2>2, CommitSettles, QuietRuns
  <1>6. CASE Disconnect(w)
    <2>1. UNCHANGED <<window, cursor, runs, pc, poll>>
      BY <1>6 DEF Disconnect, history
    <2>2. \A v \in Workers \ {w} : SameFor(v)
      BY <1>1, <1>6 DEF Disconnect, SameFor, TypeOK
    <2> QED
      BY <1>1, <1>2, <2>1, <2>2, QuietRuns
  <1>7. CASE Crash(w)
    <2>1. Goto(w, "dead") /\ Close(w) /\ UNCHANGED <<window, cursor, runs>>
      BY <1>7 DEF Crash
    <2>2. "dead" # "dispatch"
      OBVIOUS
    <2> QED
      BY <1>1, <1>2, <2>1, <2>2, CloseRuns
  <1> QED
    BY <1>3, <1>4, <1>5, <1>6, <1>7 DEF Failure

LEMMA RunsStep ==
    ASSUME NEW m \in Msgs, IInv, TypeOK', WindowsDisjoint, RunsInv(m), [Next]_vars
    PROVE  RunsInv(m)'
  <1>1. TypeOK
    BY DEF IInv
  <1>2. ASSUME UNCHANGED <<cursor, runs, pc, link, poll, faults>>,
               \A k \in 1 .. tick : window'[k] = window[k]
        PROVE  RunsInv(m)'
    <2>1. Dispatching(m)' \subseteq Dispatching(m)
      BY <1>2 DEF Dispatching
    <2>2. Settled(m) => Settled(m)'
      <3>1. \A k \in 1 .. cursor.last : window'[k] = window[k]
        BY <1>1, <1>2, BoundsAssumption DEF IInv, CursorInv, TypeOK
      <3> QED
        BY <1>2, <3>1 DEF Settled
    <2>3. ASSUME NEW v \in Workers, Holds(v, m)  PROVE Holds(v, m)'
      <3>1. DispatchInv(v) /\ CommitInv(v)
        BY <2>3 DEF Holds, IInv, TransactionInv
      <3>2. cursor.last \in 0 .. MaxTicks /\ tick \in 0 .. MaxTicks
        BY <1>1 DEF TypeOK
      <3>3. pc[v] = "commit" => window'[poll[v].last] = window[poll[v].last]
        <4> SUFFICES ASSUME pc[v] = "commit"
                     PROVE  window'[poll[v].last] = window[poll[v].last]
          OBVIOUS
        <4>1. poll[v].last = cursor.last + 1 /\ poll[v].last <= tick
          BY <2>3, <3>1 DEF Holds, CommitInv
        <4>2. poll[v].last \in 1 .. tick
          BY <3>2, <4>1, BoundsAssumption
        <4> QED
          BY <1>2, <4>2
      <3>4. pc[v] # "commit" => window'[poll[v].open] = window[poll[v].open]
        <4> SUFFICES ASSUME pc[v] # "commit"
                     PROVE  window'[poll[v].open] = window[poll[v].open]
          OBVIOUS
        <4>1. poll[v].open = cursor.last + 1 /\ poll[v].open <= tick
          BY <2>3, <3>1 DEF Holds, InTransaction, DispatchInv
        <4>2. poll[v].open \in 1 .. tick
          BY <3>2, <4>1, BoundsAssumption
        <4> QED
          BY <1>2, <4>2
      <3> QED
        BY <1>2, <2>3, <3>3, <3>4 DEF Holds, InTransaction
    <2>4. Settled(m) \/ Held(m) => (Settled(m) \/ Held(m))'
      BY <2>2, <2>3 DEF Held
    <2> QED
      BY <1>1, <1>2, <2>1, <2>4, RunsKept
  <1>3. ASSUME NEW new \in SUBSET Msgs, Send(new)  PROVE RunsInv(m)'
    <2>1. UNCHANGED <<cursor, runs, pc, link, poll, faults>>
      BY <1>3 DEF Send, worker, history
    <2>2. \A k \in 1 .. tick : window'[k] = window[k]
      BY <1>1, <1>3, BoundsAssumption DEF Send, TypeOK
    <2> QED
      BY <1>2, <2>1, <2>2
  <1>4. CASE Ticker \/ (\E w \in Workers : Stop(w)) \/ UNCHANGED vars
    <2>1. UNCHANGED <<window, cursor, runs, pc, link, poll, faults>>
      BY <1>4 DEF Ticker, Stop, vars, database, worker, history
    <2> QED
      BY <1>2, <2>1
  <1>5. ASSUME NEW w \in Workers, Start(w)  PROVE RunsInv(m)'
    <2>1. /\ UNCHANGED <<window, cursor, runs, faults>> /\ pc'[w] = "connecting"
          /\ pc[w] \in {"new", "dead"}
      BY <1>1, <1>5 DEF Start, Goto, TypeOK, database, history
    <2>2. \A v \in Workers \ {w} : SameFor(v)
      BY <1>1, <1>5 DEF Start, Goto, SameFor, TypeOK
    <2>3. ~InTransaction(w)
      BY <2>1 DEF InTransaction
    <2> QED
      BY <1>1, <2>1, <2>2, <2>3, OutsideRuns
  <1> QED
    BY <1>3, <1>4, <1>5, ReceiveRuns, ProceedRuns, FailureRuns DEF Next

LEMMA FInvStep == FInv /\ [Next]_vars => FInv'
  <1> SUFFICES ASSUME FInv, [Next]_vars  PROVE FInv'
    OBVIOUS
  <1>1. IInv /\ WindowsDisjoint /\ \A m \in Msgs : RunsInv(m)
    BY DEF FInv
  <1>2. IInv' /\ WindowsDisjoint'
    BY <1>1, InvStep, DisjointStep
  <1>3. TypeOK'
    BY <1>2 DEF IInv
  <1>4. ASSUME NEW m \in Msgs  PROVE RunsInv(m)'
    BY <1>1, <1>3, RunsStep
  <1> QED
    BY <1>2, <1>4 DEF FInv

LEMMA FInvInit == Init => FInv
  <1> SUFFICES ASSUME Init  PROVE FInv
    OBVIOUS
  <1>1. IInv
    BY InvInit
  <1>2. WindowsDisjoint
    BY DEF Init, WindowsDisjoint
  <1>3. ASSUME NEW m \in Msgs  PROVE RunsInv(m)
    <2>1. Dispatching(m) = {} /\ runs[m] = 0 /\ faults = 0
      BY DEF Init, Dispatching
    <2>2. IsFiniteSet({}) /\ Cardinality({}) = 0
      BY FS_EmptySet
    <2> QED
      BY <2>1, <2>2 DEF RunsInv
  <1> QED
    BY <1>1, <1>2, <1>3 DEF FInv

\* What was run of a message and what is certain to come are paid for by the faults.
THEOREM RunsInvariant == Spec => []FInv
  BY FInvInit, FInvStep, PTL DEF Spec

\* For any number of processes, messages, ticks and faults: the handler of a message runs once,
\* and once more at most for each fault.
THEOREM RunsBounded == Spec => []RunsOncePerFault
  <1>1. FInv => RunsOncePerFault
    <2> SUFFICES ASSUME FInv, NEW m \in Msgs  PROVE runs[m] <= 1 + faults
      BY DEF RunsOncePerFault
    <2> DEFINE D == Dispatching(m)
    <2>1. IsFiniteSet(D) /\ runs[m] + Cardinality(D) <= 1 + faults
      BY DEF FInv, RunsInv
    <2>2. runs[m] \in Nat /\ faults \in Nat
      BY DEF FInv, IInv, TypeOK
    <2> HIDE DEF D
    <2>3. Cardinality(D) \in Nat
      BY <2>1, FS_CardinalityType
    <2> QED
      BY <2>1, <2>2, <2>3
  <1> QED
    BY <1>1, RunsInvariant, PTL

-----------------------------------------------------------------------------
(* The processes are one consumer.                                         *)

\* How a worker comes to be in a transaction, or stays in it.
LEMMA WorkerSteps ==
    ASSUME TypeOK, NEW w \in Workers, Start(w) \/ Receive(w) \/ Proceed(w) \/ Failure(w)
    PROVE  /\ window' = window /\ tick' = tick
           /\ \A v \in Workers \ {w} : SameFor(v)
           /\ \/ ~InTransaction(w)'
              \/ ReceiveNothing(w) \/ ReceiveEmpty(w) \/ ReceiveBatch(w)
              \/ Dispatch(w) \/ Ack(w)
              \/ UNCHANGED <<pc, link, poll>>
  <1> USE DEF InTransaction
  <1> DEFINE Others == \A v \in Workers \ {w} : SameFor(v)
             Ends   == window' = window /\ tick' = tick /\ Others /\ ~InTransaction(w)'
  <1>1. ASSUME NEW label, Close(w), Goto(w, label), UNCHANGED <<window, tick>>  PROVE Ends
    BY <1>1 DEF Close, Goto, SameFor, TypeOK
  <1>2. ASSUME Reconnect(w)  PROVE Ends
    BY <1>1, <1>2 DEF Reconnect
  <1>3. ASSUME NEW e, ReceiveRaises(w, e)  PROVE Ends
    BY <1>1, <1>2, <1>3 DEF ReceiveRaises
  <1>4. CASE Start(w)
    BY <1>4 DEF Start, Goto, SameFor, TypeOK, database
  <1>5. CASE Receive(w)
    <2>1. ASSUME NEW p, NEW label, Step(w, "receive", label), Received(w, p)
          PROVE  window' = window /\ tick' = tick /\ Others
      BY <2>1 DEF Step, Goto, Received, SameFor, TypeOK
    <2>2. CASE ReceiveNothing(w) \/ ReceiveEmpty(w) \/ ReceiveBatch(w)
      BY <2>1, <2>2 DEF ReceiveNothing, ReceiveEmpty, ReceiveBatch
    <2>3. CASE ReceiveOverflow(w)
      BY <1>3, <2>3 DEF ReceiveOverflow
    <2> QED
      BY <1>5, <2>2, <2>3 DEF Receive
  <1>6. CASE Dispatch(w)
    <2>1. ASSUME NEW p, NEW label, Step(w, "dispatch", label), SetPoll(w, p)
          PROVE  window' = window /\ tick' = tick /\ Others
      BY <2>1 DEF Step, Goto, SetPoll, SameFor, TypeOK, database
    <2>2. CASE Dispatched(w)
      BY <1>6, <2>2 DEF Dispatched, Step, Goto, SameFor, TypeOK, database
    <2>3. CASE ~Dispatched(w)
      <3>1. Step(w, "dispatch", "dispatch") /\ \E p : SetPoll(w, p)
        BY <1>6, <2>3 DEF Dispatch, HandlerReturns, HandlerRaises, NoHandler, Nacked, NackRaises
      <3> QED
        BY <1>6, <2>1, <3>1
    <2> QED
      BY <2>2, <2>3
  <1>7. CASE Ack(w)
    BY <1>7 DEF Ack, Step, Goto, SetPoll, SameFor, TypeOK, database
  <1>8. CASE Commit(w)
    BY <1>8 DEF Commit, CommitOnServer, Step, Goto, SameFor, TypeOK
  <1>9. CASE Connect(w) \/ BackoffOver(w) \/ NextPoll(w) \/ PollAgain(w) \/ EnterWait(w)
               \/ Wake(w) \/ PollInterval(w)
    BY <1>9 DEF Connect, BackoffOver, NextPoll, PollAgain, EnterWait, Wake, PollInterval,
                database, Step, Goto, SameFor, TypeOK
  <1>10. CASE SeesStop(w)
    BY <1>1, <1>10 DEF SeesStop
  <1>11. CASE NoticesLoss(w) \/ ConnectFails(w) \/ AckFails(w)
    BY <1>2, <1>11 DEF NoticesLoss, ConnectFails, AckFails
  <1>12. CASE ReceiveFails(w)
    BY <1>3, <1>12 DEF ReceiveFails
  <1>13. CASE CommitAnswerLost(w)
    BY <1>1, <1>13 DEF CommitAnswerLost, CommitOnServer
  <1>14. CASE Disconnect(w)
    BY <1>14 DEF Disconnect, SameFor, TypeOK
  <1>15. CASE Crash(w)
    BY <1>1, <1>15 DEF Crash
  <1> QED
    BY <1>4, <1>5, <1>6, <1>7, <1>8, <1>9, <1>10, <1>11, <1>12, <1>13, <1>14, <1>15
       DEF Proceed, Failure

LEMMA BatchReceived ==
    ASSUME TypeOK, NEW w \in Workers, ReceiveNothing(w) \/ ReceiveEmpty(w) \/ ReceiveBatch(w)
    PROVE  BatchInv(w)'
  <1>1. ASSUME NEW p, NEW label, Step(w, "receive", label), Received(w, p)
        PROVE  poll'[w] = p /\ window' = window
    BY <1>1 DEF Received, TypeOK
  <1>2. CASE ReceiveNothing(w)
    <2> DEFINE p == [NoPoll EXCEPT !.txn = "open", !.last = cursor.last, !.result = "drained"]
    <2>1. p.result = "drained" /\ p.todo = {} /\ p.fine = {} /\ p.nacked = {}
      BY DEF NoPoll
    <2>2. poll'[w] = p
      BY <1>1, <1>2 DEF ReceiveNothing
    <2> HIDE DEF p
    <2> QED
      BY <2>1, <2>2 DEF BatchInv
  <1>3. CASE ReceiveEmpty(w)
    <2> DEFINE p == [NoPoll EXCEPT !.txn = "open", !.last = NextWindow, !.result = "emptied"]
    <2>1. p.result = "emptied" /\ p.todo = {} /\ p.fine = {} /\ p.nacked = {}
      BY DEF NoPoll
    <2>2. poll'[w] = p
      BY <1>1, <1>3 DEF ReceiveEmpty
    <2> HIDE DEF p
    <2> QED
      BY <2>1, <2>2 DEF BatchInv
  <1>4. CASE ReceiveBatch(w)
    <2> DEFINE p == [NoPoll EXCEPT !.txn = "open", !.last = cursor.last, !.open = NextWindow,
                                   !.todo = window[NextWindow]]
    <2>1. /\ p.result = "none" /\ p.todo = window[NextWindow] /\ p.open = NextWindow
          /\ p.fine = {} /\ p.nacked = {}
      BY DEF NoPoll
    <2>2. poll'[w] = p /\ window' = window
      BY <1>1, <1>4 DEF ReceiveBatch
    <2> HIDE DEF p
    <2> QED
      BY <2>1, <2>2 DEF BatchInv
  <1> QED
    BY <1>2, <1>3, <1>4

\* A message that leaves the list becomes fine, is nacked, or is left to the next attempt.
LEMMA BatchMessage ==
    ASSUME IInv, NEW w \in Workers, BatchInv(w), NEW q, NEW n \in poll[w].todo,
           Step(w, "dispatch", "dispatch"), SetPoll(w, q),
           q.todo = poll[w].todo \ {n}, q.open = poll[w].open,
           q.result \in {poll[w].result, "unacked"},
           \/ q.fine = poll[w].fine \cup {n} /\ q.nacked = poll[w].nacked
           \/ q.nacked = poll[w].nacked \cup {n} /\ q.fine = poll[w].fine
           \/ q.nacked = poll[w].nacked /\ q.fine = poll[w].fine
    PROVE  BatchInv(w)'
  <1>1. /\ poll'[w] = q /\ pc[w] = "dispatch" /\ pc'[w] = "dispatch" /\ link'[w] = link[w]
        /\ window' = window
    BY DEF Step, Goto, SetPoll, IInv, TypeOK, database
  <1>2. CASE link[w] # "up"
    BY <1>1, <1>2 DEF BatchInv, InTransaction
  <1>3. CASE link[w] = "up"
    <2>1. poll[w].result \in {"none", "unacked"}
      BY <1>1, <1>3 DEF IInv, TransactionInv, InTransaction, DispatchInv
    <2>2. /\ poll[w].todo \cap poll[w].fine = {} /\ poll[w].todo \cap poll[w].nacked = {}
          /\ poll[w].fine \cap poll[w].nacked = {}
          /\ poll[w].todo \cup poll[w].fine \cup poll[w].nacked \subseteq window[poll[w].open]
      BY <1>1, <1>3, <2>1 DEF BatchInv, InTransaction
    <2>3. q.result \in {"none", "unacked"}
      BY <2>1
    <2>4. /\ q.todo \cap q.fine = {} /\ q.todo \cap q.nacked = {} /\ q.fine \cap q.nacked = {}
          /\ q.todo \cup q.fine \cup q.nacked \subseteq window[q.open]
      BY <2>2
    <2> QED
      BY <1>1, <2>3, <2>4 DEF BatchInv
  <1> QED
    BY <1>2, <1>3

LEMMA BatchNacked ==
    ASSUME IInv, NEW w \in Workers, BatchInv(w), NEW n \in poll[w].todo,
           Step(w, "dispatch", "dispatch"), Nacked(w, n) \/ NackRaises(w, n)
    PROVE  BatchInv(w)'
  <1> DEFINE r == Without(poll[w], n)
             nacked  == [r EXCEPT !.nacked = @ \cup {n}]
             unacked == [r EXCEPT !.result = "unacked"]
             aborted == [unacked EXCEPT !.txn = "aborted"]
  <1>1. /\ r.todo = poll[w].todo \ {n} /\ r.open = poll[w].open /\ r.result = poll[w].result
        /\ r.fine = poll[w].fine /\ r.nacked = poll[w].nacked /\ r \in Poll
    BY WithoutIs DEF IInv, TypeOK
  <1>2. SetPoll(w, nacked) \/ SetPoll(w, unacked) \/ SetPoll(w, aborted)
    BY DEF Nacked, NackRaises
  <1> HIDE DEF r
  <1>3. /\ nacked.todo = r.todo /\ nacked.open = r.open /\ nacked.result = r.result
        /\ nacked.fine = r.fine /\ nacked.nacked = r.nacked \cup {n}
        /\ unacked.todo = r.todo /\ unacked.open = r.open /\ unacked.result = "unacked"
        /\ unacked.fine = r.fine /\ unacked.nacked = r.nacked
        /\ aborted.todo = r.todo /\ aborted.open = r.open /\ aborted.result = "unacked"
        /\ aborted.fine = r.fine /\ aborted.nacked = r.nacked
    BY <1>1 DEF Poll
  <1> HIDE DEF nacked, unacked, aborted
  <1>4. CASE SetPoll(w, nacked)
    BY <1>1, <1>3, <1>4, BatchMessage
  <1>5. CASE SetPoll(w, unacked)
    BY <1>1, <1>3, <1>5, BatchMessage
  <1>6. CASE SetPoll(w, aborted)
    BY <1>1, <1>3, <1>6, BatchMessage
  <1> QED
    BY <1>2, <1>4, <1>5, <1>6

LEMMA BatchFine ==
    ASSUME IInv, NEW w \in Workers, BatchInv(w), NEW n \in poll[w].todo,
           Step(w, "dispatch", "dispatch"),
           SetPoll(w, [Without(poll[w], n) EXCEPT !.fine = @ \cup {n}])
    PROVE  BatchInv(w)'
  <1> DEFINE r == Without(poll[w], n)
             f == [r EXCEPT !.fine = @ \cup {n}]
  <1>1. /\ r.todo = poll[w].todo \ {n} /\ r.open = poll[w].open /\ r.result = poll[w].result
        /\ r.fine = poll[w].fine /\ r.nacked = poll[w].nacked /\ r \in Poll
    BY WithoutIs DEF IInv, TypeOK
  <1> HIDE DEF r
  <1>2. /\ f.todo = r.todo /\ f.open = r.open /\ f.result = r.result
        /\ f.fine = r.fine \cup {n} /\ f.nacked = r.nacked
    BY <1>1 DEF Poll
  <1>3. SetPoll(w, f)
    BY DEF r
  <1> HIDE DEF f
  <1> QED
    BY <1>1, <1>2, <1>3, BatchMessage

LEMMA BatchDispatch ==
    ASSUME IInv, NEW w \in Workers, BatchInv(w), Dispatch(w)
    PROVE  BatchInv(w)'
  <1>1. ASSUME NEW n \in Msgs, HandlerReturns(w, n)  PROVE BatchInv(w)'
    BY <1>1, BatchFine DEF HandlerReturns
  <1>2. ASSUME NEW n \in Msgs, HandlerRaises(w, n)  PROVE BatchInv(w)'
    BY <1>2, BatchNacked DEF HandlerRaises
  <1>3. ASSUME NEW n \in Msgs, NoHandler(w, n)  PROVE BatchInv(w)'
    BY <1>3, BatchFine, BatchNacked DEF NoHandler
  <1>4. CASE Dispatched(w)
    <2>1. pc[w] = "dispatch" /\ UNCHANGED <<window, link, poll>>
      BY <1>4 DEF Dispatched, Step, database
    <2> QED
      BY <2>1 DEF BatchInv, InTransaction
  <1> QED
    BY <1>1, <1>2, <1>3, <1>4 DEF Dispatch

LEMMA BatchAck ==
    ASSUME IInv, NEW w \in Workers, BatchInv(w), Ack(w)
    PROVE  BatchInv(w)'
  <1> DEFINE q == [poll[w] EXCEPT !.last = poll[w].open, !.open = 0, !.result = "acked"]
  <1>1. /\ q.last = poll[w].open /\ q.result = "acked" /\ q.todo = poll[w].todo
        /\ q.fine = poll[w].fine /\ q.nacked = poll[w].nacked
    BY DEF IInv, TypeOK, Poll
  <1>2. pc[w] = "ack" /\ poll'[w] = q /\ link[w] = "up" /\ window' = window
    BY DEF Ack, Step, Goto, SetPoll, database, IInv, TypeOK
  <1>3. poll[w].result = "none"
    BY <1>2 DEF IInv, TransactionInv, InTransaction, DispatchInv
  <1> HIDE DEF q
  <1> QED
    BY <1>1, <1>2, <1>3 DEF BatchInv, InTransaction

\* A worker that stands still, while the log grows or others work.
LEMMA BatchSame ==
    ASSUME IInv, NEW w \in Workers, BatchInv(w),
           pc'[w] = pc[w], link'[w] = link[w], poll'[w] = poll[w],
           \A k \in 1 .. tick : window'[k] = window[k]
    PROVE  BatchInv(w)'
  <1> SUFFICES ASSUME InTransaction(w)
               PROVE  BatchInv(w)'
    BY DEF BatchInv, InTransaction
  <1> DEFINE p == poll[w]
  <1>1. /\ p.todo \cap p.fine = {} /\ p.todo \cap p.nacked = {} /\ p.fine \cap p.nacked = {}
        /\ p.todo \cup p.fine \cup p.nacked \subseteq
               CASE p.result = "drained"             -> {}
                 [] p.result \in {"acked", "emptied"} -> window[p.last]
                 [] OTHER                            -> window[p.open]
    BY DEF BatchInv
  <1>2. /\ DispatchInv(w) /\ CommitInv(w) /\ cursor.last \in 0 .. MaxTicks
        /\ tick \in 0 .. MaxTicks /\ p.result \in Results
    BY DEF IInv, TransactionInv, TypeOK, Poll
  <1>3. p.result \in {"acked", "emptied"} => window'[p.last] = window[p.last]
    <2> SUFFICES ASSUME p.result \in {"acked", "emptied"}
                 PROVE  window'[p.last] = window[p.last]
      OBVIOUS
    <2>1. p.last = cursor.last + 1 /\ p.last <= tick
      BY <1>2 DEF InTransaction, DispatchInv, CommitInv
    <2>2. p.last \in 1 .. tick
      BY <1>2, <2>1, BoundsAssumption
    <2> QED
      BY <2>2
  <1>4. p.result \notin {"drained", "acked", "emptied"} => window'[p.open] = window[p.open]
    <2> SUFFICES ASSUME p.result \notin {"drained", "acked", "emptied"}
                 PROVE  window'[p.open] = window[p.open]
      OBVIOUS
    <2>1. p.open = cursor.last + 1 /\ p.open <= tick
      BY <1>2 DEF InTransaction, DispatchInv, CommitInv, Results
    <2>2. p.open \in 1 .. tick
      BY <1>2, <2>1, BoundsAssumption
    <2> QED
      BY <2>2
  <1>5. poll'[w] = p
    OBVIOUS
  <1> HIDE DEF p
  <1> QED
    BY <1>1, <1>3, <1>4, <1>5 DEF BatchInv

LEMMA NextSteps ==
    ASSUME [Next]_vars
    PROVE  \/ \E new \in SUBSET Msgs : Send(new)
           \/ Ticker \/ UNCHANGED vars \/ \E w \in Workers : Stop(w)
           \/ \E w \in Workers : Start(w) \/ Receive(w) \/ Proceed(w) \/ Failure(w)
  BY DEF Next

LEMMA BatchStep ==
    ASSUME IInv, NEW v \in Workers, BatchInv(v), [Next]_vars
    PROVE  BatchInv(v)'
  <1>1. TypeOK
    BY DEF IInv
  <1>2. ASSUME NEW new \in SUBSET Msgs, Send(new)  PROVE BatchInv(v)'
    <2>1. UNCHANGED <<pc, link, poll>>
      BY <1>2 DEF Send, worker
    <2>2. \A k \in 1 .. tick : window'[k] = window[k]
      BY <1>1, <1>2, BoundsAssumption DEF Send, TypeOK
    <2> QED
      BY <2>1, <2>2, BatchSame
  <1>3. CASE Ticker \/ UNCHANGED vars \/ \E w \in Workers : Stop(w)
    <2>1. UNCHANGED <<window, pc, link, poll>>
      BY <1>3 DEF Ticker, Stop, vars, database, worker
    <2> QED
      BY <2>1, BatchSame
  <1>4. ASSUME NEW w \in Workers, Start(w) \/ Receive(w) \/ Proceed(w) \/ Failure(w)
        PROVE  BatchInv(v)'
    <2>1. window' = window
      BY <1>1, <1>4, WorkerSteps
    <2>2. CASE v # w
      <3>1. SameFor(v)
        BY <1>1, <1>4, <2>2, WorkerSteps
      <3> QED
        BY <2>1, <3>1, BatchSame DEF SameFor
    <2>3. CASE v = w
      <3>1. \/ ~InTransaction(v)'
            \/ ReceiveNothing(v) \/ ReceiveEmpty(v) \/ ReceiveBatch(v)
            \/ Dispatch(v) \/ Ack(v) \/ UNCHANGED <<pc, link, poll>>
        BY <1>1, <1>4, <2>3, WorkerSteps
      <3>2. CASE ~InTransaction(v)'
        BY <3>2 DEF BatchInv
      <3>3. CASE ReceiveNothing(v) \/ ReceiveEmpty(v) \/ ReceiveBatch(v)
        BY <1>1, <3>3, BatchReceived
      <3>4. CASE Dispatch(v)
        BY <3>4, BatchDispatch
      <3>5. CASE Ack(v)
        BY <3>5, BatchAck
      <3>6. CASE UNCHANGED <<pc, link, poll>>
        BY <2>1, <3>6, BatchSame
      <3> QED
        BY <3>1, <3>2, <3>3, <3>4, <3>5, <3>6
    <2> QED
      BY <2>2, <2>3
  <1> QED
    BY <1>2, <1>3, <1>4, NextSteps

LEMMA CInvStep == CInv /\ [Next]_vars => CInv'
  <1> SUFFICES ASSUME CInv, [Next]_vars  PROVE CInv'
    OBVIOUS
  <1>1. IInv /\ WindowsDisjoint /\ \A w \in Workers : BatchInv(w)
    BY DEF CInv
  <1>2. IInv' /\ WindowsDisjoint'
    BY <1>1, InvStep, DisjointStep
  <1>3. ASSUME NEW w \in Workers  PROVE BatchInv(w)'
    BY <1>1, BatchStep
  <1> QED
    BY <1>2, <1>3 DEF CInv

LEMMA CInvInit == Init => CInv
  <1> SUFFICES ASSUME Init  PROVE CInv
    OBVIOUS
  <1>1. IInv
    BY InvInit
  <1>2. WindowsDisjoint
    BY DEF Init, WindowsDisjoint
  <1>3. \A w \in Workers : BatchInv(w)
    BY DEF Init, BatchInv, InTransaction
  <1> QED
    BY <1>1, <1>2, <1>3 DEF CInv

LEMMA WindowsAre ==
    ASSUME TypeOK
    PROVE  /\ Windows \in Seq(SUBSET Msgs) /\ Len(Windows) = tick
           /\ \A k \in 1 .. tick : Windows[k] = window[k]
  <1>1. tick \in Nat /\ \A k \in 1 .. tick : window[k] \in SUBSET Msgs
    BY BoundsAssumption DEF TypeOK
  <1>2. Windows \in [1 .. tick -> SUBSET Msgs] /\ \A k \in 1 .. tick : Windows[k] = window[k]
    BY <1>1 DEF Windows
  <1> HIDE DEF Windows
  <1>3. Windows \in Seq(SUBSET Msgs) /\ Len(Windows) = tick
    BY <1>1, <1>2
  <1> QED
    BY <1>2, <1>3

LEMMA InitIsOne == Init => One!Init
  <1> SUFFICES ASSUME Init  PROVE One!Init
    OBVIOUS
  <1>1. TypeOK
    BY InvInit DEF IInv
  <1>2. Windows \in Seq(SUBSET Msgs) /\ Len(Windows) = 0
    BY <1>1, WindowsAre DEF Init
  <1>3. Windows = <<>>
    <2> HIDE DEF Windows
    <2> QED
      BY <1>2, EmptySeq
  <1> QED
    BY <1>3 DEF Init, One!Init

\* A tick publishes the window that was open.
LEMMA TickerPublishes ==
    ASSUME IInv, TypeOK', WindowsDisjoint, Ticker
    PROVE  One!Publish
  <1> DEFINE new == window[tick + 1]
  <1>1. TypeOK /\ tick \in Nat /\ tick' = tick + 1 /\ tick + 1 \in 1 .. MaxTicks + 1
    BY BoundsAssumption DEF IInv, TypeOK, Ticker
  <1>2. UNCHANGED <<window, cursor, done, requeued>>
    BY DEF Ticker, history
  <1>3. new \in SUBSET Msgs
    BY <1>1 DEF TypeOK
  <1>4. ASSUME NEW k \in 1 .. Len(Windows)  PROVE new \cap Windows[k] = {}
    <2>1. k \in 1 .. tick
      BY <1>1, WindowsAre
    <2>2. Windows[k] = window[k]
      BY <1>1, <2>1, WindowsAre
    <2>3. k \in 1 .. MaxTicks + 1 /\ k # tick + 1
      BY <1>1, <2>1, BoundsAssumption DEF TypeOK
    <2> QED
      BY <1>1, <2>2, <2>3 DEF WindowsDisjoint
  <1>5. Windows' = Append(Windows, new)
    <2> DEFINE s == Windows'
               t == Append(Windows, new)
    <2>1. s \in Seq(SUBSET Msgs)
      <3>1. tick' \in Nat /\ \A k \in 1 .. tick' : window[k] \in SUBSET Msgs
        BY <1>1, BoundsAssumption DEF TypeOK
      <3>2. s \in [1 .. tick' -> SUBSET Msgs]
        BY <1>2, <3>1 DEF Windows
      <3> HIDE DEF s
      <3> QED
        BY <3>1, <3>2
    <2>2. Len(s) = tick + 1 /\ \A k \in 1 .. tick + 1 : s[k] = window[k]
      <3>1. s = [k \in 1 .. tick + 1 |-> window[k]]
        BY <1>1, <1>2 DEF Windows
      <3> HIDE DEF s
      <3> QED
        BY <1>1, <3>1
    <2>3. /\ Windows \in Seq(SUBSET Msgs) /\ Len(Windows) = tick
          /\ \A k \in 1 .. tick : Windows[k] = window[k]
      BY <1>1, WindowsAre
    <2>4. /\ t \in Seq(SUBSET Msgs) /\ Len(t) = tick + 1
          /\ \A k \in 1 .. tick : t[k] = Windows[k]
          /\ t[tick + 1] = new
      <3> HIDE DEF new, Windows
      <3> QED
        BY <1>3, <2>3, AppendProperties
    <2>5. \A k \in 1 .. tick + 1 : s[k] = t[k]
      <3> SUFFICES ASSUME NEW k \in 1 .. tick + 1  PROVE s[k] = t[k]
        OBVIOUS
      <3>1. s[k] = window[k]
        BY <2>2
      <3>2. CASE k = tick + 1
        BY <2>4, <3>1, <3>2
      <3>3. CASE k \in 1 .. tick
        BY <2>3, <2>4, <3>1, <3>3
      <3>4. k = tick + 1 \/ k \in 1 .. tick
        BY <1>1
      <3> HIDE DEF s, t
      <3> QED
        BY <3>2, <3>3, <3>4
    <2> HIDE DEF s, t
    <2>6. s = t
      BY <2>1, <2>2, <2>4, <2>5, SeqEqual
    <2> QED
      BY <2>6 DEF s, t
  <1>6. /\ \E added \in SUBSET Msgs :
              /\ \A k \in 1 .. Len(Windows) : added \cap Windows[k] = {}
              /\ Windows' = Append(Windows, added)
        /\ UNCHANGED <<cursor.last, done, requeued>>
    <2>1. UNCHANGED <<cursor.last, done, requeued>>
      BY <1>2
    <2> HIDE DEF new
    <2> QED
      BY <1>3, <1>4, <1>5, <2>1
  <1> QED
    BY <1>6 DEF One!Publish

\* A commit settles the next window, hands back what was nacked of it, or does nothing.
LEMMA CommitIsOne ==
    ASSUME CInv, NEW w \in Workers, pc[w] = "commit", link[w] = "up", CommitOnServer(w)
    PROVE  [One!Next]_(One!vars)
  <1> DEFINE p == poll[w]
             k == cursor.last + 1
  <1>1. /\ TypeOK /\ window' = window /\ tick' = tick
        /\ cursor.last \in 0 .. MaxTicks /\ tick \in 0 .. MaxTicks
    BY DEF CInv, IInv, TypeOK, CommitOnServer
  <1>2. Windows' = Windows
    BY <1>1 DEF Windows
  <1>3. CommitInv(w) /\ BatchInv(w) /\ InTransaction(w)
    BY DEF CInv, IInv, TransactionInv, InTransaction
  <1>4. k <= tick => k <= Len(Windows) /\ Windows[k] = window[k]
    <2> SUFFICES ASSUME k <= tick  PROVE k <= Len(Windows) /\ Windows[k] = window[k]
      OBVIOUS
    <2>1. k \in 1 .. tick
      BY <1>1, BoundsAssumption
    <2> HIDE DEF k
    <2> QED
      BY <1>1, <2>1, WindowsAre
  <1>5. p.result \in {"acked", "drained", "emptied", "unacked"}
    BY <1>1, <1>3 DEF TypeOK, Poll, Results, CommitInv
  <1>6. CASE p.txn # "open"
    <2>1. UNCHANGED <<cursor, requeued, done>>
      BY <1>6 DEF CommitOnServer
    <2> QED
      BY <1>2, <2>1 DEF One!vars
  <1>7. CASE p.txn = "open" /\ p.result \in {"acked", "emptied"}
    <2>1. /\ cursor'.last = k /\ k <= tick /\ p.last = k
          /\ requeued' = requeued \cup p.nacked
      BY <1>3, <1>7 DEF CommitOnServer, CommitInv
    <2>2. p.fine \cap p.nacked = {} /\ p.fine \cup p.nacked \subseteq window[k]
      BY <1>3, <1>7, <2>1 DEF BatchInv
    <2>3. done' = done \cup (window[k] \ p.nacked)
      <3>1. CASE p.result = "acked"
        <4>1. window[k] \subseteq p.fine \cup p.nacked
          BY <1>3, <2>1, <3>1 DEF CommitInv
        <4>2. done' = done \cup p.fine
          BY <1>7, <3>1 DEF CommitOnServer
        <4> QED
          BY <2>2, <4>1, <4>2
      <3>2. CASE p.result = "emptied"
        <4>1. window[k] = {}
          BY <1>3, <2>1, <3>2 DEF CommitInv
        <4>2. done' = done
          BY <1>7, <3>2 DEF CommitOnServer
        <4> QED
          BY <4>1, <4>2
      <3> QED
        BY <1>7, <3>1, <3>2
    <2>4. p.nacked \in SUBSET Windows[k] /\ k <= Len(Windows) /\ Windows[k] = window[k]
      BY <1>4, <2>1, <2>2
    <2>5. One!Settle
      <3> HIDE DEF p
      <3> QED
        BY <1>2, <2>1, <2>3, <2>4 DEF One!Settle, One!Following
    <2> QED
      BY <2>5 DEF One!Next
  <1>8. CASE p.txn = "open" /\ p.result = "drained"
    <2>1. p.nacked = {} /\ p.last = cursor.last
      BY <1>3, <1>8 DEF BatchInv, CommitInv
    <2>2. UNCHANGED <<cursor.last, requeued, done>>
      BY <1>8, <2>1 DEF CommitOnServer
    <2> QED
      BY <1>2, <2>2 DEF One!vars
  <1>9. CASE p.txn = "open" /\ p.result = "unacked"
    <2>1. p.last = cursor.last /\ p.open = k /\ k <= tick
      BY <1>3, <1>9 DEF CommitInv
    <2>2. p.nacked \subseteq window[k]
      BY <1>3, <1>9, <2>1 DEF BatchInv
    <2>3. cursor'.last = cursor.last /\ done' = done /\ requeued' = requeued \cup p.nacked
      BY <1>9, <2>1 DEF CommitOnServer
    <2>4. p.nacked \in SUBSET Windows[k] /\ k <= Len(Windows)
      BY <1>4, <2>1, <2>2
    <2>5. One!HandBack
      <3> HIDE DEF p
      <3> QED
        BY <1>2, <2>3, <2>4 DEF One!HandBack, One!Following
    <2> QED
      BY <2>5 DEF One!Next
  <1> QED
    BY <1>5, <1>6, <1>7, <1>8, <1>9

\* Everything but a tick and a commit leaves the one consumer alone.
LEMMA QuietOne ==
    ASSUME IInv, UNCHANGED <<tick, cursor, requeued, done>>,
           \A k \in 1 .. tick : window'[k] = window[k]
    PROVE  UNCHANGED One!vars
  <1>1. Windows' = Windows
    BY DEF Windows
  <1> QED
    BY <1>1 DEF One!vars

LEMMA NextIsOne == CInv /\ [Next]_vars => [One!Next]_(One!vars)
  <1> SUFFICES ASSUME CInv, [Next]_vars  PROVE [One!Next]_(One!vars)
    OBVIOUS
  <1>1. IInv /\ TypeOK /\ WindowsDisjoint
    BY DEF CInv, IInv
  <1>2. TypeOK'
    BY <1>1, TypeStep
  <1>3. ASSUME NEW new \in SUBSET Msgs, Send(new)  PROVE [One!Next]_(One!vars)
    <2>1. UNCHANGED <<tick, cursor, requeued, done>>
      BY <1>3 DEF Send, history
    <2>2. \A k \in 1 .. tick : window'[k] = window[k]
      BY <1>1, <1>3, BoundsAssumption DEF Send, TypeOK
    <2> QED
      BY <1>1, <2>1, <2>2, QuietOne
  <1>4. CASE Ticker
    BY <1>1, <1>2, <1>4, TickerPublishes DEF One!Next
  <1>5. ASSUME NEW w \in Workers, Commit(w) \/ CommitAnswerLost(w)
        PROVE  [One!Next]_(One!vars)
    BY <1>5, CommitIsOne DEF Commit, CommitAnswerLost, Step
  <1>6. CASE UNCHANGED vars \/ \E w \in Workers : Stop(w) \/ Start(w)
    <2>1. UNCHANGED <<window, tick, cursor, requeued, done>>
      BY <1>6 DEF Stop, Start, vars, database, history
    <2> QED
      BY <1>1, <2>1, QuietOne
  <1>7. ASSUME NEW w \in Workers, Receive(w) \/ Proceed(w) \/ Failure(w),
               ~Commit(w), ~CommitAnswerLost(w)
        PROVE  [One!Next]_(One!vars)
    <2> DEFINE Quiet == UNCHANGED <<window, tick, cursor, requeued, done>>
    <2>1. ASSUME Reconnect(w)  PROVE Quiet
      BY <2>1 DEF Reconnect, history
    <2>2. ASSUME NEW e, ReceiveRaises(w, e)  PROVE Quiet
      BY <2>1, <2>2 DEF ReceiveRaises, history
    <2>3. Receive(w) => Quiet
      BY <2>2 DEF Receive, ReceiveNothing, ReceiveEmpty, ReceiveBatch, Received,
                  ReceiveOverflow, history
    <2>4. Dispatch(w) => Quiet
      <3>1. Dispatched(w) => Quiet
        BY DEF Dispatched, database, history
      <3>2. ASSUME Dispatch(w), ~Dispatched(w)  PROVE Quiet
        <4>1. PICK p : SetPoll(w, p) /\ done' = done
          BY <3>2 DEF Dispatch, HandlerReturns, HandlerRaises, NoHandler, Nacked, NackRaises,
                      Runs, history
        <4> QED
          BY <4>1 DEF SetPoll, database
      <3> QED
        BY <3>1, <3>2
    <2>5. Proceed(w) /\ ~Dispatch(w) => Quiet
      BY <1>7, <2>1 DEF Proceed, Connect, BackoffOver, SeesStop, NextPoll, Ack, SetPoll,
                PollAgain, EnterWait, Wake, PollInterval, NoticesLoss, database, history
    <2>6. Failure(w) => Quiet
      BY <1>7, <2>1, <2>2 DEF Failure, ConnectFails, ReceiveFails, AckFails, Disconnect,
                Crash, history
    <2>7. Quiet
      BY <1>7, <2>3, <2>4, <2>5, <2>6
    <2> QED
      BY <1>1, <2>7, QuietOne
  <1> QED
    BY <1>3, <1>4, <1>5, <1>6, <1>7, NextSteps

\* The processes of one name, whatever fails around them, implement a single consumer that
\* settles the windows in order: every tick and every commit is one of its steps.
THEOREM BehavesAsOne == Spec => ImplementsOneConsumer
  <1>1. Spec => []CInv
    BY CInvInit, CInvStep, PTL DEF Spec
  <1> QED
    BY <1>1, InitIsOne, NextIsOne, PTL DEF Spec, ImplementsOneConsumer, One!Spec

=============================================================================
