-------------------------- MODULE CoopConsumersGroup --------------------------
(***************************************************************************)
(* CoopConsumers implements CoopGroup: a row that is committed with a      *)
(* batch is a hand with a window in it.                                    *)
(***************************************************************************)
EXTENDS CoopConsumersInv

Founded == row[Main].role # "none"
Hand    == [w \in Workers |-> [id |-> row[w].batch, window |-> row[w].window]]
Stale   == {m \in Members : row[m].stale}

G == INSTANCE CoopGroup WITH founded <- Founded, cursor <- row[Main].last, hand <- Hand,
                             stale <- Stale

\* Every behaviour of the rows, locks and open transactions is one of the abstract group:
\* whatever commits, rolls back or crashes in between, a transaction takes over whole
\* windows of stale members and the next ones, and acknowledges or keeps each of them.
ImplementsGroup == G!Spec

\* A window that was acknowledged is on no row, and no open transaction is about to
\* acknowledge it again or to hand it out.
AckedOnce ==
    \A k \in finished :
        /\ \A r \in Workers : k \notin {row[r].window, new[r].window}
        /\ \A w \in Workers : k \notin txn[w].finished

(* The inductive invariant, beyond IInv.                                   *)

\* Behind the cursor no window is on the rows of two members.  A window in an uncommitted
\* row is on another committed row, or ahead of the committed cursor, only as long as one
\* transaction has locked both.
Owners ==
    /\ row[Main].last <= new[Main].last
    /\ \A m \in Members :
          /\ row[m].window <= row[Main].last /\ new[m].window <= new[Main].last
          /\ new[m].window > row[Main].last => lock[m] = lock[Main] /\ lock[m] # NoOne
    /\ \A m, o \in Members : m # o =>
          /\ row[m].window = row[o].window => row[m].window = 0
          /\ new[m].window = new[o].window => new[m].window = 0
          /\ row[m].window = new[o].window /\ row[m].window # 0 =>
                lock[m] = lock[o] /\ lock[m] # NoOne

\* Ids are drawn under the lock of the main row, so they are committed in order.
Tokens ==
    \A r \in Workers :
        IF new[r].batch = row[r].batch THEN new[r].window = row[r].window
        ELSE new[r].batch # 0 =>
                /\ lock[r] = lock[Main] /\ lock[r] # NoOne
                /\ \A s \in Workers : row[s].batch < new[r].batch

\* What a takeover has locked, and what it found there, holds until it commits.
Victims ==
    \A m \in Members :
        /\ new[m].stale => row[m].stale
        /\ lock[m] \notin {m, NoOne} =>
              /\ lock[m] = lock[Main] /\ lock[lock[m]] = lock[m]
              /\ lock[m] # Main /\ row[m].stale /\ row[m].batch # 0
              /\ new[m].batch = 0 /\ ~new[m].stale

\* The main row: a member's transaction leaves its batch alone, and does not move the
\* cursor past one; a plain consumer's does not drop it where the cursor stays.
MainOwn ==
    /\ new[Main].last <= tick /\ new[Main].window <= tick /\ row[Main].window <= tick
    /\ row[Main].role # "none" => origin <= row[Main].last
    /\ new[Main].role # "none" => origin <= new[Main].last
    /\ lock[Main] = Main => row[Main].role # "none"
    /\ ~demoting[Main]
    /\ row[Main].batch # 0 /\ new[Main].batch = 0 => new[Main].last # row[Main].last
    /\ lock[Main] \in Members =>
          /\ new[Main].batch = row[Main].batch
          /\ new[Main].last # row[Main].last => row[Main].batch = 0

Acked ==
    /\ \A k \in finished : k <= row[Main].last /\ \A r \in Workers :
                               k \notin {row[r].window, new[r].window}
    /\ \A w \in Workers : \A k \in txn[w].finished :
          /\ k <= row[Main].last \/ (lock[Main] = w /\ k <= new[Main].last)
          /\ \A r \in Workers : new[r].window # k /\ (row[r].window = k => lock[r] = w)

\* The windows that the transaction of w takes if it commits.
Base == IF row[Main].role = "none" THEN origin ELSE row[Main].last
Reach(w) ==
    {row[m].window : m \in {m \in Members : lock[m] = w}} \cup
    {k \in Base + 1 .. new[Main].last : lock[Main] = w}

\* It acknowledges or keeps each of them, and has none but them.
Dealt ==
    \A w \in Workers :
        /\ Reach(w) \subseteq {0} \cup empty \cup txn[w].finished \cup {new[w].window}
        /\ txn[w].finished \subseteq Reach(w)
        /\ lock[w] = w /\ w \in Members => new[w].window \in Reach(w) \cup {0}

\* Nacks concern windows that have been handed out.
Nacked ==
    \A w \in Workers : \A k \in txn[w].requeued :
        \/ k <= row[Main].last
        \/ lock[Main] = w /\ k <= new[Main].last
        \/ w = Main /\ k = Seen(Main, Main).window

GInv == IInv /\ Owners /\ Tokens /\ Victims /\ MainOwn /\ Acked /\ Dealt /\ Nacked
=============================================================================
