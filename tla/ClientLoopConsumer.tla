-------------------------- MODULE ClientLoopConsumer --------------------------
(***************************************************************************)
(* ClientLoop implements OneConsumer: what is committed of the processes   *)
(* and of their transactions is one consumer.                              *)
(***************************************************************************)
EXTENDS ClientLoopInv

Windows == [k \in 1 .. tick |-> window[k]]

One == INSTANCE OneConsumer WITH windows <- Windows, position <- cursor.last, handled <- done

\* Every behaviour of the processes, with broken connections, lost answers, failed nacks and
\* crashes, is one of a single consumer: a window is settled at one commit, by one process,
\* and each of its messages is either handled or requeued there.
ImplementsOneConsumer == One!Spec

(* The inductive invariant, beyond IInv.                                   *)

\* Of the window that a transaction has, a message is before the worker, fine or nacked.
BatchInv(w) ==
    LET p == poll[w]
    IN  InTransaction(w) =>
            /\ p.todo \cap p.fine = {} /\ p.todo \cap p.nacked = {} /\ p.fine \cap p.nacked = {}
            /\ p.todo \cup p.fine \cup p.nacked \subseteq
                   CASE p.result = "drained"             -> {}
                     [] p.result \in {"acked", "emptied"} -> window[p.last]
                     [] OTHER                            -> window[p.open]

CInv == IInv /\ WindowsDisjoint /\ \A w \in Workers : BatchInv(w)
=============================================================================
