------------------------------ MODULE Snapshots ------------------------------
(***************************************************************************)
(* Transaction ids and pg_snapshot values, and the way a batch is the      *)
(* difference of two of them (pgque.batch_event_sql).                      *)
(*                                                                         *)
(* A pg_snapshot is xmin:xmax:xip: every id below xmin is finished, no id  *)
(* from xmax on was finished, and xip lists the ids between that were in   *)
(* progress.                                                               *)
(***************************************************************************)
EXTENDS Naturals

CONSTANT Near      \* how far below the range an id may lie and still extend it
                   \* (100 in the code)

ASSUME NearAssumption == Near \in Nat

Snapshot == [xmin : Nat, xmax : Nat, xip : SUBSET Nat]

Least(S) == CHOOSE n \in S : \A m \in S : n <= m

(* pg_current_snapshot(): the running ids below the one after the newest   *)
(* finished id.                                                            *)
CurrentSnapshot(running, newestFinished) ==
    LET xmax == newestFinished + 1
        xip  == {x \in running : x < xmax}
    IN  [xmin |-> Least(xip \cup {xmax}), xmax |-> xmax, xip |-> xip]

(* pg_visible_in_snapshot(x, s): x was finished when s was taken.          *)
Visible(x, s) == x < s.xmax /\ x \notin s.xip

(* What a batch means: finished between the two ticks.                     *)
Between(x, last, cur) == Visible(x, cur) /\ ~Visible(x, last)

-----------------------------------------------------------------------------
(* How batch_event_sql selects it.  Ids that were running at the last tick *)
(* and are not at the current one are walked from the highest down; each   *)
(* one within Near of the range extends the range, the others go into an   *)
(* IN list.                                                                *)

Stragglers(last, cur) == last.xip \ cur.xip

\* x joins the range when the walk from xmax(last) down to x never has to step
\* further than Near.
Reaches(x, last, cur) ==
    \A y \in Stragglers(last, cur) :
        y >= x => \E z \in Stragglers(last, cur) \cup {last.xmax} :
                      z > y /\ z <= y + Near

TxStart(last, cur) ==
    Least({last.xmax} \cup {x \in Stragglers(last, cur) : Reaches(x, last, cur)})

InRange(x, last, cur) ==
    /\ TxStart(last, cur) <= x /\ x <= cur.xmax
    /\ Visible(x, cur) /\ ~Visible(x, last)

\* mutant: no IN list
EmptyInList(x, last, cur) == FALSE

InList(x, last, cur) ==
    x \in Stragglers(last, cur) /\ x < TxStart(last, cur)

Selected(x, last, cur) == InRange(x, last, cur) \/ InList(x, last, cur)
=============================================================================
