------------------------------ MODULE BatchQuery ------------------------------
(***************************************************************************)
(* The loop of pgque.batch_event_sql: it walks the transactions that were  *)
(* running at the last tick and are not at the current one, from the       *)
(* highest id down, and either lowers the start of the id range or adds    *)
(* the id to the IN list.  One action is one turn of the loop; a behaviour *)
(* starts at any two snapshots a batch can have.                           *)
(***************************************************************************)
EXTENDS Snapshots

CONSTANT MaxId      \* bound on transaction ids, for TLC

ASSUME MaxIdAssumption == MaxId \in Nat

VARIABLES
    last, cur,   \* the snapshots of the batch's two ticks
    todo,        \* the ids the loop has not reached
    txStart,     \* batch.tx_start
    arr          \* the IN list

vars == <<last, cur, todo, txStart, arr>>

Ids == 0 .. MaxId

TypeOK ==
    /\ last \in Snapshot /\ cur \in Snapshot
    /\ todo \subseteq Ids /\ arr \subseteq Ids /\ txStart \in Ids

\* A snapshot as Postgres takes it.
WellFormed(s) ==
    /\ \A x \in s.xip : s.xmin <= x /\ x < s.xmax
    /\ s.xip = {} => s.xmin = s.xmax
    /\ s.xip # {} => s.xmin \in s.xip

\* s was taken no earlier than r: what r saw finished is finished in s.
Later(r, s) ==
    /\ r.xmax <= s.xmax
    /\ \A x \in s.xip : x < r.xmax => x \in r.xip

Init ==
    /\ last \in {s \in [xmin : Ids, xmax : Ids, xip : SUBSET Ids] : WellFormed(s)}
    /\ cur \in {s \in [xmin : Ids, xmax : Ids, xip : SUBSET Ids] :
                   WellFormed(s) /\ Later(last, s)}
    /\ todo = Stragglers(last, cur)
    /\ txStart = last.xmax
    /\ arr = {}

\* mutant: order by 1 asc
FirstAscending(x) == x \in todo /\ \A y \in todo : x <= y

\* order by 1 desc
First(x) == x \in todo /\ \A y \in todo : y <= x

\* mutant: the distance is one too long
NearbyOffByOne(x) == txStart <= x + Near + 1

Nearby(x) == txStart <= x + Near

Widen == \E x \in todo :
    /\ First(x) /\ Nearby(x)
    /\ txStart' = x
    /\ todo' = todo \ {x}
    /\ UNCHANGED <<last, cur, arr>>

List == \E x \in todo :
    /\ First(x) /\ ~Nearby(x)
    /\ arr' = arr \cup {x}
    /\ todo' = todo \ {x}
    /\ UNCHANGED <<last, cur, txStart>>

Next == Widen \/ List

Spec == Init /\ [][Next]_vars

-----------------------------------------------------------------------------
\* What the two arms of the finished query's UNION ALL select.
RangeArm(x) == /\ txStart <= x /\ x <= cur.xmax
               /\ Visible(x, cur) /\ ~Visible(x, last)
ListArm(x)  == x \in arr

\* The finished query selects the transactions that committed between the two
\* ticks, stragglers included, and none of them in both arms (a row selected
\* twice would be delivered twice).
QueryIsTheDiff ==
    todo = {} =>
        \A x \in Ids : /\ RangeArm(x) \/ ListArm(x) <=> Between(x, last, cur)
                       /\ ~(RangeArm(x) /\ ListArm(x))

\* The loop ends with the range and the list that Snapshots defines in closed
\* form and EventLog uses: the range reaches down over every straggler that a
\* chain of gaps of at most Near connects to it, and no further.
LoopIsClosedForm ==
    todo = {} => /\ txStart = TxStart(last, cur)
                 /\ \A x \in Ids : x \in arr <=> InList(x, last, cur)
=============================================================================
