------------------------------ MODULE EventLogInv ------------------------------
(***************************************************************************)
(* The inductive invariant behind EventLog's safety properties.            *)
(***************************************************************************)
EXTENDS EventLog

\* r was taken no earlier than s.
Extends(s, r) ==
    /\ s.xmax <= r.xmax
    /\ \A x \in 0 .. s.xmax : Visible(x, s) => Visible(x, r)

\* s is a well-formed snapshot of the past when the ids in run are running and
\* newest is the highest finished one: it sees nothing that runs.
Past(s, run, newest) ==
    /\ s.xmin <= s.xmax /\ s.xmax <= newest + 1
    /\ \A x \in s.xip : s.xmin <= x /\ x < s.xmax
    /\ \A x \in run : ~Visible(x, s)

IdsOK ==
    /\ newestFinished < nextXid
    /\ \A x \in running : 0 < x /\ x < nextXid
    /\ \A x \in 0 .. nextXid - 1 : x \notin running => x <= newestFinished
    /\ step1 <= newestFinished /\ step2 <= newestFinished

\* A producer that already has an id, older or newer than the last step 2, has
\* read a table its rows may still go to.
TxOK ==
    /\ \A p \in Producers : tx[p].xid # 0 =>
          /\ tx[p].xid \in running
          /\ tx[p].xid # rotating /\ tx[p].xid # step2
          /\ \A q \in Producers \ {p} : tx[q].xid # tx[p].xid
    /\ \A p \in Producers : tx[p].xid # 0 /\ tx[p].tbl # NoTable =>
          /\ tx[p].tbl \in {PrevTable, curTable}
          /\ step2 # 0 /\ tx[p].xid > step2 => tx[p].tbl = curTable

\* While step 1 is under way nothing depends on the table it will truncate, and
\* no subscription stands on a tick it will delete.
RotationOK ==
    rotating # 0 =>
        /\ step2 # 0
        /\ rotating \in running
        /\ \A x \in running : x > step2
        /\ \A c \in Consumers : Registered(c) => LastTick(c).xmin >= step2

TicksOK ==
    /\ \A t \in DOMAIN ticks : t <= tickSeq /\ Past(ticks[t], running, newestFinished)
    /\ \A t, u \in DOMAIN ticks : t <= u =>
          ticks[t].xmin <= ticks[u].xmin /\ Extends(ticks[t], ticks[u])

\* Where the rows are: those younger than the last step 2 in the current table,
\* those that a running transaction or a tick may still deliver in the current
\* or the previous one; nothing in the current table is older than step 1.
RowsOK ==
    /\ kept \subseteq sent
    /\ \A e \in sent : e.xid < nextXid /\ e.xid \notin {0, step2, rotating}
    /\ \A e \in sent : step2 # 0 /\ e.xid > step2 => e \in kept /\ e.tbl = curTable
    /\ \A e \in sent : e.xid \in running => e \in kept /\ e.tbl \in {PrevTable, curTable}
    /\ \A e \in kept, t \in DOMAIN ticks :
          e.tbl = curTable /\ ticks[t].xmax < step1 => ~Visible(e.xid, ticks[t])

SubsOK ==
    \A c \in Consumers :
        /\ HasBatch(c) => Registered(c) /\ sub[c].last < sub[c].next
        /\ Registered(c) => Extends(start[c], LastTick(c))
        /\ reader[c].phase # "idle" => HasBatch(c)
        /\ reader[c].phase # "fetched" => reader[c].got = {}
        /\ reader[c].phase = "planned" =>
              \A e \in sent : Between(e.xid, LastTick(c), CurTick(c)) =>
                                  e.tbl \in reader[c].plan

IInv ==
    /\ TypeOK
    /\ IdsOK
    /\ TxOK
    /\ RotationOK
    /\ TicksOK
    /\ RowsOK
    /\ SubsOK
    /\ SubscribedTickExists
    /\ RetainedTicksComplete
    /\ NothingMissed
    /\ ExactlyOnce
=============================================================================
