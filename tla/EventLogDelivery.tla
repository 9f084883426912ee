--------------------------- MODULE EventLogDelivery ---------------------------
(***************************************************************************)
(* EventLog implements Delivery: a tick is a cut, namely the rows its      *)
(* snapshot sees.                                                          *)
(***************************************************************************)
EXTENDS EventLogInv

Committed == {e \in sent : e.xid \notin running}
SeenAt(t) == {e \in sent : Visible(e.xid, ticks[t])}

Cuts == {SeenAt(t) : t \in DOMAIN ticks}

Phase == [c \in Consumers |->
             IF ~Registered(c) THEN "out"
             ELSE IF ~HasBatch(c) THEN "idle"
             ELSE IF reader[c].phase = "fetched" THEN "read"
             ELSE "open"]
At   == [c \in Consumers |-> IF Registered(c) THEN SeenAt(sub[c].last) ELSE {}]
Upto == [c \in Consumers |-> IF HasBatch(c) THEN SeenAt(sub[c].next) ELSE {}]
Got  == [c \in Consumers |-> reader[c].got]

D == INSTANCE Delivery WITH committed <- Committed, cuts <- Cuts, phase <- Phase,
                            at <- At, upto <- Upto, got <- Got

\* Every behaviour of the tables, ticks and rotations is one of the abstract log:
\* no interleaving of producers, ticker, rotation and consumers gives a consumer
\* less or more than what committed between the two cuts of its batch.
ImplementsDelivery == D!Spec
=============================================================================
