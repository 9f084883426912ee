---------------------------- MODULE CoopGroupProofs ----------------------------
(* Proofs that no two members own a window, that an acknowledged window does not come   *)
(* back, and that CoopConsumers implements CoopGroup, for all members and bounds.       *)
EXTENDS CoopConsumersGroup, CoopConsumersProofs

LEMMA FieldsAre ==
    ASSUME NEW x \in [Workers -> Row]
    PROVE  \A r \in Workers :
              /\ x[r] \in Row /\ x[r].batch \in Nat /\ x[r].window \in Nat /\ x[r].last \in Nat
              /\ x[r].window <= MaxTicks /\ x[r].stale \in BOOLEAN
              /\ x[r].role \in {"none", "normal", "coop_main", "coop_member"}
  BY BoundsAssumption DEF Row

LEMMA TableIs ==
    ASSUME TypeOK
    PROVE  /\ row \in [Workers -> Row] /\ new \in [Workers -> Row]
           /\ tick \in Nat /\ seq \in Nat /\ origin \in Nat /\ MaxTicks \in Nat
           /\ Main \in Workers
  BY BoundsAssumption DEF TypeOK, Workers

-----------------------------------------------------------------------------
(* A statement of w's transaction t, with locks on rows: what it does to   *)
(* batches and windows.                                                    *)

Same(r) == new'[r].batch = new[r].batch /\ new'[r].window = new[r].window
Gone(r) == new'[r].batch = 0 /\ new'[r].window = 0

\* r is a stale member whose window w has now.
Took(w, r) ==
    /\ new[r].batch # 0 /\ new[r].stale /\ Gone(r) /\ ~new'[r].stale
    /\ new'[w].window = new[r].window

\* w had nothing in hand, and has a window under a new id.
Takes(w, rows) ==
    /\ Main \in rows /\ w \in rows /\ new[Main].role # "none"
    /\ new[w].batch = 0 /\ new'[w].batch = seq
    /\ \/ /\ new'[w].window = new[Main].last + 1
          /\ w \in Members => new'[Main].last = new[Main].last + 1
       \/ w \in Members /\ \E v \in rows \cap Members : v # w /\ Took(w, v)

Acks(w, t, rows) ==
    /\ w \in rows /\ Gone(w) /\ new[w].batch # 0
    /\ t.finished = Current(w).finished \cup {new[w].window}
    /\ w = Main => new'[Main].last = new[Main].window

\* The cursor of the main row.
Cursor(w, t, rows) ==
    \/ new'[Main].last = new[Main].last /\ origin' = origin
    \/ /\ Main \in rows /\ origin' = origin
       /\ new'[Main].last = new[Main].last + 1 /\ new'[Main].last <= tick
       /\ new'[Main].last \in empty \cup t.finished \cup {new'[w].window}
       /\ w \in Members => new[Main].batch = 0 /\ new[w].batch = 0
    \/ /\ Main \in rows /\ w \in Members
       /\ new[Main].role = "none" /\ new'[Main].last = tick /\ origin' = tick

Moves(w, t, rows) ==
    /\ rows \subseteq Workers /\ \A r \in rows : Free(w, r)
    /\ \A r \in Workers \ rows : new'[r] = new[r]
    /\ \A r \in Members \cap rows : r = w \/ (w \in Members /\ Took(w, r) /\ Takes(w, rows))
    /\ Main \in rows /\ w # Main => Same(Main)
    /\ w \in rows => \/ Same(w) /\ t.finished = Current(w).finished
                     \/ Acks(w, t, rows)
                     \/ Takes(w, rows) /\ t.finished = Current(w).finished
    /\ w \notin rows => t.finished = Current(w).finished
    /\ \A k \in t.requeued : k \in Current(w).requeued \/ k = Seen(w, w).window
    /\ Cursor(w, t, rows)
    /\ w \in Members => (new'[w].stale => new[w].stale)
    /\ new[Main].role = "none" => new'[Main].role = "none" \/ origin' = new'[Main].last
    /\ Main \in rows /\ w = Main =>
          new[Main].role # "none" /\ new'[Main].window <= tick

\* No two rows have the same window, but for a row that is committed with a window and
\* another one that is to get it.
LEMMA WindowsApart ==
    ASSUME TypeOK, Shapes, Owners, NEW r \in Workers, NEW s \in Workers, r # s
    PROVE  /\ row[r].window = row[s].window => row[r].window = 0
           /\ new[r].window = new[s].window => new[r].window = 0
           /\ row[r].window = new[s].window /\ row[r].window # 0 =>
                 lock[r] = lock[s] /\ lock[r] # NoOne
  <1>1. /\ \A q \in Workers : /\ row[q].window \in Nat /\ row[q].last \in Nat
                              /\ new[q].window \in Nat /\ new[q].last \in Nat
        /\ Main \in Workers
    BY FieldsAre, TableIs
  <1>2. /\ row[Main].window # 0 => row[Main].window = row[Main].last + 1
        /\ new[Main].window # 0 => new[Main].window = new[Main].last + 1
    BY <1>1 DEF Shapes, Shape
  <1>3. CASE r \in Members /\ s \in Members
    BY <1>3 DEF Owners
  <1>4. CASE r = Main /\ s \in Members
    BY <1>1, <1>2, <1>4 DEF Owners
  <1>5. CASE r \in Members /\ s = Main
    BY <1>1, <1>2, <1>5 DEF Owners
  <1> QED
    BY <1>3, <1>4, <1>5 DEF Workers

LEMMA CurrentSettles ==
    ASSUME NEW w \in Workers
    PROVE  /\ Current(w).finished \subseteq txn[w].finished
           /\ Current(w).requeued \subseteq txn[w].requeued
           /\ txn[w].open => Current(w) = txn[w]
  <1>1. CASE txn[w].open
    BY <1>1 DEF Current
  <1>2. CASE ~txn[w].open
    <2>1. Current(w).finished = {} /\ Current(w).requeued = {}
      BY <1>2 DEF Current, Closed
    <2> QED
      BY <1>2, <2>1
  <1> QED
    BY <1>1, <1>2

\* What the windows of w's statement are, for the invariants about single rows.
LEMMA MovesWindow ==
    ASSUME IInv, NEW w \in Workers, NEW t, NEW rows, Moves(w, t, rows), NEW r \in Workers
    PROVE  \/ Same(r) \/ Gone(r)
           \/ r = w /\ Takes(w, rows)
  BY DEF Moves, Took, Acks, Workers, Same

LEMMA MovesLocks ==
    ASSUME IInv, NEW w \in Workers, NEW t \in Txn, NEW rows, Runs(w, t, rows), Moves(w, t, rows)
    PROVE  /\ rows \in SUBSET Workers /\ Main \in Workers /\ Main \notin Members
           /\ Members \subseteq Workers /\ NoOne \notin Workers
           /\ UNCHANGED <<row, tick, empty, finished>>
           /\ \A r \in Workers : lock'[r] = IF r \in rows THEN w ELSE lock[r]
           /\ \A r \in rows : lock[r] \in {w, NoOne}
           /\ \A r \in Workers \ rows : new'[r] = new[r]
           /\ \A r \in Workers : lock[r] = NoOne => new[r] = row[r]
           /\ \A r \in Workers : lock[r] = w => Current(w) = txn[w]
           /\ txn'[w] = t /\ \A v \in Workers \ {w} : txn'[v] = txn[v]
  BY MainAssumption DEF IInv, TypeOK, Unlocked, Runs, Moves, Free, Workers, log, Current

LEMMA MovesOwners ==
    ASSUME IInv, Owners, NEW w \in Workers, NEW t \in Txn, NEW rows, Runs(w, t, rows),
           Moves(w, t, rows), IInv'
    PROVE  Owners'
  <1> DEFINE main  == new[Main].last
             main_ == new'[Main].last
  <1>1. TypeOK /\ TypeOK' /\ Shape(new)
    BY DEF IInv, Shapes
  <1>2. /\ rows \in SUBSET Workers /\ Main \in Workers /\ Main \notin Members
        /\ Members \subseteq Workers /\ NoOne \notin Workers /\ row' = row
        /\ \A r \in Workers : lock'[r] = IF r \in rows THEN w ELSE lock[r]
        /\ \A r \in rows : lock[r] \in {w, NoOne}
        /\ \A r \in Workers \ rows : new'[r] = new[r]
        /\ \A r \in Workers : lock[r] = NoOne => new[r] = row[r]
    BY MovesLocks
  <1>3. /\ main \in Nat /\ main_ \in Nat /\ row[Main].last \in Nat /\ tick \in Nat
        /\ \A r \in Workers : /\ row[r].window \in Nat /\ new[r].window \in Nat
                              /\ new'[r].window \in Nat
    <2>1. new' \in [Workers -> Row]
      BY <1>1 DEF TypeOK
    <2>2. \A r \in Workers : new'[r].window \in Nat /\ new'[r].last \in Nat
      BY <2>1, FieldsAre
    <2> QED
      BY <1>1, <1>2, <2>2, FieldsAre, TableIs
  <1>4. main <= main_ /\ (main_ # main => Main \in rows)
    <2>1. new[Main].role = "none" => main = 0
      BY <1>1 DEF Shape
    <2> QED
      BY <1>3, <2>1 DEF Moves, Cursor
  <1>5. ASSUME NEW m \in Members
        PROVE  \/ new'[m].window \in {0, new[m].window}
               \/ /\ m = w /\ Main \in rows /\ w \in rows
                  /\ \/ new'[m].window = main + 1 /\ main_ = main + 1
                     \/ \E v \in rows \cap Members : /\ v # w /\ new'[v].window = 0
                                                      /\ new'[m].window = new[v].window
    BY <1>2, MovesWindow DEF Same, Gone, Takes, Took
  <1> HIDE DEF main, main_
  <1>6. ASSUME NEW m \in Members  PROVE new'[m].window <= main_
    BY <1>2, <1>3, <1>4, <1>5, <1>6 DEF Owners, main
  <1>7. ASSUME NEW m \in Members, new'[m].window > row[Main].last
        PROVE  lock'[m] = lock'[Main] /\ lock'[m] # NoOne
    <2>1. lock[m] = lock[Main] /\ lock[m] # NoOne => lock'[m] = lock'[Main] /\ lock'[m] # NoOne
      BY <1>2
    <2>2. CASE new'[m].window \in {0, new[m].window}
      BY <1>2, <1>3, <1>7, <2>1, <2>2 DEF Owners
    <2>3. CASE m = w /\ Main \in rows /\ w \in rows
      BY <1>2, <2>3
    <2> QED
      BY <1>5, <2>2, <2>3
  <1>8. ASSUME NEW m \in Members, NEW o \in Members, m # o, new'[m].window = new'[o].window
        PROVE  new'[m].window = 0
    BY <1>2, <1>3, <1>5, <1>8 DEF Owners, main
  <1>9. ASSUME NEW m \in Members, NEW o \in Members, m # o, row[m].window = new'[o].window,
               row[m].window # 0
        PROVE  lock'[m] = lock'[o] /\ lock'[m] # NoOne
    BY <1>2, <1>3, <1>5, <1>9 DEF Owners, main
  <1> QED
    BY <1>2, <1>3, <1>4, <1>6, <1>7, <1>8, <1>9 DEF Owners, main, main_

LEMMA MovesTokens ==
    ASSUME IInv, Tokens, NEW w \in Workers, NEW t \in Txn, NEW rows, Runs(w, t, rows),
           Moves(w, t, rows), IInv'
    PROVE  Tokens'
  <1>1. TypeOK /\ TypeOK' /\ Shape(row) /\ Shape(new) /\ rows \in SUBSET Workers
        /\ Main \in Workers /\ seq \in Nat
    BY DEF IInv, Shapes, Moves, TypeOK, Workers
  <1>2. /\ row' = row /\ \A r \in Workers : lock'[r] = IF r \in rows THEN w ELSE lock[r]
    BY <1>1 DEF Runs
  <1> SUFFICES ASSUME NEW r \in Workers
               PROVE  IF new'[r].batch = row[r].batch THEN new'[r].window = row[r].window
                      ELSE new'[r].batch # 0 =>
                              /\ lock'[r] = lock'[Main] /\ lock'[r] # NoOne
                              /\ \A s \in Workers : row[s].batch < new'[r].batch
    BY <1>2 DEF Tokens
  <1>3. CASE Same(r)
    <2>1. r \in rows => Free(w, r)
      BY DEF Moves
    <2>2. Main \in rows => Free(w, Main)
      BY DEF Moves
    <2>3. lock[r] = lock[Main] /\ lock[r] # NoOne => lock'[r] = lock'[Main] /\ lock'[r] # NoOne
      BY <1>1, <1>2, <2>1, <2>2, MainAssumption DEF Free, Workers
    <2> QED
      BY <1>3, <2>3 DEF Same, Tokens
  <1>4. CASE Gone(r)
    <2>1. row[r].batch = 0 => row[r].window = 0
      BY <1>1 DEF Shape
    <2> QED
      BY <1>4, <2>1 DEF Gone
  <1>5. CASE r = w /\ Takes(w, rows)
    <2>1. \A s \in Workers : row[s].batch < seq
      BY <1>1 DEF Shape
    <2>2. new'[r].batch = seq /\ lock'[r] = w /\ lock'[Main] = w /\ w # NoOne
      BY <1>1, <1>2, <1>5, MainAssumption DEF Takes, Workers
    <2>3. row[r].batch \in Nat
      BY <1>1, FieldsAre DEF TypeOK
    <2> QED
      BY <1>1, <2>1, <2>2, <2>3
  <1> QED
    BY <1>3, <1>4, <1>5, MovesWindow

LEMMA MovesVictims ==
    ASSUME IInv, Victims, NEW w \in Workers, NEW t \in Txn, NEW rows, Runs(w, t, rows),
           Moves(w, t, rows), IInv'
    PROVE  Victims'
  <1>1. /\ rows \in SUBSET Workers /\ Main \in Workers /\ Main \notin Members
        /\ Members \subseteq Workers /\ NoOne \notin Workers /\ row' = row
        /\ \A r \in Workers : lock'[r] = IF r \in rows THEN w ELSE lock[r]
        /\ \A r \in rows : lock[r] \in {w, NoOne}
        /\ \A r \in Workers \ rows : new'[r] = new[r]
        /\ \A r \in Workers : lock[r] = NoOne => new[r] = row[r]
    BY MovesLocks
  <1> SUFFICES ASSUME NEW m \in Members
               PROVE  /\ new'[m].stale => row[m].stale
                      /\ lock'[m] \notin {m, NoOne} =>
                            /\ lock'[m] = lock'[Main] /\ lock'[lock'[m]] = lock'[m]
                            /\ lock'[m] # Main /\ row[m].stale /\ row[m].batch # 0
                            /\ new'[m].batch = 0 /\ ~new'[m].stale
    BY <1>1 DEF Victims
  <1>2. CASE m \notin rows
    <2>1. new'[m] = new[m] /\ lock'[m] = lock[m] /\ lock[m] \in Workers \cup {NoOne}
      BY <1>1, <1>2 DEF IInv, TypeOK
    <2>2. ASSUME lock[m] \notin {m, NoOne}
          PROVE  lock'[Main] = lock[m] /\ lock'[lock[m]] = lock[m]
      <3>1. lock[m] = lock[Main] /\ lock[lock[m]] = lock[m] /\ lock[m] \in Workers
        BY <2>1, <2>2 DEF Victims
      <3> QED
        BY <1>1, <3>1
    <2> QED
      BY <1>1, <2>1, <2>2 DEF Victims
  <1>3. CASE m \in rows /\ m = w
    BY <1>1, <1>3 DEF Victims, Moves
  <1>4. CASE m \in rows /\ m # w
    <2>1. Took(w, m) /\ Takes(w, rows)
      BY <1>4 DEF Moves
    <2>2. w # Main /\ lock'[m] = w /\ lock'[Main] = w /\ lock'[w] = w
      BY <1>1, <1>4, <2>1 DEF Moves, Takes
    <2>3. lock[m] = w => new[m].batch = 0
      BY <1>1, <1>4 DEF Victims
    <2>4. lock[m] = NoOne /\ new[m] = row[m]
      BY <1>1, <1>4, <2>1, <2>3 DEF Took
    <2> QED
      BY <1>1, <1>4, <2>1, <2>2, <2>4 DEF Took, Gone
  <1> QED
    BY <1>2, <1>3, <1>4

LEMMA MovesMainOwn ==
    ASSUME IInv, Owners, Tokens, MainOwn, NEW w \in Workers, NEW t \in Txn, NEW rows,
           Runs(w, t, rows), Moves(w, t, rows), IInv', ~demoting'[Main]
    PROVE  MainOwn'
  <1>1. /\ rows \in SUBSET Workers /\ Main \in Workers /\ Main \notin Members
        /\ Members \subseteq Workers /\ NoOne \notin Workers /\ row' = row /\ tick' = tick
        /\ \A r \in Workers : lock'[r] = IF r \in rows THEN w ELSE lock[r]
        /\ \A r \in rows : lock[r] \in {w, NoOne}
        /\ \A r \in Workers \ rows : new'[r] = new[r]
        /\ \A r \in Workers : lock[r] = NoOne => new[r] = row[r]
    BY MovesLocks
  <1>2. CASE Main \notin rows
    <2>1. new'[Main] = new[Main] /\ lock'[Main] = lock[Main]
      BY <1>1, <1>2
    <2>2. origin' = origin
      BY <1>2 DEF Moves, Cursor
    <2> QED
      BY <1>1, <2>1, <2>2 DEF MainOwn
  <1>3. CASE Main \in rows
    <2>1. lock'[Main] = w /\ lock[Main] \in {w, NoOne} /\ (w = Main \/ w \in Members)
      BY <1>1, <1>3 DEF Workers
    <2>2. /\ tick \in Nat /\ origin \in Nat /\ row[Main].last \in Nat /\ new[Main].last \in Nat
          /\ new'[Main].last \in Nat
      <3>1. new' \in [Workers -> Row]
        BY DEF IInv, TypeOK
      <3> QED
        BY <1>1, <3>1, FieldsAre, TableIs DEF IInv
    <2>3. /\ new[Main].role = "none" =>
                row[Main].role = "none" /\ new[Main].last = 0 /\ new[Main].batch = 0
      BY DEF IInv, Shapes, Shape
    <2>4. new'[Main].last <= tick
      BY <2>2 DEF Moves, Cursor, MainOwn
    <2>5. new'[Main].window <= tick /\ row[Main].window <= tick
      BY <1>3 DEF Moves, Same, MainOwn
    <2>6. new[Main].role # "none" => origin' = origin /\ new[Main].last <= new'[Main].last
      BY <2>2 DEF Moves, Cursor
    <2>7. row[Main].role # "none" => origin' <= row[Main].last
      BY <2>3, <2>6 DEF MainOwn
    <2>8. new'[Main].role # "none" => origin' <= new'[Main].last
      BY <2>2, <2>6 DEF MainOwn, Moves
    <2>9. w = Main => row[Main].role # "none"
      BY <1>1, <1>3, <2>1 DEF MainOwn, Moves
    <2>10. ASSUME w \in Members
           PROVE  /\ new'[Main].batch = row[Main].batch
                  /\ new'[Main].last # row[Main].last => row[Main].batch = 0
      <3>1. w # Main /\ new'[Main].batch = new[Main].batch
        BY <1>1, <1>3, <2>10 DEF Moves, Same
      <3>2. new[Main].batch = row[Main].batch
        BY <1>1, <2>1, <2>10 DEF MainOwn
      <3>3. new[Main].last # row[Main].last => row[Main].batch = 0
        BY <1>1, <2>1, <2>10 DEF MainOwn
      <3>4. new'[Main].last # new[Main].last => new[Main].batch = 0
        BY <2>3, <2>10 DEF Moves, Cursor
      <3> QED
        BY <3>1, <3>2, <3>3, <3>4
    <2>11. ASSUME row[Main].batch # 0, new'[Main].batch = 0
           PROVE  new'[Main].last # row[Main].last
      <3>1. row[Main].last <= new[Main].last /\ new[Main].last <= new'[Main].last
        BY <2>2, <2>3 DEF Moves, Cursor, Owners
      <3>2. CASE new[Main].batch = 0
        BY <2>2, <2>11, <3>1, <3>2 DEF MainOwn
      <3>3. CASE new[Main].batch # 0
        <4>1. Acks(Main, t, rows) /\ w = Main
          BY <1>3, <2>1, <2>11, <3>3 DEF Moves, Same, Takes
        <4>2. new'[Main].last = new[Main].window /\ new[Main].window = new[Main].last + 1
          BY <3>3, <4>1 DEF Acks, IInv, Shapes, Shape
        <4> QED
          BY <2>2, <3>1, <4>2
      <3> QED
        BY <3>2, <3>3
    <2> QED
      BY <1>1, <2>1, <2>4, <2>5, <2>7, <2>8, <2>9, <2>10, <2>11 DEF MainOwn
  <1> QED
    BY <1>2, <1>3

LEMMA MovesAcked ==
    ASSUME IInv, Owners, Acked, NEW w \in Workers, NEW t \in Txn, NEW rows,
           Runs(w, t, rows), Moves(w, t, rows), IInv'
    PROVE  Acked'
  <1>1. /\ rows \in SUBSET Workers /\ Main \in Workers /\ Main \notin Members
        /\ Members \subseteq Workers /\ NoOne \notin Workers /\ row' = row
        /\ finished' = finished
        /\ \A r \in Workers : lock'[r] = IF r \in rows THEN w ELSE lock[r]
        /\ \A r \in rows : lock[r] \in {w, NoOne}
        /\ \A r \in Workers \ rows : new'[r] = new[r]
        /\ txn'[w] = t /\ \A v \in Workers \ {w} : txn'[v] = txn[v]
    BY MovesLocks
  <1>2. /\ new[Main].last \in Nat /\ row[Main].last \in Nat /\ new'[Main].last \in Nat
        /\ finished \subseteq 1 .. MaxTicks /\ MaxTicks \in Nat
        /\ \A v \in Workers : txn[v].finished \subseteq 1 .. MaxTicks
        /\ \A r \in Workers : new[r].window \in Nat /\ row[r].window \in Nat
    <2>1. new' \in [Workers -> Row]
      BY DEF IInv, TypeOK
    <2>2. \A v \in Workers : txn[v].finished \subseteq 1 .. MaxTicks
      BY DEF IInv, TypeOK, Txn
    <2>3. finished \subseteq 1 .. MaxTicks
      BY DEF IInv, TypeOK
    <2> QED
      BY <1>1, <2>1, <2>2, <2>3, FieldsAre, TableIs DEF IInv
  <1>3. row[Main].last <= new[Main].last /\ new[Main].last <= new'[Main].last
    BY <1>2 DEF Owners, IInv, Shapes, Shape, Moves, Cursor
  \* A window that is behind the cursor and on no row is on none after the statement.
  <1>4. ASSUME NEW k \in 1 .. MaxTicks, k <= new[Main].last, NEW r \in Workers,
               \A q \in Workers : new[q].window # k
        PROVE  new'[r].window # k
    <2>1. CASE Same(r) \/ Gone(r)
      BY <1>2, <1>4, <2>1 DEF Same, Gone
    <2>2. CASE r = w /\ Takes(w, rows)
      BY <1>1, <1>2, <1>4, <2>2 DEF Takes, Took
    <2> QED
      BY <2>1, <2>2, MovesWindow
  <1>5. ASSUME NEW k \in finished
        PROVE  k <= row[Main].last /\ \A r \in Workers : k \notin {row[r].window, new'[r].window}
    BY <1>1, <1>2, <1>3, <1>4, <1>5 DEF Acked
  <1>6. ASSUME NEW v \in Workers, NEW k \in txn[v].finished
        PROVE  /\ k <= row[Main].last \/ (lock'[Main] = v /\ k <= new'[Main].last)
               /\ \A r \in Workers : new'[r].window # k /\ (row[r].window = k => lock'[r] = v)
    <2>1. k \in 1 .. MaxTicks /\ k <= new[Main].last
      BY <1>2, <1>3, <1>6 DEF Acked
    <2>2. \A r \in Workers : lock[r] = v => lock'[r] = v
      BY <1>1
    <2> QED
      BY <1>1, <1>2, <1>3, <1>4, <2>1, <2>2 DEF Acked
  <1>7. ASSUME Acks(w, t, rows), NEW k, k = new[w].window
        PROVE  /\ k <= row[Main].last \/ (lock'[Main] = w /\ k <= new'[Main].last)
               /\ \A r \in Workers : new'[r].window # k /\ (row[r].window = k => lock'[r] = w)
    <2>1. k # 0 /\ k \in Nat /\ lock'[w] = w /\ w \in rows
      BY <1>1, <1>2, <1>7 DEF Acks, IInv, Shapes, Shape
    <2>2. k <= row[Main].last \/ (lock'[Main] = w /\ k <= new'[Main].last)
      <3>1. CASE w = Main
        BY <1>2, <1>7, <2>1, <3>1 DEF Acks
      <3>2. CASE w \in Members
        BY <1>1, <1>2, <1>3, <1>7, <2>1, <3>2 DEF Owners
      <3> QED
        BY <3>1, <3>2 DEF Workers
    <2>3. ASSUME NEW r \in Workers  PROVE new'[r].window # k
      <3>1. r # w => new[r].window # k
        BY <1>7, <2>1, WindowsApart DEF IInv
      <3>2. CASE r = w
        BY <1>7, <2>1, <3>2 DEF Acks, Gone
      <3>3. CASE r # w
        BY <2>1, <3>1, <3>3, MovesWindow DEF Same, Gone
      <3> QED
        BY <3>2, <3>3
    <2>4. ASSUME NEW r \in Workers, row[r].window = k  PROVE lock'[r] = w
      <3>1. r # w => lock[r] = lock[w] /\ lock[r] # NoOne
        BY <1>7, <2>1, <2>4, WindowsApart DEF IInv
      <3> QED
        BY <1>1, <2>1, <3>1
    <2> QED
      BY <2>2, <2>3, <2>4
  <1>8. ASSUME NEW v \in Workers, NEW k \in txn'[v].finished
        PROVE  /\ k <= row[Main].last \/ (lock'[Main] = v /\ k <= new'[Main].last)
               /\ \A r \in Workers : new'[r].window # k /\ (row[r].window = k => lock'[r] = v)
    <2>1. CASE k \in txn[v].finished
      BY <1>6, <2>1
    <2>2. CASE k \notin txn[v].finished
      <3>1. v = w /\ k \in t.finished /\ k \notin Current(w).finished
        BY <1>1, <1>8, <2>2, CurrentSettles
      <3>2. Acks(w, t, rows) /\ k = new[w].window
        BY <3>1 DEF Moves, Acks
      <3> QED
        BY <1>7, <3>1, <3>2
    <2> QED
      BY <2>1, <2>2
  <1> QED
    BY <1>1, <1>5, <1>8 DEF Acked

\* A transaction of another process keeps what it has reached, and its own row.
LEMMA OthersReach ==
    ASSUME IInv, Victims, NEW w \in Workers, NEW t \in Txn, NEW rows, Runs(w, t, rows),
           Moves(w, t, rows), NEW v \in Workers, v # w
    PROVE  /\ Reach(v)' = Reach(v)
           /\ Reach(v) # {} => new'[v] = new[v]
           /\ lock'[v] = v => lock[v] = v /\ new'[v] = new[v]
  <1>1. /\ rows \in SUBSET Workers /\ Main \in Workers /\ Main \notin Members
        /\ Members \subseteq Workers /\ NoOne \notin Workers /\ row' = row
        /\ \A r \in Workers : lock'[r] = IF r \in rows THEN w ELSE lock[r]
        /\ \A r \in rows : lock[r] \in {w, NoOne}
        /\ \A r \in Workers \ rows : new'[r] = new[r]
    BY MovesLocks
  <1>2. \A r \in Workers : lock'[r] = v <=> lock[r] = v
    BY <1>1
  <1>3. lock[Main] = v => Main \notin rows /\ new'[Main] = new[Main] /\ origin' = origin
    BY <1>1 DEF Moves, Cursor
  <1>4. Reach(v)' = Reach(v)
    <2>1. {row'[m].window : m \in {m \in Members : lock'[m] = v}}
             = {row[m].window : m \in {m \in Members : lock[m] = v}}
      BY <1>1, <1>2
    <2>2. CASE lock[Main] = v
      BY <1>1, <1>2, <1>3, <2>1, <2>2 DEF Reach, Base
    <2>3. CASE lock[Main] # v
      BY <1>1, <1>2, <2>1, <2>3 DEF Reach
    <2> QED
      BY <2>2, <2>3
  <1>5. ASSUME v \in rows  PROVE Reach(v) = {}
    <2>1. v = Main \/ (v \in Members /\ Main \in rows)
      BY <1>1, <1>5 DEF Moves, Takes, Workers
    <2>2. lock[Main] # v /\ lock[v] # v
      BY <1>1, <1>5, <2>1
    <2>3. \A m \in Members : lock[m] # v
      BY <1>1, <2>2 DEF Victims
    <2> QED
      BY <2>2, <2>3 DEF Reach
  <1>6. v \notin rows => new'[v] = new[v]
    BY <1>1
  <1> QED
    BY <1>1, <1>2, <1>4, <1>5, <1>6

\* What w's own transaction reaches grows; what it adds is in its hand, was in its row, or
\* has been settled by it.
LEMMA OwnReach ==
    ASSUME IInv, Owners, MainOwn, NEW w \in Workers, NEW t \in Txn, NEW rows,
           Runs(w, t, rows), Moves(w, t, rows), IInv'
    PROVE  /\ Reach(w) \subseteq Reach(w)'
           /\ \A m \in Members \cap rows :
                 lock[m] = NoOne => row[m].window = new[m].window /\ new[m].window \in Reach(w)'
           /\ Reach(w)' \subseteq Reach(w) \cup {0} \cup empty \cup t.finished
                                  \cup {new[w].window, new'[w].window}
           /\ /\ Main \in rows /\ new[Main].role # "none"
              /\ new'[Main].last = new[Main].last + 1
              => new'[Main].last \in Reach(w)'
  <1>1. /\ rows \in SUBSET Workers /\ Main \in Workers /\ Main \notin Members
        /\ Members \subseteq Workers /\ NoOne \notin Workers /\ row' = row
        /\ \A r \in Workers : lock'[r] = IF r \in rows THEN w ELSE lock[r]
        /\ \A r \in rows : lock[r] \in {w, NoOne}
        /\ \A r \in Workers \ rows : new'[r] = new[r]
        /\ \A r \in Workers : lock[r] = NoOne => new[r] = row[r]
    BY MovesLocks
  <1>2. /\ new[Main].last \in Nat /\ row[Main].last \in Nat /\ new'[Main].last \in Nat
        /\ tick \in Nat /\ origin \in Nat /\ Base \in Nat
        /\ new[Main].role = "none" => row[Main].role = "none" /\ new[Main].last = 0
    <2>1. new' \in [Workers -> Row]
      BY DEF IInv, TypeOK
    <2> QED
      BY <1>1, <2>1, FieldsAre, TableIs DEF IInv, Shapes, Shape, Base
  <1>3. ASSUME NEW m \in Members, lock[m] = w  PROVE row[m].window \in Reach(w)
    BY <1>3 DEF Reach
  <1>4. ASSUME NEW m \in Members, lock'[m] = w  PROVE row[m].window \in Reach(w)'
    BY <1>1, <1>4 DEF Reach
  <1>5. ASSUME NEW k \in Base + 1 .. new[Main].last, lock[Main] = w  PROVE k \in Reach(w)
    BY <1>5 DEF Reach
  <1>6. ASSUME NEW k \in Base' + 1 .. new'[Main].last, lock'[Main] = w  PROVE k \in Reach(w)'
    BY <1>6 DEF Reach
  <1>7. origin' = origin => Base' = Base
    BY <1>1 DEF Base
  <1>8. ASSUME NEW k \in Base + 1 .. new[Main].last
        PROVE  k \in Base' + 1 .. new'[Main].last
    <2>1. new[Main].role # "none"
      BY <1>2, <1>8
    <2> QED
      BY <1>2, <1>7, <1>8, <2>1 DEF Moves, Cursor
  <1>9. Reach(w) \subseteq Reach(w)'
    BY <1>1, <1>4, <1>6, <1>8 DEF Reach
  <1>10. ASSUME NEW m \in Members \cap rows, lock[m] = NoOne
         PROVE  row[m].window = new[m].window /\ new[m].window \in Reach(w)'
    BY <1>1, <1>4, <1>10
  <1>11. ASSUME NEW m \in Members, lock'[m] = w
         PROVE  row[m].window \in Reach(w) \cup {new[w].window, new'[w].window}
    <2>1. CASE lock[m] = w
      BY <1>3, <2>1
    <2>2. CASE lock[m] # w
      <3>1. m \in rows /\ row[m].window = new[m].window
        BY <1>1, <1>11, <2>2
      <3> QED
        BY <3>1 DEF Moves, Took
    <2> QED
      BY <2>1, <2>2
  <1>12. ASSUME lock'[Main] = w, NEW k \in Base' + 1 .. new'[Main].last
         PROVE  k \in Reach(w) \cup empty \cup t.finished \cup {new'[w].window}
    <2>1. ASSUME k \in Base + 1 .. new[Main].last  PROVE k \in Reach(w)
      <3>1. lock[Main] # NoOne
        BY <1>1, <1>2, <2>1 DEF Base
      <3>2. lock[Main] = w
        BY <1>1, <1>12, <3>1
      <3> QED
        BY <1>5, <2>1, <3>2
    <2>2. CASE new'[Main].last = new[Main].last /\ origin' = origin
      BY <1>7, <1>12, <2>1, <2>2
    <2>3. CASE /\ Main \in rows /\ origin' = origin
               /\ new'[Main].last = new[Main].last + 1
               /\ new'[Main].last \in empty \cup t.finished \cup {new'[w].window}
      BY <1>2, <1>7, <1>12, <2>1, <2>3
    <2>4. CASE new[Main].role = "none" /\ new'[Main].last = tick /\ origin' = tick
      <3>1. Base' = tick
        BY <1>1, <1>2, <2>4 DEF Base
      <3> QED
        BY <1>2, <1>12, <2>4, <3>1
    <2> QED
      BY <2>2, <2>3, <2>4 DEF Moves, Cursor
  <1>13. Reach(w)' \subseteq Reach(w) \cup {0} \cup empty \cup t.finished
                             \cup {new[w].window, new'[w].window}
    BY <1>1, <1>11, <1>12 DEF Reach
  <1>14. ASSUME Main \in rows, new[Main].role # "none", new'[Main].last = new[Main].last + 1
         PROVE  new'[Main].last \in Reach(w)'
    <2>1. Base <= new[Main].last
      BY <1>14 DEF Base, Owners, MainOwn
    <2>2. origin' = origin
      BY <1>14 DEF Moves, Cursor
    <2> QED
      BY <1>1, <1>2, <1>6, <1>7, <1>14, <2>1, <2>2
  <1> QED
    BY <1>9, <1>10, <1>13, <1>14

LEMMA MovesDealt ==
    ASSUME IInv, Owners, Victims, MainOwn, Dealt, NEW w \in Workers, NEW t \in Txn, NEW rows,
           Runs(w, t, rows), Moves(w, t, rows), IInv'
    PROVE  Dealt'
  <1>1. /\ rows \in SUBSET Workers /\ Main \in Workers /\ Main \notin Members
        /\ Members \subseteq Workers /\ NoOne \notin Workers /\ row' = row /\ empty' = empty
        /\ \A r \in Workers : lock'[r] = IF r \in rows THEN w ELSE lock[r]
        /\ \A r \in rows : lock[r] \in {w, NoOne}
        /\ \A r \in Workers \ rows : new'[r] = new[r]
        /\ \A r \in Workers : lock[r] = w => Current(w) = txn[w]
        /\ txn'[w] = t /\ \A v \in Workers \ {w} : txn'[v] = txn[v]
    BY MovesLocks
  <1>2. ASSUME NEW v \in Workers, v # w
        PROVE  /\ Reach(v)' \subseteq {0} \cup empty \cup txn'[v].finished \cup {new'[v].window}
               /\ txn'[v].finished \subseteq Reach(v)'
               /\ lock'[v] = v /\ v \in Members => new'[v].window \in Reach(v)' \cup {0}
    BY <1>1, <1>2, OthersReach DEF Dealt
  <1>3. /\ Reach(w) \subseteq Reach(w)'
        /\ \A m \in Members \cap rows :
              lock[m] = NoOne => row[m].window = new[m].window /\ new[m].window \in Reach(w)'
        /\ Reach(w)' \subseteq Reach(w) \cup {0} \cup empty \cup t.finished
                               \cup {new[w].window, new'[w].window}
        /\ /\ Main \in rows /\ new[Main].role # "none"
           /\ new'[Main].last = new[Main].last + 1
           => new'[Main].last \in Reach(w)'
    BY OwnReach
  <1>4. new[w].batch = 0 => new[w].window = 0
    BY DEF IInv, Shapes, Shape
  \* w's window is kept, settled, or w had none.
  <1>5. new[w].window \in {0, new'[w].window} \cup t.finished
    BY <1>1, <1>4 DEF Moves, Same, Acks, Takes
  <1>6. Current(w).finished \subseteq t.finished
    BY DEF Moves, Acks
  <1>7. Reach(w) \subseteq {0} \cup empty \cup t.finished \cup {new'[w].window}
    <2>1. Reach(w) # {} => Current(w) = txn[w]
      BY <1>1 DEF Reach
    <2> QED
      BY <1>5, <1>6, <2>1 DEF Dealt
  <1>8. Reach(w)' \subseteq {0} \cup empty \cup t.finished \cup {new'[w].window}
    BY <1>3, <1>5, <1>7
  <1>9. ASSUME w \in Members, w \in rows, new[w].batch # 0  PROVE new[w].window \in Reach(w)'
    <2>1. new[w].window # 0
      BY <1>9 DEF IInv, Shapes, Shape
    <2>2. CASE lock[w] = w
      BY <1>3, <1>9, <2>1, <2>2 DEF Dealt
    <2>3. CASE lock[w] = NoOne
      BY <1>3, <1>9, <2>3
    <2> QED
      BY <1>1, <1>9, <2>2, <2>3
  <1>10. t.finished \subseteq Reach(w)'
    <2>1. Current(w).finished \subseteq Reach(w)'
      BY <1>3, CurrentSettles DEF Dealt
    <2>2. ASSUME Acks(w, t, rows)  PROVE new[w].window \in Reach(w)'
      <3>1. CASE w \in Members
        BY <1>9, <2>2, <3>1 DEF Acks
      <3>2. CASE w = Main
        <4>1. /\ new'[Main].last = new[Main].window /\ new[Main].window = new[Main].last + 1
              /\ Main \in rows /\ new[Main].role # "none"
          BY <2>2, <3>2 DEF Acks, IInv, Shapes, Shape
        <4> QED
          BY <1>3, <3>2, <4>1
      <3> QED
        BY <3>1, <3>2 DEF Workers
    <2> QED
      BY <2>1, <2>2 DEF Moves, Acks
  <1>11. ASSUME lock'[w] = w, w \in Members  PROVE new'[w].window \in Reach(w)' \cup {0}
    <2>1. CASE w \notin rows
      BY <1>1, <1>3, <1>11, <2>1 DEF Dealt
    <2>2. CASE w \in rows /\ Same(w)
      <3>1. new'[w].window = new[w].window
        BY <2>2 DEF Same
      <3> QED
        BY <1>4, <1>9, <1>11, <2>2, <3>1
    <2>3. CASE Gone(w)
      BY <2>3 DEF Gone
    <2>4. CASE Takes(w, rows)
      <3>1. Main \in rows /\ new[Main].role # "none"
        BY <2>4 DEF Takes
      <3>2. CASE /\ new'[w].window = new[Main].last + 1
                 /\ new'[Main].last = new[Main].last + 1
        BY <1>3, <3>1, <3>2
      <3>3. ASSUME NEW v \in rows \cap Members, v # w, Took(w, v)
            PROVE  new'[w].window \in Reach(w)'
        <4>1. lock[v] = w => new[v].batch = 0
          BY <1>1, <3>3 DEF Victims
        <4>2. lock[v] = NoOne /\ new'[w].window = new[v].window
          BY <1>1, <3>3, <4>1 DEF Took
        <4> QED
          BY <1>3, <4>2
      <3> QED
        BY <1>11, <2>4, <3>2, <3>3 DEF Takes
    <2> QED
      BY <2>1, <2>2, <2>3, <2>4, MovesWindow
  <1> QED
    BY <1>1, <1>2, <1>8, <1>10, <1>11 DEF Dealt

LEMMA MovesNacked ==
    ASSUME IInv, Owners, Nacked, NEW w \in Workers, NEW t \in Txn, NEW rows,
           Runs(w, t, rows), Moves(w, t, rows), IInv'
    PROVE  Nacked'
  <1>1. /\ rows \in SUBSET Workers /\ Main \in Workers /\ Main \notin Members
        /\ Members \subseteq Workers /\ NoOne \notin Workers /\ row' = row
        /\ \A r \in Workers : lock'[r] = IF r \in rows THEN w ELSE lock[r]
        /\ \A r \in rows : lock[r] \in {w, NoOne}
        /\ \A r \in Workers \ rows : new'[r] = new[r]
        /\ \A r \in Workers : lock[r] = NoOne => new[r] = row[r]
        /\ txn'[w] = t /\ \A v \in Workers \ {w} : txn'[v] = txn[v]
    BY MovesLocks
  <1>2. /\ new[Main].last \in Nat /\ row[Main].last \in Nat /\ new'[Main].last \in Nat
        /\ \A v \in Workers : txn'[v].requeued \subseteq 1 .. MaxTicks
        /\ MaxTicks \in Nat
        /\ \A r \in Workers : new[r].window \in Nat /\ row[r].window \in Nat
    <2>1. new' \in [Workers -> Row] /\ txn' \in [Workers -> Txn]
      BY DEF IInv, TypeOK
    <2>2. \A v \in Workers : txn'[v].requeued \subseteq 1 .. MaxTicks
      BY <2>1 DEF Txn
    <2> QED
      BY <1>1, <2>1, <2>2, FieldsAre, TableIs DEF IInv
  <1>3. new[Main].last <= new'[Main].last
    BY <1>2 DEF IInv, Shapes, Shape, Moves, Cursor
  <1> SUFFICES ASSUME NEW v \in Workers, NEW k \in txn'[v].requeued
               PROVE  \/ k <= row[Main].last
                      \/ lock'[Main] = v /\ k <= new'[Main].last
                      \/ v = Main /\ k = Seen(Main, Main)'.window
    BY <1>1 DEF Nacked
  <1>4. k \in 1 .. MaxTicks /\ k \in Nat /\ k # 0
    BY <1>2
  <1>5. CASE k <= row[Main].last
    BY <1>5
  <1>6. CASE lock[Main] = v /\ k <= new[Main].last
    BY <1>1, <1>2, <1>3, <1>4, <1>6
  <1>7. CASE v = Main /\ w # Main /\ k = Seen(Main, Main).window
    BY <1>1, <1>7 DEF Seen
  <1>8. CASE v = Main /\ w = Main /\ k = Seen(Main, Main).window
    <2>1. CASE Main \notin rows
      BY <1>1, <1>8, <2>1 DEF Seen
    <2>2. CASE Main \in rows
      <3>1. k = new[Main].window /\ lock'[Main] = Main
        BY <1>1, <1>8, <2>2 DEF Seen
      <3>2. CASE Same(Main)
        BY <1>8, <3>1, <3>2 DEF Same, Seen
      <3>3. CASE Acks(Main, t, rows)
        BY <1>2, <1>8, <3>1, <3>3 DEF Acks
      <3>4. CASE Takes(Main, rows)
        <4>1. new[Main].batch = 0 => new[Main].window = 0
          BY <1>1 DEF IInv, Shapes, Shape
        <4> QED
          BY <1>4, <3>1, <3>4, <4>1 DEF Takes
      <3> QED
        BY <1>8, <2>2, <3>2, <3>3, <3>4 DEF Moves
    <2> QED
      BY <2>1, <2>2
  <1>9. CASE v = w /\ w \in Members /\ k = Seen(w, w).window
    <2>1. CASE lock[w] = w
      <3>1. k = new[w].window /\ k <= new[Main].last
        BY <1>1, <1>9, <2>1 DEF Seen, Owners
      <3>2. k > row[Main].last => lock[Main] = w
        BY <1>9, <2>1, <3>1 DEF Owners
      <3> QED
        BY <1>2, <1>4, <1>6, <1>9, <3>1, <3>2
    <2>2. CASE lock[w] # w
      BY <1>9, <2>2 DEF Seen, Owners
    <2> QED
      BY <2>1, <2>2
  <1>10. k \in txn[v].requeued \/ (v = w /\ k = Seen(w, w).window)
    BY <1>1, CurrentSettles DEF Moves
  <1>11. w = Main \/ w \in Members
    BY DEF Workers
  <1>12. CASE k \in txn[v].requeued
    <2>1. \/ k <= row[Main].last \/ (lock[Main] = v /\ k <= new[Main].last)
          \/ v = Main /\ k = Seen(Main, Main).window
      BY <1>12 DEF Nacked
    <2> QED
      BY <1>5, <1>6, <1>7, <1>8, <2>1
  <1> QED
    BY <1>8, <1>9, <1>10, <1>11, <1>12

LEMMA MovesStep ==
    ASSUME GInv, NEW w \in Workers, NEW t \in Txn, NEW rows, Runs(w, t, rows),
           Moves(w, t, rows), IInv', ~demoting'[Main]
    PROVE  GInv'
  BY MovesOwners, MovesTokens, MovesVictims, MovesMainOwn, MovesAcked, MovesDealt, MovesNacked
     DEF GInv

-----------------------------------------------------------------------------
(* The statements, one by one.                                             *)

LEMMA StaleIsNot ==
    ASSUME TypeOK, NEW w \in Workers, NEW r \in Row, NEW b \in Batch
    PROVE  /\ MemberRow(w).stale = FALSE /\ Holds(r, b).stale = r.stale
           /\ Cleared(r).stale = FALSE /\ NoRow.stale = FALSE
           /\ Finish(w).stale = FALSE
  <1>1. new[w] \in Row
    BY DEF TypeOK
  <1>2. MemberRow(w).stale = FALSE /\ Holds(r, b).stale = r.stale
    BY <1>1 DEF MemberRow, Holds, Row
  <1>3. Cleared(r).stale = FALSE /\ Cleared(new[w]).stale = FALSE /\ Cleared(new[w]) \in Row
    BY <1>1, ClearedIs DEF Cleared, Row
  <1>4. Finish(w).stale = FALSE
    <2> DEFINE c == Cleared(new[w])
    <2>1. c \in Row /\ c.stale = FALSE
      BY <1>3
    <2>2. Finish(w) \in {c, [c EXCEPT !.last = new[w].window]}
      BY DEF Finish
    <2> HIDE DEF c
    <2> QED
      BY <2>1, <2>2 DEF Row
  <1> QED
    BY <1>2, <1>3, <1>4 DEF NoRow

\* A batch id that w holds is on w's own row, or on none.
LEMMA OwnerIs ==
    ASSUME IInv, NEW w \in Workers, NEW r \in Workers, Current(w).held # NoBatch, Owner(w, r)
    PROVE  r = w
  <1>1. Current(w).held.id # 0 /\ Current(w).held.id \in HeldIds(w)
    BY CurrentIs DEF IInv, HeldIds
  <1>2. Current(w).held.id \in Ids(r)
    BY <1>1 DEF Owner, Seen, Ids
  <1> QED
    BY <1>1, <1>2 DEF IInv, Fences

\* A statement that moves no window and no cursor.
LEMMA IdleStep ==
    ASSUME GInv, NEW w \in Workers, NEW t \in Txn, NEW rows \in SUBSET Workers,
           Runs(w, t, rows), IInv', ~demoting'[Main],
           \A r \in rows : Free(w, r),
           \A r \in Workers \ rows : new'[r] = new[r],
           \A r \in rows : Same(r) /\ (r = w \/ r = Main),
           new'[Main].last = new[Main].last, origin' = origin,
           new[Main].role = "none" => new'[Main].role = "none",
           w = Main /\ Main \in rows => new[Main].role # "none",
           w \in Members => (new'[w].stale => new[w].stale),
           t.finished = Current(w).finished,
           \A k \in t.requeued : k \in Current(w).requeued \/ k = Seen(w, w).window
    PROVE  GInv'
  <1>1. Main \in Workers /\ Main \notin Members
    BY MainAssumption DEF Workers
  <1>2. Main \in rows => new'[Main].window <= tick
    BY DEF GInv, MainOwn, Same
  <1>3. Moves(w, t, rows)
    BY <1>1, <1>2 DEF Moves, Cursor
  <1> QED
    BY <1>3, MovesStep DEF GInv

LEMMA NackGStep == ASSUME GInv, NEW w \in Workers, Nack(w)  PROVE GInv'
  <1>0. TypeOK /\ Shapes /\ IInv /\ IInv'
    BY NackStep DEF GInv, IInv
  <1>a. ~demoting'[Main]
    BY DEF Nack, GInv, MainOwn
  <1>1. PICK r \in Workers :
           Owner(w, r) /\ Runs(w, [Current(w) EXCEPT !.requeued = @ \cup {Seen(w, r).window}], {})
    BY DEF Nack
  <1>2. Current(w).held # NoBatch /\ UNCHANGED <<new, seq, demoting, bounds>>
    BY DEF Nack
  <1>3. r = w
    BY <1>0, <1>1, <1>2, OwnerIs
  <1>4. Seen(w, w).window \in 1 .. MaxTicks
    <2>1. Current(w).held.id # 0
      BY <1>0, <1>2, CurrentIs
    <2>2. Seen(w, w) \in {row[w], new[w]} /\ Seen(w, w).batch # 0
      BY <1>1, <1>3, <2>1 DEF Seen, Owner
    <2>3. Seen(w, w).window # 0 /\ Seen(w, w).window \in Nat /\ Seen(w, w).window <= MaxTicks
      BY <1>0, <2>2, TableIs, FieldsAre DEF Shapes, Shape
    <2> QED
      BY <2>3, BoundsAssumption
  <1> DEFINE t == [Current(w) EXCEPT !.requeued = @ \cup {Seen(w, w).window}]
  <1>5. /\ t \in Txn /\ t.finished = Current(w).finished
        /\ t.requeued = Current(w).requeued \cup {Seen(w, w).window}
    BY <1>0, <1>4, RequeuedIs, CurrentIs
  <1>6. Runs(w, t, {})
    BY <1>1, <1>3
  <1> HIDE DEF t
  <1>7. \A r1 \in Workers : new'[r1] = new[r1]
    BY <1>2
  <1>8. Main \in Workers /\ origin' = origin
    BY <1>2 DEF Workers, bounds
  <1> QED
    BY <1>0, <1>a, <1>5, <1>6, <1>7, <1>8, IdleStep

LEMMA AckTooLateGStep == ASSUME GInv, NEW w \in Workers, AckTooLate(w)  PROVE GInv'
  <1> DEFINE t == [Current(w) EXCEPT !.held = NoBatch]
  <1>0. TypeOK /\ Shapes /\ IInv'
    BY AckTooLateStep DEF GInv, IInv
  <1>a. ~demoting'[Main]
    BY DEF AckTooLate, GInv, MainOwn
  <1>1. Runs(w, t, {}) /\ UNCHANGED <<new, bounds>>
    BY DEF AckTooLate
  <1>2. t \in Txn /\ t.finished = Current(w).finished /\ t.requeued = Current(w).requeued
    BY <1>0, CurrentIs, NoRowIs, HeldIs
  <1> HIDE DEF t
  <1>3. Main \in Workers /\ origin' = origin /\ new' = new
    BY <1>1 DEF Workers, bounds
  <1> QED
    BY <1>0, <1>a, <1>1, <1>2, <1>3, IdleStep

LEMMA TouchGStep == ASSUME GInv, NEW w \in Workers, Touch(w)  PROVE GInv'
  <1>0. TypeOK /\ Shapes /\ IInv'
    BY TouchStep DEF GInv, IInv
  <1>a. ~demoting'[Main]
    BY DEF Touch, GInv, MainOwn
  <1>1. /\ w \in Members /\ w # Main /\ Main \in Workers /\ Free(w, w)
        /\ Runs(w, Current(w), {w}) /\ origin' = origin
        /\ new' = [new EXCEPT ![w] = [new[w] EXCEPT !.stale = FALSE]]
    BY MainAssumption DEF Touch, Workers, bounds
  <1>2. new'[w] = [new[w] EXCEPT !.stale = FALSE] /\ \A r \in Workers \ {w} : new'[r] = new[r]
    BY <1>0, <1>1 DEF TypeOK
  <1>3. new[w] \in Row
    BY <1>0 DEF TypeOK
  <1>4. Same(w) /\ new'[w].stale = FALSE
    BY <1>2, <1>3, StaleIs DEF Same, Row
  <1>5. Current(w) \in Txn
    BY <1>0, CurrentIs
  <1> QED
    BY <1>0, <1>a, <1>1, <1>2, <1>4, <1>5, IdleStep

LEMMA UnsubscribeGStep == ASSUME GInv, NEW w \in Workers, Unsubscribe(w)  PROVE GInv'
  <1>0. TypeOK /\ Shapes /\ IInv'
    BY UnsubscribeStep DEF GInv, IInv
  <1>a. ~demoting'[Main]
    BY <1>0, MainAssumption DEF Unsubscribe, TypeOK, GInv, MainOwn
  <1>1. /\ w \in Members /\ w # Main /\ Main \in Workers /\ Free(w, w) /\ new[w].batch = 0
        /\ Runs(w, Current(w), {w}) /\ origin' = origin /\ new' = [new EXCEPT ![w] = NoRow]
    BY MainAssumption DEF Unsubscribe, Leave, Workers
  <1>2. new'[w] = NoRow /\ \A r \in Workers \ {w} : new'[r] = new[r]
    BY <1>0, <1>1 DEF TypeOK
  <1>3. new[w].window = 0
    BY <1>0, <1>1 DEF Shapes, Shape
  <1>4. Same(w) /\ new'[w].stale = FALSE
    BY <1>1, <1>2, <1>3 DEF Same, NoRow
  <1>5. Current(w) \in Txn
    BY <1>0, CurrentIs
  <1> QED
    BY <1>0, <1>a, <1>1, <1>2, <1>4, <1>5, IdleStep

LEMMA DemoteGStep == ASSUME GInv, NEW w \in Workers, Demote(w)  PROVE GInv'
  <1> DEFINE o    == IF new[Main].role = "coop_main" THEN "normal" ELSE new[Main].role
             main == [new[Main] EXCEPT !.role = o]
  <1>0. TypeOK /\ Shapes /\ IInv'
    BY DemoteStep DEF GInv, IInv
  <1>a. ~demoting'[Main]
    BY <1>0 DEF Demote, TypeOK, GInv, MainOwn
  <1>1. /\ Main \in Workers /\ Free(w, Main) /\ Runs(w, Current(w), {Main})
        /\ new' = [new EXCEPT ![Main] = main] /\ origin' = origin
        /\ w # Main
    BY DEF Demote, bounds, Workers, GInv, MainOwn
  <1>2. new[Main] \in Row /\ o \in {"none", "normal", "coop_main", "coop_member"}
        /\ (o = "none" <=> new[Main].role = "none")
    BY <1>0, <1>1 DEF TypeOK, Row
  <1> HIDE DEF o
  <1>3. /\ main.role = o /\ main.last = new[Main].last /\ main.stale = new[Main].stale
        /\ main.batch = new[Main].batch /\ main.window = new[Main].window
    BY <1>2 DEF Row
  <1> HIDE DEF main
  <1>4. new'[Main] = main /\ \A r \in Workers \ {Main} : new'[r] = new[r]
    BY <1>0, <1>1 DEF TypeOK
  <1>5. Same(Main) /\ (new'[Main].role = "none" <=> new[Main].role = "none")
        /\ new'[Main].last = new[Main].last
    BY <1>2, <1>3, <1>4 DEF Same
  <1>6. Current(w) \in Txn
    BY <1>0, CurrentIs
  <1>7. w \in Members => (new'[w].stale => new[w].stale)
    BY <1>4, MainAssumption
  <1> QED
    BY <1>0, <1>a, <1>1, <1>4, <1>5, <1>6, <1>7, IdleStep

LEMMA ReceiveAgainGStep == ASSUME GInv, NEW w \in Workers, ReceiveAgain(w)  PROVE GInv'
  <1> DEFINE rows == {Main, w}
             b    == [id |-> new[w].batch, window |-> new[w].window]
             t    == [Current(w) EXCEPT !.held = b]
  <1>0. TypeOK /\ Shapes /\ IInv'
    BY ReceiveAgainStep DEF GInv, IInv
  <1>a. ~demoting'[Main]
    BY DEF ReceiveAgain, GInv, MainOwn
  <1>1. /\ w \in Members /\ w # Main /\ Main \in Workers /\ rows \in SUBSET Workers
        /\ \A r \in rows : Free(w, r)
    BY <1>0, MayReceiveIs DEF ReceiveAgain
  <1>2. Runs(w, t, rows) /\ new' = [new EXCEPT ![w] = MemberRow(w)] /\ origin' = origin
    BY DEF ReceiveAgain, bounds
  <1>3. new'[w] = MemberRow(w) /\ \A r \in Workers \ {w} : new'[r] = new[r]
    BY <1>0, <1>1, <1>2 DEF TypeOK
  <1>4. b \in Batch /\ Current(w) \in Txn
    BY <1>0, RowsAre, CurrentIs DEF Batch
  <1> HIDE DEF b
  <1>5. t \in Txn /\ t.finished = Current(w).finished /\ t.requeued = Current(w).requeued
    BY <1>4, HeldIs
  <1> HIDE DEF t
  <1>6. Same(w) /\ Same(Main) /\ new'[Main] = new[Main]
    BY <1>0, <1>1, <1>3, MemberRowIs DEF Same
  <1>7. new'[w].stale = FALSE
    BY <1>0, <1>3, NoRowIs, StaleIsNot
  <1>8. \A r \in rows : Same(r) /\ (r = w \/ r = Main)
    BY <1>6
  <1>9. \A r \in Workers \ rows : new'[r] = new[r]
    BY <1>3
  <1> HIDE DEF rows
  <1> QED
    BY <1>0, <1>a, <1>1, <1>2, <1>5, <1>6, <1>7, <1>8, <1>9, IdleStep

LEMMA PlainReceiveAgainGStep == ASSUME GInv, PlainReceiveAgain  PROVE GInv'
  <1> DEFINE rows == {Main}
             b    == [id |-> new[Main].batch, window |-> new[Main].window]
             t    == [Current(Main) EXCEPT !.held = b]
  <1>0. TypeOK /\ Shapes /\ IInv'
    BY PlainReceiveAgainStep DEF GInv, IInv
  <1>a. ~demoting'[Main]
    BY DEF PlainReceiveAgain, GInv, MainOwn
  <1>1. /\ Main \in Workers /\ Main \notin Members /\ rows \in SUBSET Workers
        /\ \A r \in rows : Free(Main, r) /\ r = Main
        /\ new[Main].role = "normal"
    BY MainAssumption DEF PlainReceiveAgain, MayReceivePlainly, Workers
  <1>2. Runs(Main, t, rows) /\ new' = new /\ origin' = origin
    BY DEF PlainReceiveAgain, bounds
  <1>3. b \in Batch /\ Current(Main) \in Txn
    BY <1>0, <1>1, RowsAre, CurrentIs DEF Batch
  <1> HIDE DEF b
  <1>4. t \in Txn /\ t.finished = Current(Main).finished /\ t.requeued = Current(Main).requeued
    BY <1>3, HeldIs
  <1> HIDE DEF t, rows
  <1>5. \A r \in Workers : new'[r] = new[r] /\ Same(r)
    BY <1>2 DEF Same
  <1> QED
    BY <1>0, <1>a, <1>1, <1>2, <1>4, <1>5, IdleStep

LEMMA RegisterGStep ==
    ASSUME GInv, NEW w \in Workers, NEW convert \in BOOLEAN, Register(w, convert)
    PROVE  GInv'
  <1> DEFINE rows == {Main, w}
  <1>0. TypeOK /\ Shapes /\ IInv /\ IInv'
    BY RegisterStep DEF GInv, IInv
  <1>a. ~demoting'[Main]
    BY DEF Register, GInv, MainOwn
  <1>1. /\ w \in Members /\ w # Main /\ Main \in Workers /\ Main \notin Members
        /\ rows \in SUBSET Workers /\ \A r \in rows : Free(w, r)
        /\ new[Main].role = "normal" => new[Main].batch = 0
    BY MainAssumption DEF Register, MayRegister, Workers
  <1>2. /\ Runs(w, Current(w), rows)
        /\ new' = [new EXCEPT ![Main] = MainRow, ![w] = MemberRow(w)]
        /\ origin' = IF new[Main].role = "none" THEN tick ELSE origin
    BY DEF Register
  <1>3. /\ new'[Main] = MainRow /\ new'[w] = MemberRow(w)
        /\ \A r \in Workers \ rows : new'[r] = new[r]
    BY <1>0, <1>1, <1>2 DEF TypeOK
  <1>4. /\ MainRow.role = "coop_main" /\ MainRow.batch = 0 /\ MainRow.window = 0
        /\ MainRow.last = IF new[Main].role = "none" THEN tick ELSE new[Main].last
    BY <1>0, <1>1, MainRowIs
  <1>5. new[Main].batch = 0 /\ new[Main].window = 0
    BY <1>0, <1>1, RowsAre DEF RowShape, Row
  <1>6. Same(w) /\ Same(Main) /\ new'[w].stale = FALSE
    BY <1>0, <1>3, <1>4, <1>5, MemberRowIs, NoRowIs, StaleIsNot DEF Same
  <1>7. Current(w) \in Txn
    BY <1>0, CurrentIs
  <1>8. \A r \in rows : Same(r) /\ (r = w \/ r = Main)
    BY <1>6
  <1>9. CASE new[Main].role # "none"
    <2>1. new'[Main].last = new[Main].last /\ origin' = origin
      BY <1>2, <1>3, <1>4, <1>9
    <2> HIDE DEF rows
    <2> QED
      BY <1>0, <1>a, <1>1, <1>2, <1>3, <1>6, <1>7, <1>8, <1>9, <2>1, IdleStep
  <1>10. CASE new[Main].role = "none"
    <2>1. new'[Main].last = tick /\ origin' = tick
      BY <1>2, <1>3, <1>4, <1>10
    <2>2. Cursor(w, Current(w), rows)
      BY <1>1, <1>10, <2>1 DEF Cursor
    <2>3. Members \cap rows = {w}
      BY <1>1
    <2>4. w \in rows /\ Main \in rows
      OBVIOUS
    <2> HIDE DEF rows
    <2>5. Moves(w, Current(w), rows)
      BY <1>1, <1>3, <1>6, <1>8, <1>10, <2>1, <2>2, <2>3 DEF Moves
    <2> QED
      BY <1>0, <1>a, <1>2, <1>7, <2>5, MovesStep
  <1> QED
    BY <1>9, <1>10

LEMMA TakeOverGStep ==
    ASSUME GInv, NEW w \in Workers, NEW victim \in Members, TakeOver(w, victim)
    PROVE  GInv'
  <1> DEFINE rows == {Main, w, victim}
             b    == FreshId(victim)
             t    == [Current(w) EXCEPT !.held = b]
  <1>0. TypeOK /\ Shapes /\ IInv'
    BY TakeOverStep DEF GInv, IInv
  <1>a. ~demoting'[Main]
    BY DEF TakeOver, GInv, MainOwn
  <1>1. /\ w \in Members /\ w # Main /\ Main \in Workers /\ victim \in Workers
        /\ victim # w /\ victim # Main /\ rows \in SUBSET Workers
        /\ \A r \in rows : Free(w, r)
        /\ new[Main].role = "coop_main" /\ Main \notin Members
    BY <1>0, MayReceiveIs, MainAssumption DEF TakeOver, Victim, Workers
  <1>2. /\ Runs(w, t, rows) /\ origin' = origin
        /\ new' = [new EXCEPT ![w] = Holds(MemberRow(w), b), ![victim] = Cleared(@)]
        /\ new[w].batch = 0 /\ new[victim].batch # 0 /\ new[victim].stale
    BY DEF TakeOver, Victim, bounds
  <1>3. new[victim] \in Row /\ new[victim].window \in 0 .. MaxTicks /\ seq \in Nat
    BY <1>0, <1>1, RowsAre
  <1>4. b \in Batch /\ b.id = seq /\ b.window = new[victim].window
    BY <1>3 DEF Batch, FreshId
  <1> HIDE DEF b
  <1>5. MemberRow(w) \in Row /\ MemberRow(w).stale = FALSE
    BY <1>0, MemberRowIs, NoRowIs, StaleIsNot
  <1>6. /\ new'[w] = Holds(MemberRow(w), b) /\ new'[victim] = Cleared(new[victim])
        /\ \A r \in Workers \ {w, victim} : new'[r] = new[r]
    BY <1>0, <1>1, <1>2 DEF TypeOK
  <1>7. /\ new'[w].batch = seq /\ new'[w].window = new[victim].window /\ new'[w].stale = FALSE
    BY <1>0, <1>4, <1>5, <1>6, HoldsIs, StaleIsNot
  <1>8. new'[victim].batch = 0 /\ new'[victim].window = 0 /\ new'[victim].stale = FALSE
    BY <1>0, <1>3, <1>4, <1>6, ClearedIs, StaleIsNot
  <1>9. Current(w) \in Txn
    BY <1>0, CurrentIs
  <1>10. t \in Txn /\ t.finished = Current(w).finished /\ t.requeued = Current(w).requeued
    BY <1>4, <1>9, HeldIs
  <1> HIDE DEF t
  <1>11. Took(w, victim)
    BY <1>2, <1>7, <1>8 DEF Took, Gone
  <1>12. Takes(w, rows)
    BY <1>1, <1>2, <1>7, <1>11 DEF Takes
  <1>13. new'[Main] = new[Main] /\ Same(Main)
    BY <1>1, <1>6 DEF Same
  <1>14. Cursor(w, t, rows)
    BY <1>2, <1>13 DEF Cursor
  <1>15. /\ \A r \in Workers \ rows : new'[r] = new[r]
         /\ \A r \in Members \cap rows : r = w \/ (w \in Members /\ Took(w, r) /\ Takes(w, rows))
    BY <1>1, <1>6, <1>11, <1>12
  <1> HIDE DEF rows
  <1>16. Moves(w, t, rows)
    BY <1>1, <1>7, <1>10, <1>12, <1>13, <1>14, <1>15 DEF Moves, Takes
  <1> QED
    BY <1>0, <1>a, <1>2, <1>10, <1>16, MovesStep

LEMMA ReceiveNextGStep == ASSUME GInv, NEW w \in Workers, ReceiveNext(w)  PROVE GInv'
  <1> DEFINE rows == {Main, w}
             k    == new[Main].last + 1
             b    == NextBatch(k)
             t    == [Current(w) EXCEPT !.held = b]
  <1>0. TypeOK /\ Shapes /\ IInv'
    BY ReceiveNextStep DEF GInv, IInv
  <1>a. ~demoting'[Main]
    BY DEF ReceiveNext, GInv, MainOwn
  <1>1. /\ w \in Members /\ w # Main /\ Main \in Workers /\ rows \in SUBSET Workers
        /\ \A r \in rows : Free(w, r) /\ Main \notin Members
        /\ new[Main].role = "coop_main" /\ new[Main].batch = 0 /\ new[Main].window = 0
    BY <1>0, MayReceiveIs, MainAssumption DEF ReceiveNext
  <1>2. /\ Runs(w, t, rows) /\ origin' = origin
        /\ new' = [new EXCEPT ![Main].last = k, ![w] = Holds(MemberRow(w), b)]
        /\ new[w].batch = 0 /\ k <= tick
    BY DEF ReceiveNext, bounds
  <1>3. /\ new[Main] \in Row /\ seq \in Nat \ {0} /\ new[Main].last \in Nat
        /\ new[w].window = 0 /\ k \in 0 .. MaxTicks
    BY <1>0, <1>1, <1>2, RowsAre DEF RowShape
  <1>4. b \in Batch /\ \/ k \notin empty /\ b.id = seq /\ b.window = k
                       \/ k \in empty /\ b.id = 0 /\ b.window = 0
    BY <1>3, NoRowIs DEF Batch, NextBatch, NoBatch
  <1>5. k = new[Main].last + 1
    OBVIOUS
  <1> HIDE DEF b, k
  <1>6. MemberRow(w) \in Row /\ MemberRow(w).stale = FALSE
    BY <1>0, MemberRowIs, NoRowIs, StaleIsNot
  <1> DEFINE main == [new[Main] EXCEPT !.last = k]
  <1>7. main.last = k /\ main.role = "coop_main" /\ main.batch = 0 /\ main.window = 0
    BY <1>1, <1>3, LastIs
  <1>8. new' = [new EXCEPT ![Main] = main, ![w] = Holds(MemberRow(w), b)]
    BY <1>2
  <1> HIDE DEF main
  <1>9. /\ new'[w] = Holds(MemberRow(w), b) /\ new'[Main] = main
        /\ \A r \in Workers \ rows : new'[r] = new[r]
    BY <1>0, <1>1, <1>8 DEF TypeOK
  <1>10. new'[w].batch = b.id /\ new'[w].window = b.window /\ new'[w].stale = FALSE
    BY <1>0, <1>4, <1>6, <1>9, HoldsIs, StaleIsNot
  <1>11. Current(w) \in Txn
    BY <1>0, CurrentIs
  <1>12. t \in Txn /\ t.finished = Current(w).finished /\ t.requeued = Current(w).requeued
    BY <1>4, <1>11, HeldIs
  <1> HIDE DEF t
  <1>13. Same(Main) /\ new'[Main].last = new[Main].last + 1 /\ new'[Main].role = "coop_main"
    BY <1>1, <1>5, <1>7, <1>9 DEF Same
  <1>14. Same(w) \/ Takes(w, rows)
    BY <1>1, <1>2, <1>3, <1>4, <1>5, <1>10, <1>13 DEF Same, Takes
  <1>15. Cursor(w, t, rows)
    BY <1>1, <1>2, <1>4, <1>5, <1>10, <1>13 DEF Cursor
  <1>16. Members \cap rows \subseteq {w}
    BY <1>1
  <1> HIDE DEF rows
  <1>17. Moves(w, t, rows)
    BY <1>1, <1>9, <1>10, <1>12, <1>13, <1>14, <1>15, <1>16 DEF Moves
  <1> QED
    BY <1>0, <1>a, <1>2, <1>12, <1>17, MovesStep

LEMMA PlainReceiveNextGStep == ASSUME GInv, PlainReceiveNext  PROVE GInv'
  <1> DEFINE rows == {Main}
             k    == new[Main].last + 1
             b    == NextBatch(k)
             t    == [Current(Main) EXCEPT !.held = b]
             main == IF k \in empty THEN [new[Main] EXCEPT !.last = k] ELSE Holds(new[Main], b)
  <1>0. TypeOK /\ Shapes /\ IInv'
    BY PlainReceiveNextStep DEF GInv, IInv
  <1>a. ~demoting'[Main]
    BY DEF PlainReceiveNext, GInv, MainOwn
  <1>1. /\ Main \in Workers /\ Main \notin Members /\ rows \in SUBSET Workers
        /\ \A r \in rows : Free(Main, r)
        /\ new[Main].role = "normal"
    BY MainAssumption DEF PlainReceiveNext, MayReceivePlainly, Workers
  <1>2. /\ Runs(Main, t, rows) /\ origin' = origin
        /\ new' = [new EXCEPT ![Main] = main]
        /\ new[Main].batch = 0 /\ k <= tick
    BY DEF PlainReceiveNext, bounds
  <1>3. /\ new[Main] \in Row /\ seq \in Nat \ {0} /\ new[Main].last \in Nat
        /\ new[Main].window = 0 /\ k \in 0 .. MaxTicks /\ tick \in Nat
    BY <1>0, <1>1, <1>2, RowsAre DEF RowShape
  <1>4. b \in Batch /\ \/ k \notin empty /\ b.id = seq /\ b.window = k
                       \/ k \in empty /\ b.id = 0 /\ b.window = 0
    BY <1>3, NoRowIs DEF Batch, NextBatch, NoBatch
  <1>5. k = new[Main].last + 1
    OBVIOUS
  <1> HIDE DEF b, k
  <1>6. /\ main.role = "normal" /\ main.batch = b.id /\ main.window = b.window
        /\ main.last = IF k \in empty THEN k ELSE new[Main].last
    <2> DEFINE moved == [new[Main] EXCEPT !.last = k]
    <2>1. moved.last = k /\ moved.role = "normal" /\ moved.batch = 0 /\ moved.window = 0
      BY <1>1, <1>2, <1>3, LastIs
    <2>2. main = IF k \in empty THEN moved ELSE Holds(new[Main], b)
      OBVIOUS
    <2> HIDE DEF moved, main
    <2> QED
      BY <1>1, <1>3, <1>4, <2>1, <2>2, HoldsIs
  <1> HIDE DEF main
  <1>7. new'[Main] = main /\ \A r \in Workers \ rows : new'[r] = new[r]
    BY <1>0, <1>1, <1>2 DEF TypeOK
  <1>8. Current(Main) \in Txn
    BY <1>0, <1>1, CurrentIs
  <1>9. t \in Txn /\ t.finished = Current(Main).finished /\ t.requeued = Current(Main).requeued
    BY <1>4, <1>8, HeldIs
  <1> HIDE DEF t
  <1>10. Same(Main) \/ Takes(Main, rows)
    BY <1>1, <1>2, <1>3, <1>4, <1>5, <1>6, <1>7 DEF Same, Takes
  <1>11. Cursor(Main, t, rows)
    BY <1>1, <1>2, <1>3, <1>4, <1>5, <1>6, <1>7 DEF Cursor
  <1>12. /\ Members \cap rows = {} /\ new'[Main].role # "none" /\ new'[Main].window <= tick
    BY <1>1, <1>2, <1>3, <1>4, <1>5, <1>6, <1>7
  <1> HIDE DEF rows
  <1>13. Moves(Main, t, rows)
    BY <1>1, <1>7, <1>9, <1>10, <1>11, <1>12 DEF Moves
  <1> QED
    BY <1>0, <1>a, <1>1, <1>2, <1>9, <1>13, MovesStep

LEMMA AckGStep == ASSUME GInv, NEW w \in Workers, Ack(w)  PROVE GInv'
  <1> DEFINE k == new[w].window
             t == [Current(w) EXCEPT !.held = NoBatch, !.finished = @ \cup {k}]
  <1>0. TypeOK /\ Shapes /\ Unlocked /\ IInv /\ IInv'
    BY AckStep DEF GInv, IInv
  <1>a. ~demoting'[Main]
    BY DEF Ack, GInv, MainOwn
  <1>1. PICK r \in Workers :
           /\ Owner(w, r) /\ Free(w, r) /\ new[r].role # "coop_main"
           /\ Runs(w, [Current(w) EXCEPT !.held = NoBatch,
                                         !.finished = @ \cup {new[r].window}], {r})
           /\ new' = [new EXCEPT ![r] = Finish(r)]
    BY DEF Ack
  <1>2. Current(w).held # NoBatch /\ origin' = origin
    BY DEF Ack, bounds
  <1>3. r = w
    BY <1>0, <1>1, <1>2, OwnerIs
  <1>4. new[w].batch # 0
    <2>1. Current(w).held.id # 0
      BY <1>0, <1>2, CurrentIs
    <2> QED
      BY <1>0, <1>1, <1>3, <2>1 DEF Owner, Seen, Free, Unlocked
  <1>5. /\ k \in 1 .. MaxTicks /\ Finish(w).batch = 0 /\ Finish(w).window = 0
        /\ w = Main => Finish(w).role = "normal" /\ Finish(w).last = k /\ k = new[w].last + 1
                       /\ new[w].role = "normal"
    BY <1>0, <1>4, FinishIs
  <1>6. /\ t \in Txn /\ t.finished = Current(w).finished \cup {k}
        /\ t.requeued = Current(w).requeued
    <2>1. k \in 1 .. MaxTicks /\ NoBatch \in Batch /\ Current(w) \in Txn
      BY <1>0, <1>5, NoRowIs, CurrentIs
    <2> HIDE DEF k
    <2> QED
      BY <2>1 DEF Txn
  <1>7. Runs(w, t, {w}) /\ Free(w, w)
    BY <1>1, <1>3
  <1>8. k = new[w].window
    OBVIOUS
  <1> HIDE DEF t, k
  <1>9. new'[w] = Finish(w) /\ \A q \in Workers \ {w} : new'[q] = new[q]
    BY <1>0, <1>1, <1>3 DEF TypeOK
  <1>10. Acks(w, t, {w})
    BY <1>4, <1>5, <1>6, <1>8, <1>9 DEF Acks, Gone
  <1>11. Main \in Workers /\ Main \notin Members /\ tick \in Nat
    BY <1>0, MainAssumption DEF Workers, TypeOK
  <1>12. new'[w].stale = FALSE
    BY <1>0, <1>9, NoRowIs, StaleIsNot
  <1>13. Cursor(w, t, {w})
    <2>1. CASE w # Main
      BY <1>2, <1>9, <1>11, <2>1 DEF Cursor
    <2>2. CASE w = Main
      <3>1. new[Main].window <= tick
        BY DEF GInv, MainOwn
      <3>2. new'[Main].last = new[Main].last + 1 /\ new'[Main].last <= tick
            /\ new'[Main].last \in t.finished
        BY <1>5, <1>6, <1>8, <1>9, <2>2, <3>1
      <3> QED
        BY <1>2, <1>11, <2>2, <3>2 DEF Cursor
    <2> QED
      BY <2>1, <2>2
  <1>14. w = Main => new[Main].role # "none" /\ new'[Main].window <= tick
                     /\ new'[Main].role # "none"
    BY <1>5, <1>9, <1>11
  <1>15. w # Main => new'[Main] = new[Main]
    BY <1>9, <1>11
  <1>16. Moves(w, t, {w})
    BY <1>6, <1>7, <1>9, <1>10, <1>11, <1>12, <1>13, <1>14, <1>15 DEF Moves
  <1> QED
    BY <1>0, <1>a, <1>6, <1>7, <1>16, MovesStep

-----------------------------------------------------------------------------
(* Steps that are not a statement of a transaction.                        *)

LEMMA SameGStep ==
    ASSUME GInv, IInv', UNCHANGED <<txn, lock, origin, finished, demoting>>,
           tick <= tick', empty \subseteq empty',
           \A r \in Workers : SameRow(row'[r], row[r]) /\ SameRow(new'[r], new[r]),
           \A m \in Members :
              /\ row[m].stale => row'[m].stale
              /\ new'[m].stale => row'[m].stale
              /\ lock[m] # NoOne => new'[m].stale = new[m].stale
    PROVE  GInv'
  <1>1. /\ Main \in Workers /\ Members \subseteq Workers
        /\ \A r \in Workers :
              /\ row'[r].role = row[r].role /\ row'[r].last = row[r].last
              /\ row'[r].batch = row[r].batch /\ row'[r].window = row[r].window
              /\ new'[r].role = new[r].role /\ new'[r].last = new[r].last
              /\ new'[r].batch = new[r].batch /\ new'[r].window = new[r].window
    BY DEF SameRow, Workers
  <1>2. Owners' /\ Tokens' /\ Acked'
    <2>1. Owners'
      BY <1>1 DEF GInv, Owners
    <2>2. Tokens'
      BY <1>1 DEF GInv, Tokens
    <2>3. Acked'
      BY <1>1 DEF GInv, Acked
    <2> QED
      BY <2>1, <2>2, <2>3
  <1>3. Victims'
    <2> SUFFICES ASSUME NEW m \in Members
                 PROVE  /\ new'[m].stale => row'[m].stale
                        /\ lock[m] \notin {m, NoOne} =>
                              /\ lock[m] = lock[Main] /\ lock[lock[m]] = lock[m]
                              /\ lock[m] # Main /\ row'[m].stale /\ row'[m].batch # 0
                              /\ new'[m].batch = 0 /\ ~new'[m].stale
      BY DEF Victims
    <2> QED
      BY <1>1 DEF GInv, Victims
  <1>4. MainOwn'
    <2>1. /\ tick \in Nat /\ tick' \in Nat /\ new[Main].last \in Nat
          /\ new[Main].window \in Nat /\ row[Main].window \in Nat
      BY <1>1, FieldsAre, TableIs DEF GInv, IInv, TypeOK
    <2> QED
      BY <1>1, <2>1 DEF GInv, MainOwn
  <1>5. ASSUME NEW w \in Workers  PROVE Reach(w)' = Reach(w)
    <2>1. Base' = Base
      BY <1>1 DEF Base
    <2>2. {row'[m].window : m \in {m \in Members : lock[m] = w}}
             = {row[m].window : m \in {m \in Members : lock[m] = w}}
      BY <1>1
    <2> QED
      BY <1>1, <2>1, <2>2 DEF Reach
  <1>6. Dealt'
    BY <1>1, <1>5 DEF GInv, Dealt
  <1>7. Nacked'
    <2>1. Seen(Main, Main)'.window = Seen(Main, Main).window
      BY <1>1 DEF Seen
    <2> QED
      BY <1>1, <2>1 DEF GInv, Nacked
  <1> QED
    BY <1>2, <1>3, <1>4, <1>6, <1>7 DEF GInv

LEMMA PublishGStep == ASSUME GInv, NEW nothing \in BOOLEAN, Publish(nothing)  PROVE GInv'
  <1>1. IInv' /\ tick \in Nat
    BY PublishStep, TableIs DEF GInv, IInv
  <1>2. UNCHANGED <<txn, lock, origin, finished, demoting, row, new>> /\ tick' = tick + 1
        /\ empty \subseteq empty'
    BY DEF Publish, table, processes, bounds
  <1> QED
    BY <1>1, <1>2, SameGStep DEF SameRow, GInv, Victims

LEMMA RestartGStep == ASSUME GInv, NEW w \in Workers, Restart(w)  PROVE GInv'
  <1>1. IInv' /\ tick \in Nat
    BY RestartStep, TableIs DEF GInv, IInv
  <1>2. UNCHANGED <<txn, lock, origin, finished, demoting, row, new, tick, empty>>
    BY DEF Restart, table, log, bounds
  <1> QED
    BY <1>1, <1>2, SameGStep DEF SameRow, GInv, Victims

LEMMA StutterGStep == ASSUME GInv, UNCHANGED vars  PROVE GInv'
  <1>1. IInv' /\ tick \in Nat
    BY StutterStep, TableIs DEF GInv, IInv
  <1>2. UNCHANGED <<txn, lock, origin, finished, demoting, row, new, tick, empty>>
    BY DEF vars, table, log, processes, bounds
  <1> QED
    BY <1>1, <1>2, SameGStep DEF SameRow, GInv, Victims

LEMMA GoesStaleIs ==
    ASSUME TypeOK, NEW w \in Workers, GoesStale(w)
    PROVE  /\ w \in Members /\ row[w].batch # 0
           /\ \A r \in Workers : SameRow(row'[r], row[r]) /\ SameRow(new'[r], new[r])
           /\ row'[w].stale /\ \A r \in Workers \ {w} : row'[r] = row[r] /\ new'[r] = new[r]
           /\ lock[w] # NoOne => new'[w] = new[w]
  <1>1. row[w] \in Row /\ new[w] \in Row
    BY DEF TypeOK
  <1>2. w \in Members /\ row[w].batch # 0
        /\ row' = [row EXCEPT ![w] = [row[w] EXCEPT !.stale = TRUE]]
        /\ new' = IF lock[w] = NoOne THEN [new EXCEPT ![w] = [new[w] EXCEPT !.stale = TRUE]] ELSE new
    BY DEF GoesStale
  <1> DEFINE x == [row[w] EXCEPT !.stale = TRUE]
             y == [new[w] EXCEPT !.stale = TRUE]
  <1>3. x.stale /\ SameRow(x, row[w]) /\ SameRow(y, new[w])
    BY <1>1, StaleIs DEF SameRow, Row
  <1> HIDE DEF x, y
  <1>4. /\ row'[w] = x /\ new'[w] = IF lock[w] = NoOne THEN y ELSE new[w]
        /\ \A r \in Workers \ {w} : row'[r] = row[r] /\ new'[r] = new[r]
    BY <1>2 DEF TypeOK, x, y
  <1> QED
    BY <1>2, <1>3, <1>4 DEF SameRow

LEMMA GoesStaleGStep == ASSUME GInv, NEW w \in Workers, GoesStale(w)  PROVE GInv'
  <1>1. IInv' /\ TypeOK /\ tick \in Nat
    BY GoesStaleStep, TableIs DEF GInv, IInv
  <1>2. UNCHANGED <<txn, lock, origin, finished, demoting, tick, empty>>
    BY DEF GoesStale, Fault, log, processes, bounds
  <1>3. /\ w \in Members
        /\ \A r \in Workers : SameRow(row'[r], row[r]) /\ SameRow(new'[r], new[r])
        /\ row'[w].stale /\ \A r \in Workers \ {w} : row'[r] = row[r] /\ new'[r] = new[r]
        /\ lock[w] # NoOne => new'[w] = new[w]
    BY <1>1, GoesStaleIs
  <1>4. \A m \in Members : /\ row[m].stale => row'[m].stale
                           /\ new'[m].stale => row'[m].stale
                           /\ lock[m] # NoOne => new'[m].stale = new[m].stale
    BY <1>3 DEF GInv, Victims, Workers
  <1> QED
    BY <1>1, <1>2, <1>3, <1>4, SameGStep

LEMMA UnregisterIs ==
    ASSUME TypeOK, Unlocked, NEW m \in Workers, Unregister(m)
    PROVE  /\ m \in Members /\ m # Main /\ Main \in Workers
           /\ lock[Main] = NoOne /\ lock[m] = NoOne /\ row[Main].role = "coop_main"
           /\ UNCHANGED <<tick, empty, finished, lock, txn, demoting, origin>>
           /\ requeued' = requeued \cup ({row[m].window} \ {0})
           /\ row'[m] = NoRow /\ new'[m] = NoRow /\ new'[Main] = row'[Main]
           /\ row'[Main].role # "none" /\ row'[Main].last = row[Main].last
           /\ row'[Main].batch = row[Main].batch /\ row'[Main].window = row[Main].window
           /\ \A r \in Workers \ {m, Main} : row'[r] = row[r] /\ new'[r] = new[r]
           /\ new[Main] = row[Main] /\ new[m] = row[m]
  <1>1. m \in Members /\ Main \in Workers /\ m # Main /\ row[Main] \in Row
    BY MainAssumption DEF Unregister, TypeOK, Workers
  <1>2. /\ lock[Main] = NoOne /\ lock[m] = NoOne /\ row[Main].role = "coop_main"
        /\ requeued' = requeued \cup ({row[m].window} \ {0})
        /\ UNCHANGED <<tick, empty, finished, lock, txn, demoting, origin>>
    BY DEF Unregister, Leave, processes, Routed
  <1> DEFINE o    == IF OtherMembers(NoOne, m) = {} THEN "normal" ELSE "coop_main"
             main == [row[Main] EXCEPT !.role = o]
  <1>3. /\ row' = [row EXCEPT ![m] = NoRow, ![Main] = main]
        /\ new' = [r \in Workers |-> IF lock[r] = NoOne THEN row'[r] ELSE new[r]]
    BY DEF Unregister
  <1>4. o \in {"normal", "coop_main"}
    OBVIOUS
  <1> HIDE DEF o
  <1>5. main.role # "none" /\ main.last = row[Main].last
        /\ main.batch = row[Main].batch /\ main.window = row[Main].window
    BY <1>1, <1>4 DEF Row
  <1> HIDE DEF main
  <1>6. /\ row'[m] = NoRow /\ new'[m] = NoRow /\ row'[Main] = main /\ new'[Main] = main
        /\ \A r \in Workers \ {m, Main} : row'[r] = row[r] /\ new'[r] = new[r]
        /\ new[Main] = row[Main] /\ new[m] = row[m]
    BY <1>1, <1>2, <1>3 DEF TypeOK, Unlocked
  <1> QED
    BY <1>1, <1>2, <1>5, <1>6

LEMMA UnregisterGStep == ASSUME GInv, NEW m \in Workers, Unregister(m)  PROVE GInv'
  <1>0. TypeOK /\ Unlocked /\ IInv'
    BY UnregisterStep DEF GInv, IInv
  <1>1. /\ m \in Members /\ m # Main /\ Main \in Workers /\ Members \subseteq Workers
        /\ lock[Main] = NoOne /\ lock[m] = NoOne /\ row[Main].role = "coop_main"
        /\ UNCHANGED <<tick, empty, finished, lock, txn, demoting, origin>>
        /\ row'[m] = NoRow /\ new'[m] = NoRow /\ new'[Main] = row'[Main]
        /\ row'[Main].role # "none" /\ row'[Main].last = row[Main].last
        /\ row'[Main].batch = row[Main].batch /\ row'[Main].window = row[Main].window
        /\ \A r \in Workers \ {m, Main} : row'[r] = row[r] /\ new'[r] = new[r]
        /\ new[Main] = row[Main] /\ new[m] = row[m]
    BY <1>0, UnregisterIs DEF Workers
  <1>2. \A r \in Workers :
           /\ row'[r].window = IF r = m THEN 0 ELSE row[r].window
           /\ new'[r].window = IF r = m THEN 0 ELSE new[r].window
           /\ row'[r].batch = IF r = m THEN 0 ELSE row[r].batch
           /\ new'[r].batch = IF r = m THEN 0 ELSE new[r].batch
           /\ r \in Members => row'[r].stale = (r # m /\ row[r].stale)
                               /\ new'[r].stale = (r # m /\ new[r].stale)
    <2>1. NoRow.window = 0 /\ NoRow.batch = 0 /\ NoRow.stale = FALSE
      BY DEF NoRow
    <2>2. \A r \in Workers : row[r].stale \in BOOLEAN /\ new[r].stale \in BOOLEAN
      BY <1>0, FieldsAre DEF TypeOK
    <2>3. Main \notin Members
      BY MainAssumption
    <2> SUFFICES ASSUME NEW r \in Workers
                 PROVE  /\ row'[r].window = IF r = m THEN 0 ELSE row[r].window
                        /\ new'[r].window = IF r = m THEN 0 ELSE new[r].window
                        /\ row'[r].batch = IF r = m THEN 0 ELSE row[r].batch
                        /\ new'[r].batch = IF r = m THEN 0 ELSE new[r].batch
                        /\ r \in Members => row'[r].stale = (r # m /\ row[r].stale)
                                            /\ new'[r].stale = (r # m /\ new[r].stale)
      OBVIOUS
    <2>4. CASE r = m
      BY <1>1, <2>1, <2>4
    <2>5. CASE r = Main
      BY <1>1, <2>3, <2>5
    <2>6. CASE r \notin {m, Main}
      <3>1. row'[r] = row[r] /\ new'[r] = new[r]
        BY <1>1, <2>6
      <3> QED
        BY <2>2, <2>6, <3>1
    <2> QED
      BY <2>4, <2>5, <2>6
  <1>3. row'[Main].last = row[Main].last /\ new'[Main].last = new[Main].last
        /\ row[Main].role # "none" /\ new[Main].role # "none"
    BY <1>1
  <1>4. NoOne \notin Workers /\ Main \notin Members
        /\ \A r \in Workers : row[r].batch \in Nat /\ new[r].batch \in Nat
                              /\ row[r].last \in Nat /\ row[r].window \in Nat
                              /\ new[r].window \in Nat
    BY <1>0, MainAssumption, FieldsAre DEF TypeOK, Workers
  <1>5. Owners'
    <2>1. Owners
      BY DEF GInv
    <2> QED
      BY <1>1, <1>2, <1>3, <1>4, <2>1 DEF Owners
  <1>6. Tokens'
    <2> SUFFICES ASSUME NEW r \in Workers
                 PROVE  IF new'[r].batch = row'[r].batch THEN new'[r].window = row'[r].window
                        ELSE new'[r].batch # 0 =>
                                /\ lock'[r] = lock'[Main] /\ lock'[r] # NoOne
                                /\ \A s \in Workers : row'[s].batch < new'[r].batch
      BY DEF Tokens
    <2> QED
      BY <1>1, <1>2, <1>4 DEF GInv, Tokens
  <1>7. Victims'
    <2> SUFFICES ASSUME NEW a \in Members
                 PROVE  /\ new'[a].stale => row'[a].stale
                        /\ lock'[a] \notin {a, NoOne} =>
                              /\ lock'[a] = lock'[Main] /\ lock'[lock'[a]] = lock'[a]
                              /\ lock'[a] # Main /\ row'[a].stale /\ row'[a].batch # 0
                              /\ new'[a].batch = 0 /\ ~new'[a].stale
      BY DEF Victims
    <2> QED
      BY <1>1, <1>2 DEF GInv, Victims
  <1>8. MainOwn'
    BY <1>1, <1>2, <1>3, <1>4 DEF GInv, MainOwn
  <1>9. finished \subseteq 1 .. MaxTicks /\ \A w \in Workers : txn[w].finished \subseteq 1 .. MaxTicks
    BY <1>0 DEF TypeOK, Txn
  <1>10. Acked'
    <2>1. Acked /\ 0 \notin 1 .. MaxTicks
      BY BoundsAssumption DEF GInv
    <2> QED
      BY <1>1, <1>2, <1>3, <1>9, <2>1 DEF Acked
  <1>11. ASSUME NEW w \in Workers  PROVE Reach(w)' = Reach(w)
    <2>1. \A a \in Members : lock[a] = w => row'[a].window = row[a].window
      BY <1>1, <1>2, <1>4
    <2>2. {row'[a].window : a \in {a \in Members : lock[a] = w}}
             = {row[a].window : a \in {a \in Members : lock[a] = w}}
      BY <2>1
    <2>3. lock[Main] # w /\ lock' = lock
      BY <1>1, <1>4
    <2> QED
      BY <2>2, <2>3 DEF Reach
  <1>12. Reach(m) = {}
    <2>1. \A a \in Members : lock[a] # m
      BY <1>1, <1>4 DEF GInv, Victims
    <2> QED
      BY <1>1, <1>4, <2>1 DEF Reach
  <1>13. Dealt'
    <2> SUFFICES ASSUME NEW w \in Workers
                 PROVE  /\ Reach(w)' \subseteq {0} \cup empty' \cup txn'[w].finished
                                               \cup {new'[w].window}
                        /\ txn'[w].finished \subseteq Reach(w)'
                        /\ lock'[w] = w /\ w \in Members => new'[w].window \in Reach(w)' \cup {0}
      BY DEF Dealt
    <2> QED
      BY <1>1, <1>2, <1>4, <1>11, <1>12 DEF GInv, Dealt
  <1>14. Nacked'
    <2>1. Seen(Main, Main)'.window = Seen(Main, Main).window
      BY <1>1, <1>4 DEF Seen
    <2> QED
      BY <1>1, <1>3, <2>1 DEF GInv, Nacked
  <1> QED
    BY <1>0, <1>5, <1>6, <1>7, <1>8, <1>10, <1>13, <1>14 DEF GInv

-----------------------------------------------------------------------------
(* The end of w's transaction.                                             *)

LEMMA EndsLocks ==
    ASSUME IInv, NEW w \in Workers, NEW after \in {row, new}, Ends(w, after)
    PROVE  /\ Main \in Workers /\ Main \notin Members /\ Members \subseteq Workers
           /\ NoOne \notin Workers
           /\ UNCHANGED <<tick, empty>>
           /\ txn'[w].finished = {} /\ txn'[w].requeued = {}
           /\ \A v \in Workers \ {w} : txn'[v] = txn[v]
           /\ \A r \in Workers : lock[r] = w => row'[r] = after[r] /\ new'[r] = after[r]
           /\ \A r \in Workers : lock[r] # w => row'[r] = row[r] /\ new'[r] = new[r]
           /\ \A r \in Workers : lock'[r] = IF lock[r] = w THEN NoOne ELSE lock[r]
           /\ ~demoting[Main] => ~demoting'[Main]
           /\ \A r \in Workers : lock[r] = NoOne => new[r] = row[r]
  <1>1. TypeOK /\ Unlocked
    BY DEF IInv
  <1>2. demoting' = [demoting EXCEPT ![w] = FALSE]
    BY DEF Ends
  <1> QED
    BY <1>1, <1>2, EndsIs, MainAssumption DEF Closed, TypeOK, Workers, Unlocked

\* A process whose row another one has locked has no locks.
LEMMA EndsReach ==
    ASSUME IInv, Victims, NEW w \in Workers, NEW v \in Workers \ {w}, lock[v] = w
    PROVE  \A r \in Members \cup {Main} : lock[r] # v
  <1>1. Main \notin Members /\ NoOne \notin Workers
    BY MainAssumption DEF Workers
  <1>2. CASE v = Main
    BY <1>1, <1>2 DEF Victims
  <1>3. CASE v \in Members
    <2>1. lock[Main] = w
      BY <1>1, <1>3 DEF Victims
    <2>2. ASSUME NEW r \in Members, lock[r] = v  PROVE FALSE
      BY <1>1, <2>2 DEF Victims
    <2> QED
      BY <2>1, <2>2
  <1> QED
    BY <1>2, <1>3 DEF Workers

LEMMA UndoGStep ==
    ASSUME GInv, NEW w \in Workers, Ends(w, row), UNCHANGED <<finished, requeued, origin>>, IInv'
    PROVE  GInv'
  <1>1. /\ Main \in Workers /\ Main \notin Members /\ Members \subseteq Workers
        /\ NoOne \notin Workers
        /\ UNCHANGED <<tick, empty>>
        /\ txn'[w].finished = {} /\ txn'[w].requeued = {}
        /\ \A v \in Workers \ {w} : txn'[v] = txn[v]
        /\ \A r \in Workers : row'[r] = row[r]
        /\ \A r \in Workers : new'[r] = IF lock[r] = w THEN row[r] ELSE new[r]
        /\ \A r \in Workers : lock'[r] = IF lock[r] = w THEN NoOne ELSE lock[r]
        /\ ~demoting[Main] => ~demoting'[Main]
    BY EndsLocks DEF GInv
  <1>2. \A r \in Workers : /\ row[r].batch \in Nat /\ new[r].batch \in Nat
                           /\ row[r].last \in Nat /\ row[r].window \in Nat
                           /\ new[r].last \in Nat /\ new[r].window \in Nat
    BY FieldsAre DEF GInv, IInv, TypeOK
  <1>3. Owners'
    <2>0. Owners
      BY DEF GInv
    <2>1. row[Main].last <= new'[Main].last
      BY <1>1, <1>2, <2>0 DEF Owners
    <2>2. ASSUME NEW m \in Members
          PROVE  /\ new'[m].window <= new'[Main].last
                 /\ new'[m].window > row[Main].last => lock'[m] = lock'[Main] /\ lock'[m] # NoOne
      BY <1>1, <1>2, <2>0 DEF Owners
    <2>3. ASSUME NEW m \in Members, NEW o \in Members, m # o
          PROVE  /\ new'[m].window = new'[o].window => new'[m].window = 0
                 /\ row[m].window = new'[o].window /\ row[m].window # 0 =>
                       lock'[m] = lock'[o] /\ lock'[m] # NoOne
      BY <1>1, <1>2, <2>0, <2>3 DEF Owners
    <2> QED
      BY <1>1, <2>0, <2>1, <2>2, <2>3 DEF Owners
  <1>4. Tokens'
    <2> SUFFICES ASSUME NEW r \in Workers
                 PROVE  IF new'[r].batch = row[r].batch THEN new'[r].window = row[r].window
                        ELSE new'[r].batch # 0 =>
                                /\ lock'[r] = lock'[Main] /\ lock'[r] # NoOne
                                /\ \A s \in Workers : row[s].batch < new'[r].batch
      BY <1>1 DEF Tokens
    <2> QED
      BY <1>1 DEF GInv, Tokens
  <1>5. Victims'
    <2> SUFFICES ASSUME NEW m \in Members
                 PROVE  /\ new'[m].stale => row[m].stale
                        /\ lock'[m] \notin {m, NoOne} =>
                              /\ lock'[m] = lock'[Main] /\ lock'[lock'[m]] = lock'[m]
                              /\ lock'[m] # Main /\ row[m].stale /\ row[m].batch # 0
                              /\ new'[m].batch = 0 /\ ~new'[m].stale
      BY <1>1 DEF Victims
    <2>1. lock[m] \in Workers \cup {NoOne}
      BY <1>1 DEF GInv, IInv, TypeOK
    <2> QED
      BY <1>1, <2>1 DEF GInv, Victims
  <1>6. MainOwn'
    <2>1. MainOwn /\ (new[Main].role = "none" => row[Main].role = "none")
          /\ row[Main].last <= new[Main].last /\ tick \in Nat
      BY TableIs DEF GInv, IInv, Shapes, Owners
    <2> QED
      BY <1>1, <1>2, <2>1 DEF MainOwn
  <1>7. Acked'
    <2>1. Acked
      BY DEF GInv
    <2>2. \A v \in Workers : \A k \in txn'[v].finished : v # w /\ k \in txn[v].finished
      BY <1>1
    <2> QED
      BY <1>1, <2>1, <2>2 DEF Acked
  <1>8. ASSUME NEW v \in Workers \ {w}
        PROVE  /\ Reach(v)' = Reach(v)
               /\ Reach(v) # {} => new'[v] = new[v]
    <2>1. \A r \in Workers : lock'[r] = v <=> lock[r] = v
      BY <1>1
    <2>2. {row'[m].window : m \in {m \in Members : lock'[m] = v}}
             = {row[m].window : m \in {m \in Members : lock[m] = v}}
      BY <1>1, <2>1
    <2>3. Reach(v)' = Reach(v)
      BY <1>1, <2>1, <2>2 DEF Reach, Base
    <2>4. lock[v] = w => Reach(v) = {}
      BY EndsReach DEF Reach, GInv
    <2> QED
      BY <1>1, <2>3, <2>4
  <1>9. Reach(w)' = {}
    BY <1>1 DEF Reach
  <1>10. Dealt'
    <2> SUFFICES ASSUME NEW v \in Workers
                 PROVE  /\ Reach(v)' \subseteq {0} \cup empty' \cup txn'[v].finished
                                               \cup {new'[v].window}
                        /\ txn'[v].finished \subseteq Reach(v)'
                        /\ lock'[v] = v /\ v \in Members => new'[v].window \in Reach(v)' \cup {0}
      BY DEF Dealt
    <2>1. CASE v = w
      BY <1>1, <1>9, <2>1
    <2>2. CASE v # w
      BY <1>1, <1>8, <2>2 DEF GInv, Dealt
    <2> QED
      BY <2>1, <2>2
  <1>11. Nacked'
    <2>1. w # Main => Seen(Main, Main)'.window = Seen(Main, Main).window
      BY <1>1 DEF Seen
    <2> SUFFICES ASSUME NEW v \in Workers, NEW k \in txn'[v].requeued
                 PROVE  \/ k <= row[Main].last
                        \/ lock'[Main] = v /\ k <= new'[Main].last
                        \/ v = Main /\ k = Seen(Main, Main)'.window
      BY <1>1 DEF Nacked
    <2>2. v # w /\ k \in txn[v].requeued
      BY <1>1
    <2> QED
      BY <1>1, <2>1, <2>2 DEF GInv, Nacked
  <1> QED
    BY <1>3, <1>4, <1>5, <1>6, <1>7, <1>10, <1>11 DEF GInv

LEMMA CommitGStep == ASSUME GInv, NEW w \in Workers, Commit(w)  PROVE GInv'
  <1>0. IInv' /\ Ends(w, new) /\ finished' = finished \cup txn[w].finished /\ origin' = origin
    BY CommitStep DEF Commit, GInv, bounds
  <1>1. /\ Main \in Workers /\ Main \notin Members /\ Members \subseteq Workers
        /\ NoOne \notin Workers
        /\ UNCHANGED <<tick, empty>>
        /\ txn'[w].finished = {} /\ txn'[w].requeued = {}
        /\ \A v \in Workers \ {w} : txn'[v] = txn[v]
        /\ \A r \in Workers : new'[r] = new[r]
        /\ \A r \in Workers : row'[r] = IF lock[r] = w THEN new[r] ELSE row[r]
        /\ \A r \in Workers : lock'[r] = IF lock[r] = w THEN NoOne ELSE lock[r]
        /\ ~demoting[Main] => ~demoting'[Main]
    BY <1>0, EndsLocks DEF GInv
  <1>2. \A r \in Workers : /\ row[r].batch \in Nat /\ new[r].batch \in Nat
                           /\ row[r].last \in Nat /\ row[r].window \in Nat
                           /\ new[r].last \in Nat /\ new[r].window \in Nat
    BY FieldsAre DEF GInv, IInv, TypeOK
  <1>3. row[Main].last <= row'[Main].last /\ row'[Main].last <= new[Main].last
    BY <1>1, <1>2 DEF GInv, Owners
  <1>4. Owners'
    <2>0. Owners
      BY DEF GInv
    <2>2. ASSUME NEW m \in Members
          PROVE  /\ row'[m].window <= row'[Main].last
                 /\ new'[m].window <= new'[Main].last
                 /\ new'[m].window > row'[Main].last => lock'[m] = lock'[Main] /\ lock'[m] # NoOne
      <3>1. row'[m].window <= row'[Main].last
        BY <1>1, <1>2, <1>3, <2>0 DEF Owners
      <3>2. new'[m].window > row'[Main].last => lock'[m] = lock'[Main] /\ lock'[m] # NoOne
        BY <1>1, <1>2, <1>3, <2>0 DEF Owners
      <3> QED
        BY <1>1, <2>0, <3>1, <3>2 DEF Owners
    <2>3. ASSUME NEW m \in Members, NEW o \in Members, m # o
          PROVE  /\ row'[m].window = row'[o].window => row'[m].window = 0
                 /\ new'[m].window = new'[o].window => new'[m].window = 0
                 /\ row'[m].window = new'[o].window /\ row'[m].window # 0 =>
                       lock'[m] = lock'[o] /\ lock'[m] # NoOne
      <3>1. row'[m].window = row'[o].window => row'[m].window = 0
        BY <1>1, <1>2, <2>0, <2>3 DEF Owners
      <3>2. row'[m].window = new'[o].window /\ row'[m].window # 0 =>
               lock'[m] = lock'[o] /\ lock'[m] # NoOne
        BY <1>1, <1>2, <2>0, <2>3 DEF Owners
      <3> QED
        BY <1>1, <2>0, <2>3, <3>1, <3>2 DEF Owners
    <2> QED
      BY <1>1, <1>3, <2>2, <2>3 DEF Owners
  <1>5. Tokens'
    <2> SUFFICES ASSUME NEW r \in Workers
                 PROVE  IF new[r].batch = row'[r].batch THEN new[r].window = row'[r].window
                        ELSE new[r].batch # 0 =>
                                /\ lock'[r] = lock'[Main] /\ lock'[r] # NoOne
                                /\ \A s \in Workers : row'[s].batch < new[r].batch
      BY <1>1 DEF Tokens
    <2>1. CASE lock[r] = w
      BY <1>1, <2>1
    <2>2. CASE lock[r] # w /\ new[r].batch # row[r].batch /\ new[r].batch # 0
      <3>1. /\ lock[r] = lock[Main] /\ lock[r] # NoOne
            /\ \A s \in Workers : row[s].batch < new[r].batch
        BY <2>2 DEF GInv, Tokens
      <3>2. ASSUME NEW s \in Workers, lock[s] = w  PROVE new[s].batch < new[r].batch
        <4>1. new[s].batch = row[s].batch \/ new[s].batch = 0
          BY <2>2, <3>1, <3>2 DEF GInv, Tokens
        <4> QED
          BY <1>2, <2>2, <3>1, <4>1
      <3> QED
        BY <1>1, <2>2, <3>1, <3>2
    <2>3. CASE lock[r] # w /\ ~(new[r].batch # row[r].batch /\ new[r].batch # 0)
      BY <1>1, <2>3 DEF GInv, Tokens
    <2> QED
      BY <2>1, <2>2, <2>3
  <1>6. Victims'
    <2> SUFFICES ASSUME NEW m \in Members
                 PROVE  /\ new[m].stale => row'[m].stale
                        /\ lock'[m] \notin {m, NoOne} =>
                              /\ lock'[m] = lock'[Main] /\ lock'[lock'[m]] = lock'[m]
                              /\ lock'[m] # Main /\ row'[m].stale /\ row'[m].batch # 0
                              /\ new[m].batch = 0 /\ ~new[m].stale
      BY <1>1 DEF Victims
    <2>1. lock[m] \in Workers \cup {NoOne}
      BY <1>1 DEF GInv, IInv, TypeOK
    <2> QED
      BY <1>1, <2>1 DEF GInv, Victims
  <1>7. MainOwn'
    <2>1. MainOwn
      BY DEF GInv
    <2> QED
      BY <1>0, <1>1, <1>2, <2>1 DEF MainOwn
  <1>8. Acked'
    <2>0. Acked
      BY DEF GInv
    <2>1. finished \subseteq 1 .. MaxTicks /\ \A v \in Workers : txn[v].finished \subseteq 1 .. MaxTicks
          /\ MaxTicks \in Nat
      BY BoundsAssumption DEF GInv, IInv, TypeOK, Txn
    <2>2. ASSUME NEW k \in finished \cup txn[w].finished
          PROVE  k <= row'[Main].last /\ \A r \in Workers : k \notin {row'[r].window, new'[r].window}
      <3>0. k \in 1 .. MaxTicks /\ MaxTicks \in Nat
        BY <2>1
      <3>1. k \in Nat
        BY ONLY <3>0
      <3>2. CASE k \in finished
        BY <1>1, <1>2, <1>3, <2>0, <3>1, <3>2 DEF Acked
      <3>3. CASE k \in txn[w].finished
        BY <1>1, <1>2, <1>3, <2>0, <3>1, <3>3 DEF Acked
      <3> QED
        BY <3>2, <3>3
    <2>3. ASSUME NEW v \in Workers, NEW k \in txn'[v].finished
          PROVE  /\ k <= row'[Main].last \/ (lock'[Main] = v /\ k <= new'[Main].last)
                 /\ \A r \in Workers : new'[r].window # k /\ (row'[r].window = k => lock'[r] = v)
      <3>1. v # w /\ k \in txn[v].finished /\ k \in Nat
        BY <1>1, <2>1, <2>3
      <3> QED
        BY <1>1, <1>2, <1>3, <2>0, <3>1 DEF Acked
    <2> QED
      BY <1>0, <2>2, <2>3 DEF Acked
  <1>9. ASSUME NEW v \in Workers \ {w}  PROVE Reach(v)' = Reach(v)
    <2>1. \A r \in Workers : lock'[r] = v <=> lock[r] = v
      BY <1>1
    <2>2. {row'[m].window : m \in {m \in Members : lock'[m] = v}}
             = {row[m].window : m \in {m \in Members : lock[m] = v}}
      BY <1>1, <2>1
    <2>3. lock[Main] = v => Base' = Base
      BY <1>0, <1>1 DEF Base
    <2> QED
      BY <1>1, <2>1, <2>2, <2>3 DEF Reach
  <1>10. Reach(w)' = {}
    BY <1>1 DEF Reach
  <1>11. Dealt'
    <2> SUFFICES ASSUME NEW v \in Workers
                 PROVE  /\ Reach(v)' \subseteq {0} \cup empty' \cup txn'[v].finished
                                               \cup {new'[v].window}
                        /\ txn'[v].finished \subseteq Reach(v)'
                        /\ lock'[v] = v /\ v \in Members => new'[v].window \in Reach(v)' \cup {0}
      BY DEF Dealt
    <2>1. CASE v = w
      BY <1>1, <1>10, <2>1
    <2>2. CASE v # w
      BY <1>1, <1>9, <2>2 DEF GInv, Dealt
    <2> QED
      BY <2>1, <2>2
  <1>12. Nacked'
    <2>1. ASSUME w # Main  PROVE Seen(Main, Main)'.window = Seen(Main, Main).window
      <3>1. lock[Main] = w => new[Main].window = row[Main].window
        BY <1>1, <2>1 DEF GInv, MainOwn, Tokens, Workers
      <3> QED
        BY <1>1, <2>1, <3>1 DEF Seen
    <2> SUFFICES ASSUME NEW v \in Workers, NEW k \in txn'[v].requeued
                 PROVE  \/ k <= row'[Main].last
                        \/ lock'[Main] = v /\ k <= new'[Main].last
                        \/ v = Main /\ k = Seen(Main, Main)'.window
      BY DEF Nacked
    <2>2. v # w /\ k \in txn[v].requeued
      BY <1>1
    <2>3. k \in Nat
      <3>1. txn[v].requeued \subseteq 1 .. MaxTicks
        BY DEF GInv, IInv, TypeOK, Txn
      <3>2. k \in 1 .. MaxTicks
        BY <2>2, <3>1
      <3>3. MaxTicks \in Nat
        BY BoundsAssumption
      <3> QED
        BY ONLY <3>2, <3>3
    <2>4. k <= row[Main].last => k <= row'[Main].last
      BY <1>1, <1>2, <1>3, <2>3
    <2> QED
      BY <1>1, <2>1, <2>2, <2>4 DEF GInv, Nacked
  <1> QED
    BY <1>0, <1>4, <1>5, <1>6, <1>7, <1>8, <1>11, <1>12 DEF GInv

-----------------------------------------------------------------------------

LEMMA GroupInit == Init => GInv
  <1> SUFFICES ASSUME Init  PROVE GInv
    OBVIOUS
  <1>1. IInv /\ Main \in Workers /\ Main \notin Members /\ Members \subseteq Workers
        /\ NoOne \notin Workers
    BY InvInit, MainAssumption DEF Workers
  <1>2. PICK main \in {NoRow, [NoRow EXCEPT !.role = "normal"]} :
           row = [r \in Workers |-> IF r = Main THEN main ELSE NoRow]
    BY DEF Init
  <1>3. /\ NoRow.last = 0 /\ NoRow.batch = 0 /\ NoRow.window = 0 /\ NoRow.stale = FALSE
        /\ main.last = 0 /\ main.batch = 0 /\ main.window = 0 /\ main.stale = FALSE
    BY DEF NoRow
  <1>4. \A r \in Workers : /\ row[r].last = 0 /\ row[r].batch = 0 /\ row[r].window = 0
                           /\ ~row[r].stale
                           /\ new[r] = row[r] /\ lock[r] = NoOne
                           /\ txn[r].finished = {} /\ txn[r].requeued = {} /\ ~demoting[r]
    BY <1>2, <1>3 DEF Init, Closed
  <1>5. tick = 0 /\ finished = {} /\ origin = 0
    BY DEF Init
  <1>6. Owners /\ Tokens /\ Victims /\ MainOwn /\ Acked /\ Nacked
    BY <1>1, <1>4, <1>5 DEF Owners, Tokens, Victims, MainOwn, Acked, Nacked
  <1>7. \A w \in Workers : Reach(w) = {}
    BY <1>1, <1>4 DEF Reach
  <1>8. Dealt
    BY <1>1, <1>4, <1>7 DEF Dealt
  <1> QED
    BY <1>1, <1>6, <1>8 DEF GInv

LEMMA GroupNext == GInv /\ [Next]_vars => GInv'
  <1> SUFFICES ASSUME GInv, [Next]_vars  PROVE GInv'
    OBVIOUS
  <1>0. IInv /\ IInv'
    BY InvNext DEF GInv
  <1>1. CASE UNCHANGED vars
    BY <1>1, StutterGStep
  <1>2. CASE \E nothing \in BOOLEAN : Publish(nothing)
    BY <1>2, PublishGStep
  <1>3. CASE PlainReceiveAgain \/ PlainReceiveNext
    BY <1>3, PlainReceiveAgainGStep, PlainReceiveNextGStep
  <1>4. ASSUME NEW w \in Workers, \E convert \in BOOLEAN : Register(w, convert)  PROVE GInv'
    BY <1>4, RegisterGStep
  <1>5. ASSUME NEW w \in Workers, Receive(w)  PROVE GInv'
    BY <1>5, ReceiveAgainGStep, ReceiveNextGStep, TakeOverGStep DEF Receive
  <1>6. ASSUME NEW w \in Workers, Nack(w) \/ Settle(w) \/ Touch(w)  PROVE GInv'
    BY <1>6, NackGStep, AckGStep, AckTooLateGStep, TouchGStep DEF Settle
  <1>7. ASSUME NEW w \in Workers, Commit(w) \/ Rollback(w) \/ Crash(w) \/ Restart(w)  PROVE GInv'
    <2>1. CASE Commit(w)
      BY <2>1, CommitGStep
    <2>2. CASE Rollback(w)
      BY <1>0, <2>2, UndoGStep DEF Rollback, Fault
    <2>3. CASE Crash(w)
      BY <1>0, <2>3, UndoGStep DEF Crash, Fault
    <2>4. CASE Restart(w)
      BY <2>4, RestartGStep
    <2> QED
      BY <1>7, <2>1, <2>2, <2>3, <2>4
  <1>8. ASSUME NEW w \in Workers, GoesStale(w) \/ Unregister(w) \/ Unsubscribe(w) \/ Demote(w)
        PROVE  GInv'
    BY <1>8, GoesStaleGStep, UnregisterGStep, UnsubscribeGStep, DemoteGStep
  <1> QED
    BY <1>1, <1>2, <1>3, <1>4, <1>5, <1>6, <1>7, <1>8 DEF Next

LEMMA GroupAcksOnce == GInv => AckedOnce
  <1> SUFFICES ASSUME GInv, NEW k \in finished
               PROVE  /\ \A r \in Workers : k \notin {row[r].window, new[r].window}
                      /\ \A w \in Workers : k \notin txn[w].finished
    BY DEF AckedOnce
  <1>1. /\ \A r \in Workers : k \notin {row[r].window, new[r].window}
        /\ k <= row[Main].last
    BY DEF GInv, Acked
  <1>2. ASSUME NEW w \in Workers, k \in txn[w].finished  PROVE FALSE
    <2>1. k \in Reach(w)
      BY <1>2 DEF GInv, Dealt
    <2>2. k \in Base + 1 .. new[Main].last
      BY <1>1, <2>1 DEF Reach, Workers
    <2>3. k \in Nat /\ k # 0 /\ row[Main].last \in Nat /\ origin \in Nat
          /\ new[Main].last \in Nat
      BY FieldsAre, TableIs DEF GInv, IInv, TypeOK
    <2>4. row[Main].role = "none" => row[Main].last = 0
      BY DEF GInv, IInv, Shapes, Shape
    <2> QED
      BY <1>1, <2>2, <2>3, <2>4 DEF Base
  <1> QED
    BY <1>1, <1>2

-----------------------------------------------------------------------------
(* The refinement mapping: what each step is for the group.                *)

LEMMA HandIs ==
    /\ Hand = [r \in Workers |-> [id |-> row[r].batch, window |-> row[r].window]]
    /\ Hand' = [r \in Workers |-> [id |-> row'[r].batch, window |-> row'[r].window]]
    /\ \A r \in Workers : Hand[r].id = row[r].batch /\ Hand[r].window = row[r].window
    /\ \A r \in Workers : Hand'[r].id = row'[r].batch /\ Hand'[r].window = row'[r].window
    /\ G!Nothing = [id |-> 0, window |-> 0] /\ G!Workers = Workers
    /\ Stale = {m \in Members : row[m].stale} /\ Stale' = {m \in Members : row'[m].stale}
    /\ Founded <=> row[Main].role # "none"
    /\ Founded' <=> row'[Main].role # "none"
  BY DEF Hand, G!Nothing, G!Workers, Workers, Stale, Founded

LEMMA QuietStep ==
    ASSUME row' = row, UNCHANGED log
    PROVE  UNCHANGED G!vars
  BY DEF G!vars, Founded, Hand, Stale, log

LEMMA UndoQuietStep ==
    ASSUME GInv, NEW w \in Workers, Ends(w, row), UNCHANGED <<finished, requeued>>
    PROVE  UNCHANGED G!vars
  <1>1. row \in [Workers -> Row] /\ UNCHANGED <<tick, empty>>
    BY DEF GInv, IInv, TypeOK, Ends
  <1>2. row' = [r \in Workers |-> IF lock[r] = w THEN row[r] ELSE row[r]]
    BY DEF Ends
  <1>3. row' = row
    BY <1>1, <1>2
  <1> QED
    BY <1>1, <1>3, QuietStep DEF log

LEMMA PublishMaps ==
    ASSUME GInv, NEW nothing \in BOOLEAN, Publish(nothing)
    PROVE  G!Publish(nothing)
  BY DEF Publish, G!Publish, table, Founded, Hand, Stale

LEMMA GoesStaleMaps == ASSUME GInv, NEW w \in Workers, GoesStale(w)  PROVE G!GoesStale(w)
  <1>1. /\ w \in Members /\ w \in Workers /\ row[w].batch # 0 /\ Main \in Workers
        /\ \A r \in Workers : SameRow(row'[r], row[r])
        /\ row'[w].stale /\ \A r \in Workers \ {w} : row'[r] = row[r]
    BY GoesStaleIs DEF GInv, IInv, Workers
  <1>2. UNCHANGED <<tick, empty, finished, requeued>>
    BY DEF GoesStale, log
  <1>3. Hand' = Hand
    BY <1>1, HandIs DEF SameRow
  <1>4. Hand[w] # G!Nothing
    BY <1>1, HandIs
  <1>5. Stale' = Stale \cup {w}
    BY <1>1, HandIs DEF Workers
  <1>6. Founded' = Founded /\ row'[Main].last = row[Main].last
    BY <1>1 DEF SameRow, Founded
  <1> QED
    BY <1>2, <1>3, <1>4, <1>5, <1>6 DEF G!GoesStale

LEMMA UnregisterMaps == ASSUME GInv, NEW m \in Workers, Unregister(m)  PROVE G!Remove(m)
  <1>1. /\ m \in Members /\ m # Main /\ Main \in Workers /\ row[Main].role = "coop_main"
        /\ UNCHANGED <<tick, empty, finished>>
        /\ requeued' = requeued \cup ({row[m].window} \ {0})
        /\ row'[m] = NoRow /\ row'[Main].role # "none" /\ row'[Main].last = row[Main].last
        /\ row'[Main].batch = row[Main].batch /\ row'[Main].window = row[Main].window
        /\ \A r \in Workers \ {m, Main} : row'[r] = row[r]
    BY UnregisterIs DEF GInv, IInv
  <1>2. NoRow.batch = 0 /\ NoRow.window = 0 /\ NoRow.stale = FALSE /\ Main \notin Members
    BY MainAssumption DEF NoRow
  <1>3. Hand' = [Hand EXCEPT ![m] = G!Nothing]
    <2>1. \A r \in Workers : [id |-> row'[r].batch, window |-> row'[r].window]
                             = IF r = m THEN G!Nothing
                               ELSE [id |-> row[r].batch, window |-> row[r].window]
      BY <1>1, <1>2, HandIs
    <2> QED
      BY <2>1, HandIs
  <1>4. Stale' = Stale \ {m}
    BY <1>1, <1>2, HandIs DEF Workers
  <1>5. requeued' = requeued \cup ({Hand[m].window} \ {0})
    BY <1>1, HandIs
  <1>6. Founded' = Founded
    BY <1>1 DEF Founded
  <1> QED
    BY <1>1, <1>3, <1>4, <1>5, <1>6 DEF G!Remove

\* What the commits of members and of plain consumers have in common.
LEMMA CommitIs ==
    ASSUME GInv, NEW w \in Workers, Commit(w)
    PROVE  /\ Main \in Workers /\ Main \notin Members /\ Members \subseteq Workers
           /\ NoOne \notin Workers
           /\ UNCHANGED <<tick, empty, origin>>
           /\ finished' = finished \cup txn[w].finished
           /\ requeued' = requeued \cup txn[w].requeued
           /\ \A r \in Workers : row'[r] = IF lock[r] = w THEN new[r] ELSE row[r]
           /\ \A r \in Workers : lock[r] = NoOne => new[r] = row[r]
           /\ \A r \in Workers : /\ row[r].batch \in Nat /\ new[r].batch \in Nat
                                 /\ row[r].last \in Nat /\ row[r].window \in Nat
                                 /\ new[r].last \in Nat /\ new[r].window \in Nat
           /\ tick \in Nat /\ origin \in Nat /\ MaxTicks \in Nat
           /\ finished \subseteq 1 .. MaxTicks /\ txn[w].finished \subseteq 1 .. MaxTicks
           /\ txn[w].requeued \subseteq 1 .. MaxTicks
           /\ row[Main].last <= row'[Main].last /\ row'[Main].last <= tick
  <1>1. Ends(w, new) /\ finished' = finished \cup txn[w].finished /\ origin' = origin
        /\ requeued' = requeued \cup txn[w].requeued
    BY DEF Commit, bounds
  <1>2. \A r \in Workers : /\ row[r].batch \in Nat /\ new[r].batch \in Nat
                           /\ row[r].last \in Nat /\ row[r].window \in Nat
                           /\ new[r].last \in Nat /\ new[r].window \in Nat
    BY FieldsAre DEF GInv, IInv, TypeOK
  <1>3. tick \in Nat /\ origin \in Nat /\ MaxTicks \in Nat
    BY TableIs DEF GInv, IInv
  <1>4. finished \subseteq 1 .. MaxTicks /\ txn[w].finished \subseteq 1 .. MaxTicks
        /\ txn[w].requeued \subseteq 1 .. MaxTicks
    BY DEF GInv, IInv, TypeOK, Txn
  <1>5. /\ Main \in Workers /\ Main \notin Members /\ Members \subseteq Workers
        /\ NoOne \notin Workers /\ UNCHANGED <<tick, empty>>
        /\ \A r \in Workers : row'[r] = IF lock[r] = w THEN new[r] ELSE row[r]
        /\ \A r \in Workers : lock[r] = NoOne => new[r] = row[r]
    BY <1>1, EndsLocks DEF GInv
  <1>6. row[Main].last <= row'[Main].last /\ row'[Main].last <= tick
    BY <1>2, <1>3, <1>5 DEF GInv, Owners, MainOwn
  <1> QED
    BY <1>1, <1>2, <1>3, <1>4, <1>5, <1>6

\* Every window that w's transaction reaches it has acknowledged or keeps, and the one that
\* it keeps was not acknowledged.
LEMMA CommitDeals ==
    ASSUME GInv, NEW w \in Workers, Commit(w)
    PROVE  /\ Reach(w) \subseteq {0} \cup empty \cup txn[w].finished \cup {row'[w].window}
           /\ txn[w].finished \subseteq Reach(w)
           /\ finished' \ finished = txn[w].finished
           /\ row'[w].window \notin finished'
           /\ lock[w] = w /\ w \in Members => row'[w].window \in Reach(w) \cup {0}
           /\ Hand'[w] = G!Nothing <=> row'[w].window = 0
           /\ Hand'[w] # G!Nothing /\ Hand'[w] # Hand[w] =>
                 \A r \in Workers : row[r].batch < row'[w].batch
  <1>1. /\ finished' = finished \cup txn[w].finished
        /\ row'[w] = IF lock[w] = w THEN new[w] ELSE row[w]
        /\ lock[w] = NoOne => new[w] = row[w]
    BY CommitIs
  <1>2. /\ Reach(w) \subseteq {0} \cup empty \cup txn[w].finished \cup {new[w].window}
        /\ txn[w].finished \subseteq Reach(w)
        /\ lock[w] = w /\ w \in Members => new[w].window \in Reach(w) \cup {0}
    BY DEF GInv, Dealt
  <1>3. lock[w] \notin {w, NoOne} => Reach(w) = {}
    <2> SUFFICES ASSUME lock[w] \notin {w, NoOne}  PROVE Reach(w) = {}
      OBVIOUS
    <2>1. lock[w] \in Workers \ {w}
      BY DEF GInv, IInv, TypeOK
    <2>2. \A r \in Members \cup {Main} : lock[r] # w
      BY <2>1, EndsReach DEF GInv
    <2> QED
      BY <2>2 DEF Reach
  <1>4. Reach(w) \subseteq {0} \cup empty \cup txn[w].finished \cup {row'[w].window}
    BY <1>1, <1>2, <1>3
  <1>5. row'[w].window \notin finished'
    BY <1>1 DEF GInv, Acked
  <1>6. ASSUME NEW k \in finished  PROVE k \notin txn[w].finished
    BY GroupAcksOnce DEF AckedOnce
  <1>7. row'[w].batch = 0 <=> row'[w].window = 0
    BY <1>1 DEF GInv, IInv, Shapes, Shape
  <1>8. Hand'[w] = G!Nothing <=> row'[w].window = 0
    BY <1>7, HandIs
  <1>9. ASSUME Hand'[w] # G!Nothing, Hand'[w] # Hand[w], NEW r \in Workers
        PROVE  row[r].batch < row'[w].batch
    <2>1. lock[w] = w /\ row'[w] = new[w]
      BY <1>1, <1>9, HandIs
    <2>2. new[w].batch # row[w].batch /\ new[w].batch # 0
      BY <1>7, <1>8, <1>9, <2>1, HandIs DEF GInv, Tokens
    <2> QED
      BY <2>1, <2>2 DEF GInv, Tokens
  <1> QED
    BY <1>1, <1>2, <1>4, <1>5, <1>6, <1>8, <1>9

LEMMA CommitNacks == ASSUME GInv, NEW w \in Workers, Commit(w)  PROVE G!Nacks
  <1>1. /\ requeued' = requeued \cup txn[w].requeued /\ MaxTicks \in Nat
        /\ txn[w].requeued \subseteq 1 .. MaxTicks /\ Main \in Workers
        /\ row[Main].last <= row'[Main].last
        /\ row'[Main] = IF lock[Main] = w THEN new[Main] ELSE row[Main]
        /\ row[Main].last \in Nat /\ new[Main].last \in Nat
    BY CommitIs
  <1>2. ASSUME NEW k \in txn[w].requeued
        PROVE  k \in 1 .. row'[Main].last \cup {row'[Main].window}
    <2>1. k \in 1 .. MaxTicks
      BY <1>1
    <2>2. k \in Nat /\ k >= 1
      BY <1>1, <2>1
    <2>3. CASE k <= row[Main].last \/ (lock[Main] = w /\ k <= new[Main].last)
      BY <1>1, <2>2, <2>3
    <2>4. CASE w = Main /\ k = Seen(Main, Main).window
      BY <1>1, <2>4 DEF Seen
    <2> QED
      BY <2>3, <2>4 DEF GInv, Nacked
  <1> QED
    BY <1>1, <1>2, HandIs DEF G!Nacks

\* The commit of a member's transaction: it takes over from those whose rows it has locked.
LEMMA MemberCommitMaps ==
    ASSUME GInv, NEW w \in Members, Commit(w)
    PROVE  G!Deliver(w)
  <1> DEFINE taken == {m \in Members \ {w} : lock[m] = w}
             start == IF Founded THEN row[Main].last ELSE IF Founded' THEN origin ELSE 0
             to    == row'[Main].last
             reach == (start + 1 .. to \cup {Hand[m].window : m \in taken \cup {w}}) \ {0}
  <1>0. w \in Workers /\ w # Main
    BY MainAssumption DEF Workers
  <1>1. /\ Main \in Workers /\ Main \notin Members /\ Members \subseteq Workers
        /\ NoOne \notin Workers /\ w \in Workers /\ w # Main
        /\ UNCHANGED <<tick, empty, origin>>
        /\ finished' = finished \cup txn[w].finished
        /\ \A r \in Workers : row'[r] = IF lock[r] = w THEN new[r] ELSE row[r]
        /\ \A r \in Workers : /\ row[r].batch \in Nat /\ row[r].last \in Nat
                              /\ row[r].window \in Nat
                              /\ new[r].last \in Nat /\ new[r].window \in Nat
        /\ tick \in Nat /\ origin \in Nat /\ MaxTicks \in Nat
        /\ txn[w].finished \subseteq 1 .. MaxTicks
        /\ row[Main].last <= to /\ to <= tick
    BY <1>0, CommitIs
  <1>2. /\ Reach(w) \subseteq {0} \cup empty \cup txn[w].finished \cup {row'[w].window}
        /\ txn[w].finished \subseteq Reach(w)
        /\ finished' \ finished = txn[w].finished
        /\ row'[w].window \notin finished'
        /\ lock[w] = w => row'[w].window \in Reach(w) \cup {0}
        /\ Hand'[w] = G!Nothing <=> row'[w].window = 0
        /\ Hand'[w] # G!Nothing /\ Hand'[w] # Hand[w] =>
              \A r \in Workers : row[r].batch < row'[w].batch
    BY <1>1, CommitDeals
  <1>3. /\ new[Main].role = "none" => row[Main].role = "none"
        /\ row[Main].role = "none" => row[Main].last = 0
        /\ new[Main].role = "none" => new[Main].last = 0
        /\ new[Main].role # "none" => origin <= new[Main].last
        /\ lock[Main] = w /\ new[Main].last # row[Main].last => row[Main].batch = 0
        /\ lock[Main] = w => new[Main].batch = row[Main].batch
        /\ row[Main].batch = 0 => row[Main].window = 0
    BY <1>1 DEF GInv, IInv, Shapes, Shape, MainOwn
  <1>4. /\ row'[Main] = IF lock[Main] = w THEN new[Main] ELSE row[Main]
        /\ to = IF lock[Main] = w THEN new[Main].last ELSE row[Main].last
        /\ to \in Nat
    BY <1>1
  <1>5. Founded => Founded'
    BY <1>3, <1>4 DEF Founded
  <1>6. start \in Nat /\ start <= to
    BY <1>1, <1>3, <1>4, HandIs
  <1>7. start \in IF Founded THEN {row[Main].last} ELSE 0 .. tick
    BY <1>1, <1>6
  <1>8. to \in start .. tick
    BY <1>1, <1>4, <1>6
  <1>9. taken \in SUBSET (Stale \ {w})
    BY <1>1, HandIs DEF GInv, Victims
  <1>10. to # row[Main].last => Founded' /\ Hand[Main] = G!Nothing
    BY <1>1, <1>3, <1>4, HandIs
  <1>11. lock[Main] = w => (Founded' => start = Base) /\ (~Founded' => to = 0)
    BY <1>3, <1>4, <1>5, HandIs DEF Base
  <1>12. lock[Main] # w => start + 1 .. to = {}
    <2> SUFFICES ASSUME lock[Main] # w  PROVE start + 1 .. to = {}
      OBVIOUS
    <2>1. row'[Main] = row[Main] /\ to = row[Main].last
      BY <1>4
    <2>2. start = to
      BY <1>3, <2>1 DEF Founded
    <2> HIDE DEF start, to
    <2> QED
      BY <1>4, <2>2
  <1>13. reach \subseteq Reach(w) \cup {row[w].window}
    <2>1. ASSUME NEW m \in taken \cup {w}
          PROVE  Hand[m].window \in Reach(w) \cup {row[w].window}
      BY <1>1, HandIs DEF Reach
    <2>2. ASSUME NEW k \in start + 1 .. to  PROVE k \in Reach(w)
      <3>1. lock[Main] = w
        BY <1>12
      <3>2. Founded'
        <4> HIDE DEF start, to
        <4>1. start + 1 <= to
          BY <1>4, <1>6
        <4> QED
          BY <1>4, <1>6, <1>11, <3>1, <4>1
      <3> QED
        BY <1>4, <1>11, <3>1, <3>2 DEF Reach
    <2> QED
      BY <2>1, <2>2
  <1>14. Reach(w) \ {0} \subseteq reach
    <2>1. ASSUME NEW m \in Members, lock[m] = w  PROVE row[m].window \in {Hand[q].window : q \in taken \cup {w}}
      <3>1. m \in taken \cup {w} /\ Hand[m].window = row[m].window
        BY <1>1, <2>1, HandIs
      <3> QED
        BY <3>1
    <2>2. ASSUME lock[Main] = w, NEW k \in Base + 1 .. new[Main].last  PROVE k \in start + 1 .. to
      <3>1. Base \in Nat
        BY <1>1 DEF Base
      <3>2. Founded'
        BY <1>1, <1>3, <1>4, <2>2, <3>1, HandIs
      <3> QED
        BY <1>4, <1>11, <2>2, <3>2
    <2> QED
      BY <2>1, <2>2 DEF Reach
  <1>15. lock[w] # w => row'[w] = row[w]
    BY <1>1
  <1>16. Hand[w].window = row[w].window /\ Hand'[w].window = row'[w].window
         /\ Hand'[w].id = row'[w].batch /\ \A r \in Workers : Hand[r].id = row[r].batch
    BY <1>1, HandIs
  <1>17. G!Settles(w, reach)
    <2>1. finished \subseteq finished' /\ finished' \ finished \subseteq reach
      BY <1>1, <1>2, <1>14
    <2>2. reach \subseteq empty \cup (finished' \ finished) \cup {row'[w].window}
      <3> SUFFICES ASSUME NEW k \in reach
                   PROVE  k \in empty \cup (finished' \ finished) \cup {row'[w].window}
        OBVIOUS
      <3>1. k # 0 /\ k \in Reach(w) \cup {row[w].window}
        BY <1>13
      <3>2. lock[w] = w => row[w].window \in Reach(w)
        BY DEF Reach
      <3> HIDE DEF reach
      <3> QED
        BY <1>2, <1>15, <3>1, <3>2
    <2>3. ASSUME Hand'[w] # G!Nothing
          PROVE  row'[w].window \in reach \ finished'
                 /\ (Hand'[w] # Hand[w] => G!Fresh(row'[w].batch))
      <3>1. row'[w].window # 0
        BY <1>2, <2>3
      <3>2. lock[w] = w => row'[w].window \in reach
        BY <1>2, <1>14, <3>1
      <3>3. lock[w] # w => row'[w].window \in reach
        BY <1>15, <1>16, <3>1
      <3>4. Hand'[w] # Hand[w] => G!Fresh(row'[w].batch)
        BY <1>2, <1>16, <2>3, HandIs DEF G!Fresh
      <3> HIDE DEF reach
      <3> QED
        BY <1>2, <3>2, <3>3, <3>4
    <2> HIDE DEF reach
    <2> QED
      BY <1>16, <2>1, <2>2, <2>3 DEF G!Settles
  <1>18. Hand' = [m \in Workers |-> IF m = w THEN Hand'[w]
                                    ELSE IF m \in taken THEN G!Nothing ELSE Hand[m]]
    <2> SUFFICES ASSUME NEW m \in Workers, m # w
                 PROVE  Hand'[m] = IF m \in taken THEN G!Nothing ELSE Hand[m]
      BY HandIs
    <2>1. /\ Hand[m] = [id |-> row[m].batch, window |-> row[m].window]
          /\ Hand'[m] = [id |-> row'[m].batch, window |-> row'[m].window]
      BY HandIs
    <2>2. CASE m \in taken
      <3>1. new[m].batch = 0 /\ new[m].window = 0 /\ row'[m] = new[m]
        BY <1>1, <2>2 DEF GInv, IInv, Shapes, Shape, Victims
      <3> QED
        BY <2>1, <2>2, <3>1, HandIs
    <2>3. CASE m \notin taken /\ m \in Members
      <3>1. row'[m] = row[m]
        BY <1>1, <2>3
      <3> QED
        BY <2>1, <2>3, <3>1
    <2>4. CASE m = Main
      <3>1. lock[Main] = w => new[Main].window = row[Main].window
        BY <1>1, <1>3 DEF GInv, Tokens
      <3>2. row'[Main].batch = row[Main].batch /\ row'[Main].window = row[Main].window
        BY <1>3, <1>4, <3>1
      <3> QED
        BY <1>1, <2>1, <2>4, <3>2
    <2> QED
      BY <2>2, <2>3, <2>4 DEF Workers
  <1>19. Stale' \in {Stale \ taken, Stale \ (taken \cup {w})}
    <2>1. \A m \in taken : ~row'[m].stale
      BY <1>1 DEF GInv, Victims
    <2>2. \A m \in Members \ (taken \cup {w}) : row'[m] = row[m]
      BY <1>1
    <2>3. row'[w].stale => row[w].stale
      BY <1>1 DEF GInv, Victims
    <2>4. taken \subseteq Members /\ w \notin taken
      OBVIOUS
    <2> HIDE DEF taken
    <2>5. CASE row'[w].stale
      <3>1. Stale' = Stale \ taken
        BY <2>1, <2>2, <2>3, <2>4, <2>5, HandIs
      <3> QED
        BY <3>1
    <2>6. CASE ~row'[w].stale
      <3>1. Stale' = Stale \ (taken \cup {w})
        BY <2>1, <2>2, <2>3, <2>4, <2>6, HandIs
      <3> QED
        BY <3>1
    <2> QED
      BY <2>5, <2>6
  <1>20. G!Nacks
    BY <1>1, CommitNacks
  <1>21. G!Workers = Workers
    BY HandIs
  <1> HIDE DEF start, taken
  <1> QED
    BY <1>1, <1>5, <1>7, <1>8, <1>9, <1>10, <1>17, <1>18, <1>19, <1>20, <1>21 DEF G!Deliver

LEMMA PlainCommitMaps == ASSUME GInv, Commit(Main)  PROVE G!DeliverPlainly
  <1> DEFINE to    == row'[Main].last
             reach == (row[Main].last + 1 .. to \cup {Hand[Main].window, Hand'[Main].window}) \ {0}
  <1>0. Main \in Workers
    BY DEF Workers
  <1>1. /\ Main \in Workers /\ Main \notin Members /\ Members \subseteq Workers
        /\ NoOne \notin Workers
        /\ UNCHANGED <<tick, empty, origin>>
        /\ finished' = finished \cup txn[Main].finished
        /\ \A r \in Workers : row'[r] = IF lock[r] = Main THEN new[r] ELSE row[r]
        /\ row[Main].last \in Nat /\ new[Main].last \in Nat /\ tick \in Nat
        /\ txn[Main].finished \subseteq 1 .. MaxTicks /\ MaxTicks \in Nat
        /\ row[Main].last <= to /\ to <= tick
        /\ row[Main].window \in Nat /\ new[Main].window \in Nat
    BY <1>0, CommitIs
  <1>2. /\ Reach(Main) \subseteq {0} \cup empty \cup txn[Main].finished \cup {row'[Main].window}
        /\ txn[Main].finished \subseteq Reach(Main)
        /\ finished' \ finished = txn[Main].finished
        /\ row'[Main].window \notin finished'
        /\ Hand'[Main] = G!Nothing <=> row'[Main].window = 0
        /\ Hand'[Main] # G!Nothing /\ Hand'[Main] # Hand[Main] =>
              \A r \in Workers : row[r].batch < row'[Main].batch
    BY <1>1, CommitDeals
  <1>3. \A m \in Members : lock[m] # Main
    BY <1>1 DEF GInv, Victims
  <1>4. /\ lock[Main] = Main => row[Main].role # "none"
        /\ row[Main].window # 0 => row[Main].batch # 0 /\ row[Main].window = row[Main].last + 1
        /\ new[Main].window # 0 => new[Main].batch # 0 /\ new[Main].window = new[Main].last + 1
        /\ new[Main].batch # 0 => new[Main].window # 0
        /\ row[Main].batch # 0 /\ new[Main].batch = 0 => new[Main].last # row[Main].last
    BY <1>1 DEF GInv, IInv, Shapes, Shape, MainOwn
  <1>5. /\ row'[Main] = IF lock[Main] = Main THEN new[Main] ELSE row[Main]
        /\ to = IF lock[Main] = Main THEN new[Main].last ELSE row[Main].last
        /\ to \in Nat
    BY <1>1
  <1>6. Hand[Main].window = row[Main].window /\ Hand'[Main].window = row'[Main].window
        /\ Hand'[Main].id = row'[Main].batch /\ \A r \in Workers : Hand[r].id = row[r].batch
    BY <1>1, HandIs
  <1>7. lock[Main] = Main => Reach(Main) = row[Main].last + 1 .. to
    <2> SUFFICES ASSUME lock[Main] = Main  PROVE Reach(Main) = row[Main].last + 1 .. to
      OBVIOUS
    <2>1. Base = row[Main].last /\ to = new[Main].last
      BY <1>4, <1>5 DEF Base
    <2> QED
      BY <1>3, <2>1 DEF Reach
  <1>8. lock[Main] # Main => Reach(Main) = {} /\ row[Main].last + 1 .. to = {}
    BY <1>1, <1>3, <1>5 DEF Reach
  <1>9. G!Settles(Main, reach)
    <2>1. finished \subseteq finished' /\ finished' \ finished \subseteq reach
      <3>1. 0 \notin txn[Main].finished
        BY <1>1
      <3>2. Reach(Main) \subseteq row[Main].last + 1 .. to
        BY <1>7, <1>8
      <3> QED
        BY <1>1, <1>2, <3>1, <3>2
    <2>2. reach \subseteq empty \cup (finished' \ finished) \cup {row'[Main].window}
      <3> SUFFICES ASSUME NEW k \in reach
                   PROVE  k \in empty \cup (finished' \ finished) \cup {row'[Main].window}
        OBVIOUS
      <3>1. ASSUME k \in row[Main].last + 1 .. to
            PROVE  k \in empty \cup (finished' \ finished) \cup {row'[Main].window}
        <4>1. k \in Reach(Main)
          BY <1>7, <1>8, <3>1
        <4> QED
          BY <1>2, <4>1
      <3>2. CASE k = row[Main].window /\ lock[Main] # Main
        BY <1>5, <3>2
      <3>3. CASE k = row[Main].window /\ lock[Main] = Main /\ to = row[Main].last
        BY <1>1, <1>4, <1>5, <3>3
      <3>4. CASE k = row[Main].window /\ lock[Main] = Main /\ to # row[Main].last
        <4>1. k \in row[Main].last + 1 .. to
          BY <1>1, <1>4, <1>5, <3>4
        <4> QED
          BY <3>1, <4>1
      <3> QED
        BY <1>6, <3>1, <3>2, <3>3, <3>4
    <2>3. ASSUME Hand'[Main] # G!Nothing
          PROVE  row'[Main].window \in reach \ finished'
                 /\ (Hand'[Main] # Hand[Main] => G!Fresh(row'[Main].batch))
      <3>1. row'[Main].window # 0
        BY <1>2, <2>3
      <3>2. row'[Main].window \in reach
        BY <1>6, <3>1
      <3>3. Hand'[Main] # Hand[Main] => G!Fresh(row'[Main].batch)
        BY <1>2, <1>6, <2>3, HandIs DEF G!Fresh
      <3> HIDE DEF reach
      <3> QED
        BY <1>2, <3>2, <3>3
    <2> HIDE DEF reach
    <2> QED
      BY <1>6, <2>1, <2>2, <2>3 DEF G!Settles
  <1>10. to \in row[Main].last .. tick /\ (to # row[Main].last => Founded)
    BY <1>1, <1>4, <1>5 DEF Founded
  <1>11. Hand'[Main].window \in {0, to + 1}
    BY <1>4, <1>5, <1>6
  <1>12. \A m \in Members : row'[m] = row[m]
    BY <1>1, <1>3
  <1>13. Hand' = [Hand EXCEPT ![Main] = Hand'[Main]]
    BY <1>12, HandIs DEF Workers
  <1>14. Stale' = Stale
    BY <1>12, HandIs
  <1>15. Founded' = Founded
    <2>1. new[Main].role = "none" => row[Main].role = "none"
      BY DEF GInv, IInv, Shapes
    <2> QED
      BY <1>4, <1>5, <2>1 DEF Founded
  <1>16. G!Nacks
    BY <1>1, CommitNacks
  <1> QED
    BY <1>1, <1>9, <1>10, <1>11, <1>13, <1>14, <1>15, <1>16 DEF G!DeliverPlainly

-----------------------------------------------------------------------------

\* The inductive invariant of the group: windows leave a row only under the lock of the main
\* row or of that row, and what an open transaction has taken it has acknowledged or keeps.
THEOREM GroupInvariant == Spec => []GInv
  BY GroupInit, GroupNext, PTL DEF Spec

\* No two rows own a window or a batch id, and none owns a window that the cursor has not
\* handed out, but for the plain batch of a normal main row.
THEOREM OwnedOnce == Spec => []OneOwner
  <1>1. GInv => OneOwner
    <2> SUFFICES ASSUME GInv, NEW r \in Workers, NEW s \in Workers, row[r].batch # 0, r # s
                 PROVE  /\ row[r].batch # row[s].batch /\ row[r].window # row[s].window
                        /\ r # Main => row[r].window <= row[Main].last
      BY DEF OneOwner
    <2>1. row[r].batch # row[s].batch
      BY DEF GInv, IInv, Fences, Ids
    <2>2. row[r].window # row[s].window
      <3>1. row[r].window # 0
        BY DEF GInv, IInv, Shapes, Shape
      <3> QED
        BY <3>1, WindowsApart DEF GInv, IInv
    <2>3. r # Main => row[r].window <= row[Main].last
      BY DEF GInv, Owners, Workers
    <2> QED
      BY <2>1, <2>2, <2>3
  <1> QED
    BY <1>1, GroupInvariant, PTL

\* An acknowledged window is on no row any more, committed or not, and no open transaction
\* is about to acknowledge it a second time.
THEOREM FinishedOnce == Spec => []AckedOnce
  BY GroupAcksOnce, GroupInvariant, PTL

LEMMA InitMaps == Init => G!Init
  <1> SUFFICES ASSUME Init  PROVE G!Init
    OBVIOUS
  <1>1. PICK main \in {NoRow, [NoRow EXCEPT !.role = "normal"]} :
           row = [r \in Workers |-> IF r = Main THEN main ELSE NoRow]
    BY DEF Init
  <1>2. /\ NoRow.last = 0 /\ NoRow.batch = 0 /\ NoRow.window = 0 /\ NoRow.stale = FALSE
        /\ main.last = 0 /\ main.batch = 0 /\ main.window = 0 /\ main.stale = FALSE
    BY DEF NoRow
  <1>3. /\ Main \in Workers /\ row[Main].last = 0
        /\ \A r \in Workers : row[r].batch = 0 /\ row[r].window = 0 /\ ~row[r].stale
    BY <1>1, <1>2 DEF Workers
  <1>4. Hand = [r \in Workers |-> G!Nothing]
    BY <1>3, HandIs
  <1>5. Stale = {}
    BY <1>3, HandIs DEF Workers
  <1>6. tick = 0 /\ empty = {} /\ finished = {} /\ requeued = {} /\ Founded \in BOOLEAN
    BY DEF Init, Founded
  <1> QED
    BY <1>3, <1>4, <1>5, <1>6, HandIs DEF G!Init

\* A statement leaves the group alone.
LEMMA RunsQuietly ==
    ASSUME NEW w, NEW t, NEW rows, Runs(w, t, rows)
    PROVE  UNCHANGED G!vars
  BY QuietStep DEF Runs

LEMMA NextMaps == GInv /\ [Next]_vars => [G!Next]_(G!vars)
  <1> SUFFICES ASSUME GInv, [Next]_vars  PROVE [G!Next]_(G!vars)
    OBVIOUS
  <1>1. CASE UNCHANGED vars
    <2>1. row' = row /\ UNCHANGED log
      BY <1>1 DEF vars, table
    <2> QED
      BY <2>1, QuietStep
  <1>2. ASSUME NEW nothing \in BOOLEAN, Publish(nothing)  PROVE [G!Next]_(G!vars)
    BY <1>2, PublishMaps DEF G!Next
  <1>3. CASE PlainReceiveAgain \/ PlainReceiveNext
    BY <1>3, RunsQuietly DEF PlainReceiveAgain, PlainReceiveNext
  <1>4. ASSUME NEW w \in Workers, NEW convert \in BOOLEAN, Register(w, convert)
        PROVE  [G!Next]_(G!vars)
    BY <1>4, RunsQuietly DEF Register
  <1>5. ASSUME NEW w \in Workers, Receive(w)  PROVE [G!Next]_(G!vars)
    BY <1>5, RunsQuietly DEF Receive, ReceiveAgain, ReceiveNext, TakeOver
  <1>6. ASSUME NEW w \in Workers,
               Nack(w) \/ Settle(w) \/ Touch(w) \/ Unsubscribe(w) \/ Demote(w)
        PROVE  [G!Next]_(G!vars)
    BY <1>6, RunsQuietly DEF Nack, Settle, Ack, AckTooLate, Touch, Unsubscribe, Demote
  <1>7. ASSUME NEW w \in Workers, Commit(w)  PROVE [G!Next]_(G!vars)
    <2>1. CASE w = Main
      BY <1>7, <2>1, PlainCommitMaps DEF G!Next
    <2>2. CASE w \in Members
      BY <1>7, <2>2, MemberCommitMaps DEF G!Next
    <2> QED
      BY <2>1, <2>2 DEF Workers
  <1>8. ASSUME NEW w \in Workers, Rollback(w) \/ Crash(w)  PROVE [G!Next]_(G!vars)
    BY <1>8, UndoQuietStep DEF Rollback, Crash
  <1>9. ASSUME NEW w \in Workers, Restart(w)  PROVE [G!Next]_(G!vars)
    <2>1. row' = row /\ UNCHANGED log
      BY <1>9 DEF Restart, table
    <2> QED
      BY <2>1, QuietStep
  <1>10. ASSUME NEW w \in Workers, GoesStale(w)  PROVE [G!Next]_(G!vars)
    <2>1. w \in Members
      BY <1>10 DEF GoesStale
    <2> QED
      BY <1>10, <2>1, GoesStaleMaps DEF G!Next
  <1>11. ASSUME NEW w \in Workers, Unregister(w)  PROVE [G!Next]_(G!vars)
    <2>1. w \in Members
      BY <1>11 DEF Unregister
    <2> QED
      BY <1>11, <2>1, UnregisterMaps DEF G!Next
  <1> QED
    BY <1>1, <1>2, <1>3, <1>4, <1>5, <1>6, <1>7, <1>8, <1>9, <1>10, <1>11 DEF Next

\* The rows, the locks and the open transactions implement the abstract group: every commit
\* is one of its deliveries, and statements, rollbacks and crashes do not change it.
THEOREM GroupImplemented == Spec => ImplementsGroup
  BY InitMaps, NextMaps, GroupInvariant, PTL DEF Spec, ImplementsGroup, G!Spec
=============================================================================
