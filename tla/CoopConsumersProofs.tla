-------------------------- MODULE CoopConsumersProofs --------------------------
(* Proofs about cooperative consumers, for all members and bounds. *)
EXTENDS CoopConsumersInv, TLAPS

-----------------------------------------------------------------------------
(* What the helpers make of a row, a batch and a transaction.              *)

LEMMA NotEmptyRange ==
    ASSUME NEW a \in Nat, NEW b \in Int, NEW k \in a + 1 .. b
    PROVE  b # 0
  OBVIOUS

LEMMA NoRowIs == NoRow \in Row /\ NoBatch \in Batch /\ Closed \in Txn
  BY BoundsAssumption DEF NoRow, Row, NoBatch, Batch, Closed, Txn

LEMMA HoldsIs ==
    ASSUME NEW r \in Row, NEW b \in Batch
    PROVE  /\ Holds(r, b) \in Row
           /\ Holds(r, b).batch = b.id /\ Holds(r, b).window = b.window
           /\ Holds(r, b).role = r.role /\ Holds(r, b).last = r.last
  BY DEF Holds, Row, Batch

LEMMA ClearedIs ==
    ASSUME NEW r \in Row
    PROVE  /\ Cleared(r) \in Row
           /\ Cleared(r).batch = 0 /\ Cleared(r).window = 0
           /\ Cleared(r).role = r.role /\ Cleared(r).last = r.last
  <1>1. 0 \in 0 .. MaxTicks
    BY BoundsAssumption
  <1> QED
    BY <1>1 DEF Cleared, Row

LEMMA LastIs ==
    ASSUME NEW r \in Row, NEW k \in 0 .. MaxTicks
    PROVE  /\ [r EXCEPT !.last = k] \in Row
           /\ [r EXCEPT !.last = k].last = k
           /\ [r EXCEPT !.last = k].batch = r.batch /\ [r EXCEPT !.last = k].window = r.window
           /\ [r EXCEPT !.last = k].role = r.role
  BY DEF Row

LEMMA RoleIs ==
    ASSUME NEW r \in Row, NEW o \in {"none", "normal", "coop_main", "coop_member"}
    PROVE  /\ [r EXCEPT !.role = o] \in Row
           /\ [r EXCEPT !.role = o].role = o
           /\ [r EXCEPT !.role = o].batch = r.batch /\ [r EXCEPT !.role = o].window = r.window
           /\ [r EXCEPT !.role = o].last = r.last
  BY DEF Row

LEMMA StaleIs ==
    ASSUME NEW r \in Row, NEW b \in BOOLEAN
    PROVE  /\ [r EXCEPT !.stale = b] \in Row
           /\ [r EXCEPT !.stale = b].role = r.role
           /\ [r EXCEPT !.stale = b].batch = r.batch /\ [r EXCEPT !.stale = b].window = r.window
           /\ [r EXCEPT !.stale = b].last = r.last
  BY DEF Row

LEMMA MemberRowIs ==
    ASSUME TypeOK, NEW w \in Workers
    PROVE  /\ MemberRow(w) \in Row /\ MemberRow(w).role = "coop_member"
           /\ MemberRow(w).batch = new[w].batch /\ MemberRow(w).window = new[w].window
           /\ MemberRow(w).last = new[w].last
  <1>1. new[w] \in Row
    BY DEF TypeOK
  <1> DEFINE r == [new[w] EXCEPT !.role = "coop_member"]
  <1>2. /\ r \in Row /\ r.role = "coop_member"
        /\ r.batch = new[w].batch /\ r.window = new[w].window /\ r.last = new[w].last
    BY <1>1, RoleIs
  <1>3. MemberRow(w) = [r EXCEPT !.stale = FALSE]
    BY DEF MemberRow
  <1> HIDE DEF r
  <1> QED
    BY <1>2, <1>3, StaleIs

LEMMA HeldIs ==
    ASSUME NEW t \in Txn, NEW b \in Batch
    PROVE  /\ [t EXCEPT !.held = b] \in Txn
           /\ [t EXCEPT !.held = b].open = t.open
           /\ [t EXCEPT !.held = b].held = b
           /\ [t EXCEPT !.held = b].finished = t.finished
           /\ [t EXCEPT !.held = b].requeued = t.requeued
  BY DEF Txn

LEMMA RequeuedIs ==
    ASSUME NEW t \in Txn, NEW k \in 1 .. MaxTicks
    PROVE  /\ [t EXCEPT !.requeued = @ \cup {k}] \in Txn
           /\ [t EXCEPT !.requeued = @ \cup {k}].open = t.open
           /\ [t EXCEPT !.requeued = @ \cup {k}].held = t.held
           /\ [t EXCEPT !.requeued = @ \cup {k}].finished = t.finished
           /\ [t EXCEPT !.requeued = @ \cup {k}].requeued = t.requeued \cup {k}
  BY DEF Txn

LEMMA CurrentIs ==
    ASSUME TypeOK, Shapes, NEW w \in Workers
    PROVE  /\ Current(w) \in Txn /\ Current(w).open
           /\ Current(w).held \in {held[w], txn[w].held}
           /\ Current(w).held.id < seq
           /\ Current(w).held.id = 0 => Current(w).held = NoBatch
           /\ txn[w].open => Current(w) = txn[w]
  <1>1. txn[w] \in Txn /\ held[w] \in Batch
    BY DEF TypeOK
  <1> DEFINE t == [Closed EXCEPT !.open = TRUE]
  <1>2. t \in Txn /\ t.open
    BY NoRowIs DEF Txn, Closed
  <1>3. [Closed EXCEPT !.open = TRUE, !.held = held[w]] = [t EXCEPT !.held = held[w]]
    BY DEF Closed
  <1> HIDE DEF t
  <1>4. [t EXCEPT !.held = held[w]] \in Txn /\ [t EXCEPT !.held = held[w]].open
        /\ [t EXCEPT !.held = held[w]].held = held[w]
    BY <1>1, <1>2 DEF Txn
  <1> QED
    BY <1>1, <1>3, <1>4 DEF Current, Shapes

-----------------------------------------------------------------------------
(* A statement of w's transaction: what every call that goes on in it has  *)
(* in common.                                                              *)

Typed ==
    /\ new' \in [Workers -> Row] /\ seq' \in Nat \ {0}
    /\ demoting' \in [Workers -> BOOLEAN]
    /\ faults' \in Nat /\ leaves' \in Nat /\ origin' \in 0 .. MaxTicks

\* Its locks, ids and rows.
Advances(w, t, rows) ==
    /\ \A r \in rows : Free(w, r)
    /\ \A r \in Workers \ rows : new'[r] = new[r]
    /\ \A r \in Workers : new'[r].batch \in {0, new[r].batch} \/ (r = w /\ new'[r].batch = seq)
    /\ seq <= seq'
    /\ Shape(new)'
    /\ new'[Main].role = "none" => new[Main].role = "none"
    /\ t.held.id < seq' /\ (t.held.id = 0 => t.held = NoBatch)
    /\ t.held.id \in {0, Current(w).held.id, new[w].batch, seq}

\* What it does with the windows of its rows.
Keeps(w, t, rows) ==
    /\ t.open
    /\ Current(w).finished \subseteq t.finished /\ Current(w).requeued \subseteq t.requeued
    /\ \A m \in Members, k \in 1 .. MaxTicks :
          (m \in rows \/ lock[m] = w) /\ new[m].window = k => Kept(w, k)'
    /\ Main \in rows =>
          \A k \in new[Main].last + 1 .. new'[Main].last : k > origin' => Kept(w, k)'
    /\ Main \notin rows => new'[Main].last = new[Main].last
    /\ origin' = origin \/ (Main \in rows /\ row[Main].last = 0 /\ new[Main].last = 0)

LEMMA RunsTypes ==
    ASSUME TypeOK, NEW w \in Workers, NEW t \in Txn, NEW rows \in SUBSET Workers,
           Runs(w, t, rows), Typed
    PROVE  TypeOK'
  BY DEF TypeOK, Runs, Typed, log

LEMMA RunsLocks ==
    ASSUME TypeOK, NEW w \in Workers, NEW t \in Txn, NEW rows \in SUBSET Workers,
           Runs(w, t, rows), \A r \in rows : Free(w, r)
    PROVE  /\ txn'[w] = t /\ \A v \in Workers \ {w} : txn'[v] = txn[v]
           /\ \A r \in Workers : lock'[r] = w <=> (r \in rows \/ lock[r] = w)
           /\ \A r \in Workers, v \in Workers \ {w} :
                 lock'[r] = v => lock[r] = v /\ r \notin rows
           /\ \A r \in Workers : lock'[r] = NoOne => lock[r] = NoOne /\ r \notin rows
           /\ UNCHANGED <<log, row, held, alive>>
  BY MainAssumption DEF TypeOK, Runs, Free, Workers

LEMMA RunsUnlocked ==
    ASSUME IInv, NEW w \in Workers, NEW t \in Txn, NEW rows \in SUBSET Workers,
           Runs(w, t, rows), Advances(w, t, rows), t.open
    PROVE  Unlocked'
  <1> SUFFICES ASSUME NEW r \in Workers
               PROVE  IF lock'[r] = NoOne THEN new'[r] = row'[r] ELSE txn'[lock'[r]].open
    BY DEF Unlocked
  <1>0. TypeOK /\ Unlocked /\ \A q \in rows : Free(w, q)
    BY DEF IInv, Advances
  <1>1. CASE lock'[r] = NoOne
    BY <1>0, <1>1, RunsLocks DEF Unlocked, Advances
  <1>2. CASE lock'[r] = w
    BY <1>0, <1>2, RunsLocks, MainAssumption DEF Workers
  <1>3. CASE lock'[r] \notin {w, NoOne}
    <2>1. lock'[r] \in Workers \ {w} /\ lock'[r] # NoOne
      BY <1>0, <1>3 DEF TypeOK, Runs
    <2>2. lock[r] = lock'[r] /\ txn'[lock'[r]] = txn[lock[r]]
      BY <1>0, <2>1, RunsLocks
    <2> QED
      BY <1>0, <2>1, <2>2 DEF Unlocked
  <1> QED
    BY <1>1, <1>2, <1>3

LEMMA RunsShapes ==
    ASSUME IInv, NEW w \in Workers, NEW t \in Txn, NEW rows \in SUBSET Workers,
           Runs(w, t, rows), Advances(w, t, rows), Typed
    PROVE  Shapes'
  <1>0. TypeOK /\ Shapes /\ \A q \in rows : Free(w, q)
    BY DEF IInv, Advances
  <1>1. row' = row /\ held' = held /\ seq \in Nat /\ seq' \in Nat /\ seq <= seq'
    BY <1>0 DEF Runs, Advances, TypeOK, Typed
  <1>2. Shape(row)'
    <2>1. \A r \in Workers : row[r].batch \in Nat
      BY <1>0 DEF TypeOK, Row
    <2> QED
      BY <1>0, <1>1, <2>1 DEF Shapes, Shape
  <1>3. Shape(new)' /\ (new'[Main].role = "none" => row'[Main].role = "none")
    BY <1>0, <1>1 DEF Shapes, Advances
  <1>4. ASSUME NEW v \in Workers, NEW b \in {held'[v], txn'[v].held}
        PROVE  b.id < seq' /\ (b.id = 0 => b = NoBatch)
    <2>1. CASE b \in {held[v], txn[v].held}
      <3>1. b \in Batch
        BY <1>0, <2>1 DEF TypeOK, Txn
      <3>2. b.id \in Nat /\ b.id < seq /\ (b.id = 0 => b = NoBatch)
        BY <1>0, <2>1, <3>1 DEF Shapes, Batch
      <3> QED
        BY <1>1, <3>2
    <2>2. CASE b = t.held
      BY <2>2 DEF Advances
    <2> QED
      BY <1>0, <1>1, <1>4, <2>1, <2>2, RunsLocks
  <1> QED
    BY <1>2, <1>3, <1>4 DEF Shapes

LEMMA RunsFences ==
    ASSUME IInv, NEW w \in Workers, NEW t \in Txn, NEW rows \in SUBSET Workers,
           Runs(w, t, rows), Advances(w, t, rows)
    PROVE  Fences'
  <1>0. TypeOK /\ Shapes /\ Fences /\ \A q \in rows : Free(w, q)
    BY DEF IInv, Advances
  <1>1. row' = row /\ held' = held /\ seq \in Nat
    BY <1>0 DEF Runs, TypeOK
  <1>2. ASSUME NEW r \in Workers  PROVE Ids(r)' \subseteq Ids(r) \cup (IF r = w THEN {seq} ELSE {})
    BY <1>1 DEF Ids, Advances
  <1>3. ASSUME NEW r \in Workers  PROVE seq \notin Ids(r)
    <2>1. row[r].batch \in Nat /\ row[r].batch < seq /\ new[r].batch \in Nat /\ new[r].batch < seq
      BY <1>0 DEF TypeOK, Row, Shapes, Shape
    <2> QED
      BY <1>1, <2>1 DEF Ids
  <1>4. ASSUME NEW v \in Workers  PROVE seq \notin HeldIds(v)
    <2>1. held[v] \in Batch /\ txn[v].held \in Batch
      BY <1>0 DEF TypeOK, Txn
    <2>2. held[v].id \in Nat /\ held[v].id < seq /\ txn[v].held.id \in Nat /\ txn[v].held.id < seq
      BY <1>0, <2>1 DEF Shapes, Batch
    <2> QED
      BY <1>1, <2>2 DEF HeldIds
  <1>5. HeldIds(w)' \subseteq HeldIds(w) \cup Ids(w) \cup {0, seq}
    <2>1. txn'[w].held = t.held
      BY <1>0, RunsLocks
    <2>2. Current(w).held.id \in HeldIds(w)
      BY <1>0, CurrentIs DEF HeldIds
    <2> QED
      BY <1>1, <2>1, <2>2 DEF HeldIds, Ids, Advances
  <1>6. ASSUME NEW v \in Workers \ {w}  PROVE HeldIds(v)' = HeldIds(v)
    <2>1. txn'[v] = txn[v]
      BY <1>0, RunsLocks
    <2> QED
      BY <1>1, <2>1 DEF HeldIds
  <1>7. ASSUME NEW r \in Workers  PROVE 0 \notin Ids(r)'
    BY DEF Ids
  <1> SUFFICES ASSUME NEW r \in Workers, NEW v \in Workers, r # v
               PROVE  Ids(r)' \cap (Ids(v)' \cup HeldIds(v)') = {}
    BY DEF Fences
  <1>8. Ids(r) \cap (Ids(v) \cup HeldIds(v)) = {}
    BY <1>0 DEF Fences
  <1>9. CASE r = w
    BY <1>2, <1>3, <1>4, <1>6, <1>8, <1>9
  <1>10. CASE v = w
    BY <1>2, <1>3, <1>5, <1>7, <1>8, <1>10
  <1>11. CASE r # w /\ v # w
    BY <1>2, <1>6, <1>8, <1>11
  <1> QED
    BY <1>9, <1>10, <1>11

LEMMA RunsCoverage ==
    ASSUME IInv, NEW w \in Workers, NEW t \in Txn, NEW rows \in SUBSET Workers,
           Runs(w, t, rows), Advances(w, t, rows), Keeps(w, t, rows), Typed
    PROVE  Coverage' /\ NoWindowLost'
  <1>0. TypeOK /\ Unlocked /\ Coverage /\ NoWindowLost /\ \A q \in rows : Free(w, q)
    BY DEF IInv, Advances
  <1>1. row' = row /\ UNCHANGED <<finished, requeued, empty>>
    BY DEF Runs, log
  <1>2. ASSUME NEW k  PROVE Settled(k)' = Settled(k)
    BY <1>1 DEF Settled
  <1>3. ASSUME NEW k \in 1 .. MaxTicks, NEW r \in Workers, lock[r] = w, Kept(w, k)
        PROVE  Kept(w, k)'
    <2>1. txn[w].open
      BY <1>0, <1>3, MainAssumption DEF Unlocked, Workers
    <2>2. Current(w) = txn[w] /\ txn'[w] = t
      BY <1>0, <2>1, RunsLocks DEF Current
    <2>3. CASE \E m \in Members : lock[m] = w /\ new[m].window = k
      BY <1>3, <2>3 DEF Keeps
    <2>4. CASE Settled(k) \/ k \in txn[w].finished \cup txn[w].requeued
      BY <1>2, <2>2, <2>4 DEF Kept, Keeps
    <2> QED
      BY <1>3, <2>3, <2>4 DEF Kept
  <1>4. ASSUME NEW k, NEW v \in Workers \ {w}, Kept(v, k)
        PROVE  Kept(v, k)' \/ \E m \in Members : m \in rows /\ lock[m] = v
    <2>1. txn'[v] = txn[v]
      BY <1>0, RunsLocks
    <2>2. ASSUME NEW m \in Members, lock[m] = v, m \notin rows
          PROVE  lock'[m] = v /\ new'[m] = new[m]
      BY <2>2 DEF Runs, Advances, Workers
    <2> QED
      BY <1>2, <1>4, <2>1, <2>2 DEF Kept
  <1>5. ASSUME NEW m \in rows, NEW v \in Workers \ {w}  PROVE lock[m] # v
    BY <1>0, MainAssumption DEF Free, Workers
  <1>6. ASSUME NEW v \in Workers, NEW m \in Members, NEW k \in 1 .. MaxTicks,
               lock'[m] = v, row'[m].window = k
        PROVE  Kept(v, k)'
    <2>1. m \in Workers /\ row'[m] = row[m]
      BY <1>1 DEF Workers
    <2>2. CASE v # w
      <3>1. lock[m] = v
        BY <1>0, <1>6, <2>1, <2>2, RunsLocks
      <3>2. Kept(v, k)
        BY <1>0, <1>6, <2>1, <3>1 DEF Coverage
      <3> QED
        BY <1>4, <1>5, <2>1, <2>2, <3>2 DEF Workers
    <2>3. CASE v = w /\ lock[m] = w
      <3>1. Kept(w, k)
        BY <1>0, <1>6, <2>1, <2>3 DEF Coverage
      <3> QED
        BY <1>3, <1>6, <2>1, <2>3, <3>1
    <2>4. CASE v = w /\ lock[m] # w
      <3>1. m \in rows /\ lock[m] = NoOne
        BY <1>0, <1>6, <2>1, <2>4, RunsLocks DEF Free
      <3>2. new[m] = row[m]
        BY <1>0, <2>1, <3>1 DEF Unlocked
      <3> QED
        BY <1>6, <2>1, <2>4, <3>1, <3>2 DEF Keeps
    <2> QED
      BY <2>2, <2>3, <2>4
  <1>7. row[Main].last \in 0 .. MaxTicks /\ new[Main].last \in 0 .. MaxTicks
        /\ new'[Main].last \in 0 .. MaxTicks /\ MaxTicks \in Nat
        /\ origin \in Nat /\ origin' \in Nat
    <2>1. row[Main] \in Row /\ new[Main] \in Row /\ new'[Main] \in Row
      BY <1>0 DEF TypeOK, Typed, Workers
    <2> QED
      BY <1>0, <2>1, BoundsAssumption DEF Row, TypeOK, Typed
  <1>8. ASSUME NEW v \in Workers, lock'[Main] = v,
               NEW k \in row'[Main].last + 1 .. new'[Main].last, k > origin'
        PROVE  Kept(v, k)'
    <2>0. Main \in Workers /\ row'[Main] = row[Main]
      BY <1>1 DEF Workers
    <2>1. CASE v # w
      <3>1. lock[Main] = v /\ Main \notin rows
        BY <1>0, <1>8, <2>0, <2>1, RunsLocks
      <3>2. new'[Main].last = new[Main].last /\ origin' = origin
        BY <3>1 DEF Keeps
      <3>3. Kept(v, k)
        BY <1>0, <1>8, <2>0, <3>1, <3>2 DEF Coverage
      <3> QED
        BY <1>4, <1>5, <2>1, <3>3
    <2>2. CASE v = w /\ k > new[Main].last /\ Main \in rows
      <3>1. k \in new[Main].last + 1 .. new'[Main].last
        BY <1>7, <1>8, <2>0, <2>2
      <3> QED
        BY <1>8, <2>2, <3>1 DEF Keeps
    <2>3. CASE v = w /\ ~(k > new[Main].last /\ Main \in rows)
      <3>1. k \in row[Main].last + 1 .. new[Main].last
        BY <1>7, <1>8, <2>0, <2>3 DEF Keeps
      <3>2. origin' = origin
        BY <1>7, <3>1 DEF Keeps
      <3>3. new[Main] # row[Main]
        BY <1>7, <3>1
      <3>4. lock[Main] = w
        <4>1. lock[Main] # NoOne
          BY <1>0, <2>0, <3>3 DEF Unlocked
        <4>2. Main \in rows \/ lock[Main] = w
          BY <1>0, <1>8, <2>0, <2>3, RunsLocks
        <4> QED
          BY <1>0, <4>1, <4>2 DEF Free
      <3>5. Kept(w, k)
        BY <1>0, <1>7, <1>8, <3>1, <3>2, <3>4 DEF Coverage
      <3>6. k \in 1 .. MaxTicks
        BY <1>7, <3>1
      <3> QED
        BY <1>3, <2>0, <2>3, <3>4, <3>5, <3>6
    <2> QED
      BY <2>1, <2>2, <2>3
  <1>9. NoWindowLost'
    <2> SUFFICES ASSUME NEW k \in origin' + 1 .. row'[Main].last
                 PROVE  Settled(k)' \/ \E m \in Members : row'[m].window = k
      BY DEF NoWindowLost
    <2>1. origin' = origin
      <3>1. row'[Main].last = row[Main].last
        BY <1>1 DEF Workers
      <3>2. row[Main].last # 0
        <4>1. k \in origin' + 1 .. row[Main].last
          BY <3>1
        <4>2. row[Main].last \in Int /\ origin' \in Nat
          BY <1>7
        <4> QED
          BY ONLY <4>1, <4>2, NotEmptyRange
      <3> QED
        BY ONLY <3>2, Keeps(w, t, rows) DEF Keeps
    <2> QED
      BY <1>0, <1>1, <1>2, <2>1 DEF NoWindowLost
  <1>10. ASSUME NEW v \in Workers, NEW m \in Members, lock'[m] = v, row'[m].window # 0
         PROVE  Kept(v, row[m].window)'
    <2>1. row'[m].window \in 1 .. MaxTicks
      BY <1>0, <1>1, <1>10, BoundsAssumption DEF TypeOK, Row, Workers
    <2> QED
      BY <1>6, <1>10, <2>1 DEF Kept
  <1> QED
    BY <1>8, <1>9, <1>10 DEF Coverage

LEMMA RunsStep ==
    ASSUME IInv, NEW w \in Workers, NEW t \in Txn, NEW rows \in SUBSET Workers,
           Runs(w, t, rows), Typed, Advances(w, t, rows), Keeps(w, t, rows)
    PROVE  IInv'
  <1>1. TypeOK'
    BY RunsTypes DEF IInv
  <1>2. t.open
    BY DEF Keeps
  <1> QED
    BY <1>1, <1>2, RunsUnlocked, RunsShapes, RunsFences, RunsCoverage DEF IInv

-----------------------------------------------------------------------------
(* Steps outside a transaction, and the end of one.                        *)

\* What the invariant says of a row x, which r has, when the sequence is at s.
RowShape(r, x, s) ==
    /\ x.batch < s /\ (x.batch = 0 <=> x.window = 0)
    /\ r \in Members /\ x.batch # 0 => x.role = "coop_member"
    /\ r = Main =>
          /\ x.role # "coop_member"
          /\ x.role = "none" => x.last = 0
          /\ x.batch # 0 => x.role = "normal" /\ x.window = x.last + 1

LEMMA ShapeByRow ==
    ASSUME NEW x
    PROVE  Shape(x) <=> \A r \in Workers : RowShape(r, x[r], seq)
  BY DEF Shape, RowShape, Workers

\* Rows that differ in sub_active only.
SameRow(x, y) == /\ x.role = y.role /\ x.last = y.last
                 /\ x.batch = y.batch /\ x.window = y.window

LEMMA SameStep ==
    ASSUME IInv, TypeOK', Unlocked', UNCHANGED <<seq, txn, held, lock, origin>>,
           finished \subseteq finished', requeued \subseteq requeued', empty \subseteq empty',
           \A r \in Workers : SameRow(row'[r], row[r]) /\ SameRow(new'[r], new[r])
    PROVE  IInv'
  <1>1. Shapes'
    BY MainAssumption DEF IInv, Shapes, Shape, SameRow, Workers
  <1>2. Fences'
    BY DEF IInv, Fences, Ids, HeldIds, SameRow
  <1>3. ASSUME NEW w \in Workers, NEW k, Kept(w, k)  PROVE Kept(w, k)'
    BY <1>3 DEF Kept, Settled, SameRow, Workers
  <1>4. Coverage'
    <2>1. ASSUME NEW w \in Workers, NEW m \in Members, lock'[m] = w, row'[m].window # 0
          PROVE  Kept(w, row[m].window)'
      <3>1. row'[m].window = row[m].window
        BY DEF SameRow, Workers
      <3>2. Kept(w, row[m].window)
        BY <2>1, <3>1 DEF IInv, Coverage
      <3> QED
        BY <1>3, <3>1, <3>2 DEF Kept
    <2>2. ASSUME NEW w \in Workers, lock'[Main] = w,
                 NEW k \in row'[Main].last + 1 .. new'[Main].last, k > origin'
          PROVE  Kept(w, k)'
      <3>1. row'[Main].last = row[Main].last /\ new'[Main].last = new[Main].last
        BY DEF SameRow, Workers
      <3>2. Kept(w, k)
        BY <2>2, <3>1 DEF IInv, Coverage
      <3> QED
        BY <1>3, <3>2
    <2> QED
      BY <2>1, <2>2 DEF Coverage
  <1>5. NoWindowLost'
    BY DEF IInv, NoWindowLost, Settled, SameRow, Workers
  <1> QED
    BY <1>1, <1>2, <1>4, <1>5 DEF IInv

LEMMA PublishStep == ASSUME IInv, NEW nothing \in BOOLEAN, Publish(nothing)  PROVE IInv'
  <1> USE DEF Publish, table, processes, bounds
  <1>0. tick \in Nat /\ MaxTicks \in Nat /\ tick <= MaxTicks
    BY BoundsAssumption DEF IInv, TypeOK
  <1>1. TypeOK'
    BY <1>0 DEF IInv, TypeOK, Row, Txn, Batch
  <1>2. Unlocked'
    BY DEF IInv, Unlocked
  <1>3. empty \subseteq empty'
    OBVIOUS
  <1> QED
    BY <1>1, <1>2, <1>3, SameStep DEF SameRow

LEMMA RestartStep == ASSUME IInv, NEW w \in Workers, Restart(w)  PROVE IInv'
  <1> USE DEF Restart, table, log, bounds
  <1>1. TypeOK'
    BY DEF IInv, TypeOK
  <1>2. Unlocked'
    BY DEF IInv, Unlocked
  <1> QED
    BY <1>1, <1>2, SameStep DEF SameRow

LEMMA StutterStep == ASSUME IInv, UNCHANGED vars  PROVE IInv'
  <1> USE DEF vars, table, log, processes, bounds
  <1>1. TypeOK'
    BY DEF IInv, TypeOK
  <1>2. Unlocked'
    BY DEF IInv, Unlocked
  <1> QED
    BY <1>1, <1>2, SameStep DEF SameRow

LEMMA GoesStaleStep == ASSUME IInv, NEW w \in Workers, GoesStale(w)  PROVE IInv'
  <1> USE DEF log, processes, bounds
  <1>0. TypeOK /\ Unlocked
    BY DEF IInv
  <1>1. row[w] \in Row /\ new[w] \in Row
    BY <1>0 DEF TypeOK
  <1>2. [row[w] EXCEPT !.stale = TRUE] \in Row /\ [new[w] EXCEPT !.stale = TRUE] \in Row
    BY <1>1 DEF Row
  <1>3. row' = [row EXCEPT ![w] = [row[w] EXCEPT !.stale = TRUE]]
        /\ new' = IF lock[w] = NoOne THEN [new EXCEPT ![w] = [new[w] EXCEPT !.stale = TRUE]] ELSE new
    BY DEF GoesStale
  <1>4. row' \in [Workers -> Row] /\ new' \in [Workers -> Row]
    BY <1>0, <1>2, <1>3 DEF TypeOK
  <1>5. faults' \in Nat /\ leaves' \in Nat /\ UNCHANGED <<origin, log, lock, seq, txn, processes>>
    BY <1>0 DEF GoesStale, Fault, TypeOK
  <1>6. TypeOK'
    BY <1>0, <1>4, <1>5 DEF TypeOK
  <1>7. Unlocked'
    BY <1>0, <1>3, <1>5 DEF Unlocked, TypeOK
  <1>8. ASSUME NEW r \in Workers  PROVE SameRow(row'[r], row[r]) /\ SameRow(new'[r], new[r])
    <2>1. CASE r = w
      BY <1>0, <1>1, <1>3, <2>1, StaleIs DEF SameRow, TypeOK
    <2>2. CASE r # w
      BY <1>0, <1>3, <2>2 DEF SameRow, TypeOK
    <2> QED
      BY <2>1, <2>2
  <1> QED
    BY <1>5, <1>6, <1>7, <1>8, SameStep

\* What the end of a transaction does to locks, rows and ids, whether it commits or not.
LEMMA EndsIs ==
    ASSUME TypeOK, Unlocked, NEW w \in Workers, NEW after \in {row, new}, Ends(w, after)
    PROVE  /\ row' \in [Workers -> Row] /\ new' \in [Workers -> Row]
           /\ lock' \in [Workers -> Workers \cup {NoOne}]
           /\ txn' \in [Workers -> Txn] /\ demoting' \in [Workers -> BOOLEAN]
           /\ UNCHANGED <<tick, empty, seq>>
           /\ txn'[w] = Closed /\ \A v \in Workers \ {w} : txn'[v] = txn[v]
           /\ \A r \in Workers : lock[r] = w => row'[r] = after[r] /\ new'[r] = after[r]
           /\ \A r \in Workers : lock[r] # w => row'[r] = row[r] /\ new'[r] = new[r]
           /\ \A r \in Workers : lock'[r] = IF lock[r] = w THEN NoOne ELSE lock[r]
  BY NoRowIs DEF TypeOK, Ends

LEMMA EndsUnlocked ==
    ASSUME TypeOK, Unlocked, NEW w \in Workers, NEW after \in {row, new}, Ends(w, after)
    PROVE  Unlocked'
  <1> SUFFICES ASSUME NEW r \in Workers
               PROVE  IF lock'[r] = NoOne THEN new'[r] = row'[r] ELSE txn'[lock'[r]].open
    BY DEF Unlocked
  <1>1. CASE lock[r] = w
    BY <1>1, EndsIs
  <1>2. CASE lock[r] = NoOne
    <2>1. lock[r] # w
      BY <1>2, MainAssumption DEF Workers
    <2> QED
      BY <1>2, <2>1, EndsIs DEF Unlocked
  <1>3. CASE lock[r] \notin {w, NoOne}
    <2>1. lock[r] \in Workers \ {w} /\ lock'[r] = lock[r]
      BY <1>3, EndsIs DEF TypeOK
    <2>2. txn'[lock[r]] = txn[lock[r]]
      BY <2>1, EndsIs
    <2> QED
      BY <1>3, <2>1, <2>2 DEF Unlocked
  <1> QED
    BY <1>1, <1>2, <1>3

LEMMA EndsShapes ==
    ASSUME IInv, NEW w \in Workers, NEW after \in {row, new}, Ends(w, after),
           \A v \in Workers : held'[v] \in {held[v], txn[v].held, NoBatch}
    PROVE  Shapes'
  <1>0. TypeOK /\ Unlocked /\ Shapes
    BY DEF IInv
  <1>1. seq' = seq
    BY <1>0, EndsIs
  <1>2. ASSUME NEW r \in Workers
        PROVE  row'[r] \in {row[r], new[r]} /\ new'[r] \in {row[r], new[r]}
    BY <1>0, EndsIs
  <1>3. Shape(row)' /\ Shape(new)'
    <2>1. \A r \in Workers : RowShape(r, row[r], seq) /\ RowShape(r, new[r], seq)
      BY <1>0, ShapeByRow DEF Shapes
    <2>2. \A r \in Workers : RowShape(r, row'[r], seq') /\ RowShape(r, new'[r], seq')
      BY <1>1, <1>2, <2>1
    <2> QED
      BY <2>2 DEF Shape, RowShape, Workers
  <1>4. new'[Main].role = "none" => row'[Main].role = "none"
    BY <1>0, EndsIs DEF Shapes, Workers
  <1>5. ASSUME NEW v \in Workers, NEW b \in {held'[v], txn'[v].held}
        PROVE  b.id < seq' /\ (b.id = 0 => b = NoBatch)
    <2>1. txn'[v].held \in {txn[v].held, NoBatch}
      BY <1>0, EndsIs DEF Closed
    <2>2. b \in {held[v], txn[v].held, NoBatch}
      BY <2>1
    <2>3. NoBatch.id < seq
      BY <1>0 DEF NoBatch, TypeOK
    <2> QED
      BY <1>0, <1>1, <2>2, <2>3 DEF Shapes
  <1> QED
    BY <1>3, <1>4, <1>5 DEF Shapes

LEMMA EndsFences ==
    ASSUME IInv, NEW w \in Workers, NEW after \in {row, new}, Ends(w, after),
           \A v \in Workers : held'[v] \in {held[v], txn[v].held, NoBatch}
    PROVE  Fences'
  <1>0. TypeOK /\ Unlocked /\ Fences
    BY DEF IInv
  <1>1. ASSUME NEW r \in Workers  PROVE Ids(r)' \subseteq Ids(r)
    BY <1>0, EndsIs DEF Ids
  <1>2. ASSUME NEW v \in Workers  PROVE HeldIds(v)' \subseteq HeldIds(v) \cup {0}
    <2>1. txn'[v].held \in {txn[v].held, NoBatch}
      BY <1>0, EndsIs DEF Closed
    <2>2. NoBatch.id = 0
      BY DEF NoBatch
    <2> QED
      BY <2>1, <2>2 DEF HeldIds
  <1>3. ASSUME NEW r \in Workers  PROVE 0 \notin Ids(r)
    BY DEF Ids
  <1> SUFFICES ASSUME NEW r \in Workers, NEW v \in Workers, r # v
               PROVE  Ids(r)' \cap (Ids(v)' \cup HeldIds(v)') = {}
    BY DEF Fences
  <1>4. Ids(r) \cap (Ids(v) \cup HeldIds(v)) = {}
    BY <1>0 DEF Fences
  <1> QED
    BY <1>1, <1>2, <1>3, <1>4

LEMMA EndsCoverage ==
    ASSUME IInv, NEW w \in Workers, NEW after \in {row, new}, Ends(w, after),
           finished \subseteq finished', requeued \subseteq requeued', origin' = origin
    PROVE  Coverage'
  <1>0. TypeOK /\ Unlocked /\ Coverage /\ empty' = empty
    BY EndsIs DEF IInv
  <1>1. ASSUME NEW v \in Workers, NEW r \in Workers, lock'[r] = v
        PROVE  v # w /\ lock[r] = v /\ row'[r] = row[r] /\ new'[r] = new[r]
    BY <1>0, <1>1, EndsIs, MainAssumption DEF Workers
  <1>2. ASSUME NEW v \in Workers \ {w}, NEW k, Kept(v, k)  PROVE Kept(v, k)'
    <2>1. txn'[v] = txn[v]
      BY <1>0, EndsIs
    <2>2. ASSUME NEW m \in Members, lock[m] = v  PROVE lock'[m] = v /\ new'[m] = new[m]
      BY <1>0, <2>2, EndsIs DEF Workers
    <2> QED
      BY <1>0, <1>2, <2>1, <2>2 DEF Kept, Settled
  <1>3. ASSUME NEW v \in Workers, NEW m \in Members, lock'[m] = v, row'[m].window # 0
        PROVE  Kept(v, row[m].window)'
    <2>1. v # w /\ lock[m] = v /\ row'[m] = row[m]
      BY <1>1, <1>3 DEF Workers
    <2>2. Kept(v, row[m].window)
      BY <1>0, <1>3, <2>1 DEF Coverage
    <2> QED
      BY <1>2, <2>1, <2>2 DEF Kept
  <1>4. ASSUME NEW v \in Workers, lock'[Main] = v,
               NEW k \in row'[Main].last + 1 .. new'[Main].last, k > origin'
        PROVE  Kept(v, k)'
    <2>1. v # w /\ lock[Main] = v /\ row'[Main] = row[Main] /\ new'[Main] = new[Main]
      BY <1>1, <1>4 DEF Workers
    <2>2. Kept(v, k)
      BY <1>0, <1>4, <2>1 DEF Coverage
    <2> QED
      BY <1>2, <2>1, <2>2
  <1> QED
    BY <1>3, <1>4 DEF Coverage

LEMMA CommitStep == ASSUME IInv, NEW w \in Workers, Commit(w)  PROVE IInv'
  <1>0. TypeOK /\ Unlocked /\ Coverage /\ NoWindowLost /\ Ends(w, new)
        /\ finished' = finished \cup txn[w].finished /\ requeued' = requeued \cup txn[w].requeued
        /\ held' = [held EXCEPT ![w] = txn[w].held] /\ UNCHANGED <<alive, bounds>>
    BY DEF IInv, Commit
  <1>1. txn[w] \in Txn
    BY <1>0 DEF TypeOK
  <1>2. TypeOK'
    BY <1>0, <1>1, EndsIs DEF TypeOK, Txn, bounds
  <1>3. \A v \in Workers : held'[v] \in {held[v], txn[v].held, NoBatch}
    BY <1>0 DEF TypeOK
  <1>4. NoWindowLost'
    <2> SUFFICES ASSUME NEW k \in origin' + 1 .. row'[Main].last
                 PROVE  Settled(k)' \/ \E m \in Members : row'[m].window = k
      BY DEF NoWindowLost
    <2>1. origin' = origin /\ empty' = empty
      BY <1>0, EndsIs DEF bounds
    <2>2. ASSUME Settled(k)  PROVE Settled(k)'
      BY <1>0, <2>1, <2>2 DEF Settled
    <2>3. ASSUME Kept(w, k)  PROVE Settled(k)' \/ \E m \in Members : row'[m].window = k
      BY <1>0, <2>2, <2>3, EndsIs DEF Kept, Settled, Workers
    <2>4. origin \in Nat /\ row[Main].last \in Nat /\ new[Main].last \in Nat
      BY <1>0, BoundsAssumption DEF TypeOK, Row, Workers
    <2>5. CASE k \in origin + 1 .. row[Main].last
      <3>1. CASE \E m \in Members : row[m].window = k
        <4>1. PICK m \in Members : row[m].window = k
          BY <3>1
        <4>2. CASE lock[m] = w
          <5>1. Kept(w, k)
            BY <1>0, <2>4, <2>5, <4>1, <4>2 DEF Coverage
          <5> QED
            BY <2>3, <5>1
        <4>3. CASE lock[m] # w
          BY <1>0, <4>1, <4>3, EndsIs DEF Workers
        <4> QED
          BY <4>2, <4>3
      <3> QED
        BY <1>0, <2>2, <2>5, <3>1 DEF NoWindowLost
    <2>6. CASE k \notin origin + 1 .. row[Main].last
      <3>1. lock[Main] = w /\ row'[Main] = new[Main]
        BY <1>0, <2>1, <2>6, EndsIs DEF Workers
      <3>2. k \in row[Main].last + 1 .. new[Main].last /\ k > origin
        BY <2>1, <2>4, <2>6, <3>1
      <3>3. Kept(w, k)
        BY <1>0, <3>1, <3>2 DEF Coverage
      <3> QED
        BY <2>3, <3>3
    <2> QED
      BY <2>5, <2>6
  <1>5. finished \subseteq finished' /\ requeued \subseteq requeued' /\ origin' = origin
    BY <1>0 DEF bounds
  <1> QED
    BY <1>0, <1>2, <1>3, <1>4, <1>5, EndsUnlocked, EndsShapes, EndsFences, EndsCoverage DEF IInv

\* Rollbacks and crashes.
LEMMA UndoStep ==
    ASSUME IInv, NEW w \in Workers, Ends(w, row), UNCHANGED <<finished, requeued, origin>>,
           held' \in [Workers -> Batch], alive' \in [Workers -> BOOLEAN],
           \A v \in Workers : held'[v] \in {held[v], NoBatch},
           faults' \in Nat, leaves' \in Nat
    PROVE  IInv'
  <1>0. TypeOK /\ Unlocked /\ NoWindowLost
    BY DEF IInv
  <1>1. TypeOK'
    BY <1>0, EndsIs DEF TypeOK
  <1>2. \A r \in Workers : row'[r] = row[r]
    BY <1>0, EndsIs
  <1>3. NoWindowLost'
    BY <1>0, <1>2, EndsIs DEF NoWindowLost, Settled, Workers
  <1> QED
    BY <1>0, <1>1, <1>3, EndsUnlocked, EndsShapes, EndsFences, EndsCoverage DEF IInv

LEMMA RollbackStep == ASSUME IInv, NEW w \in Workers, Rollback(w)  PROVE IInv'
  BY UndoStep DEF Rollback, Fault, IInv, TypeOK

LEMMA CrashStep == ASSUME IInv, NEW w \in Workers, Crash(w)  PROVE IInv'
  BY UndoStep, NoRowIs DEF Crash, Fault, IInv, TypeOK

LEMMA UnregisterStep == ASSUME IInv, NEW m \in Workers, Unregister(m)  PROVE IInv'
  <1>0. TypeOK /\ Unlocked /\ Shapes /\ Fences /\ Coverage /\ NoWindowLost
    BY DEF IInv
  <1>1. m \in Members /\ Main \in Workers /\ m # Main /\ row[m] \in Row /\ row[Main] \in Row
    BY <1>0, MainAssumption DEF Unregister, TypeOK, Workers
  <1>2. /\ lock[Main] = NoOne /\ lock[m] = NoOne /\ row[Main].role = "coop_main"
        /\ requeued' = requeued \cup Routed(m)
        /\ UNCHANGED <<tick, empty, finished, lock, seq, txn, held, alive, demoting, origin>>
        /\ faults' = faults /\ leaves' = leaves + 1
    BY DEF Unregister, Leave, processes
  <1> DEFINE o    == IF OtherMembers(NoOne, m) = {} THEN "normal" ELSE "coop_main"
             main == [row[Main] EXCEPT !.role = o]
  <1>3. /\ row' = [row EXCEPT ![m] = NoRow, ![Main] = main]
        /\ new' = [r \in Workers |-> IF lock[r] = NoOne THEN row'[r] ELSE new[r]]
    BY DEF Unregister
  <1>4. o \in {"normal", "coop_main"}
    OBVIOUS
  <1> HIDE DEF o
  <1>5. main \in Row /\ main.role = o /\ main.last = row[Main].last
        /\ main.batch = row[Main].batch /\ main.window = row[Main].window
    <2>1. o \in {"none", "normal", "coop_main", "coop_member"}
      BY <1>4
    <2>2. /\ [row[Main] EXCEPT !.role = o] \in Row
          /\ [row[Main] EXCEPT !.role = o].role = o
          /\ [row[Main] EXCEPT !.role = o].last = row[Main].last
          /\ [row[Main] EXCEPT !.role = o].batch = row[Main].batch
          /\ [row[Main] EXCEPT !.role = o].window = row[Main].window
      BY <1>1, <2>1, RoleIs
    <2> QED
      BY <2>2
  <1> HIDE DEF main
  <1>6. /\ row'[m] = NoRow /\ new'[m] = NoRow /\ row'[Main] = main /\ new'[Main] = main
        /\ \A r \in Workers \ {m, Main} : row'[r] = row[r] /\ new'[r] = new[r]
        /\ new[Main] = row[Main] /\ new[m] = row[m]
    BY <1>0, <1>1, <1>2, <1>3 DEF TypeOK, Unlocked
  <1>7. TypeOK'
    <2>1. row' \in [Workers -> Row] /\ new' \in [Workers -> Row]
      BY <1>0, <1>3, <1>5, NoRowIs DEF TypeOK
    <2>2. Routed(m) \subseteq 1 .. MaxTicks
      BY <1>1, BoundsAssumption DEF Routed, Row
    <2>3. leaves \in Nat /\ requeued \subseteq 1 .. MaxTicks
      BY <1>0 DEF TypeOK
    <2>4. leaves' \in Nat
      BY <1>2, <2>3
    <2>5. requeued' \subseteq 1 .. MaxTicks
      BY <1>2, <2>2, <2>3
    <2> QED
      BY <1>0, <1>2, <2>1, <2>4, <2>5 DEF TypeOK
  <1>8. Unlocked'
    <2> SUFFICES ASSUME NEW r \in Workers
                 PROVE  IF lock'[r] = NoOne THEN new'[r] = row'[r] ELSE txn'[lock'[r]].open
      BY DEF Unlocked
    <2> QED
      BY <1>0, <1>2, <1>3 DEF Unlocked, TypeOK
  <1>9. Shapes'
    <2>1. \A r \in Workers : RowShape(r, row[r], seq) /\ RowShape(r, new[r], seq)
      BY <1>0, ShapeByRow DEF Shapes
    <2>2. RowShape(Main, main, seq)
      BY <1>1, <1>2, <1>4, <1>5, <2>1, MainAssumption DEF RowShape
    <2>3. RowShape(m, NoRow, seq)
      BY <1>0, <1>1 DEF RowShape, NoRow, TypeOK
    <2>4. \A r \in Workers : RowShape(r, row'[r], seq') /\ RowShape(r, new'[r], seq')
      BY <1>2, <1>6, <2>1, <2>2, <2>3
    <2>5. Shape(row)' /\ Shape(new)'
      BY <2>4 DEF Shape, RowShape, Workers
    <2> QED
      BY <1>0, <1>2, <1>6, <2>5 DEF Shapes
  <1>10. Fences'
    <2>1. ASSUME NEW r \in Workers  PROVE Ids(r)' \subseteq Ids(r)
      BY <1>5, <1>6 DEF Ids, NoRow
    <2>2. ASSUME NEW v \in Workers  PROVE HeldIds(v)' = HeldIds(v)
      BY <1>2 DEF HeldIds
    <2> QED
      BY <1>0, <2>1, <2>2 DEF Fences
  <1>11. ASSUME NEW v \in Workers, NEW k, Kept(v, k)  PROVE Kept(v, k)'
    <2>1. ASSUME NEW a \in Members, lock[a] = v  PROVE lock'[a] = v /\ new'[a] = new[a]
      BY <1>0, <1>1, <1>2, <1>6, <2>1, MainAssumption DEF Workers
    <2> QED
      BY <1>2, <1>11, <2>1 DEF Kept, Settled
  <1>12. Coverage'
    <2>1. ASSUME NEW v \in Workers, NEW a \in Members, lock'[a] = v, row'[a].window # 0
          PROVE  Kept(v, row[a].window)'
      <3>1. lock[a] = v /\ row'[a] = row[a]
        BY <1>1, <1>2, <1>6, <2>1, MainAssumption DEF Workers
      <3>2. Kept(v, row[a].window)
        BY <1>0, <2>1, <3>1 DEF Coverage
      <3> QED
        BY <1>11, <3>1, <3>2 DEF Kept
    <2>2. \A v \in Workers : lock'[Main] # v
      BY <1>2, MainAssumption DEF Workers
    <2> QED
      BY <2>1, <2>2 DEF Coverage
  <1>13. NoWindowLost'
    <2> SUFFICES ASSUME NEW k \in origin + 1 .. row[Main].last
                 PROVE  Settled(k)' \/ \E a \in Members : row'[a].window = k
      BY <1>2, <1>5, <1>6 DEF NoWindowLost
    <2>1. k # 0
      BY <1>0, <1>1, BoundsAssumption DEF TypeOK, Row
    <2>2. CASE Settled(k)
      BY <1>2, <2>2 DEF Settled
    <2>3. CASE row[m].window = k
      BY <1>2, <2>1, <2>3 DEF Settled, Routed
    <2>4. CASE \E a \in Members \ {m} : row[a].window = k
      BY <1>6, <2>4, MainAssumption DEF Workers
    <2> QED
      BY <1>0, <2>2, <2>3, <2>4 DEF NoWindowLost
  <1> QED
    BY <1>7, <1>8, <1>9, <1>10, <1>12, <1>13 DEF IInv

-----------------------------------------------------------------------------
(* Statements: the rows that one writes, and what it may do with them.     *)

\* The windows of the rows that keep theirs are kept.
LEMMA WindowStays ==
    ASSUME TypeOK, NEW w \in Workers, NEW t \in Txn, NEW rows \in SUBSET Workers,
           Runs(w, t, rows), NEW m \in Members, m \in rows \/ lock[m] = w,
           new'[m].window = new[m].window
    PROVE  \A k \in 1 .. MaxTicks : new[m].window = k => Kept(w, k)'
  <1>1. lock'[m] = w
    BY DEF Runs, TypeOK, Workers
  <1> QED
    BY <1>1 DEF Kept

LEMMA AdvancesByRow ==
    ASSUME TypeOK, Shapes, NEW w \in Workers, NEW t \in Txn, NEW rows \in SUBSET Workers,
           \A r \in rows : Free(w, r),
           \A r \in Workers \ rows : new'[r] = new[r],
           \A r \in rows : new'[r].batch \in {0, new[r].batch} \/ (r = w /\ new'[r].batch = seq),
           seq' = seq \/ seq' = seq + 1,
           \A r \in rows : RowShape(r, new'[r], seq'),
           Main \in rows => (new'[Main].role = "none" => new[Main].role = "none"),
           t.held.id < seq' /\ (t.held.id = 0 => t.held = NoBatch),
           t.held.id \in {0, Current(w).held.id, new[w].batch, seq}
    PROVE  Advances(w, t, rows)
  <1>1. seq \in Nat /\ seq <= seq'
    BY DEF TypeOK
  <1>2. Shape(new)'
    <2>1. ASSUME NEW r \in Workers \ rows  PROVE RowShape(r, new'[r], seq')
      <3>1. RowShape(r, new[r], seq) /\ new[r].batch \in Nat
        BY ShapeByRow DEF Shapes, TypeOK, Row
      <3> QED
        BY <1>1, <3>1 DEF RowShape
    <2>2. \A r \in Workers : RowShape(r, new'[r], seq')
      BY <2>1
    <2> QED
      BY <2>2 DEF Shape, RowShape, Workers
  <1>3. Main \notin rows => new'[Main] = new[Main]
    BY DEF Workers
  <1> QED
    BY <1>1, <1>2, <1>3 DEF Advances

\* A step that leaves the main row's cursor and every window where it is.
LEMMA KeepsByRow ==
    ASSUME TypeOK, NEW w \in Workers, NEW t \in Txn, NEW rows \in SUBSET Workers,
           Runs(w, t, rows), t.open,
           Current(w).finished \subseteq t.finished, Current(w).requeued \subseteq t.requeued,
           \A m \in Members : m \in rows \/ lock[m] = w => new'[m].window = new[m].window,
           new'[Main].last = new[Main].last, origin' = origin
    PROVE  Keeps(w, t, rows)
  <1>1. \A m \in Members, k \in 1 .. MaxTicks :
           (m \in rows \/ lock[m] = w) /\ new[m].window = k => Kept(w, k)'
    BY WindowStays
  <1>2. new[Main].last + 1 .. new'[Main].last = {}
    BY BoundsAssumption DEF TypeOK, Row, Workers
  <1> QED
    BY <1>1, <1>2 DEF Keeps

-----------------------------------------------------------------------------
(* Each statement preserves the invariant.                                 *)

LEMMA RowsAre ==
    ASSUME TypeOK, Shapes, NEW r \in Workers
    PROVE  /\ new[r] \in Row /\ new[r].batch \in Nat
           /\ new[r].window \in 0 .. MaxTicks /\ new[r].last \in 0 .. MaxTicks
           /\ RowShape(r, new[r], seq) /\ seq \in Nat \ {0} /\ MaxTicks \in Nat
           /\ tick \in 0 .. MaxTicks
  <1>1. RowShape(r, new[r], seq)
    BY ShapeByRow DEF Shapes
  <1> QED
    BY <1>1, BoundsAssumption DEF TypeOK, Row

LEMMA RowShapeGrows ==
    ASSUME NEW r, NEW x, NEW s \in Nat, x.batch \in Nat, RowShape(r, x, s)
    PROVE  RowShape(r, x, s + 1)
  BY DEF RowShape

LEMMA MainRowIs ==
    ASSUME TypeOK, Shapes, new[Main].role = "normal" => new[Main].batch = 0
    PROVE  /\ MainRow \in Row /\ MainRow.role = "coop_main"
           /\ MainRow.batch = 0 /\ MainRow.window = 0
           /\ MainRow.last = IF new[Main].role = "none" THEN tick ELSE new[Main].last
  <1>1. new[Main] \in Row /\ new[Main].batch = 0 /\ new[Main].window = 0
    BY RowsAre DEF RowShape, Workers
  <1>2. CASE new[Main].role = "none"
    <2> DEFINE r == [NoRow EXCEPT !.role = "coop_main"]
    <2>1. r \in Row /\ r.role = "coop_main" /\ r.batch = NoRow.batch /\ r.window = NoRow.window
      BY RoleIs, NoRowIs
    <2>2. NoRow.batch = 0 /\ NoRow.window = 0
      BY DEF NoRow
    <2>3. MainRow = [r EXCEPT !.last = tick]
      BY <1>2 DEF MainRow
    <2> HIDE DEF r
    <2>4. tick \in 0 .. MaxTicks
      BY DEF TypeOK
    <2> QED
      BY <1>2, <2>1, <2>2, <2>3, <2>4, LastIs
  <1>3. CASE new[Main].role # "none"
    <2> DEFINE r == [new[Main] EXCEPT !.role = "coop_main"]
    <2>1. /\ r \in Row /\ r.role = "coop_main" /\ r.last = new[Main].last
          /\ r.batch = new[Main].batch /\ r.window = new[Main].window
      BY <1>1, RoleIs
    <2>2. MainRow = r
      BY <1>3 DEF MainRow
    <2> HIDE DEF r
    <2> QED
      BY <1>1, <1>3, <2>1, <2>2
  <1> QED
    BY <1>2, <1>3

LEMMA RegisterStep ==
    ASSUME IInv, NEW w \in Workers, NEW convert \in BOOLEAN, Register(w, convert)
    PROVE  IInv'
  <1> DEFINE rows == {Main, w}
  <1>0. TypeOK /\ Shapes
    BY DEF IInv
  <1>1. /\ w \in Members /\ w # Main /\ Main \in Workers /\ rows \in SUBSET Workers
        /\ \A r \in rows : Free(w, r)
        /\ new[Main].role = "normal" => new[Main].batch = 0
    BY MainAssumption DEF Register, MayRegister, Workers
  <1>2. /\ Runs(w, Current(w), rows)
        /\ new' = [new EXCEPT ![Main] = MainRow, ![w] = MemberRow(w)]
        /\ origin' = IF new[Main].role = "none" THEN tick ELSE origin
        /\ UNCHANGED <<seq, demoting, faults, leaves>>
    BY DEF Register
  <1>3. new[w] \in Row /\ RowShape(w, new[w], seq) /\ new[Main] \in Row
        /\ RowShape(Main, new[Main], seq) /\ seq \in Nat \ {0}
    BY <1>0, <1>1, RowsAre
  <1>4. /\ new'[Main] = MainRow /\ new'[w] = MemberRow(w)
        /\ \A r \in Workers \ rows : new'[r] = new[r]
    BY <1>0, <1>1, <1>2 DEF TypeOK
  <1>5. /\ MemberRow(w) \in Row /\ MemberRow(w).role = "coop_member"
        /\ MemberRow(w).batch = new[w].batch /\ MemberRow(w).window = new[w].window
    BY <1>0, MemberRowIs
  <1>6. /\ MainRow \in Row /\ MainRow.role = "coop_main"
        /\ MainRow.batch = 0 /\ MainRow.window = 0
        /\ MainRow.last = IF new[Main].role = "none" THEN tick ELSE new[Main].last
    BY <1>0, <1>1, MainRowIs
  <1>7. Typed
    BY <1>0, <1>2, <1>5, <1>6 DEF Typed, TypeOK
  <1>8. RowShape(w, MemberRow(w), seq) /\ RowShape(Main, MainRow, seq)
    BY <1>1, <1>3, <1>5, <1>6, MainAssumption DEF RowShape
  <1>9. /\ Current(w) \in Txn /\ Current(w).open
        /\ Current(w).held.id < seq /\ (Current(w).held.id = 0 => Current(w).held = NoBatch)
    BY <1>0, CurrentIs
  <1>10. Advances(w, Current(w), rows)
    <2>1. \A r \in rows : RowShape(r, new'[r], seq')
                          /\ (new'[r].batch \in {0, new[r].batch} \/ (r = w /\ new'[r].batch = seq))
      BY <1>2, <1>4, <1>5, <1>6, <1>8
    <2>2. seq' = seq /\ new'[Main].role # "none"
      BY <1>2, <1>4, <1>6
    <2> HIDE DEF rows
    <2> QED
      BY <1>0, <1>1, <1>4, <1>9, <2>1, <2>2, AdvancesByRow
  <1>11. Keeps(w, Current(w), rows)
    <2>1. \A m \in Members, k \in 1 .. MaxTicks :
             (m \in rows \/ lock[m] = w) /\ new[m].window = k => Kept(w, k)'
      <3> SUFFICES ASSUME NEW m \in Members, m \in rows \/ lock[m] = w
                   PROVE  \A k \in 1 .. MaxTicks : new[m].window = k => Kept(w, k)'
        OBVIOUS
      <3>1. new'[m].window = new[m].window
        BY <1>4, <1>5, MainAssumption DEF Workers
      <3> HIDE DEF rows
      <3> QED
        BY <1>0, <1>1, <1>2, <1>9, <3>1, WindowStays
    <2>2. ASSUME NEW k \in new[Main].last + 1 .. new'[Main].last, k > origin'
          PROVE  FALSE
      <3>1. new[Main].last \in 0 .. MaxTicks /\ tick \in 0 .. MaxTicks /\ MaxTicks \in Nat
        BY <1>0, <1>1, RowsAre
      <3> QED
        BY <1>2, <1>4, <1>6, <2>2, <3>1
    <2>3. origin' = origin \/ (row[Main].last = 0 /\ new[Main].last = 0)
      <3>1. new[Main].role = "none" => row[Main].role = "none"
        BY <1>0 DEF Shapes
      <3> QED
        BY <1>0, <1>2, <3>1 DEF Shapes, Shape
    <2> QED
      BY <1>9, <2>1, <2>2, <2>3 DEF Keeps
  <1> HIDE DEF rows
  <1> QED
    BY <1>1, <1>2, <1>7, <1>9, <1>10, <1>11, RunsStep

LEMMA MayReceiveIs ==
    ASSUME TypeOK, Shapes, NEW w \in Workers, MayReceive(w)
    PROVE  /\ w \in Members /\ w # Main /\ Main \in Workers
           /\ Free(w, Main) /\ Free(w, w)
           /\ new[Main].role = "coop_main" /\ new[Main].batch = 0 /\ new[Main].window = 0
  <1>1. /\ w \in Members /\ w # Main /\ Main \in Workers /\ Free(w, Main) /\ Free(w, w)
        /\ new[Main].role \notin {"normal", "none"}
    BY MainAssumption DEF MayReceive, MayRegister, Workers
  <1>2. new[Main] \in Row /\ RowShape(Main, new[Main], seq)
    BY <1>1, RowsAre
  <1> QED
    BY <1>1, <1>2 DEF RowShape, Row

LEMMA ReceiveAgainStep == ASSUME IInv, NEW w \in Workers, ReceiveAgain(w)  PROVE IInv'
  <1> DEFINE rows == {Main, w}
             b    == [id |-> new[w].batch, window |-> new[w].window]
             t    == [Current(w) EXCEPT !.held = b]
  <1>0. TypeOK /\ Shapes
    BY DEF IInv
  <1>1. /\ w \in Members /\ w # Main /\ Main \in Workers /\ rows \in SUBSET Workers
        /\ \A r \in rows : Free(w, r)
    BY <1>0, MayReceiveIs DEF ReceiveAgain
  <1>2. /\ Runs(w, t, rows)
        /\ new' = [new EXCEPT ![w] = MemberRow(w)]
        /\ UNCHANGED <<seq, demoting, origin, faults, leaves>> /\ new[w].batch # 0
    BY DEF ReceiveAgain, bounds
  <1>3. /\ new[w].batch \in Nat /\ new[w].window \in 0 .. MaxTicks /\ seq \in Nat
        /\ RowShape(w, new[w], seq) /\ RowShape(Main, new[Main], seq)
    BY <1>0, <1>1, RowsAre
  <1>4. new'[w] = MemberRow(w) /\ \A r \in Workers \ {w} : new'[r] = new[r]
    BY <1>0, <1>1, <1>2 DEF TypeOK
  <1>5. /\ MemberRow(w) \in Row /\ MemberRow(w).role = "coop_member"
        /\ MemberRow(w).batch = new[w].batch /\ MemberRow(w).window = new[w].window
    BY <1>0, MemberRowIs
  <1>6. Current(w) \in Txn /\ Current(w).open
    BY <1>0, CurrentIs
  <1>7. b \in Batch /\ b.id = new[w].batch
    BY <1>3 DEF Batch
  <1> HIDE DEF b
  <1>8. /\ t \in Txn /\ t.open /\ t.held = b
        /\ t.finished = Current(w).finished /\ t.requeued = Current(w).requeued
    BY <1>6, <1>7, HeldIs
  <1> HIDE DEF t
  <1>9. Typed
    BY <1>0, <1>2, <1>5 DEF Typed, TypeOK
  <1>10. Advances(w, t, rows)
    <2>1. RowShape(w, MemberRow(w), seq)
      BY <1>1, <1>3, <1>5 DEF RowShape
    <2>2. \A r \in rows : RowShape(r, new'[r], seq') /\ new'[r].batch \in {0, new[r].batch}
      BY <1>1, <1>2, <1>3, <1>4, <1>5, <2>1
    <2>3. \A r \in Workers \ rows : new'[r] = new[r]
      BY <1>4
    <2>4. new'[Main] = new[Main]
      BY <1>1, <1>4
    <2>5. t.held.id < seq' /\ t.held.id # 0 /\ t.held.id = new[w].batch
      BY <1>2, <1>3, <1>7, <1>8 DEF RowShape
    <2> HIDE DEF rows
    <2> QED
      BY <1>0, <1>1, <1>2, <1>8, <2>2, <2>3, <2>4, <2>5, AdvancesByRow
  <1>11. Keeps(w, t, rows)
    <2>1. \A m \in Workers : new'[m].window = new[m].window
      BY <1>4, <1>5
    <2>2. new'[Main].last = new[Main].last
      BY <1>1, <1>4
    <2> HIDE DEF rows
    <2> QED
      BY <1>0, <1>1, <1>2, <1>8, <2>1, <2>2, KeepsByRow DEF Workers
  <1> HIDE DEF rows
  <1> QED
    BY <1>1, <1>2, <1>8, <1>9, <1>10, <1>11, RunsStep

LEMMA TakeOverStep ==
    ASSUME IInv, NEW w \in Workers, NEW victim \in Members, TakeOver(w, victim)
    PROVE  IInv'
  <1> DEFINE rows == {Main, w, victim}
             b    == FreshId(victim)
             t    == [Current(w) EXCEPT !.held = b]
  <1>0. TypeOK /\ Shapes
    BY DEF IInv
  <1>1. /\ w \in Members /\ w # Main /\ Main \in Workers /\ victim \in Workers
        /\ victim # w /\ victim # Main /\ rows \in SUBSET Workers
        /\ \A r \in rows : Free(w, r)
    BY <1>0, MayReceiveIs, MainAssumption DEF TakeOver, Victim, Workers
  <1>2. /\ Runs(w, t, rows)
        /\ new' = [new EXCEPT ![w] = Holds(MemberRow(w), b), ![victim] = Cleared(@)]
        /\ UNCHANGED <<demoting, origin, faults, leaves>> /\ seq' = seq + 1
        /\ new[w].batch = 0 /\ new[victim].batch # 0
    BY DEF TakeOver, Victim, bounds
  <1>3. /\ new[victim] \in Row /\ new[victim].window \in 0 .. MaxTicks /\ seq \in Nat \ {0}
        /\ RowShape(w, new[w], seq) /\ RowShape(victim, new[victim], seq)
        /\ RowShape(Main, new[Main], seq) /\ new[Main].batch \in Nat
    BY <1>0, <1>1, RowsAre
  <1>4. b \in Batch /\ b.id = seq /\ b.window = new[victim].window
    BY <1>3 DEF Batch, FreshId
  <1> HIDE DEF b
  <1>5. /\ MemberRow(w) \in Row /\ MemberRow(w).role = "coop_member"
    BY <1>0, MemberRowIs
  <1>6. /\ new'[w] = Holds(MemberRow(w), b) /\ new'[victim] = Cleared(new[victim])
        /\ \A r \in Workers \ {w, victim} : new'[r] = new[r]
    BY <1>0, <1>1, <1>2 DEF TypeOK
  <1>7. /\ new'[w] \in Row /\ new'[w].role = "coop_member"
        /\ new'[w].batch = seq /\ new'[w].window = new[victim].window
    BY <1>4, <1>5, <1>6, HoldsIs
  <1>8. /\ new'[victim] \in Row /\ new'[victim].role = new[victim].role
        /\ new'[victim].batch = 0 /\ new'[victim].window = 0
    BY <1>3, <1>6, ClearedIs
  <1>9. Current(w) \in Txn /\ Current(w).open
    BY <1>0, CurrentIs
  <1>10. /\ t \in Txn /\ t.open /\ t.held = b
         /\ t.finished = Current(w).finished /\ t.requeued = Current(w).requeued
    BY <1>4, <1>9, HeldIs
  <1> HIDE DEF t
  <1>11. Typed
    <2>1. new' \in [Workers -> Row]
      BY <1>0, <1>1, <1>2, <1>6, <1>7, <1>8 DEF TypeOK
    <2> QED
      BY <1>0, <1>2, <2>1 DEF Typed, TypeOK
  <1>12. Advances(w, t, rows)
    <2>1. RowShape(w, new'[w], seq') /\ RowShape(victim, new'[victim], seq')
      BY <1>1, <1>2, <1>3, <1>7, <1>8, MainAssumption DEF RowShape
    <2>2. RowShape(Main, new'[Main], seq') /\ new'[Main] = new[Main]
      <3>1. new'[Main] = new[Main]
        BY <1>1, <1>6
      <3>2. RowShape(Main, new[Main], seq + 1)
        BY <1>3, RowShapeGrows
      <3> QED
        BY <1>2, <3>1, <3>2
    <2>3. \A r \in rows : RowShape(r, new'[r], seq')
                          /\ (new'[r].batch \in {0, new[r].batch} \/ (r = w /\ new'[r].batch = seq))
      BY <1>7, <1>8, <2>1, <2>2
    <2>4. \A r \in Workers \ rows : new'[r] = new[r]
      BY <1>6
    <2>5. t.held.id < seq' /\ t.held.id # 0 /\ t.held.id = seq
      BY <1>2, <1>3, <1>4, <1>10
    <2> HIDE DEF rows
    <2> QED
      BY <1>0, <1>1, <1>2, <1>10, <2>2, <2>3, <2>4, <2>5, AdvancesByRow
  <1>13. Keeps(w, t, rows)
    <2>1. \A m \in Members, k \in 1 .. MaxTicks :
             (m \in rows \/ lock[m] = w) /\ new[m].window = k => Kept(w, k)'
      <3> SUFFICES ASSUME NEW m \in Members, m \in rows \/ lock[m] = w,
                          NEW k \in 1 .. MaxTicks, new[m].window = k
                   PROVE  Kept(w, k)'
        OBVIOUS
      <3>1. CASE m = w
        BY <1>2, <1>3, <3>1 DEF RowShape
      <3>2. CASE m = victim
        <4>1. lock'[w] = w
          BY <1>0, <1>2 DEF Runs, TypeOK
        <4> QED
          BY <1>1, <1>7, <3>2, <4>1 DEF Kept
      <3>3. CASE m \notin {w, victim}
        <4>1. new'[m].window = new[m].window
          BY <1>6, <3>3 DEF Workers
        <4> HIDE DEF rows
        <4> QED
          BY <1>0, <1>1, <1>2, <1>10, <4>1, WindowStays
      <3> QED
        BY <3>1, <3>2, <3>3
    <2>2. new'[Main].last = new[Main].last /\ new[Main].last \in 0 .. MaxTicks
      BY <1>0, <1>1, <1>6, RowsAre
    <2>3. new[Main].last + 1 .. new'[Main].last = {}
      BY <2>2
    <2> HIDE DEF rows
    <2> QED
      BY <1>2, <1>10, <2>1, <2>2, <2>3 DEF Keeps
  <1> HIDE DEF rows
  <1> QED
    BY <1>1, <1>2, <1>10, <1>11, <1>12, <1>13, RunsStep

LEMMA ReceiveNextStep == ASSUME IInv, NEW w \in Workers, ReceiveNext(w)  PROVE IInv'
  <1> DEFINE rows == {Main, w}
             k    == new[Main].last + 1
             b    == NextBatch(k)
             t    == [Current(w) EXCEPT !.held = b]
  <1>0. TypeOK /\ Shapes
    BY DEF IInv
  <1>1. /\ w \in Members /\ w # Main /\ Main \in Workers /\ rows \in SUBSET Workers
        /\ \A r \in rows : Free(w, r)
        /\ new[Main].role = "coop_main" /\ new[Main].batch = 0 /\ new[Main].window = 0
    BY <1>0, MayReceiveIs DEF ReceiveNext
  <1>2. /\ Runs(w, t, rows)
        /\ new' = [new EXCEPT ![Main].last = k, ![w] = Holds(MemberRow(w), b)]
        /\ UNCHANGED <<demoting, origin, faults, leaves>> /\ seq' = seq + 1
        /\ new[w].batch = 0 /\ k <= tick
    BY DEF ReceiveNext, bounds
  <1>3. /\ new[Main] \in Row /\ seq \in Nat \ {0} /\ new[Main].last \in Nat
        /\ RowShape(w, new[w], seq) /\ k \in 1 .. MaxTicks /\ k \in 0 .. MaxTicks
    BY <1>0, <1>1, <1>2, RowsAre
  <1>4. b \in Batch /\ (b = NoBatch \/ (k \notin empty /\ b.id = seq /\ b.window = k))
        /\ (b = NoBatch => k \in empty)
    BY <1>3, NoRowIs DEF Batch, NextBatch, NoBatch
  <1>5. NoBatch.id = 0 /\ NoBatch.window = 0
    BY DEF NoBatch
  <1>6. k = new[Main].last + 1
    OBVIOUS
  <1> HIDE DEF b, k
  <1>7. MemberRow(w) \in Row /\ MemberRow(w).role = "coop_member"
    BY <1>0, MemberRowIs
  <1> DEFINE main == [new[Main] EXCEPT !.last = k]
  <1>8. /\ main \in Row /\ main.last = k /\ main.role = "coop_main"
        /\ main.batch = 0 /\ main.window = 0
    BY <1>1, <1>3, LastIs
  <1>9. /\ new' = [new EXCEPT ![Main] = main, ![w] = Holds(MemberRow(w), b)]
    BY <1>2
  <1> HIDE DEF main
  <1>10. /\ new'[w] = Holds(MemberRow(w), b) /\ new'[Main] = main
         /\ \A r \in Workers \ rows : new'[r] = new[r]
    BY <1>0, <1>1, <1>9 DEF TypeOK
  <1>11. /\ new'[w] \in Row /\ new'[w].role = "coop_member"
         /\ new'[w].batch = b.id /\ new'[w].window = b.window
    BY <1>4, <1>7, <1>10, HoldsIs
  <1>12. Current(w) \in Txn /\ Current(w).open
    BY <1>0, CurrentIs
  <1>13. /\ t \in Txn /\ t.open /\ t.held = b
         /\ t.finished = Current(w).finished /\ t.requeued = Current(w).requeued
    BY <1>4, <1>12, HeldIs
  <1> HIDE DEF t
  <1>14. Typed
    <2>1. new' \in [Workers -> Row]
      BY <1>0, <1>1, <1>8, <1>9, <1>10, <1>11 DEF TypeOK
    <2> QED
      BY <1>0, <1>2, <2>1 DEF Typed, TypeOK
  <1>15. Advances(w, t, rows)
    <2>1. RowShape(w, new'[w], seq')
      BY <1>1, <1>2, <1>3, <1>4, <1>5, <1>11 DEF RowShape
    <2>2. RowShape(Main, new'[Main], seq') /\ new'[Main].role # "none"
      BY <1>2, <1>3, <1>8, <1>10, MainAssumption DEF RowShape
    <2>3. \A r \in rows : RowShape(r, new'[r], seq')
                          /\ (new'[r].batch \in {0, new[r].batch} \/ (r = w /\ new'[r].batch = seq))
      BY <1>4, <1>5, <1>8, <1>10, <1>11, <2>1, <2>2
    <2>4. t.held.id < seq' /\ (t.held.id = 0 => t.held = NoBatch) /\ t.held.id \in {0, seq}
      BY <1>2, <1>3, <1>4, <1>5, <1>13
    <2> HIDE DEF rows
    <2> QED
      BY <1>0, <1>1, <1>2, <1>10, <1>13, <2>2, <2>3, <2>4, AdvancesByRow
  <1>16. Keeps(w, t, rows)
    <2>1. \A m \in Members, j \in 1 .. MaxTicks :
             (m \in rows \/ lock[m] = w) /\ new[m].window = j => Kept(w, j)'
      <3> SUFFICES ASSUME NEW m \in Members, m \in rows \/ lock[m] = w,
                          NEW j \in 1 .. MaxTicks, new[m].window = j
                   PROVE  Kept(w, j)'
        OBVIOUS
      <3>1. CASE m = w
        BY <1>2, <1>3, <3>1 DEF RowShape
      <3>2. CASE m # w
        <4>1. new'[m].window = new[m].window
          BY <1>10, <3>2, MainAssumption DEF Workers
        <4> HIDE DEF rows
        <4> QED
          BY <1>0, <1>1, <1>2, <1>13, <4>1, WindowStays
      <3> QED
        BY <3>1, <3>2
    <2>2. \A j \in new[Main].last + 1 .. new'[Main].last : j = k
      BY <1>3, <1>6, <1>8, <1>10
    <2>3. lock'[w] = w /\ empty' = empty
      BY <1>0, <1>2 DEF Runs, TypeOK, log
    <2>4. \A j \in new[Main].last + 1 .. new'[Main].last : Kept(w, j)'
      <3> SUFFICES ASSUME NEW j, j = k  PROVE Kept(w, j)'
        BY <2>2
      <3>1. CASE j \in empty
        BY <2>3, <3>1 DEF Kept, Settled
      <3>2. CASE j \notin empty
        BY <1>1, <1>4, <1>11, <2>3, <3>2 DEF Kept
      <3> QED
        BY <3>1, <3>2
    <2>5. Main \in rows /\ origin' = origin
      BY <1>2
    <2> HIDE DEF rows
    <2> QED
      BY <1>13, <2>1, <2>4, <2>5 DEF Keeps
  <1> HIDE DEF rows
  <1> QED
    BY <1>1, <1>2, <1>13, <1>14, <1>15, <1>16, RunsStep

LEMMA PlainReceiveAgainStep == ASSUME IInv, PlainReceiveAgain  PROVE IInv'
  <1> DEFINE rows == {Main}
             b    == [id |-> new[Main].batch, window |-> new[Main].window]
             t    == [Current(Main) EXCEPT !.held = b]
  <1>0. TypeOK /\ Shapes
    BY DEF IInv
  <1>1. Main \in Workers /\ rows \in SUBSET Workers /\ \A r \in rows : Free(Main, r)
    BY DEF PlainReceiveAgain, MayReceivePlainly, Workers
  <1>2. /\ Runs(Main, t, rows) /\ new[Main].batch # 0
        /\ UNCHANGED <<new, seq, demoting, origin, faults, leaves>>
    BY DEF PlainReceiveAgain, bounds
  <1>3. /\ new[Main].batch \in Nat /\ new[Main].window \in 0 .. MaxTicks
        /\ RowShape(Main, new[Main], seq)
    BY <1>0, <1>1, RowsAre
  <1>4. b \in Batch /\ b.id = new[Main].batch
    BY <1>3 DEF Batch
  <1> HIDE DEF b
  <1>5. Current(Main) \in Txn /\ Current(Main).open
    BY <1>0, <1>1, CurrentIs
  <1>6. /\ t \in Txn /\ t.open /\ t.held = b
        /\ t.finished = Current(Main).finished /\ t.requeued = Current(Main).requeued
    BY <1>4, <1>5, HeldIs
  <1> HIDE DEF t
  <1>7. Typed
    BY <1>0, <1>2 DEF Typed, TypeOK
  <1>8. Advances(Main, t, rows)
    <2>1. \A r \in rows : RowShape(r, new'[r], seq') /\ new'[r].batch \in {0, new[r].batch}
      BY <1>2, <1>3
    <2>2. t.held.id < seq' /\ t.held.id # 0 /\ t.held.id = new[Main].batch
      BY <1>2, <1>3, <1>4, <1>6 DEF RowShape
    <2> HIDE DEF rows
    <2> QED
      BY <1>0, <1>1, <1>2, <1>6, <2>1, <2>2, AdvancesByRow
  <1>9. Keeps(Main, t, rows)
    <2> HIDE DEF rows
    <2> QED
      BY <1>0, <1>1, <1>2, <1>6, KeepsByRow
  <1> HIDE DEF rows
  <1> QED
    BY <1>1, <1>2, <1>6, <1>7, <1>8, <1>9, RunsStep

LEMMA PlainReceiveNextStep == ASSUME IInv, PlainReceiveNext  PROVE IInv'
  <1> DEFINE rows == {Main}
             k    == new[Main].last + 1
             b    == NextBatch(k)
             t    == [Current(Main) EXCEPT !.held = b]
             main == IF k \in empty THEN [new[Main] EXCEPT !.last = k] ELSE Holds(new[Main], b)
  <1>0. TypeOK /\ Shapes
    BY DEF IInv
  <1>1. /\ Main \in Workers /\ rows \in SUBSET Workers /\ \A r \in rows : Free(Main, r)
        /\ new[Main].role = "normal"
    BY DEF PlainReceiveNext, MayReceivePlainly, Workers
  <1>2. /\ Runs(Main, t, rows)
        /\ new' = [new EXCEPT ![Main] = main]
        /\ UNCHANGED <<demoting, origin, faults, leaves>> /\ seq' = seq + 1
        /\ new[Main].batch = 0 /\ k <= tick
    BY DEF PlainReceiveNext, bounds
  <1>3. /\ new[Main] \in Row /\ seq \in Nat \ {0} /\ new[Main].last \in Nat
        /\ new[Main].window = 0 /\ k \in 1 .. MaxTicks /\ k \in 0 .. MaxTicks
    BY <1>0, <1>1, <1>2, RowsAre DEF RowShape
  <1>4. b \in Batch /\ (b = NoBatch \/ (k \notin empty /\ b.id = seq /\ b.window = k))
        /\ (b = NoBatch <=> k \in empty)
    BY <1>3, NoRowIs DEF Batch, NextBatch, NoBatch
  <1>5. NoBatch.id = 0 /\ NoBatch.window = 0
    BY DEF NoBatch
  <1>6. k = new[Main].last + 1
    OBVIOUS
  <1> HIDE DEF b, k
  <1>7. /\ main \in Row /\ main.role = "normal" /\ main.batch = b.id /\ main.window = b.window
        /\ main.last = IF k \in empty THEN k ELSE new[Main].last
    <2> DEFINE moved == [new[Main] EXCEPT !.last = k]
    <2>1. /\ moved \in Row /\ moved.last = k /\ moved.role = "normal"
          /\ moved.batch = 0 /\ moved.window = 0
      BY <1>1, <1>2, <1>3, LastIs
    <2>2. main = IF k \in empty THEN moved ELSE Holds(new[Main], b)
      OBVIOUS
    <2> HIDE DEF moved, main
    <2> QED
      BY <1>1, <1>3, <1>4, <1>5, <2>1, <2>2, HoldsIs
  <1> HIDE DEF main
  <1>8. new'[Main] = main /\ \A r \in Workers \ rows : new'[r] = new[r]
    BY <1>0, <1>1, <1>2 DEF TypeOK
  <1>9. Current(Main) \in Txn /\ Current(Main).open
    BY <1>0, <1>1, CurrentIs
  <1>10. /\ t \in Txn /\ t.open /\ t.held = b
         /\ t.finished = Current(Main).finished /\ t.requeued = Current(Main).requeued
    BY <1>4, <1>9, HeldIs
  <1> HIDE DEF t
  <1>11. Typed
    <2>1. new' \in [Workers -> Row]
      BY <1>0, <1>2, <1>7 DEF TypeOK
    <2> QED
      BY <1>0, <1>2, <2>1 DEF Typed, TypeOK
  <1>12. Advances(Main, t, rows)
    <2>1. RowShape(Main, new'[Main], seq')
      <3>1. b.id < seq' /\ (b.id = 0 <=> b.window = 0) /\ (b.id # 0 => b.window = k /\ k \notin empty)
        BY <1>2, <1>3, <1>4, <1>5
      <3> QED
        BY <1>6, <1>7, <1>8, <3>1, MainAssumption DEF RowShape
    <2>2. \A r \in rows : RowShape(r, new'[r], seq') /\ new'[r].batch \in {0, seq}
      BY <1>4, <1>5, <1>7, <1>8, <2>1
    <2>3. new'[Main].role # "none"
      BY <1>7, <1>8
    <2>4. t.held.id < seq' /\ (t.held.id = 0 => t.held = NoBatch) /\ t.held.id \in {0, seq}
      BY <1>2, <1>3, <1>4, <1>5, <1>10
    <2>5. \A r \in rows : r = Main
      OBVIOUS
    <2> HIDE DEF rows
    <2> QED
      BY <1>0, <1>1, <1>2, <1>8, <1>10, <2>2, <2>3, <2>4, <2>5, AdvancesByRow
  <1>13. Keeps(Main, t, rows)
    <2>1. \A m \in Members, j \in 1 .. MaxTicks :
             (m \in rows \/ lock[m] = Main) /\ new[m].window = j => Kept(Main, j)'
      <3> SUFFICES ASSUME NEW m \in Members, m \in rows \/ lock[m] = Main
                   PROVE  \A j \in 1 .. MaxTicks : new[m].window = j => Kept(Main, j)'
        OBVIOUS
      <3>1. new'[m].window = new[m].window
        BY <1>8, MainAssumption DEF Workers
      <3> HIDE DEF rows
      <3> QED
        BY <1>0, <1>1, <1>2, <1>10, <3>1, WindowStays
    <2>2. \A j \in new[Main].last + 1 .. new'[Main].last : j = k /\ k \in empty
      BY <1>3, <1>6, <1>7, <1>8
    <2>3. empty' = empty
      BY <1>2 DEF Runs, log
    <2>4. \A j \in new[Main].last + 1 .. new'[Main].last : Kept(Main, j)'
      <3> SUFFICES ASSUME NEW j \in empty  PROVE Kept(Main, j)'
        BY <2>2
      <3> QED
        BY <2>3 DEF Kept, Settled
    <2>5. Main \in rows /\ origin' = origin
      BY <1>2
    <2> HIDE DEF rows
    <2> QED
      BY <1>10, <2>1, <2>4, <2>5 DEF Keeps
  <1> HIDE DEF rows
  <1> QED
    BY <1>1, <1>2, <1>10, <1>11, <1>12, <1>13, RunsStep

\* A statement that writes no row of the table.
LEMMA NothingWritten ==
    ASSUME IInv, NEW w \in Workers, NEW t \in Txn, Runs(w, t, {}),
           UNCHANGED <<new, seq, demoting, bounds>>, t.open,
           Current(w).finished \subseteq t.finished, Current(w).requeued \subseteq t.requeued,
           t.held \in {Current(w).held, NoBatch}
    PROVE  IInv'
  <1> DEFINE rows == {}
  <1>0. TypeOK /\ Shapes /\ rows \in SUBSET Workers
    BY DEF IInv
  <1>1. Typed
    BY <1>0 DEF Typed, TypeOK, bounds
  <1>2. t.held.id < seq' /\ (t.held.id = 0 => t.held = NoBatch)
        /\ t.held.id \in {0, Current(w).held.id}
    <2>1. NoBatch.id = 0 /\ 0 < seq
      BY <1>0 DEF NoBatch, TypeOK
    <2> QED
      BY <1>0, <2>1, CurrentIs
  <1>3. \A r \in rows : FALSE
    OBVIOUS
  <1>4. Main \in Workers /\ origin' = origin
    BY DEF Workers, bounds
  <1> HIDE DEF rows
  <1>5. Runs(w, t, rows)
    BY DEF rows
  <1>6. Advances(w, t, rows)
    BY <1>0, <1>2, <1>3, <1>5, AdvancesByRow
  <1>7. Keeps(w, t, rows)
    BY <1>0, <1>3, <1>4, <1>5, KeepsByRow
  <1> QED
    BY <1>0, <1>1, <1>5, <1>6, <1>7, RunsStep

LEMMA NackStep == ASSUME IInv, NEW w \in Workers, Nack(w)  PROVE IInv'
  <1>0. TypeOK /\ Shapes
    BY DEF IInv
  <1>1. PICK r \in Workers :
           Owner(w, r) /\ Runs(w, [Current(w) EXCEPT !.requeued = @ \cup {Seen(w, r).window}], {})
    BY DEF Nack
  <1>2. Current(w).held # NoBatch /\ UNCHANGED <<new, seq, demoting, bounds>>
    BY DEF Nack
  <1>3. /\ Current(w) \in Txn /\ Current(w).open /\ Current(w).held.id # 0
    BY <1>0, <1>2, CurrentIs
  <1>4. Seen(w, r).window \in 1 .. MaxTicks
    <2>1. Seen(w, r) \in {row[r], new[r]} /\ Seen(w, r).batch # 0
      BY <1>1, <1>3 DEF Seen, Owner
    <2>2. row[r] \in Row /\ new[r] \in Row
      BY <1>0 DEF TypeOK
    <2>3. Seen(w, r).window # 0
      BY <1>0, <2>1 DEF Shapes, Shape
    <2> QED
      BY <2>1, <2>2, <2>3, BoundsAssumption DEF Row
  <1> DEFINE t == [Current(w) EXCEPT !.requeued = @ \cup {Seen(w, r).window}]
  <1>5. /\ t \in Txn /\ t.open = Current(w).open /\ t.held = Current(w).held
        /\ t.finished = Current(w).finished
        /\ t.requeued = Current(w).requeued \cup {Seen(w, r).window}
    BY <1>3, <1>4, RequeuedIs
  <1>6. Runs(w, t, {})
    BY <1>1
  <1> HIDE DEF t
  <1> QED
    BY <1>2, <1>3, <1>5, <1>6, NothingWritten

LEMMA AckTooLateStep == ASSUME IInv, NEW w \in Workers, AckTooLate(w)  PROVE IInv'
  <1> DEFINE t == [Current(w) EXCEPT !.held = NoBatch]
  <1>0. TypeOK /\ Shapes
    BY DEF IInv
  <1>1. Runs(w, t, {}) /\ UNCHANGED <<new, seq, demoting, bounds>>
    BY DEF AckTooLate
  <1>2. Current(w) \in Txn /\ Current(w).open
    BY <1>0, CurrentIs
  <1>3. /\ t \in Txn /\ t.open = Current(w).open /\ t.held = NoBatch
        /\ t.finished = Current(w).finished /\ t.requeued = Current(w).requeued
    BY <1>2, NoRowIs, HeldIs
  <1> HIDE DEF t
  <1> QED
    BY <1>1, <1>2, <1>3, NothingWritten

LEMMA FinishIs ==
    ASSUME TypeOK, Shapes, NEW r \in Workers, new[r].batch # 0
    PROVE  /\ new[r].window \in 1 .. MaxTicks
           /\ Finish(r) \in Row /\ Finish(r).batch = 0 /\ Finish(r).window = 0
           /\ Finish(r).role = new[r].role
           /\ r = Main => Finish(r).role = "normal" /\ Finish(r).last = new[r].window
                          /\ new[r].window = new[r].last + 1
  <1>1. /\ new[r] \in Row /\ RowShape(r, new[r], seq)
        /\ new[r].window \in 0 .. MaxTicks /\ MaxTicks \in Nat
    BY RowsAre
  <1>2. new[r].window \in 1 .. MaxTicks
    BY <1>1 DEF RowShape
  <1> DEFINE c == Cleared(new[r])
  <1>3. c \in Row /\ c.batch = 0 /\ c.window = 0 /\ c.role = new[r].role
    BY <1>1, ClearedIs
  <1>4. Finish(r) = IF new[r].role = "coop_member" THEN c ELSE [c EXCEPT !.last = new[r].window]
    BY DEF Finish
  <1> HIDE DEF c
  <1> DEFINE d == [c EXCEPT !.last = new[r].window]
  <1>5. d \in Row /\ d.batch = 0 /\ d.window = 0 /\ d.role = new[r].role /\ d.last = new[r].window
    BY <1>1, <1>3, LastIs
  <1>6. Finish(r) = IF new[r].role = "coop_member" THEN c ELSE d
    BY <1>4
  <1> HIDE DEF d
  <1>7. r = Main => new[r].role = "normal" /\ new[r].window = new[r].last + 1
    BY <1>1 DEF RowShape
  <1> QED
    BY <1>2, <1>3, <1>5, <1>6, <1>7

LEMMA AckStep == ASSUME IInv, NEW w \in Workers, Ack(w)  PROVE IInv'
  <1>0. TypeOK /\ Shapes /\ Unlocked
    BY DEF IInv
  <1>1. PICK r \in Workers :
           /\ Owner(w, r) /\ Free(w, r) /\ new[r].role # "coop_main"
           /\ Runs(w, [Current(w) EXCEPT !.held = NoBatch,
                                         !.finished = @ \cup {new[r].window}], {r})
           /\ new' = [new EXCEPT ![r] = Finish(r)]
    BY DEF Ack
  <1> DEFINE rows == {r}
             k    == new[r].window
             t    == [Current(w) EXCEPT !.held = NoBatch, !.finished = @ \cup {k}]
  <1>2. /\ Current(w).held # NoBatch
        /\ UNCHANGED <<seq, demoting, origin, faults, leaves>>
    BY DEF Ack, bounds
  <1>3. Current(w) \in Txn /\ Current(w).open /\ Current(w).held.id # 0
    BY <1>0, <1>2, CurrentIs
  <1>4. new[r].batch # 0
    BY <1>0, <1>1, <1>3 DEF Owner, Seen, Free, Unlocked
  <1>5. /\ k \in 1 .. MaxTicks
        /\ Finish(r) \in Row /\ Finish(r).batch = 0 /\ Finish(r).window = 0
        /\ Finish(r).role = new[r].role
        /\ r = Main => Finish(r).role = "normal" /\ Finish(r).last = k
                       /\ k = new[r].last + 1
    BY <1>0, <1>4, FinishIs
  <1>6. /\ t \in Txn /\ t.open = Current(w).open /\ t.held = NoBatch
        /\ t.finished = Current(w).finished \cup {k} /\ t.requeued = Current(w).requeued
    <2>1. k \in 1 .. MaxTicks /\ NoBatch \in Batch
      BY <1>5, NoRowIs
    <2> HIDE DEF k
    <2> QED
      BY <1>3, <2>1 DEF Txn
  <1>7. Runs(w, t, rows) /\ rows \in SUBSET Workers /\ \A q \in rows : Free(w, q)
    BY <1>1
  <1> HIDE DEF t
  <1>8. new'[r] = Finish(r) /\ \A q \in Workers \ rows : new'[q] = new[q]
    BY <1>0, <1>1 DEF TypeOK
  <1>9. Typed
    <2>1. new' \in [Workers -> Row]
      BY <1>0, <1>1, <1>5 DEF TypeOK
    <2> QED
      BY <1>0, <1>2, <2>1 DEF Typed, TypeOK
  <1>10. Advances(w, t, rows)
    <2>1. RowShape(r, Finish(r), seq)
      BY <1>0, <1>5 DEF RowShape, TypeOK
    <2>2. \A q \in rows : RowShape(q, new'[q], seq') /\ new'[q].batch = 0
      BY <1>2, <1>5, <1>8, <2>1
    <2>3. Main \in rows => new'[Main].role # "none"
      BY <1>5, <1>8
    <2>4. t.held.id < seq' /\ t.held.id = 0
      BY <1>0, <1>2, <1>6 DEF NoBatch, TypeOK
    <2> HIDE DEF rows
    <2> QED
      BY <1>0, <1>2, <1>6, <1>7, <1>8, <2>2, <2>3, <2>4, AdvancesByRow
  <1>11. Keeps(w, t, rows)
    <2>1. ASSUME NEW j, j = k  PROVE Kept(w, j)'
      <3>1. txn'[w] = t
        BY <1>0, <1>6, <1>7, RunsLocks
      <3> QED
        BY <1>6, <2>1, <3>1 DEF Kept
    <2>2. \A m \in Members, j \in 1 .. MaxTicks :
             (m \in rows \/ lock[m] = w) /\ new[m].window = j => Kept(w, j)'
      <3> SUFFICES ASSUME NEW m \in Members, m \in rows \/ lock[m] = w,
                          NEW j \in 1 .. MaxTicks, new[m].window = j
                   PROVE  Kept(w, j)'
        OBVIOUS
      <3>1. CASE m = r
        BY <2>1, <3>1
      <3>2. CASE m # r
        <4>1. new'[m].window = new[m].window
          BY <1>8, <3>2 DEF Workers
        <4> HIDE DEF rows
        <4> QED
          BY <1>0, <1>6, <1>7, <4>1, WindowStays
      <3> QED
        BY <3>1, <3>2
    <2>3. Main \in rows =>
             \A j \in new[Main].last + 1 .. new'[Main].last : j > origin' => Kept(w, j)'
      <3> SUFFICES ASSUME r = Main, NEW j \in new[Main].last + 1 .. new'[Main].last
                   PROVE  Kept(w, j)'
        OBVIOUS
      <3>1. new[Main].last \in 0 .. MaxTicks /\ MaxTicks \in Nat
        BY <1>0, RowsAre
      <3>2. j = k
        BY <1>5, <1>8, <3>1
      <3> QED
        BY <2>1, <3>2
    <2>4. Main \notin rows => new'[Main].last = new[Main].last
      BY <1>8 DEF Workers
    <2> HIDE DEF rows, k
    <2> QED
      BY <1>2, <1>3, <1>6, <2>2, <2>3, <2>4 DEF Keeps
  <1> HIDE DEF rows
  <1> QED
    BY <1>6, <1>7, <1>9, <1>10, <1>11, RunsStep

LEMMA TouchStep == ASSUME IInv, NEW w \in Workers, Touch(w)  PROVE IInv'
  <1> DEFINE rows  == {w}
             fresh == [new[w] EXCEPT !.stale = FALSE]
  <1>0. TypeOK /\ Shapes
    BY DEF IInv
  <1>1. /\ Free(w, w) /\ new[w].role = "coop_member" /\ Main \in Workers
        /\ Runs(w, Current(w), rows) /\ new' = [new EXCEPT ![w] = fresh]
        /\ UNCHANGED <<seq, demoting, origin, faults, leaves>>
        /\ rows \in SUBSET Workers /\ \A r \in rows : Free(w, r)
    BY DEF Touch, bounds, Workers
  <1>2. new[w] \in Row /\ RowShape(w, new[w], seq)
    BY <1>0, RowsAre
  <1>3. /\ fresh \in Row /\ fresh.role = new[w].role /\ fresh.last = new[w].last
        /\ fresh.batch = new[w].batch /\ fresh.window = new[w].window
    BY <1>2, StaleIs
  <1> HIDE DEF fresh
  <1>4. new'[w] = fresh /\ \A r \in Workers \ {w} : new'[r] = new[r]
    BY <1>0, <1>1 DEF TypeOK
  <1>5. /\ Current(w) \in Txn /\ Current(w).open /\ Current(w).held.id < seq
        /\ (Current(w).held.id = 0 => Current(w).held = NoBatch)
    BY <1>0, CurrentIs
  <1>6. Typed
    BY <1>0, <1>1, <1>3 DEF Typed, TypeOK
  <1>7. Advances(w, Current(w), rows)
    <2>1. RowShape(w, fresh, seq)
      BY <1>2, <1>3 DEF RowShape
    <2>2. \A r \in rows : RowShape(r, new'[r], seq') /\ new'[r].batch = new[r].batch
      BY <1>1, <1>3, <1>4, <2>1
    <2>3. \A r \in Workers \ rows : new'[r] = new[r]
      BY <1>4
    <2>4. new'[Main].role = new[Main].role
      BY <1>1, <1>3, <1>4
    <2> HIDE DEF rows
    <2> QED
      BY <1>0, <1>1, <1>5, <2>2, <2>3, <2>4, AdvancesByRow
  <1>8. Keeps(w, Current(w), rows)
    <2>1. \A m \in Workers : new'[m].window = new[m].window /\ new'[m].last = new[m].last
      BY <1>3, <1>4
    <2> HIDE DEF rows
    <2> QED
      BY <1>0, <1>1, <1>5, <2>1, KeepsByRow DEF Workers
  <1> HIDE DEF rows
  <1> QED
    BY <1>1, <1>5, <1>6, <1>7, <1>8, RunsStep

LEMMA UnsubscribeStep == ASSUME IInv, NEW w \in Workers, Unsubscribe(w)  PROVE IInv'
  <1> DEFINE rows == {w}
  <1>0. TypeOK /\ Shapes
    BY DEF IInv
  <1>1. /\ w \in Members /\ w # Main /\ Main \in Workers /\ new[w].batch = 0
        /\ Runs(w, Current(w), rows) /\ new' = [new EXCEPT ![w] = NoRow]
        /\ rows \in SUBSET Workers /\ \A r \in rows : Free(w, r)
    BY MainAssumption DEF Unsubscribe, Workers
  <1>2. /\ demoting' = [demoting EXCEPT ![w] = OtherMembers(w, w) = {}]
        /\ UNCHANGED <<seq, origin, faults>> /\ leaves' = leaves + 1
    BY DEF Unsubscribe, Leave
  <1>3. new[w].window = 0
    BY <1>0, <1>1, RowsAre DEF RowShape
  <1>4. NoRow \in Row /\ NoRow.batch = 0 /\ NoRow.window = 0
    BY NoRowIs DEF NoRow
  <1>5. new'[w] = NoRow /\ \A r \in Workers \ {w} : new'[r] = new[r]
    BY <1>0, <1>1 DEF TypeOK
  <1>6. /\ Current(w) \in Txn /\ Current(w).open /\ Current(w).held.id < seq
        /\ (Current(w).held.id = 0 => Current(w).held = NoBatch)
    BY <1>0, CurrentIs
  <1>7. Typed
    <2>1. demoting' \in [Workers -> BOOLEAN]
      BY <1>0, <1>2 DEF TypeOK
    <2>2. leaves' \in Nat /\ faults' \in Nat /\ origin' \in 0 .. MaxTicks /\ seq' \in Nat \ {0}
      BY <1>0, <1>2 DEF TypeOK
    <2>3. new' \in [Workers -> Row]
      BY <1>0, <1>1, <1>4 DEF TypeOK
    <2> QED
      BY <2>1, <2>2, <2>3 DEF Typed
  <1>8. Advances(w, Current(w), rows)
    <2>1. RowShape(w, NoRow, seq)
      BY <1>0, <1>1, <1>4 DEF RowShape, TypeOK
    <2>2. \A r \in rows : RowShape(r, new'[r], seq') /\ new'[r].batch = 0
      BY <1>2, <1>4, <1>5, <2>1
    <2>3. \A r \in Workers \ rows : new'[r] = new[r]
      BY <1>5
    <2>4. Main \notin rows
      BY <1>1
    <2> HIDE DEF rows
    <2> QED
      BY <1>0, <1>1, <1>2, <1>6, <2>2, <2>3, <2>4, AdvancesByRow
  <1>9. Keeps(w, Current(w), rows)
    <2>1. \A m \in Workers : new'[m].window = new[m].window
      BY <1>3, <1>4, <1>5
    <2>2. new'[Main].last = new[Main].last
      BY <1>1, <1>5
    <2> HIDE DEF rows
    <2> QED
      BY <1>0, <1>1, <1>2, <1>6, <2>1, <2>2, KeepsByRow DEF Workers
  <1> HIDE DEF rows
  <1> QED
    BY <1>1, <1>6, <1>7, <1>8, <1>9, RunsStep

LEMMA DemoteStep == ASSUME IInv, NEW w \in Workers, Demote(w)  PROVE IInv'
  <1> DEFINE rows == {Main}
             o    == IF new[Main].role = "coop_main" THEN "normal" ELSE new[Main].role
             main == [new[Main] EXCEPT !.role = o]
  <1>0. TypeOK /\ Shapes
    BY DEF IInv
  <1>1. /\ Main \in Workers /\ Runs(w, Current(w), rows)
        /\ new' = [new EXCEPT ![Main] = main]
        /\ demoting' = [demoting EXCEPT ![w] = FALSE]
        /\ UNCHANGED <<seq, origin, faults, leaves>>
        /\ rows \in SUBSET Workers /\ \A r \in rows : Free(w, r)
    BY DEF Demote, bounds, Workers
  <1>2. new[Main] \in Row /\ RowShape(Main, new[Main], seq)
    BY <1>0, <1>1, RowsAre
  <1>3. /\ o \in {"none", "normal", "coop_main", "coop_member"}
        /\ (o = "normal" /\ new[Main].role = "coop_main") \/ o = new[Main].role
    BY <1>2 DEF Row
  <1> HIDE DEF o
  <1>4. /\ main \in Row /\ main.role = o /\ main.last = new[Main].last
        /\ main.batch = new[Main].batch /\ main.window = new[Main].window
    <2>1. /\ [new[Main] EXCEPT !.role = o] \in Row
          /\ [new[Main] EXCEPT !.role = o].role = o
          /\ [new[Main] EXCEPT !.role = o].last = new[Main].last
          /\ [new[Main] EXCEPT !.role = o].batch = new[Main].batch
          /\ [new[Main] EXCEPT !.role = o].window = new[Main].window
      BY <1>2, <1>3, RoleIs
    <2> QED
      BY <2>1
  <1> HIDE DEF main
  <1>5. new'[Main] = main /\ \A r \in Workers \ {Main} : new'[r] = new[r]
    BY <1>0, <1>1 DEF TypeOK
  <1>6. /\ Current(w) \in Txn /\ Current(w).open /\ Current(w).held.id < seq
        /\ (Current(w).held.id = 0 => Current(w).held = NoBatch)
    BY <1>0, CurrentIs
  <1>7. Typed
    <2>1. new' \in [Workers -> Row]
      BY <1>0, <1>1, <1>4 DEF TypeOK
    <2> QED
      BY <1>0, <1>1, <2>1 DEF Typed, TypeOK
  <1>8. Advances(w, Current(w), rows)
    <2>1. RowShape(Main, main, seq) /\ (main.role = "none" => new[Main].role = "none")
      BY <1>2, <1>3, <1>4, MainAssumption DEF RowShape
    <2>2. \A r \in rows : RowShape(r, new'[r], seq') /\ new'[r].batch = new[r].batch
      BY <1>1, <1>4, <1>5, <2>1
    <2>3. \A r \in Workers \ rows : new'[r] = new[r]
      BY <1>5
    <2>4. new'[Main].role = "none" => new[Main].role = "none"
      BY <1>5, <2>1
    <2> HIDE DEF rows
    <2> QED
      BY <1>0, <1>1, <1>6, <2>2, <2>3, <2>4, AdvancesByRow
  <1>9. Keeps(w, Current(w), rows)
    <2>1. \A m \in Workers : new'[m].window = new[m].window /\ new'[m].last = new[m].last
      BY <1>4, <1>5
    <2> HIDE DEF rows
    <2> QED
      BY <1>0, <1>1, <1>6, <2>1, KeepsByRow DEF Workers
  <1> HIDE DEF rows
  <1> QED
    BY <1>1, <1>6, <1>7, <1>8, <1>9, RunsStep

-----------------------------------------------------------------------------

LEMMA InvInit == Init => IInv
  <1> SUFFICES ASSUME Init  PROVE IInv
    OBVIOUS
  <1>1. PICK main \in {NoRow, [NoRow EXCEPT !.role = "normal"]} :
           row = [r \in Workers |-> IF r = Main THEN main ELSE NoRow]
    BY DEF Init
  <1> DEFINE plain == [NoRow EXCEPT !.role = "normal"]
  <1>2. /\ plain \in Row /\ plain.role = "normal" /\ plain.last = NoRow.last
        /\ plain.batch = NoRow.batch /\ plain.window = NoRow.window
    BY NoRowIs, RoleIs
  <1>3. /\ NoRow.role = "none" /\ NoRow.last = 0 /\ NoRow.batch = 0 /\ NoRow.window = 0
    BY DEF NoRow
  <1>4. main \in {NoRow, plain}
    OBVIOUS
  <1> HIDE DEF plain
  <1>5. /\ main \in Row /\ main.role \in {"none", "normal"}
        /\ main.last = 0 /\ main.batch = 0 /\ main.window = 0
    BY <1>2, <1>3, <1>4, NoRowIs
  <1>6. TypeOK
    <2>1. row \in [Workers -> Row] /\ new \in [Workers -> Row]
      BY <1>1, <1>5, NoRowIs DEF Init
    <2>2. 0 \in 0 .. MaxTicks
      BY BoundsAssumption
    <2> QED
      BY <2>1, <2>2, NoRowIs DEF Init, TypeOK
  <1>7. \A r \in Workers : new[r] = row[r] /\ lock[r] = NoOne /\ NoOne # r
    BY MainAssumption DEF Init, Workers
  <1>8. \A r \in Workers : row[r].batch = 0 /\ row[r].window = 0
    BY <1>1, <1>3, <1>5
  <1>9. Main \in Workers /\ row[Main] = main
    BY <1>1 DEF Workers
  <1>10. Unlocked /\ Coverage
    BY <1>7, MainAssumption DEF Unlocked, Coverage, Workers
  <1>11. Shapes
    <2>1. \A r \in Workers : RowShape(r, row[r], seq) /\ RowShape(r, new[r], seq)
      BY <1>5, <1>7, <1>8, <1>9 DEF RowShape, Init
    <2>2. Shape(row) /\ Shape(new)
      BY <2>1, ShapeByRow
    <2>3. \A w \in Workers : held[w] = NoBatch /\ txn[w].held = NoBatch
      BY DEF Init, Closed
    <2>4. NoBatch.id < seq
      BY DEF NoBatch, Init
    <2> QED
      BY <1>7, <1>9, <2>2, <2>3, <2>4 DEF Shapes
  <1>12. Fences
    <2>1. \A r \in Workers : Ids(r) = {}
      BY <1>7, <1>8 DEF Ids
    <2> QED
      BY <2>1 DEF Fences
  <1>13. NoWindowLost
    BY <1>5, <1>9 DEF NoWindowLost, Init
  <1> QED
    BY <1>6, <1>10, <1>11, <1>12, <1>13 DEF IInv

LEMMA InvNext == IInv /\ [Next]_vars => IInv'
  <1> SUFFICES ASSUME IInv, [Next]_vars  PROVE IInv'
    OBVIOUS
  <1>1. CASE UNCHANGED vars
    BY <1>1, StutterStep
  <1>2. CASE \E nothing \in BOOLEAN : Publish(nothing)
    BY <1>2, PublishStep
  <1>3. CASE PlainReceiveAgain \/ PlainReceiveNext
    BY <1>3, PlainReceiveAgainStep, PlainReceiveNextStep
  <1>4. ASSUME NEW w \in Workers, \E convert \in BOOLEAN : Register(w, convert)  PROVE IInv'
    BY <1>4, RegisterStep
  <1>5. ASSUME NEW w \in Workers, Receive(w)  PROVE IInv'
    BY <1>5, ReceiveAgainStep, ReceiveNextStep, TakeOverStep DEF Receive
  <1>6. ASSUME NEW w \in Workers, Nack(w) \/ Settle(w) \/ Touch(w)  PROVE IInv'
    BY <1>6, NackStep, AckStep, AckTooLateStep, TouchStep DEF Settle
  <1>7. ASSUME NEW w \in Workers, Commit(w) \/ Rollback(w) \/ Crash(w) \/ Restart(w)  PROVE IInv'
    BY <1>7, CommitStep, RollbackStep, CrashStep, RestartStep
  <1>8. ASSUME NEW w \in Workers, GoesStale(w) \/ Unregister(w) \/ Unsubscribe(w) \/ Demote(w)
        PROVE  IInv'
    BY <1>8, GoesStaleStep, UnregisterStep, UnsubscribeStep, DemoteStep
  <1> QED
    BY <1>1, <1>2, <1>3, <1>4, <1>5, <1>6, <1>7, <1>8 DEF Next

\* The inductive invariant: what open transactions have written covers whatever their
\* commit takes off a row, and what their rollback puts back is covered by the table.
THEOREM Invariant == Spec => []IInv
  BY InvInit, InvNext, PTL DEF Spec

\* Every variable keeps its type: rows hold batches within the ticks, locks name processes.
THEOREM TypeCorrect == Spec => []TypeOK
  BY Invariant, PTL DEF IInv

\* Takeovers, rollbacks, crashes and removals of members lose no window that the group's
\* cursor has passed.
THEOREM NoneLost == Spec => []NoWindowLost
  BY Invariant, PTL DEF IInv

\* What a process still holds after its batch was taken over or removed is the id of its own
\* row's batch or of no batch: a late ack or nack does not touch another member's.
THEOREM Fenced == Spec => []TokensAreFenced
  <1>1. IInv => TokensAreFenced
    <2> SUFFICES ASSUME IInv, NEW w \in Workers, NEW r \in Workers, r # w,
                        held[w].id # 0, row[r].batch = held[w].id
                 PROVE  FALSE
      BY DEF TokensAreFenced
    <2> QED
      BY DEF IInv, Fences, Ids, HeldIds
  <1> QED
    BY <1>1, Invariant, PTL

\* Conversions and plain consumers of the group's name leave no batch on a cooperative main
\* row, where no member would get it.
THEOREM MainFree == Spec => []MainHoldsNoBatch
  <1>1. IInv => MainHoldsNoBatch
    BY DEF IInv, Shapes, Shape, MainHoldsNoBatch
  <1> QED
    BY <1>1, Invariant, PTL

=============================================================================
