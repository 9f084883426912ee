--------------------------- MODULE CoopConsumersInv ---------------------------
(* Correctness properties of cooperative consumers. *)
EXTENDS CoopConsumers

Settled(k) == k \in finished \cup requeued \cup empty

\* A window behind the group's cursor is finished, in the retry queue, or on the row of a
\* member, from which it is handed out again: takeovers, rollbacks, crashes and removals
\* of members lose none.
NoWindowLost ==
    \A k \in origin + 1 .. row[Main].last :
        Settled(k) \/ \E m \in Members : row[m].window = k

\* No two rows own the same window or the same batch id, and none owns a window that the
\* cursor has not handed out, but for the plain batch of a normal main row.
OneOwner ==
    \A r, s \in Workers :
        row[r].batch # 0 /\ r # s =>
            /\ row[r].batch # row[s].batch /\ row[r].window # row[s].window
            /\ r # Main => row[r].window <= row[Main].last

\* A batch id is a token for one row.  What a process still holds after a takeover, a
\* removal or a conversion names its own row or nobody's: a late ack or nack cannot reach
\* the batch of another member.
TokensAreFenced ==
    \A w, r \in Workers : held[w].id # 0 /\ row[r].batch = held[w].id => r = w

\* A main row of a group holds no batch of its own, whatever plain consumers of its name and
\* conversions do.
MainHoldsNoBatch == row[Main].role = "coop_main" => row[Main].batch = 0

\* As long as its main row stays cooperative, the group settles every window that is
\* published, even if a member dies with a batch in its hands.
WindowsSettle ==
    \A k \in 1 .. MaxTicks :
        (k <= tick /\ k > origin /\ row[Main].role = "coop_main")
            ~> (Settled(k) \/ row[Main].role # "coop_main")

(* The inductive invariant of the theorems.                                *)

Unlocked == \A r \in Workers :
    IF lock[r] = NoOne THEN new[r] = row[r] ELSE txn[lock[r]].open

\* The rows that the table can hold, for x = row and x = new.
Shape(x) ==
    /\ \A r \in Workers : x[r].batch < seq /\ (x[r].batch = 0 <=> x[r].window = 0)
    /\ \A m \in Members : x[m].batch # 0 => x[m].role = "coop_member"
    /\ x[Main].role # "coop_member"
    /\ x[Main].role = "none" => x[Main].last = 0
    /\ x[Main].batch # 0 => x[Main].role = "normal" /\ x[Main].window = x[Main].last + 1

Shapes ==
    /\ Shape(row) /\ Shape(new)
    /\ new[Main].role = "none" => row[Main].role = "none"
    /\ \A w \in Workers : \A b \in {held[w], txn[w].held} :
          b.id < seq /\ (b.id = 0 => b = NoBatch)

\* The ids of a row and of its process are nobody else's.
Ids(r)     == {row[r].batch, new[r].batch} \ {0}
HeldIds(w) == {held[w].id, txn[w].held.id}
Fences     == \A r, w \in Workers : r # w => Ids(r) \cap (Ids(w) \cup HeldIds(w)) = {}

\* What becomes of window k if w's transaction commits.
Kept(w, k) ==
    \/ Settled(k) \/ k \in txn[w].finished \cup txn[w].requeued
    \/ \E m \in Members : lock[m] = w /\ new[m].window = k

Coverage ==
    \A w \in Workers :
        /\ \A m \in Members : lock[m] = w /\ row[m].window # 0 => Kept(w, row[m].window)
        /\ lock[Main] = w => \A k \in row[Main].last + 1 .. new[Main].last :
                                 k > origin => Kept(w, k)

IInv == TypeOK /\ Unlocked /\ Shapes /\ Fences /\ Coverage /\ NoWindowLost

(* What the repository says and the code does not do.                      *)

\* What the header of unregister_consumer says of the removal of the last member, and what
\* the rest of the code relies on: the main row is cooperative while it has members, and
\* only then.
RoleFollowsMembers ==
    row[Main].role = "coop_main" <=> \E m \in Members : row[m].role = "coop_member"
=============================================================================
