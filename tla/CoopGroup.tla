------------------------------- MODULE CoopGroup -------------------------------
(***************************************************************************)
(* What a group of cooperating consumers promises, without row locks and   *)
(* without transactions that are still open.  Windows are handed out in    *)
(* order; a window is in one hand at a time, under a token that no other   *)
(* hand has.  It leaves the hand when its batch is acknowledged, when its  *)
(* holder is stale and another member takes it over, or when its holder is *)
(* removed and its events go to the retry queue.                           *)
(***************************************************************************)
EXTENDS Integers

CONSTANTS Members, Main

VARIABLES
    tick,       \* the last window that is published
    empty,      \* the windows without an event
    founded,    \* is there a group, or a plain consumer of its name
    cursor,     \* the windows up to here have been handed out
    hand,       \* worker -> the token and the window that it has in hand
    stale,      \* the members whose windows may be taken over
    finished,   \* the windows whose batch was acknowledged
    requeued    \* the windows of which events are in the retry queue

vars == <<tick, empty, founded, cursor, hand, stale, finished, requeued>>

Workers == Members \cup {Main}
Nothing == [id |-> 0, window |-> 0]

Init ==
    /\ tick = 0 /\ empty = {}
    /\ founded \in BOOLEAN /\ cursor = 0
    /\ hand = [w \in Workers |-> Nothing] /\ stale = {}
    /\ finished = {} /\ requeued = {}

Publish(nothing) ==
    /\ tick' = tick + 1
    /\ empty' = IF nothing THEN empty \cup {tick + 1} ELSE empty
    /\ UNCHANGED <<founded, cursor, hand, stale, finished, requeued>>

\* A token greater than every token in a hand.
Fresh(id) == \A w \in Workers : hand[w].id < id

\* Of the windows in reach, w acknowledges some and keeps at most one; none is dropped.
Settles(w, reach) ==
    LET kept == hand'[w].window
    IN  /\ finished \subseteq finished' /\ finished' \ finished \subseteq reach
        /\ reach \subseteq empty \cup (finished' \ finished) \cup {kept}
        /\ \/ hand'[w] = Nothing
           \/ /\ kept \in reach \ finished'
              /\ hand'[w] # hand[w] => Fresh(hand'[w].id)

\* A nack may come late, when the window is in another hand, or acknowledged already.
Nacks ==
    /\ requeued \subseteq requeued'
    /\ requeued' \ requeued \subseteq 1 .. cursor' \cup {hand'[Main].window}

\* A transaction of a member takes over windows of stale members, takes the next windows,
\* and settles what it has.  It may found the group, at some tick.
Deliver(w) ==
    \E start \in IF founded THEN {cursor} ELSE 0 .. tick, taken \in SUBSET (stale \ {w}) :
        /\ cursor' \in start .. tick
        /\ founded => founded'
        /\ cursor' # cursor => founded' /\ hand[Main] = Nothing
        /\ Settles(w, (start + 1 .. cursor' \cup {hand[m].window : m \in taken \cup {w}}) \ {0})
        /\ Nacks
        /\ hand' = [m \in Workers |-> IF m = w THEN hand'[w]
                                      ELSE IF m \in taken THEN Nothing ELSE hand[m]]
        /\ stale' \in {stale \ taken, stale \ (taken \cup {w})}
        /\ UNCHANGED <<tick, empty>>

\* A transaction of a plain consumer: its window is the one after the cursor.
DeliverPlainly ==
    /\ cursor' \in cursor .. tick
    /\ cursor' # cursor => founded
    /\ hand'[Main].window \in {0, cursor' + 1}
    /\ Settles(Main, (cursor + 1 .. cursor' \cup {hand[Main].window, hand'[Main].window}) \ {0})
    /\ Nacks
    /\ hand' = [hand EXCEPT ![Main] = hand'[Main]]
    /\ UNCHANGED <<tick, empty, founded, stale>>

GoesStale(m) ==
    /\ hand[m] # Nothing
    /\ stale' = stale \cup {m}
    /\ UNCHANGED <<tick, empty, founded, cursor, hand, finished, requeued>>

Remove(m) ==
    /\ requeued' = requeued \cup ({hand[m].window} \ {0})
    /\ hand' = [hand EXCEPT ![m] = Nothing]
    /\ stale' = stale \ {m}
    /\ UNCHANGED <<tick, empty, founded, cursor, finished>>

Next ==
    \/ \E nothing \in BOOLEAN : Publish(nothing)
    \/ DeliverPlainly
    \/ \E m \in Members : Deliver(m) \/ GoesStale(m) \/ Remove(m)

Spec == Init /\ [][Next]_vars
=============================================================================
