------------------------------ MODULE OneConsumer ------------------------------
(***************************************************************************)
(* What the processes of one consumer name promise together, whatever      *)
(* becomes of their connections: they are one consumer that settles the    *)
(* windows of the log in order and whole.  Each message of a window is     *)
(* handled or handed back, never both and never neither.  An attempt that  *)
(* fails hands back some messages at most, and the window comes again.     *)
(***************************************************************************)
EXTENDS Integers, Sequences

CONSTANT Msgs

VARIABLES
    windows,    \* the sets of messages between two ticks, in order
    position,   \* how many of them are settled
    handled,    \* the messages that were handled, or let pass by policy
    requeued    \* the messages that were handed back

vars == <<windows, position, handled, requeued>>

Init == windows = <<>> /\ position = 0 /\ handled = {} /\ requeued = {}

\* The ticker publishes a window, empty or of new messages.
Publish ==
    /\ \E new \in SUBSET Msgs :
          /\ \A k \in 1 .. Len(windows) : new \cap windows[k] = {}
          /\ windows' = Append(windows, new)
    /\ UNCHANGED <<position, handled, requeued>>

Following == position + 1

\* The window is acknowledged; what was nacked of it goes back.
Settle ==
    /\ Following <= Len(windows)
    /\ \E back \in SUBSET windows[Following] :
          /\ requeued' = requeued \cup back
          /\ handled' = handled \cup (windows[Following] \ back)
    /\ position' = Following
    /\ UNCHANGED windows

\* The window is not acknowledged because a nack failed; the other nacks stand.
HandBack ==
    /\ Following <= Len(windows)
    /\ \E back \in SUBSET windows[Following] : requeued' = requeued \cup back
    /\ UNCHANGED <<windows, position, handled>>

Next == Publish \/ Settle \/ HandBack

Spec == Init /\ [][Next]_vars
=============================================================================
