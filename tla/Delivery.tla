------------------------------- MODULE Delivery -------------------------------
(***************************************************************************)
(* What a queue promises, without tables, snapshots, ticks or rotation.    *)
(* The committed rows grow; now and then a cut is made, the set of rows    *)
(* committed so far.  A subscription stands on a cut; a batch is what a    *)
(* later cut adds to it, whole; acknowledging it moves the subscription to *)
(* the later cut.  A row committed late is in no cut made before.          *)
(* (docs/concepts.md, "The snapshot rule".)                                *)
(***************************************************************************)
CONSTANT Consumers

VARIABLES
    committed,   \* every row committed so far
    cuts,        \* the sets of rows a subscription can stand on
    phase,       \* consumer -> "out", "idle", "open" (a batch) or "read"
    at,          \* consumer -> the cut it has acknowledged
    upto,        \* consumer -> the cut its open batch ends with
    got          \* consumer -> the rows it was given of that batch

vars == <<committed, cuts, phase, at, upto, got>>

Init ==
    /\ committed = {}
    /\ cuts = {{}}
    /\ phase = [c \in Consumers |-> "out"]
    /\ at = [c \in Consumers |-> {}]
    /\ upto = [c \in Consumers |-> {}]
    /\ got = [c \in Consumers |-> {}]

\* A producer's transaction commits: its rows appear together.
Publish ==
    /\ committed \subseteq committed'
    /\ UNCHANGED <<cuts, phase, at, upto, got>>

Cut ==
    /\ cuts' = cuts \cup {committed}
    /\ UNCHANGED <<committed, phase, at, upto, got>>

\* Old cuts may go, but none that a subscription or its batch needs.
Forget ==
    /\ cuts' \subseteq cuts
    /\ \A c \in Consumers : /\ phase[c] # "out" => at[c] \in cuts'
                            /\ phase[c] \in {"open", "read"} => upto[c] \in cuts'
    /\ UNCHANGED <<committed, phase, at, upto, got>>

\* A subscription begins, or is moved to another cut; an open batch is dropped.
Seek(c) ==
    /\ \E k \in cuts : at' = [at EXCEPT ![c] = k]
    /\ phase' = [phase EXCEPT ![c] = "idle"]
    /\ upto' = [upto EXCEPT ![c] = {}]
    /\ got' = [got EXCEPT ![c] = {}]
    /\ UNCHANGED <<committed, cuts>>

Leave(c) ==
    /\ phase' = [phase EXCEPT ![c] = "out"]
    /\ at' = [at EXCEPT ![c] = {}]
    /\ upto' = [upto EXCEPT ![c] = {}]
    /\ got' = [got EXCEPT ![c] = {}]
    /\ UNCHANGED <<committed, cuts>>

Open(c) ==
    /\ phase[c] = "idle"
    /\ \E k \in cuts : at[c] \subseteq k /\ upto' = [upto EXCEPT ![c] = k]
    /\ phase' = [phase EXCEPT ![c] = "open"]
    /\ UNCHANGED <<committed, cuts, at, got>>

\* The consumer is given the batch, all of it and nothing else.
Read(c) ==
    /\ phase[c] = "open"
    /\ got' = [got EXCEPT ![c] = upto[c] \ at[c]]
    /\ phase' = [phase EXCEPT ![c] = "read"]
    /\ UNCHANGED <<committed, cuts, at, upto>>

\* What it was given is lost before it is acknowledged; the batch is still open.
Lose(c) ==
    /\ phase[c] = "read"
    /\ got' = [got EXCEPT ![c] = {}]
    /\ phase' = [phase EXCEPT ![c] = "open"]
    /\ UNCHANGED <<committed, cuts, at, upto>>

Acknowledge(c) ==
    /\ phase[c] = "read"
    /\ at' = [at EXCEPT ![c] = upto[c]]
    /\ phase' = [phase EXCEPT ![c] = "idle"]
    /\ upto' = [upto EXCEPT ![c] = {}]
    /\ got' = [got EXCEPT ![c] = {}]
    /\ UNCHANGED <<committed, cuts>>

Next == \/ Publish \/ Cut \/ Forget
        \/ \E c \in Consumers : \/ Seek(c) \/ Leave(c) \/ Open(c)
                                \/ Read(c) \/ Lose(c) \/ Acknowledge(c)

Spec == Init /\ [][Next]_vars
=============================================================================
