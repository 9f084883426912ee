----------------------------- MODULE ClientLoopMC -----------------------------
(* Small instances of ClientLoop for TLC. *)
EXTENDS ClientLoopConsumer, TLC

CONSTANTS w1, w2, m1, m2, m3

Symmetry == Permutations(Workers)
=============================================================================
