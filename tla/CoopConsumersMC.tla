---------------------------- MODULE CoopConsumersMC ----------------------------
(* Small instances of CoopConsumers for TLC. *)
EXTENDS CoopConsumersGroup

CONSTANTS s1, s2

=============================================================================
