------------------------------ MODULE EventLogMC ------------------------------
(* Small instances of EventLog for TLC. *)
EXTENDS EventLogDelivery

CONSTANTS p1, p2, c1, c2

=============================================================================
