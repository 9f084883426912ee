------------------------------ MODULE RetryDlqMC ------------------------------
(* Small instances of RetryDlq for TLC. *)
EXTENDS RetryDlqInv

CONSTANTS c1, c2

=============================================================================
