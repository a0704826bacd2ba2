---------------------------- MODULE MCRecoveryLog ----------------------------
(* A small instance of RecoveryLog for TLC. *)
EXTENDS RecoveryLog

CONSTANTS a, b, c, nobody
=============================================================================
