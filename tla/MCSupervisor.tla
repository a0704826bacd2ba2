----------------------------- MODULE MCSupervisor -----------------------------
(* Small instances of Supervisor for TLC. *)
EXTENDS Supervisor

CONSTANTS g1, g2, k1, k2, c1, c2, nogroup
===============================================================================
