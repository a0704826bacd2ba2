------------------------------ MODULE MCAdmission ------------------------------
(* Small instances of Admission for TLC. *)
EXTENDS Admission

CONSTANTS c1, c2, c3, k1, k2
=============================================================================
