--------------------------- MODULE MCLoopbackStream ---------------------------
(* Small instances of LoopbackStream for TLC. *)
EXTENDS LoopbackStream

CONSTANTS p1, p2, c1
===============================================================================
