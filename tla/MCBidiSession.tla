---------------------------- MODULE MCBidiSession ----------------------------
(* Small instances of BidiSession for TLC. *)
EXTENDS BidiSession

CONSTANTS s1, s2, r1, c1, nobody
=============================================================================
