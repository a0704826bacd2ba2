----------------------------- MODULE MCNativeBidi -----------------------------
(* Two goroutines on the up direction, one that receives, one that unloads.    *)
EXTENDS NativeBidi

CONSTANTS u1, u2, r1, nobody

===============================================================================
