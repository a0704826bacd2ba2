---------------------------- MODULE MCReceiptChain ----------------------------
(* Small instances of ReceiptChain for TLC. *)
EXTENDS ReceiptChain

CONSTANTS a1, a2, a3, i1, i2
=============================================================================
