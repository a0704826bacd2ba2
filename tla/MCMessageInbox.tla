---------------------------- MODULE MCMessageInbox ----------------------------
(* Small instances of MessageInbox for TLC. *)
EXTENDS MessageInbox

CONSTANTS s1, s2, s3, r1, r2, m1, m2, anon
=============================================================================
