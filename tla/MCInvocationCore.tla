--------------------------- MODULE MCInvocationCore ---------------------------
(* Small instances of InvocationCore for TLC. *)
EXTENDS InvocationCore

CONSTANTS e1, e2, f1, f2, r1, r2

\* One stream opened at the start, one opened at the first running event.
MCReaderStart == [r \in Readers |-> IF r = r1 THEN 0 ELSE 4]

\* What a recovery snapshot holds of an invocation that had emitted one frame.
MCRestored == <<"accepted", "admitted", "dispatched", "running", "progress">>
=============================================================================
