---------------------------- MODULE MCLocalRuntime ----------------------------
(* Small instances of LocalRuntime for TLC. *)
EXTENDS LocalRuntime

CONSTANTS p, c, d, none

\* A parent with one child.
MCPair == [i \in Invocations |-> IF i = c THEN p ELSE none]

\* A chain of three.
MCChain == [i \in Invocations |-> CASE i = p -> none [] i = c -> p [] i = d -> c]

\* A parent with two children.
MCFamily == [i \in Invocations |-> IF i = p THEN none ELSE p]

MCIdOrder == [i \in Invocations |-> CASE i = p -> 1 [] i = c -> 2 [] i = d -> 3]
=============================================================================
