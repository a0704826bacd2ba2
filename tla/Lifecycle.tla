------------------------------ MODULE Lifecycle ------------------------------
(***************************************************************************)
(* The rules of one invocation's lifecycle, shared by every module that    *)
(* holds an InvocationCore (axon/invocation/handle.go): the states, the    *)
(* events with the state each one leads to, the terminal owners, and the   *)
(* decision emitContext takes before it commits an event.  A core is the   *)
(* record                                                                  *)
(*                                                                         *)
(*    state   the lifecycle state                                          *)
(*    claim   the owner that won the right to terminate it, or "none"      *)
(*    finErr  finalizationErr is set: cleanup could not be proved          *)
(*                                                                         *)
(* All of it is read and written under the core's own mutex.               *)
(***************************************************************************)

TerminalStates == {"COMPLETED", "FAILED", "TIMED_OUT", "CANCELLED"}

States == {"UNSPECIFIED", "ACCEPTED", "ADMITTED", "DISPATCHED", "RUNNING"}
            \cup TerminalStates

IsTerminal(state) == state \in TerminalStates

\* Events that leave a running invocation running.
RunningEvents == {"progress", "message_received", "message_consumed",
                  "child_spawned", "child_terminal"}

TerminalEvents == {"completed", "failed", "timed_out", "cancelled"}

EventTypes == {"accepted", "admitted", "dispatched", "running"}
                \cup RunningEvents \cup TerminalEvents

Owners == {"completion", "failure", "caller_cancel", "parent_cancel",
           "deadline", "recovery"}

Claims == {"none"} \cup Owners

Core == [state : States, claim : Claims, finErr : BOOLEAN]

NewCore == [state |-> "UNSPECIFIED", claim |-> "none", finErr |-> FALSE]

\* The transition table: each event type leads to one state, from given states.
ExpectedTransition(current, eventType, target) ==
    \/ /\ eventType = "accepted"
       /\ current = "UNSPECIFIED" /\ target = "ACCEPTED"
    \/ /\ eventType = "admitted"
       /\ current = "ACCEPTED" /\ target = "ADMITTED"
    \/ /\ eventType = "dispatched"
       /\ current = "ADMITTED" /\ target = "DISPATCHED"
    \/ /\ eventType = "running"
       /\ current = "DISPATCHED" /\ target = "RUNNING"
    \/ /\ eventType \in RunningEvents
       /\ current = "RUNNING" /\ target = "RUNNING"
    \/ /\ ~IsTerminal(current) /\ current # "UNSPECIFIED"
       /\ \/ eventType = "completed" /\ target = "COMPLETED"
          \/ eventType = "failed" /\ target = "FAILED"
          \/ eventType = "timed_out" /\ target = "TIMED_OUT"
          \/ eventType = "cancelled" /\ target = "CANCELLED"

\* What emitContext requires before it asks the provider for a receipt.  Once
\* a terminal owner has claimed the core, only the terminal event and the
\* evidence of a child's end may still be appended.  An event replayed from the
\* recovery log (restoring) needs no claim.
EmitAllowed(core, eventType, target, restoring) ==
    /\ ~IsTerminal(core.state)
    /\ ~core.finErr
    /\ ExpectedTransition(core.state, eventType, target)
    /\ \/ restoring
       \/ /\ \/ core.claim = "none"
             \/ eventType = "child_terminal"
             \/ IsTerminal(target)
          /\ IsTerminal(target) => core.claim # "none"

\* Fault: a later owner takes the claim over.
CanClaimAgain(core) == ~IsTerminal(core.state)

\* claimTerminal succeeds for the first owner only.
CanClaim(core) == ~IsTerminal(core.state) /\ core.claim = "none"

\* Fault: a second failure is not recognised.
CanFailFinalizationAgain(core) == ~IsTerminal(core.state)

\* failFinalization takes effect once, and never after a terminal event.
CanFailFinalization(core) == ~IsTerminal(core.state) /\ ~core.finErr

\* The event by which an owner's finalizer ends the invocation.
TerminalEventOf(owner) ==
    CASE owner \in {"completion", "recovery"}         -> "completed"
      [] owner = "failure"                            -> "failed"
      [] owner \in {"caller_cancel", "parent_cancel"} -> "cancelled"
      [] owner = "deadline"                           -> "timed_out"

TargetOf(eventType) ==
    CASE eventType = "accepted"      -> "ACCEPTED"
      [] eventType = "admitted"      -> "ADMITTED"
      [] eventType = "dispatched"    -> "DISPATCHED"
      [] eventType = "completed"     -> "COMPLETED"
      [] eventType = "failed"        -> "FAILED"
      [] eventType = "timed_out"     -> "TIMED_OUT"
      [] eventType = "cancelled"     -> "CANCELLED"
      [] OTHER                       -> "RUNNING"
=============================================================================
