------------------------------ MODULE RecoveryLog ------------------------------
(***************************************************************************)
(* One durable invocation and the runtimes that run it one after another:  *)
(* the recovery record kept by PersistentLog (axon/invocation/             *)
(* persistence.go), leased and resumed by RecoverPersistedInvocations,     *)
(* given up by SuspendForRestart, fenced at BeginFinalization              *)
(* (local_runtime.go).                                                     *)
(*                                                                         *)
(* Each operation on the record is one step: it runs under the per-id lock *)
(* of the PersistentLog the runtimes share, and the record is replaced by  *)
(* a rename.  A read or a write of the record may fail: the rename comes   *)
(* last, so the record is then as it was.  A clock drives leases.  A       *)
(* runtime binds an invocation at most once (its receipt provider rejects  *)
(* a second Bind), but it may lease a record it has run before.            *)
(*                                                                         *)
(* The events before RUNNING count as one.  Only the number of events is   *)
(* kept, with whether the last one is terminal.                            *)
(***************************************************************************)
EXTENDS Integers

CONSTANTS
    Runtimes,
    First,         \* the runtime the invocation is dispatched to
    NoOwner,       \* the empty LeaseOwner
    Lease,         \* duration of a recovery lease
    MaxTime,       \* bound: the clock
    MaxEvents,     \* bound: events emitted by a core
    MaxLeases,     \* bound: leases taken
    Crashing       \* bound: the runtimes that may crash

ASSUME RecoveryAssumption ==
    /\ NoOwner \notin Runtimes
    /\ Lease \in Nat \ {0}
    /\ MaxTime \in Nat
    /\ MaxEvents \in Nat

ASSUME FailureAssumption ==
    First \in Runtimes /\ MaxLeases \in Nat /\ Crashing \subseteq Runtimes

VARIABLES
    record,  \* the recovery snapshot on disk
    now,     \* the clock
    alive,   \* runtimes that have not crashed
    exec,    \* [Runtimes -> the core and execution of that runtime]
    recov,   \* [Runtimes -> RecoverPersistedInvocations under way]
    leases,  \* leases taken so far
    again,   \* history: runtimes that leased the record of an execution of theirs
    kept     \* history: runtimes whose failed renewal abandoned a lease they held

history == <<leases, again, kept>>

vars == <<record, now, alive, exec, recov, leases, again, kept>>

Phases == {"none", "running", "suspended", "recovering", "finalizing", "closed"}

Record == [phase : Phases, owner : Runtimes \cup {NoOwner}, until : Int,
           len : Nat, terminal : BOOLEAN]

Exec == [status    : {"none", "running", "claimed", "finalizing", "terminal",
                      "failed"},
         recovered : BOOLEAN,                          \* resumed under a lease
         suspended : BOOLEAN,                          \* execution.suspended
         renewing  : BOOLEAN,                          \* renewRecoveryLease runs
         done      : BOOLEAN,                          \* execution.done is closed
         claimant  : {"none", "ability", "control"},   \* who finalizes
         len       : Nat]                              \* events of the core

Recov == [pc : {"idle", "leased"}, len : Nat, terminal : BOOLEAN]

TypeOK ==
    /\ record \in Record
    /\ now \in Nat
    /\ alive \subseteq Runtimes
    /\ exec \in [Runtimes -> Exec]
    /\ recov \in [Runtimes -> Recov]
    /\ leases \in Nat
    /\ again \subseteq Runtimes /\ kept \subseteq Runtimes

NoRecov == [pc |-> "idle", len |-> 0, terminal |-> FALSE]

NewExec(recovered, len) ==
    [status |-> "running", recovered |-> recovered, suspended |-> FALSE,
     renewing |-> recovered, done |-> FALSE, claimant |-> "none", len |-> len]

Init ==
    /\ record = [phase |-> "none", owner |-> NoOwner, until |-> 0, len |-> 0,
                 terminal |-> FALSE]
    /\ now = 0
    /\ alive = Runtimes
    /\ exec = [r \in Runtimes |-> [NewExec(FALSE, 0) EXCEPT !.status = "none"]]
    /\ recov = [r \in Runtimes |-> NoRecov]
    /\ leases = 0 /\ again = {} /\ kept = {}

-------------------------------------------------------------------------------
\* The record's own rules

LeaseLive(r) == record.owner = r /\ record.until >= now

\* RenewRecoveryLease's condition: an expired lease counts too.
LeaseHeld(r) == record.phase \in {"recovering", "finalizing"} /\ record.owner = r

\* appendLifecycleEvent: the record is the caller's and the sequences agree.
AppendAllowed(r) ==
    /\ record.len = exec[r].len
    /\ IF exec[r].recovered
       THEN record.phase \in {"recovering", "finalizing"} /\ LeaseLive(r)
       ELSE record.phase \in {"running", "finalizing"} /\ record.owner = NoOwner

\* Fault: the owner of the lease is not compared.
FinalizationByAnyone(r) == record.phase \in {"running", "recovering", "finalizing"}

\* Fault: every phase but closed may be finalized.
FinalizationOfSuspended(r) ==
    record.phase # "closed" /\ (record.owner = NoOwner \/ LeaseLive(r))

\* BeginFinalization.
FinalizationAllowed(r) ==
    \/ record.phase = "running" /\ record.owner = NoOwner
    \/ /\ record.phase \in {"recovering", "finalizing"}
       /\ record.owner = NoOwner \/ LeaseLive(r)

\* MarkRecoveryPhase(id, "suspended"): any record that is not being finalized,
\* whoever holds it.
MarkedSuspended ==
    IF record.phase \in {"none", "finalizing"}
    THEN record
    ELSE [record EXCEPT !.phase = "suspended", !.owner = NoOwner, !.until = 0]

\* ClaimRecovery's condition on one record.
Claimable ==
    \/ record.phase = "suspended"
    \/ record.phase = "recovering" /\ record.until <= now

SetExec(r, e) == exec' = [exec EXCEPT ![r] = e]

-------------------------------------------------------------------------------
\* The first runtime

\* InitializeRecovery and the events up to RUNNING.
Dispatch(r) ==
    /\ r = First /\ r \in alive /\ record.phase = "none"
    /\ record' = [record EXCEPT !.phase = "running", !.len = 1]
    /\ SetExec(r, NewExec(FALSE, 1))
    /\ UNCHANGED <<now, alive, recov, history>>

-------------------------------------------------------------------------------
\* Executions

\* An event of the running ability.  The core keeps it whether or not the record
\* accepts it and the write succeeds.
EmitEvent(r) ==
    /\ r \in alive
    /\ exec[r].status = "running" /\ ~exec[r].done /\ exec[r].len < MaxEvents
    /\ SetExec(r, [exec[r] EXCEPT !.len = @ + 1])
    /\ \/ AppendAllowed(r) /\ record' = [record EXCEPT !.len = @ + 1]
       \/ UNCHANGED record
    /\ UNCHANGED <<now, alive, recov, history>>

\* runAbility after the handler: the claim, or just the end of the execution.
HandlerReturns(r) ==
    /\ r \in alive
    /\ exec[r].status # "none" /\ ~exec[r].done /\ exec[r].claimant # "ability"
    /\ SetExec(r, IF exec[r].status = "running" /\ ~exec[r].suspended
                  THEN [exec[r] EXCEPT !.status = "claimed", !.claimant = "ability"]
                  ELSE [exec[r] EXCEPT !.done = TRUE])
    /\ UNCHANGED <<record, now, alive, recov, history>>

\* A cancel or a deadline claims, also of a suspended execution.
ControlClaims(r) ==
    /\ r \in alive
    /\ exec[r].status = "running"
    /\ SetExec(r, [exec[r] EXCEPT !.status = "claimed", !.claimant = "control"])
    /\ UNCHANGED <<record, now, alive, recov, history>>

\* The goroutine that finalizes has ended; the ability's end ends the execution.
Finalized(e, status) ==
    [e EXCEPT !.status = status, !.done = e.done \/ e.claimant = "ability"]

\* finishCleanup, its durable fence: passed, or refused (or unreadable, or not
\* written) and the finalization fails.
BeginFinalization(r) ==
    /\ r \in alive
    /\ exec[r].status = "claimed"
    /\ \/ /\ FinalizationAllowed(r)
          /\ record' = [record EXCEPT !.phase = "finalizing"]
          /\ SetExec(r, [exec[r] EXCEPT !.status = "finalizing"])
       \/ /\ SetExec(r, Finalized(exec[r], "failed"))
          /\ UNCHANGED record
    /\ UNCHANGED <<now, alive, recov, history>>

\* finishCleanup: the supervisor could not prove its cleanup.
CleanupFails(r) ==
    /\ r \in alive
    /\ exec[r].status = "finalizing"
    /\ SetExec(r, Finalized(exec[r], "failed"))
    /\ UNCHANGED <<record, now, alive, recov, history>>

\* The terminal receipt is issued; the record is closed if it accepts the event
\* and the write succeeds.
EmitTerminal(r) ==
    /\ r \in alive
    /\ exec[r].status = "finalizing"
    /\ SetExec(r, [Finalized(exec[r], "terminal") EXCEPT !.len = @ + 1])
    /\ \/ /\ AppendAllowed(r)
          /\ record' = [record EXCEPT !.phase = "closed", !.owner = NoOwner,
                                      !.until = 0, !.len = @ + 1, !.terminal = TRUE]
       \/ UNCHANGED record
    /\ UNCHANGED <<now, alive, recov, history>>

\* SuspendForRestart.
Suspend(r) ==
    /\ r \in alive
    /\ exec[r].status = "running" /\ ~exec[r].suspended
    /\ record.phase # "finalizing"
    /\ record' = MarkedSuspended
    /\ SetExec(r, [exec[r] EXCEPT !.suspended = TRUE])
    /\ UNCHANGED <<now, alive, recov, history>>

-------------------------------------------------------------------------------
\* Leases

\* Fault: a lost lease is retried for ever.
RenewForever(r) ==
    /\ r \in alive
    /\ exec[r].renewing /\ ~exec[r].done
    /\ record' = IF LeaseHeld(r) THEN [record EXCEPT !.until = now + Lease] ELSE record
    /\ UNCHANGED <<now, alive, exec, recov, history>>

\* RenewRecoveryLease extends the lease.
ExtendLease(r) ==
    /\ LeaseHeld(r)
    /\ record' = [record EXCEPT !.until = now + Lease]
    /\ UNCHANGED <<exec, history>>

\* abandonRecoveredExecution, after any error of RenewRecoveryLease: the lease was
\* lost, or the record could not be read or written.  Only a core that has already
\* ended is left alone; one that is being finalized is not.
AbandonExecution(r) ==
    /\ SetExec(r, [exec[r] EXCEPT
                     !.renewing = FALSE,
                     !.suspended = @ \/ exec[r].status # "terminal"])
    /\ kept' = IF LeaseHeld(r) THEN kept \cup {r} ELSE kept
    /\ UNCHANGED <<record, leases, again>>

\* One turn of renewRecoveryLease.
Renew(r) ==
    /\ r \in alive
    /\ exec[r].renewing /\ ~exec[r].done
    /\ ExtendLease(r) \/ AbandonExecution(r)
    /\ UNCHANGED <<now, alive, recov>>

\* RecoverPersistedInvocations takes the lease, whatever it ran before, and keeps a
\* copy of the record.
ClaimRecovery(r) ==
    /\ r \in alive /\ recov[r].pc = "idle"
    /\ Claimable /\ leases < MaxLeases
    /\ record' = [record EXCEPT !.phase = "recovering", !.owner = r,
                                !.until = now + Lease]
    /\ recov' = [recov EXCEPT ![r] = [pc |-> "leased", len |-> record.len,
                                      terminal |-> record.terminal]]
    /\ leases' = leases + 1
    /\ again' = IF exec[r].status = "none" THEN again ELSE again \cup {r}
    /\ UNCHANGED <<now, alive, exec, kept>>

\* recoverSnapshot succeeds, however long it took.
RecoverSnapshot(r) ==
    /\ r \in alive
    /\ recov[r].pc = "leased" /\ ~recov[r].terminal
    /\ exec[r].status = "none"
    /\ SetExec(r, NewExec(TRUE, recov[r].len))
    /\ recov' = [recov EXCEPT ![r] = NoRecov]
    /\ UNCHANGED <<record, now, alive, history>>

\* It fails: admission, the receipt binding, the replay of a log that has ended.
\* The record is given back, unless that write fails.
FailRecovery(r) ==
    /\ r \in alive
    /\ recov[r].pc = "leased"
    /\ record' \in {MarkedSuspended, record}
    /\ recov' = [recov EXCEPT ![r] = NoRecov]
    /\ UNCHANGED <<now, alive, exec, history>>

-------------------------------------------------------------------------------
\* The environment

Tick ==
    /\ now < MaxTime
    /\ now' = now + 1
    /\ UNCHANGED <<record, alive, exec, recov, history>>

Crash(r) ==
    /\ r \in alive /\ r \in Crashing
    /\ alive' = alive \ {r}
    /\ UNCHANGED <<record, now, exec, recov, history>>

-------------------------------------------------------------------------------
Next ==
    \/ Tick
    \/ \E r \in Runtimes :
          \/ Dispatch(r) \/ EmitEvent(r) \/ HandlerReturns(r) \/ ControlClaims(r)
          \/ BeginFinalization(r) \/ CleanupFails(r) \/ EmitTerminal(r)
          \/ Suspend(r) \/ Renew(r)
          \/ ClaimRecovery(r) \/ RecoverSnapshot(r) \/ FailRecovery(r)
          \/ Crash(r)

Spec == Init /\ [][Next]_vars

\* The renewal ticker of a live runtime keeps firing.
Fairness == \A r \in Runtimes : WF_vars(Renew(r))

FairSpec == Spec /\ Fairness

-------------------------------------------------------------------------------
\* Properties

\* However leases expire and runtimes stall, crash or give the record up, and
\* whatever read or write of it fails, at most one runtime issues the invocation's
\* terminal receipt - among the runtimes that did not lease the record of an
\* execution they already had.  ClaimRecovery leases to any owner and the fence
\* compares ids only (persistence.go:476, 574), so a runtime that leases its own
\* record again lets its old execution through the fence.
OneTerminalReceipt ==
    \A r, s \in Runtimes \ again :
        exec[r].status = "terminal" /\ exec[s].status = "terminal" => r = s

\* "SuspendForRestart relinquishes running persisted invocations without issuing
\* terminal receipts" (local_runtime.go:1167-1168): a runtime that gave an
\* invocation up, or lost its lease, never ends it, though a cancel may still claim
\* its core.  Two cases are outside: a runtime that leased the record again, and one
\* that a failed read or write made abandon a lease it still held, perhaps with its
\* finalization under way (local_runtime.go:1496-1503): its receipt still follows.
SuspendedIssuesNoReceipt ==
    \A r \in Runtimes \ (again \cup kept) :
        exec[r].suspended => exec[r].status # "terminal"

\* A runtime whose lease went to another stops its execution.  (The first runtime
\* runs without a lease.)
StaleOwnerStops ==
    \A r \in Runtimes \ {First} :
        (exec[r].recovered /\ exec[r].status = "running" /\ record.owner # r) ~>
            \/ exec[r].suspended \/ exec[r].done \/ exec[r].status # "running"
            \/ record.owner = r \/ r \notin alive
-------------------------------------------------------------------------------
\* The inductive strengthening of OneTerminalReceipt and SuspendedIssuesNoReceipt.

Ending(r) == exec[r].status \in {"finalizing", "terminal"}

\* The owner the record shows while r's execution holds it.
Holder(r) == IF exec[r].recovered THEN r ELSE NoOwner

\* Nobody but the dispatching runtime has ever touched the record.
FreshOnly ==
    /\ again = {}
    /\ \A r \in Runtimes : /\ recov[r].pc = "idle"
                            /\ ~exec[r].recovered /\ ~exec[r].suspended

\* What the phase says about the owner and about the log.
PhaseInv ==
    /\ record.phase = "none" => \A r \in Runtimes : exec[r].status = "none"
    /\ record.phase \in {"none", "running"} =>
          FreshOnly /\ record.owner = NoOwner /\ ~record.terminal
    /\ record.phase = "finalizing" /\ record.owner = NoOwner => FreshOnly
    /\ record.phase = "recovering" => record.owner # NoOwner
    /\ record.owner # NoOwner => record.phase \in {"recovering", "finalizing"}

\* What the executions of the runtimes have in common.
ExecInv ==
    /\ \A r, s \in Runtimes :
         /\ exec[r].status # "none" /\ ~exec[r].recovered
         /\ exec[s].status # "none" /\ ~exec[s].recovered
         => r = s
    /\ \A r \in Runtimes :
         /\ exec[r].renewing => exec[r].recovered
         /\ exec[r].status = "none" => /\ ~exec[r].recovered /\ ~exec[r].suspended
                                       /\ r \notin again

\* Who gave the invocation up does not hold the record and is not ending it.
GivenUpInv ==
    \A r \in Runtimes \ (again \cup kept) :
        exec[r].suspended => record.owner # r /\ ~Ending(r)

\* The owner is running the record under its lease, or has only just leased it;
\* if the log has already ended it will not run it.
OwnerInv ==
    \A r \in Runtimes \ again :
        record.owner = r =>
            /\ exec[r].status = "none" \/ exec[r].recovered
            /\ record.terminal =>
                  /\ exec[r].status = "none"
                  /\ recov[r].pc = "leased" => recov[r].terminal

\* Whoever passed the fence still holds the record, or ended its log, and only one
\* runtime ever passes it.
FenceInv ==
    /\ \A r \in Runtimes \ again :
         Ending(r) => \/ record.phase = "finalizing" /\ record.owner = Holder(r)
                      \/ exec[r].status = "terminal" /\ record.terminal
    /\ \A r, s \in Runtimes \ again : Ending(r) /\ Ending(s) => r = s

RecoveryInv == PhaseInv /\ ExecInv /\ GivenUpInv /\ OwnerInv /\ FenceInv
=============================================================================
