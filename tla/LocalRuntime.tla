----------------------------- MODULE LocalRuntime -----------------------------
(***************************************************************************)
(* The registry of LocalRuntime (axon/invocation/local_runtime.go): how    *)
(* invocations are reserved, registered, tied to a parent, and brought to  *)
(* their end by the goroutines that compete for the terminal claim.        *)
(*                                                                         *)
(* For each invocation there are five kinds of goroutine:                  *)
(*                                                                         *)
(*   dispatcher       invokeRegistered, and closeUnstartedInvocation       *)
(*   ability          runAbility around the user's handler                 *)
(*   winner           runCancelWinner, started by the first cancel         *)
(*   deadline         watchDeadline and its timeoutWithControl             *)
(*   parent_deadline  the timeoutWithControl a parent's deadline calls     *)
(*                                                                         *)
(* One step is what a goroutine does between two points where others can   *)
(* interfere: a critical section of the registry mutex r.mu, of a core's   *)
(* mutex (nested in r.mu for a claim), or of the recovery log's lock.      *)
(* Events of the cores other than child_spawned, child_terminal and the    *)
(* terminal ones are left to InvocationCore.                               *)
(***************************************************************************)
EXTENDS Lifecycle, Integers, Sequences, FiniteSets

CONSTANTS
    Invocations,
    NoParent,         \* the parent of a root invocation
    Parent,           \* [Invocations -> Invocations \cup {NoParent}]
    IdOrder,          \* the order of the invocation ids as strings
    PendingCapacity,  \* canonicalPendingCapacity
    WallLimited,      \* invocations whose spec sets WallSeconds
    Persisted,        \* invocations with PersistForRecovery
    ReceiptFaults,    \* event types whose receipt the provider may refuse
    PersistFaults,    \* event types the recovery log may fail to write
    CleanupFaults,    \* invocations whose supervisor cleanup may fail
    WinnerPanics      \* whether beforeCancelWinner may panic

ASSUME RuntimeAssumption ==
    /\ NoParent \notin Invocations
    /\ Parent \in [Invocations -> Invocations \cup {NoParent}]
    /\ IdOrder \in [Invocations -> Nat]
    /\ \A i, j \in Invocations : IdOrder[i] = IdOrder[j] => i = j
    /\ PendingCapacity \in Nat
    /\ WallLimited \subseteq Invocations
    /\ Persisted \subseteq Invocations
    /\ ReceiptFaults \subseteq EventTypes
    /\ PersistFaults \subseteq EventTypes
    /\ CleanupFaults \subseteq Invocations
    /\ WinnerPanics \in BOOLEAN

VARIABLES
    dispatch,        \* where the dispatcher of each invocation is
    core,            \* [Invocations -> Core]
    log,             \* child and terminal events of each core, in order
    terminal,        \* the core's terminal channel is closed
    active,          \* r.active: the invocation holds a registered reservation
    activeCount,     \* r.activeCount
    activeChildren,  \* r.activeChildren
    children,        \* r.children
    deadline,        \* the invocation has an effective deadline
    suspended,       \* execution.suspended
    phase,           \* recovery phase of a persisted invocation
    intent,          \* r.cancelIntents
    pc,              \* [Invocations -> [Kinds -> stage of that goroutine]]
    pending,         \* children a finalizing goroutine still has to end
    err              \* the goroutine ends with an error

registryVars == <<active, activeCount, activeChildren, children, deadline>>
vars == <<dispatch, core, log, terminal, registryVars, suspended, phase, intent,
          pc, pending, err>>

Kinds == {"dispatcher", "ability", "winner", "deadline", "parent_deadline"}

Stages == {"none", "start", "stop", "children", "cleanup", "emit", "callback",
           "evidence", "close", "wait", "done"}

LogEntry == [type : EventTypes, child : Invocations \cup {NoParent}]

Intent == [phase : {"none", "running", "done"}, owner : Claims, err : BOOLEAN]

TypeOK ==
    /\ dispatch \in [Invocations -> {"idle", "reserved", "started", "registered",
                                     "unstarted", "returned", "refused"}]
    /\ core \in [Invocations -> Core]
    /\ log \in [Invocations -> Seq(LogEntry)]
    /\ terminal \in [Invocations -> BOOLEAN]
    /\ active \in [Invocations -> BOOLEAN]
    /\ activeCount \in 0 .. PendingCapacity
    /\ activeChildren \in [Invocations -> 0 .. PendingCapacity]
    /\ children \in [Invocations -> SUBSET Invocations]
    /\ deadline \in [Invocations -> BOOLEAN]
    /\ suspended \in [Invocations -> BOOLEAN]
    /\ phase \in [Invocations -> {"none", "running", "suspended", "finalizing",
                                  "closed"}]
    /\ intent \in [Invocations -> Intent]
    /\ pc \in [Invocations -> [Kinds -> Stages]]
    /\ pending \in [Invocations -> [Kinds -> SUBSET Invocations]]
    /\ err \in [Invocations -> [Kinds -> BOOLEAN]]

ForEach(v) == [i \in Invocations |-> v]

Init ==
    /\ dispatch = ForEach("idle")
    /\ core = ForEach(NewCore)
    /\ log = ForEach(<<>>)
    /\ terminal = ForEach(FALSE)
    /\ active = ForEach(FALSE)
    /\ activeCount = 0
    /\ activeChildren = ForEach(0)
    /\ children = ForEach({})
    /\ deadline = ForEach(FALSE)
    /\ suspended = ForEach(FALSE)
    /\ phase = ForEach("none")
    /\ intent = ForEach([phase |-> "none", owner |-> "none", err |-> FALSE])
    /\ pc = ForEach([k \in Kinds |-> "none"])
    /\ pending = ForEach([k \in Kinds |-> {}])
    /\ err = ForEach([k \in Kinds |-> FALSE])

-------------------------------------------------------------------------------
\* Shared pieces

HasParent(i) == Parent[i] # NoParent

Registered(i) == dispatch[i] \in {"registered", "unstarted", "returned"}

Goto(i, k, stage) == pc' = [pc EXCEPT ![i][k] = stage]

\* claimTerminal, always called with r.mu held.
Claim(i, owner) == core' = [core EXCEPT ![i].claim = owner]

\* Fault: the parent's share of the reservation is forgotten.
ReleaseRootOnly(i) ==
    /\ activeCount' = IF activeCount > 0 THEN activeCount - 1 ELSE 0
    /\ UNCHANGED activeChildren

\* One reservation is returned: to the runtime, and to the parent if any.
ReleaseReservation(i) ==
    /\ activeCount' = IF activeCount > 0 THEN activeCount - 1 ELSE 0
    /\ activeChildren' =
         [p \in Invocations |-> IF p = Parent[i] /\ activeChildren[p] > 0
                                THEN activeChildren[p] - 1 ELSE activeChildren[p]]

\* A goroutine ends; the winner of a cancel completes the intent with its result.
Finish(i, k, failure) ==
    /\ Goto(i, k, "done")
    /\ err' = [err EXCEPT ![i][k] = failure]
    /\ intent' = IF k = "winner"
                 THEN [intent EXCEPT ![i].phase = "done", ![i].err = failure]
                 ELSE intent

\* failFinalization: effective once and never after a terminal event.
FailFinalization(i) ==
    IF CanFailFinalization(core[i])
    THEN /\ core' = [core EXCEPT ![i].finErr = TRUE]
         /\ terminal' = [terminal EXCEPT ![i] = TRUE]
    ELSE UNCHANGED <<core, terminal>>

-------------------------------------------------------------------------------
\* Dispatch

\* reserveInvocation: the runtime's and the parent's capacity, a running parent
\* nobody has claimed, and the parent's deadline if it has one.
Reserve(i) ==
    /\ dispatch[i] = "idle"
    /\ activeCount < PendingCapacity
    /\ HasParent(i) =>
         /\ Registered(Parent[i])
         /\ core[Parent[i]].state = "RUNNING" /\ core[Parent[i]].claim = "none"
         /\ activeChildren[Parent[i]] < PendingCapacity
    /\ dispatch' = [dispatch EXCEPT ![i] = "reserved"]
    /\ activeCount' = activeCount + 1
    /\ activeChildren' = [p \in Invocations |->
                            activeChildren[p] + (IF p = Parent[i] THEN 1 ELSE 0)]
    /\ deadline' = [deadline EXCEPT ![i] =
                      i \in WallLimited \/ (HasParent(i) /\ deadline[Parent[i]])]
    /\ UNCHANGED <<core, log, terminal, active, children, suspended, phase,
                   intent, pc, pending, err>>

\* The receipt context is bound, the recovery record written, and the core taken
\* to RUNNING before anybody else can reach it.
StartCore(i) ==
    /\ dispatch[i] = "reserved"
    /\ dispatch' = [dispatch EXCEPT ![i] = "started"]
    /\ core' = [core EXCEPT ![i].state = "RUNNING"]
    /\ phase' = [phase EXCEPT ![i] = IF i \in Persisted THEN "running" ELSE "none"]
    /\ UNCHANGED <<log, terminal, registryVars, suspended, intent, pc, pending, err>>

\* Any of those steps fails: the reservation is released, and the record closed
\* if it was written at all.
AbandonReservation(i) ==
    /\ dispatch[i] = "reserved"
    /\ dispatch' = [dispatch EXCEPT ![i] = "refused"]
    /\ ReleaseReservation(i)
    /\ \/ UNCHANGED phase
       \/ i \in Persisted /\ phase' = [phase EXCEPT ![i] = "closed"]
    /\ UNCHANGED <<core, log, terminal, active, children, deadline, suspended,
                   intent, pc, pending, err>>

Register(i) ==
    /\ dispatch[i] = "started"
    /\ dispatch' = [dispatch EXCEPT ![i] = "registered"]
    /\ active' = [active EXCEPT ![i] = TRUE]
    /\ children' = [p \in Invocations |->
                      IF p = Parent[i] THEN children[p] \cup {i} ELSE children[p]]
    /\ UNCHANGED <<core, log, terminal, activeCount, activeChildren, deadline,
                   suspended, phase, intent, pc, pending, err>>

\* The core of the parent accepts a child_spawned event: it is running, neither
\* claimed nor failed.
SpawnAllowed(i) == EmitAllowed(core[Parent[i]], "child_spawned", "RUNNING", FALSE)

\* AppendLifecycleEvent writes only while the record is this runtime's.
RecordWritable(i) == i \in Persisted => phase[i] \in {"running", "finalizing"}

SpawnEvent(i) == [type |-> "child_spawned", child |-> i]

\* The spawn is committed (or there is no parent): the ability and the deadline
\* watcher start, and the caller gets its handle.
CommitSpawn(i) ==
    /\ dispatch[i] = "registered"
    /\ HasParent(i) => SpawnAllowed(i) /\ RecordWritable(Parent[i])
    /\ dispatch' = [dispatch EXCEPT ![i] = "returned"]
    /\ log' = IF HasParent(i)
              THEN [log EXCEPT ![Parent[i]] = Append(@, SpawnEvent(i))]
              ELSE log
    /\ pc' = [pc EXCEPT ![i]["ability"] = "start",
                        ![i]["deadline"] = IF deadline[i] THEN "start" ELSE "none"]
    /\ UNCHANGED <<core, terminal, registryVars, suspended, phase, intent,
                   pending, err>>

\* The spawn fails and closeUnstartedInvocation takes the child over: the parent's
\* core or the receipt provider refuses the event, or the recovery log does, which
\* returns an error although the event is appended.
RefuseSpawn(i) ==
    /\ dispatch[i] = "registered" /\ HasParent(i)
    /\ \/ /\ ~SpawnAllowed(i) \/ "child_spawned" \in ReceiptFaults
          /\ UNCHANGED log
       \/ /\ SpawnAllowed(i)
          /\ \/ ~RecordWritable(Parent[i])
             \/ Parent[i] \in Persisted /\ "child_spawned" \in PersistFaults
          /\ log' = [log EXCEPT ![Parent[i]] = Append(@, SpawnEvent(i))]
    /\ dispatch' = [dispatch EXCEPT ![i] = "unstarted"]
    /\ Goto(i, "dispatcher", "start")
    /\ UNCHANGED <<core, terminal, registryVars, suspended, phase, intent,
                   pending, err>>

-------------------------------------------------------------------------------
\* The race for the terminal claim

\* closeUnstartedInvocation claims as a failure unless the child was suspended.
ClaimUnstarted(i) ==
    /\ pc[i]["dispatcher"] = "start"
    /\ \/ /\ suspended[i]
          /\ Goto(i, "dispatcher", "done") /\ UNCHANGED core
       \/ /\ ~suspended[i] /\ CanClaim(core[i])
          /\ Claim(i, "failure") /\ Goto(i, "dispatcher", "cleanup")
       \/ /\ ~suspended[i] /\ ~CanClaim(core[i])
          /\ Goto(i, "dispatcher", "wait") /\ UNCHANGED core
    /\ UNCHANGED <<dispatch, log, terminal, registryVars, suspended, phase,
                   intent, pending, err>>

\* The handler returned, failed or panicked: runAbility claims unless it was
\* suspended; a lost claim just ends the goroutine.
AbilityReturns(i, owner) ==
    /\ pc[i]["ability"] = "start"
    /\ owner \in {"completion", "failure"}
    /\ IF ~suspended[i] /\ CanClaim(core[i])
       THEN Claim(i, owner) /\ Goto(i, "ability", "cleanup")
       ELSE Goto(i, "ability", "done") /\ UNCHANGED core
    /\ UNCHANGED <<dispatch, log, terminal, registryVars, suspended, phase,
                   intent, pending, err>>

\* cancelWithControlOwner: the first cancel of an unfinished invocation records
\* the intent and starts the winner; later ones wait for the same intent.
StartIntent(i, owner) ==
    /\ intent[i].phase = "none" /\ ~IsTerminal(core[i].state)
    /\ intent' = [intent EXCEPT ![i].phase = "running", ![i].owner = owner]
    /\ Goto(i, "winner", "start")

CallerCancel(i) ==
    /\ dispatch[i] = "returned"
    /\ StartIntent(i, "caller_cancel")
    /\ UNCHANGED <<dispatch, core, log, terminal, registryVars, suspended, phase,
                   pending, err>>

\* Fault: the children are not collected.
ClaimWithoutChildren(i, k, owner) ==
    IF CanClaim(core[i])
    THEN /\ Claim(i, owner) /\ Goto(i, k, "stop") /\ UNCHANGED pending
    ELSE /\ Goto(i, k, "wait") /\ UNCHANGED <<core, pending>>

\* A claim of a cancel or a deadline reads the children in the same critical
\* section of r.mu; the loser waits for the terminal channel.
ClaimWithChildren(i, k, owner) ==
    IF CanClaim(core[i])
    THEN /\ Claim(i, owner) /\ Goto(i, k, "stop")
         /\ pending' = [pending EXCEPT ![i][k] = children[i]]
    ELSE /\ Goto(i, k, "wait") /\ UNCHANGED <<core, pending>>

WinnerClaims(i) ==
    /\ pc[i]["winner"] = "start"
    /\ ClaimWithChildren(i, "winner", intent[i].owner)
    /\ UNCHANGED <<dispatch, log, terminal, registryVars, suspended, phase,
                   intent, err>>

\* The winner panics before it claims: closePanickedCancelWinner claims as a
\* failure, joins a failure claim that is already being finalized, and leaves
\* any other claim to its owner.  The intent ends with an error either way, and
\* the children are not cancelled.  Its branch for a cancel claim (lines 1022-1036)
\* needs a panic behind the claim: cleanup callbacks are recovered (supervisor.go:225)
\* and no other foreign code runs there but the receipt provider, under the core's
\* mutex, which a panic leaves locked: the branch is not reached.
WinnerPanicked(i) ==
    /\ WinnerPanics /\ pc[i]["winner"] = "start"
    /\ \/ /\ CanClaim(core[i])
          /\ Claim(i, "failure") /\ Goto(i, "winner", "stop")
          /\ err' = [err EXCEPT ![i]["winner"] = TRUE] /\ UNCHANGED intent
       \/ /\ core[i].claim = "failure"
          /\ Goto(i, "winner", "stop")
          /\ err' = [err EXCEPT ![i]["winner"] = TRUE] /\ UNCHANGED <<core, intent>>
       \/ /\ core[i].claim \notin {"none", "failure"}
          /\ Finish(i, "winner", TRUE) /\ UNCHANGED core
    /\ UNCHANGED <<dispatch, log, terminal, registryVars, suspended, phase, pending>>

\* Fault: the timer fires and nothing is claimed.
DeadlineGivesUp(i) ==
    /\ pc[i]["deadline"] = "start"
    /\ Goto(i, "deadline", "done")
    /\ UNCHANGED <<dispatch, core, log, terminal, registryVars, suspended, phase,
                   intent, pending, err>>

\* watchDeadline: the timer fires, or the execution ends first.
DeadlineFires(i) ==
    /\ pc[i]["deadline"] = "start"
    /\ ClaimWithChildren(i, "deadline", "deadline")
    /\ UNCHANGED <<dispatch, log, terminal, registryVars, suspended, phase,
                   intent, err>>

ExecutionDone(i) == pc[i]["ability"] = "done"

WatcherExits(i) ==
    /\ pc[i]["deadline"] = "start" /\ ExecutionDone(i)
    /\ Goto(i, "deadline", "done")
    /\ UNCHANGED <<dispatch, core, log, terminal, registryVars, suspended, phase,
                   intent, pending, err>>

\* Fault: only a terminal state releases a waiter, not a failed finalization.
WaitTerminalState(i, k) ==
    /\ pc[i][k] = "wait" /\ terminal[i] /\ IsTerminal(core[i].state)
    /\ Finish(i, k, core[i].finErr)
    /\ UNCHANGED <<dispatch, core, log, terminal, registryVars, suspended, phase,
                   pending>>

\* WaitTerminal returns, with the finalization error if there is one.
WaitTerminal(i, k) ==
    /\ pc[i][k] = "wait" /\ terminal[i]
    /\ Finish(i, k, core[i].finErr)
    /\ UNCHANGED <<dispatch, core, log, terminal, registryVars, suspended, phase,
                   pending>>

-------------------------------------------------------------------------------
\* Finalization

\* signalTerminalStop cancels the execution; the children come next.
SignalStop(i, k) ==
    /\ pc[i][k] = "stop"
    /\ Goto(i, k, "children")
    /\ UNCHANGED <<dispatch, core, log, terminal, registryVars, suspended, phase,
                   intent, pending, err>>

\* The children are ended one after the other, in the order of their ids.
IsNextChild(i, k, c) ==
    /\ c \in pending[i][k]
    /\ \A d \in pending[i][k] : IdOrder[c] <= IdOrder[d]

\* The winner asks for a child's cancellation.
CancelChild(i, c) ==
    /\ pc[i]["winner"] = "children" /\ IsNextChild(i, "winner", c)
    /\ StartIntent(c, "parent_cancel")
    /\ UNCHANGED <<dispatch, core, log, terminal, registryVars, suspended, phase,
                   pending, err>>

\* A deadline claims a child as a deadline too, or waits for the child's end.
TimeoutChild(i, k, c) ==
    /\ k \in {"deadline", "parent_deadline"}
    /\ pc[i][k] = "children" /\ IsNextChild(i, k, c)
    /\ pc[c]["parent_deadline"] = "none"
    /\ ClaimWithChildren(c, "parent_deadline", "deadline")
    /\ UNCHANGED <<dispatch, log, terminal, registryVars, suspended, phase,
                   intent, err>>

\* The call on a child has returned, and whether with an error.
ChildReturned(k, c) ==
    IF k = "winner"
    THEN IF intent[c].phase = "none" THEN terminal[c] /\ IsTerminal(core[c].state)
                                     ELSE intent[c].phase = "done"
    ELSE pc[c]["parent_deadline"] = "done"

ChildError(k, c) ==
    IF k = "winner" THEN intent[c].err ELSE err[c]["parent_deadline"]

\* A child ended: next child.  A child that could not be finalized fails the
\* parent's finalization, which then issues no terminal receipt.
AwaitChild(i, k, c) ==
    /\ pc[i][k] = "children" /\ IsNextChild(i, k, c)
    /\ ChildReturned(k, c)
    /\ \/ /\ ~ChildError(k, c)
          /\ pending' = [pending EXCEPT ![i][k] = @ \ {c}]
          /\ UNCHANGED <<core, terminal, pc, err, intent>>
       \/ /\ ChildError(k, c)
          /\ FailFinalization(i) /\ Finish(i, k, TRUE)
          /\ UNCHANGED pending
    /\ UNCHANGED <<dispatch, log, registryVars, suspended, phase>>

ChildrenEnded(i, k) ==
    /\ pc[i][k] = "children" /\ pending[i][k] = {}
    /\ Goto(i, k, "cleanup")
    /\ UNCHANGED <<dispatch, core, log, terminal, registryVars, suspended, phase,
                   intent, pending, err>>

\* BeginFinalization: a runtime that gave the record up may not finalize it.
CanBeginFinalization(i) == phase[i] \in {"running", "finalizing"}

\* finishCleanup: durable fence first, then the supervisor's terminal flow.
FinishCleanup(i, k) ==
    /\ pc[i][k] = "cleanup"
    /\ \/ /\ i \in Persisted /\ ~CanBeginFinalization(i)
          /\ FailFinalization(i) /\ Finish(i, k, TRUE)
          /\ UNCHANGED phase
       \/ /\ i \in Persisted => CanBeginFinalization(i)
          /\ phase' = IF i \in Persisted THEN [phase EXCEPT ![i] = "finalizing"]
                                         ELSE phase
          /\ \/ /\ Goto(i, k, "emit")
                /\ UNCHANGED <<core, terminal, err, intent>>
             \/ /\ i \in CleanupFaults
                /\ FailFinalization(i) /\ Finish(i, k, TRUE)
    /\ UNCHANGED <<dispatch, log, registryVars, suspended, pending>>

\* The terminal event each goroutine emits.
FinalEvent(i, k) ==
    CASE k \in {"deadline", "parent_deadline"} -> "timed_out"
      [] k = "dispatcher"                      -> "failed"
      [] OTHER                                 -> TerminalEventOf(core[i].claim)

\* The terminal emit: committed, or refused by the core or the provider, which
\* ends the goroutine with the invocation still not terminal.
EmitTerminal(i, k) ==
    LET event   == FinalEvent(i, k)
        allowed == EmitAllowed(core[i], event, TargetOf(event), FALSE)
    IN
    /\ pc[i][k] = "emit"
    /\ \/ /\ ~allowed \/ event \in ReceiptFaults
          /\ Finish(i, k, TRUE)
          /\ UNCHANGED <<core, log, phase>>
       \/ /\ allowed
          /\ core' = [core EXCEPT ![i].state = TargetOf(event)]
          /\ log' = [log EXCEPT ![i] = Append(@, [type |-> event, child |-> NoParent])]
          /\ Goto(i, k, "callback")
          /\ \/ /\ phase' = IF i \in Persisted THEN [phase EXCEPT ![i] = "closed"]
                                               ELSE phase
                /\ UNCHANGED err
             \/ /\ i \in Persisted /\ event \in PersistFaults
                /\ err' = [err EXCEPT ![i][k] = TRUE]
                /\ UNCHANGED phase
          /\ UNCHANGED intent
    /\ UNCHANGED <<dispatch, terminal, registryVars, suspended, pending>>

\* onInvocationTerminal, the registry half.
OnTerminal(i, k) ==
    /\ pc[i][k] = "callback"
    /\ IF active[i]
       THEN active' = [active EXCEPT ![i] = FALSE] /\ ReleaseReservation(i)
       ELSE UNCHANGED <<active, activeCount, activeChildren>>
    /\ Goto(i, k, "evidence")
    /\ UNCHANGED <<dispatch, core, log, terminal, children, deadline, suspended,
                   phase, intent, pending, err>>

\* onInvocationTerminal, the other half: the parent's child_terminal event, whose
\* failure is ignored.
EmitChildTerminal(i, k) ==
    /\ pc[i][k] = "evidence"
    /\ \/ /\ HasParent(i)
          /\ EmitAllowed(core[Parent[i]], "child_terminal", "RUNNING", FALSE)
          /\ log' = [log EXCEPT ![Parent[i]] =
                       Append(@, [type |-> "child_terminal", child |-> i])]
       \/ /\ HasParent(i) =>
               \/ ~EmitAllowed(core[Parent[i]], "child_terminal", "RUNNING", FALSE)
               \/ "child_terminal" \in ReceiptFaults
          /\ UNCHANGED log
    /\ Goto(i, k, "close")
    /\ UNCHANGED <<dispatch, core, terminal, registryVars, suspended, phase,
                   intent, pending, err>>

CloseTerminal(i, k) ==
    /\ pc[i][k] = "close"
    /\ terminal' = [terminal EXCEPT ![i] = TRUE]
    /\ Finish(i, k, err[i][k])
    /\ UNCHANGED <<dispatch, core, log, registryVars, suspended, phase, pending>>

\* SuspendForRestart gives up one persisted invocation nobody has claimed: the
\* record is marked, the reservation released, the execution cancelled, all in
\* one critical section of r.mu.
Suspend(i) ==
    /\ Registered(i) /\ i \in Persisted
    /\ active[i] /\ ~suspended[i]
    /\ core[i].claim = "none" /\ ~IsTerminal(core[i].state)
    /\ phase[i] # "finalizing"
    /\ phase' = [phase EXCEPT ![i] = "suspended"]
    /\ suspended' = [suspended EXCEPT ![i] = TRUE]
    /\ active' = [active EXCEPT ![i] = FALSE]
    /\ ReleaseReservation(i)
    /\ UNCHANGED <<dispatch, core, log, terminal, children, deadline, intent, pc,
                   pending, err>>

-------------------------------------------------------------------------------
DispatchStep(i) == \/ StartCore(i) \/ Register(i) \/ CommitSpawn(i)
                   \/ RefuseSpawn(i) \/ ClaimUnstarted(i)

FinalizeStep(i, k) ==
    \/ SignalStop(i, k) \/ ChildrenEnded(i, k) \/ FinishCleanup(i, k)
    \/ EmitTerminal(i, k) \/ OnTerminal(i, k) \/ EmitChildTerminal(i, k)
    \/ CloseTerminal(i, k) \/ WaitTerminal(i, k)
    \/ \E c \in Invocations : TimeoutChild(i, k, c) \/ AwaitChild(i, k, c)

CancelStep(i) == WinnerClaims(i) \/ \E c \in Invocations : CancelChild(i, c)

DeadlineStep(i) == DeadlineFires(i)

Next ==
    \E i \in Invocations :
        \/ Reserve(i) \/ AbandonReservation(i)
        \/ DispatchStep(i)
        \/ \E owner \in {"completion", "failure"} : AbilityReturns(i, owner)
        \/ CallerCancel(i) \/ CancelStep(i) \/ WinnerPanicked(i)
        \/ DeadlineStep(i) \/ WatcherExits(i)
        \/ \E k \in Kinds : FinalizeStep(i, k)
        \/ Suspend(i)

Spec == Init /\ [][Next]_vars

\* Goroutines of the SDK are scheduled and a timer fires.  Nothing obliges a
\* handler to return, a caller to cancel or to dispatch, or anybody to suspend.
Fairness ==
    \A i \in Invocations :
        /\ WF_vars(DispatchStep(i))
        /\ WF_vars(CancelStep(i))
        /\ WF_vars(DeadlineStep(i))
        /\ \A k \in Kinds : WF_vars(FinalizeStep(i, k))

FairSpec == Spec /\ Fairness

-------------------------------------------------------------------------------
\* Properties

\* An invocation holds a reservation from reserveInvocation until it is refused,
\* suspended, or its terminal callback has run; a failed cleanup keeps it.
CallbackRan(i) ==
    \E k \in Kinds : /\ IsTerminal(core[i].state)
                     /\ pc[i][k] \in {"evidence", "close", "done"}
                     /\ \A l \in Kinds : pc[i][l] # "callback"

HoldsReservation(i) ==
    /\ dispatch[i] \notin {"idle", "refused"}
    /\ ~suspended[i]
    /\ ~CallbackRan(i)

\* The counters that bound the runtime (activeCount, activeChildren) are exactly
\* the reservations held, over every error path, race and suspension.
ReservationsExact ==
    /\ activeCount = Cardinality({i \in Invocations : HoldsReservation(i)})
    /\ \A p \in Invocations :
         activeChildren[p] = Cardinality({c \in Invocations : Parent[c] = p
                                                              /\ HoldsReservation(c)})

SpawnedChildren(p) ==
    {c \in Invocations : \E n \in DOMAIN log[p] : log[p][n] = SpawnEvent(c)}

\* "Parent cancellation and deadlines commit child terminal evidence before the
\* parent terminal receipt" (README.md:132-134), for every child whose dispatch
\* was committed in the parent's chain.
SpawnedChildrenEndFirst ==
    \A p \in Invocations :
        core[p].state \in {"CANCELLED", "TIMED_OUT"} =>
            \A c \in SpawnedChildren(p) : IsTerminal(core[c].state)

\* Every cancel is answered: the intent completes although the handler ignores
\* the stop signal and other goroutines own the claim.
CancelAnswered ==
    \A i \in Invocations : (intent[i].phase = "running") ~> (intent[i].phase = "done")

\* A deadline ends the invocation although its handler never returns.
DeadlineEnds ==
    \A i \in WallLimited :
        (dispatch[i] = "returned" /\ deadline[i]) ~>
            (IsTerminal(core[i].state) \/ core[i].finErr \/ suspended[i])
=============================================================================
