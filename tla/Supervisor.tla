------------------------------ MODULE Supervisor ------------------------------
(***************************************************************************)
(* The process guard of one invocation (axon/invocation/supervisor*.go):   *)
(* process groups, cleanup and cancel callbacks, the single cleanup        *)
(* attempt behind terminalOnce, the record that survives a crash and the   *)
(* reaper that works from it.                                              *)
(*                                                                         *)
(* A process group has a leader, which stays a zombie until it is waited   *)
(* for, and other members.  Signals may be refused, callbacks may panic,   *)
(* files may not be written; time limits may fire at any moment.           *)
(***************************************************************************)
EXTENDS Integers, FiniteSets

CONSTANTS
    Groups,     \* process groups the ability may spawn
    Callbacks,  \* cleanup callbacks it may register
    Callers,    \* goroutines that run the cancel or completion flow
    NoGroup,
    Persist,    \* Spec.PersistForRecovery
    MaxSpawned  \* ResourceLimit.SubprocessCount, 0 for none

ASSUME SupervisorAssumption ==
    /\ NoGroup \notin Groups
    /\ Persist \in BOOLEAN
    /\ MaxSpawned \in Nat

VARIABLES
    phase,
    processes,    \* groups in s.processes
    cleanupCbs,   \* callbacks waiting to be run
    ran,          \* callbacks that were run
    late,         \* callbacks RegisterCleanup runs itself
    onCancel,     \* number of cancel callbacks registered: 0 or 1
    spawning,     \* [group, step] of SpawnProcessGroup, which holds s.mu
    flow,         \* [Callers -> the flow it is in]
    attempt,      \* liveCleanupAttempt
    group,        \* [Groups -> its members]
    signal,       \* [Groups -> the last signal of the cleanup]
    file,         \* the recovery record
    unwritten,    \* persist failed to write the record
    crashed,      \* the process of the supervisor is gone
    reaper        \* ReapOrphans of a later process

memory == <<phase, processes, cleanupCbs, ran, late, onCancel, spawning, flow, attempt>>
world == <<group, signal, file, unwritten, crashed, reaper>>
supervisorVars == <<memory, world>>

Phases == {"active", "closing", "closed", "failed"}

Group == [leader : {"none", "runs", "zombie", "reaped"}, rest : BOOLEAN]

Attempt ==
    [pc      : {"none", "begin", "term", "grace", "kill", "observe", "callbacks",
                "done"},
     cancel  : BOOLEAN,              \* started by the cancel flow
     groups  : SUBSET Groups,        \* processes it copied
     waits   : BOOLEAN,              \* the children are being waited for
     todo    : SUBSET Callbacks,     \* callbacks it took
     failure : BOOLEAN]

File == [kind : {"none", "torn", "record"}, groups : SUBSET Groups]
NoFile == [kind |-> "none", groups |-> {}]
NoSpawn == [group |-> NoGroup, step |-> "none"]

SupervisorTypeOK ==
    /\ phase \in Phases
    /\ processes \subseteq Groups
    /\ cleanupCbs \subseteq Callbacks /\ ran \subseteq Callbacks
    /\ late \subseteq Callbacks
    /\ onCancel \in 0..1
    /\ spawning \in [group : Groups \cup {NoGroup}, step : {"none", "start", "write"}]
    /\ flow \in [Callers -> {"idle", "waits", "returned"}]
    /\ attempt \in Attempt
    /\ group \in [Groups -> Group]
    /\ signal \in [Groups -> {"none", "kill", "denied"}]
    /\ file \in File
    /\ unwritten \in BOOLEAN /\ crashed \in BOOLEAN
    /\ reaper \in [pc : {"idle", "confirm"}, groups : SUBSET Groups]

SupervisorInit ==
    /\ phase = "active"
    /\ processes = {} /\ cleanupCbs = {} /\ ran = {} /\ late = {} /\ onCancel = 0
    /\ spawning = NoSpawn
    /\ flow = [c \in Callers |-> "idle"]
    /\ attempt = [pc |-> "none", cancel |-> FALSE, groups |-> {}, waits |-> FALSE,
                  todo |-> {}, failure |-> FALSE]
    /\ group = [g \in Groups |-> [leader |-> "none", rest |-> FALSE]]
    /\ signal = [g \in Groups |-> "none"]
    /\ file = NoFile
    /\ unwritten = FALSE /\ crashed = FALSE
    /\ reaper = [pc |-> "idle", groups |-> {}]

\* nativeGroupSignal(pgid, 0) finds nobody: a zombie leader still counts.
Absent(g) == group[g].leader \in {"none", "reaped"} /\ ~group[g].rest

\* s.mu can be taken: SpawnProcessGroup holds it throughout.
Unlocked == ~crashed /\ spawning = NoSpawn

-------------------------------------------------------------------------------
\* The ability

\* RegisterCleanup: the caller runs the callback itself when the barrier has closed.
RegisterCleanup(k) ==
    /\ Unlocked
    /\ k \notin cleanupCbs \cup ran \cup late \cup attempt.todo
    /\ IF phase = "closed"
       THEN late' = late \cup {k} /\ UNCHANGED cleanupCbs
       ELSE cleanupCbs' = cleanupCbs \cup {k} /\ UNCHANGED late
    /\ UNCHANGED <<phase, processes, ran, onCancel, spawning, flow, attempt, world>>

RunLate(k) ==
    /\ ~crashed /\ k \in late
    /\ late' = late \ {k} /\ ran' = ran \cup {k}
    /\ UNCHANGED <<phase, processes, cleanupCbs, onCancel, spawning, flow, attempt,
                   world>>

OnCancel ==
    /\ Unlocked /\ phase = "active" /\ onCancel = 0
    /\ onCancel' = 1
    /\ UNCHANGED <<phase, processes, cleanupCbs, ran, late, spawning, flow, attempt,
                   world>>

\* Fault: the phase is not looked at.
CanSpawnLate == MaxSpawned > 0 => Cardinality(processes) < MaxSpawned

\* SpawnProcessGroup's refusals.
CanSpawn ==
    /\ phase = "active"
    /\ MaxSpawned > 0 => Cardinality(processes) < MaxSpawned

\* SpawnProcessGroup: the command starts ...
Spawn(g) ==
    /\ Unlocked /\ CanSpawn
    /\ group[g].leader = "none"
    /\ group' = [group EXCEPT ![g] = [leader |-> "runs", rest |-> FALSE]]
    /\ processes' = processes \cup {g}
    /\ spawning' = IF Persist THEN [group |-> g, step |-> "start"] ELSE NoSpawn
    /\ UNCHANGED <<phase, cleanupCbs, ran, late, onCancel, flow, attempt, signal,
                   file, unwritten, crashed, reaper>>

\* ... persist truncates the record ...
PersistTruncates ==
    /\ ~crashed /\ spawning.step = "start"
    /\ file' = [kind |-> "torn", groups |-> {}]
    /\ spawning' = [spawning EXCEPT !.step = "write"]
    /\ UNCHANGED <<phase, processes, cleanupCbs, ran, late, onCancel, flow, attempt,
                   group, signal, unwritten, crashed, reaper>>

\* ... and writes all groups, or fails without a word.
PersistWrites ==
    /\ ~crashed /\ spawning.step = "write"
    /\ file' = [kind |-> "record", groups |-> processes]
    /\ spawning' = NoSpawn
    /\ UNCHANGED <<phase, processes, cleanupCbs, ran, late, onCancel, flow, attempt,
                   group, signal, unwritten, crashed, reaper>>

PersistFails ==
    /\ ~crashed /\ spawning.step \in {"start", "write"}
    /\ unwritten' = TRUE
    /\ spawning' = NoSpawn
    /\ UNCHANGED <<phase, processes, cleanupCbs, ran, late, onCancel, flow, attempt,
                   group, signal, file, crashed, reaper>>

-------------------------------------------------------------------------------
\* The cleanup

AttemptAt(pc, fails) ==
    attempt' = [attempt EXCEPT !.pc = pc, !.failure = @ \/ fails]

\* runTerminalFlow: the first caller starts the attempt, all wait for it.
RunTerminalFlow(c, cancelled) ==
    /\ Unlocked
    /\ flow[c] = "idle"
    /\ flow' = [flow EXCEPT ![c] = "waits"]
    /\ IF attempt.pc = "none"
       THEN /\ phase' = "closing"
            /\ attempt' = [attempt EXCEPT !.pc = "begin", !.cancel = cancelled]
       ELSE UNCHANGED <<phase, attempt>>
    /\ UNCHANGED <<processes, cleanupCbs, ran, late, onCancel, spawning, world>>

FlowReturns(c) ==
    /\ ~crashed /\ flow[c] = "waits" /\ attempt.pc = "done"
    /\ flow' = [flow EXCEPT ![c] = "returned"]
    /\ UNCHANGED <<phase, processes, cleanupCbs, ran, late, onCancel, spawning,
                   attempt, world>>

\* run: copies the processes, takes the cancel callbacks and runs them in a cancel.
Begin ==
    /\ Unlocked /\ attempt.pc = "begin"
    /\ onCancel' = 0
    /\ \E panics \in {FALSE, attempt.cancel /\ onCancel = 1} :
          attempt' = [attempt EXCEPT !.pc = "term", !.groups = processes,
                                     !.failure = panics]
    /\ UNCHANGED <<phase, processes, cleanupCbs, ran, late, spawning, flow, world>>

\* Every child is waited for, every group gets SIGTERM.
Term ==
    /\ ~crashed /\ attempt.pc = "term"
    /\ \E refused \in {FALSE, attempt.groups # {}} :
          attempt' = [attempt EXCEPT !.pc = "grace", !.waits = TRUE,
                                     !.failure = @ \/ refused]
    /\ UNCHANGED <<phase, processes, cleanupCbs, ran, late, onCancel, spawning, flow,
                   world>>

\* The children exit, the grace time passes or the context is done.
GraceEnds ==
    /\ ~crashed /\ attempt.pc = "grace"
    /\ AttemptAt("kill", FALSE)
    /\ UNCHANGED <<phase, processes, cleanupCbs, ran, late, onCancel, spawning, flow,
                   world>>

\* Groups the probe does not prove absent.
KillTargets == {g \in attempt.groups : ~Absent(g)}

Kill ==
    /\ ~crashed /\ attempt.pc = "kill"
    /\ \E denied \in SUBSET KillTargets :
          /\ signal' = [g \in Groups |-> IF g \in denied THEN "denied"
                                         ELSE IF g \in KillTargets THEN "kill"
                                         ELSE signal[g]]
          /\ AttemptAt("observe", denied # {})
    /\ UNCHANGED <<phase, processes, cleanupCbs, ran, late, onCancel, spawning, flow,
                   group, file, unwritten, crashed, reaper>>

\* Every child was waited for and every group is absent.
AllExited == \A g \in attempt.groups : Absent(g)

ObserveAbsent ==
    /\ ~crashed /\ attempt.pc = "observe"
    /\ AllExited
    /\ AttemptAt("callbacks", FALSE)
    /\ UNCHANGED <<phase, processes, cleanupCbs, ran, late, onCancel, spawning, flow,
                   world>>

\* A probe or a wait fails: the attempt has failed but goes on observing.
ObserveFails ==
    /\ ~crashed /\ attempt.pc = "observe" /\ attempt.groups # {} /\ ~attempt.failure
    /\ AttemptAt("observe", TRUE)
    /\ UNCHANGED <<phase, processes, cleanupCbs, ran, late, onCancel, spawning, flow,
                   world>>

\* Fault: an attempt that has failed before never runs out of time.
ObserveTimesOutUnfailed ==
    /\ Unlocked /\ attempt.pc = "observe" /\ attempt.groups # {} /\ ~attempt.failure
    /\ phase' = "failed"
    /\ AttemptAt("done", TRUE)
    /\ UNCHANGED <<processes, cleanupCbs, ran, late, onCancel, spawning, flow, world>>

\* The observation budget is spent: no callback is run.
ObserveTimesOut ==
    /\ Unlocked /\ attempt.pc = "observe" /\ attempt.groups # {}
    /\ phase' = "failed"
    /\ AttemptAt("done", TRUE)
    /\ UNCHANGED <<processes, cleanupCbs, ran, late, onCancel, spawning, flow, world>>

\* Callbacks are taken in turns until there are none.
TakeCallbacks ==
    /\ Unlocked /\ attempt.pc = "callbacks" /\ attempt.todo = {} /\ cleanupCbs # {}
    /\ attempt' = [attempt EXCEPT !.todo = cleanupCbs]
    /\ cleanupCbs' = {}
    /\ UNCHANGED <<phase, processes, ran, late, onCancel, spawning, flow, world>>

RunCallback(k) ==
    /\ ~crashed /\ attempt.pc = "callbacks" /\ k \in attempt.todo
    /\ ran' = ran \cup {k}
    /\ \E panics \in BOOLEAN :
          attempt' = [attempt EXCEPT !.todo = @ \ {k}, !.failure = @ \/ panics]
    /\ UNCHANGED <<phase, processes, cleanupCbs, late, onCancel, spawning, flow, world>>

NothingLeft == attempt.todo = {} /\ cleanupCbs = {}

\* The record is removed and the outcome published in one critical section.
Publish ==
    /\ Unlocked /\ attempt.pc = "callbacks" /\ NothingLeft
    /\ \E kept \in {FALSE, Persist /\ ~attempt.failure} :
          /\ file' = IF Persist /\ ~attempt.failure /\ ~kept THEN NoFile ELSE file
          /\ phase' = IF attempt.failure \/ kept THEN "failed" ELSE "closed"
          /\ AttemptAt("done", kept)
    /\ UNCHANGED <<processes, cleanupCbs, ran, late, onCancel, spawning, flow, group,
                   signal, unwritten, crashed, reaper>>

-------------------------------------------------------------------------------
\* Processes

SetGroup(g, members) ==
    /\ group' = [group EXCEPT ![g] = members]
    /\ UNCHANGED <<memory, signal, file, unwritten, crashed, reaper>>

Fork(g) ==
    /\ group[g].leader = "runs" /\ ~group[g].rest /\ signal[g] # "kill"
    /\ SetGroup(g, [group[g] EXCEPT !.rest = TRUE])

LeaderExits(g) ==
    /\ group[g].leader = "runs"
    /\ SetGroup(g, [group[g] EXCEPT !.leader = "zombie"])

RestExits(g) ==
    /\ group[g].rest
    /\ SetGroup(g, [group[g] EXCEPT !.rest = FALSE])

\* cmd.Wait returns; after a crash the system waits.
Reaped(g) ==
    /\ group[g].leader = "zombie"
    /\ crashed \/ (attempt.waits /\ g \in attempt.groups)
    /\ SetGroup(g, [group[g] EXCEPT !.leader = "reaped"])

Crash ==
    /\ ~crashed
    /\ crashed' = TRUE
    /\ UNCHANGED <<memory, group, signal, file, unwritten, reaper>>

-------------------------------------------------------------------------------
\* ReapOrphans, run by the process that follows

\* A valid record is read and its groups are signalled; a refused signal keeps it.
ReapSignals ==
    /\ crashed /\ reaper.pc = "idle" /\ file.kind = "record"
    /\ reaper' = [pc |-> "confirm", groups |-> file.groups]
    /\ UNCHANGED <<memory, group, signal, file, unwritten, crashed>>

\* Fault: delivery is taken for absence.
ReapConfirmedByDelivery == TRUE

\* confirmAbsence.
ReapConfirmed == \A g \in reaper.groups : Absent(g)

ReapRemoves ==
    /\ reaper.pc = "confirm" /\ ReapConfirmed
    /\ file' = NoFile
    /\ reaper' = [pc |-> "idle", groups |-> {}]
    /\ UNCHANGED <<memory, group, signal, unwritten, crashed>>

\* A refused signal, a failed probe, the time limit, a failed removal.
ReapGivesUp ==
    /\ reaper.pc = "confirm"
    /\ reaper' = [pc |-> "idle", groups |-> {}]
    /\ UNCHANGED <<memory, group, signal, file, unwritten, crashed>>

-------------------------------------------------------------------------------
AttemptStep ==
    \/ Begin \/ Term \/ GraceEnds \/ Kill \/ ObserveAbsent \/ ObserveTimesOut
    \/ TakeCallbacks \/ (\E k \in Callbacks : RunCallback(k)) \/ Publish

SupervisorNext ==
    \/ \E k \in Callbacks : RegisterCleanup(k) \/ RunLate(k)
    \/ \E g \in Groups : Spawn(g) \/ Fork(g) \/ LeaderExits(g) \/ RestExits(g)
                         \/ Reaped(g)
    \/ \E c \in Callers : FlowReturns(c)
                          \/ \E cancelled \in BOOLEAN : RunTerminalFlow(c, cancelled)
    \/ OnCancel \/ PersistTruncates \/ PersistWrites \/ PersistFails
    \/ AttemptStep \/ ObserveFails
    \/ Crash
    \/ ReapSignals \/ ReapRemoves \/ ReapGivesUp

SupervisorSpec == SupervisorInit /\ [][SupervisorNext]_supervisorVars

\* The goroutines of the cleanup are scheduled, its callbacks return and its time
\* limits fire; SpawnProcessGroup returns; a killed process dies.
SupervisorFairness ==
    /\ WF_supervisorVars(AttemptStep)
    /\ WF_supervisorVars(PersistTruncates) /\ WF_supervisorVars(PersistWrites)
    /\ \A c \in Callers : WF_supervisorVars(FlowReturns(c))
    /\ \A g \in Groups :
          /\ WF_supervisorVars(signal[g] = "kill" /\ LeaderExits(g))
          /\ WF_supervisorVars(signal[g] = "kill" /\ RestExits(g))
          /\ WF_supervisorVars(Reaped(g))

SupervisorFairSpec == SupervisorSpec /\ SupervisorFairness

-------------------------------------------------------------------------------
\* Properties

\* RegisterCleanup "runs after process kill, before terminal receipt"
\* (supervisor.go:95): once a cleanup callback has run or the barrier has closed, no
\* process of the invocation is left, however spawns and flows raced; and a barrier
\* that closed has forgotten no callback.
NothingOutlivesCleanup ==
    /\ ran # {} \/ phase = "closed" => \A g \in Groups : Absent(g)
    /\ phase = "closed" => cleanupCbs = {} /\ attempt.todo = {}

\* Crash recovery: as long as a group of a persistent invocation lives, its record
\* names it, so that a later ReapOrphans finds it; unless the crash or a failed write
\* hit SpawnProcessGroup itself.
RecordedUntilGone ==
    Persist /\ spawning = NoSpawn /\ ~unwritten =>
        \A g \in Groups : Absent(g) \/ g \in file.groups

\* Every flow returns, although processes ignore signals and probes fail.
FlowsReturn == \A c \in Callers : flow[c] = "waits" ~> flow[c] = "returned" \/ crashed

\* Whatever was started is in s.processes.
StartedInv ==
    \A g \in Groups : group[g].leader = "none" => ~group[g].rest
StartedKnown ==
    \A g \in Groups : group[g].leader # "none" => g \in processes

\* The attempt starts when the phase leaves active, and nothing is spawned then.
PhaseInv ==
    /\ phase = "active" <=> attempt.pc = "none"
    /\ phase \in {"closed", "failed"} <=> attempt.pc = "done"
    /\ phase # "active" => spawning = NoSpawn

\* The attempt works on every group.
CopyInv == attempt.pc \notin {"none", "begin"} => attempt.groups = processes

\* Callbacks wait for the processes.
AfterKillInv ==
    /\ attempt.todo # {} => attempt.pc = "callbacks"
    /\ ran # {} \/ late # {} \/ phase = "closed" => attempt.pc \in {"callbacks", "done"}
    /\ late # {} => phase = "closed"
    /\ attempt.pc = "callbacks" => \A g \in Groups : Absent(g)

\* A reaper at work has read the record that is on disk.
ReaperInv == reaper.pc = "confirm" => crashed /\ reaper.groups = file.groups

SupervisorInv ==
    /\ StartedInv /\ StartedKnown /\ PhaseInv /\ CopyInv /\ AfterKillInv
    /\ NothingOutlivesCleanup /\ ReaperInv /\ RecordedUntilGone

===============================================================================
