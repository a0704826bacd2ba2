---------------------------- MODULE InvocationCore ----------------------------
(***************************************************************************)
(* One InvocationCore (axon/invocation/handle.go): the authoritative state *)
(* machine of an invocation, shared by the goroutines that emit into it,   *)
(* the finalizers that end it and the event streams that read it.          *)
(*                                                                         *)
(* Everything below happens under the core's mutex except two waits on the *)
(* `changed` channel (a progress emitter that finds the output full, a     *)
(* reader that has read everything) and the tail of a terminal emit, which *)
(* runs the onTerminal callback and closes the `terminal` channel after    *)
(* the unlock.  signalChangedLocked closes `changed` and replaces it, so   *)
(* it wakes exactly the waiters that took the old channel: `waiting` is    *)
(* the set of those waiters, and a signal empties it.                      *)
(***************************************************************************)
EXTENDS Lifecycle, Integers, Sequences, FiniteSets

CONSTANTS
    Emitters,        \* goroutines of the ability that emit progress
    Finalizers,      \* goroutines that may finalize: the claim's winner, and a
                     \* panicked cancel winner that finishes the same claim
    Readers,         \* event streams
    ReaderStart,     \* [Readers -> Nat]: the offset a stream is opened at
    Capacity,        \* canonicalStreamCapacity
    RestoredEvents,  \* event types a recovered core replays from its log, which
                     \* holds no terminal event
    ClaimOwners,     \* the terminal owners that may race for the claim
    SideEvents,      \* running events emitted besides progress
    ReceiptFaults,   \* event types whose receipt the provider may refuse
    MaxEvents        \* bound: running events are emitted only below this length

ASSUME CoreAssumption ==
    /\ Capacity \in Nat \ {0}
    /\ MaxEvents \in Nat
    /\ ReaderStart \in [Readers -> Nat]
    /\ RestoredEvents \in Seq(EventTypes \ TerminalEvents)
    /\ ClaimOwners \subseteq Owners
    /\ SideEvents \subseteq RunningEvents \ {"progress"}
    /\ ReceiptFaults \subseteq EventTypes
    /\ Emitters \cap Readers = {}

VARIABLES
    core,            \* state, terminalClaim, finalizationErr
    events,          \* the event log; the event at index k has Sequence k - 1
    outputBuffered,  \* progress frames counted as unread
    acked,           \* acknowledgedProgress: sequences of acknowledged progress
    closes,          \* how many times the `terminal` channel was closed
    live,            \* the core is registered: other goroutines can reach it
    stopped,         \* the execution context of the ability is cancelled
    waiting,         \* goroutines blocked on the current `changed` channel
    emitter,         \* [Emitters -> "idle" | "blocked"]
    finalizer,       \* [Finalizers -> its phase and the event it will emit]
    stream           \* [Readers -> the EventStream]

vars == <<core, events, outputBuffered, acked, closes, live, stopped, waiting,
          emitter, finalizer, stream>>

Event == [type : EventTypes, restored : BOOLEAN]

Stream == [offset : Nat,            \* sequence the next call of Next returns
           buffer : Seq(Nat),       \* sequences fetched and not returned yet
           closed : BOOLEAN,
           phase  : {"idle", "blocked", "fetched"}]

Finalizer == [phase : {"idle", "cleaning", "closing", "done"},
              event : TerminalEvents \cup {"none"}]

TypeOK ==
    /\ core \in Core
    /\ events \in Seq(Event)
    /\ outputBuffered \in Nat
    /\ acked \subseteq Nat
    /\ closes \in Nat
    /\ live \in BOOLEAN
    /\ stopped \in BOOLEAN
    /\ waiting \subseteq Emitters \cup Readers
    /\ emitter \in [Emitters -> {"idle", "blocked"}]
    /\ finalizer \in [Finalizers -> Finalizer]
    /\ stream \in [Readers -> Stream]

Init ==
    /\ core = NewCore
    /\ events = <<>>
    /\ outputBuffered = 0
    /\ acked = {}
    /\ closes = 0
    /\ live = FALSE
    /\ stopped = FALSE
    /\ waiting = {}
    /\ emitter = [e \in Emitters |-> "idle"]
    /\ finalizer = [f \in Finalizers |-> [phase |-> "idle", event |-> "none"]]
    /\ stream = [r \in Readers |-> [offset |-> ReaderStart[r], buffer |-> <<>>,
                                    closed |-> FALSE, phase |-> "idle"]]

-------------------------------------------------------------------------------
\* Shared steps

SignalChanged == waiting' = {}

\* Fault: the event is appended and nobody is woken.
CommitSilently(eventType, restoring) ==
    /\ events' = Append(events, [type |-> eventType, restored |-> restoring])
    /\ core' = [core EXCEPT !.state = TargetOf(eventType)]
    /\ outputBuffered' = outputBuffered
                           + (IF eventType = "progress" /\ ~restoring THEN 1 ELSE 0)
    /\ UNCHANGED waiting

\* The committed half of emitContext: the receipt was accepted, the event is
\* appended, the state moves, a live progress frame is counted, waiters wake.
Commit(eventType, restoring) ==
    /\ events' = Append(events, [type |-> eventType, restored |-> restoring])
    /\ core' = [core EXCEPT !.state = TargetOf(eventType)]
    /\ outputBuffered' = outputBuffered
                           + (IF eventType = "progress" /\ ~restoring THEN 1 ELSE 0)
    /\ SignalChanged

-------------------------------------------------------------------------------
\* Before registration: the dispatcher alone holds the core.

\* What made the core: invokeRegistered, or recoverSnapshot.
Fresh == events # <<>> => ~events[1].restored

Recovering == events # <<>> => events[1].restored

\* invokeRegistered emits accepted, admitted, dispatched and running in turn.
EmitLifecycle(eventType) ==
    /\ ~live /\ Fresh
    /\ EmitAllowed(core, eventType, TargetOf(eventType), FALSE)
    /\ Commit(eventType, FALSE)
    /\ UNCHANGED <<acked, closes, live, stopped, emitter, finalizer, stream>>

\* recoverSnapshot replays the persisted events in order.
RestoreEvent ==
    /\ ~live /\ Recovering /\ Len(events) < Len(RestoredEvents)
    /\ LET eventType == RestoredEvents[Len(events) + 1]
       IN  /\ EmitAllowed(core, eventType, TargetOf(eventType), TRUE)
           /\ Commit(eventType, TRUE)
    /\ UNCHANGED <<acked, closes, live, stopped, emitter, finalizer, stream>>

\* Only a running core is registered (a recovered one after the whole replay).
Register ==
    /\ ~live /\ core.state = "RUNNING"
    /\ ~Fresh => Len(events) >= Len(RestoredEvents)
    /\ live' = TRUE
    /\ UNCHANGED <<core, events, outputBuffered, acked, closes, stopped,
                   waiting, emitter, finalizer, stream>>

-------------------------------------------------------------------------------
\* Emitters

\* Fault: one frame too many.
OutputFullTooLate == outputBuffered > Capacity

OutputFull == outputBuffered >= Capacity

\* One turn of emitContext's loop for a progress event, taken under the mutex
\* by an idle emitter or by one that was woken.  The three ends: the event is
\* refused (or its receipt is), the emitter waits, the event is committed.
EmitProgress(e) ==
    /\ live /\ e \notin waiting
    /\ emitter[e] = "blocked" \/ Len(events) < MaxEvents
    /\ \/ /\ \/ ~EmitAllowed(core, "progress", "RUNNING", FALSE)
             \/ ~OutputFull /\ "progress" \in ReceiptFaults
          /\ emitter' = [emitter EXCEPT ![e] = "idle"]
          /\ UNCHANGED <<core, events, outputBuffered, waiting>>
       \/ /\ EmitAllowed(core, "progress", "RUNNING", FALSE)
          /\ OutputFull
          /\ emitter' = [emitter EXCEPT ![e] = "blocked"]
          /\ waiting' = waiting \cup {e}
          /\ UNCHANGED <<core, events, outputBuffered>>
       \/ /\ EmitAllowed(core, "progress", "RUNNING", FALSE)
          /\ ~OutputFull
          /\ Commit("progress", FALSE)
          /\ emitter' = [emitter EXCEPT ![e] = "idle"]
    /\ UNCHANGED <<acked, closes, live, stopped, finalizer, stream>>

\* A blocked emitter whose execution context ended gives up its frame.
EmitProgressCancelled(e) ==
    /\ emitter[e] = "blocked" /\ stopped
    /\ emitter' = [emitter EXCEPT ![e] = "idle"]
    /\ waiting' = waiting \ {e}
    /\ UNCHANGED <<core, events, outputBuffered, acked, closes, live, stopped,
                   finalizer, stream>>

\* The inbox observer, RecvMessage, and the registry's child events.
EmitRunningEvent(eventType) ==
    /\ live
    /\ Len(events) < MaxEvents
    /\ EmitAllowed(core, eventType, "RUNNING", FALSE)
    /\ Commit(eventType, FALSE)
    /\ UNCHANGED <<acked, closes, live, stopped, emitter, finalizer, stream>>

\* signalTerminalStop after a claim, or suspension without one.
StopExecution ==
    /\ live /\ ~stopped
    /\ stopped' = TRUE
    /\ UNCHANGED <<core, events, outputBuffered, acked, closes, live, waiting,
                   emitter, finalizer, stream>>

-------------------------------------------------------------------------------
\* Finalizers

FinalizerGoes(f, phase) == finalizer' = [finalizer EXCEPT ![f].phase = phase]

StartCleaning(f, owner) ==
    finalizer' = [finalizer EXCEPT ![f] = [phase |-> "cleaning",
                                           event |-> TerminalEventOf(owner)]]

\* claimTerminal: the first owner wins and wakes every waiter.  The winner knows
\* the event it will end with (runAbility, runCancelWinner, timeoutWithControl).
ClaimTerminal(f, owner) ==
    /\ live /\ finalizer[f].phase = "idle"
    /\ CanClaim(core)
    /\ core' = [core EXCEPT !.claim = owner]
    /\ StartCleaning(f, owner)
    /\ SignalChanged
    /\ UNCHANGED <<events, outputBuffered, acked, closes, live, stopped,
                   emitter, stream>>

\* closePanickedCancelWinner continues a claim it finds in place; when that is
\* a failure claim the ability goroutine may be finalizing it at the same time.
JoinClaim(f) ==
    /\ live /\ finalizer[f].phase = "idle"
    /\ core.claim \in {"failure", "caller_cancel", "parent_cancel"}
    /\ StartCleaning(f, core.claim)
    /\ UNCHANGED <<core, events, outputBuffered, acked, closes, live, stopped,
                   waiting, emitter, stream>>

\* Cleanup failed: finishCleanup ends in failFinalization and no terminal event.
FailFinalization(f) ==
    /\ finalizer[f].phase = "cleaning"
    /\ FinalizerGoes(f, "done")
    /\ \/ /\ CanFailFinalization(core)
          /\ core' = [core EXCEPT !.finErr = TRUE]
          /\ closes' = closes + 1
          /\ SignalChanged
       \/ /\ ~CanFailFinalization(core)
          /\ UNCHANGED <<core, closes, waiting>>
    /\ UNCHANGED <<events, outputBuffered, acked, live, stopped, emitter, stream>>

\* Cleanup succeeded: the finalizer emits its terminal event.  The emit may be
\* refused (another finalizer was first) or lose its receipt.
EmitTerminal(f) ==
    /\ finalizer[f].phase = "cleaning"
    /\ LET eventType == finalizer[f].event
           allowed   == EmitAllowed(core, eventType, TargetOf(eventType), FALSE)
       IN  \/ /\ ~allowed \/ eventType \in ReceiptFaults
              /\ FinalizerGoes(f, "done")
              /\ UNCHANGED <<core, events, outputBuffered, waiting>>
           \/ /\ allowed
              /\ Commit(eventType, FALSE)
              /\ FinalizerGoes(f, "closing")
    /\ UNCHANGED <<acked, closes, live, stopped, emitter, stream>>

\* After the unlock and the onTerminal callback the terminal channel is closed.
CloseTerminal(f) ==
    /\ finalizer[f].phase = "closing"
    /\ closes' = closes + 1
    /\ FinalizerGoes(f, "done")
    /\ UNCHANGED <<core, events, outputBuffered, acked, live, stopped, waiting,
                   emitter, stream>>

-------------------------------------------------------------------------------
\* Readers: EventStream.Next and Close

\* The sequences fetchEvents(fromOffset) returns when there are any.
FetchedTail(offset) == [k \in 1 .. Len(events) - offset |-> offset + k - 1]

\* One turn of fetchEvents' loop by a reader whose buffer is empty: a batch, the
\* end (nil), or a wait.
FetchEvents(r) ==
    LET s == stream[r] IN
    /\ live /\ s.phase \in {"idle", "blocked"} /\ r \notin waiting
    /\ ~s.closed /\ s.buffer = <<>>
    /\ \/ /\ Len(events) > s.offset
          /\ stream' = [stream EXCEPT ![r] =
                           [s EXCEPT !.phase = "fetched",
                                     !.buffer = FetchedTail(s.offset)]]
          /\ UNCHANGED waiting
       \/ /\ Len(events) <= s.offset
          /\ IsTerminal(core.state) \/ core.finErr
          /\ stream' = [stream EXCEPT ![r].phase = "idle"]
          /\ UNCHANGED waiting
       \/ /\ Len(events) <= s.offset
          /\ ~IsTerminal(core.state) /\ ~core.finErr
          /\ stream' = [stream EXCEPT ![r].phase = "blocked"]
          /\ waiting' = waiting \cup {r}
    /\ UNCHANGED <<core, events, outputBuffered, acked, closes, live, stopped,
                   emitter, finalizer>>

\* Next gives up: the stream was closed (a fetched batch is dropped), or the
\* caller's context ended while the reader was blocked.
AbandonNext(r) ==
    /\ \/ stream[r].phase # "idle" /\ stream[r].closed
       \/ stream[r].phase = "blocked"
    /\ stream' = [stream EXCEPT ![r] =
                     [stream[r] EXCEPT !.phase = "idle", !.buffer = <<>>]]
    /\ waiting' = waiting \ {r}
    /\ UNCHANGED <<core, events, outputBuffered, acked, closes, live, stopped,
                   emitter, finalizer>>

\* Fault: a frame is freed and the emitters sleep on.
AcknowledgeSilently(sequence) ==
    IF events[sequence + 1].type = "progress" /\ sequence \notin acked
    THEN /\ acked' = acked \cup {sequence}
         /\ outputBuffered' = IF outputBuffered > 0 THEN outputBuffered - 1 ELSE 0
         /\ UNCHANGED waiting
    ELSE UNCHANGED <<acked, outputBuffered, waiting>>

\* acknowledge: the first delivery of a progress event, to any reader, frees a
\* frame of the output buffer and wakes the emitters.
Acknowledge(sequence) ==
    IF events[sequence + 1].type = "progress" /\ sequence \notin acked
    THEN /\ acked' = acked \cup {sequence}
         /\ outputBuffered' = IF outputBuffered > 0 THEN outputBuffered - 1 ELSE 0
         /\ SignalChanged
    ELSE UNCHANGED <<acked, outputBuffered, waiting>>

\* Next returns the head of the buffer.
DeliverNext(r) ==
    LET s == stream[r] IN
    /\ s.phase # "blocked" /\ ~s.closed /\ s.buffer # <<>>
    /\ stream' = [stream EXCEPT ![r] =
                     [s EXCEPT !.phase = "idle",
                               !.buffer = Tail(s.buffer),
                               !.offset = Head(s.buffer) + 1]]
    /\ Acknowledge(Head(s.buffer))
    /\ UNCHANGED <<core, events, closes, live, stopped, emitter, finalizer>>

CloseStream(r) ==
    /\ ~stream[r].closed
    /\ stream' = [stream EXCEPT ![r].closed = TRUE]
    /\ UNCHANGED <<core, events, outputBuffered, acked, closes, live, stopped,
                   waiting, emitter, finalizer>>

-------------------------------------------------------------------------------
EmitterStep(e) == EmitProgress(e) \/ EmitProgressCancelled(e)

FinalizerStep(f) == FailFinalization(f) \/ EmitTerminal(f) \/ CloseTerminal(f)

ReaderStep(r) == FetchEvents(r) \/ DeliverNext(r)

Next ==
    \/ \E t \in {"accepted", "admitted", "dispatched", "running"} : EmitLifecycle(t)
    \/ \E t \in SideEvents : EmitRunningEvent(t)
    \/ RestoreEvent \/ Register \/ StopExecution
    \/ \E e \in Emitters : EmitProgress(e) \/ EmitProgressCancelled(e)
    \/ \E f \in Finalizers : \/ \E owner \in ClaimOwners : ClaimTerminal(f, owner)
                             \/ JoinClaim(f)
                             \/ FailFinalization(f)
                             \/ EmitTerminal(f)
                             \/ CloseTerminal(f)
    \/ \E r \in Readers : \/ FetchEvents(r)
                          \/ AbandonNext(r)
                          \/ DeliverNext(r)
                          \/ CloseStream(r)

Spec == Init /\ [][Next]_vars

\* A goroutine that runs inside the SDK is scheduled; a consumer that keeps
\* calling Next is a fair reader.  Nobody has to start a new emit, claim or close.
Fairness ==
    /\ \A e \in Emitters : WF_vars(emitter[e] = "blocked" /\ EmitterStep(e))
    /\ \A f \in Finalizers : WF_vars(FinalizerStep(f))
    /\ \A r \in Readers : WF_vars(ReaderStep(r))

FairSpec == Spec /\ Fairness

-------------------------------------------------------------------------------
\* Properties

\* The claim that won decides the outcome: whatever the finalizers race on, the
\* terminal state is the one of the owner that claimed the core, and nothing is
\* ever appended behind the terminal event (emitContext, handle.go:337-423).
ClaimDecidesOutcome ==
    /\ core.state = "COMPLETED" => core.claim \in {"completion", "recovery"}
    /\ core.state = "FAILED"    => core.claim = "failure"
    /\ core.state = "CANCELLED" => core.claim \in {"caller_cancel", "parent_cancel"}
    /\ core.state = "TIMED_OUT" => core.claim = "deadline"
    /\ \A k \in DOMAIN events :
         events[k].type \in TerminalEvents => k = Len(events)

\* The terminal channel is closed at most once (a second close panics), by a
\* terminal emit or by failFinalization but never by both, and a waiter it
\* releases finds the outcome decided (handle.go:251-270, 425-430).
TerminalClosedOnce ==
    /\ closes <= 1
    /\ closes = 1 => IsTerminal(core.state) \/ core.finErr
    /\ ~(IsTerminal(core.state) /\ core.finErr)

\* No lost wakeup: nobody sleeps on `changed` once what it waits for has
\* happened.  A sleeping emitter really faces a full buffer of an unclaimed
\* core, a sleeping reader has read all there is and the end is not decided.
NoLostWakeup ==
    /\ \A e \in waiting \cap Emitters :
         OutputFull /\ core.claim = "none" /\ core.state = "RUNNING"
    /\ \A r \in waiting \cap Readers :
         /\ stream[r].offset >= Len(events)
         /\ ~IsTerminal(core.state) /\ ~core.finErr

\* Sequences of the live progress frames no consumer was given yet.
UnreadProgress ==
    { k \in 0 .. Len(events) - 1 :
        /\ events[k + 1].type = "progress"
        /\ ~events[k + 1].restored
        /\ k \notin acked }

\* The live frames the runtime holds for consumers never exceed the capacity, for
\* a core that was not recovered.
OutputBounded == Fresh => Cardinality(UnreadProgress) <= Capacity

\* A consumer that keeps reading gets the whole log, the terminal event included.
ReadersDrain ==
    \A r \in Readers :
        IsTerminal(core.state) ~> \/ stream[r].offset >= Len(events)
                                  \/ stream[r].closed

-------------------------------------------------------------------------------
\* The inductive strengthenings of the invariants.

\* Every finalizer at work carries the event of the one claim, so the terminal
\* state is the claim's; a terminal event in the log means a terminal state.
OutcomeInv ==
    /\ IsTerminal(core.state) =>
         /\ core.claim \in Owners
         /\ core.state = TargetOf(TerminalEventOf(core.claim))
    /\ \A k \in DOMAIN events :
         events[k].type \in TerminalEvents =>
            k = Len(events) /\ IsTerminal(core.state)
    /\ \A f \in Finalizers :
         finalizer[f].phase = "cleaning" =>
            /\ core.claim \in Owners
            /\ finalizer[f].event = TerminalEventOf(core.claim)

\* At most one finalizer is between its terminal event and the close, and then
\* the channel is still open; failFinalization closed it otherwise.
CloseInv ==
    /\ ~(IsTerminal(core.state) /\ core.finErr)
    /\ core.finErr => closes = 1
    /\ ~core.finErr /\ ~IsTerminal(core.state) => closes = 0
    /\ closes <= 1
    /\ \A f \in Finalizers :
         finalizer[f].phase = "closing" => IsTerminal(core.state) /\ closes = 0
    /\ \A f, g \in Finalizers :
         finalizer[f].phase = "closing" /\ finalizer[g].phase = "closing" => f = g

\* Only a goroutine inside its wait is in `waiting`.
WakeupInv ==
    /\ NoLostWakeup
    /\ \A e \in waiting \cap Emitters : emitter[e] = "blocked"
    /\ \A r \in waiting \cap Readers : stream[r].phase = "blocked"

\* Streams hold and acknowledge sequences of the log.  The log of a core that was not
\* recovered is live throughout, and its unread frames are counted exactly.
OutputInv ==
    /\ \A r \in Readers : \A i \in DOMAIN stream[r].buffer : stream[r].buffer[i] < Len(events)
    /\ \A k \in acked : k < Len(events)
    /\ Fresh =>
         /\ \A k \in DOMAIN events : ~events[k].restored
         /\ outputBuffered = Cardinality(UnreadProgress)
         /\ outputBuffered <= Capacity

CoreInv == OutcomeInv /\ CloseInv /\ WakeupInv /\ OutputInv
=============================================================================
