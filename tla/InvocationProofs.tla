--------------------------- MODULE InvocationProofs ---------------------------
(***************************************************************************)
(* Theorems about one invocation.  InvocationCore, for any number of       *)
(* emitters, finalizers and streams, any capacity and any recovered log;   *)
(* Supervisor, for any sets of process groups, callbacks and flows.        *)
(***************************************************************************)
EXTENDS InvocationCore, Supervisor, SequenceTheorems, FiniteSetTheorems, TLAPS

-------------------------------------------------------------------------------
\* Facts about the lifecycle rules.

\* Every event leads to a state, and a terminal event to a terminal state.
LEMMA TargetType ==
    ASSUME NEW t \in EventTypes
    PROVE  /\ TargetOf(t) \in States
           /\ IsTerminal(TargetOf(t)) <=> t \in TerminalEvents
  BY DEF TargetOf, States, IsTerminal, TerminalStates, EventTypes, TerminalEvents,
         RunningEvents

\* A finalizer always has a terminal event to emit.
LEMMA TerminalEventType ==
    ASSUME NEW o \in Owners
    PROVE  TerminalEventOf(o) \in TerminalEvents
  BY DEF TerminalEventOf, Owners, TerminalEvents

LEMMA TerminalEventsAreEvents == TerminalEvents \subseteq EventTypes
  BY DEF TerminalEvents, EventTypes

\* Updates of a stream and of a core stay in their types.
LEMMA StreamUpdate ==
    ASSUME NEW s \in Stream, NEW b \in Seq(Nat), NEW o \in Nat,
           NEW p \in {"idle", "blocked", "fetched"}
    PROVE  /\ [s EXCEPT !.phase = p] \in Stream
           /\ [s EXCEPT !.closed = TRUE] \in Stream
           /\ [s EXCEPT !.phase = p, !.buffer = b] \in Stream
           /\ [s EXCEPT !.phase = p, !.buffer = b, !.offset = o] \in Stream
<1>1. [s EXCEPT !.phase = p] \in Stream
  BY DEF Stream
<1>2. [s EXCEPT !.closed = TRUE] \in Stream
  BY DEF Stream
<1>3. [s EXCEPT !.phase = p, !.buffer = b] \in Stream
  BY DEF Stream
<1>4. [s EXCEPT !.phase = p, !.buffer = b, !.offset = o] \in Stream
  BY Zenon DEF Stream
<1> QED BY <1>1, <1>2, <1>3, <1>4

LEMMA CoreUpdate ==
    ASSUME NEW c \in Core, NEW o \in Claims
    PROVE  /\ [c EXCEPT !.claim = o] \in Core
           /\ [c EXCEPT !.finErr = TRUE] \in Core
  BY DEF Core

\* Committing an event keeps the log and the core well typed.
LEMMA CommitType ==
    ASSUME NEW t \in EventTypes, NEW restoring \in BOOLEAN,
           TypeOK, Commit(t, restoring)
    PROVE  /\ core' \in Core
           /\ events' \in Seq(Event)
           /\ outputBuffered' \in Nat
           /\ waiting' \subseteq Emitters \cup Readers
<1>1. core' \in Core
  BY TargetType DEF TypeOK, Commit, Core
<1>2. [type |-> t, restored |-> restoring] \in Event
  BY DEF Event
<1>3. events' \in Seq(Event)
  BY <1>2 DEF TypeOK, Commit
<1>4. outputBuffered' \in Nat
  BY DEF TypeOK, Commit
<1>5. waiting' \subseteq Emitters \cup Readers
  BY DEF Commit, SignalChanged
<1> QED BY <1>1, <1>3, <1>4, <1>5

-------------------------------------------------------------------------------
\* Type correctness: each step of a core keeps every part of its state in its
\* declared range, the sequences held by the streams included.
THEOREM TypeCorrect == Spec => []TypeOK
<1>1. Init => TypeOK
  <2> SUFFICES ASSUME Init PROVE TypeOK
    OBVIOUS
  <2>1. core \in Core
    BY DEF Init, NewCore, Core, States, Claims
  <2>2. events \in Seq(Event)
    BY DEF Init
  <2>3. finalizer \in [Finalizers -> Finalizer]
    BY DEF Init, Finalizer
  <2>4. stream \in [Readers -> Stream]
    <3>1. <<>> \in Seq(Nat)
      OBVIOUS
    <3> QED BY <3>1, CoreAssumption DEF Init, Stream
  <2> QED BY <2>1, <2>2, <2>3, <2>4 DEF Init, TypeOK
<1>2. TypeOK /\ [Next]_vars => TypeOK'
  <2> SUFFICES ASSUME TypeOK, [Next]_vars PROVE TypeOK'
    OBVIOUS
  <2>1. ASSUME NEW t \in {"accepted", "admitted", "dispatched", "running"},
               EmitLifecycle(t)
        PROVE  TypeOK'
    <3>1. t \in EventTypes
      BY DEF EventTypes
    <3> QED BY <3>1, <2>1, CommitType DEF EmitLifecycle, TypeOK
  <2>2. ASSUME NEW t \in SideEvents, EmitRunningEvent(t)
        PROVE  TypeOK'
    <3>1. t \in EventTypes
      BY CoreAssumption DEF EventTypes
    <3> QED BY <3>1, <2>2, CommitType DEF EmitRunningEvent, TypeOK
  <2>3. CASE RestoreEvent
    <3>1. RestoredEvents[Len(events) + 1] \in EventTypes
      BY <2>3, CoreAssumption DEF RestoreEvent, TypeOK
    <3> QED BY <3>1, <2>3, CommitType DEF RestoreEvent, TypeOK
  <2>4. CASE Register
    BY <2>4 DEF Register, TypeOK
  <2>5. CASE StopExecution
    BY <2>5 DEF StopExecution, TypeOK
  <2>6. ASSUME NEW e \in Emitters, EmitProgress(e)
        PROVE  TypeOK'
    <3>1. "progress" \in EventTypes
      BY DEF EventTypes, RunningEvents
    <3>2. CASE Commit("progress", FALSE)
      BY <3>1, <3>2, <2>6, CommitType DEF EmitProgress, TypeOK
    <3>3. CASE UNCHANGED <<core, events, outputBuffered>>
      BY <3>3, <2>6 DEF EmitProgress, TypeOK, Commit, SignalChanged
    <3> QED BY <3>2, <3>3, <2>6 DEF EmitProgress
  <2>7. ASSUME NEW e \in Emitters, EmitProgressCancelled(e)
        PROVE  TypeOK'
    BY <2>7 DEF EmitProgressCancelled, TypeOK
  <2>8. ASSUME NEW f \in Finalizers, NEW o \in ClaimOwners, ClaimTerminal(f, o)
        PROVE  TypeOK'
    <3>1. o \in Owners /\ TerminalEventOf(o) \in TerminalEvents
      BY CoreAssumption, TerminalEventType
    <3>2. core' \in Core
      BY <3>1, <2>8 DEF ClaimTerminal, TypeOK, Core, Claims
    <3>3. finalizer' \in [Finalizers -> Finalizer]
      BY <3>1, <2>8 DEF ClaimTerminal, StartCleaning, TypeOK, Finalizer
    <3> QED BY <3>2, <3>3, <2>8 DEF ClaimTerminal, SignalChanged, TypeOK
  <2>9. ASSUME NEW f \in Finalizers, JoinClaim(f)
        PROVE  TypeOK'
    <3>1. TerminalEventOf(core.claim) \in TerminalEvents
      BY <2>9, TerminalEventType DEF JoinClaim, Owners
    <3>2. finalizer' \in [Finalizers -> Finalizer]
      BY <3>1, <2>9 DEF JoinClaim, StartCleaning, TypeOK, Finalizer
    <3> QED BY <3>2, <2>9 DEF JoinClaim, TypeOK
  <2>10. ASSUME NEW f \in Finalizers, FailFinalization(f)
         PROVE  TypeOK'
    <3>1. core' \in Core /\ closes' \in Nat
      <4>1. core \in Core /\ closes \in Nat /\ "none" \in Claims
        BY DEF TypeOK, Claims
      <4>2. [core EXCEPT !.finErr = TRUE] \in Core
        BY <4>1, CoreUpdate
      <4>3. \/ core' = [core EXCEPT !.finErr = TRUE] /\ closes' = closes + 1
            \/ core' = core /\ closes' = closes
        BY <2>10 DEF FailFinalization
      <4>4. core' \in Core
        BY <4>1, <4>2, <4>3, Zenon
      <4>5. closes' \in Nat
        BY <4>1, <4>3
      <4> QED BY <4>4, <4>5
    <3>2. finalizer' \in [Finalizers -> Finalizer]
      BY <2>10 DEF FailFinalization, FinalizerGoes, TypeOK, Finalizer
    <3>3. waiting' \subseteq Emitters \cup Readers
      BY <2>10 DEF FailFinalization, SignalChanged, TypeOK
    <3> QED BY <3>1, <3>2, <3>3, <2>10 DEF FailFinalization, TypeOK
  <2>11. ASSUME NEW f \in Finalizers, EmitTerminal(f)
         PROVE  TypeOK'
    <3>1. finalizer' \in [Finalizers -> Finalizer]
      BY <2>11, ZenonT(60) DEF EmitTerminal, FinalizerGoes, TypeOK, Finalizer
    <3>2. CASE UNCHANGED <<core, events, outputBuffered, waiting>>
      BY <3>1, <3>2, <2>11 DEF EmitTerminal, TypeOK
    <3>3. CASE /\ EmitAllowed(core, finalizer[f].event,
                              TargetOf(finalizer[f].event), FALSE)
               /\ Commit(finalizer[f].event, FALSE)
      <4>1. finalizer[f].event \in EventTypes
        BY <3>3, TerminalEventsAreEvents
           DEF TypeOK, Finalizer, EmitAllowed, ExpectedTransition, EventTypes,
               RunningEvents, TerminalEvents
      <4> QED BY <4>1, <3>1, <3>3, <2>11, CommitType DEF EmitTerminal, TypeOK
    <3> QED BY <3>2, <3>3, <2>11 DEF EmitTerminal
  <2>12. ASSUME NEW f \in Finalizers, CloseTerminal(f)
         PROVE  TypeOK'
    BY <2>12 DEF CloseTerminal, FinalizerGoes, TypeOK, Finalizer
  <2>13. ASSUME NEW r \in Readers, FetchEvents(r)
         PROVE  TypeOK'
    <3>1. stream[r].offset \in Nat /\ Len(events) \in Nat
      BY DEF TypeOK, Stream
    <3>2. Len(events) > stream[r].offset => FetchedTail(stream[r].offset) \in Seq(Nat)
      <4> SUFFICES ASSUME Len(events) > stream[r].offset
                   PROVE  FetchedTail(stream[r].offset) \in Seq(Nat)
        OBVIOUS
      <4>1. /\ Len(events) - stream[r].offset \in Nat
            /\ \A k \in 1 .. Len(events) - stream[r].offset :
                 stream[r].offset + k - 1 \in Nat
        BY <3>1
      <4> QED BY <4>1, IsASeq DEF FetchedTail
    <3>3. \E s \in Stream : stream' = [stream EXCEPT ![r] = s]
      <4>1. stream[r] \in Stream /\ <<>> \in Seq(Nat) /\ 0 \in Nat
        BY SMTT(30) DEF TypeOK
      <4>2. /\ [stream[r] EXCEPT !.phase = "idle"] \in Stream
            /\ [stream[r] EXCEPT !.phase = "blocked"] \in Stream
        BY <4>1, StreamUpdate, ZenonT(60)
      <4>3. Len(events) > stream[r].offset =>
              [stream[r] EXCEPT !.phase = "fetched",
                                !.buffer = FetchedTail(stream[r].offset)] \in Stream
        BY <4>1, <3>2, StreamUpdate
      <4>4. \/ /\ Len(events) > stream[r].offset
               /\ stream' = [stream EXCEPT ![r] =
                     [stream[r] EXCEPT !.phase = "fetched",
                                       !.buffer = FetchedTail(stream[r].offset)]]
            \/ stream' = [stream EXCEPT ![r] = [stream[r] EXCEPT !.phase = "idle"]]
            \/ stream' = [stream EXCEPT ![r] = [stream[r] EXCEPT !.phase = "blocked"]]
        BY <2>13 DEF FetchEvents
      <4> QED BY <4>2, <4>3, <4>4
    <3>4. stream' \in [Readers -> Stream]
      BY <3>3 DEF TypeOK
    <3> QED BY <3>4, <2>13 DEF FetchEvents, TypeOK
  <2>14. ASSUME NEW r \in Readers, AbandonNext(r)
         PROVE  TypeOK'
    <3>1. stream' \in [Readers -> Stream]
      <4>1. stream[r] \in Stream /\ <<>> \in Seq(Nat) /\ 0 \in Nat
        BY SMTT(30) DEF TypeOK
      <4>2. [stream[r] EXCEPT !.phase = "idle", !.buffer = <<>>] \in Stream
        BY <4>1, StreamUpdate
      <4> QED BY <4>2, <2>14, SMTT(30) DEF AbandonNext, TypeOK
    <3> QED BY <3>1, <2>14 DEF AbandonNext, TypeOK
  <2>15. ASSUME NEW r \in Readers, DeliverNext(r)
         PROVE  TypeOK'
    <3>1. /\ stream[r].buffer \in Seq(Nat) /\ stream[r].buffer # <<>>
          /\ stream[r] \in Stream
      BY <2>15 DEF DeliverNext, TypeOK, Stream
    <3>2. Head(stream[r].buffer) \in Nat /\ Tail(stream[r].buffer) \in Seq(Nat)
      BY <3>1, SMTT(30)
    <3>3. stream' \in [Readers -> Stream]
      <4>1. [stream[r] EXCEPT !.phase = "idle",
                              !.buffer = Tail(stream[r].buffer),
                              !.offset = Head(stream[r].buffer) + 1] \in Stream
        <5>1. Head(stream[r].buffer) + 1 \in Nat
          BY <3>2
        <5> QED BY <5>1, <3>1, <3>2, StreamUpdate
      <4> QED BY <4>1, <2>15 DEF DeliverNext, TypeOK
    <3>4. acked' \subseteq Nat /\ outputBuffered' \in Nat
          /\ waiting' \subseteq Emitters \cup Readers
      BY <3>2, <2>15, SMTT(30) DEF DeliverNext, Acknowledge, SignalChanged, TypeOK
    <3> QED BY <3>3, <3>4, <2>15 DEF DeliverNext, TypeOK
  <2>16. ASSUME NEW r \in Readers, CloseStream(r)
         PROVE  TypeOK'
    <3>1. stream' \in [Readers -> Stream]
      <4>1. stream[r] \in Stream /\ <<>> \in Seq(Nat) /\ 0 \in Nat
        BY SMTT(30) DEF TypeOK
      <4>2. [stream[r] EXCEPT !.closed = TRUE] \in Stream
        BY <4>1, StreamUpdate
      <4> QED BY <4>2, <2>16, SMTT(30) DEF CloseStream, TypeOK
    <3> QED BY <3>1, <2>16 DEF CloseStream, TypeOK
  <2>17. CASE UNCHANGED vars
    BY <2>17 DEF vars, TypeOK
  <2> QED
    BY <2>1, <2>2, <2>3, <2>4, <2>5, <2>6, <2>7, <2>8, <2>9, <2>10, <2>11, <2>12,
       <2>13, <2>14, <2>15, <2>16, <2>17 DEF Next
<1> QED BY <1>1, <1>2, PTL DEF Spec

-------------------------------------------------------------------------------
\* The terminal states are the targets of the owners' terminal events, each with
\* the owners it can come from.
LEMMA OutcomeTable ==
    ASSUME NEW o \in Owners
    PROVE  LET st == TargetOf(TerminalEventOf(o)) IN
           /\ IsTerminal(st)
           /\ st = "COMPLETED" => o \in {"completion", "recovery"}
           /\ st = "FAILED"    => o = "failure"
           /\ st = "CANCELLED" => o \in {"caller_cancel", "parent_cancel"}
           /\ st = "TIMED_OUT" => o = "deadline"
  BY DEF Owners, TargetOf, TerminalEventOf, IsTerminal, TerminalStates

\* An event other than a terminal one, committed where emitContext allows it,
\* disturbs neither the outcome nor the closing of the terminal channel.
LEMMA CommitNonTerminal ==
    ASSUME TypeOK, OutcomeInv, CloseInv,
           NEW t \in EventTypes \ TerminalEvents, NEW restoring \in BOOLEAN,
           EmitAllowed(core, t, TargetOf(t), restoring),
           Commit(t, restoring), UNCHANGED <<closes, finalizer>>
    PROVE  OutcomeInv' /\ CloseInv'
<1> DEFINE ev == [type |-> t, restored |-> restoring]
<1>1. /\ core'.state = TargetOf(t) /\ core'.claim = core.claim
      /\ core'.finErr = core.finErr
      /\ ~IsTerminal(core.state) /\ ~IsTerminal(core'.state) /\ ~core.finErr
  BY TargetType DEF Commit, TypeOK, Core, EmitAllowed
<1>2. events' = Append(events, ev) /\ events \in Seq(Event) /\ ev \in Event
      /\ ev.type \notin TerminalEvents
  BY DEF Commit, TypeOK, Event
<1>3. \A k \in DOMAIN events' : events'[k].type \notin TerminalEvents
  <2> SUFFICES ASSUME NEW k \in DOMAIN events' PROVE events'[k].type \notin TerminalEvents
    OBVIOUS
  <2>1. CASE k \in DOMAIN events
    BY <2>1, <1>1, <1>2 DEF OutcomeInv
  <2>2. CASE k = Len(events) + 1
    BY <2>2, <1>2
  <2> QED BY <2>1, <2>2, <1>2
<1>4. OutcomeInv'
  BY <1>1, <1>3 DEF OutcomeInv
<1>5. CloseInv'
  BY <1>1 DEF CloseInv
<1> QED BY <1>4, <1>5

\* A step that leaves the core, the log, the channel and the finalizers alone.
LEMMA QuietStep ==
    ASSUME OutcomeInv, CloseInv, UNCHANGED <<core, events, closes, finalizer>>
    PROVE  OutcomeInv' /\ CloseInv'
  BY DEF OutcomeInv, CloseInv

\* Whoever wins the claim decides the outcome, and the terminal channel is closed
\* once: OutcomeInv and CloseInv are preserved by every step.
LEMMA OutcomeStep ==
    ASSUME TypeOK, OutcomeInv, CloseInv, [Next]_vars
    PROVE  OutcomeInv' /\ CloseInv'
<1>1. ASSUME NEW t \in {"accepted", "admitted", "dispatched", "running"},
             EmitLifecycle(t)
      PROVE  OutcomeInv' /\ CloseInv'
  <2>1. t \in EventTypes \ TerminalEvents
    BY DEF EventTypes, TerminalEvents
  <2> QED BY <2>1, <1>1, CommitNonTerminal DEF EmitLifecycle
<1>2. ASSUME NEW t \in SideEvents, EmitRunningEvent(t)
      PROVE  OutcomeInv' /\ CloseInv'
  <2>1. t \in EventTypes \ TerminalEvents /\ TargetOf(t) = "RUNNING"
    BY CoreAssumption DEF EventTypes, TerminalEvents, RunningEvents, TargetOf
  <2> QED BY <2>1, <1>2, CommitNonTerminal DEF EmitRunningEvent
<1>3. CASE RestoreEvent
  <2>1. RestoredEvents[Len(events) + 1] \in EventTypes \ TerminalEvents
    BY <1>3, CoreAssumption DEF RestoreEvent, TypeOK
  <2> QED BY <2>1, <1>3, CommitNonTerminal DEF RestoreEvent
<1>4. CASE Register \/ StopExecution
  BY <1>4, QuietStep DEF Register, StopExecution
<1>5. ASSUME NEW e \in Emitters, EmitProgress(e)
      PROVE  OutcomeInv' /\ CloseInv'
  <2>1. "progress" \in EventTypes \ TerminalEvents /\ TargetOf("progress") = "RUNNING"
    BY DEF EventTypes, TerminalEvents, RunningEvents, TargetOf
  <2>2. CASE UNCHANGED <<core, events, outputBuffered>>
    BY <2>2, <1>5, QuietStep DEF EmitProgress
  <2>3. CASE /\ EmitAllowed(core, "progress", "RUNNING", FALSE)
             /\ Commit("progress", FALSE)
    BY <2>1, <2>3, <1>5, CommitNonTerminal DEF EmitProgress
  <2> QED BY <2>2, <2>3, <1>5 DEF EmitProgress
<1>6. ASSUME NEW e \in Emitters, EmitProgressCancelled(e)
      PROVE  OutcomeInv' /\ CloseInv'
  BY <1>6, QuietStep DEF EmitProgressCancelled
<1>7. ASSUME NEW f \in Finalizers, NEW o \in ClaimOwners, ClaimTerminal(f, o)
      PROVE  OutcomeInv' /\ CloseInv'
  <2>1. /\ core'.state = core.state /\ core'.finErr = core.finErr
        /\ core'.claim = o /\ o \in Owners /\ core.claim = "none"
        /\ ~IsTerminal(core.state)
    BY <1>7, CoreAssumption DEF ClaimTerminal, CanClaim, TypeOK, Core
  <2>2. /\ finalizer'[f] = [phase |-> "cleaning", event |-> TerminalEventOf(o)]
        /\ \A g \in Finalizers \ {f} : finalizer'[g] = finalizer[g]
        /\ \A g \in Finalizers : finalizer[g].phase # "cleaning"
    BY <2>1, <1>7 DEF ClaimTerminal, StartCleaning, TypeOK, OutcomeInv, Owners
  <2>3. events' = events /\ closes' = closes
    BY <1>7 DEF ClaimTerminal
  <2>4. OutcomeInv'
    BY <2>1, <2>2, <2>3 DEF OutcomeInv
  <2>5. CloseInv'
    BY <2>1, <2>2, <2>3 DEF CloseInv
  <2> QED BY <2>4, <2>5
<1>8. ASSUME NEW f \in Finalizers, JoinClaim(f)
      PROVE  OutcomeInv' /\ CloseInv'
  <2>1. /\ finalizer'[f] = [phase |-> "cleaning", event |-> TerminalEventOf(core.claim)]
        /\ \A g \in Finalizers \ {f} : finalizer'[g] = finalizer[g]
        /\ core.claim \in Owners /\ UNCHANGED <<core, events, closes>>
    BY <1>8 DEF JoinClaim, StartCleaning, TypeOK, Owners
  <2>2. OutcomeInv'
    BY <2>1 DEF OutcomeInv
  <2>3. CloseInv'
    BY <2>1 DEF CloseInv
  <2> QED BY <2>2, <2>3
<1>9. ASSUME NEW f \in Finalizers, FailFinalization(f)
      PROVE  OutcomeInv' /\ CloseInv'
  <2>1. /\ finalizer'[f].phase = "done"
        /\ \A g \in Finalizers \ {f} : finalizer'[g] = finalizer[g]
        /\ events' = events
    BY <1>9 DEF FailFinalization, FinalizerGoes, TypeOK, Finalizer
  <2>2. \/ /\ ~IsTerminal(core.state) /\ ~core.finErr /\ core'.finErr
           /\ core'.state = core.state /\ core'.claim = core.claim
           /\ closes' = closes + 1
        \/ core' = core /\ closes' = closes
    BY <1>9 DEF FailFinalization, CanFailFinalization, TypeOK, Core
  <2>3. OutcomeInv'
    BY <2>1, <2>2 DEF OutcomeInv
  <2>4. CloseInv'
    BY <2>1, <2>2 DEF CloseInv, TypeOK
  <2> QED BY <2>3, <2>4
<1>10. ASSUME NEW f \in Finalizers, EmitTerminal(f)
       PROVE  OutcomeInv' /\ CloseInv'
  <2>1. /\ \A g \in Finalizers \ {f} : finalizer'[g] = finalizer[g]
        /\ closes' = closes
    BY <1>10 DEF EmitTerminal, FinalizerGoes, TypeOK
  <2>2. CASE /\ UNCHANGED <<core, events, outputBuffered, waiting>>
             /\ FinalizerGoes(f, "done")
    <3>1. finalizer'[f].phase = "done"
      BY <2>2 DEF FinalizerGoes, TypeOK, Finalizer
    <3>2. OutcomeInv'
      BY <3>1, <2>1, <2>2 DEF OutcomeInv
    <3>3. CloseInv'
      BY <3>1, <2>1, <2>2 DEF CloseInv
    <3> QED BY <3>2, <3>3
  <2>3. CASE /\ EmitAllowed(core, finalizer[f].event,
                            TargetOf(finalizer[f].event), FALSE)
             /\ Commit(finalizer[f].event, FALSE)
             /\ FinalizerGoes(f, "closing")
    <3> DEFINE t == finalizer[f].event
               ev == [type |-> t, restored |-> FALSE]
    <3>1. t = TerminalEventOf(core.claim) /\ core.claim \in Owners
      BY <1>10 DEF EmitTerminal, OutcomeInv
    <3>2. t \in TerminalEvents /\ t \in EventTypes /\ IsTerminal(TargetOf(t))
      BY <3>1, TerminalEventType, TerminalEventsAreEvents, TargetType
    <3>3. /\ core'.state = TargetOf(t) /\ core'.claim = core.claim
          /\ core'.finErr = core.finErr
          /\ ~IsTerminal(core.state) /\ ~core.finErr
      BY <2>3 DEF Commit, EmitAllowed, TypeOK, Core
    <3>4. finalizer'[f].phase = "closing"
      BY <2>3 DEF FinalizerGoes, TypeOK, Finalizer
    <3>5. events' = Append(events, ev) /\ events \in Seq(Event)
      BY <2>3 DEF Commit, TypeOK
    <3>6. \A k \in DOMAIN events' :
            events'[k].type \in TerminalEvents => k = Len(events')
      BY <3>3, <3>5 DEF OutcomeInv
    <3>7. OutcomeInv'
      BY <2>1, <3>1, <3>2, <3>3, <3>4, <3>6 DEF OutcomeInv
    <3>8. CloseInv'
      BY <2>1, <3>2, <3>3, <3>4 DEF CloseInv
    <3> QED BY <3>7, <3>8
  <2> QED BY <2>2, <2>3, <1>10 DEF EmitTerminal
<1>11. ASSUME NEW f \in Finalizers, CloseTerminal(f)
       PROVE  OutcomeInv' /\ CloseInv'
  <2>1. /\ finalizer'[f].phase = "done"
        /\ \A g \in Finalizers \ {f} : finalizer'[g] = finalizer[g]
        /\ closes' = closes + 1 /\ UNCHANGED <<core, events>>
        /\ finalizer[f].phase = "closing"
    BY <1>11 DEF CloseTerminal, FinalizerGoes, TypeOK, Finalizer
  <2>2. OutcomeInv'
    BY <2>1 DEF OutcomeInv
  <2>3. CloseInv'
    BY <2>1 DEF CloseInv
  <2> QED BY <2>2, <2>3
<1>12. ASSUME NEW r \in Readers,
              FetchEvents(r) \/ AbandonNext(r) \/ DeliverNext(r) \/ CloseStream(r)
       PROVE  OutcomeInv' /\ CloseInv'
  BY <1>12, QuietStep DEF FetchEvents, AbandonNext, DeliverNext, CloseStream
<1>13. CASE UNCHANGED vars
  BY <1>13, QuietStep DEF vars
<1> QED
  BY <1>1, <1>2, <1>3, <1>4, <1>5, <1>6, <1>7, <1>8, <1>9, <1>10, <1>11, <1>12,
     <1>13 DEF Next

LEMMA OutcomeCorrect == Spec => [](OutcomeInv /\ CloseInv)
<1>1. Init => OutcomeInv /\ CloseInv
  <2> SUFFICES ASSUME Init PROVE OutcomeInv /\ CloseInv
    OBVIOUS
  <2>1. /\ core.state = "UNSPECIFIED" /\ ~core.finErr /\ closes = 0
        /\ DOMAIN events = {} /\ ~IsTerminal("UNSPECIFIED")
        /\ \A f \in Finalizers : finalizer[f].phase = "idle"
    BY DEF Init, NewCore, IsTerminal, TerminalStates
  <2> QED BY <2>1 DEF OutcomeInv, CloseInv
<1>2. TypeOK /\ OutcomeInv /\ CloseInv /\ [Next]_vars => (OutcomeInv /\ CloseInv)'
  BY OutcomeStep
<1> QED BY <1>1, <1>2, TypeCorrect, PTL DEF Spec

\* The claim that won decides the outcome, and nothing follows a terminal event,
\* whatever number of finalizers race (emitContext, claimTerminal).
THEOREM ClaimDecidesOutcomeHolds == Spec => []ClaimDecidesOutcome
<1>1. OutcomeInv => ClaimDecidesOutcome
  BY OutcomeTable DEF OutcomeInv, ClaimDecidesOutcome, IsTerminal, TerminalStates
<1> QED BY <1>1, OutcomeCorrect, PTL

\* The terminal channel is never closed twice, and whoever it releases finds a
\* decided outcome (emitContext's close against failFinalization's).
THEOREM TerminalClosedOnceHolds == Spec => []TerminalClosedOnce
<1>1. TypeOK /\ CloseInv => TerminalClosedOnce
  BY DEF CloseInv, TerminalClosedOnce, TypeOK
<1> QED BY <1>1, TypeCorrect, OutcomeCorrect, PTL

-------------------------------------------------------------------------------
\* A step that signals `changed` leaves nobody asleep.
LEMMA SignalledStep ==
    ASSUME waiting' = {}
    PROVE  WakeupInv'
  BY DEF WakeupInv, NoLostWakeup

\* A step that signals nobody and changes nothing a sleeper waits for.
LEMMA UnsignalledStep ==
    ASSUME WakeupInv, waiting' \subseteq waiting,
           UNCHANGED <<core, events, outputBuffered>>,
           \A e \in waiting' \cap Emitters : emitter'[e] = emitter[e],
           \A r \in waiting' \cap Readers :
              stream'[r].phase = stream[r].phase /\ stream'[r].offset = stream[r].offset
    PROVE  WakeupInv'
  BY DEF WakeupInv, NoLostWakeup, OutputFull

\* The wakeup invariant is preserved by every step.
LEMMA WakeupStep ==
    ASSUME TypeOK, WakeupInv, [Next]_vars
    PROVE  WakeupInv'
<1>1. ASSUME NEW t, EmitLifecycle(t) \/ EmitRunningEvent(t) \/ RestoreEvent
      PROVE  WakeupInv'
  BY <1>1, SignalledStep
     DEF EmitLifecycle, EmitRunningEvent, RestoreEvent, Commit, SignalChanged
<1>2. CASE Register \/ StopExecution
  BY <1>2, UnsignalledStep DEF Register, StopExecution
<1>3. ASSUME NEW e \in Emitters, EmitProgress(e)
      PROVE  WakeupInv'
  <2>1. CASE /\ emitter' = [emitter EXCEPT ![e] = "idle"]
             /\ UNCHANGED <<core, events, outputBuffered, waiting>>
    BY <2>1, <1>3, UnsignalledStep DEF EmitProgress, TypeOK
  <2>2. CASE /\ EmitAllowed(core, "progress", "RUNNING", FALSE)
             /\ OutputFull
             /\ emitter' = [emitter EXCEPT ![e] = "blocked"]
             /\ waiting' = waiting \cup {e}
             /\ UNCHANGED <<core, events, outputBuffered>>
    <3>1. core.claim = "none" /\ core.state = "RUNNING"
      BY <2>2 DEF EmitAllowed, ExpectedTransition, IsTerminal, TerminalStates,
                  RunningEvents
    <3>2. emitter'[e] = "blocked"
          /\ \A d \in Emitters \ {e} : emitter'[d] = emitter[d]
      BY <2>2 DEF TypeOK
    <3>3. stream' = stream /\ OutputFull'
      BY <2>2, <1>3 DEF EmitProgress, OutputFull
    <3>4. NoLostWakeup'
      BY <2>2, <3>1, <3>3, CoreAssumption DEF WakeupInv, NoLostWakeup
    <3> QED BY <2>2, <3>2, <3>3, <3>4, CoreAssumption DEF WakeupInv
  <2>3. CASE Commit("progress", FALSE)
    BY <2>3, SignalledStep DEF Commit, SignalChanged
  <2> QED BY <2>1, <2>2, <2>3, <1>3 DEF EmitProgress
<1>4. ASSUME NEW e \in Emitters, EmitProgressCancelled(e)
      PROVE  WakeupInv'
  BY <1>4, UnsignalledStep DEF EmitProgressCancelled, TypeOK
<1>5. ASSUME NEW f \in Finalizers, NEW o \in ClaimOwners, ClaimTerminal(f, o)
      PROVE  WakeupInv'
  BY <1>5, SignalledStep DEF ClaimTerminal, SignalChanged
<1>6. ASSUME NEW f \in Finalizers, JoinClaim(f) \/ CloseTerminal(f)
      PROVE  WakeupInv'
  BY <1>6, UnsignalledStep DEF JoinClaim, CloseTerminal
<1>7. ASSUME NEW f \in Finalizers, FailFinalization(f)
      PROVE  WakeupInv'
  <2>1. CASE waiting' = {}
    BY <2>1, SignalledStep
  <2>2. CASE UNCHANGED <<core, closes, waiting>>
    BY <2>2, <1>7, UnsignalledStep DEF FailFinalization
  <2> QED BY <2>1, <2>2, <1>7 DEF FailFinalization, SignalChanged
<1>8. ASSUME NEW f \in Finalizers, EmitTerminal(f)
      PROVE  WakeupInv'
  <2>1. CASE waiting' = {}
    BY <2>1, SignalledStep
  <2>2. CASE UNCHANGED <<core, events, outputBuffered, waiting>>
    BY <2>2, <1>8, UnsignalledStep DEF EmitTerminal
  <2> QED BY <2>1, <2>2, <1>8 DEF EmitTerminal, Commit, SignalChanged
<1>9. ASSUME NEW r \in Readers, FetchEvents(r)
      PROVE  WakeupInv'
  <2>1. /\ r \notin waiting /\ UNCHANGED <<core, events, outputBuffered, emitter>>
        /\ \A q \in Readers \ {r} : stream'[q] = stream[q]
    BY <1>9 DEF FetchEvents, TypeOK
  <2>2. CASE waiting' = waiting
    BY <2>1, <2>2, UnsignalledStep
  <2>3. CASE /\ Len(events) <= stream[r].offset
             /\ ~IsTerminal(core.state) /\ ~core.finErr
             /\ stream' = [stream EXCEPT ![r].phase = "blocked"]
             /\ waiting' = waiting \cup {r}
    <3>1. stream'[r].phase = "blocked" /\ stream'[r].offset = stream[r].offset
      BY <2>3 DEF TypeOK, Stream
    <3>2. stream[r].offset >= Len(events)
      BY <2>3 DEF TypeOK, Stream
    <3>3. NoLostWakeup'
      BY <2>1, <2>3, <3>1, <3>2, CoreAssumption DEF WakeupInv, NoLostWakeup, OutputFull
    <3> QED BY <2>1, <2>3, <3>1, <3>3, CoreAssumption DEF WakeupInv
  <2> QED BY <2>2, <2>3, <1>9 DEF FetchEvents
<1>10. ASSUME NEW r \in Readers, AbandonNext(r)
       PROVE  WakeupInv'
  <2>1. /\ waiting' = waiting \ {r}
        /\ UNCHANGED <<core, events, outputBuffered, emitter>>
        /\ \A q \in Readers \ {r} : stream'[q] = stream[q]
    BY <1>10 DEF AbandonNext, TypeOK
  <2> QED BY <2>1, UnsignalledStep
<1>11. ASSUME NEW r \in Readers, DeliverNext(r)
       PROVE  WakeupInv'
  <2>1. r \notin waiting
    BY <1>11 DEF DeliverNext, WakeupInv
  <2>2. /\ UNCHANGED <<core, events, emitter>>
        /\ \A q \in Readers \ {r} : stream'[q] = stream[q]
    BY <1>11 DEF DeliverNext, TypeOK
  <2>3. CASE waiting' = {}
    BY <2>3, SignalledStep
  <2>4. CASE UNCHANGED <<acked, outputBuffered, waiting>>
    BY <2>1, <2>2, <2>4, UnsignalledStep
  <2> QED BY <2>3, <2>4, <1>11 DEF DeliverNext, Acknowledge, SignalChanged
<1>12. ASSUME NEW r \in Readers, CloseStream(r)
       PROVE  WakeupInv'
  <2>1. /\ UNCHANGED <<core, events, outputBuffered, emitter, waiting>>
        /\ \A q \in Readers : /\ stream'[q].phase = stream[q].phase
                              /\ stream'[q].offset = stream[q].offset
    BY <1>12 DEF CloseStream, TypeOK, Stream
  <2> QED BY <2>1, UnsignalledStep
<1>13. CASE UNCHANGED vars
  BY <1>13, UnsignalledStep DEF vars
<1> QED
  BY <1>1, <1>2, <1>3, <1>4, <1>5, <1>6, <1>7, <1>8, <1>9, <1>10, <1>11, <1>12,
     <1>13 DEF Next

\* No lost wakeup: whoever sleeps on the core's `changed` channel sleeps for a
\* reason that still holds (every signalChangedLocked is where it must be).
THEOREM NoLostWakeupHolds == Spec => []NoLostWakeup
<1>1. Init => WakeupInv
  BY DEF Init, WakeupInv, NoLostWakeup
<1>2. TypeOK /\ WakeupInv /\ [Next]_vars => WakeupInv'
  BY WakeupStep
<1>3. WakeupInv => NoLostWakeup
  BY DEF WakeupInv
<1> QED BY <1>1, <1>2, <1>3, TypeCorrect, PTL DEF Spec

-------------------------------------------------------------------------------
\* The output buffer.

\* The unread frames are finitely many.
LEMMA UnreadFinite ==
    ASSUME TypeOK
    PROVE  IsFiniteSet(UnreadProgress) /\ Cardinality(UnreadProgress) \in Nat
<1>1. Len(events) - 1 \in Int
  BY DEF TypeOK
<1>2. IsFiniteSet(0 .. Len(events) - 1)
  BY <1>1, FS_Interval
<1>3. UnreadProgress \subseteq 0 .. Len(events) - 1
  BY DEF UnreadProgress
<1> QED
  BY <1>2, <1>3, FS_Subset, FS_CardinalityType

\* A step that leaves the log and the buffer alone, and lets streams hold nothing new.
LEMMA OutputKept ==
    ASSUME OutputInv, UNCHANGED <<events, outputBuffered, acked>>,
           \A r \in Readers : \A i \in DOMAIN stream'[r].buffer :
               stream'[r].buffer[i] < Len(events)
    PROVE  OutputInv'
<1>1. UnreadProgress' = UnreadProgress /\ (Fresh' <=> Fresh)
  BY DEF UnreadProgress, Fresh
<1> QED
  BY <1>1 DEF OutputInv

\* A committed event: a live progress frame is one more unread frame, and a replayed
\* event means that the core is not a fresh one.
LEMMA CommitOutput ==
    ASSUME TypeOK, OutputInv, NEW t \in EventTypes, NEW restoring \in BOOLEAN,
           Commit(t, restoring), UNCHANGED <<acked, stream>>,
           restoring => Recovering,
           t = "progress" /\ ~restoring => outputBuffered < Capacity
    PROVE  OutputInv'
<1>1. PICK ev \in Event : ev = [type |-> t, restored |-> restoring]
  BY DEF Event
<1>2. /\ events \in Seq(Event) /\ Len(events) \in Nat /\ events' = Append(events, ev)
      /\ ev.type = t /\ (ev.restored <=> restoring)
  BY <1>1 DEF TypeOK, Commit
<1>3. /\ Len(events') = Len(events) + 1 /\ DOMAIN events = 1 .. Len(events)
      /\ DOMAIN events' = 1 .. Len(events) + 1
      /\ \A k \in 1 .. Len(events) : events'[k] = events[k]
      /\ events'[Len(events) + 1] = ev
  <2> HIDE DEF Event
  <2> QED
    BY <1>2
<1>4. \A k \in 0 .. Len(events) : k # Len(events) =>
         k \in 0 .. Len(events) - 1 /\ events'[k + 1] = events[k + 1]
  <2>1. PICK n \in Nat : n = Len(events)
    BY <1>2
  <2>2. ASSUME NEW k \in 0 .. n, k # n PROVE k \in 0 .. n - 1 /\ k + 1 \in 1 .. n
    BY <2>2
  <2>3. \A k \in 1 .. n : events'[k] = events[k]
    BY <2>1, <1>3
  <2> QED
    BY <2>1, <2>2, <2>3
<1>5. \A r \in Readers : \A i \in DOMAIN stream'[r].buffer :
         stream'[r].buffer[i] < Len(events')
  <2>1. \A r \in Readers : stream[r].buffer \in Seq(Nat)
    BY DEF TypeOK, Stream
  <2> QED
    BY <2>1, <1>2, <1>3 DEF OutputInv
<1>6. \A k \in acked : k \in Nat /\ k < Len(events)
  BY DEF TypeOK, OutputInv
<1>7. \A k \in acked' : k < Len(events')
  BY <1>2, <1>3, <1>6
<1>8. ASSUME Fresh'
      PROVE  /\ \A k \in DOMAIN events' : ~events'[k].restored
             /\ outputBuffered' = Cardinality(UnreadProgress')
             /\ outputBuffered' <= Capacity
  <2>0. events' # <<>> /\ ~events'[1].restored
    BY <1>3, <1>8, <1>2 DEF Fresh
  <2>1. Fresh /\ ~restoring
    <3>1. CASE events = <<>>
      BY <3>1, <2>0, <1>2, <1>3 DEF Fresh
    <3>2. CASE events # <<>>
      <4>1. Len(events) >= 1 /\ events'[1] = events[1]
        BY <3>2, <1>2, <1>3
      <4> QED
        BY <3>2, <4>1, <2>0 DEF Fresh, Recovering
    <3> QED
      BY <3>1, <3>2
  <2>2. \A k \in DOMAIN events' : ~events'[k].restored
    BY <2>1, <1>2, <1>3 DEF OutputInv
  <2>3. /\ outputBuffered = Cardinality(UnreadProgress) /\ outputBuffered <= Capacity
        /\ outputBuffered \in Nat /\ Capacity \in Nat
    BY <2>1, CoreAssumption DEF OutputInv, TypeOK
  <2>4. CASE t = "progress"
    <3>1. UnreadProgress' = UnreadProgress \cup {Len(events)}
      <4>1. ASSUME NEW k \in UnreadProgress' PROVE k \in UnreadProgress \cup {Len(events)}
        <5>1. /\ k \in 0 .. Len(events) /\ events'[k + 1].type = "progress"
              /\ ~events'[k + 1].restored /\ k \notin acked
          BY <4>1, <1>2, <1>3 DEF UnreadProgress
        <5>2. CASE k = Len(events)
          BY <5>2
        <5>3. CASE k # Len(events)
          <6>1. k \in 0 .. Len(events) - 1 /\ events'[k + 1] = events[k + 1]
            BY <5>1, <5>3, <1>4
          <6> QED
            BY <5>1, <6>1 DEF UnreadProgress
        <5> QED
          BY <5>2, <5>3
      <4>2. ASSUME NEW k \in UnreadProgress PROVE k \in UnreadProgress'
        BY <4>2, <1>2, <1>3 DEF UnreadProgress
      <4>3. Len(events) \in UnreadProgress'
        <5>1. Len(events) \notin acked
          BY <1>2, <1>6
        <5>2. Len(events) \in 0 .. Len(events') - 1
          BY <1>2, <1>3
        <5> QED
          BY <5>1, <5>2, <2>1, <2>4, <1>2, <1>3 DEF UnreadProgress
      <4> QED
        BY <4>1, <4>2, <4>3
    <3>2. Len(events) \notin UnreadProgress
      BY <1>2 DEF UnreadProgress
    <3>3. Cardinality(UnreadProgress') = Cardinality(UnreadProgress) + 1
      BY <3>1, <3>2, UnreadFinite, FS_AddElement
    <3>4. outputBuffered' = outputBuffered + 1
      BY <2>1, <2>4 DEF Commit
    <3> QED
      BY <3>3, <3>4, <2>1, <2>2, <2>3, <2>4
  <2>5. CASE t # "progress"
    <3>1. UnreadProgress' = UnreadProgress
      <4>1. ASSUME NEW k \in UnreadProgress' PROVE k \in UnreadProgress
        <5>1. k \in 0 .. Len(events) /\ events'[k + 1].type = "progress"
          BY <4>1, <1>2, <1>3, SMTT(30) DEF UnreadProgress
        <5>2. k # Len(events)
          BY <5>1, <2>5, <1>2, <1>3
        <5>3. k \in 0 .. Len(events) - 1 /\ events'[k + 1] = events[k + 1]
          BY <5>1, <5>2, <1>4
        <5>4. ~events'[k + 1].restored /\ k \notin acked
          BY <4>1 DEF UnreadProgress
        <5> QED
          BY <5>1, <5>3, <5>4 DEF UnreadProgress
      <4>2. ASSUME NEW k \in UnreadProgress PROVE k \in UnreadProgress'
        BY <4>2, <1>2, <1>3 DEF UnreadProgress
      <4> QED
        BY <4>1, <4>2
    <3>2. outputBuffered' = outputBuffered
      BY <2>5, <2>3 DEF Commit
    <3> QED
      BY <3>1, <3>2, <2>2, <2>3
  <2> QED
    BY <2>4, <2>5
<1> QED
  BY <1>5, <1>7, <1>8 DEF OutputInv

\* The first delivery of a frame of the log: it is one unread frame less.
LEMMA AcknowledgeOutput ==
    ASSUME TypeOK, OutputInv, NEW sequence \in Nat, sequence < Len(events),
           Acknowledge(sequence), UNCHANGED events,
           \A r \in Readers : \A i \in DOMAIN stream'[r].buffer :
               stream'[r].buffer[i] < Len(events)
    PROVE  OutputInv'
<1>1. CASE events[sequence + 1].type = "progress" /\ sequence \notin acked
  <2>1. /\ acked' = acked \cup {sequence}
        /\ outputBuffered' = IF outputBuffered > 0 THEN outputBuffered - 1 ELSE 0
    BY <1>1 DEF Acknowledge
  <2>2. Fresh' <=> Fresh
    BY DEF Fresh
  <2>3. ASSUME Fresh
        PROVE  outputBuffered' = Cardinality(UnreadProgress') /\ outputBuffered' <= Capacity
    <3>1. UnreadProgress' = UnreadProgress \ {sequence}
      BY <2>1 DEF UnreadProgress
    <3>2. sequence \in UnreadProgress
      <4>1. sequence + 1 \in DOMAIN events /\ sequence \in 0 .. Len(events) - 1
        BY DEF TypeOK
      <4>2. ~events[sequence + 1].restored
        BY <2>3, <4>1 DEF OutputInv
      <4> QED
        BY <4>1, <4>2, <1>1 DEF UnreadProgress
    <3>3. /\ Cardinality(UnreadProgress') = Cardinality(UnreadProgress) - 1
          /\ Cardinality(UnreadProgress) \in Nat /\ Cardinality(UnreadProgress) # 0
      BY <3>1, <3>2, UnreadFinite, FS_RemoveElement, FS_EmptySet
    <3>4. outputBuffered = Cardinality(UnreadProgress) /\ outputBuffered <= Capacity
      BY <2>3 DEF OutputInv
    <3> QED
      BY <2>1, <3>3, <3>4, CoreAssumption
  <2> QED
    BY <2>1, <2>2, <2>3 DEF OutputInv
<1>2. CASE ~(events[sequence + 1].type = "progress" /\ sequence \notin acked)
  BY <1>2, OutputKept DEF Acknowledge
<1> QED
  BY <1>1, <1>2

\* A stream that fetched a batch, returned the head of one or dropped it holds
\* sequences of the log.
LEMMA StreamOutput ==
    ASSUME TypeOK, OutputInv, NEW r \in Readers, NEW s \in Stream,
           stream' = [stream EXCEPT ![r] = s],
           \A i \in DOMAIN s.buffer : s.buffer[i] < Len(events)
    PROVE  \A q \in Readers : \A i \in DOMAIN stream'[q].buffer :
               stream'[q].buffer[i] < Len(events)
<1>1. stream'[r] = s /\ \A q \in Readers : q # r => stream'[q] = stream[q]
  BY DEF TypeOK
<1> QED
  BY <1>1 DEF OutputInv

\* Readers keep the streams within the log and count what they deliver.
LEMMA ReaderOutput ==
    ASSUME TypeOK, OutputInv, NEW r \in Readers,
           FetchEvents(r) \/ AbandonNext(r) \/ DeliverNext(r) \/ CloseStream(r)
    PROVE  OutputInv'
<1>1. /\ stream[r] \in Stream /\ stream[r].buffer \in Seq(Nat) /\ stream[r].offset \in Nat
      /\ Len(events) \in Nat
      /\ \A i \in DOMAIN stream[r].buffer : stream[r].buffer[i] < Len(events)
  BY DEF TypeOK, Stream, OutputInv
<1>2. CASE CloseStream(r)
  <2>1. [stream[r] EXCEPT !.closed = TRUE] \in Stream
    BY <1>1, StreamUpdate
  <2>2. PICK s \in Stream : s = [stream[r] EXCEPT !.closed = TRUE]
    BY <2>1
  <2>3. s.buffer = stream[r].buffer
    BY <2>2, <1>1, Zenon DEF Stream
  <2>4. stream' = [stream EXCEPT ![r] = s] /\ UNCHANGED <<events, outputBuffered, acked>>
    BY <1>2, <2>2 DEF CloseStream
  <2> QED
    BY <2>3, <2>4, <1>1, StreamOutput, OutputKept
<1>3. CASE AbandonNext(r)
  <2>0. <<>> \in Seq(Nat) /\ DOMAIN <<>> = {}
    OBVIOUS
  <2>1. PICK b \in Seq(Nat) : b = <<>>
    BY <2>0, Zenon
  <2>2. [stream[r] EXCEPT !.phase = "idle", !.buffer = b] \in Stream
    BY <1>1, StreamUpdate
  <2>3. PICK s \in Stream : s = [stream[r] EXCEPT !.phase = "idle", !.buffer = b]
    BY <2>2
  <2>4. s.buffer = b
    BY <2>3, <1>1 DEF Stream
  <2>5. stream' = [stream EXCEPT ![r] = s] /\ UNCHANGED <<events, outputBuffered, acked>>
    BY <1>3, <2>1, <2>3 DEF AbandonNext
  <2> QED
    BY <2>0, <2>1, <2>4, <2>5, <1>1, StreamOutput, OutputKept
<1>4. CASE FetchEvents(r)
  <2>1. UNCHANGED <<events, outputBuffered, acked>>
    BY <1>4 DEF FetchEvents
  <2>2. CASE /\ Len(events) > stream[r].offset
             /\ stream' = [stream EXCEPT ![r] =
                              [stream[r] EXCEPT !.phase = "fetched",
                                                !.buffer = FetchedTail(stream[r].offset)]]
    <3>1. /\ FetchedTail(stream[r].offset) \in Seq(Nat)
          /\ \A i \in DOMAIN FetchedTail(stream[r].offset) :
                FetchedTail(stream[r].offset)[i] < Len(events)
      <4>1. Len(events) - stream[r].offset \in Nat
        BY <2>2, <1>1
      <4>2. \A i \in 1 .. Len(events) - stream[r].offset :
               /\ stream[r].offset + i - 1 \in Nat /\ stream[r].offset + i - 1 < Len(events)
        BY <4>1, <1>1, SMTT(30)
      <4>3. FetchedTail(stream[r].offset) \in
              [1 .. Len(events) - stream[r].offset -> Nat]
        BY <4>2 DEF FetchedTail
      <4> QED
        BY <4>1, <4>2, <4>3 DEF FetchedTail
    <3>2. PICK b \in Seq(Nat) : b = FetchedTail(stream[r].offset)
      BY <3>1
    <3>3. [stream[r] EXCEPT !.phase = "fetched", !.buffer = b] \in Stream
      BY <1>1, StreamUpdate
    <3>4. PICK s \in Stream : s = [stream[r] EXCEPT !.phase = "fetched", !.buffer = b]
      BY <3>3
    <3>5. s.buffer = b
      BY <3>4, <1>1 DEF Stream
    <3>6. stream' = [stream EXCEPT ![r] = s]
      BY <2>2, <3>2, <3>4
    <3> QED
      BY <2>1, <3>1, <3>2, <3>5, <3>6, <1>1, StreamOutput, OutputKept
  <2>3. CASE \E p \in {"idle", "blocked"} : stream' = [stream EXCEPT ![r].phase = p]
    <3>1. PICK p \in {"idle", "blocked"} : stream' = [stream EXCEPT ![r].phase = p]
      BY <2>3
    <3>2. PICK s \in Stream : s = [stream[r] EXCEPT !.phase = p]
      BY <1>1, StreamUpdate
    <3>3. s.buffer = stream[r].buffer
      BY <3>2, <1>1 DEF Stream
    <3>4. stream' = [stream EXCEPT ![r] = s]
      BY <3>1, <3>2
    <3> QED
      BY <2>1, <3>3, <3>4, <1>1, StreamOutput, OutputKept
  <2> QED
    BY <1>4, <2>2, <2>3 DEF FetchEvents
<1>5. CASE DeliverNext(r)
  <2>1. stream[r].buffer # <<>> /\ UNCHANGED events /\ Acknowledge(Head(stream[r].buffer))
    BY <1>5 DEF DeliverNext
  <2>2. /\ Head(stream[r].buffer) \in Nat /\ Tail(stream[r].buffer) \in Seq(Nat)
        /\ Head(stream[r].buffer) < Len(events)
        /\ \A i \in DOMAIN Tail(stream[r].buffer) : Tail(stream[r].buffer)[i] < Len(events)
    <3>1. \A b \in Seq(Nat) : b # <<>> =>
             /\ Head(b) \in Nat /\ Tail(b) \in Seq(Nat) /\ Head(b) = b[1] /\ 1 \in DOMAIN b
             /\ \A i \in DOMAIN Tail(b) : i + 1 \in DOMAIN b /\ Tail(b)[i] = b[i + 1]
      OBVIOUS
    <3> QED
      BY <3>1, <2>1, <1>1
  <2>3. PICK n \in Nat, b \in Seq(Nat) :
          n = Head(stream[r].buffer) /\ b = Tail(stream[r].buffer)
    BY <2>2
  <2>4. n + 1 \in Nat
    BY <2>3, SMTT(30)
  <2>5. [stream[r] EXCEPT !.phase = "idle", !.buffer = b, !.offset = n + 1] \in Stream
    BY <2>4, <1>1, StreamUpdate
  <2>6. PICK s \in Stream :
          s = [stream[r] EXCEPT !.phase = "idle", !.buffer = b, !.offset = n + 1]
    BY <2>5
  <2>7. s.buffer = b
    BY <2>6, <1>1 DEF Stream
  <2>8. stream' = [stream EXCEPT ![r] = s]
    BY <1>5, <2>3, <2>6 DEF DeliverNext
  <2>9. \A q \in Readers : \A i \in DOMAIN stream'[q].buffer :
           stream'[q].buffer[i] < Len(events)
    BY <2>2, <2>3, <2>7, <2>8, StreamOutput
  <2>10. n < Len(events) /\ Acknowledge(n)
    BY <2>1, <2>2, <2>3
  <2> QED
    BY <2>1, <2>9, <2>10, AcknowledgeOutput
<1> QED
  BY <1>2, <1>3, <1>4, <1>5

\* Every step keeps the output buffer counted.
LEMMA OutputStep ==
    ASSUME TypeOK, OutputInv, [Next]_vars
    PROVE  OutputInv'
<1>1. UNCHANGED <<events, outputBuffered, acked, stream>> => OutputInv'
  BY OutputKept DEF OutputInv
<1>2. ASSUME NEW t \in {"accepted", "admitted", "dispatched", "running"}, EmitLifecycle(t)
      PROVE  OutputInv'
  <2>1. t \in EventTypes /\ t # "progress"
    BY DEF EventTypes
  <2> QED
    BY <2>1, <1>2, CommitOutput DEF EmitLifecycle
<1>3. ASSUME NEW t \in SideEvents, EmitRunningEvent(t)
      PROVE  OutputInv'
  <2>1. t \in EventTypes /\ t # "progress"
    BY CoreAssumption DEF EventTypes
  <2> QED
    BY <2>1, <1>3, CommitOutput DEF EmitRunningEvent
<1>4. CASE RestoreEvent
  <2>1. RestoredEvents[Len(events) + 1] \in EventTypes
    BY <1>4, CoreAssumption DEF RestoreEvent, TypeOK
  <2> QED
    BY <2>1, <1>4, CommitOutput DEF RestoreEvent
<1>5. CASE Register \/ StopExecution
  BY <1>1, <1>5 DEF Register, StopExecution
<1>6. ASSUME NEW e \in Emitters, EmitProgress(e) \/ EmitProgressCancelled(e)
      PROVE  OutputInv'
  <2>1. "progress" \in EventTypes
    BY DEF EventTypes, RunningEvents
  <2>2. CASE Commit("progress", FALSE) /\ ~OutputFull /\ UNCHANGED <<acked, stream>>
    <3>1. outputBuffered < Capacity
      BY <2>2, CoreAssumption DEF OutputFull, TypeOK
    <3> QED
      BY <2>1, <2>2, <3>1, CommitOutput
  <2>3. CASE UNCHANGED <<events, outputBuffered, acked, stream>>
    BY <1>1, <2>3
  <2> QED
    BY <1>6, <2>2, <2>3 DEF EmitProgress, EmitProgressCancelled
<1>7. ASSUME NEW f \in Finalizers, NEW o \in ClaimOwners, ClaimTerminal(f, o)
      PROVE  OutputInv'
  BY <1>1, <1>7 DEF ClaimTerminal
<1>8. ASSUME NEW f \in Finalizers, JoinClaim(f) \/ FailFinalization(f) \/ CloseTerminal(f)
      PROVE  OutputInv'
  BY <1>1, <1>8 DEF JoinClaim, FailFinalization, CloseTerminal
<1>9. ASSUME NEW f \in Finalizers, EmitTerminal(f)
      PROVE  OutputInv'
  <2>1. CASE UNCHANGED <<core, events, outputBuffered, waiting>>
    BY <1>1, <1>9, <2>1 DEF EmitTerminal
  <2>2. CASE Commit(finalizer[f].event, FALSE)
             /\ EmitAllowed(core, finalizer[f].event, TargetOf(finalizer[f].event), FALSE)
    <3>1. finalizer[f].event \in TerminalEvents
      BY <2>2 DEF TypeOK, Finalizer, EmitAllowed, ExpectedTransition, RunningEvents
    <3>2. finalizer[f].event \in EventTypes /\ finalizer[f].event # "progress"
      BY <3>1 DEF TerminalEvents, EventTypes
    <3> QED
      BY <1>9, <2>2, <3>2, CommitOutput DEF EmitTerminal
  <2> QED
    BY <1>9, <2>1, <2>2 DEF EmitTerminal
<1>10. ASSUME NEW r \in Readers,
             FetchEvents(r) \/ AbandonNext(r) \/ DeliverNext(r) \/ CloseStream(r)
      PROVE  OutputInv'
  BY <1>10, ReaderOutput
<1>11. CASE UNCHANGED vars
  BY <1>1, <1>11 DEF vars
<1> QED
  BY <1>2, <1>3, <1>4, <1>5, <1>6, <1>7, <1>8, <1>9, <1>10, <1>11 DEF Next

\* outputBuffered of a core that was not recovered counts exactly the live progress
\* frames no consumer was given: a frame that two streams read is freed once
\* (acknowledge), and an emitter that finds the buffer full waits.
THEOREM OutputCounted == Spec => []OutputInv
<1>1. Init => OutputInv
  <2> SUFFICES ASSUME Init PROVE OutputInv
    OBVIOUS
  <2>1. events = <<>> /\ acked = {} /\ outputBuffered = 0
    BY DEF Init
  <2>2. UnreadProgress = {}
    BY <2>1 DEF UnreadProgress
  <2>3. \A r \in Readers : stream[r].buffer = <<>>
    BY DEF Init
  <2> QED
    BY <2>1, <2>2, <2>3, FS_EmptySet, CoreAssumption DEF OutputInv
<1>2. TypeOK /\ OutputInv /\ [Next]_vars => OutputInv'
  BY OutputStep
<1> QED
  BY <1>1, <1>2, TypeCorrect, PTL DEF Spec

\* The live frames a core that was not recovered holds for its consumers stay within
\* its capacity, whichever emitters and streams race (the wait of emitContext).
THEOREM OutputBoundedHolds == Spec => []OutputBounded
<1>1. OutputInv => OutputBounded
  BY DEF OutputInv, OutputBounded
<1> QED
  BY <1>1, OutputCounted, PTL

-------------------------------------------------------------------------------
(* Supervisor.                                                                 *)

\* What each step does to the attempt: its type, and the fields the invariant reads.
\* runTerminalFlow starts it ...
LEMMA FlowStep ==
    ASSUME SupervisorTypeOK, NEW c \in Callers, NEW cancelled \in BOOLEAN,
           RunTerminalFlow(c, cancelled)
    PROVE  /\ attempt' \in Attempt
           /\ attempt'.groups = attempt.groups /\ attempt'.todo = attempt.todo
           /\ attempt'.pc = IF attempt.pc = "none" THEN "begin" ELSE attempt.pc
<1>1. CASE attempt.pc = "none"
  <2>1. attempt' = [attempt EXCEPT !.pc = "begin", !.cancel = cancelled]
    BY <1>1 DEF RunTerminalFlow
  <2>2. attempt' = [pc |-> "begin", cancel |-> cancelled, groups |-> attempt.groups,
                    waits |-> attempt.waits, todo |-> attempt.todo,
                    failure |-> attempt.failure]
    BY <2>1, Zenon DEF SupervisorTypeOK, Attempt
  <2> QED
    BY <1>1, <2>2, Zenon DEF SupervisorTypeOK, Attempt
<1>2. CASE attempt.pc # "none"
  BY <1>2, Zenon DEF RunTerminalFlow, SupervisorTypeOK
<1> QED
  BY <1>1, <1>2

\* ... it copies the processes ...
LEMMA BeginStep ==
    ASSUME SupervisorTypeOK, Begin
    PROVE  /\ attempt' \in Attempt
           /\ attempt'.pc = "term" /\ attempt'.groups = processes
           /\ attempt'.todo = attempt.todo
<1>1. PICK f \in BOOLEAN :
        attempt' = [attempt EXCEPT !.pc = "term", !.groups = processes, !.failure = f]
  BY Zenon DEF Begin, SupervisorTypeOK, Attempt
<1>2. attempt' = [pc |-> "term", cancel |-> attempt.cancel, groups |-> processes,
                  waits |-> attempt.waits, todo |-> attempt.todo, failure |-> f]
  BY <1>1, Zenon DEF SupervisorTypeOK, Attempt
<1> QED
  BY <1>2, Zenon DEF SupervisorTypeOK, Attempt

\* ... starts to wait for the children ...
LEMMA TermStep ==
    ASSUME SupervisorTypeOK, Term
    PROVE  /\ attempt' \in Attempt
           /\ attempt'.pc = "grace" /\ attempt'.groups = attempt.groups
           /\ attempt'.todo = attempt.todo
<1>1. PICK f \in BOOLEAN :
        attempt' = [attempt EXCEPT !.pc = "grace", !.waits = TRUE, !.failure = @ \/ f]
  BY Zenon DEF Term, SupervisorTypeOK
<1>2. attempt' = [pc |-> "grace", cancel |-> attempt.cancel, groups |-> attempt.groups,
                  waits |-> TRUE, todo |-> attempt.todo,
                  failure |-> attempt.failure \/ f]
  BY <1>1, Zenon DEF SupervisorTypeOK, Attempt
<1> QED
  BY <1>2, Zenon DEF SupervisorTypeOK, Attempt

\* ... takes the callbacks ...
LEMMA TakeStep ==
    ASSUME SupervisorTypeOK, TakeCallbacks
    PROVE  /\ attempt' \in Attempt
           /\ attempt'.pc = attempt.pc /\ attempt'.groups = attempt.groups
           /\ attempt'.todo = cleanupCbs
<1>1. attempt' = [pc |-> attempt.pc, cancel |-> attempt.cancel,
                  groups |-> attempt.groups, waits |-> attempt.waits,
                  todo |-> cleanupCbs, failure |-> attempt.failure]
  BY Zenon DEF TakeCallbacks, SupervisorTypeOK, Attempt
<1> QED
  BY <1>1, Zenon DEF SupervisorTypeOK, Attempt

\* ... and runs one of them.
LEMMA CallbackStep ==
    ASSUME SupervisorTypeOK, NEW k \in Callbacks, RunCallback(k)
    PROVE  /\ attempt' \in Attempt
           /\ attempt'.pc = attempt.pc /\ attempt'.groups = attempt.groups
           /\ attempt'.todo = attempt.todo \ {k}
<1>1. PICK f \in BOOLEAN :
        attempt' = [attempt EXCEPT !.todo = @ \ {k}, !.failure = @ \/ f]
  BY DEF RunCallback
<1>2. attempt' = [pc |-> attempt.pc, cancel |-> attempt.cancel,
                  groups |-> attempt.groups, waits |-> attempt.waits,
                  todo |-> attempt.todo \ {k}, failure |-> attempt.failure \/ f]
  BY <1>1, Zenon DEF SupervisorTypeOK, Attempt
<1>3. attempt.todo \ {k} \in SUBSET Callbacks
  BY DEF SupervisorTypeOK, Attempt
<1> QED
  BY <1>2, <1>3, Zenon DEF SupervisorTypeOK, Attempt

\* Steps that only move the attempt on.
LEMMA MoveStep ==
    ASSUME SupervisorTypeOK, NEW p \in {"begin", "term", "grace", "kill", "observe",
                              "callbacks", "done"},
           NEW f \in BOOLEAN, AttemptAt(p, f)
    PROVE  /\ attempt' \in Attempt
           /\ attempt'.pc = p /\ attempt'.groups = attempt.groups
           /\ attempt'.todo = attempt.todo
<1>1. attempt' = [pc |-> p, cancel |-> attempt.cancel, groups |-> attempt.groups,
                  waits |-> attempt.waits, todo |-> attempt.todo,
                  failure |-> attempt.failure \/ f]
  BY Zenon DEF AttemptAt, SupervisorTypeOK, Attempt
<1> QED
  BY <1>1, Zenon DEF SupervisorTypeOK, Attempt

-------------------------------------------------------------------------------
\* Type correctness.

\* The members of a group change inside their type.
LEMMA ProcessType ==
    ASSUME SupervisorTypeOK, NEW g \in Groups, NEW members \in Group, SetGroup(g, members)
    PROVE  SupervisorTypeOK'
  BY Zenon DEF SupervisorTypeOK, SetGroup, memory

\* A change of the leader or of the other members stays in the type.
LEMMA GroupUpdate ==
    ASSUME NEW m \in Group, NEW l \in {"none", "runs", "zombie", "reaped"},
           NEW r \in BOOLEAN
    PROVE  [m EXCEPT !.leader = l] \in Group /\ [m EXCEPT !.rest = r] \in Group
  BY Zenon DEF Group

\* Type correctness: every field of the supervisor, the members of its process groups
\* and the record on disk stay in their declared ranges under every step of
\* supervisor.go, supervisor_cleanup.go and supervisor_recovery.go.
THEOREM SupervisorTypeCorrect == SupervisorSpec => []SupervisorTypeOK
<1>1. SupervisorInit => SupervisorTypeOK
  <2> SUFFICES ASSUME SupervisorInit PROVE SupervisorTypeOK
    OBVIOUS
  <2>1. attempt \in Attempt
    BY Zenon DEF SupervisorInit, Attempt
  <2>2. group \in [Groups -> Group]
    BY Zenon DEF SupervisorInit, Group
  <2>3. signal \in [Groups -> {"none", "kill", "denied"}]
    BY DEF SupervisorInit
  <2>4. file \in File /\ reaper \in [pc : {"idle", "confirm"}, groups : SUBSET Groups]
    BY Zenon DEF SupervisorInit, NoFile, File
  <2>5. spawning \in [group : Groups \cup {NoGroup}, step : {"none", "start", "write"}]
    BY DEF SupervisorInit, NoSpawn
  <2>6. flow \in [Callers -> {"idle", "waits", "returned"}]
    BY DEF SupervisorInit
  <2>7. phase \in Phases /\ onCancel \in 0..1
    BY DEF SupervisorInit, Phases
  <2>8. /\ processes \subseteq Groups /\ cleanupCbs \subseteq Callbacks
        /\ ran \subseteq Callbacks /\ late \subseteq Callbacks
    BY DEF SupervisorInit
  <2>9. unwritten \in BOOLEAN /\ crashed \in BOOLEAN
    BY Zenon DEF SupervisorInit
  <2> QED
    BY <2>1, <2>2, <2>3, <2>4, <2>5, <2>6, <2>7, <2>8, <2>9, Zenon DEF SupervisorTypeOK
<1>2. SupervisorTypeOK /\ [SupervisorNext]_supervisorVars => SupervisorTypeOK'
  <2> SUFFICES ASSUME SupervisorTypeOK, [SupervisorNext]_supervisorVars PROVE SupervisorTypeOK'
    OBVIOUS
  <2>1. ASSUME NEW k \in Callbacks, RegisterCleanup(k) PROVE SupervisorTypeOK'
    <3>1. cleanupCbs' \subseteq Callbacks /\ late' \subseteq Callbacks
      BY <2>1 DEF RegisterCleanup, SupervisorTypeOK
    <3> QED BY <2>1, <3>1, Zenon DEF RegisterCleanup, SupervisorTypeOK, world
  <2>2. ASSUME NEW k \in Callbacks, RunLate(k) PROVE SupervisorTypeOK'
    <3>1. ran' \subseteq Callbacks /\ late' \subseteq Callbacks
      BY <2>2 DEF RunLate, SupervisorTypeOK
    <3> QED BY <2>2, <3>1, Zenon DEF RunLate, SupervisorTypeOK, world
  <2>3. CASE OnCancel
    <3>1. onCancel' \in 0..1
      BY <2>3 DEF OnCancel
    <3> QED BY <2>3, <3>1, Zenon DEF OnCancel, SupervisorTypeOK, world
  <2>4. ASSUME NEW g \in Groups, Spawn(g) PROVE SupervisorTypeOK'
    <3>1. [leader |-> "runs", rest |-> FALSE] \in Group
      BY Zenon DEF Group
    <3>2. group' \in [Groups -> Group]
      BY <2>4, <3>1, Zenon DEF SupervisorTypeOK, Spawn
    <3>3. spawning' \in [group : Groups \cup {NoGroup}, step : {"none", "start", "write"}]
      BY <2>4 DEF Spawn, NoSpawn
    <3>4. processes' \subseteq Groups
      BY <2>4 DEF SupervisorTypeOK, Spawn
    <3> QED BY <2>4, <3>2, <3>3, <3>4, Zenon DEF SupervisorTypeOK, Spawn
  <2>5. CASE PersistTruncates
    <3>1. file' \in File
      BY <2>5, Zenon DEF PersistTruncates, File
    <3>2. spawning' \in [group : Groups \cup {NoGroup}, step : {"none", "start", "write"}]
      BY <2>5 DEF PersistTruncates, SupervisorTypeOK
    <3> QED BY <2>5, <3>1, <3>2, Zenon DEF PersistTruncates, SupervisorTypeOK
  <2>6. CASE PersistWrites
    <3>1. file' \in File
      BY <2>6 DEF PersistWrites, File, SupervisorTypeOK
    <3>2. spawning' \in [group : Groups \cup {NoGroup}, step : {"none", "start", "write"}]
      BY <2>6 DEF PersistWrites, NoSpawn
    <3> QED BY <2>6, <3>1, <3>2, Zenon DEF PersistWrites, SupervisorTypeOK
  <2>7. CASE PersistFails
    <3>1. spawning' \in [group : Groups \cup {NoGroup}, step : {"none", "start", "write"}]
      BY <2>7 DEF PersistFails, NoSpawn
    <3> QED BY <2>7, <3>1, Zenon DEF PersistFails, SupervisorTypeOK
  <2>8. ASSUME NEW c \in Callers, NEW b \in BOOLEAN, RunTerminalFlow(c, b) PROVE SupervisorTypeOK'
    <3>1. flow' \in [Callers -> {"idle", "waits", "returned"}]
      BY <2>8 DEF RunTerminalFlow, SupervisorTypeOK
    <3>2. phase' \in Phases
      BY <2>8 DEF RunTerminalFlow, SupervisorTypeOK, Phases
    <3>3. attempt' \in Attempt
      BY <2>8, FlowStep
    <3> QED BY <2>8, <3>1, <3>2, <3>3, Zenon DEF RunTerminalFlow, SupervisorTypeOK, world
  <2>9. ASSUME NEW c \in Callers, FlowReturns(c) PROVE SupervisorTypeOK'
    <3>1. flow' \in [Callers -> {"idle", "waits", "returned"}]
      BY <2>9 DEF FlowReturns, SupervisorTypeOK
    <3> QED BY <2>9, <3>1, Zenon DEF FlowReturns, SupervisorTypeOK, world
  <2>10. CASE Begin
    <3>1. onCancel' \in 0..1
      BY <2>10 DEF Begin
    <3> QED BY <2>10, <3>1, BeginStep, Zenon DEF Begin, SupervisorTypeOK, world
  <2>11. CASE Term
    BY <2>11, TermStep, Zenon DEF Term, SupervisorTypeOK, world
  <2>12. CASE GraceEnds
    BY <2>12, MoveStep, Zenon DEF GraceEnds, SupervisorTypeOK, world
  <2>13. CASE Kill
    <3>1. signal' \in [Groups -> {"none", "kill", "denied"}]
      BY <2>13 DEF Kill, SupervisorTypeOK
    <3>2. PICK b \in BOOLEAN : AttemptAt("observe", b)
      BY <2>13, Zenon DEF Kill
    <3>3. attempt' \in Attempt
      BY <3>2, MoveStep
    <3> QED BY <2>13, <3>1, <3>3, Zenon DEF Kill, SupervisorTypeOK
  <2>14. CASE ObserveAbsent
    BY <2>14, MoveStep, Zenon DEF ObserveAbsent, SupervisorTypeOK, world
  <2>15. CASE ObserveFails
    BY <2>15, MoveStep, Zenon DEF ObserveFails, SupervisorTypeOK, world
  <2>16. CASE ObserveTimesOut
    <3>1. attempt' \in Attempt
      BY <2>16, MoveStep, Zenon DEF ObserveTimesOut
    <3>2. phase' \in Phases
      BY <2>16 DEF ObserveTimesOut, Phases
    <3> QED BY <2>16, <3>1, <3>2, Zenon DEF ObserveTimesOut, SupervisorTypeOK, world
  <2>17. CASE TakeCallbacks
    <3>1. cleanupCbs' \subseteq Callbacks
      BY <2>17 DEF TakeCallbacks
    <3> QED BY <2>17, <3>1, TakeStep, Zenon DEF TakeCallbacks, SupervisorTypeOK, world
  <2>18. ASSUME NEW k \in Callbacks, RunCallback(k) PROVE SupervisorTypeOK'
    <3>1. ran' \subseteq Callbacks
      BY <2>18 DEF RunCallback, SupervisorTypeOK
    <3> QED BY <2>18, <3>1, CallbackStep, Zenon DEF RunCallback, SupervisorTypeOK, world
  <2>19. CASE Publish
    <3>1. PICK b \in BOOLEAN : AttemptAt("done", b)
      BY <2>19, SupervisorAssumption, Zenon DEF Publish, SupervisorTypeOK, Attempt
    <3>2. attempt' \in Attempt
      BY <3>1, MoveStep
    <3>3. phase' \in Phases
      BY <2>19, Zenon DEF Publish, Phases
    <3>4. file' \in File
      <4>1. file' = NoFile \/ file' = file
        BY <2>19, Zenon DEF Publish
      <4>2. NoFile \in File
        BY Zenon DEF NoFile, File
      <4> QED BY <4>1, <4>2, Zenon DEF SupervisorTypeOK
    <3> QED BY <2>19, <3>2, <3>3, <3>4, Zenon DEF Publish, SupervisorTypeOK
  <2>20. ASSUME NEW g \in Groups, Fork(g) \/ LeaderExits(g) \/ RestExits(g) \/ Reaped(g)
         PROVE  SupervisorTypeOK'
    <3>1. group[g] \in Group
      BY DEF SupervisorTypeOK
    <3> QED BY <2>20, <3>1, ProcessType, GroupUpdate, Zenon
            DEF Fork, LeaderExits, RestExits, Reaped
  <2>21. CASE Crash
    BY <2>21, Zenon DEF Crash, SupervisorTypeOK, memory
  <2>22. CASE ReapSignals \/ ReapGivesUp
    <3>1. reaper' \in [pc : {"idle", "confirm"}, groups : SUBSET Groups]
      BY <2>22 DEF ReapSignals, ReapGivesUp, SupervisorTypeOK, File
    <3> QED BY <2>22, <3>1, ZenonT(60) DEF ReapSignals, ReapGivesUp, SupervisorTypeOK, memory
  <2>23. CASE ReapRemoves
    <3>1. reaper' \in [pc : {"idle", "confirm"}, groups : SUBSET Groups] /\ file' \in File
      BY <2>23 DEF ReapRemoves, NoFile, File
    <3> QED BY <2>23, <3>1, Zenon DEF ReapRemoves, SupervisorTypeOK, memory
  <2>24. CASE UNCHANGED supervisorVars
    BY <2>24, Zenon DEF supervisorVars, memory, world, SupervisorTypeOK
  <2> QED
    BY <2>1, <2>2, <2>3, <2>4, <2>5, <2>6, <2>7, <2>8, <2>9, <2>10, <2>11, <2>12, <2>13,
       <2>14, <2>15, <2>16, <2>17, <2>18, <2>19, <2>20, <2>21, <2>22, <2>23, <2>24, Zenon
       DEF SupervisorNext, AttemptStep
<1> QED
  BY <1>1, <1>2, PTL DEF SupervisorSpec

-------------------------------------------------------------------------------
\* The invariant.

\* A spawn under way is told from none by its step.
LEMMA SpawnDistinct ==
    ASSUME NEW s, s.step # "none"
    PROVE  s # NoSpawn
  BY DEF NoSpawn

\* A group the copy of the attempt misses was never started.
LEMMA AllExitedIsAll ==
    ASSUME StartedInv, StartedKnown, attempt.groups = processes, AllExited
    PROVE  \A g \in Groups : Absent(g)
  BY DEF StartedInv, StartedKnown, AllExited, Absent

\* Every step of the ability, the cleanup, the processes and the reaper keeps the
\* invariant, from which both properties below follow.
THEOREM SupervisorInvHolds == SupervisorSpec => []SupervisorInv
<1>1. SupervisorInit => SupervisorInv
  BY DEF SupervisorInit, SupervisorInv, StartedInv, StartedKnown, PhaseInv, CopyInv, AfterKillInv,
         NothingOutlivesCleanup, ReaperInv, RecordedUntilGone, Absent, NoSpawn, NoFile
<1>2. SupervisorTypeOK /\ SupervisorInv /\ [SupervisorNext]_supervisorVars => SupervisorInv'
  <2> SUFFICES ASSUME SupervisorTypeOK, SupervisorInv, [SupervisorNext]_supervisorVars PROVE SupervisorInv'
    OBVIOUS
  <2> USE DEF SupervisorInv, StartedInv, StartedKnown, PhaseInv, CopyInv, AfterKillInv,
              NothingOutlivesCleanup, ReaperInv, RecordedUntilGone, Absent, Unlocked
  <2>1. ASSUME NEW k \in Callbacks, RegisterCleanup(k) PROVE SupervisorInv'
    BY <2>1 DEF RegisterCleanup, world
  <2>2. ASSUME NEW k \in Callbacks, RunLate(k) PROVE SupervisorInv'
    BY <2>2 DEF RunLate, world
  <2>3. CASE OnCancel
    BY <2>3 DEF OnCancel, world
  \* A spawn finds the phase active, so no attempt has copied the processes yet.
  <2>4. ASSUME NEW g \in Groups, Spawn(g) PROVE SupervisorInv'
    BY <2>4 DEF Spawn, CanSpawn, SupervisorTypeOK, NoSpawn, Group
  <2>5. CASE PersistTruncates
    BY <2>5, SpawnDistinct DEF PersistTruncates, SupervisorTypeOK, NoSpawn
  \* The record holds every started group again.
  <2>6. CASE PersistWrites
    BY <2>6 DEF PersistWrites, NoSpawn
  <2>7. CASE PersistFails
    BY <2>7 DEF PersistFails, NoSpawn
  <2>8. ASSUME NEW c \in Callers, NEW b \in BOOLEAN, RunTerminalFlow(c, b) PROVE SupervisorInv'
    BY <2>8, FlowStep DEF RunTerminalFlow, world
  <2>9. ASSUME NEW c \in Callers, FlowReturns(c) PROVE SupervisorInv'
    BY <2>9 DEF FlowReturns, world
  <2>10. CASE Begin
    BY <2>10, BeginStep DEF Begin, world
  <2>11. CASE Term
    BY <2>11, TermStep DEF Term, world
  <2>12. CASE GraceEnds
    BY <2>12, MoveStep DEF GraceEnds, world
  <2>13. CASE Kill
    <3>2. PICK b \in BOOLEAN : AttemptAt("observe", b)
      BY <2>13, Zenon DEF Kill
    <3> QED BY <2>13, <3>2, MoveStep DEF Kill
  \* The copy is complete, so its absence is the absence of every group.
  <2>14. CASE ObserveAbsent
    BY <2>14, MoveStep, AllExitedIsAll DEF ObserveAbsent, world
  <2>15. CASE ObserveFails
    BY <2>15, MoveStep DEF ObserveFails, world
  <2>16. CASE ObserveTimesOut
    BY <2>16, MoveStep DEF ObserveTimesOut, world
  <2>17. CASE TakeCallbacks
    BY <2>17, TakeStep DEF TakeCallbacks, world
  <2>18. ASSUME NEW k \in Callbacks, RunCallback(k) PROVE SupervisorInv'
    BY <2>18, CallbackStep DEF RunCallback, world
  \* The record goes when no group is left.
  <2>19. CASE Publish
    <3>1. PICK b \in BOOLEAN : AttemptAt("done", b)
      BY <2>19, SupervisorAssumption, Zenon DEF Publish, SupervisorTypeOK, Attempt
    <3> QED BY <2>19, <3>1, MoveStep DEF Publish, NothingLeft
  \* A group that is absent stays absent: nobody is left to fork or to exit.
  <2>20. ASSUME NEW g \in Groups, Fork(g) \/ LeaderExits(g) \/ RestExits(g) \/ Reaped(g)
         PROVE  SupervisorInv'
    BY <2>20 DEF Fork, LeaderExits, RestExits, Reaped, SetGroup, SupervisorTypeOK, Group, memory
  <2>21. CASE Crash
    BY <2>21 DEF Crash, memory
  <2>22. CASE ReapSignals \/ ReapGivesUp
    BY <2>22 DEF ReapSignals, ReapGivesUp, memory
  \* The reaper removes the record it has read and whose groups it saw absent.
  <2>23. CASE ReapRemoves
    BY <2>23 DEF ReapRemoves, memory, ReapConfirmed
  <2>24. CASE UNCHANGED supervisorVars
    BY <2>24 DEF supervisorVars, memory, world
  <2> QED
    BY <2>1, <2>2, <2>3, <2>4, <2>5, <2>6, <2>7, <2>8, <2>9, <2>10, <2>11, <2>12, <2>13,
       <2>14, <2>15, <2>16, <2>17, <2>18, <2>19, <2>20, <2>21, <2>22, <2>23, <2>24, Zenon
       DEF SupervisorNext, AttemptStep
<1> QED
  BY <1>1, <1>2, SupervisorTypeCorrect, PTL DEF SupervisorSpec

\* "runs after process kill, before terminal receipt" (supervisor.go:95), for any sets
\* of groups, callbacks and flows: no process outlives a cleanup callback or a closed
\* barrier, and a closed barrier has run every callback it was given before.
THEOREM NothingOutlivesCleanupHolds == SupervisorSpec => []NothingOutlivesCleanup
<1>1. SupervisorInv => NothingOutlivesCleanup
  BY DEF SupervisorInv
<1> QED
  BY <1>1, SupervisorInvHolds, PTL

\* Until SpawnProcessGroup itself is interrupted or cannot write, the recovery record
\* names every process group that lives, through cleanup, crash and ReapOrphans.
THEOREM RecordedUntilGoneHolds == SupervisorSpec => []RecordedUntilGone
<1>1. SupervisorInv => RecordedUntilGone
  BY DEF SupervisorInv
<1> QED
  BY <1>1, SupervisorInvHolds, PTL

===============================================================================
