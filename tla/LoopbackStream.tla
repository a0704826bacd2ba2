---------------------------- MODULE LoopbackStream ----------------------------
(***************************************************************************)
(* The in-process stream of axon/streams.go: producers push frames against *)
(* credit, consumers take them and return the credit, either side cancels, *)
(* a producer closes.                                                      *)
(*                                                                         *)
(* The frames channel is a sequence, the credit channel a counter, the     *)
(* cancel channel a Boolean.  Every channel operation is one step: a       *)
(* select with several ready cases takes any of them.  Timeouts may fire   *)
(* whenever a call waits.                                                  *)
(***************************************************************************)
EXTENDS Integers, Sequences, FiniteSets

CONSTANTS
    Producers,
    Consumers,
    Credit,     \* initialCredit
    MaxFrames   \* bound: data frames a producer pushes

ASSUME StreamAssumption ==
    /\ Credit \in Nat \ {0}
    /\ MaxFrames \in Nat

VARIABLES
    frames,        \* the frames channel
    credit,        \* tokens in the credit channel
    cancelled,     \* the cancel channel is closed
    closeDone,     \* closeOnce has run
    terminalSeen,
    producer,      \* [Producers -> the call under way]
    consumer,      \* [Consumers -> the call under way]
    pushed,        \* [Producers -> data frames tried so far]
    accepted,      \* [Producers -> numbers of the data frames Push accepted]
    received,      \* frames handed to consumers, in order
    granted        \* GrantCredit has added credit

loopbackVars == <<frames, credit, cancelled, closeDone, terminalSeen, producer, consumer,
          pushed, accepted, received, granted>>

\* A data frame is its producer and number; the end of the stream is one frame.
Terminal == [from |-> "end", n |-> 0]
Data(p, n) == [from |-> p, n |-> n]
IsData(f) == f # Terminal

DataFrames == [from : Producers, n : 1..MaxFrames]
Frame == DataFrames \cup {Terminal}

Idle == [pc |-> "idle", frame |-> Terminal]

ProducerCall ==
    [pc : {"idle", "credit", "send", "close", "cancel"}, frame : Frame]
ConsumerCall ==
    [pc : {"idle", "recv", "return", "seen", "cancel"}, frame : Frame]

\* Fault: no slot beyond the credit.
QueueWithoutReserve == Credit

\* cap(frames): one slot more than the credit.
QueueCap == Credit + 1

LoopbackTypeOK ==
    /\ frames \in Seq(Frame) /\ Len(frames) <= QueueCap
    /\ credit \in 0..Credit
    /\ cancelled \in BOOLEAN /\ closeDone \in BOOLEAN /\ terminalSeen \in BOOLEAN
    /\ producer \in [Producers -> ProducerCall]
    /\ consumer \in [Consumers -> ConsumerCall]
    /\ pushed \in [Producers -> 0..MaxFrames]
    /\ accepted \in [Producers -> Seq(1..MaxFrames)]
    /\ received \in Seq(Frame)
    /\ granted \in BOOLEAN

LoopbackInit ==
    /\ frames = <<>>
    /\ credit = Credit
    /\ cancelled = FALSE /\ closeDone = FALSE /\ terminalSeen = FALSE
    /\ producer = [p \in Producers |-> Idle]
    /\ consumer = [c \in Consumers |-> Idle]
    /\ pushed = [p \in Producers |-> 0]
    /\ accepted = [p \in Producers |-> <<>>]
    /\ received = <<>>
    /\ granted = FALSE

-------------------------------------------------------------------------------
\* Channel operations

\* A non-blocking send of one token: it is dropped when the channel is full.
Returned(c) == IF c < Credit THEN c + 1 ELSE c

\* A non-blocking send of the terminal frame.
WithTerminal(q) == IF Len(q) < QueueCap THEN Append(q, Terminal) ELSE q

ProducerAt(p, pc, f) == producer' = [producer EXCEPT ![p] = [pc |-> pc, frame |-> f]]
ConsumerAt(c, pc, f) == consumer' = [consumer EXCEPT ![c] = [pc |-> pc, frame |-> f]]
ProducerReturns(p) == producer' = [producer EXCEPT ![p] = Idle]
ConsumerReturns(c) == consumer' = [consumer EXCEPT ![c] = Idle]

-------------------------------------------------------------------------------
\* Producers

\* Push of a data frame, of a stream that is not cancelled.
PushData(p) ==
    /\ producer[p].pc = "idle" /\ ~cancelled /\ pushed[p] < MaxFrames
    /\ pushed' = [pushed EXCEPT ![p] = @ + 1]
    /\ ProducerAt(p, "credit", Data(p, pushed[p] + 1))
    /\ UNCHANGED <<frames, credit, cancelled, closeDone, terminalSeen, consumer,
                   accepted, received, granted>>

\* Push of a terminal frame: it needs no credit.
PushTerminal(p) ==
    /\ producer[p].pc = "idle" /\ ~cancelled
    /\ ProducerAt(p, "send", Terminal)
    /\ UNCHANGED <<frames, credit, cancelled, closeDone, terminalSeen, consumer,
                   pushed, accepted, received, granted>>

TakeCredit(p) ==
    /\ producer[p].pc = "credit" /\ credit > 0
    /\ credit' = credit - 1
    /\ ProducerAt(p, "send", producer[p].frame)
    /\ UNCHANGED <<frames, cancelled, closeDone, terminalSeen, consumer, pushed,
                   accepted, received, granted>>

\* The timeout of a push that waits for credit.
PushTimesOut(p) ==
    /\ producer[p].pc = "credit"
    /\ ProducerReturns(p)
    /\ UNCHANGED <<frames, credit, cancelled, closeDone, terminalSeen, consumer,
                   pushed, accepted, received, granted>>

SendFrame(p) ==
    /\ producer[p].pc = "send" /\ Len(frames) < QueueCap
    /\ frames' = Append(frames, producer[p].frame)
    /\ accepted' = IF IsData(producer[p].frame)
                   THEN [accepted EXCEPT ![p] = Append(@, producer[p].frame.n)]
                   ELSE accepted
    /\ ProducerReturns(p)
    /\ UNCHANGED <<credit, cancelled, closeDone, terminalSeen, consumer, pushed,
                   received, granted>>

\* Fault: a cancelled push keeps the credit it took.
PushCancelledKeepingCredit(p) ==
    /\ cancelled
    /\ producer[p].pc \in {"credit", "send"}
    /\ ProducerReturns(p)
    /\ UNCHANGED <<frames, credit, cancelled, closeDone, terminalSeen, consumer,
                   pushed, accepted, received, granted>>

\* The cancel case of both selects of push: credit that was taken is restored.
PushCancelled(p) ==
    /\ cancelled
    /\ producer[p].pc \in {"credit", "send"}
    /\ credit' = IF producer[p].pc = "send" /\ IsData(producer[p].frame)
                 THEN Returned(credit) ELSE credit
    /\ ProducerReturns(p)
    /\ UNCHANGED <<frames, cancelled, closeDone, terminalSeen, consumer, pushed,
                   accepted, received, granted>>

\* close finds the stream not cancelled ...
Close(p) ==
    /\ producer[p].pc = "idle" /\ ~cancelled
    /\ ProducerAt(p, "close", Terminal)
    /\ UNCHANGED <<frames, credit, cancelled, closeDone, terminalSeen, consumer,
                   pushed, accepted, received, granted>>

\* ... and queues the terminal frame, once; a full queue means cancel.
CloseOnce(p) ==
    /\ producer[p].pc = "close"
    /\ closeDone' = TRUE
    /\ IF closeDone \/ (Len(frames) >= QueueCap /\ cancelled)
       THEN ProducerReturns(p) /\ UNCHANGED <<frames, cancelled>>
       ELSE IF Len(frames) < QueueCap
       THEN /\ frames' = Append(frames, Terminal)
            /\ ProducerReturns(p) /\ UNCHANGED cancelled
       ELSE /\ cancelled' = TRUE
            /\ ProducerAt(p, "cancel", Terminal) /\ UNCHANGED frames
    /\ UNCHANGED <<credit, terminalSeen, consumer, pushed, accepted, received,
                   granted>>

-------------------------------------------------------------------------------
\* Either side

\* cancel: cancelOnce closes the cancel channel ...
CancelSource(p) ==
    /\ producer[p].pc = "idle" /\ ~cancelled
    /\ cancelled' = TRUE
    /\ ProducerAt(p, "cancel", Terminal)
    /\ UNCHANGED <<frames, credit, closeDone, terminalSeen, consumer, pushed,
                   accepted, received, granted>>

CancelSink(c) ==
    /\ consumer[c].pc = "idle" /\ ~cancelled
    /\ cancelled' = TRUE
    /\ ConsumerAt(c, "cancel", Terminal)
    /\ UNCHANGED <<frames, credit, closeDone, terminalSeen, producer, pushed,
                   accepted, received, granted>>

\* ... then queues the terminal frame if there is room.
SourceCancelFrame(p) ==
    /\ producer[p].pc = "cancel"
    /\ frames' = WithTerminal(frames)
    /\ ProducerReturns(p)
    /\ UNCHANGED <<credit, cancelled, closeDone, terminalSeen, consumer, pushed,
                   accepted, received, granted>>

SinkCancelFrame(c) ==
    /\ consumer[c].pc = "cancel"
    /\ frames' = WithTerminal(frames)
    /\ ConsumerReturns(c)
    /\ UNCHANGED <<credit, cancelled, closeDone, terminalSeen, producer, pushed,
                   accepted, received, granted>>

-------------------------------------------------------------------------------
\* Consumers

\* NextFrame of a stream whose end was not seen.
NextFrame(c) ==
    /\ consumer[c].pc = "idle" /\ ~terminalSeen
    /\ ConsumerAt(c, "recv", Terminal)
    /\ UNCHANGED <<frames, credit, cancelled, closeDone, terminalSeen, producer,
                   pushed, accepted, received, granted>>

Receive(c) ==
    /\ consumer[c].pc = "recv" /\ frames # <<>>
    /\ frames' = Tail(frames)
    /\ received' = Append(received, Head(frames))
    /\ ConsumerAt(c, IF IsData(Head(frames)) THEN "return" ELSE "seen", Head(frames))
    /\ UNCHANGED <<credit, cancelled, closeDone, terminalSeen, producer, pushed,
                   accepted, granted>>

NextTimesOut(c) ==
    /\ consumer[c].pc = "recv"
    /\ ConsumerReturns(c)
    /\ UNCHANGED <<frames, credit, cancelled, closeDone, terminalSeen, producer,
                   pushed, accepted, received, granted>>

\* The credit of a received data frame goes back.
ReturnCredit(c) ==
    /\ consumer[c].pc = "return"
    /\ credit' = Returned(credit)
    /\ ConsumerReturns(c)
    /\ UNCHANGED <<frames, cancelled, closeDone, terminalSeen, producer, pushed,
                   accepted, received, granted>>

MarkTerminalSeen(c) ==
    /\ consumer[c].pc = "seen"
    /\ terminalSeen' = TRUE
    /\ ConsumerReturns(c)
    /\ UNCHANGED <<frames, credit, cancelled, closeDone, producer, pushed,
                   accepted, received, granted>>

\* GrantCredit(1): no more than the initial credit.
GrantCredit(c) ==
    /\ consumer[c].pc = "idle"
    /\ credit' = Returned(credit)
    /\ granted' = (granted \/ credit < Credit)
    /\ UNCHANGED <<frames, cancelled, closeDone, terminalSeen, producer, consumer,
                   pushed, accepted, received>>

-------------------------------------------------------------------------------
ProducerStep(p) ==
    TakeCredit(p) \/ SendFrame(p) \/ PushCancelled(p) \/ CloseOnce(p)
        \/ SourceCancelFrame(p)

ConsumerStep(c) ==
    Receive(c) \/ ReturnCredit(c) \/ MarkTerminalSeen(c) \/ SinkCancelFrame(c)

LoopbackNext ==
    \/ \E p \in Producers :
          \/ PushData(p) \/ PushTerminal(p) \/ PushTimesOut(p)
          \/ Close(p) \/ CancelSource(p) \/ ProducerStep(p)
    \/ \E c \in Consumers :
          \/ NextFrame(c) \/ NextTimesOut(c) \/ CancelSink(c) \/ GrantCredit(c)
          \/ ConsumerStep(c)

LoopbackSpec == LoopbackInit /\ [][LoopbackNext]_loopbackVars

\* Goroutines are scheduled, and a consumer loops over NextFrame as Drain does.
\* A call that repeatedly waits with a timeout still receives what is there.
LoopbackFairness ==
    /\ \A p \in Producers : WF_loopbackVars(ProducerStep(p))
    /\ \A c \in Consumers : WF_loopbackVars(ConsumerStep(c)) /\ WF_loopbackVars(NextFrame(c))
                            /\ SF_loopbackVars(Receive(c))

LoopbackFairSpec == LoopbackSpec /\ LoopbackFairness

-------------------------------------------------------------------------------
\* Properties

\* Credit on its way: taken for a data frame that is being sent, queued with it,
\* or about to be returned by the consumer that received it.
Sending == {p \in Producers : producer[p].pc = "send" /\ IsData(producer[p].frame)}
Queued == {i \in DOMAIN frames : IsData(frames[i])}
Returning == {c \in Consumers : consumer[c].pc = "return"}

Outstanding == Cardinality(Sending) + Cardinality(Queued) + Cardinality(Returning)

\* push, its cancelled paths and nextFrame never lose credit: a producer is not
\* throttled more than the window it was given; and without GrantCredit it is
\* never throttled less.
CreditConserved ==
    /\ credit + Outstanding >= Credit
    /\ ~granted => credit + Outstanding = Credit

\* "the terminal frame always has a reserved slot and cannot be starved by
\* non-terminal frames" (streams.go:19-21): a stream that is closed or cancelled
\* shows its consumer the end, unless GrantCredit let data frames into that slot.
EndReachesConsumer == (cancelled \/ closeDone) ~> (terminalSeen \/ granted)
===============================================================================
