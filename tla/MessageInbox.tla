----------------------------- MODULE MessageInbox -----------------------------
(***************************************************************************)
(* The inbound side of one invocation: MessageInbox and its admission gate *)
(* inboxInput (axon/invocation/messaging.go, inbox_input.go), driven by    *)
(* sendWithControl on one side and AbilityContext.RecvMessage on the other *)
(* (local_runtime.go).                                                     *)
(*                                                                         *)
(* Two locks: i.mu is held by one Deliver from the dedup lookup to the     *)
(* push into the queue; inboxInput.mu guards the admission phase and the   *)
(* count of deliveries under way, so that CloseInput never waits for       *)
(* i.mu.  The `drained` channel is closed by whoever takes that count to   *)
(* zero after the close.  Receivers take from the queue without a lock.    *)
(*                                                                         *)
(* Messages are known by their AcceptedSequence.  Queued messages and the  *)
(* number already taken stand for the Go channel.                          *)
(***************************************************************************)
EXTENDS Integers, Sequences, FiniteSets

CONSTANTS
    Senders,         \* goroutines that call sendWithControl
    Receivers,       \* goroutines of the ability that call RecvMessage
    MessageIds,      \* ids chosen by callers
    Anonymous,       \* the empty id: the inbox assigns a fresh one
    Capacity,        \* capacity of the queue
    DedupExpires,    \* whether entries may outlive the dedup window
    ReceiptFaults,   \* whether a receipt of the core may be refused
    MaxMessages      \* bound: messages accepted

ASSUME InboxAssumption ==
    /\ IsFiniteSet(Senders)
    /\ Anonymous \notin MessageIds
    /\ Capacity \in Nat \ {0}
    /\ MaxMessages \in Nat
    /\ DedupExpires \in BOOLEAN
    /\ ReceiptFaults \in BOOLEAN

VARIABLES
    phase,         \* inboxInput.phase
    publishing,    \* inboxInput.publishing
    drained,       \* the drained channel is closed
    nextSequence,  \* next AcceptedSequence
    seen,          \* dedup entries
    queue,         \* accepted sequences in the channel
    taken,         \* number of messages taken out of the channel
    claimed,       \* the core has a terminal owner and refuses running events
    evidence,      \* message events of the core, in order
    sender,        \* [Senders -> where its call is]
    receiver,      \* [Receivers -> where its call is]
    acks           \* acknowledgements returned to callers

vars == <<phase, publishing, drained, nextSequence, seen, queue, taken, claimed,
          evidence, sender, receiver, acks>>

Ids == MessageIds \cup {Anonymous}

Ack == [id : Ids, seq : Nat]

SenderState == [pc  : {"idle", "checked", "observing", "pushing", "acked", "full"},
                id  : Ids,
                seq : Nat]

ReceiverState == [pc : {"idle", "got", "last", "eof"}, seq : Nat]

MessageEvent == [type : {"message_received", "message_consumed"}, seq : Nat]

TypeOK ==
    /\ phase \in {"open", "closing", "closed"}
    /\ publishing \in Nat
    /\ drained \in BOOLEAN
    /\ nextSequence \in Nat
    /\ seen \subseteq Ack
    /\ queue \in Seq(Nat)
    /\ taken \in Nat
    /\ claimed \in BOOLEAN
    /\ evidence \in Seq(MessageEvent)
    /\ sender \in [Senders -> SenderState]
    /\ receiver \in [Receivers -> ReceiverState]
    /\ acks \subseteq Ack

Init ==
    /\ phase = "open"
    /\ publishing = 0
    /\ drained = FALSE
    /\ nextSequence = 0
    /\ seen = {}
    /\ queue = <<>>
    /\ taken = 0
    /\ claimed = FALSE
    /\ evidence = <<>>
    /\ sender = [s \in Senders |-> [pc |-> "idle", id |-> Anonymous, seq |-> 0]]
    /\ receiver = [r \in Receivers |-> [pc |-> "idle", seq |-> 0]]
    /\ acks = {}

-------------------------------------------------------------------------------
\* inboxInput

\* Fault: EOF does not wait for the deliveries under way.
FinishCloseAtOnce(newPhase, newPublishing) ==
    /\ publishing' = newPublishing
    /\ IF newPhase = "closing"
       THEN phase' = "closed" /\ drained' = TRUE
       ELSE phase' = newPhase /\ UNCHANGED drained

\* The last delivery under way after the close publishes EOF.
FinishClose(newPhase, newPublishing) ==
    /\ publishing' = newPublishing
    /\ IF newPhase = "closing" /\ newPublishing = 0
       THEN phase' = "closed" /\ drained' = TRUE
       ELSE phase' = newPhase /\ UNCHANGED drained

CloseInput ==
    /\ phase = "open"
    /\ FinishClose("closing", publishing)
    /\ UNCHANGED <<nextSequence, seen, queue, taken, claimed, evidence, sender,
                   receiver, acks>>

-------------------------------------------------------------------------------
\* Delivery

\* Fault: i.mu is released before the observers run.
InboxNeverLocked == TRUE

\* i.mu is free: no delivery is between its sequence number and its push.
InboxUnlocked == \A s \in Senders : sender[s].pc \notin {"observing", "pushing"}

SenderGoes(s, pc) == sender' = [sender EXCEPT ![s] = [sender[s] EXCEPT !.pc = pc]]

SenderReturns(s) == SenderGoes(s, "idle")

\* sendWithControl: the input is open and the core not claimed; both may change
\* before the delivery starts.
SendChecks(s, id) ==
    /\ sender[s].pc = "idle"
    /\ phase = "open" /\ ~claimed
    /\ sender' = [sender EXCEPT ![s] = [pc |-> "checked", id |-> id, seq |-> 0]]
    /\ UNCHANGED <<phase, publishing, drained, nextSequence, seen, queue, taken,
                   claimed, evidence, receiver, acks>>

\* Fault: the sweep also drops entries within the window.
SweptAny(remaining) == TRUE

\* What the sweep may leave of the dedup entries: the younger ones.
Swept(remaining) ==
    \/ remaining = seen
    \/ /\ DedupExpires
       /\ \E oldest \in 0 .. nextSequence : remaining = {e \in seen : e.seq >= oldest}

\* The entries that make a message a retry; an id the inbox generated is fresh.
Accepted(entries, id) == {e \in entries : e.id = id /\ id # Anonymous}

\* A retry of an accepted message is acknowledged with its sequence, even when
\* the input is closed meanwhile.
DeliverDuplicate(s) ==
    /\ sender[s].pc = "checked" /\ InboxUnlocked
    /\ \E remaining \in SUBSET seen :
         /\ Swept(remaining)
         /\ seen' = remaining
         /\ \E e \in Accepted(remaining, sender[s].id) : acks' = acks \cup {e}
    /\ SenderReturns(s)
    /\ UNCHANGED <<phase, publishing, drained, nextSequence, queue, taken, claimed,
                   evidence, receiver>>

\* Deliver up to the observers: refused when the input is closed, refused when
\* the queue is full (the delivery counts as under way until it returns), or
\* accepted under the next sequence number with i.mu held.
DeliverNew(s) ==
    /\ sender[s].pc = "checked" /\ InboxUnlocked
    /\ \E remaining \in SUBSET seen :
         /\ Swept(remaining)
         /\ Accepted(remaining, sender[s].id) = {}
         /\ \/ /\ phase # "open"
               /\ seen' = remaining
               /\ SenderReturns(s)
               /\ UNCHANGED <<publishing, nextSequence>>
            \/ /\ phase = "open" /\ Len(queue) >= Capacity
               /\ seen' = remaining
               /\ publishing' = publishing + 1
               /\ SenderGoes(s, "full")
               /\ UNCHANGED nextSequence
            \/ /\ phase = "open" /\ Len(queue) < Capacity
               /\ nextSequence < MaxMessages
               /\ seen' = remaining \cup {[id |-> sender[s].id, seq |-> nextSequence]}
               /\ publishing' = publishing + 1
               /\ nextSequence' = nextSequence + 1
               /\ sender' = [sender EXCEPT ![s] =
                               [sender[s] EXCEPT !.pc = "observing",
                                                 !.seq = nextSequence]]
    /\ UNCHANGED <<phase, drained, queue, taken, claimed, evidence, receiver, acks>>

\* An event of the core about a message; its failure is ignored.
EmitMessageEvent(type, seq) ==
    \/ ~claimed /\ evidence' = Append(evidence, [type |-> type, seq |-> seq])
    \/ (claimed \/ ReceiptFaults) /\ UNCHANGED evidence

\* The runtime's observer emits message_received before the message is visible.
Observe(s) ==
    /\ sender[s].pc = "observing"
    /\ EmitMessageEvent("message_received", sender[s].seq)
    /\ SenderGoes(s, "pushing")
    /\ UNCHANGED <<phase, publishing, drained, nextSequence, seen, queue, taken,
                   claimed, receiver, acks>>

\* The push (which blocks on a full channel) and the release of i.mu.
Push(s) ==
    /\ sender[s].pc = "pushing"
    /\ Len(queue) < Capacity
    /\ queue' = Append(queue, sender[s].seq)
    /\ SenderGoes(s, "acked")
    /\ UNCHANGED <<phase, publishing, drained, nextSequence, seen, taken, claimed,
                   evidence, receiver, acks>>

\* Fault: a delivery that ends after the close does not publish EOF.
FinishDeliveryOnly(s) ==
    /\ sender[s].pc \in {"acked", "full"}
    /\ publishing' = publishing - 1
    /\ SenderReturns(s)
    /\ UNCHANGED <<phase, drained, nextSequence, seen, queue, taken, claimed,
                   evidence, receiver, acks>>

\* The deferred finish, and Deliver returns.
FinishDelivery(s) ==
    /\ sender[s].pc \in {"acked", "full"}
    /\ FinishClose(phase, publishing - 1)
    /\ acks' = IF sender[s].pc = "acked"
               THEN acks \cup {[id |-> sender[s].id, seq |-> sender[s].seq]}
               ELSE acks
    /\ SenderReturns(s)
    /\ UNCHANGED <<nextSequence, seen, queue, taken, claimed, evidence, receiver>>

-------------------------------------------------------------------------------
\* Receiving

\* The receive on the queue channel, taken in the first select or, once drained
\* was seen, in the second.
Take(r) ==
    /\ receiver[r].pc \in {"idle", "last"}
    /\ queue # <<>>
    /\ queue' = Tail(queue)
    /\ taken' = taken + 1
    /\ receiver' = [receiver EXCEPT ![r] = [pc |-> "got", seq |-> Head(queue)]]
    /\ UNCHANGED <<phase, publishing, drained, nextSequence, seen, claimed,
                   evidence, sender, acks>>

\* The select may choose drained although messages are queued.
SeeDrained(r) ==
    /\ receiver[r].pc = "idle" /\ drained
    /\ receiver' = [receiver EXCEPT ![r] = [receiver[r] EXCEPT !.pc = "last"]]
    /\ UNCHANGED <<phase, publishing, drained, nextSequence, seen, queue, taken,
                   claimed, evidence, sender, acks>>

\* The second select finds the queue empty: Recv returns nil for EOF.
ReturnEOF(r) ==
    /\ receiver[r].pc = "last" /\ queue = <<>>
    /\ receiver' = [receiver EXCEPT ![r] = [receiver[r] EXCEPT !.pc = "eof"]]
    /\ UNCHANGED <<phase, publishing, drained, nextSequence, seen, queue, taken,
                   claimed, evidence, sender, acks>>

\* RecvMessage emits message_consumed and returns the message.
Consume(r) ==
    /\ receiver[r].pc = "got"
    /\ EmitMessageEvent("message_consumed", receiver[r].seq)
    /\ receiver' = [receiver EXCEPT ![r] = [receiver[r] EXCEPT !.pc = "idle"]]
    /\ UNCHANGED <<phase, publishing, drained, nextSequence, seen, queue, taken,
                   claimed, sender, acks>>

\* A terminal owner claims the core.
ClaimCore ==
    /\ ~claimed
    /\ claimed' = TRUE
    /\ UNCHANGED <<phase, publishing, drained, nextSequence, seen, queue, taken,
                   evidence, sender, receiver, acks>>

-------------------------------------------------------------------------------
SenderStep(s) == \/ DeliverDuplicate(s) \/ DeliverNew(s) \/ Observe(s)
                 \/ Push(s) \/ FinishDelivery(s)

ReceiverStep(r) == Take(r) \/ SeeDrained(r) \/ ReturnEOF(r) \/ Consume(r)

Next ==
    \/ CloseInput \/ ClaimCore
    \/ \E s \in Senders : (\E id \in Ids : SendChecks(s, id)) \/ SenderStep(s)
    \/ \E r \in Receivers : ReceiverStep(r)

Spec == Init /\ [][Next]_vars

\* A delivery under way is scheduled, and the ability keeps receiving.
Fairness ==
    /\ \A s \in Senders : WF_vars(SenderStep(s))
    /\ \A r \in Receivers : WF_vars(ReceiverStep(r))

FairSpec == Spec /\ Fairness

-------------------------------------------------------------------------------
\* Properties

\* Messages that are, or were, visible to receivers.
Visible == taken + Len(queue)

\* "EOF is published only after every accepted message has become visible"
\* (inbox_input.go:14): when drained is closed no accepted message is still on
\* its way, and a receiver that was told EOF has missed nothing.
EOFAfterEverything ==
    /\ drained => nextSequence = Visible
    /\ \A r \in Receivers : receiver[r].pc = "eof" => taken = nextSequence

\* Delivery is FIFO without gaps: the channel holds the consecutive sequences
\* that follow the ones taken, never more than its capacity, and an
\* acknowledgement, also one for a retry, names a message receivers can already
\* get: a caller never hears of a message that may still be lost.
FifoGapless ==
    /\ \A k \in DOMAIN queue : queue[k] = taken + k - 1
    /\ Len(queue) <= Capacity
    /\ \A a \in acks : a.seq < Visible

\* Retries of one id get one sequence.  An id that was given a second one has
\* outlived the dedup window, and then so has everything accepted before it.
RetriesAgree ==
    \A a, b \in acks :
        a.id = b.id /\ a.id # Anonymous /\ a.seq < b.seq =>
            /\ DedupExpires
            /\ \A e \in seen : e.seq > a.seq

\* CloseInput reaches every receiver, whatever deliveries it overtook.
CloseReachesReceivers ==
    \A r \in Receivers : (phase # "open") ~> (receiver[r].pc = "eof")
=============================================================================
