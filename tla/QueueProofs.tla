----------------------------- MODULE QueueProofs -----------------------------
(***************************************************************************)
(* Theorems about the queues between goroutines, for any number of them,   *)
(* any messages, frames and capacities.  MessageInbox: EOF comes after     *)
(* every accepted message, delivery is FIFO without gaps, and the retries  *)
(* of a message agree on its sequence.  LoopbackStream: credit is          *)
(* conserved.                                                              *)
(***************************************************************************)
EXTENDS MessageInbox, LoopbackStream, FiniteSetTheorems, TLAPS

-------------------------------------------------------------------------------
\* Deliveries inboxInput counts as under way, and the one that holds i.mu.
Publishers == {s \in Senders : sender[s].pc \in {"observing", "pushing", "acked", "full"}}
Locks(s) == sender[s].pc \in {"observing", "pushing"}

\* The count is exact, EOF is published once the input is closed and the count zero,
\* and receivers look for the end only then.
GateInv ==
    /\ publishing = Cardinality(Publishers)
    /\ drained <=> phase = "closed"
    /\ drained => publishing = 0
    /\ \A r \in Receivers : receiver[r].pc \in {"last", "eof"} => drained

\* The holder of i.mu, if there is one, is alone and carries the one accepted message
\* that is not visible.
LockInv ==
    /\ \A s, t \in Senders : Locks(s) /\ Locks(t) => s = t
    /\ \A s \in Senders : Locks(s) => nextSequence = Visible + 1 /\ sender[s].seq = Visible
    /\ InboxUnlocked => nextSequence = Visible

\* What was accepted and is acknowledged, now or later: the acknowledgements returned
\* and the deliveries that return one.
Message(s) == [id |-> sender[s].id, seq |-> sender[s].seq]
Carries(s) == sender[s].pc \in {"observing", "pushing", "acked"}
Given == acks \cup {Message(s) : s \in {t \in Senders : Carries(t)}}

\* Sequences were handed out, and a delivery is acknowledged once it is visible.
SequenceInv ==
    /\ \A a \in Given : a.seq < nextSequence
    /\ \A e \in seen : e.seq < nextSequence
    /\ \A s \in Senders : sender[s].pc = "acked" => sender[s].seq < Visible

\* Dedup knows one sequence per id, and forgets the oldest first.
DedupInv ==
    /\ \A e, f \in seen : e.id = f.id /\ e.id # Anonymous => e = f
    /\ \A a \in Given : a \in seen \/ (DedupExpires /\ \A e \in seen : e.seq > a.seq)

InboxInv ==
    /\ TypeOK /\ GateInv /\ LockInv /\ SequenceInv /\ DedupInv
    /\ EOFAfterEverything /\ FifoGapless

-------------------------------------------------------------------------------
\* Lemmas about the parts of the invariant.

\* The shapes the steps work on.
LEMMA Shapes ==
    ASSUME TypeOK
    PROVE  /\ sender \in [Senders -> SenderState] /\ receiver \in [Receivers -> ReceiverState]
           /\ \A s \in Senders : sender[s] \in SenderState /\ sender[s].seq \in Nat
                                 /\ sender[s].id \in Ids
           /\ publishing \in Nat /\ nextSequence \in Nat /\ taken \in Nat /\ queue \in Seq(Nat)
           /\ Len(queue) \in Nat /\ seen \subseteq Ack /\ acks \subseteq Ack
           /\ \A e \in seen \cup acks : e.seq \in Nat
           /\ Capacity \in Nat /\ Visible \in Nat /\ Visible = taken + Len(queue)
<1>1. /\ sender \in [Senders -> SenderState] /\ receiver \in [Receivers -> ReceiverState]
      /\ publishing \in Nat /\ nextSequence \in Nat /\ taken \in Nat /\ queue \in Seq(Nat)
      /\ seen \subseteq Ack /\ acks \subseteq Ack
  BY DEF TypeOK
<1>2. \A s \in Senders : sender[s] \in SenderState /\ sender[s].seq \in Nat
                         /\ sender[s].id \in Ids
  BY <1>1 DEF SenderState
<1>3. \A e \in seen \cup acks : e.seq \in Nat
  BY <1>1 DEF Ack
<1>4. Capacity \in Nat /\ Len(queue) \in Nat /\ Visible = taken + Len(queue) /\ Visible \in Nat
  BY <1>1, InboxAssumption DEF Visible
<1> QED
  BY <1>1, <1>2, <1>3, <1>4

\* A sender goes on to the next step of its call.
LEMMA SenderGoesEffect ==
    ASSUME TypeOK, NEW s \in Senders,
           NEW pc \in {"idle", "checked", "observing", "pushing", "acked", "full"},
           SenderGoes(s, pc)
    PROVE  /\ sender' \in [Senders -> SenderState]
           /\ sender'[s].pc = pc /\ sender'[s].id = sender[s].id
           /\ sender'[s].seq = sender[s].seq
           /\ \A t \in Senders : t # s => sender'[t] = sender[t]
<1>1. sender[s] \in SenderState
  BY Shapes
<1>2. /\ [sender[s] EXCEPT !.pc = pc] \in SenderState
      /\ [sender[s] EXCEPT !.pc = pc].pc = pc
      /\ [sender[s] EXCEPT !.pc = pc].id = sender[s].id
      /\ [sender[s] EXCEPT !.pc = pc].seq = sender[s].seq
  BY <1>1 DEF SenderState
<1>3. sender' = [sender EXCEPT ![s] = [sender[s] EXCEPT !.pc = pc]]
  BY DEF SenderGoes
<1> HIDE DEF SenderState
<1> QED
  BY <1>2, <1>3, Shapes

\* The deliveries under way are finitely many.
LEMMA PublishersFinite ==
    /\ IsFiniteSet(Publishers) /\ Cardinality(Publishers) \in Nat
    /\ Cardinality(Publishers) = 0 <=> Publishers = {}
<1>1. IsFiniteSet(Publishers)
  BY InboxAssumption, FS_Subset DEF Publishers
<1> QED
  BY <1>1, FS_CardinalityType, FS_EmptySet

\* The count of deliveries under way goes up when one starts, down when one returns,
\* and else stays.
LEMMA CountStarted ==
    ASSUME NEW s \in Senders, s \notin Publishers, Publishers' = Publishers \cup {s}
    PROVE  Cardinality(Publishers') = Cardinality(Publishers) + 1
  BY PublishersFinite, FS_AddElement

LEMMA CountReturned ==
    ASSUME NEW s \in Senders, s \in Publishers, Publishers' = Publishers \ {s}
    PROVE  Cardinality(Publishers') = Cardinality(Publishers) - 1 /\ Cardinality(Publishers) > 0
<1>1. Cardinality(Publishers \ {s}) = Cardinality(Publishers) - 1
  BY PublishersFinite, FS_RemoveElement
<1>2. Cardinality(Publishers) # 0
  BY PublishersFinite
<1> QED
  BY <1>1, <1>2, PublishersFinite

\* The set of deliveries under way, when one sender changes.
LEMMA PublishersEffect ==
    ASSUME NEW s \in Senders, \A t \in Senders : t # s => sender'[t] = sender[t]
    PROVE  Publishers' = IF sender'[s].pc \in {"observing", "pushing", "acked", "full"}
                         THEN Publishers \cup {s} ELSE Publishers \ {s}
  BY DEF Publishers

\* What is acknowledged, now or later.
LEMMA GivenDef ==
    ASSUME NEW a
    PROVE  a \in Given <=> a \in acks \/ \E s \in Senders : Carries(s) /\ a = Message(s)
  BY DEF Given

\* Once EOF is published, no delivery is under way and everything is visible.
LEMMA DrainedIsQuiet ==
    ASSUME InboxInv, drained
    PROVE  /\ phase = "closed" /\ InboxUnlocked /\ nextSequence = Visible
           /\ \A s \in Senders : sender[s].pc \in {"idle", "checked"}
<1>1. Publishers = {}
  BY PublishersFinite DEF InboxInv, GateInv
<1>2. \A s \in Senders : sender[s].pc \notin {"observing", "pushing", "acked", "full"}
  BY <1>1 DEF Publishers
<1>3. \A s \in Senders : sender[s].pc \in {"idle", "checked"}
  BY <1>2, Shapes DEF InboxInv, SenderState
<1>4. InboxUnlocked
  BY <1>2 DEF InboxUnlocked
<1> QED
  BY <1>3, <1>4 DEF InboxInv, GateInv, LockInv

-------------------------------------------------------------------------------
\* Steps that leave deliveries, the queue and the dedup entries alone.

\* The state of deliveries and of dedup depends on these variables only.
LEMMA DeliveriesKept ==
    ASSUME InboxInv, UNCHANGED <<nextSequence, seen, queue, taken, sender, acks>>
    PROVE  /\ LockInv' /\ SequenceInv' /\ DedupInv' /\ FifoGapless'
           /\ Cardinality(Publishers') = Cardinality(Publishers) /\ Visible' = Visible
<1>1. Publishers' = Publishers
  BY DEF Publishers
<1>2. Given' = Given
  BY DEF Given, Carries, Message
<1>3. Visible' = Visible
  BY DEF Visible
<1>4. LockInv'
  BY <1>3 DEF InboxInv, LockInv, Locks, InboxUnlocked
<1>5. SequenceInv' /\ DedupInv'
  BY <1>2, <1>3 DEF InboxInv, SequenceInv, DedupInv
<1>6. FifoGapless'
  BY <1>3 DEF InboxInv, FifoGapless
<1> QED
  BY <1>1, <1>3, <1>4, <1>5, <1>6

\* CloseInput: EOF at once where no delivery is under way.
LEMMA CloseInputPreserves ==
    ASSUME InboxInv, CloseInput
    PROVE  InboxInv'
<1>1. /\ phase = "open" /\ publishing' = publishing
      /\ UNCHANGED <<nextSequence, seen, queue, taken, claimed, evidence, sender, receiver,
                     acks>>
      /\ phase' = IF publishing = 0 THEN "closed" ELSE "closing"
  BY DEF CloseInput, FinishClose
<1>2. drained' = (publishing = 0)
  <2>1. ~drained /\ drained \in BOOLEAN
    BY <1>1 DEF InboxInv, GateInv, TypeOK
  <2> QED
    BY <2>1 DEF CloseInput, FinishClose
<1>3. /\ LockInv' /\ SequenceInv' /\ DedupInv' /\ FifoGapless'
      /\ Cardinality(Publishers') = Cardinality(Publishers) /\ Visible' = Visible
  BY <1>1, DeliveriesKept
<1>4. GateInv'
  <2>1. drained' <=> phase' = "closed"
    BY <1>1, <1>2
  <2>2. \A r \in Receivers : receiver[r].pc \notin {"last", "eof"}
    BY <1>1 DEF InboxInv, GateInv
  <2> QED
    BY <2>1, <2>2, <1>1, <1>2, <1>3 DEF InboxInv, GateInv
<1>5. publishing = 0 => nextSequence = Visible
  <2>1. publishing = 0 => Publishers = {}
    BY PublishersFinite DEF InboxInv, GateInv
  <2>2. Publishers = {} => InboxUnlocked
    BY DEF Publishers, InboxUnlocked
  <2> QED
    BY <2>1, <2>2 DEF InboxInv, LockInv
<1>6. EOFAfterEverything'
  BY <1>1, <1>2, <1>3, <1>5 DEF InboxInv, EOFAfterEverything
<1>7. TypeOK'
  <2>1. drained' \in BOOLEAN
    BY <1>2
  <2>2. phase' \in {"open", "closing", "closed"}
    BY <1>1
  <2> QED
    BY <2>1, <2>2, <1>1 DEF InboxInv, TypeOK
<1> QED
  BY <1>3, <1>4, <1>6, <1>7 DEF InboxInv

\* A terminal owner claims the core, or a sender has checked it and the input.
LEMMA ClaimCorePreserves ==
    ASSUME InboxInv, ClaimCore
    PROVE  InboxInv'
<1>1. /\ UNCHANGED <<phase, publishing, drained, nextSequence, seen, queue, taken, evidence,
                     sender, receiver, acks>>
      /\ claimed' = TRUE
  BY DEF ClaimCore
<1>2. /\ LockInv' /\ SequenceInv' /\ DedupInv' /\ FifoGapless'
      /\ Cardinality(Publishers') = Cardinality(Publishers) /\ Visible' = Visible
  BY <1>1, DeliveriesKept
<1>3. GateInv' /\ EOFAfterEverything'
  BY <1>1, <1>2 DEF InboxInv, GateInv, EOFAfterEverything
<1>4. claimed' \in BOOLEAN
  BY <1>1, Zenon
<1>5. TypeOK'
  BY <1>1, <1>4 DEF InboxInv, TypeOK
<1> QED
  BY <1>2, <1>3, <1>5 DEF InboxInv

-------------------------------------------------------------------------------
\* Deliveries

\* A sender that holds i.mu neither before nor after its step leaves the lock alone.
LEMMA LockKept ==
    ASSUME InboxInv, NEW s \in Senders, \A t \in Senders : t # s => sender'[t] = sender[t],
           ~Locks(s), ~Locks(s)', UNCHANGED <<nextSequence, queue, taken>>
    PROVE  LockInv'
<1>1. \A t \in Senders : Locks(t)' => Locks(t) /\ t # s /\ sender'[t] = sender[t]
  BY DEF Locks
<1>2. Visible' = Visible
  BY DEF Visible
<1>3. InboxUnlocked' => InboxUnlocked
  BY DEF InboxUnlocked, Locks
<1> QED
  BY <1>1, <1>2, <1>3 DEF InboxInv, LockInv

\* What is given when a sender carries no message before and after its step.
LEMMA GivenKept ==
    ASSUME NEW s \in Senders, \A t \in Senders : t # s => sender'[t] = sender[t],
           ~Carries(s), ~Carries(s)', NEW a, a \in Given'
    PROVE  a \in Given \/ a \in acks'
<1>1. a \in acks' \/ \E t \in Senders : Carries(t)' /\ a = Message(t)'
  BY GivenDef DEF Given
<1>2. ASSUME NEW t \in Senders, Carries(t)', a = Message(t)'
      PROVE  a \in Given
  <2>1. t # s /\ sender'[t] = sender[t]
    BY <1>2
  <2>2. Carries(t) /\ a = Message(t)
    BY <1>2, <2>1 DEF Carries, Message
  <2> QED
    BY <2>2, GivenDef
<1> QED
  BY <1>1, <1>2

\* The sweep forgets the oldest entries first.
LEMMA SweptEffect ==
    ASSUME InboxInv, NEW remaining \in SUBSET seen, Swept(remaining)
    PROVE  /\ \A e, f \in remaining : e.id = f.id /\ e.id # Anonymous => e = f
           /\ \A a \in Given : a \in remaining
                                 \/ (DedupExpires /\ \A e \in remaining : e.seq > a.seq)
           /\ \A e \in remaining : e.seq < nextSequence
<1>1. \A a \in Given : a \in seen \/ (DedupExpires /\ \A e \in seen : e.seq > a.seq)
  BY DEF InboxInv, DedupInv
<1>2. \A a \in Given : a \in remaining
                         \/ (DedupExpires /\ \A e \in remaining : e.seq > a.seq)
  <2> SUFFICES ASSUME NEW a \in Given, a \notin remaining
               PROVE  DedupExpires /\ \A e \in remaining : e.seq > a.seq
    OBVIOUS
  <2>1. CASE a \notin seen
    BY <2>1, <1>1
  <2>2. CASE a \in seen
    <3>1. DedupExpires /\ \E oldest \in 0 .. nextSequence :
                             remaining = {e \in seen : e.seq >= oldest}
      BY <2>2 DEF Swept
    <3>2. PICK oldest \in 0 .. nextSequence : remaining = {e \in seen : e.seq >= oldest}
      BY <3>1
    <3>3. /\ oldest \in Int /\ a.seq \in Nat /\ ~(a.seq >= oldest)
          /\ \A e \in remaining : e.seq \in Nat /\ e.seq >= oldest
      BY <2>2, <3>2, Shapes DEF InboxInv
    <3> QED
      BY <3>1, <3>3
  <2> QED
    BY <2>1, <2>2
<1> QED
  BY <1>2 DEF InboxInv, DedupInv, SequenceInv

\* A sender comes with a message: it carries nothing yet.
LEMMA SendChecksPreserves ==
    ASSUME InboxInv, NEW s \in Senders, NEW id \in Ids, SendChecks(s, id)
    PROVE  InboxInv'
<1>1. /\ sender[s].pc = "idle"
      /\ sender' = [sender EXCEPT ![s] = [pc |-> "checked", id |-> id, seq |-> 0]]
      /\ UNCHANGED <<phase, publishing, drained, nextSequence, seen, queue, taken, claimed,
                     evidence, receiver, acks>>
  BY DEF SendChecks
<1>2. [pc |-> "checked", id |-> id, seq |-> 0] \in SenderState
  BY DEF SenderState
<1>3. /\ sender' \in [Senders -> SenderState] /\ sender'[s].pc = "checked"
      /\ \A t \in Senders : t # s => sender'[t] = sender[t]
  BY <1>1, <1>2, Shapes DEF InboxInv
<1>4. ~Locks(s) /\ ~Locks(s)' /\ ~Carries(s) /\ ~Carries(s)' /\ s \notin Publishers
  BY <1>1, <1>3 DEF Locks, Carries, Publishers
<1>5. LockInv'
  BY <1>1, <1>3, <1>4, LockKept
<1>6. \A a \in Given' : a \in Given
  BY <1>1, <1>3, <1>4, GivenKept, GivenDef
<1>7. Visible' = Visible
  BY <1>1 DEF Visible
<1>8. SequenceInv' /\ DedupInv'
  BY <1>1, <1>3, <1>6, <1>7 DEF InboxInv, SequenceInv, DedupInv
<1>9. Publishers' = Publishers
  BY <1>3, <1>4, PublishersEffect
<1>10. GateInv' /\ EOFAfterEverything' /\ FifoGapless'
  BY <1>1, <1>7, <1>9 DEF InboxInv, GateInv, EOFAfterEverything, FifoGapless
<1>11. TypeOK'
  BY <1>1, <1>3 DEF InboxInv, TypeOK
<1> QED
  BY <1>5, <1>8, <1>10, <1>11 DEF InboxInv

\* A retry is acknowledged with the entry dedup still has.
LEMMA DeliverDuplicatePreserves ==
    ASSUME InboxInv, NEW s \in Senders, DeliverDuplicate(s)
    PROVE  InboxInv'
<1>1. /\ sender[s].pc = "checked" /\ InboxUnlocked /\ SenderGoes(s, "idle")
      /\ UNCHANGED <<phase, publishing, drained, nextSequence, queue, taken, claimed,
                     evidence, receiver>>
  BY DEF DeliverDuplicate, SenderReturns
<1>2. PICK remaining \in SUBSET seen, e \in seen :
        Swept(remaining) /\ e \in remaining /\ seen' = remaining /\ acks' = acks \cup {e}
  BY DEF DeliverDuplicate, Accepted
<1>3. /\ sender' \in [Senders -> SenderState] /\ sender'[s].pc = "idle"
      /\ \A t \in Senders : t # s => sender'[t] = sender[t]
  BY <1>1, SenderGoesEffect DEF InboxInv
<1>4. ~Locks(s) /\ ~Locks(s)' /\ ~Carries(s) /\ ~Carries(s)' /\ s \notin Publishers
  BY <1>1, <1>3 DEF Locks, Carries, Publishers
<1>5. LockInv'
  BY <1>1, <1>3, <1>4, LockKept
<1>6. \A a \in Given' : a \in Given \/ a = e
  BY <1>2, <1>3, <1>4, GivenKept, GivenDef
<1>7. Visible' = Visible /\ nextSequence = Visible
  BY <1>1 DEF Visible, InboxInv, LockInv
<1>8. SequenceInv'
  BY <1>1, <1>2, <1>3, <1>6, <1>7 DEF InboxInv, SequenceInv
<1>9. DedupInv'
  BY <1>2, <1>6, SweptEffect DEF DedupInv
<1>10. Publishers' = Publishers
  BY <1>3, <1>4, PublishersEffect
<1>11. GateInv' /\ EOFAfterEverything'
  BY <1>1, <1>7, <1>10 DEF InboxInv, GateInv, EOFAfterEverything
<1>12. FifoGapless'
  BY <1>1, <1>2, <1>7 DEF InboxInv, FifoGapless, SequenceInv
<1>13. seen' \subseteq Ack /\ acks' \subseteq Ack
  BY <1>2, Shapes DEF InboxInv
<1>14. TypeOK'
  BY <1>1, <1>3, <1>13 DEF InboxInv, TypeOK
<1> QED
  BY <1>5, <1>8, <1>9, <1>11, <1>12, <1>14 DEF InboxInv

\* A new message is refused: the input is closed, or the queue full, in which case the
\* delivery counts as under way until it returns.
LEMMA DeliverRefusedPreserves ==
    ASSUME InboxInv, NEW s \in Senders, sender[s].pc = "checked",
           NEW remaining \in SUBSET seen, Swept(remaining), seen' = remaining,
           \/ SenderGoes(s, "idle") /\ UNCHANGED publishing
           \/ SenderGoes(s, "full") /\ publishing' = publishing + 1 /\ phase = "open",
           UNCHANGED <<phase, drained, nextSequence, queue, taken, claimed, evidence,
                       receiver, acks>>
    PROVE  InboxInv'
<1>1. PICK pc \in {"idle", "full"} :
        /\ SenderGoes(s, pc)
        /\ pc = "idle" => UNCHANGED publishing
        /\ pc = "full" => publishing' = publishing + 1 /\ phase = "open"
  OBVIOUS
<1>2. /\ sender' \in [Senders -> SenderState] /\ sender'[s].pc = pc
      /\ \A t \in Senders : t # s => sender'[t] = sender[t]
  BY <1>1, SenderGoesEffect DEF InboxInv
<1>3. ~Locks(s) /\ ~Locks(s)' /\ ~Carries(s) /\ ~Carries(s)' /\ s \notin Publishers
  BY <1>1, <1>2 DEF Locks, Carries, Publishers
<1>4. LockInv'
  BY <1>2, <1>3, LockKept
<1>5. \A a \in Given' : a \in Given
  BY <1>2, <1>3, GivenKept, GivenDef
<1>6. Visible' = Visible
  BY DEF Visible
<1>7. SequenceInv'
  BY <1>2, <1>5, <1>6, SweptEffect DEF InboxInv, SequenceInv
<1>8. DedupInv'
  BY <1>5, SweptEffect DEF DedupInv
<1>9. publishing' = Cardinality(Publishers') /\ publishing' \in Nat
  <2>1. CASE pc = "idle"
    <3>1. Publishers' = Publishers
      BY <2>1, <1>2, <1>3, PublishersEffect
    <3> QED
      BY <2>1, <3>1, <1>1, Shapes DEF InboxInv, GateInv
  <2>2. CASE pc = "full"
    <3>1. Publishers' = Publishers \cup {s}
      BY <2>2, <1>2, PublishersEffect
    <3>2. Cardinality(Publishers') = Cardinality(Publishers) + 1
      BY <3>1, <1>3, CountStarted
    <3> QED
      BY <2>2, <3>2, <1>1, Shapes DEF InboxInv, GateInv
  <2> QED
    BY <2>1, <2>2
<1>10. pc = "full" => ~drained
  BY <1>1 DEF InboxInv, GateInv
<1>11. GateInv'
  BY <1>1, <1>9, <1>10 DEF InboxInv, GateInv
<1>12. EOFAfterEverything' /\ FifoGapless'
  BY <1>6 DEF InboxInv, EOFAfterEverything, FifoGapless
<1>13. TypeOK'
  BY <1>2, <1>9 DEF InboxInv, TypeOK
<1> QED
  BY <1>4, <1>7, <1>8, <1>11, <1>12, <1>13 DEF InboxInv

\* A new message is accepted under the next sequence number, with i.mu held.
LEMMA DeliverAcceptedPreserves ==
    ASSUME InboxInv, NEW s \in Senders, sender[s].pc = "checked", InboxUnlocked,
           NEW remaining \in SUBSET seen, Swept(remaining),
           Accepted(remaining, sender[s].id) = {}, phase = "open",
           seen' = remaining \cup {[id |-> sender[s].id, seq |-> nextSequence]},
           publishing' = publishing + 1, nextSequence' = nextSequence + 1,
           sender' = [sender EXCEPT ![s] = [sender[s] EXCEPT !.pc = "observing",
                                                             !.seq = nextSequence]],
           UNCHANGED <<phase, drained, queue, taken, claimed, evidence, receiver, acks>>
    PROVE  InboxInv'
<1> DEFINE new == [id |-> sender[s].id, seq |-> nextSequence]
<1>1. /\ nextSequence \in Nat /\ sender[s] \in SenderState /\ sender[s].id \in Ids
      /\ publishing \in Nat /\ nextSequence = Visible /\ Visible \in Nat
  BY Shapes DEF InboxInv, LockInv
<1>2. /\ [sender[s] EXCEPT !.pc = "observing", !.seq = nextSequence] \in SenderState
      /\ [sender[s] EXCEPT !.pc = "observing", !.seq = nextSequence].pc = "observing"
      /\ [sender[s] EXCEPT !.pc = "observing", !.seq = nextSequence].id = sender[s].id
      /\ [sender[s] EXCEPT !.pc = "observing", !.seq = nextSequence].seq = nextSequence
  BY <1>1 DEF SenderState
<1>3. /\ sender' \in [Senders -> SenderState] /\ sender'[s].pc = "observing"
      /\ sender'[s].id = sender[s].id /\ sender'[s].seq = nextSequence
      /\ \A t \in Senders : t # s => sender'[t] = sender[t]
  <2> HIDE DEF SenderState
  <2> QED
    BY <1>2, Shapes DEF InboxInv
<1>4. Visible' = Visible
  BY DEF Visible
<1>5. /\ ~Locks(s) /\ Locks(s)' /\ ~Carries(s) /\ Carries(s)' /\ s \notin Publishers
      /\ Message(s)' = new
  BY <1>3 DEF Locks, Carries, Publishers, Message
<1>6. \A t \in Senders : Locks(t)' => t = s
  BY <1>3 DEF InboxUnlocked, Locks
<1>7. LockInv'
  BY <1>1, <1>3, <1>4, <1>5, <1>6 DEF LockInv, InboxUnlocked, Locks
<1>8. \A a \in Given' : a \in Given \/ a = new
  <2> SUFFICES ASSUME NEW a \in Given' PROVE a \in Given \/ a = new
    OBVIOUS
  <2>1. a \in acks' \/ \E t \in Senders : Carries(t)' /\ a = Message(t)'
    BY GivenDef DEF Given
  <2>2. ASSUME NEW t \in Senders, t # s, Carries(t)', a = Message(t)'
        PROVE  a \in Given
    <3>1. Carries(t) /\ a = Message(t)
      BY <2>2, <1>3 DEF Carries, Message
    <3> QED
      BY <3>1, GivenDef
  <2> QED
    BY <2>1, <2>2, <1>5, GivenDef
<1>9. new \in Ack /\ new.seq = nextSequence /\ new.id = sender[s].id
  BY <1>1 DEF Ack
<1> HIDE DEF new
<1>10. seen' = remaining \cup {new}
  BY DEF new
<1>11. /\ \A a \in Given : a.seq < nextSequence
       /\ \A e \in remaining : e.seq < nextSequence
       /\ \A t \in Senders : sender[t].pc = "acked" => sender[t].seq < Visible
  BY DEF InboxInv, SequenceInv
<1>12. /\ \A a \in Given : a.seq \in Nat
       /\ \A e \in remaining : e.seq \in Nat
  <2>1. \A e \in seen \cup acks : e.seq \in Nat
    BY Shapes DEF InboxInv
  <2>2. \A t \in Senders : Message(t).seq \in Nat
    BY Shapes DEF InboxInv, Message
  <2> QED
    BY <2>1, <2>2, GivenDef
<1>13. SequenceInv'
  BY <1>1, <1>3, <1>4, <1>8, <1>9, <1>10, <1>11, <1>12 DEF SequenceInv
<1>14. DedupInv'
  <2>1. \A e \in remaining : e.id = new.id => e.id = Anonymous
    BY <1>9 DEF Accepted
  <2>2. \A e, f \in seen' : e.id = f.id /\ e.id # Anonymous => e = f
    BY <2>1, <1>10, SweptEffect
  <2>3. ASSUME NEW a \in Given'
        PROVE  a \in seen' \/ (DedupExpires /\ \A e \in seen' : e.seq > a.seq)
    <3>1. CASE a = new
      BY <3>1, <1>10
    <3>2. CASE a \in Given
      <4>1. a \in remaining \/ (DedupExpires /\ \A e \in remaining : e.seq > a.seq)
        BY <3>2, SweptEffect
      <4>2. new.seq > a.seq
        BY <3>2, <1>1, <1>9, <1>11, <1>12
      <4> QED
        BY <4>1, <4>2, <1>10
    <3> QED
      BY <3>1, <3>2, <1>8
  <2> QED
    BY <2>2, <2>3 DEF DedupInv
<1>15. Publishers' = Publishers \cup {s}
  BY <1>3, PublishersEffect
<1>16. publishing' = Cardinality(Publishers')
  BY <1>5, <1>15, CountStarted DEF InboxInv, GateInv
<1>17. ~drained
  BY DEF InboxInv, GateInv
<1>18. GateInv'
  BY <1>16, <1>17 DEF InboxInv, GateInv
<1>19. EOFAfterEverything'
  BY <1>17, <1>18 DEF GateInv, EOFAfterEverything
<1>20. FifoGapless'
  BY <1>4 DEF InboxInv, FifoGapless
<1>21. TypeOK'
  <2>1. seen' \subseteq Ack /\ publishing' \in Nat /\ nextSequence' \in Nat
    BY <1>1, <1>9, <1>10, Shapes DEF InboxInv
  <2> QED
    BY <2>1, <1>3 DEF InboxInv, TypeOK
<1> QED
  BY <1>7, <1>13, <1>14, <1>18, <1>19, <1>20, <1>21 DEF InboxInv

\* Deliver, up to the observers.
LEMMA DeliverNewPreserves ==
    ASSUME InboxInv, NEW s \in Senders, DeliverNew(s)
    PROVE  InboxInv'
<1>1. /\ sender[s].pc = "checked" /\ InboxUnlocked
      /\ UNCHANGED <<phase, drained, queue, taken, claimed, evidence, receiver, acks>>
  BY DEF DeliverNew
<1>2. PICK remaining \in SUBSET seen :
        /\ Swept(remaining) /\ Accepted(remaining, sender[s].id) = {}
        /\ \/ /\ phase # "open"
              /\ seen' = remaining
              /\ SenderReturns(s)
              /\ UNCHANGED <<publishing, nextSequence>>
           \/ /\ phase = "open" /\ Len(queue) >= Capacity
              /\ seen' = remaining
              /\ publishing' = publishing + 1
              /\ SenderGoes(s, "full")
              /\ UNCHANGED nextSequence
           \/ /\ phase = "open" /\ Len(queue) < Capacity
              /\ nextSequence < MaxMessages
              /\ seen' = remaining \cup {[id |-> sender[s].id, seq |-> nextSequence]}
              /\ publishing' = publishing + 1
              /\ nextSequence' = nextSequence + 1
              /\ sender' = [sender EXCEPT ![s] =
                              [sender[s] EXCEPT !.pc = "observing",
                                                !.seq = nextSequence]]
  BY DEF DeliverNew
<1>3. CASE seen' = remaining /\ UNCHANGED nextSequence
           /\ (\/ SenderGoes(s, "idle") /\ UNCHANGED publishing
               \/ SenderGoes(s, "full") /\ publishing' = publishing + 1 /\ phase = "open")
  BY <1>1, <1>2, <1>3, DeliverRefusedPreserves
<1>4. CASE /\ phase = "open"
           /\ seen' = remaining \cup {[id |-> sender[s].id, seq |-> nextSequence]}
           /\ publishing' = publishing + 1
           /\ nextSequence' = nextSequence + 1
           /\ sender' = [sender EXCEPT ![s] = [sender[s] EXCEPT !.pc = "observing",
                                                                !.seq = nextSequence]]
  BY <1>1, <1>2, <1>4, DeliverAcceptedPreserves
<1> QED
  BY <1>2, <1>3, <1>4 DEF SenderReturns

\* An event of the core keeps the log of message events a log of them.
LEMMA EmitEffect ==
    ASSUME TypeOK, NEW type \in {"message_received", "message_consumed"}, NEW seq \in Nat,
           EmitMessageEvent(type, seq)
    PROVE  evidence' \in Seq(MessageEvent)
<1>1. PICK e \in MessageEvent : e = [type |-> type, seq |-> seq]
  BY DEF MessageEvent
<1>2. evidence \in Seq(MessageEvent)
  BY DEF TypeOK
<1>3. evidence' = Append(evidence, e) \/ evidence' = evidence
  BY <1>1 DEF EmitMessageEvent
<1> HIDE DEF MessageEvent
<1> QED
  BY <1>2, <1>3

\* The observer runs, with i.mu held.
LEMMA ObservePreserves ==
    ASSUME InboxInv, NEW s \in Senders, Observe(s)
    PROVE  InboxInv'
<1>1. /\ sender[s].pc = "observing" /\ SenderGoes(s, "pushing")
      /\ EmitMessageEvent("message_received", sender[s].seq)
      /\ UNCHANGED <<phase, publishing, drained, nextSequence, seen, queue, taken, claimed,
                     receiver, acks>>
  BY DEF Observe
<1>2. /\ sender' \in [Senders -> SenderState] /\ sender'[s].pc = "pushing"
      /\ sender'[s].id = sender[s].id /\ sender'[s].seq = sender[s].seq
      /\ \A t \in Senders : t # s => sender'[t] = sender[t]
  BY <1>1, SenderGoesEffect DEF InboxInv
<1>3. /\ \A t \in Senders : Locks(t)' <=> Locks(t)
      /\ \A t \in Senders : Carries(t)' <=> Carries(t)
      /\ \A t \in Senders : Message(t)' = Message(t)
      /\ \A t \in Senders : sender'[t].seq = sender[t].seq
      /\ \A t \in Senders : sender'[t].pc = "acked" => sender[t].pc = "acked"
  BY <1>1, <1>2 DEF Locks, Carries, Message
<1>4. Visible' = Visible
  BY <1>1 DEF Visible
<1>5. InboxUnlocked' => InboxUnlocked
  BY <1>3 DEF InboxUnlocked, Locks
<1>6. LockInv'
  BY <1>1, <1>3, <1>4, <1>5 DEF InboxInv, LockInv
<1>7. \A a \in Given' : a \in Given
  <2> SUFFICES ASSUME NEW a \in Given' PROVE a \in Given
    OBVIOUS
  <2>1. a \in acks' \/ \E t \in Senders : Carries(t)' /\ a = Message(t)'
    BY GivenDef DEF Given
  <2> QED
    BY <2>1, <1>1, <1>3, GivenDef
<1>8. SequenceInv' /\ DedupInv'
  BY <1>1, <1>3, <1>4, <1>7 DEF InboxInv, SequenceInv, DedupInv
<1>9. Publishers' = Publishers
  BY <1>1, <1>2, PublishersEffect DEF Publishers
<1>10. GateInv' /\ EOFAfterEverything' /\ FifoGapless'
  BY <1>1, <1>4, <1>9 DEF InboxInv, GateInv, EOFAfterEverything, FifoGapless
<1>11. evidence' \in Seq(MessageEvent)
  BY <1>1, EmitEffect, Shapes DEF InboxInv
<1>12. TypeOK'
  BY <1>1, <1>2, <1>11 DEF InboxInv, TypeOK
<1> QED
  BY <1>6, <1>8, <1>10, <1>12 DEF InboxInv

\* The message becomes visible and i.mu is released.
LEMMA PushPreserves ==
    ASSUME InboxInv, NEW s \in Senders, Push(s)
    PROVE  InboxInv'
<1>1. /\ sender[s].pc = "pushing" /\ SenderGoes(s, "acked") /\ Len(queue) < Capacity
      /\ queue' = Append(queue, sender[s].seq)
      /\ UNCHANGED <<phase, publishing, drained, nextSequence, seen, taken, claimed,
                     evidence, receiver, acks>>
  BY DEF Push
<1>2. /\ sender' \in [Senders -> SenderState] /\ sender'[s].pc = "acked"
      /\ sender'[s].id = sender[s].id /\ sender'[s].seq = sender[s].seq
      /\ \A t \in Senders : t # s => sender'[t] = sender[t]
  BY <1>1, SenderGoesEffect DEF InboxInv
<1>3. PICK seq \in Nat : seq = sender[s].seq
  BY Shapes DEF InboxInv
<1>4. /\ Locks(s) /\ nextSequence = Visible + 1 /\ seq = Visible
      /\ Visible = taken + Len(queue) /\ taken \in Nat /\ Len(queue) \in Nat
      /\ Visible \in Nat /\ queue \in Seq(Nat) /\ Capacity \in Nat
  BY <1>1, <1>3, Shapes DEF InboxInv, LockInv, Locks
<1>5. /\ queue' = Append(queue, seq) /\ queue' \in Seq(Nat) /\ Len(queue') = Len(queue) + 1
      /\ DOMAIN queue = 1 .. Len(queue) /\ DOMAIN queue' = 1 .. Len(queue) + 1
      /\ \A k \in 1 .. Len(queue) : queue'[k] = queue[k]
      /\ queue'[Len(queue) + 1] = seq
  BY <1>1, <1>3, <1>4
<1>6. Visible' = Visible + 1
  BY <1>1, <1>4, <1>5 DEF Visible
<1>7. \A t \in Senders : ~Locks(t)'
  BY <1>1, <1>2, <1>4 DEF InboxInv, LockInv, Locks
<1>8. LockInv'
  BY <1>1, <1>4, <1>6, <1>7 DEF LockInv
<1>9. /\ \A t \in Senders : Carries(t)' <=> Carries(t)
      /\ \A t \in Senders : Message(t)' = Message(t)
  BY <1>1, <1>2 DEF Carries, Message
<1>10. \A a \in Given' : a \in Given
  <2> SUFFICES ASSUME NEW a \in Given' PROVE a \in Given
    OBVIOUS
  <2>1. a \in acks' \/ \E t \in Senders : Carries(t)' /\ a = Message(t)'
    BY GivenDef DEF Given
  <2> QED
    BY <2>1, <1>1, <1>9, GivenDef
<1>11. DedupInv'
  BY <1>1, <1>10 DEF InboxInv, DedupInv
<1>12. SequenceInv'
  <2>1. \A t \in Senders : sender'[t].pc = "acked" => sender'[t].seq < Visible'
    <3> SUFFICES ASSUME NEW t \in Senders, sender'[t].pc = "acked"
                 PROVE  sender'[t].seq < Visible'
      OBVIOUS
    <3>1. CASE t = s
      BY <3>1, <1>2, <1>3, <1>4, <1>6
    <3>2. CASE t # s
      <4>1. sender[t].seq < Visible /\ sender[t].seq \in Nat
        BY <3>2, <1>2, Shapes DEF InboxInv, SequenceInv
      <4> QED
        BY <3>2, <4>1, <1>2, <1>4, <1>6
    <3> QED
      BY <3>1, <3>2
  <2> QED
    BY <2>1, <1>1, <1>10 DEF InboxInv, SequenceInv
<1>13. Publishers' = Publishers
  BY <1>1, <1>2, PublishersEffect DEF Publishers
<1>14. GateInv'
  BY <1>1, <1>13 DEF InboxInv, GateInv
<1>15. ~drained
  BY <1>4, DrainedIsQuiet DEF InboxUnlocked, Locks
<1>16. EOFAfterEverything'
  BY <1>1, <1>14, <1>15 DEF GateInv, EOFAfterEverything
<1>17. FifoGapless'
  <2>1. \A k \in DOMAIN queue' : queue'[k] = taken' + k - 1
    <3> SUFFICES ASSUME NEW k \in 1 .. Len(queue) + 1
                 PROVE  queue'[k] = taken + k - 1
      BY <1>1, <1>5
    <3>1. CASE k \in 1 .. Len(queue)
      BY <3>1, <1>5 DEF InboxInv, FifoGapless
    <3>2. CASE k = Len(queue) + 1
      BY <3>2, <1>4, <1>5
    <3> QED
      BY <3>1, <3>2, <1>4
  <2>2. Len(queue') <= Capacity
    BY <1>1, <1>4, <1>5
  <2>3. \A a \in acks : a.seq < Visible /\ a.seq \in Nat
    BY Shapes DEF InboxInv, FifoGapless
  <2>4. \A a \in acks' : a.seq < Visible'
    BY <2>3, <1>1, <1>4, <1>6
  <2> QED
    BY <2>1, <2>2, <2>4 DEF FifoGapless
<1>18. TypeOK'
  BY <1>1, <1>2, <1>5 DEF InboxInv, TypeOK
<1> QED
  BY <1>8, <1>11, <1>12, <1>14, <1>16, <1>17, <1>18 DEF InboxInv

\* Deliver returns: the last delivery under way after the close publishes EOF.
LEMMA FinishDeliveryPreserves ==
    ASSUME InboxInv, NEW s \in Senders, FinishDelivery(s)
    PROVE  InboxInv'
<1>1. /\ sender[s].pc \in {"acked", "full"} /\ SenderGoes(s, "idle")
      /\ publishing' = publishing - 1
      /\ acks' = IF sender[s].pc = "acked" THEN acks \cup {Message(s)} ELSE acks
      /\ UNCHANGED <<nextSequence, seen, queue, taken, claimed, evidence, receiver>>
  BY DEF FinishDelivery, FinishClose, SenderReturns, Message
<1>2. \/ phase = "closing" /\ publishing' = 0 /\ phase' = "closed" /\ drained' = TRUE
      \/ ~(phase = "closing" /\ publishing' = 0) /\ UNCHANGED <<phase, drained>>
  BY DEF FinishDelivery, FinishClose
<1>3. /\ sender' \in [Senders -> SenderState] /\ sender'[s].pc = "idle"
      /\ \A t \in Senders : t # s => sender'[t] = sender[t]
  BY <1>1, SenderGoesEffect DEF InboxInv
<1>4. s \in Publishers /\ ~Locks(s) /\ ~Locks(s)' /\ ~Carries(s)'
  BY <1>1, <1>3 DEF Publishers, Locks, Carries
<1>5. LockInv'
  BY <1>1, <1>3, <1>4, LockKept
<1>6. Visible' = Visible
  BY <1>1 DEF Visible
<1>7. /\ sender[s].pc = "acked" => Carries(s) /\ Message(s) \in Given
      /\ \A a \in acks' : a \in acks \/ (a = Message(s) /\ sender[s].pc = "acked")
  BY <1>1, GivenDef DEF Carries
<1>8. \A a \in Given' : a \in Given
  <2> SUFFICES ASSUME NEW a \in Given' PROVE a \in Given
    OBVIOUS
  <2>1. a \in acks' \/ \E t \in Senders : Carries(t)' /\ a = Message(t)'
    BY GivenDef DEF Given
  <2>2. ASSUME NEW t \in Senders, Carries(t)', a = Message(t)'
        PROVE  a \in Given
    <3>1. t # s /\ sender'[t] = sender[t]
      BY <2>2, <1>3, <1>4
    <3>2. Carries(t) /\ a = Message(t)
      BY <2>2, <3>1 DEF Carries, Message
    <3> QED
      BY <3>2, GivenDef
  <2> QED
    BY <2>1, <2>2, <1>7, GivenDef
<1>9. SequenceInv' /\ DedupInv'
  BY <1>1, <1>3, <1>6, <1>8 DEF InboxInv, SequenceInv, DedupInv
<1>10. /\ Publishers' = Publishers \ {s}
  BY <1>3, PublishersEffect
<1>11. /\ publishing' = Cardinality(Publishers') /\ publishing' \in Nat /\ publishing > 0
  <2>1. Cardinality(Publishers') = Cardinality(Publishers) - 1 /\ Cardinality(Publishers) > 0
    BY <1>4, <1>10, CountReturned
  <2> QED
    BY <2>1, <1>1, Shapes DEF InboxInv, GateInv
<1>12. ~drained
  BY <1>11 DEF InboxInv, GateInv
<1>13. GateInv'
  BY <1>1, <1>2, <1>11, <1>12 DEF InboxInv, GateInv
<1>14. publishing' = 0 => nextSequence = Visible
  <2>1. publishing' = 0 => Publishers \ {s} = {}
    <3>1. IsFiniteSet(Publishers \ {s})
      BY PublishersFinite, FS_RemoveElement
    <3> QED
      BY <3>1, <1>10, <1>11, FS_EmptySet
  <2>2. publishing' = 0 => InboxUnlocked
    BY <2>1, <1>4 DEF Publishers, InboxUnlocked, Locks
  <2> QED
    BY <2>2 DEF InboxInv, LockInv
<1>15. EOFAfterEverything'
  <2>1. \A r \in Receivers : receiver'[r].pc # "eof"
    BY <1>1, <1>12 DEF InboxInv, GateInv
  <2>2. drained' => nextSequence' = Visible'
    BY <1>1, <1>2, <1>6, <1>12, <1>14
  <2> QED
    BY <2>1, <2>2 DEF EOFAfterEverything
<1>16. FifoGapless'
  <2>1. sender[s].pc = "acked" => Message(s).seq < Visible
    BY DEF InboxInv, SequenceInv, Message
  <2>2. \A a \in acks' : a.seq < Visible'
    BY <2>1, <1>6, <1>7 DEF InboxInv, FifoGapless
  <2> QED
    BY <2>2, <1>1 DEF InboxInv, FifoGapless
<1>17. TypeOK'
  <2>1. Message(s) \in Ack
    BY Shapes DEF InboxInv, Message, Ack
  <2>2. acks' \subseteq Ack
    BY <2>1, <1>7, Shapes DEF InboxInv
  <2>3. drained' \in BOOLEAN
    BY <1>2, Zenon DEF InboxInv, TypeOK
  <2>4. phase' \in {"open", "closing", "closed"}
    BY <1>2 DEF InboxInv, TypeOK
  <2> QED
    BY <2>2, <2>3, <2>4, <1>1, <1>3, <1>11 DEF InboxInv, TypeOK
<1> QED
  BY <1>5, <1>9, <1>13, <1>15, <1>16, <1>17 DEF InboxInv

-------------------------------------------------------------------------------
\* Receivers

\* The head of the queue is the oldest message that was not taken.
LEMMA TakePreserves ==
    ASSUME InboxInv, NEW r \in Receivers, Take(r)
    PROVE  InboxInv'
<1>1. /\ receiver[r].pc \in {"idle", "last"} /\ queue # <<>> /\ queue' = Tail(queue)
      /\ taken' = taken + 1
      /\ receiver' = [receiver EXCEPT ![r] = [pc |-> "got", seq |-> Head(queue)]]
      /\ UNCHANGED <<phase, publishing, drained, nextSequence, seen, claimed, evidence,
                     sender, acks>>
  BY DEF Take
<1>2. /\ queue \in Seq(Nat) /\ taken \in Nat /\ Len(queue) \in Nat /\ Capacity \in Nat
      /\ Visible = taken + Len(queue) /\ receiver \in [Receivers -> ReceiverState]
  BY Shapes DEF InboxInv
<1>3. /\ Head(queue) \in Nat /\ queue' \in Seq(Nat) /\ Len(queue') = Len(queue) - 1
      /\ Len(queue) > 0 /\ DOMAIN queue = 1 .. Len(queue)
      /\ DOMAIN queue' = 1 .. Len(queue) - 1
      /\ \A k \in 1 .. Len(queue) - 1 : queue'[k] = queue[k + 1]
  BY <1>1, <1>2
<1>4. Visible' = Visible
  BY <1>1, <1>2, <1>3 DEF Visible
<1>5. /\ receiver' \in [Receivers -> ReceiverState] /\ receiver'[r].pc = "got"
      /\ \A q \in Receivers : q # r => receiver'[q] = receiver[q]
  <2>1. [pc |-> "got", seq |-> Head(queue)] \in ReceiverState
    BY <1>3 DEF ReceiverState
  <2> QED
    BY <2>1, <1>1, <1>2
<1>6. LockInv'
  BY <1>1, <1>4 DEF InboxInv, LockInv, Locks, InboxUnlocked
<1>7. Given' = Given /\ Publishers' = Publishers
  BY <1>1 DEF Given, Carries, Message, Publishers
<1>8. SequenceInv' /\ DedupInv'
  BY <1>1, <1>4, <1>7 DEF InboxInv, SequenceInv, DedupInv
<1>9. GateInv'
  BY <1>1, <1>5, <1>7 DEF InboxInv, GateInv
<1>10. EOFAfterEverything'
  <2>1. \A q \in Receivers : receiver[q].pc # "eof"
    <3> SUFFICES ASSUME NEW q \in Receivers, receiver[q].pc = "eof" PROVE FALSE
      OBVIOUS
    <3>1. drained /\ taken = nextSequence /\ nextSequence = Visible
      BY DEF InboxInv, GateInv, EOFAfterEverything
    <3> QED
      BY <3>1, <1>2, <1>3
  <2>2. \A q \in Receivers : receiver'[q].pc # "eof"
    BY <2>1, <1>5
  <2> QED
    BY <2>2, <1>1, <1>4 DEF InboxInv, EOFAfterEverything
<1>11. FifoGapless'
  <2>1. ASSUME NEW k \in 1 .. Len(queue) - 1
        PROVE  queue'[k] = taken' + k - 1
    <3>1. queue'[k] = queue[k + 1]
      BY <1>3, Zenon
    <3>2. PICK n \in Nat : n = Len(queue) /\ DOMAIN queue = 1 .. n /\ k \in 1 .. n - 1
      BY <1>2, <1>3, Zenon
    <3>3. k + 1 \in DOMAIN queue /\ k \in Nat
      BY <3>2
    <3>4. queue[k + 1] = taken + (k + 1) - 1
      BY <3>3, Zenon DEF InboxInv, FifoGapless
    <3>5. taken' = taken + 1 /\ taken \in Nat
      BY <1>1, <1>2, Zenon
    <3> QED
      BY <3>1, <3>3, <3>4, <3>5
  <2>2. Len(queue') <= Capacity
    BY <1>2, <1>3 DEF InboxInv, FifoGapless
  <2> QED
    BY <2>1, <2>2, <1>1, <1>3, <1>4 DEF InboxInv, FifoGapless
<1>12. TypeOK'
  BY <1>1, <1>2, <1>3, <1>5 DEF InboxInv, TypeOK
<1> QED
  BY <1>6, <1>8, <1>9, <1>10, <1>11, <1>12 DEF InboxInv

\* A receiver goes on without taking a message.
LEMMA ReceiverPreserves ==
    ASSUME InboxInv, NEW r \in Receivers, SeeDrained(r) \/ ReturnEOF(r) \/ Consume(r)
    PROVE  InboxInv'
<1>1. UNCHANGED <<phase, publishing, drained, nextSequence, seen, queue, taken, claimed,
                  sender, acks>>
  BY DEF SeeDrained, ReturnEOF, Consume
<1>2. PICK pc \in {"idle", "last", "eof"} :
        /\ receiver' = [receiver EXCEPT ![r] = [receiver[r] EXCEPT !.pc = pc]]
        /\ pc \in {"last", "eof"} => drained
        /\ pc = "eof" => queue = <<>>
  BY DEF SeeDrained, ReturnEOF, Consume, InboxInv, GateInv
<1>3. receiver[r] \in ReceiverState
  BY Shapes DEF InboxInv
<1>4. /\ receiver' \in [Receivers -> ReceiverState] /\ receiver'[r].pc = pc
      /\ \A q \in Receivers : q # r => receiver'[q] = receiver[q]
  <2>1. /\ [receiver[r] EXCEPT !.pc = pc] \in ReceiverState
        /\ [receiver[r] EXCEPT !.pc = pc].pc = pc
    BY <1>3 DEF ReceiverState
  <2> QED
    BY <2>1, <1>2, Shapes DEF InboxInv
<1>5. /\ LockInv' /\ SequenceInv' /\ DedupInv' /\ FifoGapless'
      /\ Cardinality(Publishers') = Cardinality(Publishers) /\ Visible' = Visible
  BY <1>1, DeliveriesKept
<1>6. GateInv'
  BY <1>1, <1>2, <1>4, <1>5 DEF InboxInv, GateInv
<1>7. EOFAfterEverything'
  <2>1. pc = "eof" => taken = nextSequence
    <3>1. pc = "eof" => nextSequence = Visible /\ Len(queue) = 0
      BY <1>2 DEF InboxInv, EOFAfterEverything
    <3> QED
      BY <3>1, Shapes DEF InboxInv
  <2> QED
    BY <2>1, <1>1, <1>4, <1>5 DEF InboxInv, EOFAfterEverything
<1>8. evidence' \in Seq(MessageEvent)
  <2>1. CASE Consume(r)
    <3>1. receiver[r].seq \in Nat
      BY <1>3 DEF ReceiverState
    <3> QED
      BY <2>1, <3>1, EmitEffect DEF Consume, InboxInv
  <2>2. CASE SeeDrained(r) \/ ReturnEOF(r)
    BY <2>2 DEF SeeDrained, ReturnEOF, InboxInv, TypeOK
  <2> QED
    BY <2>1, <2>2
<1>9. TypeOK'
  BY <1>1, <1>4, <1>8 DEF InboxInv, TypeOK
<1> QED
  BY <1>5, <1>6, <1>7, <1>9 DEF InboxInv

-------------------------------------------------------------------------------
\* A new inbox satisfies the invariant.
LEMMA InitEstablishes ==
    ASSUME Init
    PROVE  InboxInv
<1>1. sender \in [Senders -> SenderState] /\ \A s \in Senders : sender[s].pc = "idle"
  <2>1. [pc |-> "idle", id |-> Anonymous, seq |-> 0] \in SenderState
    BY DEF SenderState, Ids
  <2> QED
    BY <2>1 DEF Init
<1>2. receiver \in [Receivers -> ReceiverState] /\ \A r \in Receivers : receiver[r].pc = "idle"
  BY DEF Init, ReceiverState
<1>3. /\ phase = "open" /\ publishing = 0 /\ ~drained /\ nextSequence = 0 /\ seen = {}
      /\ queue = <<>> /\ taken = 0 /\ evidence = <<>> /\ acks = {}
  BY DEF Init
<1>4. Publishers = {} /\ Given = {} /\ Visible = 0
  BY <1>1, <1>3 DEF Publishers, Given, Carries, Visible
<1>5. GateInv
  BY <1>2, <1>3, <1>4, FS_EmptySet DEF GateInv
<1>6. LockInv /\ SequenceInv /\ DedupInv
  BY <1>1, <1>3, <1>4 DEF LockInv, Locks, InboxUnlocked, SequenceInv, DedupInv
<1>7. EOFAfterEverything /\ FifoGapless
  BY <1>2, <1>3, <1>4, InboxAssumption DEF EOFAfterEverything, FifoGapless
<1>8. drained \in BOOLEAN /\ claimed \in BOOLEAN
  BY Zenon DEF Init
<1>9. TypeOK
  BY <1>1, <1>2, <1>3, <1>8 DEF TypeOK
<1> QED
  BY <1>5, <1>6, <1>7, <1>9 DEF InboxInv

\* The invariant of the inbox: every step of every sender and receiver keeps it.
THEOREM InboxInvariant == Spec => []InboxInv
<1>1. Init => InboxInv
  BY InitEstablishes
<1>2. InboxInv /\ [Next]_vars => InboxInv'
  <2> SUFFICES ASSUME InboxInv, [Next]_vars
               PROVE  InboxInv'
    OBVIOUS
  <2>1. CASE CloseInput \/ ClaimCore
    BY <2>1, CloseInputPreserves, ClaimCorePreserves
  <2>2. ASSUME NEW s \in Senders, \E id \in Ids : SendChecks(s, id)
        PROVE  InboxInv'
    BY <2>2, SendChecksPreserves
  <2>3. ASSUME NEW s \in Senders, SenderStep(s)
        PROVE  InboxInv'
    BY <2>3, DeliverDuplicatePreserves, DeliverNewPreserves, ObservePreserves,
       PushPreserves, FinishDeliveryPreserves DEF SenderStep
  <2>4. ASSUME NEW r \in Receivers, ReceiverStep(r)
        PROVE  InboxInv'
    BY <2>4, TakePreserves, ReceiverPreserves DEF ReceiverStep
  <2>5. CASE UNCHANGED vars
    <3>1. UNCHANGED <<phase, publishing, drained, nextSequence, seen, queue, taken, claimed,
                      evidence, sender, receiver, acks>>
      BY <2>5 DEF vars
    <3>2. GateInv' /\ EOFAfterEverything' /\ TypeOK'
      BY <3>1, DeliveriesKept DEF InboxInv, GateInv, EOFAfterEverything, TypeOK
    <3> QED
      BY <3>1, <3>2, DeliveriesKept DEF InboxInv
  <2> QED
    BY <2>1, <2>2, <2>3, <2>4, <2>5 DEF Next
<1> QED
  BY <1>1, <1>2, PTL DEF Spec

\* Every variable of the inbox keeps its type; the count of deliveries under way in
\* particular never goes below zero.
THEOREM InboxTypeCorrect == Spec => []TypeOK
<1>1. InboxInv => TypeOK
  BY DEF InboxInv
<1> QED
  BY <1>1, InboxInvariant, PTL

\* EOF is published only after every accepted message has become visible, however
\* CloseInput overtakes deliveries, and a receiver that is told EOF missed nothing.
THEOREM EOFComesLast == Spec => []EOFAfterEverything
<1>1. InboxInv => EOFAfterEverything
  BY DEF InboxInv
<1> QED
  BY <1>1, InboxInvariant, PTL

\* Delivery is FIFO without gaps within the capacity, and nobody is told of a message
\* that receivers cannot get.
THEOREM DeliveryIsFifo == Spec => []FifoGapless
<1>1. InboxInv => FifoGapless
  BY DEF InboxInv
<1> QED
  BY <1>1, InboxInvariant, PTL

\* Retries of one id get one sequence until the id has outlived the dedup window, and
\* then so has everything accepted before it.
THEOREM RetriesGetOneSequence == Spec => []RetriesAgree
<1>1. InboxInv => RetriesAgree
  <2> SUFFICES ASSUME InboxInv, NEW a \in acks, NEW b \in acks,
                      a.id = b.id, a.id # Anonymous, a.seq < b.seq
               PROVE  DedupExpires /\ \A e \in seen : e.seq > a.seq
    BY DEF RetriesAgree
  <2>1. a \in Given /\ b \in Given
    BY GivenDef
  <2>2. \/ a \in seen
        \/ DedupExpires /\ \A e \in seen : e.seq > a.seq
    BY <2>1 DEF InboxInv, DedupInv
  <2>3. a.seq \in Nat /\ b.seq \in Nat
    BY Shapes DEF InboxInv
  <2>4. ASSUME a \in seen PROVE FALSE
    <3>1. b \notin seen
      BY <2>3, <2>4 DEF InboxInv, DedupInv
    <3>2. a.seq > b.seq
      BY <2>1, <2>4, <3>1 DEF InboxInv, DedupInv
    <3> QED
      BY <2>3, <3>2
  <2> QED
    BY <2>2, <2>4
<1> QED
  BY <1>1, InboxInvariant, PTL

-------------------------------------------------------------------------------
(* The loopback stream.                                                        *)
USE StreamAssumption

\* The credit a push waits for is that of a data frame, and credit is on its way in
\* finitely many places.
CallsInv ==
    /\ \A p \in Producers :
          producer[p].pc = "credit" => IsData(producer[p].frame)
    /\ IsFiniteSet(Sending) /\ IsFiniteSet(Returning)

LoopbackInv == LoopbackTypeOK /\ CallsInv /\ CreditConserved

-------------------------------------------------------------------------------
\* Lemmas about the queue and the calls.

\* Finitely many data frames are queued.
LEMMA QueuedFinite ==
    ASSUME frames \in Seq(Frame)
    PROVE  IsFiniteSet(Queued) /\ Cardinality(Queued) \in Nat
<1>1. Queued \subseteq 1 .. Len(frames) /\ Len(frames) \in Nat
  BY DEF Queued
<1>2. IsFiniteSet(1 .. Len(frames))
  BY <1>1, FS_Interval
<1> QED
  BY <1>1, <1>2, FS_Subset, FS_CardinalityType

\* A frame is queued.
LEMMA QueueAppend ==
    ASSUME frames \in Seq(Frame), NEW f \in Frame,
           frames' = Append(frames, f)
    PROVE  /\ frames' \in Seq(Frame) /\ Len(frames') = Len(frames) + 1
           /\ IsData(f) =>
                 Cardinality(Queued') = Cardinality(Queued) + 1
           /\ ~IsData(f) => Queued' = Queued
<1> HIDE DEF Frame
<1>1. /\ frames' \in Seq(Frame) /\ Len(frames') = Len(frames) + 1
      /\ Len(frames) \in Nat /\ DOMAIN frames = 1 .. Len(frames)
      /\ DOMAIN frames' = 1 .. Len(frames) + 1 /\ frames'[Len(frames) + 1] = f
      /\ \A i \in 1 .. Len(frames) : frames'[i] = frames[i]
  BY SMTT(30)
<1>2. PICK n \in Nat : n = Len(frames)
  BY <1>1
<1>3. /\ DOMAIN frames = 1 .. n /\ DOMAIN frames' = 1 .. n + 1 /\ frames'[n + 1] = f
      /\ \A i \in 1 .. n : frames'[i] = frames[i]
  BY <1>1, <1>2
<1>4. CASE IsData(f)
  <2>1. Queued' = Queued \cup {n + 1}
    BY <1>3, <1>4 DEF Queued
  <2>2. n + 1 \notin Queued
    BY <1>3 DEF Queued
  <2>3. Cardinality(Queued') = Cardinality(Queued) + 1
    BY <2>1, <2>2, QueuedFinite, FS_AddElement
  <2> QED
    BY <1>1, <1>4, <2>3
<1>5. CASE ~IsData(f)
  <2>1. Queued' = Queued
    BY <1>3, <1>5 DEF Queued
  <2> QED
    BY <1>1, <1>5, <2>1
<1> QED
  BY <1>4, <1>5

\* The oldest frame is taken: the others move up.
LEMMA QueueTail ==
    ASSUME frames \in Seq(Frame), frames # <<>>, frames' = Tail(frames)
    PROVE  /\ frames' \in Seq(Frame) /\ Len(frames') = Len(frames) - 1
           /\ Head(frames) \in Frame
           /\ IsData(Head(frames)) =>
                 Cardinality(Queued') = Cardinality(Queued) - 1
           /\ ~IsData(Head(frames)) =>
                 Cardinality(Queued') = Cardinality(Queued)
<1> HIDE DEF Frame
<1>1. /\ frames' \in Seq(Frame) /\ Len(frames') = Len(frames) - 1
      /\ Len(frames) \in Nat /\ Len(frames) > 0 /\ DOMAIN frames = 1 .. Len(frames)
      /\ DOMAIN frames' = 1 .. Len(frames) - 1
      /\ Head(frames) = frames[1] /\ Head(frames) \in Frame
      /\ \A i \in 1 .. Len(frames) - 1 : frames'[i] = frames[i + 1]
  BY SMTT(30)
<1>2. PICK n \in Nat : n = Len(frames)
  BY <1>1
<1>3. /\ n > 0 /\ DOMAIN frames = 1 .. n /\ DOMAIN frames' = 1 .. n - 1
      /\ \A i \in 1 .. n - 1 : frames'[i] = frames[i + 1]
  BY <1>1, <1>2
<1>4. PICK Old : Old = Queued \ {1}
  OBVIOUS
<1>5. PICK New : New = Queued'
  OBVIOUS
<1>6. /\ \A i \in New : i \in Nat /\ i + 1 \in Old
      /\ \A j \in Old : j \in Nat /\ j - 1 \in New
  <2>1. ASSUME NEW i \in New PROVE i \in Nat /\ i + 1 \in Old
    <3>1. i \in 1 .. n - 1 /\ IsData(frames'[i])
      BY <2>1, <1>3, <1>5 DEF Queued
    <3>2. i \in Nat /\ i + 1 \in 1 .. n /\ i + 1 # 1
      BY <3>1, <1>3
    <3> QED
      BY <3>1, <3>2, <1>3, <1>4 DEF Queued
  <2>2. ASSUME NEW j \in Old PROVE j \in Nat /\ j - 1 \in New
    <3>1. j \in 1 .. n /\ j # 1 /\ IsData(frames[j])
      BY <2>2, <1>3, <1>4 DEF Queued
    <3>2. j \in Nat /\ j - 1 \in 1 .. n - 1 /\ (j - 1) + 1 = j
      BY <3>1, <1>3
    <3>3. frames'[j - 1] = frames[j]
      BY <3>2, <1>3
    <3> QED
      BY <3>1, <3>2, <3>3, <1>3, <1>5 DEF Queued
  <2> QED
    BY <2>1, <2>2
<1>7. ExistsBijection(New, Old)
  <2>1. PICK g : g = [i \in New |-> i + 1]
    OBVIOUS
  <2>2. g \in [New -> Old] /\ DOMAIN g = New /\ \A i \in New : g[i] = i + 1
    BY <1>6, <2>1
  <2>3. \A i, k \in New : g[i] = g[k] => i = k
    BY <1>6, <2>2
  <2>4. \A j \in Old : j - 1 \in New /\ g[j - 1] = j
    <3>1. \A j \in Old : (j - 1) + 1 = j
      BY <1>6
    <3> QED
      BY <1>6, <2>2, <3>1
  <2>5. g \in Injection(New, Old)
    BY <2>2, <2>3 DEF Injection, IsInjective
  <2>6. g \in Surjection(New, Old)
    BY <2>2, <2>4 DEF Surjection
  <2> QED
    BY <2>5, <2>6 DEF ExistsBijection, Bijection
<1>8. IsFiniteSet(Queued) /\ IsFiniteSet(New) /\ IsFiniteSet(Old)
  <2>1. IsFiniteSet(Queued)
    BY QueuedFinite
  <2>2. New \subseteq 1 .. n - 1
    BY <1>3, <1>5 DEF Queued
  <2>3. IsFiniteSet(1 .. n - 1)
    <3>1. n - 1 \in Int
      OBVIOUS
    <3> QED
      BY <3>1, FS_Interval
  <2>4. IsFiniteSet(New)
    BY <2>2, <2>3, FS_Subset
  <2>5. Old \subseteq Queued
    BY <1>4
  <2>6. IsFiniteSet(Old)
    BY <2>1, <2>5, FS_Subset
  <2> QED
    BY <2>1, <2>4, <2>6
<1>9. Cardinality(New) = Cardinality(Old)
  BY <1>7, <1>8, FS_Bijection
<1>10. CASE IsData(Head(frames))
  <2>1. 1 \in Queued
    <3>1. 1 \in DOMAIN frames
      BY <1>3
    <3>2. IsData(frames[1])
      BY <1>1, <1>10
    <3> QED
      BY <3>1, <3>2 DEF Queued
  <2>2. Cardinality(Old) = Cardinality(Queued) - 1
    BY <2>1, <1>4, <1>8, FS_RemoveElement
  <2> QED
    BY <1>1, <1>5, <1>9, <1>10, <2>2
<1>11. CASE ~IsData(Head(frames))
  <2>1. Old = Queued
    BY <1>1, <1>4, <1>11 DEF Queued
  <2> QED
    BY <1>1, <1>5, <1>9, <1>11, <2>1
<1> QED
  BY <1>10, <1>11

\* What the properties do not read.
HistoryOK ==
    /\ cancelled \in BOOLEAN /\ closeDone \in BOOLEAN /\ terminalSeen \in BOOLEAN
    /\ granted \in BOOLEAN /\ pushed \in [Producers -> 0 .. MaxFrames]
    /\ accepted \in [Producers -> Seq(1 .. MaxFrames)] /\ received \in Seq(Frame)

\* A push that holds credit for its frame.
HoldsCredit(call) == call.pc = "send" /\ IsData(call.frame)

\* The parts of TypeOK a step works on.
LEMMA LoopbackParts ==
    ASSUME LoopbackTypeOK
    PROVE  /\ HistoryOK /\ frames \in Seq(Frame) /\ Len(frames) \in Nat
           /\ Len(frames) <= QueueCap /\ credit \in 0 .. Credit
           /\ producer \in [Producers -> ProducerCall]
           /\ consumer \in [Consumers -> ConsumerCall]
           /\ \A p \in Producers : producer[p].frame \in Frame
           /\ Terminal \in Frame /\ ~IsData(Terminal)
<1>1. /\ HistoryOK /\ frames \in Seq(Frame) /\ Len(frames) <= QueueCap
      /\ credit \in 0 .. Credit
      /\ producer \in [Producers -> ProducerCall]
      /\ consumer \in [Consumers -> ConsumerCall]
  BY DEF LoopbackTypeOK, HistoryOK
<1>2. Len(frames) \in Nat
  <2> HIDE DEF Frame
  <2> QED
    BY <1>1
<1>3. \A p \in Producers : producer[p] \in ProducerCall
  BY <1>1
<1>4. \A p \in Producers : producer[p].frame \in Frame
  BY <1>3 DEF ProducerCall
<1> QED
  BY <1>1, <1>2, <1>4 DEF Frame, IsData

\* A producer goes on: credit is held by one more, by one less, or as before.
LEMMA ProducerEdit ==
    ASSUME LoopbackTypeOK, CallsInv, NEW p \in Producers,
           NEW e \in ProducerCall, producer' = [producer EXCEPT ![p] = e],
           e.pc = "credit" => IsData(e.frame), UNCHANGED consumer
    PROVE  /\ producer' \in [Producers -> ProducerCall] /\ CallsInv'
           /\ (HoldsCredit(e) <=> HoldsCredit(producer[p])) =>
                 Sending' = Sending
           /\ HoldsCredit(e) /\ ~HoldsCredit(producer[p]) =>
                 Cardinality(Sending') = Cardinality(Sending) + 1
           /\ ~HoldsCredit(e) /\ HoldsCredit(producer[p]) =>
                 Cardinality(Sending') = Cardinality(Sending) - 1
<1>1. /\ producer' \in [Producers -> ProducerCall] /\ producer'[p] = e
      /\ \A q \in Producers : q # p => producer'[q] = producer[q]
  <2> HIDE DEF ProducerCall
  <2> QED
    BY LoopbackParts
<1>2. /\ IsFiniteSet(Sending) /\ IsFiniteSet(Returning)
      /\ Returning' = Returning
  BY DEF CallsInv, Returning
<1>3. \A q \in Producers :
         producer'[q].pc = "credit" => IsData(producer'[q].frame)
  BY <1>1 DEF CallsInv
<1>4. CASE HoldsCredit(e) <=> HoldsCredit(producer[p])
  <2>1. Sending' = Sending
    BY <1>1, <1>4 DEF Sending, HoldsCredit
  <2> QED
    BY <1>1, <1>2, <1>3, <1>4, <2>1 DEF CallsInv
<1>5. CASE HoldsCredit(e) /\ ~HoldsCredit(producer[p])
  <2>1. Sending' = Sending \cup {p} /\ p \notin Sending
    BY <1>1, <1>5 DEF Sending, HoldsCredit
  <2>2. /\ IsFiniteSet(Sending')
        /\ Cardinality(Sending') = Cardinality(Sending) + 1
    BY <2>1, <1>2, FS_AddElement
  <2> QED
    BY <1>1, <1>2, <1>3, <1>5, <2>2 DEF CallsInv
<1>6. CASE ~HoldsCredit(e) /\ HoldsCredit(producer[p])
  <2>1. Sending' = Sending \ {p} /\ p \in Sending
    BY <1>1, <1>6 DEF Sending, HoldsCredit
  <2>2. /\ IsFiniteSet(Sending')
        /\ Cardinality(Sending') = Cardinality(Sending) - 1
    BY <2>1, <1>2, FS_RemoveElement
  <2> QED
    BY <1>1, <1>2, <1>3, <1>6, <2>2 DEF CallsInv
<1> QED
  BY <1>4, <1>5, <1>6

\* A consumer goes on, likewise.
LEMMA ConsumerEdit ==
    ASSUME LoopbackTypeOK, CallsInv, NEW c \in Consumers,
           NEW e \in ConsumerCall, consumer' = [consumer EXCEPT ![c] = e],
           UNCHANGED producer
    PROVE  /\ consumer' \in [Consumers -> ConsumerCall] /\ CallsInv'
           /\ (e.pc = "return" <=> consumer[c].pc = "return") =>
                 Returning' = Returning
           /\ e.pc = "return" /\ consumer[c].pc # "return" =>
                 Cardinality(Returning') = Cardinality(Returning) + 1
           /\ e.pc # "return" /\ consumer[c].pc = "return" =>
                 Cardinality(Returning') = Cardinality(Returning) - 1
<1>1. /\ consumer' \in [Consumers -> ConsumerCall] /\ consumer'[c] = e
      /\ \A d \in Consumers : d # c => consumer'[d] = consumer[d]
  <2> HIDE DEF ConsumerCall
  <2> QED
    BY LoopbackParts
<1>2. /\ IsFiniteSet(Sending) /\ IsFiniteSet(Returning)
      /\ Sending' = Sending
      /\ \A q \in Producers :
            producer'[q].pc = "credit" => IsData(producer'[q].frame)
  BY DEF CallsInv, Sending
<1>4. CASE e.pc = "return" <=> consumer[c].pc = "return"
  <2>1. Returning' = Returning
    BY <1>1, <1>4 DEF Returning
  <2> QED
    BY <1>1, <1>2, <1>4, <2>1 DEF CallsInv
<1>5. CASE e.pc = "return" /\ consumer[c].pc # "return"
  <2>1. Returning' = Returning \cup {c} /\ c \notin Returning
    BY <1>1, <1>5 DEF Returning
  <2>2. /\ IsFiniteSet(Returning')
        /\ Cardinality(Returning') = Cardinality(Returning) + 1
    BY <2>1, <1>2, FS_AddElement
  <2> QED
    BY <1>1, <1>2, <1>5, <2>2 DEF CallsInv
<1>6. CASE e.pc # "return" /\ consumer[c].pc = "return"
  <2>1. Returning' = Returning \ {c} /\ c \in Returning
    BY <1>1, <1>6 DEF Returning
  <2>2. /\ IsFiniteSet(Returning')
        /\ Cardinality(Returning') = Cardinality(Returning) - 1
    BY <2>1, <1>2, FS_RemoveElement
  <2> QED
    BY <1>1, <1>2, <1>6, <2>2 DEF CallsInv
<1> QED
  BY <1>4, <1>5, <1>6

\* The three places credit is in are counted by natural numbers.
LEMMA CountsAreNat ==
    ASSUME frames \in Seq(Frame), CallsInv
    PROVE  /\ Cardinality(Sending) \in Nat
           /\ Cardinality(Queued) \in Nat
           /\ Cardinality(Returning) \in Nat
BY QueuedFinite, FS_CardinalityType DEF CallsInv

\* The credit on its way, before and after a step.
LEMMA OutstandingParts ==
    /\ Outstanding = Cardinality(Sending)
          + Cardinality(Queued) + Cardinality(Returning)
    /\ Outstanding' = Cardinality(Sending')
          + Cardinality(Queued') + Cardinality(Returning')
BY DEF Outstanding

\* Credit that changes its place is conserved.
LEMMA CreditMoves ==
    ASSUME LoopbackInv, LoopbackTypeOK', CallsInv', UNCHANGED granted,
           credit' + Outstanding' = credit + Outstanding
    PROVE  LoopbackInv'
BY DEF LoopbackInv, CreditConserved

\* Credit that is given back fits into the channel, unless GrantCredit filled it.
LEMMA CreditReturns ==
    ASSUME LoopbackInv, LoopbackTypeOK', CallsInv', UNCHANGED granted,
           credit' = Returned(credit), Outstanding \in Nat,
           Outstanding' \in Nat,
           Outstanding' = Outstanding - 1
    PROVE  LoopbackInv'
<1>1. credit \in 0 .. Credit
  BY LoopbackParts DEF LoopbackInv
<1>2. CreditConserved'
  <2>1. CASE credit < Credit
    <3>1. credit' + Outstanding' = credit + Outstanding
      BY <1>1, <2>1 DEF Returned
    <3> QED
      BY <3>1 DEF LoopbackInv, CreditConserved
  <2>2. CASE ~(credit < Credit)
    <3>1. credit = Credit /\ credit' = Credit /\ Outstanding >= 1
      BY <1>1, <2>2 DEF Returned
    <3>2. granted
      BY <3>1 DEF LoopbackInv, CreditConserved
    <3> QED
      BY <3>1, <3>2 DEF CreditConserved
  <2> QED
    BY <2>1, <2>2
<1> QED
  BY <1>2 DEF LoopbackInv

-------------------------------------------------------------------------------
\* The steps that move no credit.

\* A producer goes on; the terminal frame may be queued.
LEMMA ProducerGoesOn ==
    ASSUME LoopbackInv, NEW p \in Producers,
           NEW e \in ProducerCall, producer' = [producer EXCEPT ![p] = e],
           e.pc = "credit" => IsData(e.frame),
           ~HoldsCredit(e), ~HoldsCredit(producer[p]),
           UNCHANGED <<credit, consumer, granted>>, HistoryOK',
           \/ UNCHANGED frames
           \/ frames' = Append(frames, Terminal) /\ Len(frames) < QueueCap
    PROVE  LoopbackInv'
<1> USE DEF LoopbackInv
<1>1. /\ producer' \in [Producers -> ProducerCall] /\ CallsInv'
      /\ Sending' = Sending /\ Returning' = Returning
  BY ProducerEdit DEF Returning
<1>2. /\ frames' \in Seq(Frame) /\ Len(frames') <= QueueCap
      /\ Queued' = Queued
  <2>1. CASE UNCHANGED frames
    BY <2>1, LoopbackParts DEF Queued
  <2>2. CASE frames' = Append(frames, Terminal) /\ Len(frames) < QueueCap
    BY <2>2, LoopbackParts, QueueAppend DEF QueueCap
  <2> QED
    BY <2>1, <2>2
<1>3. LoopbackTypeOK'
  BY <1>1, <1>2, LoopbackParts DEF LoopbackTypeOK, HistoryOK
<1>4. Outstanding' = Outstanding
  BY <1>1, <1>2, OutstandingParts
<1> QED
  BY <1>1, <1>3, <1>4, CreditMoves

\* A consumer goes on, likewise.
LEMMA ConsumerGoesOn ==
    ASSUME LoopbackInv, NEW c \in Consumers,
           NEW e \in ConsumerCall, consumer' = [consumer EXCEPT ![c] = e],
           e.pc # "return", consumer[c].pc # "return",
           UNCHANGED <<credit, producer, granted>>, HistoryOK',
           \/ UNCHANGED frames
           \/ frames' = Append(frames, Terminal) /\ Len(frames) < QueueCap
    PROVE  LoopbackInv'
<1> USE DEF LoopbackInv
<1>1. /\ consumer' \in [Consumers -> ConsumerCall] /\ CallsInv'
      /\ Sending' = Sending /\ Returning' = Returning
  BY ConsumerEdit DEF Sending
<1>2. /\ frames' \in Seq(Frame) /\ Len(frames') <= QueueCap
      /\ Queued' = Queued
  <2>1. CASE UNCHANGED frames
    BY <2>1, LoopbackParts DEF Queued
  <2>2. CASE frames' = Append(frames, Terminal) /\ Len(frames) < QueueCap
    BY <2>2, LoopbackParts, QueueAppend DEF QueueCap
  <2> QED
    BY <2>1, <2>2
<1>3. LoopbackTypeOK'
  BY <1>1, <1>2, LoopbackParts DEF LoopbackTypeOK, HistoryOK
<1>4. Outstanding' = Outstanding
  BY <1>1, <1>2, OutstandingParts
<1> QED
  BY <1>1, <1>3, <1>4, CreditMoves

\* The end of the stream is a frame.
LEMMA TerminalFrame ==
    Terminal \in Frame /\ ~IsData(Terminal)
BY DEF Frame, IsData

\* A push of data starts.
LEMMA PushDataPreserves ==
    ASSUME LoopbackInv, NEW p \in Producers,
           PushData(p)
    PROVE  LoopbackInv'
<1>1. /\ HistoryOK /\ pushed[p] \in 0 .. MaxFrames /\ pushed[p] < MaxFrames
      /\ producer[p].pc = "idle"
  BY LoopbackParts DEF LoopbackInv, HistoryOK, PushData
<1>2. PICK n \in 1 .. MaxFrames : n = pushed[p] + 1
  BY <1>1
<1>3. PICK f \in Frame : f = Data(p, n) /\ IsData(f)
  <2>1. Data(p, n) \in Frame
    BY DEF Data, Frame, DataFrames
  <2>2. Data(p, n).n # Terminal.n
    BY DEF Data, Terminal
  <2> QED
    BY <2>1, <2>2 DEF IsData
<1>4. PICK e \in ProducerCall :
         e = [pc |-> "credit", frame |-> f] /\ e.pc = "credit" /\ e.frame = f
  <2>1. [pc |-> "credit", frame |-> f] \in ProducerCall
    BY DEF ProducerCall
  <2> QED
    BY <2>1
<1>5. producer' = [producer EXCEPT ![p] = e]
  BY <1>2, <1>3, <1>4 DEF PushData, ProducerAt
<1>6. HistoryOK'
  <2>1. pushed' = [pushed EXCEPT ![p] = n]
    BY <1>2 DEF PushData
  <2>2. pushed' \in [Producers -> 0 .. MaxFrames]
    BY <1>1, <2>1 DEF HistoryOK
  <2> QED
    BY <1>1, <2>2 DEF HistoryOK, PushData
<1>7. UNCHANGED <<credit, consumer, granted, frames>>
  BY DEF PushData
<1> QED
  BY <1>1, <1>3, <1>4, <1>5, <1>6, <1>7, ProducerGoesOn DEF HoldsCredit

\* The other steps of a producer that move no credit.
LEMMA ProducerCallPreserves ==
    ASSUME LoopbackInv, NEW p \in Producers,
           \/ PushTerminal(p) \/ PushTimesOut(p) \/ Close(p)
           \/ CloseOnce(p) \/ CancelSource(p)
           \/ SourceCancelFrame(p)
    PROVE  LoopbackInv'
<1>1. PICK pc \in {"idle", "send", "close", "cancel"} :
         producer' = [producer EXCEPT ![p] = [pc |-> pc, frame |-> Terminal]]
  BY DEF PushTerminal, PushTimesOut, Close, CloseOnce,
         CancelSource, SourceCancelFrame, ProducerAt,
         ProducerReturns, Idle
<1>2. PICK e \in ProducerCall :
         /\ e = [pc |-> pc, frame |-> Terminal] /\ e.pc = pc
         /\ ~IsData(e.frame)
  <2>1. [pc |-> pc, frame |-> Terminal] \in ProducerCall
    BY TerminalFrame DEF ProducerCall
  <2> QED
    BY <2>1, TerminalFrame
<1>3. producer[p].pc # "send"
  BY DEF PushTerminal, PushTimesOut, Close, CloseOnce,
         CancelSource, SourceCancelFrame
<1>4. HistoryOK'
  <2>1. HistoryOK
    BY LoopbackParts DEF LoopbackInv
  <2>2. /\ UNCHANGED <<terminalSeen, granted, pushed, accepted, received>>
        /\ cancelled' \in {cancelled, TRUE} /\ closeDone' \in {closeDone, TRUE}
    BY DEF PushTerminal, PushTimesOut, Close,
           CloseOnce, CancelSource, SourceCancelFrame
  <2> QED
    BY <2>1, <2>2 DEF HistoryOK
<1>5. UNCHANGED <<credit, consumer, granted>>
  BY DEF PushTerminal, PushTimesOut, Close, CloseOnce,
         CancelSource, SourceCancelFrame
<1>6. \/ UNCHANGED frames
      \/ frames' = Append(frames, Terminal) /\ Len(frames) < QueueCap
  BY DEF PushTerminal, PushTimesOut, Close, CloseOnce,
         CancelSource, SourceCancelFrame, WithTerminal
<1> QED
  BY <1>1, <1>2, <1>3, <1>4, <1>5, <1>6, ProducerGoesOn DEF HoldsCredit

\* The consumers' calls that take no frame.
LEMMA ConsumerCallPreserves ==
    ASSUME LoopbackInv, NEW c \in Consumers,
           \/ NextFrame(c) \/ NextTimesOut(c) \/ CancelSink(c)
           \/ SinkCancelFrame(c) \/ MarkTerminalSeen(c)
    PROVE  LoopbackInv'
<1>1. PICK pc \in {"idle", "recv", "cancel"} :
         consumer' = [consumer EXCEPT ![c] = [pc |-> pc, frame |-> Terminal]]
  BY DEF NextFrame, NextTimesOut, CancelSink,
         SinkCancelFrame, MarkTerminalSeen, ConsumerAt,
         ConsumerReturns, Idle
<1>2. PICK e \in ConsumerCall :
         e = [pc |-> pc, frame |-> Terminal] /\ e.pc = pc
  <2>1. [pc |-> pc, frame |-> Terminal] \in ConsumerCall
    BY TerminalFrame DEF ConsumerCall
  <2> QED
    BY <2>1
<1>3. consumer[c].pc # "return"
  BY DEF NextFrame, NextTimesOut, CancelSink,
         SinkCancelFrame, MarkTerminalSeen
<1>4. HistoryOK'
  <2>1. HistoryOK
    BY LoopbackParts DEF LoopbackInv
  <2>2. /\ UNCHANGED <<closeDone, granted, pushed, accepted, received>>
        /\ cancelled' \in {cancelled, TRUE} /\ terminalSeen' \in {terminalSeen, TRUE}
    BY DEF NextFrame, NextTimesOut, CancelSink,
           SinkCancelFrame, MarkTerminalSeen
  <2> QED
    BY <2>1, <2>2 DEF HistoryOK
<1>5. UNCHANGED <<credit, producer, granted>>
  BY DEF NextFrame, NextTimesOut, CancelSink,
         SinkCancelFrame, MarkTerminalSeen
<1>6. \/ UNCHANGED frames
      \/ frames' = Append(frames, Terminal) /\ Len(frames) < QueueCap
  BY DEF NextFrame, NextTimesOut, CancelSink,
         SinkCancelFrame, MarkTerminalSeen, WithTerminal
<1> QED
  BY <1>1, <1>2, <1>3, <1>4, <1>5, <1>6, ConsumerGoesOn

-------------------------------------------------------------------------------
\* The steps that move credit.

\* From the channel to a push.
LEMMA TakeCreditPreserves ==
    ASSUME LoopbackInv, NEW p \in Producers, TakeCredit(p)
    PROVE  LoopbackInv'
<1> USE DEF LoopbackInv
<1>1. /\ UNCHANGED <<frames, cancelled, closeDone, terminalSeen, consumer, pushed,
                     accepted, received, granted>>
      /\ credit' = credit - 1 /\ credit > 0 /\ producer[p].pc = "credit"
  BY DEF TakeCredit
<1>2. producer[p].frame \in Frame /\ IsData(producer[p].frame)
  BY <1>1, LoopbackParts DEF CallsInv
<1>3. PICK e \in ProducerCall :
         e = [pc |-> "send", frame |-> producer[p].frame] /\ e.pc = "send"
         /\ e.frame = producer[p].frame
  <2>1. [pc |-> "send", frame |-> producer[p].frame] \in ProducerCall
    BY <1>2 DEF ProducerCall
  <2> QED
    BY <2>1
<1>4. producer' = [producer EXCEPT ![p] = e]
  BY <1>3 DEF TakeCredit, ProducerAt
<1>5. HoldsCredit(e) /\ ~HoldsCredit(producer[p])
  BY <1>1, <1>2, <1>3 DEF HoldsCredit
<1>6. /\ producer' \in [Producers -> ProducerCall] /\ CallsInv'
      /\ Cardinality(Sending') = Cardinality(Sending) + 1
  BY <1>1, <1>3, <1>4, <1>5, ProducerEdit
<1>7. Queued' = Queued /\ Returning' = Returning
  BY <1>1 DEF Queued, Returning
<1>8. credit \in 0 .. Credit /\ credit' \in 0 .. Credit
  BY <1>1, LoopbackParts
<1>9. LoopbackTypeOK'
  BY <1>1, <1>6, <1>8 DEF LoopbackTypeOK
<1>10. credit' + Outstanding' = credit + Outstanding
  BY <1>1, <1>6, <1>7, <1>8, LoopbackParts, CountsAreNat, OutstandingParts, SMTT(30)
<1> QED
  BY <1>1, <1>6, <1>9, <1>10, CreditMoves

\* From a push to the queue.
LEMMA SendFramePreserves ==
    ASSUME LoopbackInv, NEW p \in Producers, SendFrame(p)
    PROVE  LoopbackInv'
<1> USE DEF LoopbackInv
<1>1. /\ UNCHANGED <<credit, cancelled, closeDone, terminalSeen, consumer, pushed,
                     received, granted>>
      /\ Len(frames) < QueueCap /\ producer[p].pc = "send"
  BY DEF SendFrame
<1>2. PICK f \in Frame : f = producer[p].frame
  BY LoopbackParts
<1>3. frames' = Append(frames, f)
  BY <1>2 DEF SendFrame
<1>4. PICK e \in ProducerCall :
         e = [pc |-> "idle", frame |-> Terminal] /\ e.pc = "idle"
  <2>1. [pc |-> "idle", frame |-> Terminal] \in ProducerCall
    BY TerminalFrame DEF ProducerCall
  <2> QED
    BY <2>1
<1>5. producer' = [producer EXCEPT ![p] = e]
  BY <1>4 DEF SendFrame, ProducerReturns, Idle
<1>6. ~HoldsCredit(e) /\ (HoldsCredit(producer[p]) <=> IsData(f))
  BY <1>1, <1>2, <1>4 DEF HoldsCredit
<1>7. producer' \in [Producers -> ProducerCall] /\ CallsInv'
  BY <1>1, <1>4, <1>5, ProducerEdit
<1>8. frames' \in Seq(Frame) /\ Len(frames') <= QueueCap
  BY <1>1, <1>3, LoopbackParts, QueueAppend DEF QueueCap
<1>9. accepted' \in [Producers -> Seq(1 .. MaxFrames)]
  <2>1. accepted \in [Producers -> Seq(1 .. MaxFrames)]
    BY LoopbackParts DEF HistoryOK
  <2>2. CASE IsData(f)
    <3>1. f.n \in 1 .. MaxFrames
      BY <2>2 DEF Frame, DataFrames, IsData
    <3>2. PICK n \in 1 .. MaxFrames : n = f.n
      BY <3>1
    <3>3. accepted' = [accepted EXCEPT ![p] = Append(accepted[p], n)]
      BY <1>2, <2>2, <3>2 DEF SendFrame
    <3>4. Append(accepted[p], n) \in Seq(1 .. MaxFrames)
      BY <2>1
    <3> QED
      BY <2>1, <3>3, <3>4
  <2>3. CASE ~IsData(f)
    BY <1>2, <2>1, <2>3 DEF SendFrame
  <2> QED
    BY <2>2, <2>3
<1>10. LoopbackTypeOK'
  BY <1>1, <1>7, <1>8, <1>9 DEF LoopbackTypeOK
<1>11. Returning' = Returning
  BY <1>1 DEF Returning
<1>12. /\ Cardinality(Sending) \in Nat /\ Cardinality(Queued) \in Nat
       /\ Cardinality(Returning) \in Nat /\ credit \in 0 .. Credit
  BY LoopbackParts, CountsAreNat
<1>13. CASE IsData(f)
  <2>1. Cardinality(Sending') = Cardinality(Sending) - 1
    BY <1>1, <1>4, <1>5, <1>6, <1>13, ProducerEdit
  <2>2. Cardinality(Queued') = Cardinality(Queued) + 1
    BY <1>3, <1>13, LoopbackParts, QueueAppend
  <2>3. credit' + Outstanding' = credit + Outstanding
    BY <1>1, <1>11, <1>12, <2>1, <2>2, OutstandingParts
  <2> QED
    BY <1>1, <1>7, <1>10, <2>3, CreditMoves
<1>14. CASE ~IsData(f)
  <2>1. Sending' = Sending
    BY <1>1, <1>4, <1>5, <1>6, <1>14, ProducerEdit
  <2>2. Queued' = Queued
    BY <1>3, <1>14, LoopbackParts, QueueAppend
  <2>3. credit' + Outstanding' = credit + Outstanding
    BY <1>1, <1>11, <2>1, <2>2, OutstandingParts
  <2> QED
    BY <1>1, <1>7, <1>10, <2>3, CreditMoves
<1> QED
  BY <1>13, <1>14

\* From a cancelled push back to the channel.
LEMMA PushCancelledPreserves ==
    ASSUME LoopbackInv, NEW p \in Producers, PushCancelled(p)
    PROVE  LoopbackInv'
<1>1. UNCHANGED <<frames, cancelled, closeDone, terminalSeen, consumer, pushed, accepted,
                  received, granted>>
  BY DEF PushCancelled
<1>2. HistoryOK'
  BY <1>1, LoopbackParts DEF LoopbackInv, HistoryOK
<1>3. PICK e \in ProducerCall :
         e = [pc |-> "idle", frame |-> Terminal] /\ e.pc = "idle"
  <2>1. [pc |-> "idle", frame |-> Terminal] \in ProducerCall
    BY TerminalFrame DEF ProducerCall
  <2> QED
    BY <2>1
<1>4. producer' = [producer EXCEPT ![p] = e] /\ ~HoldsCredit(e)
  BY <1>3 DEF PushCancelled, ProducerReturns, Idle, HoldsCredit
<1>5. CASE ~HoldsCredit(producer[p])
  <2>1. UNCHANGED credit
    BY <1>5 DEF PushCancelled, HoldsCredit
  <2> QED
    BY <1>1, <1>2, <1>3, <1>4, <1>5, <2>1, ProducerGoesOn
<1>6. CASE HoldsCredit(producer[p])
  <2> USE DEF LoopbackInv
  <2>1. credit' = Returned(credit)
    BY <1>6 DEF PushCancelled, HoldsCredit
  <2>2. /\ producer' \in [Producers -> ProducerCall] /\ CallsInv'
        /\ Cardinality(Sending') = Cardinality(Sending) - 1
    BY <1>1, <1>3, <1>4, <1>6, ProducerEdit
  <2>3. Queued' = Queued /\ Returning' = Returning
    BY <1>1 DEF Queued, Returning
  <2>4. credit' \in 0 .. Credit
    BY <2>1, LoopbackParts DEF Returned
  <2>5. LoopbackTypeOK'
    BY <1>1, <2>2, <2>4 DEF LoopbackTypeOK
  <2>6. Cardinality(Sending') \in Nat
    BY <2>2, FS_CardinalityType DEF CallsInv
  <2>7. /\ Outstanding \in Nat /\ Outstanding' \in Nat
        /\ Outstanding' = Outstanding - 1
    BY <2>2, <2>3, <2>6, LoopbackParts, CountsAreNat, OutstandingParts, SMTT(30)
  <2> QED
    BY <1>1, <2>1, <2>2, <2>5, <2>7, CreditReturns
<1> QED
  BY <1>5, <1>6

\* From the queue to a consumer.
LEMMA ReceiveFramePreserves ==
    ASSUME LoopbackInv, NEW c \in Consumers, Receive(c)
    PROVE  LoopbackInv'
<1> USE DEF LoopbackInv
<1>1. /\ UNCHANGED <<credit, cancelled, closeDone, terminalSeen, producer, pushed,
                     accepted, granted>>
      /\ frames # <<>> /\ frames' = Tail(frames) /\ consumer[c].pc = "recv"
  BY DEF Receive
<1>2. /\ frames' \in Seq(Frame) /\ Len(frames') = Len(frames) - 1
      /\ Head(frames) \in Frame
  BY <1>1, LoopbackParts, QueueTail
<1>3. PICK f \in Frame : f = Head(frames)
  BY <1>2
<1>4. PICK pc \in {"return", "seen"} : pc = "return" <=> IsData(f)
  OBVIOUS
<1>5. PICK e \in ConsumerCall : e = [pc |-> pc, frame |-> f] /\ e.pc = pc
  <2>1. [pc |-> pc, frame |-> f] \in ConsumerCall
    BY DEF ConsumerCall
  <2> QED
    BY <2>1
<1>6. consumer' = [consumer EXCEPT ![c] = e]
  BY <1>3, <1>4, <1>5 DEF Receive, ConsumerAt
<1>7. consumer' \in [Consumers -> ConsumerCall] /\ CallsInv'
  BY <1>1, <1>6, ConsumerEdit
<1>8. received' \in Seq(Frame)
  <2>1. received \in Seq(Frame) /\ received' = Append(received, f)
    BY <1>3, LoopbackParts DEF HistoryOK, Receive
  <2> QED
    BY <2>1
<1>9. Len(frames') <= QueueCap
  BY <1>2, LoopbackParts DEF QueueCap
<1>10. LoopbackTypeOK'
  BY <1>1, <1>2, <1>7, <1>8, <1>9 DEF LoopbackTypeOK
<1>11. Sending' = Sending
  BY <1>1 DEF Sending
<1>12. /\ Cardinality(Sending) \in Nat /\ Cardinality(Queued) \in Nat
       /\ Cardinality(Returning) \in Nat /\ credit \in 0 .. Credit
  BY LoopbackParts, CountsAreNat
<1>13. CASE IsData(f)
  <2>1. Cardinality(Returning') = Cardinality(Returning) + 1
    BY <1>1, <1>4, <1>5, <1>6, <1>13, ConsumerEdit
  <2>2. Cardinality(Queued') = Cardinality(Queued) - 1
    BY <1>1, <1>3, <1>13, LoopbackParts, QueueTail
  <2>3. credit' + Outstanding' = credit + Outstanding
    BY <1>1, <1>11, <1>12, <2>1, <2>2, OutstandingParts, SMTT(30)
  <2> QED
    BY <1>1, <1>7, <1>10, <2>3, CreditMoves
<1>14. CASE ~IsData(f)
  <2>1. Returning' = Returning
    BY <1>1, <1>4, <1>5, <1>6, <1>14, ConsumerEdit
  <2>2. Cardinality(Queued') = Cardinality(Queued)
    BY <1>1, <1>3, <1>14, LoopbackParts, QueueTail
  <2>3. credit' + Outstanding' = credit + Outstanding
    BY <1>1, <1>11, <2>1, <2>2, OutstandingParts
  <2> QED
    BY <1>1, <1>7, <1>10, <2>3, CreditMoves
<1> QED
  BY <1>13, <1>14

\* From a consumer back to the channel.
LEMMA ReturnCreditPreserves ==
    ASSUME LoopbackInv, NEW c \in Consumers, ReturnCredit(c)
    PROVE  LoopbackInv'
<1> USE DEF LoopbackInv
<1>1. /\ UNCHANGED <<frames, cancelled, closeDone, terminalSeen, producer, pushed,
                     accepted, received, granted>>
      /\ credit' = Returned(credit) /\ consumer[c].pc = "return"
  BY DEF ReturnCredit
<1>2. PICK e \in ConsumerCall :
         e = [pc |-> "idle", frame |-> Terminal] /\ e.pc = "idle"
  <2>1. [pc |-> "idle", frame |-> Terminal] \in ConsumerCall
    BY TerminalFrame DEF ConsumerCall
  <2> QED
    BY <2>1
<1>3. consumer' = [consumer EXCEPT ![c] = e]
  BY <1>2 DEF ReturnCredit, ConsumerReturns, Idle
<1>4. /\ consumer' \in [Consumers -> ConsumerCall] /\ CallsInv'
      /\ Cardinality(Returning') = Cardinality(Returning) - 1
  BY <1>1, <1>2, <1>3, ConsumerEdit
<1>5. Queued' = Queued /\ Sending' = Sending
  BY <1>1 DEF Queued, Sending
<1>6. credit' \in 0 .. Credit
  BY <1>1, LoopbackParts DEF Returned
<1>7. LoopbackTypeOK'
  BY <1>1, <1>4, <1>6 DEF LoopbackTypeOK
<1>8. Cardinality(Returning') \in Nat
  BY <1>4, FS_CardinalityType DEF CallsInv
<1>9. /\ Outstanding \in Nat /\ Outstanding' \in Nat
      /\ Outstanding' = Outstanding - 1
  BY <1>4, <1>5, <1>8, LoopbackParts, CountsAreNat, OutstandingParts, SMTT(30)
<1> QED
  BY <1>1, <1>4, <1>7, <1>9, CreditReturns

\* More of one part keeps a sum large enough.
LEMMA MoreIsEnough ==
    ASSUME NEW a \in Nat, NEW b \in Nat, NEW o \in Nat, NEW n \in Nat,
           a + o >= n, b >= a
    PROVE  b + o >= n
OBVIOUS

\* New credit, within the initial one.
LEMMA GrantCreditPreserves ==
    ASSUME LoopbackInv, NEW c \in Consumers, GrantCredit(c)
    PROVE  LoopbackInv'
<1> USE DEF LoopbackInv
<1>1. /\ UNCHANGED <<frames, cancelled, closeDone, terminalSeen, producer, consumer,
                     pushed, accepted, received>>
      /\ credit' = Returned(credit)
  BY DEF GrantCredit
<1>2. credit \in 0 .. Credit /\ credit' \in 0 .. Credit /\ credit' >= credit
      /\ (credit' # credit => credit < Credit)
  BY <1>1, LoopbackParts DEF Returned
<1>3. granted' \in BOOLEAN /\ (~granted' => ~granted /\ ~(credit < Credit))
  BY LoopbackParts, Zenon DEF GrantCredit, HistoryOK
<1>4. LoopbackTypeOK'
  BY <1>1, <1>2, <1>3 DEF LoopbackTypeOK
<1>5. /\ Sending' = Sending /\ Queued' = Queued
      /\ Returning' = Returning
  BY <1>1 DEF Sending, Queued, Returning
<1>6. CallsInv'
  BY <1>1, <1>5 DEF CallsInv
<1>7. Outstanding' = Outstanding /\ Outstanding \in Nat
  BY <1>5, LoopbackParts, CountsAreNat, OutstandingParts
<1>8. CreditConserved'
  <2>1. credit' + Outstanding' >= Credit
    <3>1. credit + Outstanding >= Credit
      BY DEF CreditConserved
    <3>2. credit \in Nat /\ credit' \in Nat /\ credit' >= credit
      BY <1>2
    <3>3. credit' + Outstanding >= Credit
      BY <1>7, <3>1, <3>2, MoreIsEnough
    <3> QED
      BY <1>7, <3>3
  <2>2. ASSUME ~granted' PROVE credit' + Outstanding' = Credit
    <3>1. ~granted /\ credit' = credit
      BY <1>2, <1>3, <2>2
    <3> QED
      BY <1>7, <3>1 DEF CreditConserved
  <2> QED
    BY <2>1, <2>2 DEF CreditConserved
<1> QED
  BY <1>4, <1>6, <1>8

-------------------------------------------------------------------------------
\* A new stream has its credit in the channel.
LEMMA LoopbackInitEstablishes ==
    ASSUME LoopbackInit
    PROVE  LoopbackInv
<1>1. frames = <<>> /\ credit = Credit /\ received = <<>>
  BY DEF LoopbackInit
<1>2. HistoryOK
  <2>1. /\ cancelled \in BOOLEAN /\ closeDone \in BOOLEAN /\ terminalSeen \in BOOLEAN
        /\ granted \in BOOLEAN
    BY Zenon DEF LoopbackInit
  <2>2. pushed \in [Producers -> 0 .. MaxFrames] /\ received \in Seq(Frame)
        /\ accepted \in [Producers -> Seq(1 .. MaxFrames)]
    BY DEF LoopbackInit
  <2> QED
    BY <2>1, <2>2 DEF HistoryOK
<1>3. /\ producer \in [Producers -> ProducerCall]
      /\ consumer \in [Consumers -> ConsumerCall]
      /\ \A p \in Producers : producer[p].pc = "idle"
      /\ \A c \in Consumers : consumer[c].pc = "idle"
  <2>1. /\ [pc |-> "idle", frame |-> Terminal] \in ProducerCall
        /\ [pc |-> "idle", frame |-> Terminal] \in ConsumerCall
    BY TerminalFrame DEF ProducerCall, ConsumerCall
  <2> QED
    BY <2>1 DEF LoopbackInit, Idle
<1>4. LoopbackTypeOK
  <2>1. frames \in Seq(Frame) /\ Len(frames) <= QueueCap
    BY <1>1 DEF QueueCap
  <2>2. credit \in 0 .. Credit
    BY <1>1
  <2> QED
    BY <1>2, <1>3, <2>1, <2>2 DEF LoopbackTypeOK, HistoryOK
<1>5. Sending = {} /\ Queued = {} /\ Returning = {}
  BY <1>1, <1>3 DEF Sending, Queued, Returning
<1>6. CallsInv
  BY <1>3, <1>5, FS_EmptySet DEF CallsInv
<1>7. Outstanding = 0
  BY <1>5, FS_EmptySet, OutstandingParts
<1>8. CreditConserved
  BY <1>1, <1>7 DEF CreditConserved
<1> QED
  BY <1>4, <1>6, <1>8 DEF LoopbackInv

\* Every step of a stream keeps the invariant.
LEMMA LoopbackStep ==
    ASSUME LoopbackInv, [LoopbackNext]_loopbackVars
    PROVE  LoopbackInv'
<1>1. ASSUME NEW p \in Producers, PushData(p) PROVE LoopbackInv'
  BY <1>1, PushDataPreserves
<1>2. ASSUME NEW p \in Producers,
             \/ PushTerminal(p) \/ PushTimesOut(p) \/ Close(p)
             \/ CloseOnce(p) \/ CancelSource(p)
             \/ SourceCancelFrame(p)
      PROVE  LoopbackInv'
  BY <1>2, ProducerCallPreserves
<1>3. ASSUME NEW p \in Producers, TakeCredit(p) PROVE LoopbackInv'
  BY <1>3, TakeCreditPreserves
<1>4. ASSUME NEW p \in Producers, SendFrame(p) PROVE LoopbackInv'
  BY <1>4, SendFramePreserves
<1>5. ASSUME NEW p \in Producers, PushCancelled(p) PROVE LoopbackInv'
  BY <1>5, PushCancelledPreserves
<1>6. ASSUME NEW c \in Consumers,
             \/ NextFrame(c) \/ NextTimesOut(c)
             \/ CancelSink(c) \/ SinkCancelFrame(c)
             \/ MarkTerminalSeen(c)
      PROVE  LoopbackInv'
  BY <1>6, ConsumerCallPreserves
<1>7. ASSUME NEW c \in Consumers, Receive(c) PROVE LoopbackInv'
  BY <1>7, ReceiveFramePreserves
<1>8. ASSUME NEW c \in Consumers, ReturnCredit(c) PROVE LoopbackInv'
  BY <1>8, ReturnCreditPreserves
<1>9. ASSUME NEW c \in Consumers, GrantCredit(c) PROVE LoopbackInv'
  BY <1>9, GrantCreditPreserves
<1>10. CASE UNCHANGED loopbackVars
  <2>1. UNCHANGED <<frames, credit, cancelled, closeDone, terminalSeen, producer, consumer,
                    pushed, accepted, received, granted>>
    BY <1>10 DEF loopbackVars
  <2>2. /\ Sending' = Sending /\ Queued' = Queued
        /\ Returning' = Returning
    BY <2>1 DEF Sending, Queued, Returning
  <2>3. LoopbackTypeOK' /\ CallsInv' /\ Outstanding' = Outstanding
    BY <2>1, <2>2 DEF LoopbackInv, LoopbackTypeOK, CallsInv, Outstanding
  <2> QED
    BY <2>1, <2>3 DEF LoopbackInv, CreditConserved
<1> QED
  BY <1>1, <1>2, <1>3, <1>4, <1>5, <1>6, <1>7, <1>8, <1>9, <1>10
     DEF LoopbackNext, ProducerStep, ConsumerStep

\* The invariant of a loopback stream with any producers and consumers.
THEOREM LoopbackInvariant == LoopbackSpec => []LoopbackInv
<1>1. LoopbackInit => LoopbackInv
  BY LoopbackInitEstablishes
<1>2. LoopbackInv /\ [LoopbackNext]_loopbackVars => LoopbackInv'
  BY LoopbackStep
<1> QED
  BY <1>1, <1>2, PTL DEF LoopbackSpec

\* Every variable of the stream keeps its type: the queue stays within cap(frames), the
\* credit within initialCredit.
THEOREM LoopbackTypeCorrect == LoopbackSpec => []LoopbackTypeOK
<1>1. LoopbackInv => LoopbackTypeOK
  BY DEF LoopbackInv
<1> QED
  BY <1>1, LoopbackInvariant, PTL

\* push, its cancelled paths and nextFrame lose no credit, and without GrantCredit they
\* add none, however producers, consumers, cancels and timeouts interleave.
THEOREM CreditIsConserved == LoopbackSpec => []CreditConserved
<1>1. LoopbackInv => CreditConserved
  BY DEF LoopbackInv
<1> QED
  BY <1>1, LoopbackInvariant, PTL
===============================================================================
