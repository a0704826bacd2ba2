-------------------------- MODULE BidiSessionProofs --------------------------
(***************************************************************************)
(* Theorems about BidiSession, for any number of goroutines and frames:    *)
(* what goes up is in order and ends once, the first terminal receipt      *)
(* decides how the session ended, and a session that ended stays ended.    *)
(***************************************************************************)
EXTENDS BidiSession, TLAPS

-------------------------------------------------------------------------------
\* The states in which Send may still be called, now or later, and those in which
\* Cancel may.
MaySend == {"Opening"} \cup Sendable
MayCancel == Active \ {"CancelRequested"}

\* A frame of this kind went up.
WentUp(kind) == \E i \in DOMAIN up : up[i].kind = kind

\* The holder of sendMu is the one whose operation is under way.
HolderInv == sendMu = Nobody <=> sending.op = "none"

\* Data that went up has a sequence number that was recorded, or is about to be, and
\* the one that goes up next is above it.
SequenceInv ==
    /\ sending.op \in {"send", "record"} => sending.seq > lastSendSeq
    /\ \A i \in DOMAIN up : up[i].kind = "data" =>
          IF sending.op = "record" THEN up[i].seq <= sending.seq
                                   ELSE up[i].seq <= lastSendSeq

\* Ends go up behind a change of the state that no step undoes: once one went up, or is
\* about to, nobody starts a Send; once a cancel did, nobody cancels again.  Whoever
\* holds sendMu found the direction open.
EndInv ==
    /\ WentUp("eof") \/ WentUp("cancel") \/ sending.op \in {"closeSend", "cancel"} =>
          state \notin MaySend
    /\ WentUp("cancel") \/ sending.op = "cancel" => state \notin MayCancel
    /\ sending.op \in {"send", "closeSend"} => ~WentUp("eof")
    /\ sending.op \in {"send", "closeSend", "cancel"} => ~WentUp("cancel")

SessionInv ==
    TypeOK /\ HolderInv /\ SequenceInv /\ EndInv /\ UpInOrder /\ ReceiptDecides

\* A session that ended is never open again (an action property).
EndedIsFinal == [][state \notin Active => state' \notin Active]_vars

-------------------------------------------------------------------------------
\* Lemmas about the operators.

\* What a step may make of the state: a direction that ended stays ended.
Forward(s, t) ==
    /\ t \in States
    /\ s \notin MaySend => t \notin MaySend
    /\ s \notin MayCancel => t \notin MayCancel
    /\ s \notin Active => t \notin Active

\* The outcomes nextBidiState, fail and applyFrameLocked have.
LEMMA Outcomes ==
    ASSUME state \in States
    PROVE  /\ Forward(state, state) /\ Forward(state, "Failed")
           /\ Forward(state, AfterFailure)
           /\ \A kind \in Kinds : Forward(state, Applied(kind))
           /\ CanTransition(state, "localClose") =>
                 /\ Forward(state, NextState(state, "localClose"))
                 /\ state \in Sendable /\ NextState(state, "localClose") \in Active \ MaySend
           /\ CanTransition(state, "cancel") =>
                 /\ Forward(state, NextState(state, "cancel"))
                 /\ state \in MayCancel /\ NextState(state, "cancel") = "CancelRequested"
           /\ CanTransition(state, "close") =>
                 state \notin Active /\ Forward(state, "Closed")
<1> USE DEF States, Active, Ended, Sendable, MaySend, MayCancel, Kinds, Receipts
<1>1. Forward(state, state) /\ Forward(state, "Failed") /\ Forward(state, AfterFailure)
  BY DEF Forward, AfterFailure
<1>2. \A kind \in Kinds : Forward(state, Applied(kind))
  <2> SUFFICES ASSUME NEW kind \in Kinds PROVE Forward(state, Applied(kind))
    OBVIOUS
  <2>1. CASE kind = "data"
    BY <2>1 DEF Forward, Applied
  <2>2. CASE kind = "eof"
    BY <2>2 DEF Forward, Applied, CanTransition, NextState
  <2>3. CASE kind \notin {"data", "eof"}
    BY <2>3 DEF Forward, Applied, CanTransition, NextState
  <2> QED
    BY <2>1, <2>2, <2>3
<1>3. CanTransition(state, "localClose") =>
        /\ Forward(state, NextState(state, "localClose"))
        /\ state \in Sendable /\ NextState(state, "localClose") \in Active \ MaySend
  BY DEF Forward, CanTransition, NextState
<1>4. CanTransition(state, "cancel") =>
        /\ Forward(state, NextState(state, "cancel"))
        /\ state \in MayCancel /\ NextState(state, "cancel") = "CancelRequested"
  BY DEF Forward, CanTransition, NextState
<1>5. CanTransition(state, "close") => state \notin Active /\ Forward(state, "Closed")
  BY DEF Forward, CanTransition
<1> QED
  BY <1>1, <1>2, <1>3, <1>4, <1>5

\* How a receipt ends a session does not depend on where the session was, and nothing
\* but a receipt completes or cancels it.
LEMMA Endings ==
    ASSUME state \in States
    PROVE  /\ \A kind \in Receipts : state \in Active =>
                 Applied(kind) = NextState("Open", kind) /\ Applied(kind) \notin Active
           /\ \A kind \in Kinds :
                 (kind \in Receipts => state \notin Active)
                     /\ state \notin {"Terminal", "Cancelled"} =>
                 Applied(kind) \notin {"Terminal", "Cancelled"}
           /\ \A kind \in Receipts : NextState("Open", kind) \in Ended
<1> USE DEF States, Active, Ended, Kinds, Receipts
<1>1. ASSUME NEW kind \in Receipts, state \in Active
      PROVE  Applied(kind) = NextState("Open", kind) /\ Applied(kind) \notin Active
  BY <1>1 DEF Applied, CanTransition, NextState
<1>2. ASSUME NEW kind \in Kinds, kind \in Receipts => state \notin Active,
             state \notin {"Terminal", "Cancelled"}
      PROVE  Applied(kind) \notin {"Terminal", "Cancelled"}
  <2>1. CASE kind = "data"
    BY <2>1, <1>2 DEF Applied
  <2>2. CASE kind = "eof"
    BY <2>2, <1>2 DEF Applied, CanTransition, NextState
  <2>3. CASE kind \notin {"data", "eof"}
    BY <2>3, <1>2 DEF Applied, CanTransition, NextState
  <2> QED
    BY <2>1, <2>2, <2>3
<1>3. \A kind \in Receipts : NextState("Open", kind) \in Ended
  BY DEF NextState
<1> QED
  BY <1>1, <1>2, <1>3

\* The window of newest frames.
LEMMA KeptEffect ==
    ASSUME NEW counted \in Seq(Nat), Len(counted) <= MaxBuffered, NEW seq \in Nat
    PROVE  Kept(counted, seq) \in Seq(Nat) /\ Len(Kept(counted, seq)) <= MaxBuffered
<1>1. MaxBuffered \in Nat \ {0}
  BY BidiAssumption
<1>2. CASE Len(counted) = MaxBuffered
  <2>1. counted # <<>>
    BY <1>1, <1>2
  <2>2. Tail(counted) \in Seq(Nat) /\ Len(Tail(counted)) = Len(counted) - 1
    BY <2>1
  <2> QED
    BY <1>1, <1>2, <2>2 DEF Kept
<1>3. CASE Len(counted) # MaxBuffered
  BY <1>1, <1>3 DEF Kept
<1> QED
  BY <1>2, <1>3

\* A frame goes up, behind those that are there.
LEMMA TransmitEffect ==
    ASSUME TypeOK, NEW kind \in {"data", "eof", "cancel"}, NEW seq \in Nat,
           Transmit(kind, seq)
    PROVE  /\ up \in Seq(UpFrame) /\ up' \in Seq(UpFrame)
           /\ Len(up) \in Nat /\ DOMAIN up = 1 .. Len(up) /\ DOMAIN up' = 1 .. Len(up) + 1
           /\ \A i \in 1 .. Len(up) : up'[i] = up[i]
           /\ up'[Len(up) + 1].kind = kind /\ up'[Len(up) + 1].seq = seq
<1>1. up \in Seq(UpFrame)
  BY DEF TypeOK
<1>2. [kind |-> kind, seq |-> seq] \in UpFrame
  BY DEF UpFrame
<1>3. PICK f \in UpFrame : f = [kind |-> kind, seq |-> seq]
  BY <1>2
<1>4. up' = Append(up, f) /\ f.kind = kind /\ f.seq = seq
  BY <1>3 DEF Transmit
<1> HIDE DEF UpFrame
<1> QED
  BY <1>1, <1>4

\* What went up after that, and when it is still in order.
LEMMA TransmitInOrder ==
    ASSUME TypeOK, UpInOrder, NEW kind \in {"data", "eof", "cancel"}, NEW seq \in Nat,
           Transmit(kind, seq),
           ~WentUp("cancel"), kind \in {"data", "eof"} => ~WentUp("eof"),
           kind = "data" => \A i \in DOMAIN up : up[i].kind = "data" => up[i].seq < seq
    PROVE  /\ UpInOrder'
           /\ \A k : WentUp(k)' <=> WentUp(k) \/ k = kind
<1>1. /\ up \in Seq(UpFrame) /\ Len(up) \in Nat
      /\ DOMAIN up = 1 .. Len(up) /\ DOMAIN up' = 1 .. Len(up) + 1
      /\ \A i \in 1 .. Len(up) : up'[i] = up[i]
      /\ up'[Len(up) + 1].kind = kind /\ up'[Len(up) + 1].seq = seq
  BY TransmitEffect
<1>2. \A i \in 1 .. Len(up) : up[i] \in UpFrame
  BY <1>1
<1>3. \A i \in 1 .. Len(up) : up[i].kind \in {"data", "eof"}
  BY <1>1, <1>2 DEF UpFrame, WentUp
<1>4. kind \in {"data", "eof"} => \A i \in 1 .. Len(up) : up[i].kind = "data"
  BY <1>1, <1>3 DEF WentUp
<1>5. UpInOrder'
  <2> SUFFICES ASSUME NEW i \in 1 .. Len(up) + 1, NEW j \in 1 .. Len(up) + 1, i < j
               PROVE  /\ up'[j].kind = "data" => up'[i].kind = "data" /\ up'[i].seq < up'[j].seq
                      /\ up'[j].kind = "eof"  => up'[i].kind = "data"
                      /\ up'[i].kind # "cancel"
    BY <1>1 DEF UpInOrder
  <2>1. i \in 1 .. Len(up) /\ up'[i] = up[i]
    BY <1>1
  <2>2. CASE j = Len(up) + 1
    BY <2>1, <2>2, <1>1, <1>3, <1>4, SMTT(30)
  <2>3. CASE j \in 1 .. Len(up)
    BY <2>1, <2>3, <1>1 DEF UpInOrder
  <2> QED
    BY <2>2, <2>3, <1>1
<1>6. ASSUME NEW k PROVE WentUp(k)' <=> WentUp(k) \/ k = kind
  <2>1. WentUp(k)' => WentUp(k) \/ k = kind
    BY <1>1 DEF WentUp
  <2>2. WentUp(k) => WentUp(k)'
    BY <1>1 DEF WentUp
  <2>3. k = kind => WentUp(k)'
    BY <1>1 DEF WentUp
  <2> QED
    BY <2>1, <2>2, <2>3
<1> QED
  BY <1>5, <1>6

-------------------------------------------------------------------------------
\* A step that neither sends nor records keeps what holds of the up direction, if it
\* takes the state forward.
LEMMA UpDirectionKept ==
    ASSUME SessionInv, Forward(state, state'), UNCHANGED <<lastSendSeq, senderVars, up>>
    PROVE  HolderInv' /\ SequenceInv' /\ EndInv' /\ UpInOrder'
<1> USE DEF senderVars
<1>1. \A k : WentUp(k)' <=> WentUp(k)
  BY DEF WentUp
<1>2. EndInv'
  BY <1>1 DEF SessionInv, EndInv, Forward
<1> QED
  BY <1>2 DEF SessionInv, HolderInv, SequenceInv, UpInOrder

\* A step that takes an open session forward or leaves the state alone, and leaves the
\* terminal receipt alone, keeps ReceiptDecides.
LEMMA ReceiptKept ==
    ASSUME SessionInv, UNCHANGED terminalFrame,
           \/ state' = state
           \/ state' \notin {"Terminal", "Cancelled"} /\ terminalFrame = "none"
           \/ state' = "Closed"
    PROVE  ReceiptDecides'
  BY DEF SessionInv, ReceiptDecides

\* A session with a terminal receipt is not active.
LEMMA ReceiptEnds ==
    ASSUME SessionInv
    PROVE  state \in Active => terminalFrame = "none"
<1>1. terminalFrame # "none" => NextState("Open", terminalFrame) \in Ended
  BY Endings DEF SessionInv, TypeOK
<1> QED
  BY <1>1 DEF SessionInv, ReceiptDecides, Active, Ended

\* The outcome of a failed transport call.
LEMMA FailureKeepsReceipt ==
    ASSUME SessionInv, state' = AfterFailure, UNCHANGED terminalFrame
    PROVE  ReceiptDecides' /\ Forward(state, state')
<1>1. Forward(state, state')
  BY Outcomes DEF SessionInv, TypeOK
<1>2. CASE state \in Active
  <2>1. state' = "Failed" /\ terminalFrame = "none"
    BY <1>2, ReceiptEnds DEF AfterFailure
  <2> QED
    BY <1>1, <2>1, ReceiptKept
<1>3. CASE state \notin Active
  <2>1. state' = state
    BY <1>3 DEF AfterFailure
  <2> QED
    BY <1>1, <2>1, ReceiptKept
<1> QED
  BY <1>2, <1>3

-------------------------------------------------------------------------------
\* Senders

\* Send, up to the transport.
LEMMA SendPreserves ==
    ASSUME SessionInv, NEW g \in Senders, NEW seq \in 0 .. MaxSeq, Send(g, seq)
    PROVE  SessionInv' /\ Forward(state, state')
<1> USE DEF session, senderVars, receiverVars, closerVars
<1>1. /\ sendMu = Nobody /\ state \in Sendable /\ sending.op = "none"
      /\ UNCHANGED <<recvMu, receiving, closeMu, closing, up, down, peer>>
      /\ UNCHANGED <<lastSendSeq, lastRecvSeq, sentFrames, receivedFrames,
                     terminalFrame, remoteDone>>
  BY DEF Send, SendUnlocked, SessionInv, HolderInv
<1>2. CASE Ordered(seq, lastSendSeq)
  <2>1. /\ sendMu' = g /\ sending' = [op |-> "send", seq |-> seq] /\ UNCHANGED state
    BY <1>2 DEF Send
  <2>2. seq \in Nat /\ seq > lastSendSeq
    BY <1>2, BidiAssumption DEF Ordered
  <2>3. TypeOK'
    <3>1. sending' \in [op : {"none", "send", "record", "closeSend", "cancel"}, seq : Nat]
      BY <2>1, <2>2
    <3> QED
      BY <3>1, <1>1, <2>1 DEF SessionInv, TypeOK
  <2>4. sending'.op = "send" /\ sending'.seq = seq /\ g # Nobody
    BY <2>1, BidiAssumption
  <2>5. HolderInv'
    BY <2>1, <2>4 DEF HolderInv
  <2>6. SequenceInv'
    BY <1>1, <2>2, <2>4 DEF SessionInv, SequenceInv
  <2>7. \A k : WentUp(k)' <=> WentUp(k)
    BY <1>1 DEF WentUp
  <2>8. state \in MaySend
    BY <1>1 DEF MaySend
  <2>9. EndInv'
    BY <1>1, <2>1, <2>4, <2>7, <2>8 DEF SessionInv, EndInv
  <2>10. UpInOrder' /\ ReceiptDecides'
    BY <1>1, <2>1 DEF SessionInv, UpInOrder, ReceiptDecides
  <2>11. Forward(state, state')
    BY <2>1, Outcomes DEF SessionInv, TypeOK
  <2> QED
    BY <2>3, <2>5, <2>6, <2>9, <2>10, <2>11 DEF SessionInv
<1>3. CASE ~Ordered(seq, lastSendSeq)
  <2>1. state' = "Failed" /\ UNCHANGED senderVars
    BY <1>3 DEF Send
  <2>2. Forward(state, state')
    BY <2>1, Outcomes DEF SessionInv, TypeOK
  <2>3. HolderInv' /\ SequenceInv' /\ EndInv' /\ UpInOrder'
    BY <1>1, <2>1, <2>2, UpDirectionKept
  <2>4. state \in Active
    BY <1>1 DEF Sendable, Active
  <2>5. ReceiptDecides'
    BY <1>1, <2>1, <2>4, ReceiptEnds, ReceiptKept
  <2>6. TypeOK'
    BY <1>1, <2>1, <2>2 DEF SessionInv, TypeOK, Forward
  <2> QED
    BY <2>2, <2>3, <2>5, <2>6 DEF SessionInv
<1> QED
  BY <1>2, <1>3

\* The transport takes the frame.
LEMMA SendTransportPreserves ==
    ASSUME SessionInv, NEW g \in Senders, SendTransport(g)
    PROVE  SessionInv' /\ Forward(state, state')
<1> USE DEF session, senderVars, receiverVars, closerVars
<1>1. /\ sendMu = g /\ sending.op = "send" /\ Transmit("data", sending.seq)
      /\ sending' = [sending EXCEPT !.op = "record"]
      /\ UNCHANGED <<state, lastSendSeq, lastRecvSeq, sentFrames, receivedFrames,
                     terminalFrame, remoteDone, sendMu, recvMu, receiving, closeMu,
                     closing, down, peer>>
  BY DEF SendTransport
<1>2. /\ sending.seq \in Nat /\ sending' \in [op : {"none", "send", "record", "closeSend", "cancel"},
                                              seq : Nat]
      /\ sending'.op = "record" /\ sending'.seq = sending.seq /\ lastSendSeq \in Nat
  BY <1>1 DEF SessionInv, TypeOK
<1>3. PICK seq \in Nat : seq = sending.seq
  BY <1>2
<1>4. /\ seq > lastSendSeq /\ ~WentUp("eof") /\ ~WentUp("cancel") /\ Transmit("data", seq)
      /\ \A i \in DOMAIN up : up[i].kind = "data" => up[i].seq <= lastSendSeq
  BY <1>1, <1>3 DEF SessionInv, SequenceInv, EndInv
<1>5. /\ up' \in Seq(UpFrame) /\ Len(up) \in Nat /\ up \in Seq(UpFrame)
      /\ DOMAIN up = 1 .. Len(up) /\ DOMAIN up' = 1 .. Len(up) + 1
      /\ \A i \in 1 .. Len(up) : up'[i] = up[i]
      /\ up'[Len(up) + 1].kind = "data" /\ up'[Len(up) + 1].seq = seq
  BY <1>4, TransmitEffect DEF SessionInv
<1>6. \A i \in DOMAIN up : up[i].seq \in Nat
  <2>1. \A i \in DOMAIN up : up[i] \in UpFrame
    BY <1>5
  <2> QED
    BY <2>1 DEF UpFrame
<1>7. \A i \in DOMAIN up : up[i].kind = "data" => up[i].seq < seq
  BY <1>2, <1>4, <1>6
<1>8. /\ UpInOrder' /\ \A k : WentUp(k)' <=> WentUp(k) \/ k = "data"
  BY <1>4, <1>7, TransmitInOrder DEF SessionInv
<1>9. ~WentUp("eof")' /\ ~WentUp("cancel")'
  BY <1>4, <1>8
<1>10. SequenceInv'
  BY <1>1, <1>2, <1>3, <1>4, <1>5, <1>6, <1>7 DEF SequenceInv
<1>11. HolderInv' /\ EndInv' /\ ReceiptDecides'
  BY <1>1, <1>2, <1>9 DEF SessionInv, HolderInv, EndInv, ReceiptDecides
<1>12. TypeOK'
  BY <1>1, <1>2, <1>5 DEF SessionInv, TypeOK
<1>13. Forward(state, state')
  BY <1>1, Outcomes DEF SessionInv, TypeOK
<1> QED
  BY <1>8, <1>10, <1>11, <1>12, <1>13 DEF SessionInv

\* What ReleaseSend leaves behind.
LEMMA ReleaseSendEffect ==
    ASSUME ReleaseSend
    PROVE  /\ sendMu' = Nobody /\ sending'.op = "none"
           /\ sending' \in [op : {"none", "send", "record", "closeSend", "cancel"}, seq : Nat]
           /\ HolderInv'
  BY DEF ReleaseSend, HolderInv

\* The frame is recorded.
LEMMA SendRecordPreserves ==
    ASSUME SessionInv, NEW g \in Senders, SendRecord(g)
    PROVE  SessionInv' /\ Forward(state, state')
<1> USE DEF session, senderVars, receiverVars, closerVars
<1>1. /\ sending.op = "record" /\ lastSendSeq' = sending.seq /\ ReleaseSend
      /\ sentFrames' = Kept(sentFrames, sending.seq)
      /\ UNCHANGED <<state, lastRecvSeq, receivedFrames, terminalFrame, remoteDone, recvMu,
                     receiving, closeMu, closing, up, down, peer>>
  BY DEF SendRecord
<1>2. sending.seq \in Nat
  BY DEF SessionInv, TypeOK
<1>3. sentFrames' \in Seq(Nat) /\ Len(sentFrames') <= MaxBuffered
  BY <1>1, <1>2, KeptEffect DEF SessionInv, TypeOK
<1>4. TypeOK'
  BY <1>1, <1>2, <1>3, ReleaseSendEffect DEF SessionInv, TypeOK
<1>5. SequenceInv'
  BY <1>1, ReleaseSendEffect DEF SessionInv, SequenceInv
<1>6. \A k : WentUp(k)' <=> WentUp(k)
  BY <1>1 DEF WentUp
<1>7. EndInv' /\ UpInOrder' /\ ReceiptDecides'
  BY <1>1, <1>6, ReleaseSendEffect DEF SessionInv, EndInv, UpInOrder, ReceiptDecides
<1>8. Forward(state, state')
  BY <1>1, Outcomes DEF SessionInv, TypeOK
<1> QED
  BY <1>1, <1>4, <1>5, <1>7, <1>8, ReleaseSendEffect DEF SessionInv

\* CloseSend and Cancel change the state before they call the transport.
LEMMA EndBeginsPreserves ==
    ASSUME SessionInv, NEW g \in Senders, CloseSend(g) \/ Cancel(g)
    PROVE  SessionInv' /\ Forward(state, state')
<1> USE DEF session, senderVars, receiverVars, closerVars
<1>1. /\ sendMu = Nobody /\ sending.op = "none" /\ sendMu' = g /\ g # Nobody
      /\ UNCHANGED <<lastSendSeq, lastRecvSeq, sentFrames, receivedFrames, terminalFrame,
                     remoteDone, recvMu, receiving, closeMu, closing, up, down, peer>>
  BY BidiAssumption DEF CloseSend, Cancel, SendUnlocked, SessionInv, HolderInv
<1>2. PICK op \in {"closeSend", "cancel"} :
        /\ sending' = [op |-> op, seq |-> 0]
        /\ op = "closeSend" => /\ CanTransition(state, "localClose")
                               /\ state' = NextState(state, "localClose")
        /\ op = "cancel" => /\ CanTransition(state, "cancel")
                            /\ state' = NextState(state, "cancel")
  BY DEF CloseSend, Cancel
<1>3. state \in States
  BY DEF SessionInv, TypeOK
<1>4. /\ Forward(state, state') /\ state \in Active /\ state' \in Active \ MaySend
      /\ op = "closeSend" => state \in MaySend
      /\ op = "cancel" => state \in MayCancel /\ state' \notin MayCancel
  <2>1. CASE op = "closeSend"
    BY <2>1, <1>2, <1>3, Outcomes DEF Sendable, Active, MaySend
  <2>2. CASE op = "cancel"
    BY <2>2, <1>2, <1>3, Outcomes DEF Sendable, Active, MaySend, MayCancel
  <2> QED
    BY <2>1, <2>2
<1>5. /\ sending'.op = op
      /\ sending' \in [op : {"none", "send", "record", "closeSend", "cancel"}, seq : Nat]
  BY <1>2
<1>6. \A k : WentUp(k)' <=> WentUp(k)
  BY <1>1 DEF WentUp
<1>7. EndInv'
  BY <1>1, <1>4, <1>5, <1>6 DEF SessionInv, EndInv, Forward
<1>8. TypeOK'
  BY <1>1, <1>4, <1>5 DEF SessionInv, TypeOK, Forward
<1>9. HolderInv' /\ SequenceInv' /\ UpInOrder'
  BY <1>1, <1>5 DEF SessionInv, HolderInv, SequenceInv, UpInOrder
<1>10. state' \notin {"Terminal", "Cancelled"} /\ terminalFrame = "none"
  BY <1>4, ReceiptEnds DEF Active
<1>11. ReceiptDecides'
  BY <1>1, <1>10, ReceiptKept
<1> QED
  BY <1>4, <1>7, <1>8, <1>9, <1>11 DEF SessionInv

\* The transport takes the end or the cancel.
LEMMA EndTransportPreserves ==
    ASSUME SessionInv, NEW g \in Senders, CloseSendTransport(g) \/ CancelTransport(g)
    PROVE  SessionInv' /\ Forward(state, state')
<1> USE DEF session, senderVars, receiverVars, closerVars
<1>1. /\ ReleaseSend
      /\ UNCHANGED <<state, lastSendSeq, lastRecvSeq, sentFrames, receivedFrames,
                     terminalFrame, remoteDone, recvMu, receiving, closeMu, closing, down,
                     peer>>
  BY DEF CloseSendTransport, CancelTransport
<1>2. PICK kind \in {"eof", "cancel"} :
        /\ Transmit(kind, 0)
        /\ kind = "eof" => sending.op = "closeSend"
        /\ kind = "cancel" => sending.op = "cancel"
  BY DEF CloseSendTransport, CancelTransport
<1>3. ~WentUp("cancel") /\ (kind = "eof" => ~WentUp("eof"))
  BY <1>2 DEF SessionInv, EndInv
<1>4. UpInOrder' /\ \A k : WentUp(k)' <=> WentUp(k) \/ k = kind
  BY <1>2, <1>3, TransmitInOrder DEF SessionInv
<1>5. /\ up' \in Seq(UpFrame) /\ Len(up) \in Nat /\ up \in Seq(UpFrame)
      /\ DOMAIN up = 1 .. Len(up) /\ DOMAIN up' = 1 .. Len(up) + 1
      /\ \A i \in 1 .. Len(up) : up'[i] = up[i]
      /\ up'[Len(up) + 1].kind = kind
  BY <1>2, TransmitEffect DEF SessionInv
<1>6. SequenceInv'
  BY <1>1, <1>2, <1>5, ReleaseSendEffect DEF SessionInv, SequenceInv
<1>7. EndInv'
  BY <1>1, <1>2, <1>3, <1>4, ReleaseSendEffect DEF SessionInv, EndInv
<1>8. TypeOK'
  BY <1>1, <1>5, ReleaseSendEffect DEF SessionInv, TypeOK
<1>9. ReceiptDecides' /\ Forward(state, state')
  BY <1>1, ReceiptKept, Outcomes DEF SessionInv, TypeOK
<1> QED
  BY <1>1, <1>4, <1>6, <1>7, <1>8, <1>9, ReleaseSendEffect DEF SessionInv

\* The transport fails.
LEMMA UpFailsPreserves ==
    ASSUME SessionInv, NEW g \in Senders, UpFails(g)
    PROVE  SessionInv' /\ Forward(state, state')
<1> USE DEF session, senderVars, receiverVars, closerVars
<1>1. /\ ReleaseSend /\ state' = AfterFailure /\ sending.op # "record"
      /\ UNCHANGED <<lastSendSeq, lastRecvSeq, sentFrames, receivedFrames, terminalFrame,
                     remoteDone, recvMu, receiving, closeMu, closing, up, down, peer>>
  BY DEF UpFails
<1>2. ReceiptDecides' /\ Forward(state, state')
  BY <1>1, FailureKeepsReceipt
<1>3. \A k : WentUp(k)' <=> WentUp(k)
  BY <1>1 DEF WentUp
<1>4. SequenceInv' /\ EndInv' /\ UpInOrder'
  BY <1>1, <1>2, <1>3, ReleaseSendEffect
     DEF SessionInv, SequenceInv, EndInv, UpInOrder, Forward
<1>5. TypeOK'
  BY <1>1, <1>2, ReleaseSendEffect DEF SessionInv, TypeOK, Forward
<1> QED
  BY <1>1, <1>2, <1>4, <1>5, ReleaseSendEffect DEF SessionInv

-------------------------------------------------------------------------------
\* Receivers and closers

\* What ReleaseReceive leaves behind.
LEMMA ReleaseReceiveEffect ==
    ASSUME ReleaseReceive
    PROVE  /\ recvMu' \in Receivers \cup {Nobody}
           /\ receiving' \in [op : {"none", "transport", "apply"}, frame : Frame]
<1>1. NoFrame \in Frame
  BY DEF NoFrame, Frame, Kinds
<1> HIDE DEF Frame
<1> QED
  BY <1>1 DEF ReleaseReceive

\* A receiver takes recvMu, gets a frame, none in time, or an error.
LEMMA ReceivePreserves ==
    ASSUME SessionInv, NEW g \in Receivers,
           Receive(g) \/ ReceiveTimesOut(g) \/ ReceiveFails(g) \/ ReceiveTransport(g)
    PROVE  SessionInv' /\ Forward(state, state')
<1> USE DEF session, senderVars, receiverVars, closerVars
<1>1. UNCHANGED <<lastSendSeq, lastRecvSeq, sentFrames, receivedFrames, terminalFrame,
                  remoteDone, sendMu, sending, closeMu, closing, up, peer>>
  BY DEF Receive, ReceiveTimesOut, ReceiveFails, ReceiveTransport
<1>2. state' \in {state, AfterFailure}
  BY DEF Receive, ReceiveTimesOut, ReceiveFails, ReceiveTransport
<1>3. /\ recvMu' \in Receivers \cup {Nobody} /\ down' \in Seq(Frame)
      /\ receiving' \in [op : {"none", "transport", "apply"}, frame : Frame]
  <2>0. recvMu \in Receivers \cup {Nobody} /\ down \in Seq(Frame)
    BY DEF SessionInv, TypeOK
  <2>1. NoFrame \in Frame
    BY DEF NoFrame, Frame, Kinds
  <2> HIDE DEF Frame
  <2>2. CASE Receive(g)
    BY <2>0, <2>1, <2>2 DEF Receive
  <2>3. CASE ReceiveTimesOut(g) \/ ReceiveFails(g)
    BY <2>0, <2>3, ReleaseReceiveEffect DEF ReceiveTimesOut, ReceiveFails
  <2>4. CASE ReceiveTransport(g)
    <3>1. Head(down) \in Frame /\ Tail(down) \in Seq(Frame)
      BY <2>0, <2>4 DEF ReceiveTransport
    <3> QED
      BY <2>0, <2>4, <3>1 DEF ReceiveTransport
  <2> QED
    BY <2>2, <2>3, <2>4
<1>4. ReceiptDecides' /\ Forward(state, state')
  BY <1>1, <1>2, FailureKeepsReceipt, ReceiptKept, Outcomes DEF SessionInv, TypeOK
<1>5. HolderInv' /\ SequenceInv' /\ EndInv' /\ UpInOrder'
  BY <1>1, <1>4, UpDirectionKept
<1>6. TypeOK'
  BY <1>1, <1>3, <1>4 DEF SessionInv, TypeOK, Forward
<1> QED
  BY <1>4, <1>5, <1>6 DEF SessionInv

\* A frame is applied: the end of the transport, a late one, one out of order, or one
\* that is accepted.
LEMMA ReceiveApplyPreserves ==
    ASSUME SessionInv, NEW g \in Receivers, ReceiveApply(g)
    PROVE  SessionInv' /\ Forward(state, state')
<1> USE DEF session, senderVars, receiverVars, closerVars
<1> DEFINE kind == receiving.frame.kind
<1>1. /\ ReleaseReceive
      /\ UNCHANGED <<lastSendSeq, sentFrames, sendMu, sending, closeMu, closing, up, down, peer>>
  BY DEF ReceiveApply
<1>2. /\ kind \in Kinds /\ receiving.frame.seq \in Nat /\ state \in States
      /\ terminalFrame \in Receipts \cup {"none"} /\ remoteDone \in BOOLEAN
      /\ lastRecvSeq \in Nat /\ receivedFrames \in Seq(Nat)
      /\ Len(receivedFrames) <= MaxBuffered
  <2>1. receiving.frame \in Frame
    BY DEF SessionInv, TypeOK
  <2> QED
    BY <2>1 DEF SessionInv, TypeOK, Frame
<1>3. /\ Forward(state, state') /\ ReceiptDecides' /\ remoteDone' \in BOOLEAN
      /\ terminalFrame' \in Receipts \cup {"none"}
      /\ lastRecvSeq' \in Nat /\ receivedFrames' \in Seq(Nat)
      /\ Len(receivedFrames') <= MaxBuffered
  <2>1. CASE ApplyDone
    <3>1. UNCHANGED <<lastRecvSeq, receivedFrames, terminalFrame>>
      BY <2>1 DEF ApplyDone
    <3>2. remoteDone' \in BOOLEAN
      BY <2>1, <1>2, Zenon DEF ApplyDone
    <3>3. state' = state \/ (state' = "Failed" /\ terminalFrame = "none")
      BY <2>1 DEF ApplyDone
    <3> QED
      BY <3>1, <3>2, <3>3, <1>2, Outcomes, ReceiptKept
  <2>2. CASE ApplyLate \/ ApplyUnordered
    <3>1. UNCHANGED <<lastRecvSeq, receivedFrames, terminalFrame, remoteDone>>
      BY <2>2 DEF ApplyLate, ApplyUnordered
    <3>2. state' = state \/ (state' = "Failed" /\ terminalFrame = "none")
      BY <2>2 DEF ApplyLate, ApplyUnordered
    <3> QED
      BY <3>1, <3>2, <1>2, Outcomes, ReceiptKept
  <2>3. CASE ApplyFrame
    <3>1. /\ terminalFrame = "none" /\ state' = Applied(kind)
          /\ lastRecvSeq' = receiving.frame.seq /\ UNCHANGED remoteDone
          /\ receivedFrames' = Kept(receivedFrames, receiving.frame.seq)
          /\ terminalFrame' = IF kind \in Receipts /\ state \in Active
                              THEN kind ELSE terminalFrame
      BY <2>3 DEF ApplyFrame
    <3>2. Forward(state, state')
      BY <3>1, <1>2, Outcomes
    <3>3. receivedFrames' \in Seq(Nat) /\ Len(receivedFrames') <= MaxBuffered
      BY <3>1, <1>2, KeptEffect
    <3>4. ReceiptDecides'
      <4>1. CASE kind \in Receipts /\ state \in Active
        <5>1. /\ terminalFrame' = kind /\ kind # "none"
              /\ state' = NextState("Open", kind)
          BY <4>1, <3>1, <1>2, Endings DEF Receipts
        <5> QED
          BY <5>1 DEF ReceiptDecides
      <4>2. CASE ~(kind \in Receipts /\ state \in Active)
        <5>1. state \notin {"Terminal", "Cancelled"}
          BY <3>1 DEF SessionInv, ReceiptDecides
        <5>2. state' \notin {"Terminal", "Cancelled"} /\ UNCHANGED terminalFrame
          BY <5>1, <4>2, <3>1, <1>2, Endings
        <5> QED
          BY <5>2, <3>1, ReceiptKept
      <4> QED
        BY <4>1, <4>2
    <3> QED
      BY <3>1, <3>2, <3>3, <3>4, <1>2
  <2> QED
    BY <2>1, <2>2, <2>3 DEF ReceiveApply
<1>4. HolderInv' /\ SequenceInv' /\ EndInv' /\ UpInOrder'
  BY <1>1, <1>3, UpDirectionKept
<1>5. TypeOK'
  BY <1>1, <1>3, ReleaseReceiveEffect DEF SessionInv, TypeOK, Forward
<1> QED
  BY <1>3, <1>4, <1>5 DEF SessionInv

\* Close of a session that ended.
LEMMA ClosePreserves ==
    ASSUME SessionInv, NEW g \in Closers, Close(g) \/ CloserStep(g)
    PROVE  SessionInv' /\ Forward(state, state')
<1> USE DEF session, senderVars, receiverVars, closerVars
<1>1. UNCHANGED <<lastSendSeq, lastRecvSeq, sentFrames, receivedFrames, terminalFrame,
                  remoteDone, sendMu, sending, recvMu, receiving, up, down, peer>>
  BY DEF Close, CloserStep, CloseTransport, CloseFails, CloseTransition
<1>2. closeMu' \in Closers \cup {Nobody} /\ closing' \in {"none", "transport", "transition"}
  BY DEF Close, CloserStep, CloseTransport, CloseFails, CloseTransition, SessionInv, TypeOK
<1>3. \/ state' \in {state, AfterFailure}
      \/ state' = "Closed" /\ CanTransition(state, "close")
  BY DEF Close, CloserStep, CloseTransport, CloseFails, CloseTransition
<1>4. ReceiptDecides' /\ Forward(state, state')
  BY <1>1, <1>3, FailureKeepsReceipt, ReceiptKept, Outcomes DEF SessionInv, TypeOK
<1>5. HolderInv' /\ SequenceInv' /\ EndInv' /\ UpInOrder'
  BY <1>1, <1>4, UpDirectionKept
<1>6. TypeOK'
  BY <1>1, <1>2, <1>4 DEF SessionInv, TypeOK, Forward
<1> QED
  BY <1>4, <1>5, <1>6 DEF SessionInv

\* A frame of the peer.
LEMMA PeerPreserves ==
    ASSUME SessionInv, NEW kind \in Kinds, NEW seq \in Nat,
           NEW phase \in {"open", "eof", "ended", "done"}, PeerFrame(kind, seq, phase)
    PROVE  SessionInv' /\ Forward(state, state')
<1> USE DEF session, senderVars, receiverVars, closerVars
<1>1. /\ UNCHANGED <<state, lastSendSeq, lastRecvSeq, sentFrames, receivedFrames,
                     terminalFrame, remoteDone, sendMu, sending, recvMu, receiving,
                     closeMu, closing, up>>
      /\ down' = Append(down, [kind |-> kind, seq |-> seq])
      /\ peer' = [phase |-> phase, sent |-> peer.sent + 1]
  BY DEF PeerFrame
<1>2. peer.sent + 1 \in Nat /\ down \in Seq(Frame)
  BY DEF SessionInv, TypeOK
<1>3. PICK f \in Frame : f = [kind |-> kind, seq |-> seq]
  BY DEF Frame
<1>4. down' \in Seq(Frame)
  <2> HIDE DEF Frame
  <2> QED
    BY <1>1, <1>2, <1>3
<1>5. peer' \in [phase : {"open", "eof", "ended", "done"}, sent : Nat]
  BY <1>1, <1>2
<1>6. ReceiptDecides' /\ Forward(state, state')
  BY <1>1, ReceiptKept, Outcomes DEF SessionInv, TypeOK
<1>7. HolderInv' /\ SequenceInv' /\ EndInv' /\ UpInOrder'
  BY <1>1, <1>6, UpDirectionKept
<1>8. TypeOK'
  BY <1>1, <1>4, <1>5 DEF SessionInv, TypeOK
<1> QED
  BY <1>6, <1>7, <1>8 DEF SessionInv

-------------------------------------------------------------------------------
\* A new session satisfies the invariant.
LEMMA InitEstablishes ==
    ASSUME Init
    PROVE  SessionInv
<1>1. up = <<>> /\ UpInOrder /\ \A k : ~WentUp(k)
  BY DEF Init, UpInOrder, WentUp
<1>2. sending = [op |-> "none", seq |-> 0] /\ sendMu = Nobody
  BY DEF Init
<1>3. HolderInv /\ SequenceInv /\ EndInv
  BY <1>1, <1>2 DEF HolderInv, SequenceInv, EndInv
<1>4. ReceiptDecides
  BY DEF Init, ReceiptDecides
<1>5. TypeOK
  <2>1. NoFrame \in Frame
    BY DEF NoFrame, Frame, Kinds
  <2>2. receiving \in [op : {"none", "transport", "apply"}, frame : Frame]
    BY <2>1 DEF Init
  <2>3. /\ sending \in [op : {"none", "send", "record", "closeSend", "cancel"}, seq : Nat]
        /\ peer \in [phase : {"open", "eof", "ended", "done"}, sent : Nat]
    BY DEF Init
  <2>4. remoteDone \in BOOLEAN
    BY Zenon DEF Init
  <2>5. /\ state \in States /\ sentFrames \in Seq(Nat) /\ Len(sentFrames) <= MaxBuffered
        /\ receivedFrames \in Seq(Nat) /\ Len(receivedFrames) <= MaxBuffered
    BY BidiAssumption DEF Init, States
  <2> QED
    BY <2>2, <2>3, <2>4, <2>5 DEF Init, TypeOK
<1> QED
  BY <1>1, <1>3, <1>4, <1>5 DEF SessionInv

\* Every step of the session and of its peer keeps the invariant and takes the state
\* forward.
LEMMA NextPreserves ==
    ASSUME SessionInv, Next
    PROVE  SessionInv' /\ Forward(state, state')
<1>1. ASSUME NEW g \in Senders, \E seq \in 0 .. MaxSeq : Send(g, seq)
      PROVE  SessionInv' /\ Forward(state, state')
  BY <1>1, SendPreserves
<1>2. ASSUME NEW g \in Senders, CloseSend(g) \/ Cancel(g) \/ SenderStep(g)
      PROVE  SessionInv' /\ Forward(state, state')
  BY <1>2, EndBeginsPreserves, SendTransportPreserves, SendRecordPreserves,
     EndTransportPreserves, UpFailsPreserves DEF SenderStep
<1>3. ASSUME NEW g \in Receivers,
             Receive(g) \/ ReceiveTimesOut(g) \/ ReceiveFails(g) \/ ReceiverStep(g)
      PROVE  SessionInv' /\ Forward(state, state')
  BY <1>3, ReceivePreserves, ReceiveApplyPreserves DEF ReceiverStep
<1>4. ASSUME NEW g \in Closers, Close(g) \/ CloserStep(g)
      PROVE  SessionInv' /\ Forward(state, state')
  BY <1>4, ClosePreserves
<1>5. ASSUME \/ \E seq \in 0 .. MaxSeq : PeerData(seq)
             \/ PeerEof \/ PeerDone \/ \E kind \in Receipts : PeerReceipt(kind)
      PROVE  SessionInv' /\ Forward(state, state')
  <2>1. peer.sent + 1 \in Nat /\ 0 .. MaxSeq \subseteq Nat
    BY BidiAssumption DEF SessionInv, TypeOK
  <2>2. Receipts \subseteq Kinds /\ {"data", "eof", "done"} \subseteq Kinds
    BY DEF Kinds
  <2>3. CASE \E seq \in 0 .. MaxSeq : PeerData(seq)
    BY <2>1, <2>2, <2>3, PeerPreserves DEF PeerData
  <2>4. CASE PeerEof
    BY <2>1, <2>2, <2>4, PeerPreserves DEF PeerEof
  <2>5. CASE PeerDone
    BY <2>2, <2>5, PeerPreserves DEF PeerDone
  <2>6. CASE \E kind \in Receipts : PeerReceipt(kind)
    BY <2>1, <2>2, <2>6, PeerPreserves DEF PeerReceipt
  <2> QED
    BY <1>5, <2>3, <2>4, <2>5, <2>6
<1> QED
  BY <1>1, <1>2, <1>3, <1>4, <1>5 DEF Next

\* A step that changes nothing.
LEMMA StutterPreserves ==
    ASSUME SessionInv, UNCHANGED vars
    PROVE  SessionInv'
<1> USE DEF vars, session, senderVars, receiverVars, closerVars
<1>1. HolderInv' /\ SequenceInv' /\ EndInv' /\ UpInOrder'
  BY UpDirectionKept, Outcomes DEF SessionInv, TypeOK
<1>2. TypeOK' /\ ReceiptDecides'
  BY DEF SessionInv, TypeOK, ReceiptDecides
<1> QED
  BY <1>1, <1>2 DEF SessionInv

\* The invariant of a session with any senders, receivers and closers.
THEOREM SessionInvariant == Spec => []SessionInv
<1>1. Init => SessionInv
  BY InitEstablishes
<1>2. SessionInv /\ [Next]_vars => SessionInv'
  BY NextPreserves, StutterPreserves
<1> QED
  BY <1>1, <1>2, PTL DEF Spec

\* Every variable of the session keeps its type; its windows of frames stay within
\* maxBuffered.
THEOREM SessionTypeCorrect == Spec => []TypeOK
<1>1. SessionInv => TypeOK
  BY DEF SessionInv
<1> QED
  BY <1>1, SessionInvariant, PTL

\* However Send, CloseSend and Cancel interleave and whichever transport calls fail,
\* the transport sees growing sequence numbers, one end at most, and nothing behind a
\* cancel: sendMu is held over the call and the state is changed before it.
THEOREM UpStaysInOrder == Spec => []UpInOrder
<1>1. SessionInv => UpInOrder
  BY DEF SessionInv
<1> QED
  BY <1>1, SessionInvariant, PTL

\* The first terminal receipt decides how a session ended, whatever fails or is closed
\* around it.
THEOREM ReceiptsDecide == Spec => []ReceiptDecides
<1>1. SessionInv => ReceiptDecides
  BY DEF SessionInv
<1> QED
  BY <1>1, SessionInvariant, PTL

\* No step reopens a session that ended: nextBidiState, fail and applyFrameLocked only
\* go forward.
THEOREM EndedSessionsStayEnded == Spec => EndedIsFinal
<1>1. SessionInv /\ [Next]_vars => [state \notin Active => state' \notin Active]_vars
  <2> SUFFICES ASSUME SessionInv, Next
               PROVE  state \notin Active => state' \notin Active
    OBVIOUS
  <2> QED
    BY NextPreserves DEF Forward
<1> QED
  BY <1>1, SessionInvariant, PTL DEF Spec, EndedIsFinal
===============================================================================
