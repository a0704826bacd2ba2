------------------------------ MODULE BidiSession ------------------------------
(***************************************************************************)
(* BidiSession (axon/bidi_session.go): senders, receivers and closers of   *)
(* one session share its state; each direction has a lock of its own and   *)
(* the state mutex is released while the transport is called.              *)
(*                                                                         *)
(* The transport is a BidiTransport with cancellation: a call to it is one *)
(* step, which may fail.  What its peer sends is a queue of frames; a      *)
(* frame is its kind and its sequence number, a receipt that is not        *)
(* terminal counts as data.                                                *)
(***************************************************************************)
EXTENDS Integers, Sequences

CONSTANTS
    Senders,      \* goroutines that call Send, CloseSend and Cancel
    Receivers,    \* goroutines that call Receive
    Closers,      \* goroutines that call Close
    Nobody,       \* no goroutine
    MaxBuffered,  \* maxBuffered
    MaxSeq,       \* bound: sequence numbers of sent frames
    MaxDown       \* bound: frames of the peer

ASSUME BidiAssumption ==
    /\ MaxBuffered \in Nat \ {0}
    /\ MaxSeq \in Nat
    /\ MaxDown \in Nat
    /\ Nobody \notin Senders \cup Receivers \cup Closers

VARIABLES
    state,
    lastSendSeq, lastRecvSeq,
    sentFrames, receivedFrames,
    terminalFrame,            \* kind of the terminal receipt, or "none"
    remoteDone,
    sendMu, recvMu, closeMu,  \* the goroutine that holds the lock
    sending,                  \* what the holder of sendMu is doing
    receiving,                \* what the holder of recvMu is doing
    closing,                  \* what the holder of closeMu is doing
    up,                       \* what the transport accepted, in order
    down,                     \* frames of the peer that were not received
    peer                      \* [phase, sent] of the peer

session == <<state, lastSendSeq, lastRecvSeq, sentFrames, receivedFrames,
             terminalFrame, remoteDone>>
senderVars == <<sendMu, sending>>
receiverVars == <<recvMu, receiving>>
closerVars == <<closeMu, closing>>
vars == <<session, senderVars, receiverVars, closerVars, up, down, peer>>

States == {"Opening", "Open", "CancelRequested", "HalfClosedLocal",
           "HalfClosedRemote", "Draining", "Terminal", "Closed", "Cancelled",
           "Failed"}
Receipts == {"completed", "cancelled", "failed"}
Kinds == Receipts \cup {"data", "eof", "done"}
Frame == [kind : Kinds, seq : Nat]
NoFrame == [kind |-> "data", seq |-> 0]
UpFrame == [kind : {"data", "eof", "cancel"}, seq : Nat]

TypeOK ==
    /\ state \in States
    /\ lastSendSeq \in Nat /\ lastRecvSeq \in Nat
    /\ sentFrames \in Seq(Nat) /\ Len(sentFrames) <= MaxBuffered
    /\ receivedFrames \in Seq(Nat) /\ Len(receivedFrames) <= MaxBuffered
    /\ terminalFrame \in Receipts \cup {"none"}
    /\ remoteDone \in BOOLEAN
    /\ sendMu \in Senders \cup {Nobody}
    /\ recvMu \in Receivers \cup {Nobody}
    /\ closeMu \in Closers \cup {Nobody}
    /\ sending \in [op : {"none", "send", "record", "closeSend", "cancel"},
                    seq : Nat]
    /\ receiving \in [op : {"none", "transport", "apply"}, frame : Frame]
    /\ closing \in {"none", "transport", "transition"}
    /\ up \in Seq(UpFrame)
    /\ down \in Seq(Frame)
    /\ peer \in [phase : {"open", "eof", "ended", "done"}, sent : Nat]

Init ==
    /\ state \in {"Opening", "Open"}
    /\ lastSendSeq = 0 /\ lastRecvSeq = 0
    /\ sentFrames = <<>> /\ receivedFrames = <<>>
    /\ terminalFrame = "none"
    /\ remoteDone = FALSE
    /\ sendMu = Nobody /\ sending = [op |-> "none", seq |-> 0]
    /\ recvMu = Nobody /\ receiving = [op |-> "none", frame |-> NoFrame]
    /\ closeMu = Nobody /\ closing = "none"
    /\ up = <<>> /\ down = <<>>
    /\ peer = [phase |-> "open", sent |-> 0]

-------------------------------------------------------------------------------
\* The state machine

Active == {"Opening", "Open", "CancelRequested", "HalfClosedLocal",
           "HalfClosedRemote", "Draining"}
Ended == {"Terminal", "Cancelled", "Failed"}
Sendable == {"Open", "HalfClosedRemote"}

\* nextBidiState: the events a state accepts ...
CanTransition(s, event) ==
    CASE event = "localClose"  -> s \in {"Open", "HalfClosedRemote"}
      [] event = "remoteClose" -> s \in {"Opening", "Open", "HalfClosedLocal"}
      [] event = "cancel"      -> s \in Active \ {"CancelRequested"}
      [] event = "close"       -> s \in Ended \cup {"Closed"}
      [] OTHER                 -> s \in Active

\* Fault: the end of the remote direction forgets that the local one has ended.
NextStateForgetful(s, event) ==
    CASE event = "localClose"  -> IF s = "Open" THEN "HalfClosedLocal" ELSE "Draining"
      [] event = "remoteClose" -> "HalfClosedRemote"
      [] event = "cancel"      -> "CancelRequested"
      [] event = "completed"   -> "Terminal"
      [] event = "cancelled"   -> "Cancelled"
      [] event = "close"       -> "Closed"
      [] OTHER                 -> "Failed"

\* ... and the state they lead to.
NextState(s, event) ==
    CASE event = "localClose"  -> IF s = "Open" THEN "HalfClosedLocal" ELSE "Draining"
      [] event = "remoteClose" -> IF s = "HalfClosedLocal" THEN "Draining"
                                                           ELSE "HalfClosedRemote"
      [] event = "cancel"      -> "CancelRequested"
      [] event = "completed"   -> "Terminal"
      [] event = "cancelled"   -> "Cancelled"
      [] event = "close"       -> "Closed"
      [] OTHER                 -> "Failed"

\* Fault: a failing call overwrites any state.
AfterFailureAlways == "Failed"

\* fail: an error of the transport ends a session that has not ended.
AfterFailure == IF state \in Active THEN "Failed" ELSE state

\* appendBoundedBidiFrame: the newest frames are kept.
Kept(frames, seq) ==
    IF Len(frames) = MaxBuffered THEN Append(Tail(frames), seq) ELSE Append(frames, seq)

\* validateOrderedBidiFrame.
Ordered(seq, last) == seq # 0 /\ seq > last

-------------------------------------------------------------------------------
\* Senders: one at a time

Transmit(kind, seq) == up' = Append(up, [kind |-> kind, seq |-> seq])

ReleaseSend ==
    /\ sendMu' = Nobody
    /\ sending' = [op |-> "none", seq |-> 0]

\* sendMu can be taken.
SendUnlocked == sendMu = Nobody

\* Send, up to the transport: a frame out of order fails the session.
Send(g, seq) ==
    /\ SendUnlocked
    /\ state \in Sendable
    /\ IF Ordered(seq, lastSendSeq)
       THEN /\ sendMu' = g
            /\ sending' = [op |-> "send", seq |-> seq]
            /\ UNCHANGED session
       ELSE /\ state' = "Failed"
            /\ UNCHANGED <<lastSendSeq, lastRecvSeq, sentFrames, receivedFrames,
                           terminalFrame, remoteDone, senderVars>>
    /\ UNCHANGED <<receiverVars, closerVars, up, down, peer>>

SendTransport(g) ==
    /\ sendMu = g /\ sending.op = "send"
    /\ Transmit("data", sending.seq)
    /\ sending' = [sending EXCEPT !.op = "record"]
    /\ UNCHANGED <<session, sendMu, receiverVars, closerVars, down, peer>>

\* Send, after the transport.
SendRecord(g) ==
    /\ sendMu = g /\ sending.op = "record"
    /\ lastSendSeq' = sending.seq
    /\ sentFrames' = Kept(sentFrames, sending.seq)
    /\ ReleaseSend
    /\ UNCHANGED <<state, lastRecvSeq, receivedFrames, terminalFrame, remoteDone,
                   receiverVars, closerVars, up, down, peer>>

\* CloseSend changes the state, then tells the transport.
CloseSend(g) ==
    /\ SendUnlocked
    /\ CanTransition(state, "localClose")
    /\ state' = NextState(state, "localClose")
    /\ sendMu' = g
    /\ sending' = [op |-> "closeSend", seq |-> 0]
    /\ UNCHANGED <<lastSendSeq, lastRecvSeq, sentFrames, receivedFrames,
                   terminalFrame, remoteDone, receiverVars, closerVars, up, down,
                   peer>>

CloseSendTransport(g) ==
    /\ sendMu = g /\ sending.op = "closeSend"
    /\ Transmit("eof", 0)
    /\ ReleaseSend
    /\ UNCHANGED <<session, receiverVars, closerVars, down, peer>>

\* Cancel: a request; the receipt of the peer ends the session.
Cancel(g) ==
    /\ SendUnlocked
    /\ CanTransition(state, "cancel")
    /\ state' = NextState(state, "cancel")
    /\ sendMu' = g
    /\ sending' = [op |-> "cancel", seq |-> 0]
    /\ UNCHANGED <<lastSendSeq, lastRecvSeq, sentFrames, receivedFrames,
                   terminalFrame, remoteDone, receiverVars, closerVars, up, down,
                   peer>>

CancelTransport(g) ==
    /\ sendMu = g /\ sending.op = "cancel"
    /\ Transmit("cancel", 0)
    /\ ReleaseSend
    /\ UNCHANGED <<session, receiverVars, closerVars, down, peer>>

\* The transport fails a send, a close-send or a cancel.
UpFails(g) ==
    /\ sendMu = g /\ sending.op \in {"send", "closeSend", "cancel"}
    /\ state' = AfterFailure
    /\ ReleaseSend
    /\ UNCHANGED <<lastSendSeq, lastRecvSeq, sentFrames, receivedFrames,
                   terminalFrame, remoteDone, receiverVars, closerVars, up, down,
                   peer>>

-------------------------------------------------------------------------------
\* Receivers: one at a time

ReleaseReceive ==
    /\ recvMu' = Nobody
    /\ receiving' = [op |-> "none", frame |-> NoFrame]

\* Fault: a session that is being cancelled is no longer received from.
ReceiveClosedEarly ==
    state \in {"Closed", "CancelRequested"} \/ remoteDone
        \/ (state = "Failed" /\ terminalFrame = "none")

\* Receive's early return.
ReceiveClosed ==
    state = "Closed" \/ remoteDone \/ (state = "Failed" /\ terminalFrame = "none")

Receive(g) ==
    /\ recvMu = Nobody
    /\ ~ReceiveClosed
    /\ recvMu' = g
    /\ receiving' = [op |-> "transport", frame |-> NoFrame]
    /\ UNCHANGED <<session, senderVars, closerVars, up, down, peer>>

ReceiveTransport(g) ==
    /\ recvMu = g /\ receiving.op = "transport" /\ down # <<>>
    /\ receiving' = [op |-> "apply", frame |-> Head(down)]
    /\ down' = Tail(down)
    /\ UNCHANGED <<session, recvMu, senderVars, closerVars, up, peer>>

\* A timeout frame: nothing changes.
ReceiveTimesOut(g) ==
    /\ recvMu = g /\ receiving.op = "transport"
    /\ ReleaseReceive
    /\ UNCHANGED <<session, senderVars, closerVars, up, down, peer>>

ReceiveFails(g) ==
    /\ recvMu = g /\ receiving.op = "transport"
    /\ state' = AfterFailure
    /\ ReleaseReceive
    /\ UNCHANGED <<lastSendSeq, lastRecvSeq, sentFrames, receivedFrames,
                   terminalFrame, remoteDone, senderVars, closerVars, up, down,
                   peer>>

\* applyFrameLocked: the state after an accepted frame; a frame the state does not
\* expect fails the session.
Applied(kind) ==
    CASE kind = "data" -> IF state = "Opening" THEN "Open" ELSE state
      [] kind = "eof"  -> IF CanTransition(state, "remoteClose")
                          THEN NextState(state, "remoteClose") ELSE "Failed"
      [] OTHER         -> IF CanTransition(state, kind)
                          THEN NextState(state, kind) ELSE "Failed"

\* The end of the transport.
ApplyDone ==
    /\ receiving.frame.kind = "done"
    /\ IF terminalFrame = "none"
       THEN state' = "Failed" /\ UNCHANGED remoteDone
       ELSE remoteDone' = TRUE /\ UNCHANGED state
    /\ UNCHANGED <<lastRecvSeq, receivedFrames, terminalFrame>>

\* A frame behind the terminal receipt is refused.
ApplyLate ==
    /\ receiving.frame.kind # "done" /\ terminalFrame # "none"
    /\ UNCHANGED <<state, remoteDone, lastRecvSeq, receivedFrames, terminalFrame>>

ApplyUnordered ==
    /\ receiving.frame.kind # "done" /\ terminalFrame = "none"
    /\ ~Ordered(receiving.frame.seq, lastRecvSeq)
    /\ state' = "Failed"
    /\ UNCHANGED <<remoteDone, lastRecvSeq, receivedFrames, terminalFrame>>

ApplyFrame ==
    /\ receiving.frame.kind # "done" /\ terminalFrame = "none"
    /\ Ordered(receiving.frame.seq, lastRecvSeq)
    /\ lastRecvSeq' = receiving.frame.seq
    /\ receivedFrames' = Kept(receivedFrames, receiving.frame.seq)
    /\ state' = Applied(receiving.frame.kind)
    /\ terminalFrame' = IF receiving.frame.kind \in Receipts /\ state \in Active
                        THEN receiving.frame.kind ELSE terminalFrame
    /\ UNCHANGED remoteDone

\* Receive, after the transport.
ReceiveApply(g) ==
    /\ recvMu = g /\ receiving.op = "apply"
    /\ ApplyDone \/ ApplyLate \/ ApplyUnordered \/ ApplyFrame
    /\ ReleaseReceive
    /\ UNCHANGED <<lastSendSeq, sentFrames, senderVars, closerVars, up, down, peer>>

-------------------------------------------------------------------------------
\* Closers: one at a time

Close(g) ==
    /\ closeMu = Nobody
    /\ state \in Ended
    /\ closeMu' = g /\ closing' = "transport"
    /\ UNCHANGED <<session, senderVars, receiverVars, up, down, peer>>

CloseTransport(g) ==
    /\ closeMu = g /\ closing = "transport"
    /\ closing' = "transition"
    /\ UNCHANGED <<session, closeMu, senderVars, receiverVars, up, down, peer>>

CloseFails(g) ==
    /\ closeMu = g /\ closing = "transport"
    /\ state' = AfterFailure
    /\ closeMu' = Nobody /\ closing' = "none"
    /\ UNCHANGED <<lastSendSeq, lastRecvSeq, sentFrames, receivedFrames,
                   terminalFrame, remoteDone, senderVars, receiverVars, up, down,
                   peer>>

CloseTransition(g) ==
    /\ closeMu = g /\ closing = "transition"
    /\ state' = IF CanTransition(state, "close") THEN "Closed" ELSE state
    /\ closeMu' = Nobody /\ closing' = "none"
    /\ UNCHANGED <<lastSendSeq, lastRecvSeq, sentFrames, receivedFrames,
                   terminalFrame, remoteDone, senderVars, receiverVars, up, down,
                   peer>>

-------------------------------------------------------------------------------
\* The peer, behind the transport

PeerFrame(kind, seq, phase) ==
    /\ peer.sent < MaxDown
    /\ down' = Append(down, [kind |-> kind, seq |-> seq])
    /\ peer' = [phase |-> phase, sent |-> peer.sent + 1]
    /\ UNCHANGED <<session, senderVars, receiverVars, closerVars, up>>

\* Data, possibly repeated or out of order.
PeerData(seq) == peer.phase = "open" /\ PeerFrame("data", seq, "open")

PeerEof == peer.phase = "open" /\ PeerFrame("eof", peer.sent + 1, "eof")

PeerReceipt(kind) ==
    peer.phase \in {"open", "eof"} /\ PeerFrame(kind, peer.sent + 1, "ended")

\* The end of the transport, with or without a terminal receipt.
PeerDone == peer.phase # "done" /\ PeerFrame("done", 0, "done")

-------------------------------------------------------------------------------
SenderStep(g) ==
    SendTransport(g) \/ SendRecord(g) \/ CloseSendTransport(g)
        \/ CancelTransport(g) \/ UpFails(g)

ReceiverStep(g) == ReceiveTransport(g) \/ ReceiveApply(g)

CloserStep(g) == CloseTransport(g) \/ CloseFails(g) \/ CloseTransition(g)

Next ==
    \/ \E g \in Senders :
          \/ \E seq \in 0..MaxSeq : Send(g, seq)
          \/ CloseSend(g) \/ Cancel(g) \/ SenderStep(g)
    \/ \E g \in Receivers : Receive(g) \/ ReceiveTimesOut(g) \/ ReceiveFails(g)
                              \/ ReceiverStep(g)
    \/ \E g \in Closers : Close(g) \/ CloserStep(g)
    \/ \E seq \in 0..MaxSeq : PeerData(seq)
    \/ PeerEof \/ PeerDone \/ \E kind \in Receipts : PeerReceipt(kind)

Spec == Init /\ [][Next]_vars

\* Calls under way return, and somebody keeps receiving what the peer sends.
Fairness ==
    /\ \A g \in Senders : WF_vars(SenderStep(g))
    /\ \A g \in Closers : WF_vars(CloserStep(g))
    /\ \A g \in Receivers : WF_vars(ReceiverStep(g)) /\ SF_vars(ReceiveTransport(g))
    /\ WF_vars(\E g \in Receivers : Receive(g))

FairSpec == Spec /\ Fairness

-------------------------------------------------------------------------------
\* Properties

\* Concurrent calls of Send, CloseSend and Cancel: data goes up in strictly growing
\* order, nothing follows a cancel, and only a cancel follows the end of the local
\* direction.
UpInOrder ==
    \A i, j \in DOMAIN up : i < j =>
        /\ up[j].kind = "data" => up[i].kind = "data" /\ up[i].seq < up[j].seq
        /\ up[j].kind = "eof"  => up[i].kind = "data"
        /\ up[i].kind # "cancel"

\* "Terminal completion remains receipt-driven" (bidi_session.go:357): the first
\* terminal receipt decides how the session ended, whatever calls, late frames or
\* transport errors come in meanwhile, and nothing but a receipt completes it.
ReceiptDecides ==
    /\ terminalFrame # "none" =>
          state \in {"Closed", NextState("Open", terminalFrame)}
    /\ state \in {"Terminal", "Cancelled"} => terminalFrame # "none"

\* The terminal receipt of the peer, or the end of its transport, ends the session
\* for its callers, also while it is being cancelled.
PeerEndsSession == peer.phase \in {"ended", "done"} ~> state \notin Active
===============================================================================
