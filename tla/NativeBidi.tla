------------------------------ MODULE NativeBidi ------------------------------
(***************************************************************************)
(* BidiStream (axon/dendrite_bridge_signed_invoke_bidi_cgo.go), a handle   *)
(* on a bidirectional invocation of the native library, and the lock of    *)
(* the DendriteBridge (axon/dendrite_bridge_cgo.go) every native call runs *)
(* under.  Goroutines send, half-close and dispose under upMu, receive     *)
(* under recvMu, and read eofSent and released without a lock; another     *)
(* unloads the library.                                                    *)
(*                                                                         *)
(* The native library is external: it takes what is sent in order, hands   *)
(* out what the peer sent in order, waits for a frame until a timeout, and *)
(* releases the stream with its terminal receipt or with StreamClose,      *)
(* which also ends a wait; it may refuse any call.  To unload it releases  *)
(* no stream.  The lock is Go's RWMutex: a writer that waits keeps new     *)
(* readers out.                                                            *)
(***************************************************************************)
EXTENDS Integers, Sequences, FiniteSets

CONSTANTS
    Uppers,     \* goroutines that send, half-close and dispose
    Receivers,  \* goroutines that receive
    Nobody,     \* no goroutine
    MaxUp,      \* bound: operations of an upper
    MaxDown     \* bound: frames of the peer

ASSUME NativeBidiAssumption ==
    /\ Uppers \cap Receivers = {} /\ Nobody \notin Uppers \cup Receivers
    /\ MaxUp \in Nat /\ MaxDown \in Nat

VARIABLES
    eofSent, released,  \* of the BidiStream
    upMu, recvMu,       \* the goroutine that holds the lock
    uppers,             \* [Uppers -> [op, pc, count]]
    receivers,          \* [Receivers -> [pc, frame]]
    bridge,             \* [lib, readers, writer]: the DendriteBridge and its lock
    native,             \* "open" or "freed"
    up,                 \* what the native stream took
    down,               \* frames of the peer that were not received
    sent,               \* number of frames of the peer
    disposeFailed       \* history: a Dispose answered the error of its StreamClose

goVars == <<eofSent, released, upMu, recvMu>>
nativeVars == <<native, up, down, sent>>
vars == <<goVars, uppers, receivers, bridge, nativeVars, disposeFailed>>

Frames == {"binary", "admission", "terminal", "malformed"}

\* What a goroutine is doing, and the DendriteBridge.
Upper == [op : {"binary", "eof", "close", "dispose"},
          pc : {"idle", "locking", "entering", "calling"}, count : 0 .. MaxUp]
Receiver == [pc : {"idle", "entering", "calling", "settling"},
             frame : Frames \cup {"error", "timeout"}]
Bridge == [lib : BOOLEAN, readers : SUBSET (Uppers \cup Receivers),
           writer : {"none", "waiting", "done"}]

TypeOK ==
    /\ eofSent \in BOOLEAN /\ released \in BOOLEAN
    /\ upMu \in Uppers \cup {Nobody} /\ recvMu \in Receivers \cup {Nobody}
    /\ uppers \in [Uppers -> Upper] /\ receivers \in [Receivers -> Receiver]
    /\ bridge \in Bridge
    /\ native \in {"open", "freed"} /\ sent \in 0 .. MaxDown
    /\ up \in Seq({"binary", "eof"}) /\ down \in Seq(Frames)
    /\ disposeFailed \in BOOLEAN

Init ==
    /\ eofSent = FALSE /\ released = FALSE /\ upMu = Nobody /\ recvMu = Nobody
    /\ uppers = [u \in Uppers |-> [op |-> "binary", pc |-> "idle", count |-> 0]]
    /\ receivers = [r \in Receivers |-> [pc |-> "idle", frame |-> "timeout"]]
    /\ bridge = [lib |-> TRUE, readers |-> {}, writer |-> "none"]
    /\ native = "open" /\ up = <<>> /\ down = <<>> /\ sent = 0
    /\ disposeFailed = FALSE

-------------------------------------------------------------------------------
(* Sending, half-closing, disposing.                                           *)

Called(u, op, pc) ==
    uppers' = [uppers EXCEPT ![u] = [op |-> op, pc |-> pc, count |-> @.count + 1]]

MayCall(u) == uppers[u].pc = "idle" /\ uppers[u].count < MaxUp

\* Send and its control frames: ensureUpOpen, then callSend waits for upMu.
Send(u) ==
    /\ MayCall(u)
    /\ Called(u, "binary", IF released \/ eofSent THEN "idle" ELSE "locking")
    /\ UNCHANGED <<goVars, receivers, bridge, nativeVars, disposeFailed>>

\* SendEOF: the first one marks the stream, then waits for upMu.
SendEOF(u) ==
    /\ MayCall(u)
    /\ Called(u, "eof", IF eofSent THEN "idle" ELSE "locking")
    /\ eofSent' = TRUE
    /\ UNCHANGED <<released, upMu, recvMu, receivers, bridge, nativeVars, disposeFailed>>

Close(u) ==
    /\ MayCall(u)
    /\ Called(u, "close", "locking")
    /\ UNCHANGED <<goVars, receivers, bridge, nativeVars, disposeFailed>>

Dispose(u) ==
    /\ MayCall(u)
    /\ Called(u, "dispose", "locking")
    /\ UNCHANGED <<goVars, receivers, bridge, nativeVars, disposeFailed>>

\* Fault: only the stream's release is looked at again.
StillOpenOnce(op) == ~released /\ (op = "close" => ~eofSent)

\* What callSend, Close and Dispose look at under upMu.
StillOpen(op) == ~released /\ (op \in {"binary", "close"} => ~eofSent)

\* Fault: Dispose waits for the receiver.
CanLockUp(u) == upMu = Nobody /\ (uppers[u].op = "dispose" => recvMu = Nobody)

CanLock(u) == upMu = Nobody

LockUp(u) ==
    /\ uppers[u].pc = "locking" /\ CanLock(u)
    /\ LET op == uppers[u].op IN
         /\ IF StillOpen(op)
            THEN upMu' = u /\ uppers' = [uppers EXCEPT ![u].pc = "entering"]
            ELSE UNCHANGED upMu /\ uppers' = [uppers EXCEPT ![u].pc = "idle"]
         /\ released' = (released \/ op = "dispose")
         /\ eofSent' = (eofSent \/ (op \in {"close", "dispose"} /\ ~released))
    /\ UNCHANGED <<recvMu, receivers, bridge, nativeVars, disposeFailed>>

\* The native call of the holder of upMu: binary and eof frames are taken by a stream
\* that is open and StreamClose frees it, or the call is refused.  Dispose marked the
\* stream released before its one StreamClose and answers its error.
UpCall(u) ==
    /\ uppers[u].pc = "calling"
    /\ \/ /\ uppers[u].op = "dispose" /\ native' = "freed" /\ down' = <<>>
          /\ UNCHANGED <<up, disposeFailed>>
       \/ /\ uppers[u].op # "dispose" /\ native = "open"
          /\ up' = Append(up, IF uppers[u].op = "binary" THEN "binary" ELSE "eof")
          /\ UNCHANGED <<native, down, disposeFailed>>
       \/ /\ disposeFailed' = (disposeFailed \/ uppers[u].op = "dispose")
          /\ UNCHANGED <<native, up, down>>
    /\ uppers' = [uppers EXCEPT ![u].pc = "idle"] /\ upMu' = Nobody
    /\ bridge' = [bridge EXCEPT !.readers = @ \ {u}]
    /\ UNCHANGED <<eofSent, released, recvMu, receivers, sent>>

-------------------------------------------------------------------------------
(* Receiving.                                                                  *)

\* Recv of a stream that is released answers done without a native call.
Recv(r) ==
    /\ receivers[r].pc = "idle" /\ recvMu = Nobody /\ ~released
    /\ recvMu' = r
    /\ receivers' = [receivers EXCEPT ![r].pc = "entering"]
    /\ UNCHANGED <<eofSent, released, upMu, uppers, bridge, nativeVars, disposeFailed>>

Received(r, frame) ==
    /\ receivers' = [receivers EXCEPT ![r] = [pc |-> "settling", frame |-> frame]]
    /\ bridge' = [bridge EXCEPT !.readers = @ \ {r}]

\* The native wait ends with a frame, of which a terminal receipt frees the stream
\* whether or not Go can decode it, or because the stream is freed.
RecvFrame(r) ==
    /\ receivers[r].pc = "calling"
    /\ \/ /\ down # <<>> /\ Received(r, Head(down)) /\ down' = Tail(down)
          /\ native' = IF Head(down) \in {"terminal", "malformed"} THEN "freed" ELSE native
       \/ native = "freed" /\ Received(r, "error") /\ UNCHANGED <<native, down>>
    /\ UNCHANGED <<goVars, uppers, up, sent, disposeFailed>>

\* The wait times out.
RecvTimeout(r) ==
    /\ receivers[r].pc = "calling" /\ down = <<>> /\ native = "open"
    /\ Received(r, "timeout")
    /\ UNCHANGED <<goVars, uppers, nativeVars, disposeFailed>>

\* Fault: every receipt counts as the terminal one.
EndsStreamAny(frame) == frame \in {"admission", "terminal"}

EndsStream(frame) == frame = "terminal"

\* decodeBidiFrame, and what Recv makes of a terminal receipt.
RecvSettle(r) ==
    /\ receivers[r].pc = "settling"
    /\ released' = (released \/ EndsStream(receivers[r].frame))
    /\ eofSent' = (eofSent \/ EndsStream(receivers[r].frame))
    /\ recvMu' = Nobody
    /\ receivers' = [receivers EXCEPT ![r] = [pc |-> "idle", frame |-> "timeout"]]
    /\ UNCHANGED <<upMu, uppers, bridge, nativeVars, disposeFailed>>

-------------------------------------------------------------------------------
(* The DendriteBridge and the native side.                                     *)

\* RLock of callLockedWithPayload; a library that is unloaded answers an error.
UpEnter(u) ==
    /\ uppers[u].pc = "entering" /\ bridge.writer # "waiting"
    /\ IF bridge.lib
       THEN /\ bridge' = [bridge EXCEPT !.readers = @ \cup {u}]
            /\ uppers' = [uppers EXCEPT ![u].pc = "calling"]
            /\ UNCHANGED <<upMu, disposeFailed>>
       ELSE /\ uppers' = [uppers EXCEPT ![u].pc = "idle"] /\ upMu' = Nobody
            /\ disposeFailed' = (disposeFailed \/ uppers[u].op = "dispose")
            /\ UNCHANGED bridge
    /\ UNCHANGED <<eofSent, released, recvMu, receivers, nativeVars>>

RecvEnter(r) ==
    /\ receivers[r].pc = "entering" /\ bridge.writer # "waiting"
    /\ IF bridge.lib
       THEN /\ bridge' = [bridge EXCEPT !.readers = @ \cup {r}]
            /\ receivers' = [receivers EXCEPT ![r].pc = "calling"]
       ELSE /\ receivers' = [receivers EXCEPT ![r] = [pc |-> "settling", frame |-> "error"]]
            /\ UNCHANGED bridge
    /\ UNCHANGED <<goVars, uppers, nativeVars, disposeFailed>>

\* CloseLibrary asks for the write lock.  Once it has it, the library is gone for Go,
\* whether or not dlclose succeeds; no stream is closed.
CloseLibrary ==
    /\ bridge.writer = "none"
    /\ bridge' = [bridge EXCEPT !.writer = "waiting"]
    /\ UNCHANGED <<goVars, uppers, receivers, nativeVars, disposeFailed>>

Unload ==
    /\ bridge.writer = "waiting" /\ bridge.readers = {}
    /\ bridge' = [bridge EXCEPT !.writer = "done", !.lib = FALSE]
    /\ UNCHANGED <<goVars, uppers, receivers, nativeVars, disposeFailed>>

\* The peer: frames, the last of which is the terminal receipt.
PeerSends(frame) ==
    /\ native = "open" /\ sent < MaxDown
    /\ \A i \in DOMAIN down : down[i] \notin {"terminal", "malformed"}
    /\ down' = Append(down, frame) /\ sent' = sent + 1
    /\ UNCHANGED <<goVars, uppers, receivers, bridge, native, up, disposeFailed>>

-------------------------------------------------------------------------------

UpStep(u) == LockUp(u) \/ UpEnter(u) \/ UpCall(u)

RecvStep(r) == RecvEnter(r) \/ RecvFrame(r) \/ RecvSettle(r)

Next ==
    \/ \E u \in Uppers : Send(u) \/ SendEOF(u) \/ Close(u) \/ Dispose(u) \/ UpStep(u)
    \/ \E r \in Receivers : Recv(r) \/ RecvTimeout(r) \/ RecvStep(r)
    \/ CloseLibrary \/ Unload
    \/ \E frame \in Frames : PeerSends(frame)

Spec == Init /\ [][Next]_vars

\* Goroutines run and get a lock that is free over and over; nothing is assumed of
\* the peer and of timeouts: a wait for a frame may be as long as it likes.
FairSpec ==
    /\ Spec
    /\ \A u \in Uppers : SF_vars(LockUp(u)) /\ WF_vars(UpEnter(u)) /\ WF_vars(UpCall(u))
    /\ \A r \in Receivers : WF_vars(RecvStep(r))
    /\ WF_vars(Unload)

-------------------------------------------------------------------------------
(* Properties.                                                                 *)

\* The peer sees an end of the up direction at most once and nothing behind it,
\* however Send, SendEOF and Close race: a Send that found the direction open before
\* it waited for upMu is turned away after it.
UpEndsOnce == \A i \in DOMAIN up : up[i] = "eof" => i = Len(up)

\* No handle leaks in silence behind a Recv that answers done without a native call: a
\* stream that says it is released is freed in the library, or a Dispose is on its way
\* to free it, or the one Dispose that tried answered an error (the library refused
\* StreamClose, or was unloaded).  That one attempt is all there is: the mark comes
\* first, so a second Dispose answers nil.
ReleasedIsFreed ==
    released => \/ native = "freed" \/ disposeFailed
                \/ \E u \in Uppers : upMu = u /\ uppers[u].op = "dispose"

\* "Dispose may run while Recv is waiting, allowing native cancellation to unblock it"
\* (Dispose): it returns although no frame and no timeout ever comes.  A CloseLibrary
\* that waits for the receiver is the exception: it keeps Dispose out of the bridge.
DisposeReturns ==
    \A u \in Uppers :
        uppers[u].op = "dispose" /\ uppers[u].pc # "idle"
            ~> uppers[u].pc = "idle" \/ bridge.writer = "waiting"

===============================================================================
