--------------------------- MODULE ClientSideProofs ---------------------------
(***************************************************************************)
(* Theorems about the client side, for any number of goroutines, calls and *)
(* frames.  NativeBidi: the up direction of a BidiStream ends once and     *)
(* nothing is sent behind the end, a stream that says it is released is    *)
(* freed unless its Dispose answered an error, and no native call runs in  *)
(* a library that is unloaded.                                             *)
(* SidecarClient: nothing is open behind a Close, and a new generation     *)
(* means a new client.                                                     *)
(***************************************************************************)
EXTENDS NativeBidi, SidecarClient, TLAPS

-------------------------------------------------------------------------------
\* upMu is held by the goroutine that is in or on its way into the native call.
HolderInv ==
    \A u \in Uppers : upMu = u <=> uppers[u].pc \in {"entering", "calling"}

\* A goroutine that will end the up direction: a SendEOF that found it open, a Close
\* that found it open under upMu.
Ending(u) ==
    \/ uppers[u].op = "eof" /\ uppers[u].pc # "idle"
    \/ uppers[u].op = "close" /\ uppers[u].pc \in {"entering", "calling"}

HasEnded == \E i \in DOMAIN up : up[i] = "eof"

\* At most one goroutine ends the up direction, it has not done so yet, and the stream
\* is marked from the moment one means to.  Nobody sends behind the end.
EndInv ==
    /\ \A u, v \in Uppers : Ending(u) /\ Ending(v) => u = v
    /\ \A u \in Uppers : Ending(u) => eofSent /\ ~HasEnded
    /\ HasEnded => eofSent
    /\ \A u \in Uppers : upMu = u /\ uppers[u].op = "binary" => ~HasEnded

\* A terminal receipt: the native stream is freed before Go learns of it.
FreedInv ==
    \A r \in Receivers :
        receivers[r].pc = "settling" /\ receivers[r].frame = "terminal" => native = "freed"

\* A goroutine in a native call holds the bridge's lock for reading, and nobody does
\* once the library is unloaded.
CallsInLibrary ==
    /\ \A u \in Uppers : uppers[u].pc = "calling" => u \in bridge.readers
    /\ \A r \in Receivers : receivers[r].pc = "calling" => r \in bridge.readers
    /\ bridge.readers # {} => bridge.lib

StreamInv ==
    /\ TypeOK /\ HolderInv /\ EndInv /\ FreedInv /\ CallsInLibrary
    /\ UpEndsOnce /\ ReleasedIsFreed

-------------------------------------------------------------------------------
\* Lemmas about the steps of a goroutine.

\* The parts of TypeOK a step of a goroutine works on.
LEMMA Shapes ==
    ASSUME TypeOK
    PROVE  /\ uppers \in [Uppers -> Upper] /\ receivers \in [Receivers -> Receiver]
           /\ bridge \in Bridge /\ up \in Seq({"binary", "eof"}) /\ down \in Seq(Frames)
           /\ MaxUp \in Nat /\ MaxDown \in Nat /\ Nobody \notin Uppers
           /\ Nobody \notin Receivers /\ sent \in 0 .. MaxDown
  BY NativeBidiAssumption DEF TypeOK

\* A goroutine that calls an operation: only its record changes.
LEMMA CalledEffect ==
    ASSUME TypeOK, NEW u \in Uppers, MayCall(u),
           NEW op \in {"binary", "eof", "close", "dispose"}, NEW pc \in {"idle", "locking"},
           Called(u, op, pc)
    PROVE  /\ uppers' \in [Uppers -> Upper]
           /\ uppers'[u].op = op /\ uppers'[u].pc = pc
           /\ \A v \in Uppers : v # u => uppers'[v] = uppers[v]
<1>1. uppers[u].count \in 0 .. MaxUp /\ uppers[u].count < MaxUp
  BY Shapes DEF MayCall, Upper
<1>2. uppers[u].count + 1 \in 0 .. MaxUp
  BY <1>1, Shapes
<1>3. [op |-> op, pc |-> pc, count |-> uppers[u].count + 1] \in Upper
  BY <1>2 DEF Upper
<1>4. uppers' = [uppers EXCEPT ![u] = [op |-> op, pc |-> pc, count |-> uppers[u].count + 1]]
  BY DEF Called
<1> QED
  BY <1>3, <1>4, Shapes

\* A goroutine that goes on to the next step of its operation.
LEMMA StepEffect ==
    ASSUME TypeOK, NEW u \in Uppers, NEW pc \in {"idle", "locking", "entering", "calling"},
           uppers' = [uppers EXCEPT ![u].pc = pc]
    PROVE  /\ uppers' \in [Uppers -> Upper]
           /\ uppers'[u].op = uppers[u].op /\ uppers'[u].pc = pc
           /\ \A v \in Uppers : v # u => uppers'[v] = uppers[v]
<1>1. uppers[u] \in Upper
  BY Shapes
<1>2. /\ [uppers[u] EXCEPT !.pc = pc] \in Upper
      /\ [uppers[u] EXCEPT !.pc = pc].op = uppers[u].op
      /\ [uppers[u] EXCEPT !.pc = pc].pc = pc
  BY <1>1 DEF Upper
<1>3. uppers' = [uppers EXCEPT ![u] = [uppers[u] EXCEPT !.pc = pc]]
  OBVIOUS
<1> HIDE DEF Upper
<1> QED
  BY <1>2, <1>3, Shapes

\* A step that leaves the bridge alone or gives the lock back keeps what holds of it.
LEMMA BridgeEffect ==
    ASSUME TypeOK, NEW S \in SUBSET (Uppers \cup Receivers),
           bridge' = [bridge EXCEPT !.readers = S]
    PROVE  bridge' \in Bridge /\ bridge'.readers = S /\ bridge'.lib = bridge.lib
  BY Shapes DEF Bridge

\* The end of the up direction, after a frame.
LEMMA EndedEffect ==
    ASSUME TypeOK, NEW f \in {"binary", "eof"}, up' = Append(up, f)
    PROVE  /\ up' \in Seq({"binary", "eof"})
           /\ HasEnded' <=> HasEnded \/ f = "eof"
           /\ ~HasEnded => UpEndsOnce'
<1>1. /\ up \in Seq({"binary", "eof"}) /\ up' \in Seq({"binary", "eof"})
      /\ Len(up') = Len(up) + 1 /\ Len(up) \in Nat
      /\ DOMAIN up' = 1 .. Len(up) + 1 /\ DOMAIN up = 1 .. Len(up)
      /\ \A i \in 1 .. Len(up) : up'[i] = up[i]
      /\ up'[Len(up) + 1] = f
  BY Shapes
<1>2. HasEnded' <=> HasEnded \/ f = "eof"
  <2>1. ASSUME HasEnded' PROVE HasEnded \/ f = "eof"
    BY <1>1, <2>1 DEF HasEnded
  <2>2. ASSUME HasEnded PROVE HasEnded'
    BY <1>1, <2>2 DEF HasEnded
  <2>3. ASSUME f = "eof" PROVE HasEnded'
    BY <1>1, <2>3 DEF HasEnded
  <2> QED
    BY <2>1, <2>2, <2>3
<1>3. ASSUME ~HasEnded PROVE UpEndsOnce'
  BY <1>1, <1>3 DEF HasEnded, UpEndsOnce
<1> QED
  BY <1>1, <1>2, <1>3

\* What was sent and its end, when nothing is.
LEMMA UpUnchanged ==
    ASSUME UNCHANGED up
    PROVE  (HasEnded' <=> HasEnded) /\ (UpEndsOnce => UpEndsOnce')
  BY DEF HasEnded, UpEndsOnce

-------------------------------------------------------------------------------
\* The goroutines that send, half-close and dispose.

\* Send, SendEOF, Close and Dispose, up to the wait for upMu.
LEMMA CallPreserves ==
    ASSUME StreamInv, NEW u \in Uppers, MayCall(u),
           NEW op \in {"binary", "eof", "close", "dispose"}, NEW pc \in {"idle", "locking"},
           Called(u, op, pc),
           op = "eof" /\ pc = "locking" => ~eofSent,
           eofSent' = (eofSent \/ op = "eof"),
           UNCHANGED <<released, upMu, recvMu, receivers, bridge, nativeVars, disposeFailed>>
    PROVE  StreamInv'
<1> USE DEF nativeVars
<1>1. /\ uppers' \in [Uppers -> Upper]
      /\ uppers'[u].op = op /\ uppers'[u].pc = pc
      /\ \A v \in Uppers : v # u => uppers'[v] = uppers[v]
  BY CalledEffect DEF StreamInv
<1>2. uppers[u].pc = "idle" /\ upMu # u
  BY DEF MayCall, StreamInv, HolderInv
<1>3. (HasEnded' <=> HasEnded) /\ UpEndsOnce'
  BY UpUnchanged DEF StreamInv
<1>4. TypeOK'
  BY <1>1 DEF StreamInv, TypeOK
<1>5. HolderInv'
  BY <1>1, <1>2 DEF StreamInv, HolderInv
<1>6. EndInv'
  <2>1. \A v \in Uppers : v # u => (Ending(v)' <=> Ending(v))
    BY <1>1 DEF Ending
  <2>2. Ending(u)' => op = "eof" /\ pc = "locking"
    BY <1>1 DEF Ending
  <2>3. Ending(u)' => ~eofSent /\ eofSent'
    BY <2>2
  <2>4. \A v \in Uppers : Ending(v) => eofSent /\ ~HasEnded
    BY DEF StreamInv, EndInv
  <2>5. \A v, w \in Uppers : Ending(v)' /\ Ending(w)' => v = w
    BY <2>1, <2>3, <2>4 DEF StreamInv, EndInv
  <2>6. HasEnded => eofSent
    BY DEF StreamInv, EndInv
  <2>7. \A v \in Uppers : Ending(v)' => eofSent' /\ ~HasEnded'
    BY <2>1, <2>3, <2>4, <2>6, <1>3
  <2>8. \A v \in Uppers : upMu' = v /\ uppers'[v].op = "binary" => ~HasEnded'
    BY <1>1, <1>2, <1>3 DEF StreamInv, EndInv
  <2> QED
    BY <2>5, <2>6, <2>7, <2>8, <1>3 DEF EndInv
<1>7. FreedInv'
  BY DEF StreamInv, FreedInv
<1>8. CallsInLibrary'
  BY <1>1 DEF StreamInv, CallsInLibrary
<1>9. ReleasedIsFreed'
  BY <1>1, <1>2 DEF StreamInv, ReleasedIsFreed
<1> QED
  BY <1>3, <1>4, <1>5, <1>6, <1>7, <1>8, <1>9 DEF StreamInv

\* Send, SendEOF, Close and Dispose are such calls.
LEMMA CallsPreserve ==
    ASSUME StreamInv, NEW u \in Uppers, Send(u) \/ SendEOF(u) \/ Close(u) \/ Dispose(u)
    PROVE  StreamInv'
<1> USE DEF goVars
<1>0. eofSent \in BOOLEAN
  BY SMTT(30) DEF StreamInv, TypeOK
<1>1. CASE Send(u)
  <2> DEFINE pc == IF released \/ eofSent THEN "idle" ELSE "locking"
  <2>1. pc \in {"idle", "locking"}
    OBVIOUS
  <2>2. /\ MayCall(u) /\ Called(u, "binary", pc) /\ UNCHANGED <<receivers, bridge, nativeVars>>
        /\ UNCHANGED <<released, upMu, recvMu, disposeFailed>> /\ UNCHANGED eofSent
    BY <1>1 DEF Send
  <2>3. eofSent' = (eofSent \/ "binary" = "eof")
    BY <2>2, <1>0
  <2> HIDE DEF pc
  <2> QED
    BY <2>1, <2>2, <2>3, CallPreserves
<1>2. CASE SendEOF(u)
  <2> DEFINE pc == IF eofSent THEN "idle" ELSE "locking"
  <2>1. pc \in {"idle", "locking"} /\ (pc = "locking" => ~eofSent)
    OBVIOUS
  <2>2. /\ MayCall(u) /\ Called(u, "eof", pc) /\ UNCHANGED <<receivers, bridge, nativeVars>>
        /\ UNCHANGED <<released, upMu, recvMu, disposeFailed>> /\ eofSent' = TRUE
    BY <1>2 DEF SendEOF
  <2>3. eofSent' = (eofSent \/ "eof" = "eof")
    BY <2>2, <1>0
  <2> HIDE DEF pc
  <2> QED
    BY <2>1, <2>2, <2>3, CallPreserves
<1>3. CASE Close(u)
  <2>1. /\ MayCall(u) /\ Called(u, "close", "locking") /\ UNCHANGED <<receivers, bridge, nativeVars>>
        /\ UNCHANGED <<released, upMu, recvMu, disposeFailed>> /\ UNCHANGED eofSent
    BY <1>3 DEF Close
  <2>2. eofSent' = (eofSent \/ "close" = "eof")
    BY <2>1, <1>0, SMTT(30)
  <2> QED
    BY <2>1, <2>2, CallPreserves
<1>4. CASE Dispose(u)
  <2>1. /\ MayCall(u) /\ Called(u, "dispose", "locking") /\ UNCHANGED <<receivers, bridge, nativeVars>>
        /\ UNCHANGED <<released, upMu, recvMu, disposeFailed>> /\ UNCHANGED eofSent
    BY <1>4 DEF Dispose
  <2>2. eofSent' = (eofSent \/ "dispose" = "eof")
    BY <2>1, <1>0
  <2> QED
    BY <2>1, <2>2, CallPreserves
<1> QED
  BY <1>1, <1>2, <1>3, <1>4

\* upMu is taken, and what was checked before the wait is checked again.
LEMMA LockUpPreserves ==
    ASSUME StreamInv, NEW u \in Uppers, LockUp(u)
    PROVE  StreamInv'
<1> USE DEF nativeVars
<1> DEFINE op == uppers[u].op
<1> PICK pc \in {"entering", "idle"} : pc = IF StillOpen(op) THEN "entering" ELSE "idle"
  OBVIOUS
<1>1. /\ uppers[u].pc = "locking" /\ upMu = Nobody
      /\ uppers' = [uppers EXCEPT ![u].pc = pc]
      /\ upMu' = IF pc = "entering" THEN u ELSE upMu
      /\ pc = "entering" => StillOpen(op)
      /\ pc = "idle" => ~StillOpen(op)
      /\ released' = (released \/ op = "dispose")
      /\ eofSent' = (eofSent \/ (op \in {"close", "dispose"} /\ ~released))
      /\ UNCHANGED <<recvMu, receivers, bridge, native, up, down, sent, disposeFailed>>
  BY DEF LockUp, CanLock
<1>2. /\ uppers' \in [Uppers -> Upper]
      /\ uppers'[u].op = op /\ uppers'[u].pc = pc
      /\ \A v \in Uppers : v # u => uppers'[v] = uppers[v]
  BY <1>1, StepEffect DEF StreamInv
<1>3. (HasEnded' <=> HasEnded) /\ UpEndsOnce'
  BY <1>1, UpUnchanged DEF StreamInv
<1>4. \A v \in Uppers : upMu # v
  BY <1>1, NativeBidiAssumption
<1>5. \A v \in Uppers : v # u => uppers'[v] = uppers[v] /\ upMu' # v
                              /\ uppers[v].pc \notin {"entering", "calling"}
  BY <1>1, <1>2, <1>4 DEF StreamInv, HolderInv
<1>6. TypeOK'
  BY <1>1, <1>2 DEF StreamInv, TypeOK
<1>7. HolderInv'
  BY <1>1, <1>2, <1>4, <1>5 DEF StreamInv, HolderInv
<1>8. EndInv'
  <2>1. \A v \in Uppers : v # u => (Ending(v)' <=> Ending(v))
    BY <1>2 DEF Ending
  <2>2. Ending(u)' => pc = "entering" /\ (op = "eof" \/ op = "close")
    BY <1>1, <1>2 DEF Ending
  <2>3. Ending(u)' /\ op = "eof" => Ending(u)
    BY <1>1 DEF Ending
  <2>4. Ending(u)' /\ op = "close" => ~eofSent /\ eofSent'
    BY <2>2, <1>1 DEF StillOpen
  <2>5. \A v \in Uppers : Ending(v) => eofSent /\ ~HasEnded
    BY DEF StreamInv, EndInv
  <2>6. HasEnded => eofSent
    BY DEF StreamInv, EndInv
  <2>7. eofSent => eofSent'
    BY <1>1
  <2>8. \A v, w \in Uppers : Ending(v)' /\ Ending(w)' => v = w
    BY <2>1, <2>2, <2>3, <2>4, <2>5 DEF StreamInv, EndInv
  <2>9. \A v \in Uppers : Ending(v)' => eofSent' /\ ~HasEnded'
    BY <2>1, <2>2, <2>3, <2>4, <2>5, <2>6, <2>7, <1>3
  <2>10. \A v \in Uppers : upMu' = v /\ uppers'[v].op = "binary" => ~HasEnded'
    <3> SUFFICES ASSUME NEW v \in Uppers, upMu' = v, uppers'[v].op = "binary"
                 PROVE  ~HasEnded'
      OBVIOUS
    <3>1. v = u /\ pc = "entering" /\ op = "binary"
      BY <1>1, <1>2, <1>4, <1>5
    <3>2. ~eofSent
      BY <3>1, <1>1 DEF StillOpen
    <3> QED
      BY <3>2, <2>6, <1>3
  <2> QED
    BY <2>6, <2>7, <2>8, <2>9, <2>10, <1>3 DEF EndInv
<1>9. FreedInv'
  BY <1>1 DEF StreamInv, FreedInv
<1>10. CallsInLibrary'
  BY <1>1, <1>2 DEF StreamInv, CallsInLibrary
<1>11. ReleasedIsFreed'
  <2>1. CASE released
    BY <2>1, <1>1, <1>4 DEF StreamInv, ReleasedIsFreed
  <2>2. CASE ~released /\ op = "dispose"
    <3>1. StillOpen(op)
      BY <2>2 DEF StillOpen
    <3> QED
      BY <3>1, <2>2, <1>1, <1>2 DEF ReleasedIsFreed
  <2>3. CASE ~released /\ op # "dispose"
    BY <2>3, <1>1 DEF ReleasedIsFreed
  <2> QED
    BY <2>1, <2>2, <2>3
<1> QED
  BY <1>3, <1>6, <1>7, <1>8, <1>9, <1>10, <1>11 DEF StreamInv

\* The holder of upMu goes into the library, or finds it unloaded.
LEMMA UpEnterPreserves ==
    ASSUME StreamInv, NEW u \in Uppers, UpEnter(u)
    PROVE  StreamInv'
<1> USE DEF nativeVars
<1>1. /\ uppers[u].pc = "entering" /\ upMu = u
      /\ UNCHANGED <<eofSent, released, recvMu, receivers, native, up, down, sent>>
  BY DEF UpEnter, StreamInv, HolderInv
<1>2. PICK pc \in {"calling", "idle"} :
        /\ uppers' = [uppers EXCEPT ![u].pc = pc]
        /\ pc = "calling" => bridge.lib /\ UNCHANGED <<upMu, disposeFailed>>
                             /\ bridge' = [bridge EXCEPT !.readers = bridge.readers \cup {u}]
        /\ pc = "idle" => ~bridge.lib /\ upMu' = Nobody /\ UNCHANGED bridge
                          /\ disposeFailed' = (disposeFailed \/ uppers[u].op = "dispose")
  BY DEF UpEnter
<1>3. /\ uppers' \in [Uppers -> Upper]
      /\ uppers'[u].op = uppers[u].op /\ uppers'[u].pc = pc
      /\ \A v \in Uppers : v # u => uppers'[v] = uppers[v]
  BY <1>2, StepEffect DEF StreamInv
<1>4. (HasEnded' <=> HasEnded) /\ UpEndsOnce'
  BY <1>1, UpUnchanged DEF StreamInv
<1>5. bridge \in Bridge /\ bridge.readers \in SUBSET (Uppers \cup Receivers)
  BY DEF StreamInv, TypeOK, Bridge
<1>6. /\ bridge' \in Bridge /\ bridge'.lib = bridge.lib
      /\ pc = "calling" => bridge'.readers = bridge.readers \cup {u} /\ bridge.lib
      /\ pc = "idle" => bridge'.readers = bridge.readers
  <2>1. CASE pc = "calling"
    <3>1. bridge.readers \cup {u} \in SUBSET (Uppers \cup Receivers)
      BY <1>5
    <3> QED
      BY <2>1, <3>1, <1>2, BridgeEffect DEF StreamInv
  <2>2. CASE pc = "idle"
    BY <2>2, <1>2, <1>5
  <2> QED
    BY <2>1, <2>2
<1>7. \A v \in Uppers : v # u => upMu' # v /\ upMu # v
  BY <1>1, <1>2, NativeBidiAssumption
<1>8. TypeOK'
  <2>1. disposeFailed' \in BOOLEAN
    BY <1>2 DEF StreamInv, TypeOK
  <2> QED
    BY <2>1, <1>1, <1>2, <1>3, <1>6 DEF StreamInv, TypeOK
<1>9. HolderInv'
  <2> SUFFICES ASSUME NEW v \in Uppers
               PROVE  upMu' = v <=> uppers'[v].pc \in {"entering", "calling"}
    BY DEF HolderInv
  <2>1. CASE v = u
    BY <2>1, <1>1, <1>2, <1>3, NativeBidiAssumption
  <2>2. CASE v # u
    BY <2>2, <1>3, <1>7 DEF StreamInv, HolderInv
  <2> QED
    BY <2>1, <2>2
<1>10. EndInv'
  <2>1. \A v \in Uppers : Ending(v)' => Ending(v)
    BY <1>1, <1>3 DEF Ending
  <2>2. \A v \in Uppers : upMu' = v => v = u /\ upMu = v
    BY <1>1, <1>7
  <2> QED
    BY <2>1, <2>2, <1>1, <1>3, <1>4 DEF StreamInv, EndInv
<1>11. FreedInv'
  BY <1>1, <1>6 DEF StreamInv, FreedInv
<1>12. CallsInLibrary'
  BY <1>1, <1>2, <1>3, <1>6 DEF StreamInv, CallsInLibrary
<1>13. ReleasedIsFreed'
  <2>1. released => native = "freed" \/ disposeFailed \/ uppers[u].op = "dispose"
    BY <1>1 DEF StreamInv, ReleasedIsFreed
  <2>2. CASE pc = "calling"
    BY <2>1, <2>2, <1>1, <1>2, <1>3 DEF ReleasedIsFreed
  <2>3. CASE pc = "idle"
    BY <2>1, <2>3, <1>1, <1>2 DEF ReleasedIsFreed
  <2> QED
    BY <2>2, <2>3
<1> QED
  BY <1>4, <1>8, <1>9, <1>10, <1>11, <1>12, <1>13 DEF StreamInv

\* The native call of the holder of upMu.
LEMMA UpCallPreserves ==
    ASSUME StreamInv, NEW u \in Uppers, UpCall(u)
    PROVE  StreamInv'
<1> DEFINE op == uppers[u].op
<1>1. /\ uppers[u].pc = "calling" /\ upMu = u /\ upMu' = Nobody
      /\ uppers' = [uppers EXCEPT ![u].pc = "idle"]
      /\ bridge' = [bridge EXCEPT !.readers = bridge.readers \ {u}]
      /\ UNCHANGED <<eofSent, released, recvMu, receivers, sent>>
  BY DEF UpCall, StreamInv, HolderInv
<1>2. /\ uppers' \in [Uppers -> Upper]
      /\ uppers'[u].op = op /\ uppers'[u].pc = "idle"
      /\ \A v \in Uppers : v # u => uppers'[v] = uppers[v]
  BY <1>1, StepEffect DEF StreamInv
<1>3. bridge.readers \in SUBSET (Uppers \cup Receivers)
  BY DEF StreamInv, TypeOK, Bridge
<1>4. bridge.readers \ {u} \in SUBSET (Uppers \cup Receivers)
  BY <1>3
<1>5. bridge' \in Bridge /\ bridge'.readers = bridge.readers \ {u} /\ bridge'.lib = bridge.lib
  BY <1>1, <1>4, BridgeEffect DEF StreamInv
<1>6. \A v \in Uppers : v # u => upMu # v /\ uppers[v].pc \notin {"entering", "calling"}
  BY <1>1 DEF StreamInv, HolderInv
<1>7. \A v \in Uppers : upMu' # v
  BY <1>1, NativeBidiAssumption
<1>8. HolderInv'
  BY <1>1, <1>2, <1>6, <1>7 DEF HolderInv
<1>9. CallsInLibrary'
  <2>1. \A r \in Receivers : r # u
    BY NativeBidiAssumption
  <2> QED
    BY <2>1, <1>1, <1>2, <1>5 DEF StreamInv, CallsInLibrary
<1>10. /\ \A v \in Uppers : Ending(v)' => Ending(v) /\ v # u
  BY <1>2 DEF Ending
<1>11. disposeFailed' \in BOOLEAN
  BY DEF UpCall, StreamInv, TypeOK
<1>12. CASE op = "dispose"
  <2>1. /\ UNCHANGED up /\ down' \in {down, <<>>}
        /\ native' = "freed" \/ (native' = native /\ disposeFailed')
    BY <1>12 DEF UpCall
  <2>2. (HasEnded' <=> HasEnded) /\ UpEndsOnce'
    BY <2>1, UpUnchanged DEF StreamInv
  <2>3. EndInv'
    BY <2>2, <1>1, <1>7, <1>10 DEF StreamInv, EndInv
  <2>4. TypeOK'
    <3>1. down' \in Seq(Frames)
      <4>1. down \in Seq(Frames) /\ <<>> \in Seq(Frames)
        BY Shapes DEF StreamInv
      <4> QED
        BY <2>1, <4>1
    <3>2. native' \in {"open", "freed"}
      BY <2>1, Zenon DEF StreamInv, TypeOK
    <3> QED
      BY <2>1, <3>1, <3>2, <1>1, <1>2, <1>5, <1>11 DEF StreamInv, TypeOK
  <2>5. FreedInv' /\ ReleasedIsFreed'
    BY <2>1, <1>1 DEF StreamInv, FreedInv, ReleasedIsFreed
  <2> QED
    BY <2>2, <2>3, <2>4, <2>5, <1>8, <1>9 DEF StreamInv
<1>13. CASE op # "dispose"
  <2>1. native' = native /\ down' = down /\ (disposeFailed => disposeFailed')
    <3>1. native' = native /\ down' = down
      BY <1>13 DEF UpCall
    <3>2. disposeFailed => disposeFailed'
      BY Zenon DEF UpCall
    <3> QED
      BY <3>1, <3>2
  <2>2. FreedInv' /\ ReleasedIsFreed'
    <3>1. released => native = "freed" \/ disposeFailed
      BY <1>1, <1>13 DEF StreamInv, ReleasedIsFreed
    <3> QED
      BY <3>1, <2>1, <1>1 DEF StreamInv, FreedInv, ReleasedIsFreed
  <2>3. CASE UNCHANGED up
    <3>1. (HasEnded' <=> HasEnded) /\ UpEndsOnce'
      BY <2>3, UpUnchanged DEF StreamInv
    <3>2. EndInv'
      BY <3>1, <1>1, <1>7, <1>10 DEF StreamInv, EndInv
    <3>3. TypeOK'
      BY <2>1, <2>3, <1>1, <1>2, <1>5, <1>11 DEF StreamInv, TypeOK
    <3> QED
      BY <3>1, <3>2, <3>3, <2>2, <1>8, <1>9 DEF StreamInv
  <2>4. CASE up' = Append(up, IF op = "binary" THEN "binary" ELSE "eof")
    <3>1. PICK f \in {"binary", "eof"} : f = IF op = "binary" THEN "binary" ELSE "eof"
      OBVIOUS
    <3>2. /\ up' \in Seq({"binary", "eof"}) /\ (HasEnded' <=> HasEnded \/ f = "eof")
          /\ ~HasEnded => UpEndsOnce'
      BY <2>4, <3>1, EndedEffect DEF StreamInv
    <3>3. op \in {"binary", "eof", "close"}
      BY <1>13, Shapes DEF StreamInv, Upper
    <3>4. op # "binary" => Ending(u)
      BY <3>3, <1>1 DEF Ending
    <3>5. ~HasEnded
      BY <3>3, <3>4, <1>1 DEF StreamInv, EndInv
    <3>6. HasEnded' => Ending(u) /\ eofSent
      BY <3>1, <3>2, <3>4, <3>5 DEF StreamInv, EndInv
    <3>7. EndInv'
      <4>1. \A v \in Uppers : ~(Ending(v)' /\ HasEnded')
        BY <3>6, <1>10 DEF StreamInv, EndInv
      <4> QED
        BY <4>1, <3>6, <1>1, <1>7, <1>10 DEF StreamInv, EndInv
    <3>8. TypeOK'
      BY <2>1, <3>2, <1>1, <1>2, <1>5, <1>11 DEF StreamInv, TypeOK
    <3> QED
      BY <3>2, <3>5, <3>7, <3>8, <2>2, <1>8, <1>9 DEF StreamInv
  <2> QED
    BY <2>3, <2>4, <1>13 DEF UpCall
<1> QED
  BY <1>12, <1>13

-------------------------------------------------------------------------------
\* The goroutines that receive.

\* A step of a receiver, which changes no goroutine of the up direction: the stream is
\* freed where the receiver holds a terminal receipt, and before it is released.
LEMMA ReceiverPreserves ==
    ASSUME StreamInv, NEW r \in Receivers, NEW rec \in Receiver,
           receivers' = [receivers EXCEPT ![r] = rec],
           rec.pc = "settling" /\ rec.frame = "terminal" => native' = "freed",
           rec.pc = "calling" => r \in bridge'.readers,
           bridge' \in Bridge, bridge'.lib = bridge.lib,
           bridge'.readers \cup {r} = bridge.readers \cup {r},
           bridge'.readers # {} => bridge.lib,
           native' \in {native, "freed"}, down' \in Seq(Frames),
           recvMu' \in {recvMu, r, Nobody},
           released' \in BOOLEAN, eofSent' \in BOOLEAN,
           eofSent => eofSent', released' => released \/ native = "freed",
           UNCHANGED <<upMu, uppers, up, sent, disposeFailed>>
    PROVE  StreamInv'
<1>1. /\ receivers' \in [Receivers -> Receiver] /\ receivers'[r] = rec
      /\ \A q \in Receivers : q # r => receivers'[q] = receivers[q]
  BY Shapes DEF StreamInv
<1>2. (HasEnded' <=> HasEnded) /\ UpEndsOnce'
  BY UpUnchanged DEF StreamInv
<1>3. TypeOK'
  BY <1>1 DEF StreamInv, TypeOK
<1>4. HolderInv'
  BY DEF StreamInv, HolderInv
<1>5. EndInv'
  BY <1>2 DEF StreamInv, EndInv, Ending
<1>6. FreedInv'
  BY <1>1 DEF StreamInv, FreedInv
<1>7. CallsInLibrary'
  <2>1. \A u \in Uppers : u # r
    BY NativeBidiAssumption
  <2> QED
    BY <2>1, <1>1 DEF StreamInv, CallsInLibrary
<1>8. ReleasedIsFreed'
  BY DEF StreamInv, ReleasedIsFreed
<1> QED
  BY <1>2, <1>3, <1>4, <1>5, <1>6, <1>7, <1>8 DEF StreamInv

\* A receiver that comes out of its native call.
LEMMA ReceivedEffect ==
    ASSUME StreamInv, NEW r \in Receivers, NEW frame \in Frames \cup {"error", "timeout"},
           Received(r, frame)
    PROVE  /\ [pc |-> "settling", frame |-> frame] \in Receiver
           /\ receivers' = [receivers EXCEPT ![r] = [pc |-> "settling", frame |-> frame]]
           /\ bridge' \in Bridge /\ bridge'.lib = bridge.lib
           /\ bridge'.readers \cup {r} = bridge.readers \cup {r}
           /\ bridge'.readers # {} => bridge.lib
<1>1. bridge.readers \ {r} \in SUBSET (Uppers \cup Receivers)
  BY DEF StreamInv, TypeOK, Bridge
<1>2. bridge' = [bridge EXCEPT !.readers = bridge.readers \ {r}]
  BY DEF Received
<1>3. bridge' \in Bridge /\ bridge'.readers = bridge.readers \ {r} /\ bridge'.lib = bridge.lib
  BY <1>1, <1>2, BridgeEffect DEF StreamInv
<1>4. bridge'.readers # {} => bridge.lib
  BY <1>3 DEF StreamInv, CallsInLibrary
<1>5. [pc |-> "settling", frame |-> frame] \in Receiver
  BY DEF Receiver
<1> QED
  BY <1>3, <1>4, <1>5 DEF Received

\* A receiver takes recvMu, goes into the library and comes back with a frame or
\* without, and settles what the frame says.
LEMMA ReceivePreserves ==
    ASSUME StreamInv, NEW r \in Receivers, Recv(r) \/ RecvTimeout(r) \/ RecvStep(r)
    PROVE  StreamInv'
<1> USE DEF goVars, nativeVars
<1>0. /\ eofSent \in BOOLEAN /\ released \in BOOLEAN /\ bridge \in Bridge
      /\ bridge.readers \in SUBSET (Uppers \cup Receivers) /\ down \in Seq(Frames)
      /\ receivers[r] \in Receiver /\ (bridge.readers # {} => bridge.lib)
  BY DEF StreamInv, TypeOK, Bridge, CallsInLibrary
<1>1. CASE Recv(r)
  <2>1. [receivers[r] EXCEPT !.pc = "entering"] \in Receiver
        /\ [receivers[r] EXCEPT !.pc = "entering"].pc = "entering"
    BY <1>0 DEF Receiver
  <2>2. PICK rec \in Receiver : rec = [receivers[r] EXCEPT !.pc = "entering"]
    BY <2>1
  <2>3. receivers' = [receivers EXCEPT ![r] = rec]
    BY <1>1, <2>2 DEF Recv
  <2>4. /\ recvMu' = r /\ rec.pc = "entering"
        /\ UNCHANGED <<eofSent, released, upMu, uppers, bridge, native, up, down, sent,
                       disposeFailed>>
    BY <1>1, <2>1, <2>2 DEF Recv
  <2> QED
    BY <2>3, <2>4, <1>0, ReceiverPreserves
<1>2. CASE RecvTimeout(r)
  <2>1. Received(r, "timeout") /\ UNCHANGED <<goVars, uppers, nativeVars, disposeFailed>>
    BY <1>2 DEF RecvTimeout
  <2>2. PICK rec \in Receiver : rec = [pc |-> "settling", frame |-> "timeout"]
    BY <2>1, ReceivedEffect
  <2> QED
    BY <2>1, <2>2, <1>0, ReceivedEffect, ReceiverPreserves
<1>3. CASE RecvEnter(r)
  <2>1. CASE bridge.lib
    <3>1. [receivers[r] EXCEPT !.pc = "calling"] \in Receiver
          /\ [receivers[r] EXCEPT !.pc = "calling"].pc = "calling"
      BY <1>0 DEF Receiver
    <3>2. PICK rec \in Receiver : rec = [receivers[r] EXCEPT !.pc = "calling"]
      BY <3>1
    <3>3. receivers' = [receivers EXCEPT ![r] = rec]
      BY <1>3, <2>1, <3>2 DEF RecvEnter
    <3>4. /\ bridge' = [bridge EXCEPT !.readers = bridge.readers \cup {r}]
          /\ UNCHANGED <<goVars, uppers, nativeVars, disposeFailed>>
      BY <1>3, <2>1 DEF RecvEnter
    <3>5. bridge.readers \cup {r} \in SUBSET (Uppers \cup Receivers)
      BY <1>0
    <3>6. /\ bridge' \in Bridge /\ bridge'.readers = bridge.readers \cup {r}
          /\ bridge'.lib = bridge.lib
      BY <3>4, <3>5, BridgeEffect DEF StreamInv
    <3>7. rec.pc = "calling"
      BY <3>1, <3>2
    <3> QED
      BY <2>1, <3>3, <3>4, <3>6, <3>7, <1>0, ReceiverPreserves
  <2>2. CASE ~bridge.lib
    <3>1. PICK rec \in Receiver : rec = [pc |-> "settling", frame |-> "error"]
      BY DEF Receiver
    <3>2. /\ receivers' = [receivers EXCEPT ![r] = rec]
          /\ UNCHANGED <<goVars, uppers, bridge, nativeVars, disposeFailed>>
      BY <1>3, <2>2, <3>1 DEF RecvEnter
    <3> QED
      BY <3>1, <3>2, <1>0, ReceiverPreserves
  <2> QED
    BY <2>1, <2>2
<1>4. CASE RecvFrame(r)
  <2>1. UNCHANGED <<goVars, uppers, up, sent, disposeFailed>>
    BY <1>4 DEF RecvFrame
  <2>2. CASE /\ down # <<>> /\ Received(r, Head(down)) /\ down' = Tail(down)
             /\ native' = IF Head(down) \in {"terminal", "malformed"} THEN "freed" ELSE native
    <3>1. Head(down) \in Frames /\ down' \in Seq(Frames)
      BY <2>2, <1>0
    <3>2. PICK frame \in Frames : frame = Head(down)
      BY <3>1
    <3>3. Received(r, frame)
      BY <2>2, <3>2
    <3>4. PICK rec \in Receiver : rec = [pc |-> "settling", frame |-> frame]
      BY <3>3, ReceivedEffect
    <3> QED
      BY <2>1, <2>2, <3>1, <3>2, <3>3, <3>4, <1>0, ReceivedEffect, ReceiverPreserves
  <2>3. CASE native = "freed" /\ Received(r, "error") /\ UNCHANGED <<native, down>>
    <3>1. PICK rec \in Receiver : rec = [pc |-> "settling", frame |-> "error"]
      BY <2>3, ReceivedEffect
    <3> QED
      BY <2>1, <2>3, <3>1, <1>0, ReceivedEffect, ReceiverPreserves
  <2> QED
    BY <1>4, <2>2, <2>3 DEF RecvFrame
<1>5. CASE RecvSettle(r)
  <2>1. PICK rec \in Receiver : rec = [pc |-> "idle", frame |-> "timeout"]
    BY DEF Receiver
  <2>2. /\ receivers' = [receivers EXCEPT ![r] = rec] /\ recvMu' = Nobody
        /\ released' = (released \/ receivers[r].frame = "terminal")
        /\ eofSent' = (eofSent \/ receivers[r].frame = "terminal")
        /\ receivers[r].pc = "settling"
        /\ UNCHANGED <<upMu, uppers, bridge, native, up, down, sent, disposeFailed>>
    BY <1>5, <2>1 DEF RecvSettle, EndsStream
  <2>3. receivers[r].frame = "terminal" => native = "freed"
    BY <2>2 DEF StreamInv, FreedInv
  <2>4. /\ released' \in BOOLEAN /\ eofSent' \in BOOLEAN
        /\ (eofSent => eofSent') /\ (released' => released \/ native = "freed")
    BY <2>2, <2>3
  <2> QED
    BY <2>1, <2>2, <2>4, <1>0, ReceiverPreserves
<1> QED
  BY <1>1, <1>2, <1>3, <1>4, <1>5 DEF RecvStep

-------------------------------------------------------------------------------
\* The library and the peer.

\* CloseLibrary asks for the write lock, and gets it when no call is under way.
LEMMA LibraryPreserves ==
    ASSUME StreamInv, CloseLibrary \/ Unload
    PROVE  StreamInv'
<1> USE DEF goVars, nativeVars
<1>1. UNCHANGED <<goVars, uppers, receivers, native, up, down, sent, disposeFailed>>
  BY DEF CloseLibrary, Unload
<1>2. (HasEnded' <=> HasEnded) /\ UpEndsOnce'
  BY <1>1, UpUnchanged DEF StreamInv
<1>3. HolderInv' /\ EndInv'
  BY <1>1, <1>2 DEF StreamInv, HolderInv, EndInv, Ending
<1>4. bridge \in Bridge
  BY DEF StreamInv, TypeOK
<1>5. CASE CloseLibrary
  <2>1. /\ bridge' \in Bridge /\ bridge'.lib = bridge.lib
        /\ bridge'.readers = bridge.readers
    BY <1>4, <1>5 DEF CloseLibrary, Bridge
  <2> QED
    BY <2>1, <1>1, <1>2, <1>3
       DEF StreamInv, TypeOK, FreedInv, CallsInLibrary, ReleasedIsFreed
<1>6. CASE Unload
  <2>1. PICK f \in BOOLEAN : f = FALSE
    OBVIOUS
  <2>2. /\ bridge' = [bridge EXCEPT !.writer = "done", !.lib = f] /\ bridge.readers = {}
    BY <1>6, <2>1 DEF Unload
  <2>3. bridge' \in Bridge /\ bridge'.readers = bridge.readers
    BY <2>2, <1>4 DEF Bridge
  <2>4. TypeOK'
    BY <2>2, <2>3, <1>1 DEF StreamInv, TypeOK
  <2>5. CallsInLibrary'
    BY <2>2, <2>3, <1>1 DEF StreamInv, CallsInLibrary
  <2> QED
    BY <2>4, <2>5, <1>1, <1>2, <1>3 DEF StreamInv, FreedInv, ReleasedIsFreed
<1> QED
  BY <1>5, <1>6

\* A frame of the peer.
LEMMA PeerPreserves ==
    ASSUME StreamInv, NEW frame \in Frames, PeerSends(frame)
    PROVE  StreamInv'
<1>1. /\ UNCHANGED <<eofSent, released, upMu, recvMu, uppers, receivers, bridge, native, up,
                     disposeFailed>>
      /\ down' = Append(down, frame) /\ sent' = sent + 1 /\ sent < MaxDown
  BY DEF PeerSends, goVars
<1>2. down' \in Seq(Frames) /\ sent' \in 0 .. MaxDown
  BY <1>1, Shapes DEF StreamInv
<1>3. TypeOK'
  BY <1>1, <1>2 DEF StreamInv, TypeOK
<1>4. (HasEnded' <=> HasEnded) /\ UpEndsOnce'
  BY <1>1, UpUnchanged DEF StreamInv
<1>5. HolderInv' /\ EndInv' /\ FreedInv' /\ CallsInLibrary' /\ ReleasedIsFreed'
  BY <1>1, <1>4
     DEF StreamInv, HolderInv, EndInv, Ending, FreedInv, CallsInLibrary, ReleasedIsFreed
<1> QED
  BY <1>3, <1>4, <1>5 DEF StreamInv

-------------------------------------------------------------------------------
\* A new stream satisfies the invariant.
LEMMA InitEstablishes ==
    ASSUME Init
    PROVE  StreamInv
<1>1. uppers \in [Uppers -> Upper] /\ \A u \in Uppers : uppers[u].pc = "idle"
  <2>1. [op |-> "binary", pc |-> "idle", count |-> 0] \in Upper
    BY NativeBidiAssumption DEF Upper
  <2> QED
    BY <2>1 DEF Init
<1>2. receivers \in [Receivers -> Receiver] /\ \A r \in Receivers : receivers[r].pc = "idle"
  BY DEF Init, Receiver
<1>3. bridge \in Bridge /\ bridge.lib = TRUE /\ bridge.readers = {}
  <2>1. PICK t \in BOOLEAN : t = TRUE
    OBVIOUS
  <2>2. bridge = [lib |-> t, readers |-> {}, writer |-> "none"]
    BY <2>1 DEF Init
  <2> QED
    BY <2>1, <2>2 DEF Bridge
<1>4. up = <<>> /\ UpEndsOnce /\ ~HasEnded
  BY DEF Init, UpEndsOnce, HasEnded
<1>5. TypeOK
  <2>1. eofSent \in BOOLEAN /\ released \in BOOLEAN /\ disposeFailed \in BOOLEAN
    BY Zenon DEF Init
  <2>2. /\ upMu \in Uppers \cup {Nobody} /\ recvMu \in Receivers \cup {Nobody}
        /\ native \in {"open", "freed"} /\ sent \in 0 .. MaxDown
        /\ up \in Seq({"binary", "eof"}) /\ down \in Seq(Frames)
    BY NativeBidiAssumption DEF Init
  <2> QED
    BY <2>1, <2>2, <1>1, <1>2, <1>3 DEF TypeOK
<1>6. HolderInv /\ EndInv
  BY <1>1, <1>4, NativeBidiAssumption DEF Init, HolderInv, EndInv, Ending
<1>7. FreedInv /\ CallsInLibrary /\ ReleasedIsFreed
  BY <1>1, <1>2, <1>3 DEF Init, FreedInv, CallsInLibrary, ReleasedIsFreed
<1> QED
  BY <1>4, <1>5, <1>6, <1>7 DEF StreamInv

\* The invariant of a BidiStream and its bridge: every step of every goroutine, of the
\* library and of the peer keeps it.
THEOREM StreamInvariant == Spec => []StreamInv
<1>1. Init => StreamInv
  BY InitEstablishes
<1>2. StreamInv /\ [Next]_vars => StreamInv'
  <2> SUFFICES ASSUME StreamInv, [Next]_vars
               PROVE  StreamInv'
    OBVIOUS
  <2>1. ASSUME NEW u \in Uppers, Send(u) \/ SendEOF(u) \/ Close(u) \/ Dispose(u)
        PROVE  StreamInv'
    BY <2>1, CallsPreserve
  <2>2. ASSUME NEW u \in Uppers, UpStep(u)
        PROVE  StreamInv'
    BY <2>2, LockUpPreserves, UpEnterPreserves, UpCallPreserves DEF UpStep
  <2>3. ASSUME NEW r \in Receivers, Recv(r) \/ RecvTimeout(r) \/ RecvStep(r)
        PROVE  StreamInv'
    BY <2>3, ReceivePreserves
  <2>4. ASSUME CloseLibrary \/ Unload
        PROVE  StreamInv'
    BY <2>4, LibraryPreserves
  <2>5. ASSUME NEW frame \in Frames, PeerSends(frame)
        PROVE  StreamInv'
    BY <2>5, PeerPreserves
  <2>6. CASE UNCHANGED vars
    BY <2>6 DEF vars, goVars, nativeVars, StreamInv, TypeOK, HolderInv, EndInv, Ending,
                HasEnded, FreedInv, CallsInLibrary, UpEndsOnce, ReleasedIsFreed
  <2> QED
    BY <2>1, <2>2, <2>3, <2>4, <2>5, <2>6 DEF Next
<1> QED
  BY <1>1, <1>2, PTL DEF Spec

\* Every variable of the stream and its bridge keeps its type.
THEOREM StreamTypeCorrect == Spec => []TypeOK
<1>1. StreamInv => TypeOK
  BY DEF StreamInv
<1> QED
  BY <1>1, StreamInvariant, PTL

\* The peer sees at most one end of the up direction and nothing behind it, whichever
\* Send, SendEOF and Close race: the check under upMu turns the losers away.
THEOREM UpDirectionEndsOnce == Spec => []UpEndsOnce
<1>1. StreamInv => UpEndsOnce
  BY DEF StreamInv
<1> QED
  BY <1>1, StreamInvariant, PTL

\* No native handle leaks in silence: a stream that says it is released, by Dispose or by
\* a terminal receipt, is freed or about to be, or the caller of its one Dispose was
\* answered an error (the library refused StreamClose, or CloseLibrary came first).
THEOREM ReleasedStreamsAreFreed == Spec => []ReleasedIsFreed
<1>1. StreamInv => ReleasedIsFreed
  BY DEF StreamInv
<1> QED
  BY <1>1, StreamInvariant, PTL

\* A goroutine in a native call keeps the library loaded (callLockedWithPayload holds
\* the bridge's lock over the call): none is in a library that CloseLibrary unloaded.
THEOREM NoCallAfterUnload ==
    Spec => [](~bridge.lib => /\ \A u \in Uppers : uppers[u].pc # "calling"
                              /\ \A r \in Receivers : receivers[r].pc # "calling")
<1>1. StreamInv => (~bridge.lib => /\ \A u \in Uppers : uppers[u].pc # "calling"
                                   /\ \A r \in Receivers : receivers[r].pc # "calling")
  BY DEF StreamInv, CallsInLibrary
<1> QED
  BY <1>1, StreamInvariant, PTL

-------------------------------------------------------------------------------
(* The transport, its worker and Close.                                        *)
USE ClientAssumption

\* The client the library has open is the one the transport holds, if it holds one;
\* a transport with a client has its bridge.
ClientHeld ==
    /\ open \subseteq {transport.handle} \ {0}
    /\ transport.handle # 0 => transport.bridge

\* The worker is started behind the reconnect state.
WorkerStarted ==
    /\ \A c \in Callers : calls[c].pc \in {"enabling", "starting"} =>
          reconnect.exists /\ calls[c].count < MaxCalls
    /\ ~reconnect.exists => worker.pc = "none"

\* Close takes the client away when the worker has ended; after it comes nothing but a
\* worker that was started behind it and a late call.
NothingReopens ==
    /\ closer.pc \in {"tearing", "closed"} /\ ~closer.unseen =>
          worker.pc \in {"none", "gone"}
    /\ closer.pc = "closed" /\ ~closer.late /\ ~closer.unseen => transport.handle = 0

\* Once the worker has retired the client that broke, the transport has none or a newer
\* one, and after an attempt that did not fail it has one.
AttemptIsFresh ==
    /\ worker.pc \in {"open", "opened", "hook", "settle", "sleep"} =>
          transport.handle = 0 \/ transport.handle > worker.stale
    /\ worker.pc \in {"opened", "hook", "settle"} /\ ~worker.failed /\ ~closer.unseen =>
          transport.handle # 0

ClientInv ==
    ClientTypeOK /\ ClientHeld /\ WorkerStarted /\ NothingReopens /\ AttemptIsFresh

-------------------------------------------------------------------------------
\* Lemmas about the steps of the transport.

\* The parts of TypeOK a step works on.
LEMMA ClientShapes ==
    ASSUME ClientTypeOK
    PROVE  /\ net \in Net /\ transport \in Transport
           /\ net.up \in BOOLEAN /\ net.live \subseteq open /\ net.breaks \in 0 .. MaxBreaks
           /\ transport.signing \in BOOLEAN /\ transport.bridge \in BOOLEAN
           /\ transport.loop \in BOOLEAN /\ transport.limit \in Nat
           /\ transport.handle \in Nat /\ transport.handle <= last
           /\ last \in Nat /\ open \subseteq 1 .. last /\ open \subseteq Nat
<1>1. /\ net \in Net /\ net.live \subseteq open
      /\ transport \in Transport /\ transport.handle <= last
      /\ last \in Nat /\ open \subseteq 1 .. last
  BY DEF ClientTypeOK
<1>2. open \subseteq Nat
  BY <1>1
<1>3. /\ net.up \in BOOLEAN /\ net.breaks \in 0 .. MaxBreaks
      /\ transport.signing \in BOOLEAN /\ transport.bridge \in BOOLEAN
      /\ transport.loop \in BOOLEAN /\ transport.limit \in Nat
      /\ transport.handle \in Nat
  BY <1>1 DEF Net, Transport
<1> QED
  BY <1>1, <1>2, <1>3

\* ensureClient keeps the client there is, or opens one that is newer than any other,
\* or has none.
LEMMA EnsuredEffect ==
    ASSUME ClientTypeOK, ClientHeld, Ensured
    PROVE  /\ net' \in Net /\ net'.live \subseteq open'
           /\ last' \in Nat /\ last <= last' /\ open' \subseteq 1 .. last'
           /\ transport' \in Transport /\ transport'.handle <= last'
           /\ ClientHeld'
           /\ transport'.handle = transport.handle \/ transport'.handle > last
           /\ ~EnsureFails => transport'.handle # 0
<1> USE ClientShapes
<1>1. CASE Connected
  <2>1. UNCHANGED <<net, open, last, transport>> /\ transport.handle # 0
    BY <1>1 DEF Ensured, Connected
  <2> QED
    BY <2>1 DEF ClientHeld
<1>2. CASE ~Connected /\ net.up
  <2>1. /\ last' = last + 1 /\ open' = open \cup {last + 1}
        /\ net' = [net EXCEPT !.live = @ \cup {last + 1}]
        /\ transport' = [transport EXCEPT !.bridge = TRUE, !.handle = last + 1]
    BY <1>2 DEF Ensured
  <2>2. transport.handle = 0
    BY <1>2 DEF Connected, ClientHeld
  <2>3. PICK n \in Nat : n = last + 1
    OBVIOUS
  <2>4. PICK l \in SUBSET Nat : l = net.live \cup {n}
    OBVIOUS
  <2>5. net' \in Net /\ net'.live = l
    <3>1. net' = [net EXCEPT !.live = l]
      BY <2>1, <2>3, <2>4
    <3> QED
      BY <3>1 DEF Net
  <2>6. transport' \in Transport /\ transport'.handle = n /\ transport'.bridge
    <3>1. PICK b \in BOOLEAN : b = TRUE
      OBVIOUS
    <3>2. transport' = [transport EXCEPT !.bridge = b, !.handle = n]
      BY <2>1, <2>3, <3>1
    <3> QED
      BY <3>1, <3>2 DEF Transport
  <2>7. open = {}
    BY <2>2 DEF ClientHeld
  <2> QED
    BY <2>1, <2>3, <2>4, <2>5, <2>6, <2>7 DEF ClientHeld
<1>3. CASE ~Connected /\ ~net.up
  <2>1. /\ UNCHANGED <<net, open, last>>
        /\ transport' = [transport EXCEPT !.bridge = FALSE]
    BY <1>3 DEF Ensured
  <2>2. transport.handle = 0
    BY <1>3 DEF Connected, ClientHeld
  <2>3. transport' \in Transport /\ transport'.handle = 0
    <3>1. PICK b \in BOOLEAN : b = FALSE
      OBVIOUS
    <3>2. transport' = [transport EXCEPT !.bridge = b]
      BY <2>1, <3>1
    <3> QED
      BY <2>2, <3>2 DEF Transport
  <2>4. EnsureFails
    BY <1>3 DEF EnsureFails
  <2> QED
    BY <2>1, <2>2, <2>3, <2>4 DEF ClientHeld
<1> QED
  BY <1>1, <1>2, <1>3

\* What CloseClient of the client held leaves behind.
LEMMA ClosedEffect ==
    ASSUME ClientTypeOK, ClientHeld,
           IF Connected THEN ClientClosed ELSE UNCHANGED <<open, net>>
    PROVE  net' \in Net /\ open' = {} /\ net'.live \subseteq open'
<1> USE ClientShapes
<1>1. CASE Connected
  <2>1. /\ open' = open \ {transport.handle}
        /\ net' = [net EXCEPT !.live = @ \ {transport.handle}]
    BY <1>1 DEF ClientClosed
  <2>2. open' = {}
    BY <2>1 DEF ClientHeld
  <2>3. PICK l \in SUBSET Nat : l = net.live \ {transport.handle}
    OBVIOUS
  <2>4. net' \in Net /\ net'.live = l
    <3>1. net' = [net EXCEPT !.live = l]
      BY <2>1, <2>3
    <3> QED
      BY <3>1 DEF Net
  <2> QED
    BY <2>1, <2>2, <2>3, <2>4
<1>2. CASE ~Connected
  <2>1. open = {}
    BY <1>2 DEF Connected, ClientHeld
  <2> QED
    BY <1>2, <2>1
<1> QED
  BY <1>1, <1>2

\* A retired transport has no handle, and nothing is open.
LEMMA RetiredEffect ==
    ASSUME ClientTypeOK, ClientHeld, Retired
    PROVE  /\ net' \in Net /\ open' = {} /\ net'.live \subseteq open'
           /\ transport' \in Transport /\ transport'.handle = 0
<1>1. net' \in Net /\ open' = {} /\ net'.live \subseteq open'
  BY ClosedEffect DEF Retired
<1>2. transport' = [transport EXCEPT !.handle = 0] /\ transport \in Transport
  BY ClientShapes DEF Retired
<1>3. transport' \in Transport /\ transport'.handle = 0
  BY <1>2 DEF Transport
<1> QED
  BY <1>1, <1>3

\* What the other steps edit.
LEMMA ClientParts ==
    ASSUME ClientTypeOK
    PROVE  /\ reconnect \in Reconnect /\ reconnect.exists \in BOOLEAN
           /\ reconnect.cancelled \in BOOLEAN /\ reconnect.cancellable \in BOOLEAN
           /\ reconnect.generation \in Nat
           /\ worker \in Worker /\ worker.pc \in WorkerSteps
           /\ worker.failed \in BOOLEAN /\ worker.stale \in Nat /\ worker.stale <= last
           /\ worker.attempts \in Nat /\ worker.hookFailures \in 0 .. MaxHookFailures
           /\ closer \in Closer /\ closer.late \in BOOLEAN /\ closer.unseen \in BOOLEAN
           /\ closer.pc \in {"idle", "joining", "tearing", "closed"}
           /\ calls \in [Callers -> Call]
           /\ \A c \in Callers :
                /\ calls[c] \in Call /\ calls[c].handle \in Nat
                /\ calls[c].handle <= last /\ calls[c].count \in 0 .. MaxCalls
<1>1. /\ reconnect \in Reconnect /\ worker \in Worker /\ worker.stale <= last
      /\ closer \in Closer /\ calls \in [Callers -> Call]
      /\ \A c \in Callers : calls[c].handle <= last
  BY DEF ClientTypeOK
<1>2. /\ reconnect.exists \in BOOLEAN /\ reconnect.cancelled \in BOOLEAN
      /\ reconnect.cancellable \in BOOLEAN /\ reconnect.generation \in Nat
  BY <1>1 DEF Reconnect
<1>3. /\ worker.pc \in WorkerSteps /\ worker.failed \in BOOLEAN
      /\ worker.stale \in Nat /\ worker.attempts \in Nat
      /\ worker.hookFailures \in 0 .. MaxHookFailures
  BY <1>1 DEF Worker
<1>4. /\ closer.late \in BOOLEAN /\ closer.unseen \in BOOLEAN
      /\ closer.pc \in {"idle", "joining", "tearing", "closed"}
  BY <1>1 DEF Closer
<1>5. \A c \in Callers : calls[c] \in Call
  BY <1>1
<1>6. \A c \in Callers : calls[c].handle \in Nat /\ calls[c].count \in 0 .. MaxCalls
  BY <1>5 DEF Call
<1> QED
  BY <1>1, <1>2, <1>3, <1>4, <1>5, <1>6

\* A caller goes on: its record changes and no other.
LEMMA CallEdit ==
    ASSUME ClientTypeOK, NEW c \in Callers, NEW e \in Call, e.handle <= last,
           calls' = [calls EXCEPT ![c] = e]
    PROVE  /\ calls' \in [Callers -> Call] /\ calls'[c] = e
           /\ \A d \in Callers : d # c => calls'[d] = calls[d]
           /\ \A d \in Callers : calls'[d].handle <= last
<1>1. calls \in [Callers -> Call] /\ \A d \in Callers : calls[d].handle <= last
  BY ClientParts
<1>2. calls' \in [Callers -> Call] /\ calls'[c] = e
      /\ \A d \in Callers : d # c => calls'[d] = calls[d]
  <2> HIDE DEF Call
  <2> QED
    BY <1>1
<1> QED
  BY <1>1, <1>2

\* The worker returns to its select.
LEMMA ReturnsEffect ==
    ASSUME ClientTypeOK, Returns
    PROVE  worker' \in Worker /\ worker'.pc = "select" /\ worker'.stale = 0
<1>1. worker \in Worker
  BY ClientParts
<1>2. PICK f \in BOOLEAN : f = FALSE
  OBVIOUS
<1>3. worker' = [worker EXCEPT !.pc = "select", !.attempts = 0, !.failed = f, !.stale = 0]
  BY <1>2 DEF Returns
<1> QED
  BY <1>1, <1>3 DEF Worker, WorkerSteps

\* The worker goes on in its attempt.
LEMMA WorkerAt ==
    ASSUME ClientTypeOK, NEW pc \in WorkerSteps,
           worker' = [worker EXCEPT !.pc = pc]
    PROVE  /\ worker' \in Worker /\ worker'.pc = pc /\ worker'.stale = worker.stale
           /\ worker'.failed = worker.failed
<1>1. worker \in Worker
  BY ClientParts
<1> QED
  BY <1>1 DEF Worker

\* A step that leaves the library, the transport, Close and the worker's attempt alone.
LEMMA ClientFrame ==
    ASSUME ClientInv, UNCHANGED <<open, last, transport, closer>>,
           net' \in Net, net'.live \subseteq open,
           reconnect' \in Reconnect, reconnect'.exists = reconnect.exists,
           worker' \in Worker, worker'.pc = worker.pc,
           worker'.stale = worker.stale, worker'.failed = worker.failed,
           calls' \in [Callers -> Call],
           \A c \in Callers : /\ calls'[c].handle <= last
                              /\ \/ calls'[c].pc \notin {"enabling", "starting"}
                                 \/ calls'[c] = calls[c]
    PROVE  ClientInv'
<1>1. ClientTypeOK'
  BY DEF ClientInv, ClientTypeOK
<1>2. ClientHeld' /\ WorkerStarted'
  BY DEF ClientInv, ClientHeld, WorkerStarted
<1>3. NothingReopens' /\ AttemptIsFresh'
  BY DEF ClientInv, NothingReopens, AttemptIsFresh
<1> QED
  BY <1>1, <1>2, <1>3 DEF ClientInv

\* A step of the worker that leaves the client, the callers and Close alone.
LEMMA WorkerFrame ==
    ASSUME ClientInv, UNCHANGED <<net, open, last, transport, calls, closer>>,
           reconnect' \in Reconnect, reconnect'.exists = reconnect.exists,
           worker' \in Worker, worker'.stale <= last,
           worker.pc \notin {"none", "gone"}, AttemptIsFresh'
    PROVE  ClientInv'
<1>1. ClientTypeOK'
  BY DEF ClientInv, ClientTypeOK
<1>2. ClientHeld' /\ WorkerStarted'
  BY DEF ClientInv, ClientHeld, WorkerStarted
<1>3. NothingReopens'
  BY DEF ClientInv, NothingReopens
<1> QED
  BY <1>1, <1>2, <1>3 DEF ClientInv

-------------------------------------------------------------------------------
\* The endpoint and the callers.

\* The network breaks and comes back.
LEMMA NetPreserves ==
    ASSUME ClientInv, Break \/ Restore
    PROVE  ClientInv'
<1> USE DEF ClientInv
<1>1. net' \in Net /\ net'.live \subseteq open
  <2>1. CASE Break
    <3>1. net.breaks + 1 \in 0 .. MaxBreaks
      BY <2>1, ClientShapes DEF Break
    <3> QED
      BY <2>1, <3>1 DEF Break, Net
  <2>2. CASE Restore
    <3>1. PICK b \in BOOLEAN : b = TRUE
      OBVIOUS
    <3>2. net' = [net EXCEPT !.up = b] /\ net \in Net /\ net.live \subseteq open
      BY <2>2, <3>1, ClientShapes DEF Restore
    <3> QED
      BY <3>2 DEF Net
  <2> QED
    BY <2>1, <2>2
<1>2. UNCHANGED <<open, last, transport, reconnect, worker, calls, closer>>
  BY DEF Break, Restore
<1> QED
  BY <1>1, <1>2, ClientFrame, ClientParts

\* The steps of a call that do not touch the transport.
LEMMA CallGoesOn ==
    ASSUME ClientInv, NEW c \in Callers,
           \/ CallAbandon(c) \/ CallCopy(c) \/ CallInvoke(c)
           \/ CallForward(c)
    PROVE  ClientInv'
<1> USE DEF ClientInv
<1>1. PICK e \in Call : /\ calls' = [calls EXCEPT ![c] = e] /\ e.handle <= last
                        /\ e.pc \notin {"enabling", "starting"}
  <2>1. calls[c] \in Call /\ calls[c].handle <= last
    BY ClientParts
  <2>2. ASSUME NEW pc \in {"idle", "ensured", "invoking", "panicked"}, NEW h \in Nat,
               h <= last
        PROVE  /\ [calls[c] EXCEPT !.pc = pc] \in Call
               /\ [calls[c] EXCEPT !.pc = pc].handle = calls[c].handle
               /\ [calls[c] EXCEPT !.pc = pc].pc = pc
               /\ [calls[c] EXCEPT !.pc = pc, !.handle = h] \in Call
               /\ [calls[c] EXCEPT !.pc = pc, !.handle = h].handle = h
               /\ [calls[c] EXCEPT !.pc = pc, !.handle = h].pc = pc
    BY <2>1 DEF Call
  <2>3. CASE CallAbandon(c) \/ CallForward(c)
    <3>1. calls' = [calls EXCEPT ![c] = [calls[c] EXCEPT !.pc = "idle"]]
      BY <2>3 DEF CallAbandon, CallForward
    <3>2. /\ [calls[c] EXCEPT !.pc = "idle"] \in Call
          /\ [calls[c] EXCEPT !.pc = "idle"].handle <= last
          /\ [calls[c] EXCEPT !.pc = "idle"].pc \notin {"enabling", "starting"}
      <4>1. transport.handle \in Nat /\ transport.handle <= last
        BY ClientShapes
      <4> QED
        BY <4>1, <2>1, <2>2
    <3> QED
      BY <3>1, <3>2
  <2>4. CASE CallCopy(c)
    <3>1. PICK pc \in {"invoking", "panicked"} :
             calls' = [calls EXCEPT ![c] = [calls[c] EXCEPT !.pc = pc,
                                                            !.handle = transport.handle]]
      BY <2>4 DEF CallCopy
    <3>2. transport.handle \in Nat /\ transport.handle <= last
      BY ClientShapes
    <3> DEFINE e == [calls[c] EXCEPT !.pc = pc, !.handle = transport.handle]
    <3>3. e \in Call /\ e.handle = transport.handle /\ e.pc = pc
      <4>1. PICK h \in Nat : h = transport.handle
        BY <3>2
      <4>2. e = [calls[c] EXCEPT !.pc = pc, !.handle = h]
        BY <4>1
      <4>3. pc \in {"idle", "ensured", "invoking", "panicked"} /\ h <= last
        BY <3>2, <4>1
      <4> HIDE DEF e
      <4> QED
        BY <2>1, <4>1, <4>2, <4>3 DEF Call
    <3>4. calls' = [calls EXCEPT ![c] = e]
      BY <3>1
    <3> HIDE DEF e
    <3>5. e.handle <= last /\ e.pc \notin {"enabling", "starting"}
      BY <3>2, <3>3
    <3> QED
      BY <3>3, <3>4, <3>5
  <2>5. CASE CallInvoke(c)
    <3>1. calls' = [calls EXCEPT ![c] = [calls[c] EXCEPT !.pc = "idle", !.handle = 0]]
      BY <2>5 DEF CallInvoke
    <3>2. 0 \in Nat /\ 0 <= last
      BY ClientShapes
    <3>3. /\ [calls[c] EXCEPT !.pc = "idle", !.handle = 0] \in Call
          /\ [calls[c] EXCEPT !.pc = "idle", !.handle = 0].handle <= last
          /\ [calls[c] EXCEPT !.pc = "idle", !.handle = 0].pc \notin {"enabling", "starting"}
      BY <3>2, <2>2, ZenonT(60)
    <3> QED
      BY <3>1, <3>3
  <2> QED
    BY <2>3, <2>4, <2>5
<1>2. reconnect' \in Reconnect /\ reconnect'.exists = reconnect.exists
  <2>1. PICK b \in BOOLEAN : b = TRUE
    OBVIOUS
  <2>2. reconnect' = reconnect \/ reconnect' = [reconnect EXCEPT !.disconnected = b]
    BY <2>1 DEF CallAbandon, CallCopy, CallInvoke, CallForward
  <2> QED
    BY <2>2, ClientParts DEF Reconnect
<1>3. UNCHANGED <<net, open, last, transport, worker, closer>>
  BY DEF CallAbandon, CallCopy, CallInvoke, CallForward
<1>4. /\ calls' \in [Callers -> Call]
      /\ \A d \in Callers : /\ calls'[d].handle <= last
                            /\ \/ calls'[d].pc \notin {"enabling", "starting"}
                               \/ calls'[d] = calls[d]
  BY <1>1, CallEdit
<1> QED
  BY <1>2, <1>3, <1>4, ClientFrame, ClientParts, ClientShapes

\* The first use publishes the reconnect state, then its cancel function.
LEMMA EnablePreserves ==
    ASSUME ClientInv, NEW c \in Callers, CallEnable(c) \/ CallArm(c)
    PROVE  ClientInv'
<1> USE DEF ClientInv
<1>1. UNCHANGED <<net, open, last, transport, worker, closer>>
  BY DEF CallEnable, CallArm
<1>2. reconnect' \in Reconnect /\ reconnect'.exists
  <2>1. PICK b \in BOOLEAN : b = TRUE
    OBVIOUS
  <2>2. CASE CallEnable(c)
    <3>1. reconnect' = [reconnect EXCEPT !.exists = b]
      BY <2>1, <2>2 DEF CallEnable
    <3> QED
      BY <2>1, <3>1, ClientParts DEF Reconnect
  <2>3. CASE CallArm(c)
    <3>1. reconnect' = [reconnect EXCEPT !.cancellable = b] /\ reconnect.exists
      BY <2>1, <2>3 DEF CallArm, WorkerStarted
    <3> QED
      BY <3>1, ClientParts DEF Reconnect
  <2> QED
    BY <2>2, <2>3
<1>3. PICK e \in Call : /\ calls' = [calls EXCEPT ![c] = e] /\ e.handle <= last
                        /\ e.count < MaxCalls
  <2>1. calls[c] \in Call /\ calls[c].handle <= last
    BY ClientParts
  <2>2. PICK pc \in {"enabling", "starting"} :
           /\ calls' = [calls EXCEPT ![c] = [calls[c] EXCEPT !.pc = pc]]
           /\ calls[c].count < MaxCalls
    BY DEF CallEnable, CallArm, WorkerStarted
  <2>3. /\ [calls[c] EXCEPT !.pc = pc] \in Call
        /\ [calls[c] EXCEPT !.pc = pc].handle = calls[c].handle
        /\ [calls[c] EXCEPT !.pc = pc].count = calls[c].count
    BY <2>1 DEF Call
  <2> QED
    BY <2>1, <2>2, <2>3
<1>4. /\ calls' \in [Callers -> Call]
      /\ \A d \in Callers : /\ calls'[d].handle <= last
                            /\ calls'[d].count < MaxCalls \/ calls'[d] = calls[d]
  BY <1>3, CallEdit
<1>5. ClientTypeOK'
  BY <1>1, <1>2, <1>4 DEF ClientTypeOK
<1>6. ClientHeld' /\ WorkerStarted' /\ NothingReopens' /\ AttemptIsFresh'
  BY <1>1, <1>2, <1>4 DEF ClientHeld, WorkerStarted, NothingReopens, AttemptIsFresh
<1> QED
  BY <1>5, <1>6

\* ensureClient of a call: one that is late or starts the worker behind Close is noted,
\* another only brings a client.
LEMMA EnsurePreserves ==
    ASSUME ClientInv, NEW c \in Callers, CallEnsure(c)
    PROVE  ClientInv'
<1> USE DEF ClientInv
<1>0. Ensured
  BY DEF CallEnsure
<1>1. /\ net' \in Net /\ net'.live \subseteq open'
      /\ last' \in Nat /\ last <= last' /\ open' \subseteq 1 .. last'
      /\ transport' \in Transport /\ transport'.handle <= last'
      /\ ClientHeld'
      /\ transport'.handle = transport.handle \/ transport'.handle > last
  BY <1>0, EnsuredEffect
<1>2. UNCHANGED reconnect /\ reconnect \in Reconnect
  BY ClientParts DEF CallEnsure
<1>3. /\ worker' \in Worker /\ worker'.stale = worker.stale
      /\ worker'.failed = worker.failed
      /\ worker'.pc = IF StartsWorker THEN "select" ELSE worker.pc
  <2>1. PICK pc \in WorkerSteps : pc = IF StartsWorker THEN "select" ELSE worker.pc
    BY ClientParts DEF WorkerSteps
  <2>2. worker' = [worker EXCEPT !.pc = pc]
    BY <2>1 DEF CallEnsure
  <2> QED
    BY <2>1, <2>2, WorkerAt
<1>4. PICK e \in Call : /\ calls' = [calls EXCEPT ![c] = e] /\ e.handle <= last
                        /\ e.pc \notin {"enabling", "starting"}
  <2>1. calls[c] \in Call /\ calls[c].handle <= last /\ calls[c].count \in 0 .. MaxCalls
    BY ClientParts
  <2>2. PICK pc \in {"idle", "ensured"} :
           calls' = [calls EXCEPT ![c] = [calls[c] EXCEPT !.count = calls[c].count + 1, !.pc = pc]]
    BY DEF CallEnsure
  <2>3. calls[c].count + 1 \in 0 .. MaxCalls
    BY <2>1 DEF CallEnsure, InEnsure, WorkerStarted
  <2>4. PICK n \in 0 .. MaxCalls : n = calls[c].count + 1
    BY <2>3
  <2>5. /\ [calls[c] EXCEPT !.count = n, !.pc = pc] \in Call
        /\ [calls[c] EXCEPT !.count = n, !.pc = pc].handle = calls[c].handle
        /\ [calls[c] EXCEPT !.count = n, !.pc = pc].pc = pc
    BY <2>1 DEF Call
  <2> QED
    BY <2>1, <2>2, <2>4, <2>5
<1>5. /\ calls' \in [Callers -> Call]
      /\ \A d \in Callers : /\ calls'[d].handle <= last /\ calls'[d].handle \in Nat
                            /\ \/ calls'[d].pc \notin {"enabling", "starting"}
                               \/ calls'[d] = calls[d]
  <2>1. /\ calls' \in [Callers -> Call]
        /\ \A d \in Callers : /\ calls'[d].handle <= last
                              /\ \/ calls'[d].pc \notin {"enabling", "starting"}
                                 \/ calls'[d] = calls[d]
    BY <1>4, CallEdit
  <2>2. \A d \in Callers : calls'[d] \in Call
    BY <2>1
  <2>3. \A d \in Callers : calls'[d].handle \in Nat
    BY <2>2 DEF Call
  <2> QED
    BY <2>1, <2>3
<1>6. /\ closer' \in Closer /\ closer'.pc = closer.pc
      /\ closer'.late <=> closer.late \/ closer.pc = "closed"
      /\ closer'.unseen <=>
           closer.unseen \/ (StartsWorker /\ closer.pc \in {"tearing", "closed"})
  <2>1. PICK l \in BOOLEAN : l = (closer.late \/ closer.pc = "closed")
    BY ClientParts, Zenon
  <2>2. PICK s \in BOOLEAN :
           s = (closer.unseen \/ (StartsWorker /\ closer.pc \in {"tearing", "closed"}))
    BY ClientParts, Zenon DEF StartsWorker
  <2>3. closer' = [closer EXCEPT !.late = l, !.unseen = s]
    BY <2>1, <2>2, Zenon DEF CallEnsure
  <2>4. closer' \in Closer /\ closer'.pc = closer.pc /\ closer'.late = l /\ closer'.unseen = s
    BY <2>3, ClientParts DEF Closer
  <2> QED
    BY <2>1, <2>2, <2>4, Zenon
<1>7. ClientTypeOK'
  <2>1. worker'.stale <= last' /\ \A d \in Callers : calls'[d].handle <= last'
    BY <1>1, <1>3, <1>5, ClientParts, ClientShapes
  <2> QED
    BY <2>1, <1>1, <1>2, <1>3, <1>5, <1>6 DEF ClientTypeOK
<1>8. WorkerStarted'
  <2>1. reconnect.exists
    BY DEF CallEnsure, InEnsure, WorkerStarted
  <2> QED
    BY <2>1, <1>2, <1>5 DEF WorkerStarted
<1>9. NothingReopens'
  BY <1>3, <1>6 DEF NothingReopens, StartsWorker
<1>10. AttemptIsFresh'
  <2>1. transport'.handle \in Nat
    BY <1>1 DEF Transport
  <2>2. /\ transport.handle > worker.stale => transport'.handle > worker.stale
        /\ transport.handle = 0 => transport'.handle = 0 \/ transport'.handle > worker.stale
        /\ transport.handle # 0 => transport'.handle # 0
    BY <2>1, <1>1, ClientShapes, ClientParts
  <2> QED
    BY <2>2, <1>3, <1>6 DEF AttemptIsFresh
<1> QED
  BY <1>1, <1>7, <1>8, <1>9, <1>10

-------------------------------------------------------------------------------
\* The worker.

\* The worker gives the client back.
LEMMA RetirePreserves ==
    ASSUME ClientInv, Retired, UNCHANGED <<last, reconnect, calls, closer>>,
           worker' \in Worker, worker'.stale <= last,
           worker'.pc \in {"select", "open"}, worker.pc \notin {"none", "gone"}
    PROVE  ClientInv'
<1> USE DEF ClientInv
<1>1. /\ net' \in Net /\ open' = {} /\ net'.live \subseteq open'
      /\ transport' \in Transport /\ transport'.handle = 0
  BY RetiredEffect
<1>2. ClientTypeOK'
  BY <1>1, ClientShapes, ClientParts DEF ClientTypeOK
<1>3. ClientHeld' /\ WorkerStarted' /\ NothingReopens' /\ AttemptIsFresh'
  BY <1>1 DEF ClientHeld, WorkerStarted, NothingReopens, AttemptIsFresh
<1> QED
  BY <1>2, <1>3

\* The worker leaves its attempt, or has not opened a client yet.
LEMMA WorkerLeaves ==
    ASSUME ClientInv, UNCHANGED <<net, open, last, transport, calls, closer>>,
           reconnect' \in Reconnect, reconnect'.exists = reconnect.exists,
           worker' \in Worker, worker'.stale <= last,
           worker.pc \notin {"none", "gone"}, worker'.pc \in {"select", "gone", "retire"}
    PROVE  ClientInv'
<1>1. AttemptIsFresh'
  BY DEF AttemptIsFresh
<1> QED
  BY <1>1, WorkerFrame

\* A worker returns.
LEMMA WorkerReturns ==
    ASSUME ClientInv, UNCHANGED <<net, open, last, transport, calls, closer>>,
           reconnect' \in Reconnect, reconnect'.exists = reconnect.exists,
           Returns, worker.pc \notin {"none", "gone"}
    PROVE  ClientInv'
<1>1. worker' \in Worker /\ worker'.pc = "select" /\ worker'.stale = 0
  BY ReturnsEffect DEF ClientInv
<1>2. worker'.stale <= last
  BY <1>1, ClientShapes DEF ClientInv
<1> QED
  BY <1>1, <1>2, WorkerLeaves

\* A worker retires the transport and returns.
LEMMA ReturnsRetired ==
    ASSUME ClientInv, Returns, Retired,
           UNCHANGED <<last, reconnect, calls, closer>>, worker.pc \notin {"none", "gone"}
    PROVE  ClientInv'
<1>1. worker' \in Worker /\ worker'.pc = "select" /\ worker'.stale = 0
  BY ReturnsEffect DEF ClientInv
<1>2. worker'.stale <= last
  BY <1>1, ClientShapes DEF ClientInv
<1> QED
  BY <1>1, <1>2, RetirePreserves

\* Between two attempts.
LEMMA WaitPreserves ==
    ASSUME ClientInv, WorkerTick \/ WorkerExit \/ WorkerWake
    PROVE  ClientInv'
<1>1. UNCHANGED <<net, open, last, transport, reconnect, calls, closer>>
  BY DEF WorkerTick, WorkerExit, WorkerWake
<1>2. reconnect \in Reconnect /\ worker \in Worker /\ worker.stale <= last
  BY ClientParts DEF ClientInv
<1>3. CASE WorkerTick
  <2>1. PICK h \in Nat : h = transport.handle /\ h <= last
    BY ClientShapes DEF ClientInv
  <2>2. worker' = [worker EXCEPT !.pc = "retire", !.stale = h] /\ worker.pc = "select"
    BY <1>3, <2>1 DEF WorkerTick
  <2>3. worker' \in Worker /\ worker'.pc = "retire" /\ worker'.stale = h
    BY <1>2, <2>2 DEF Worker, WorkerSteps
  <2> QED
    BY <1>1, <1>2, <2>1, <2>2, <2>3, WorkerLeaves
<1>4. CASE WorkerExit
  <2>1. worker' = [worker EXCEPT !.pc = "gone"] /\ worker.pc = "select"
    BY <1>4 DEF WorkerExit
  <2>2. "gone" \in WorkerSteps
    BY DEF WorkerSteps
  <2>3. worker' \in Worker /\ worker'.pc = "gone" /\ worker'.stale = worker.stale
    BY <2>1, <2>2, WorkerAt DEF ClientInv
  <2> QED
    BY <1>1, <1>2, <2>1, <2>3, WorkerLeaves
<1>5. CASE WorkerWake /\ reconnect.cancelled
  BY <1>1, <1>2, <1>5, WorkerReturns DEF WorkerWake
<1>6. CASE WorkerWake /\ ~reconnect.cancelled
  <2>1. worker' = [worker EXCEPT !.pc = "retire"] /\ worker.pc = "sleep"
    BY <1>6 DEF WorkerWake
  <2>2. "retire" \in WorkerSteps
    BY DEF WorkerSteps
  <2>3. worker' \in Worker /\ worker'.pc = "retire" /\ worker'.stale = worker.stale
    BY <2>1, <2>2, WorkerAt DEF ClientInv
  <2> QED
    BY <1>1, <1>2, <2>1, <2>3, WorkerLeaves
<1> QED
  BY <1>3, <1>4, <1>5, <1>6

\* The client that broke is retired.
LEMMA RetireStep ==
    ASSUME ClientInv, WorkerRetire
    PROVE  ClientInv'
<1>1. /\ UNCHANGED <<last, reconnect, calls, closer>> /\ worker.pc = "retire"
      /\ reconnect \in Reconnect /\ worker.stale <= last
  BY ClientParts DEF ClientInv, WorkerRetire
<1>2. CASE reconnect.cancelled
  BY <1>1, <1>2, WorkerReturns DEF WorkerRetire
<1>3. CASE ~reconnect.cancelled
  <2>1. worker' = [worker EXCEPT !.pc = "open"] /\ Retired
    BY <1>3 DEF WorkerRetire
  <2>2. "open" \in WorkerSteps
    BY DEF WorkerSteps
  <2>3. worker' \in Worker /\ worker'.pc = "open" /\ worker'.stale = worker.stale
    BY <2>1, <2>2, WorkerAt DEF ClientInv
  <2> QED
    BY <1>1, <2>1, <2>3, RetirePreserves
<1> QED
  BY <1>2, <1>3

\* A client is opened, or the one a call opened meanwhile is found.
LEMMA OpenStep ==
    ASSUME ClientInv, WorkerOpen
    PROVE  ClientInv'
<1> USE DEF ClientInv
<1>1. /\ UNCHANGED <<reconnect, calls, closer>> /\ worker.pc = "open"
      /\ reconnect \in Reconnect /\ worker.stale <= last
  BY ClientParts DEF WorkerOpen
<1>2. CASE reconnect.cancelled
  BY <1>1, <1>2, WorkerReturns DEF WorkerOpen
<1>3. CASE ~reconnect.cancelled
  <2>1. /\ Ensured
        /\ worker' = [worker EXCEPT !.pc = "opened", !.failed = EnsureFails]
    BY <1>3 DEF WorkerOpen
  <2>2. /\ net' \in Net /\ net'.live \subseteq open'
        /\ last' \in Nat /\ last <= last' /\ open' \subseteq 1 .. last'
        /\ transport' \in Transport /\ transport'.handle <= last'
        /\ ClientHeld'
        /\ transport'.handle = transport.handle \/ transport'.handle > last
        /\ ~EnsureFails => transport'.handle # 0
    BY <2>1, EnsuredEffect
  <2>3. /\ worker' \in Worker /\ worker'.pc = "opened"
        /\ worker'.stale = worker.stale /\ (~worker'.failed => transport'.handle # 0)
    <3>1. PICK f \in BOOLEAN : f = EnsureFails
      BY DEF EnsureFails
    <3>2. worker' = [worker EXCEPT !.pc = "opened", !.failed = f]
      BY <2>1, <3>1
    <3>3. worker' \in Worker /\ worker'.pc = "opened"
          /\ worker'.stale = worker.stale /\ worker'.failed = f
      BY <3>2, ClientParts DEF Worker, WorkerSteps
    <3> QED
      BY <2>2, <3>1, <3>3
  <2>4. transport'.handle \in Nat
    BY <2>2 DEF Transport
  <2>5. worker.stale <= last' /\ \A d \in Callers : calls[d].handle <= last'
    BY <2>2, ClientShapes, ClientParts
  <2>6. ClientTypeOK'
    BY <1>1, <2>2, <2>3, <2>5, ClientParts DEF ClientTypeOK
  <2>7. WorkerStarted' /\ NothingReopens'
    BY <1>1, <2>3 DEF WorkerStarted, NothingReopens
  <2>8. transport'.handle = 0 \/ transport'.handle > worker.stale
    BY <1>1, <2>2, <2>4, ClientShapes, ClientParts DEF AttemptIsFresh
  <2>9. AttemptIsFresh'
    BY <2>3, <2>8 DEF AttemptIsFresh
  <2> QED
    BY <2>2, <2>6, <2>7, <2>9
<1> QED
  BY <1>2, <1>3

\* The hook and the checks around it.
LEMMA HookStep ==
    ASSUME ClientInv, WorkerOpened \/ WorkerHook
    PROVE  ClientInv'
<1> USE DEF ClientInv
<1>1. /\ UNCHANGED <<last, reconnect, calls, closer>> /\ worker.pc \in {"opened", "hook"}
      /\ reconnect \in Reconnect /\ worker.stale <= last /\ worker \in Worker
  BY ClientParts DEF WorkerOpened, WorkerHook
<1>2. CASE WorkerOpened /\ reconnect.cancelled
  BY <1>1, <1>2, ReturnsRetired DEF WorkerOpened
<1>3. CASE WorkerHook \/ (WorkerOpened /\ ~reconnect.cancelled)
  <2>1. UNCHANGED <<net, open, transport>>
    BY <1>3 DEF WorkerOpened, WorkerHook
  <2>2. /\ worker' \in Worker /\ worker'.pc \in {"hook", "settle"}
        /\ worker'.stale = worker.stale /\ (~worker'.failed => ~worker.failed)
    <3>1. CASE WorkerOpened /\ ~reconnect.cancelled
      <4>1. PICK pc \in {"hook", "settle"} : worker' = [worker EXCEPT !.pc = pc]
        BY <3>1 DEF WorkerOpened
      <4>2. pc \in WorkerSteps
        BY DEF WorkerSteps
      <4> QED
        BY <4>1, <4>2, WorkerAt
    <3>2. CASE WorkerHook /\ worker' = [worker EXCEPT !.pc = "settle"]
      <4>1. "settle" \in WorkerSteps
        BY DEF WorkerSteps
      <4> QED
        BY <3>2, <4>1, WorkerAt
    <3>3. CASE /\ worker.hookFailures < MaxHookFailures
               /\ worker' = [worker EXCEPT !.pc = "settle", !.failed = TRUE,
                                           !.hookFailures = @ + 1]
      <4>1. PICK f \in BOOLEAN : f = TRUE
        OBVIOUS
      <4>2. PICK h \in 0 .. MaxHookFailures : h = worker.hookFailures + 1
        BY <3>3, ClientParts
      <4>3. worker' = [worker EXCEPT !.pc = "settle", !.failed = f, !.hookFailures = h]
        BY <3>3, <4>1, <4>2
      <4>4. /\ worker' \in Worker /\ worker'.pc = "settle"
            /\ worker'.stale = worker.stale /\ worker'.failed = f
        BY <1>1, <4>3 DEF Worker, WorkerSteps
      <4> QED
        BY <4>1, <4>4
    <3> QED
      BY <1>3, <3>1, <3>2, <3>3 DEF WorkerHook
  <2>3. AttemptIsFresh'
    BY <1>1, <2>1, <2>2 DEF AttemptIsFresh
  <2> QED
    BY <1>1, <2>1, <2>2, <2>3, WorkerFrame
<1> QED
  BY <1>2, <1>3

\* The attempt is settled.
LEMMA SettleStep ==
    ASSUME ClientInv, WorkerSettle
    PROVE  ClientInv'
<1> USE DEF ClientInv
<1>1. /\ UNCHANGED <<last, calls, closer>> /\ worker.pc = "settle"
      /\ reconnect \in Reconnect /\ worker.stale <= last /\ worker \in Worker
  BY ClientParts DEF WorkerSettle
<1>2. CASE reconnect.cancelled
  BY <1>1, <1>2, ReturnsRetired DEF WorkerSettle
<1>3. CASE ~reconnect.cancelled /\ worker.failed
  <2>1. UNCHANGED <<net, open, transport, reconnect>> /\ AfterFailure
    BY <1>3 DEF WorkerSettle
  <2>2. CASE Returns
    BY <1>1, <2>1, <2>2, WorkerReturns
  <2>3. CASE worker' = [worker EXCEPT !.pc = "sleep", !.failed = FALSE,
                           !.attempts = IF transport.limit = 0 THEN 0 ELSE @ + 1]
    <3>1. PICK f \in BOOLEAN : f = FALSE
      OBVIOUS
    <3>2. PICK a \in Nat : a = IF transport.limit = 0 THEN 0 ELSE worker.attempts + 1
      BY ClientParts
    <3>3. worker' = [worker EXCEPT !.pc = "sleep", !.failed = f, !.attempts = a]
      BY <2>3, <3>1, <3>2
    <3>4. worker' \in Worker /\ worker'.pc = "sleep" /\ worker'.stale = worker.stale
      BY <1>1, <3>3 DEF Worker, WorkerSteps
    <3>5. AttemptIsFresh'
      BY <1>1, <2>1, <3>4 DEF AttemptIsFresh
    <3> QED
      BY <1>1, <2>1, <3>4, <3>5, WorkerFrame
  <2> QED
    BY <2>1, <2>2, <2>3 DEF AfterFailure
<1>4. CASE ~reconnect.cancelled /\ ~worker.failed
  <2>1. /\ UNCHANGED <<net, open, transport>> /\ Returns
        /\ reconnect' = [reconnect EXCEPT !.disconnected = FALSE, !.generation = @ + 1]
    BY <1>4 DEF WorkerSettle
  <2>2. reconnect' \in Reconnect /\ reconnect'.exists = reconnect.exists
    <3>1. PICK f \in BOOLEAN : f = FALSE
      OBVIOUS
    <3>2. PICK g \in Nat : g = reconnect.generation + 1
      BY ClientParts
    <3>3. reconnect' = [reconnect EXCEPT !.disconnected = f, !.generation = g]
      BY <2>1, <3>1, <3>2
    <3> QED
      BY <1>1, <3>3 DEF Reconnect
  <2> QED
    BY <1>1, <2>1, <2>2, WorkerReturns
<1> QED
  BY <1>2, <1>3, <1>4

-------------------------------------------------------------------------------
\* Close.

\* The steps of Close before it takes the client away: where they lead to the
\* teardown, no worker is left.
LEMMA JoinPreserves ==
    ASSUME ClientInv, CloseBegin \/ CloseJoin
    PROVE  ClientInv'
<1> USE DEF ClientInv
<1>1. UNCHANGED <<net, open, last, transport, worker, calls>>
  BY DEF CloseBegin, CloseJoin
<1>2. /\ closer' \in Closer /\ closer'.late = closer.late /\ closer'.unseen = closer.unseen
      /\ closer'.pc \in {"joining", "tearing"}
      /\ closer'.pc = "tearing" => worker.pc \in {"none", "gone"}
  <2>1. closer \in Closer
    BY ClientParts
  <2>2. CASE CloseBegin
    <3>1. PICK pc \in {"joining", "tearing"} : /\ closer' = [closer EXCEPT !.pc = pc]
                                               /\ pc = "tearing" => ~reconnect.exists
      BY <2>2 DEF CloseBegin
    <3>2. /\ closer' \in Closer /\ closer'.late = closer.late /\ closer'.unseen = closer.unseen
          /\ closer'.pc = pc
      BY <2>1, <3>1 DEF Closer
    <3> QED
      BY <3>1, <3>2 DEF WorkerStarted
  <2>3. CASE CloseJoin
    <3>1. closer' = [closer EXCEPT !.pc = "tearing"] /\ worker.pc \in {"none", "gone"}
      BY <2>3 DEF CloseJoin
    <3>2. /\ closer' \in Closer /\ closer'.late = closer.late /\ closer'.unseen = closer.unseen
          /\ closer'.pc = "tearing"
      BY <2>1, <3>1 DEF Closer
    <3> QED
      BY <3>1, <3>2
  <2> QED
    BY <2>2, <2>3
<1>3. reconnect' \in Reconnect /\ reconnect'.exists = reconnect.exists
  <2>1. PICK b \in BOOLEAN : b = reconnect.cancellable
    BY ClientParts
  <2>2. reconnect' = reconnect \/ reconnect' = [reconnect EXCEPT !.cancelled = b]
    BY <2>1 DEF CloseBegin, CloseJoin
  <2> QED
    BY <2>2, ClientParts DEF Reconnect
<1>4. ClientTypeOK'
  BY <1>1, <1>2, <1>3 DEF ClientTypeOK
<1>5. ClientHeld' /\ WorkerStarted' /\ NothingReopens' /\ AttemptIsFresh'
  BY <1>1, <1>2, <1>3 DEF ClientHeld, WorkerStarted, NothingReopens, AttemptIsFresh
<1> QED
  BY <1>4, <1>5

\* Close tears the transport down.
LEMMA TeardownPreserves ==
    ASSUME ClientInv, CloseTeardown
    PROVE  ClientInv'
<1> USE DEF ClientInv
<1>1. UNCHANGED <<last, reconnect, worker, calls>> /\ closer.pc = "tearing"
  BY DEF CloseTeardown
<1>2. net' \in Net /\ open' = {} /\ net'.live \subseteq open'
  BY ClosedEffect DEF CloseTeardown
<1>3. transport' \in Transport /\ transport'.handle = 0
  <2>1. PICK b \in BOOLEAN : b = FALSE
    OBVIOUS
  <2>2. transport' = [transport EXCEPT !.bridge = b, !.handle = 0]
    BY <2>1 DEF CloseTeardown
  <2> QED
    BY <2>2, ClientShapes DEF Transport
<1>4. /\ closer' \in Closer /\ closer'.late = closer.late /\ closer'.unseen = closer.unseen
      /\ closer'.pc = "closed"
  <2>1. closer' = [closer EXCEPT !.pc = "closed"]
    BY DEF CloseTeardown
  <2> QED
    BY <2>1, ClientParts DEF Closer
<1>5. ClientTypeOK'
  BY <1>1, <1>2, <1>3, <1>4, ClientShapes, ClientParts DEF ClientTypeOK
<1>6. ClientHeld' /\ WorkerStarted' /\ NothingReopens'
  BY <1>1, <1>2, <1>3, <1>4 DEF ClientHeld, WorkerStarted, NothingReopens
<1>7. AttemptIsFresh'
  BY <1>1, <1>3, <1>4 DEF NothingReopens, AttemptIsFresh
<1> QED
  BY <1>5, <1>6, <1>7

\* A new client.
LEMMA ClientInitEstablishes ==
    ASSUME ClientInit
    PROVE  ClientInv
<1>1. net \in Net /\ net.live = {}
  BY DEF ClientInit, Net
<1>2. transport \in Transport /\ transport.handle = 0
  <2>1. PICK s \in BOOLEAN, l \in BOOLEAN, m \in Limits, b \in BOOLEAN :
           transport = [signing |-> s, loop |-> l, limit |-> m, bridge |-> b, handle |-> 0]
    BY DEF ClientInit
  <2> QED
    BY <2>1 DEF Transport
<1>3. reconnect \in Reconnect
  <2>1. PICK f \in BOOLEAN : f = FALSE
    OBVIOUS
  <2>2. reconnect = [exists |-> f, cancellable |-> f, disconnected |-> f, cancelled |-> f,
                     generation |-> 0]
    BY <2>1 DEF ClientInit
  <2> QED
    BY <2>2 DEF Reconnect
<1>4. worker \in Worker /\ worker.pc = "none" /\ worker.stale = 0
  <2>1. PICK f \in BOOLEAN : f = FALSE
    OBVIOUS
  <2>2. worker = [pc |-> "none", attempts |-> 0, failed |-> f, stale |-> 0,
                  hookFailures |-> 0]
    BY <2>1 DEF ClientInit
  <2> QED
    BY <2>2 DEF Worker, WorkerSteps
<1>5. /\ calls \in [Callers -> Call]
      /\ \A c \in Callers : calls[c].handle = 0 /\ calls[c].pc = "idle"
  <2>1. [pc |-> "idle", handle |-> 0, count |-> 0] \in Call
    BY DEF Call
  <2> QED
    BY <2>1 DEF ClientInit
<1>6. closer \in Closer /\ closer.pc = "idle"
  <2>1. PICK f \in BOOLEAN : f = FALSE
    OBVIOUS
  <2>2. closer = [pc |-> "idle", late |-> f, unseen |-> f]
    BY <2>1 DEF ClientInit
  <2> QED
    BY <2>2 DEF Closer
<1>7. open = {} /\ last = 0
  BY DEF ClientInit
<1>8. ClientTypeOK
  BY <1>1, <1>2, <1>3, <1>4, <1>5, <1>6, <1>7 DEF ClientTypeOK
<1>9. ClientHeld /\ WorkerStarted /\ NothingReopens /\ AttemptIsFresh
  BY <1>2, <1>4, <1>5, <1>6, <1>7
     DEF ClientHeld, WorkerStarted, NothingReopens, AttemptIsFresh
<1> QED
  BY <1>8, <1>9 DEF ClientInv

\* Every step of the client keeps the invariant.
LEMMA ClientStep ==
    ASSUME ClientInv, [ClientNext]_clientVars
    PROVE  ClientInv'
<1>1. CASE Break \/ Restore
  BY <1>1, NetPreserves
<1>2. ASSUME NEW c \in Callers, CallEnable(c) \/ CallArm(c) PROVE ClientInv'
  BY <1>2, EnablePreserves
<1>3. ASSUME NEW c \in Callers, CallEnsure(c) PROVE ClientInv'
  BY <1>3, EnsurePreserves
<1>4. ASSUME NEW c \in Callers,
             \/ CallAbandon(c) \/ CallCopy(c) \/ CallInvoke(c)
             \/ CallForward(c)
      PROVE  ClientInv'
  BY <1>4, CallGoesOn
<1>5. CASE WorkerTick \/ WorkerExit \/ WorkerWake
  BY <1>5, WaitPreserves
<1>6. CASE WorkerRetire
  BY <1>6, RetireStep
<1>7. CASE WorkerOpen
  BY <1>7, OpenStep
<1>8. CASE WorkerOpened \/ WorkerHook
  BY <1>8, HookStep
<1>9. CASE WorkerSettle
  BY <1>9, SettleStep
<1>10. CASE CloseBegin \/ CloseJoin
  BY <1>10, JoinPreserves
<1>11. CASE CloseTeardown
  BY <1>11, TeardownPreserves
<1>12. CASE UNCHANGED clientVars
  <2>1. UNCHANGED <<net, open, last, transport, reconnect, worker, calls, closer>>
    BY <1>12 DEF clientVars
  <2> QED
    BY <2>1, ClientFrame, ClientShapes, ClientParts DEF ClientInv
<1> QED
  BY <1>1, <1>2, <1>3, <1>4, <1>5, <1>6, <1>7, <1>8, <1>9, <1>10, <1>11, <1>12
     DEF ClientNext, CallStep, WorkerStep, CloseStep

\* The invariant of a transport with any number of callers, one worker and one Close.
THEOREM ClientInvariant == ClientSpec => []ClientInv
<1>1. ClientInit => ClientInv
  BY ClientInitEstablishes
<1>2. ClientInv /\ [ClientNext]_clientVars => ClientInv'
  BY ClientStep
<1> QED
  BY <1>1, <1>2, PTL DEF ClientSpec

\* Every variable of the transport and its worker keeps its type, and no handle is above
\* the last one given out.
THEOREM ClientTypeCorrect == ClientSpec => []ClientTypeOK
<1>1. ClientInv => ClientTypeOK
  BY DEF ClientInv
<1> QED
  BY <1>1, ClientInvariant, PTL

\* No resurrect after Close returns (client.go Close): whatever the worker was doing when
\* it was cancelled, it gave its client back.  Two cases are outside, and the code does
\* reopen a client in them: a call that enters after Close returned, and a first use of
\* the transport that overlaps Close and starts a worker nobody cancels.
THEOREM ClosedTransportsAreQuiet == ClientSpec => []ClosedIsQuiet
<1>1. ClientInv => ClosedIsQuiet
  BY DEF ClientInv, ClientHeld, NothingReopens, ClosedIsQuiet
<1> QED
  BY <1>1, ClientInvariant, PTL

\* driveReconnect advances the generation only on a client newer than the one that broke,
\* although calls open and Close retires clients between its steps.
THEOREM GenerationsAreFresh == ClientSpec => GenerationIsFresh
<1>1. ClientInv /\ [ClientNext]_clientVars =>
         [reconnect'.generation # reconnect.generation =>
            \/ transport.handle \notin {0, worker.stale} /\ ~worker.failed
            \/ closer.unseen]_clientVars
  <2> SUFFICES ASSUME ClientInv, ClientNext,
                      reconnect'.generation # reconnect.generation, ~closer.unseen
               PROVE  transport.handle \notin {0, worker.stale} /\ ~worker.failed
    OBVIOUS
  <2>1. reconnect \in Reconnect
    BY ClientParts DEF ClientInv
  <2>2. ASSUME NEW c \in Callers, CallEnable(c) \/ CallArm(c) \/ CallEnsure(c)
                                  \/ CallInvoke(c)
        PROVE  FALSE
    <3>1. PICK b \in BOOLEAN : b = TRUE
      OBVIOUS
    <3>2. \/ reconnect' = reconnect \/ reconnect' = [reconnect EXCEPT !.exists = b]
          \/ reconnect' = [reconnect EXCEPT !.cancellable = b]
          \/ reconnect' = [reconnect EXCEPT !.disconnected = b]
      BY <2>2, <3>1 DEF CallEnable, CallArm, CallEnsure, CallInvoke
    <3> QED
      BY <2>1, <3>2 DEF Reconnect
  <2>3. ~CloseBegin
    <3> SUFFICES ASSUME CloseBegin PROVE FALSE
      OBVIOUS
    <3>1. PICK b \in BOOLEAN : b = reconnect.cancellable
      BY ClientParts DEF ClientInv
    <3>2. reconnect' = [reconnect EXCEPT !.cancelled = b]
      BY <3>1 DEF CloseBegin
    <3> QED
      BY <2>1, <3>2 DEF Reconnect
  <2>4. WorkerSettle
    BY <2>2, <2>3 DEF ClientNext, CallStep, WorkerStep, CloseStep,
       Break, Restore, CallAbandon, CallCopy,
       CallForward, WorkerTick, WorkerExit, WorkerRetire,
       WorkerOpen, WorkerOpened, WorkerHook, WorkerWake,
       CloseJoin, CloseTeardown
  <2>5. worker.pc = "settle" /\ ~worker.failed
    BY <2>4 DEF WorkerSettle
  <2> QED
    BY <2>5, ClientShapes, ClientParts DEF ClientInv, AttemptIsFresh
<1> QED
  BY <1>1, ClientInvariant, PTL DEF ClientSpec, GenerationIsFresh
===============================================================================
