-------------------------- MODULE RecoveryLogProofs --------------------------
(***************************************************************************)
(* Theorems about RecoveryLog, for every set of runtimes, lease duration   *)
(* and bound: the types, and the fence (one terminal receipt, and none     *)
(* from a runtime that gave the invocation up).                            *)
(*                                                                         *)
(* The invariant only looks at some fields of an execution and of the      *)
(* record.  The effect of each action on them is stated first; the proof   *)
(* of the invariant then works on effects.                                 *)
(***************************************************************************)
EXTENDS RecoveryLog, TLAPS

\* Runtime r's execution has these fields now; the others are as they were.
Becomes(r, status, recovered, suspended, renewing) ==
    /\ exec' \in [Runtimes -> Exec]
    /\ exec'[r].status = status
    /\ exec'[r].recovered = recovered
    /\ exec'[r].suspended = suspended
    /\ exec'[r].renewing = renewing
    /\ \A s \in Runtimes \ {r} : exec'[s] = exec[s]

\* The record has these fields now.
Written(phase, owner, terminal) ==
    /\ record' \in Record
    /\ record'.phase = phase
    /\ record'.owner = owner
    /\ record'.terminal = terminal

RecordKept == Written(record.phase, record.owner, record.terminal)

-------------------------------------------------------------------------------
\* What each edit of an execution does to its fields.
LEMMA EmitEdit ==
    ASSUME NEW e \in Exec, NEW f,
           f = [e EXCEPT !.len = @ + 1]
    PROVE  /\ f \in Exec
           /\ f.status = e.status /\ f.recovered = e.recovered
           /\ f.suspended = e.suspended /\ f.renewing = e.renewing
           /\ f.len = e.len + 1
  <1>1. e.len + 1 \in Nat
    BY DEF Exec
  <1> QED
    BY <1>1, Zenon DEF Exec

LEMMA ClaimEdit ==
    ASSUME NEW e \in Exec, NEW c \in {"ability", "control"}, NEW f,
           f = [e EXCEPT !.status = "claimed", !.claimant = c]
    PROVE  /\ f \in Exec
           /\ f.status = "claimed" /\ f.recovered = e.recovered
           /\ f.suspended = e.suspended /\ f.renewing = e.renewing
           /\ f.len = e.len
  BY Zenon DEF Exec

LEMMA DoneEdit ==
    ASSUME NEW e \in Exec, NEW f,
           f = [e EXCEPT !.done = TRUE]
    PROVE  /\ f \in Exec
           /\ f.status = e.status /\ f.recovered = e.recovered
           /\ f.suspended = e.suspended /\ f.renewing = e.renewing
           /\ f.len = e.len
  BY Zenon DEF Exec

LEMMA FinalizingEdit ==
    ASSUME NEW e \in Exec, NEW f,
           f = [e EXCEPT !.status = "finalizing"]
    PROVE  /\ f \in Exec
           /\ f.status = "finalizing" /\ f.recovered = e.recovered
           /\ f.suspended = e.suspended /\ f.renewing = e.renewing
           /\ f.len = e.len
  BY Zenon DEF Exec

LEMMA SuspendEdit ==
    ASSUME NEW e \in Exec, NEW f,
           f = [e EXCEPT !.suspended = TRUE]
    PROVE  /\ f \in Exec
           /\ f.status = e.status /\ f.recovered = e.recovered
           /\ f.suspended = TRUE /\ f.renewing = e.renewing
           /\ f.len = e.len
  BY Zenon DEF Exec

LEMMA FinalizedEdit ==
    ASSUME NEW e \in Exec, NEW st \in {"terminal", "failed"}, NEW f,
           f = Finalized(e, st)
    PROVE  /\ f \in Exec
           /\ f.status = st /\ f.recovered = e.recovered
           /\ f.suspended = e.suspended /\ f.renewing = e.renewing
           /\ f.len = e.len
  <1> DEFINE d == e.done \/ e.claimant = "ability"
  <1>1. d \in BOOLEAN
    OBVIOUS
  <1>2. f = [e EXCEPT !.status = st, !.done = d]
    BY DEF Finalized
  <1> HIDE DEF d
  <1> QED
    BY <1>1, <1>2, Zenon DEF Exec

LEMMA NewExecFields ==
    ASSUME NEW b \in BOOLEAN, NEW n \in Nat, NEW f, f = NewExec(b, n)
    PROVE  /\ f \in Exec
           /\ f.status = "running" /\ f.recovered = b
           /\ f.suspended = FALSE /\ f.renewing = b
  BY Zenon DEF NewExec, Exec

\* What each write of the record does to its fields.
LEMMA DispatchWrite ==
    ASSUME NEW x \in Record, NEW y,
           y = [x EXCEPT !.phase = "running", !.len = 1]
    PROVE  /\ y \in Record
           /\ y.phase = "running" /\ y.owner = x.owner /\ y.terminal = x.terminal
  <1>1. 1 \in Nat
    OBVIOUS
  <1> QED
    BY <1>1, Zenon DEF Record, Phases

LEMMA AppendWrite ==
    ASSUME NEW x \in Record, NEW y,
           y = [x EXCEPT !.len = @ + 1]
    PROVE  /\ y \in Record
           /\ y.phase = x.phase /\ y.owner = x.owner /\ y.terminal = x.terminal
  <1>1. x.len + 1 \in Nat
    BY DEF Record
  <1> QED
    BY <1>1, Zenon DEF Record

LEMMA FinalizingWrite ==
    ASSUME NEW x \in Record, NEW y,
           y = [x EXCEPT !.phase = "finalizing"]
    PROVE  /\ y \in Record
           /\ y.phase = "finalizing" /\ y.owner = x.owner /\ y.terminal = x.terminal
  BY Zenon DEF Record, Phases

LEMMA CloseWrite ==
    ASSUME NEW x \in Record, NEW y,
           y = [x EXCEPT !.phase = "closed", !.owner = NoOwner, !.until = 0,
                         !.len = @ + 1, !.terminal = TRUE]
    PROVE  /\ y \in Record
           /\ y.phase = "closed" /\ y.owner = NoOwner /\ y.terminal = TRUE
  <1>1. x.len + 1 \in Nat /\ 0 \in Int
    BY DEF Record
  <1> QED
    BY <1>1, Zenon DEF Record, Phases

LEMMA SuspendWrite ==
    ASSUME NEW x \in Record, NEW y,
           y = [x EXCEPT !.phase = "suspended", !.owner = NoOwner, !.until = 0]
    PROVE  /\ y \in Record
           /\ y.phase = "suspended" /\ y.owner = NoOwner /\ y.terminal = x.terminal
  <1>1. 0 \in Int
    OBVIOUS
  <1> QED
    BY <1>1, Zenon DEF Record, Phases

LEMMA RenewWrite ==
    ASSUME NEW x \in Record, NEW t \in Int, NEW y,
           y = [x EXCEPT !.until = t]
    PROVE  /\ y \in Record
           /\ y.phase = x.phase /\ y.owner = x.owner /\ y.terminal = x.terminal
  BY Zenon DEF Record

-------------------------------------------------------------------------------
\* Effects of the actions

LEMMA ExecUpdate ==
    ASSUME TypeOK, NEW r \in Runtimes, NEW e \in Exec, SetExec(r, e)
    PROVE  Becomes(r, e.status, e.recovered, e.suspended, e.renewing)
  BY DEF TypeOK, SetExec, Becomes

LEMMA RecordUnchanged ==
    ASSUME TypeOK, record' = record
    PROVE  RecordKept
  BY DEF TypeOK, RecordKept, Written

LEMMA DispatchEffect ==
    ASSUME TypeOK, NEW r \in Runtimes, Dispatch(r)
    PROVE  /\ Becomes(r, "running", FALSE, FALSE, FALSE)
           /\ Written("running", record.owner, record.terminal)
           /\ record.phase = "none" /\ UNCHANGED <<recov, history>>
  <1>1. record \in Record /\ 1 \in Nat
    BY DEF TypeOK
  <1>2. Written("running", record.owner, record.terminal)
    BY <1>1, DispatchWrite DEF Dispatch, Written
  <1>3. Becomes(r, "running", FALSE, FALSE, FALSE)
    BY <1>1, ExecUpdate, NewExecFields DEF Dispatch
  <1> QED
    BY <1>2, <1>3 DEF Dispatch

LEMMA EmitEventEffect ==
    ASSUME TypeOK, NEW r \in Runtimes, EmitEvent(r)
    PROVE  /\ Becomes(r, "running", exec[r].recovered, exec[r].suspended,
                      exec[r].renewing)
           /\ exec[r].status = "running"
           /\ RecordKept /\ UNCHANGED <<recov, history>>
  <1>1. exec[r] \in Exec /\ record \in Record
    BY DEF TypeOK
  <1>2. PICK f : f = [exec[r] EXCEPT !.len = @ + 1] /\ SetExec(r, f)
    BY DEF EmitEvent
  <1>3. /\ f \in Exec /\ f.status = exec[r].status
        /\ f.recovered = exec[r].recovered
        /\ f.suspended = exec[r].suspended /\ f.renewing = exec[r].renewing
    BY <1>1, <1>2, EmitEdit
  <1>4. RecordKept
    BY <1>1, AppendWrite, RecordUnchanged DEF EmitEvent, RecordKept, Written
  <1> QED
    BY <1>2, <1>3, <1>4, ExecUpdate DEF EmitEvent

LEMMA HandlerReturnsEffect ==
    ASSUME TypeOK, NEW r \in Runtimes, HandlerReturns(r)
    PROVE  /\ RecordKept /\ UNCHANGED <<recov, history>>
           /\ exec[r].status # "none"
           /\ \/ /\ exec[r].status = "running"
                 /\ Becomes(r, "claimed", exec[r].recovered, exec[r].suspended,
                            exec[r].renewing)
              \/ Becomes(r, exec[r].status, exec[r].recovered, exec[r].suspended,
                         exec[r].renewing)
  <1>1. exec[r] \in Exec /\ RecordKept
    BY RecordUnchanged DEF TypeOK, HandlerReturns
  <1>2. CASE exec[r].status = "running" /\ ~exec[r].suspended
    <2>1. PICK f : /\ f = [exec[r] EXCEPT !.status = "claimed", !.claimant = "ability"]
                   /\ SetExec(r, f)
      BY <1>2, SMTT(30) DEF HandlerReturns
    <2>2. /\ f \in Exec /\ f.status = "claimed" /\ f.recovered = exec[r].recovered
          /\ f.suspended = exec[r].suspended /\ f.renewing = exec[r].renewing
      BY <1>1, <2>1, ClaimEdit, ZenonT(60)
    <2>3. Becomes(r, f.status, f.recovered, f.suspended, f.renewing)
      BY <2>1, <2>2, ExecUpdate
    <2> QED
      BY <1>1, <1>2, <2>2, <2>3 DEF HandlerReturns
  <1>3. CASE ~(exec[r].status = "running" /\ ~exec[r].suspended)
    <2>1. PICK f : f = [exec[r] EXCEPT !.done = TRUE] /\ SetExec(r, f)
      BY <1>3 DEF HandlerReturns
    <2>2. /\ f \in Exec /\ f.status = exec[r].status
          /\ f.recovered = exec[r].recovered
          /\ f.suspended = exec[r].suspended /\ f.renewing = exec[r].renewing
      BY <1>1, <2>1, DoneEdit
    <2>3. Becomes(r, f.status, f.recovered, f.suspended, f.renewing)
      BY <2>1, <2>2, ExecUpdate
    <2> QED
      BY <1>1, <2>2, <2>3 DEF HandlerReturns
  <1> QED
    BY <1>2, <1>3

LEMMA ControlClaimsEffect ==
    ASSUME TypeOK, NEW r \in Runtimes, ControlClaims(r)
    PROVE  /\ Becomes(r, "claimed", exec[r].recovered, exec[r].suspended,
                      exec[r].renewing)
           /\ exec[r].status = "running"
           /\ RecordKept /\ UNCHANGED <<recov, history>>
  <1>1. exec[r] \in Exec /\ RecordKept
    BY RecordUnchanged DEF TypeOK, ControlClaims
  <1>2. PICK f : /\ f = [exec[r] EXCEPT !.status = "claimed", !.claimant = "control"]
                 /\ SetExec(r, f)
    BY SMTT(30) DEF ControlClaims
  <1>3. /\ f \in Exec /\ f.status = "claimed" /\ f.recovered = exec[r].recovered
        /\ f.suspended = exec[r].suspended /\ f.renewing = exec[r].renewing
    BY <1>1, <1>2, ClaimEdit
  <1>4. Becomes(r, f.status, f.recovered, f.suspended, f.renewing)
    BY <1>2, <1>3, ExecUpdate
  <1> QED
    BY <1>1, <1>3, <1>4 DEF ControlClaims

LEMMA BeginFinalizationEffect ==
    ASSUME TypeOK, NEW r \in Runtimes, BeginFinalization(r)
    PROVE  /\ exec[r].status = "claimed" /\ UNCHANGED <<recov, history>>
           /\ \/ /\ FinalizationAllowed(r)
                 /\ Becomes(r, "finalizing", exec[r].recovered, exec[r].suspended,
                            exec[r].renewing)
                 /\ Written("finalizing", record.owner, record.terminal)
              \/ /\ Becomes(r, "failed", exec[r].recovered, exec[r].suspended,
                            exec[r].renewing)
                 /\ RecordKept
  <1>1. exec[r] \in Exec /\ record \in Record
    BY DEF TypeOK
  <1>2. \/ /\ FinalizationAllowed(r)
           /\ record' = [record EXCEPT !.phase = "finalizing"]
           /\ SetExec(r, [exec[r] EXCEPT !.status = "finalizing"])
        \/ SetExec(r, Finalized(exec[r], "failed")) /\ UNCHANGED record
    BY DEF BeginFinalization
  <1>3. CASE /\ FinalizationAllowed(r)
             /\ record' = [record EXCEPT !.phase = "finalizing"]
             /\ SetExec(r, [exec[r] EXCEPT !.status = "finalizing"])
    <2>1. PICK f : f = [exec[r] EXCEPT !.status = "finalizing"] /\ SetExec(r, f)
      BY <1>3
    <2>2. Written("finalizing", record.owner, record.terminal)
      BY <1>1, <1>3, FinalizingWrite DEF Written
    <2> QED
      BY <1>1, <1>3, <2>1, <2>2, FinalizingEdit, ExecUpdate DEF BeginFinalization
  <1>4. CASE SetExec(r, Finalized(exec[r], "failed")) /\ UNCHANGED record
    <2>1. PICK f : f = Finalized(exec[r], "failed") /\ SetExec(r, f)
      BY <1>4
    <2> QED
      BY <1>1, <1>4, <2>1, FinalizedEdit, ExecUpdate, RecordUnchanged
      DEF BeginFinalization
  <1> QED
    BY <1>2, <1>3, <1>4

LEMMA CleanupFailsEffect ==
    ASSUME TypeOK, NEW r \in Runtimes, CleanupFails(r)
    PROVE  /\ exec[r].status = "finalizing"
           /\ Becomes(r, "failed", exec[r].recovered, exec[r].suspended,
                      exec[r].renewing)
           /\ RecordKept /\ UNCHANGED <<recov, history>>
  <1>1. exec[r] \in Exec /\ RecordKept
    BY RecordUnchanged DEF TypeOK, CleanupFails
  <1>2. PICK f : f = Finalized(exec[r], "failed") /\ SetExec(r, f)
    BY DEF CleanupFails
  <1> QED
    BY <1>1, <1>2, FinalizedEdit, ExecUpdate DEF CleanupFails

LEMMA EmitTerminalEffect ==
    ASSUME TypeOK, NEW r \in Runtimes, EmitTerminal(r)
    PROVE  /\ exec[r].status = "finalizing"
           /\ Becomes(r, "terminal", exec[r].recovered, exec[r].suspended,
                      exec[r].renewing)
           /\ \/ RecordKept
              \/ Written("closed", NoOwner, TRUE) /\ AppendAllowed(r)
           /\ UNCHANGED <<recov, history>>
  <1>1. exec[r] \in Exec /\ record \in Record
    BY DEF TypeOK
  <1>2. PICK f : f = Finalized(exec[r], "terminal")
    OBVIOUS
  <1>3. /\ f \in Exec /\ f.status = "terminal" /\ f.recovered = exec[r].recovered
        /\ f.suspended = exec[r].suspended /\ f.renewing = exec[r].renewing
    BY <1>1, <1>2, FinalizedEdit
  <1>4. PICK g : g = [f EXCEPT !.len = @ + 1] /\ SetExec(r, g)
    BY <1>2 DEF EmitTerminal
  <1>5. /\ g \in Exec /\ g.status = "terminal" /\ g.recovered = exec[r].recovered
        /\ g.suspended = exec[r].suspended /\ g.renewing = exec[r].renewing
    BY <1>3, <1>4, EmitEdit
  <1>6. Becomes(r, g.status, g.recovered, g.suspended, g.renewing)
    BY <1>4, <1>5, ExecUpdate
  <1>7. RecordKept \/ (Written("closed", NoOwner, TRUE) /\ AppendAllowed(r))
    BY <1>1, CloseWrite, RecordUnchanged DEF EmitTerminal, Written
  <1> QED
    BY <1>5, <1>6, <1>7 DEF EmitTerminal

LEMMA MarkedSuspendedEffect ==
    ASSUME TypeOK, record' = MarkedSuspended
    PROVE  IF record.phase \in {"none", "finalizing"}
           THEN RecordKept ELSE Written("suspended", NoOwner, record.terminal)
  <1>1. record \in Record
    BY DEF TypeOK
  <1> QED
    BY <1>1, SuspendWrite, RecordUnchanged DEF MarkedSuspended, Written

LEMMA SuspendEffect ==
    ASSUME TypeOK, NEW r \in Runtimes, Suspend(r)
    PROVE  /\ exec[r].status = "running" /\ record.phase # "finalizing"
           /\ Becomes(r, "running", exec[r].recovered, TRUE, exec[r].renewing)
           /\ IF record.phase = "none"
              THEN RecordKept ELSE Written("suspended", NoOwner, record.terminal)
           /\ UNCHANGED <<recov, history>>
  <1>1. exec[r] \in Exec
    BY DEF TypeOK
  <1>2. PICK f : f = [exec[r] EXCEPT !.suspended = TRUE] /\ SetExec(r, f)
    BY DEF Suspend
  <1>3. /\ f \in Exec /\ f.status = exec[r].status /\ f.recovered = exec[r].recovered
        /\ f.suspended = TRUE /\ f.renewing = exec[r].renewing
    BY <1>1, <1>2, SuspendEdit
  <1>4. Becomes(r, f.status, f.recovered, f.suspended, f.renewing)
    BY <1>2, <1>3, ExecUpdate
  <1> QED
    BY <1>3, <1>4, MarkedSuspendedEffect DEF Suspend

LEMMA RenewEffect ==
    ASSUME TypeOK, NEW r \in Runtimes, Renew(r)
    PROVE  /\ exec[r].renewing /\ UNCHANGED <<recov, leases, again>>
           /\ RecordKept
           /\ \/ UNCHANGED <<exec, kept>>
              \/ /\ Becomes(r, exec[r].status, exec[r].recovered,
                            exec[r].suspended \/ exec[r].status # "terminal", FALSE)
                 /\ kept' = IF LeaseHeld(r) THEN kept \cup {r} ELSE kept
  <1>1. exec[r] \in Exec /\ record \in Record /\ now + Lease \in Int
    BY RecoveryAssumption DEF TypeOK
  <1>2. CASE ExtendLease(r)
    <2>1. PICK t \in Int : record' = [record EXCEPT !.until = t]
      BY <1>1, <1>2 DEF ExtendLease
    <2>2. RecordKept
      BY <1>1, <2>1, RenewWrite DEF RecordKept, Written
    <2> QED
      BY <1>2, <2>2 DEF Renew, ExtendLease, history
  <1>3. CASE AbandonExecution(r)
    <2>1. PICK b \in BOOLEAN : b = (exec[r].suspended \/ exec[r].status # "terminal")
      OBVIOUS
    <2>2. PICK f : /\ f = [exec[r] EXCEPT !.renewing = FALSE, !.suspended = b]
                   /\ SetExec(r, f)
      BY <1>3, <2>1 DEF AbandonExecution
    <2>3. /\ f \in Exec /\ f.status = exec[r].status
          /\ f.recovered = exec[r].recovered
          /\ f.suspended = b /\ f.renewing = FALSE
      BY <1>1, <2>2, Zenon DEF Exec
    <2>4. Becomes(r, f.status, f.recovered, f.suspended, f.renewing)
      BY <2>2, <2>3, ExecUpdate
    <2> QED
      BY <1>3, <2>1, <2>3, <2>4, RecordUnchanged DEF Renew, AbandonExecution
  <1> QED
    BY <1>2, <1>3 DEF Renew

\* r holds these fields of a recovery under way; the others are as they were.
RecovBecomes(r, pc, terminal) ==
    /\ recov' \in [Runtimes -> Recov]
    /\ recov'[r].pc = pc
    /\ recov'[r].terminal = terminal
    /\ \A s \in Runtimes \ {r} : recov'[s] = recov[s]

LEMMA ClaimRecoveryEffect ==
    ASSUME TypeOK, NEW r \in Runtimes, ClaimRecovery(r)
    PROVE  /\ record.phase \in {"suspended", "recovering"}
           /\ Written("recovering", r, record.terminal)
           /\ RecovBecomes(r, "leased", record.terminal)
           /\ again' = IF exec[r].status = "none" THEN again ELSE again \cup {r}
           /\ UNCHANGED <<exec, kept>>
  <1>1. record \in Record /\ now + Lease \in Int
    BY RecoveryAssumption DEF TypeOK
  <1>2. Written("recovering", r, record.terminal)
    <2>1. PICK t \in Int :
              record' = [record EXCEPT !.phase = "recovering", !.owner = r, !.until = t]
      BY <1>1 DEF ClaimRecovery
    <2>2. PICK y :
              /\ record' = y
              /\ y = [record EXCEPT !.phase = "recovering", !.owner = r, !.until = t]
      BY <2>1
    <2>3. /\ y \in Record
          /\ y.phase = "recovering" /\ y.owner = r /\ y.terminal = record.terminal
      BY <1>1, <2>1, <2>2, Zenon DEF Record, Phases
    <2> QED
      BY <2>2, <2>3 DEF Written
  <1>3. PICK f : /\ f = [pc |-> "leased", len |-> record.len,
                         terminal |-> record.terminal]
                 /\ recov' = [recov EXCEPT ![r] = f]
    BY DEF ClaimRecovery
  <1>4. record.len \in Nat /\ record.terminal \in BOOLEAN
    BY <1>1 DEF Record
  <1>5. f \in Recov /\ f.pc = "leased" /\ f.terminal = record.terminal
    BY <1>3, <1>4, Zenon DEF Recov
  <1>6. RecovBecomes(r, "leased", record.terminal)
    BY <1>3, <1>5 DEF RecovBecomes, TypeOK
  <1> QED
    BY <1>2, <1>6 DEF ClaimRecovery, Claimable

LEMMA NoRecovUpdate ==
    ASSUME TypeOK, NEW r \in Runtimes, recov' = [recov EXCEPT ![r] = NoRecov]
    PROVE  RecovBecomes(r, "idle", FALSE)
  <1>1. 0 \in Nat
    OBVIOUS
  <1>2. NoRecov \in Recov /\ NoRecov.pc = "idle" /\ NoRecov.terminal = FALSE
    BY <1>1, Zenon DEF NoRecov, Recov
  <1> QED
    BY <1>2 DEF RecovBecomes, TypeOK

LEMMA RecoverSnapshotEffect ==
    ASSUME TypeOK, NEW r \in Runtimes, RecoverSnapshot(r)
    PROVE  /\ recov[r].pc = "leased" /\ ~recov[r].terminal
           /\ exec[r].status = "none"
           /\ Becomes(r, "running", TRUE, FALSE, TRUE)
           /\ RecovBecomes(r, "idle", FALSE)
           /\ RecordKept /\ UNCHANGED history
  <1>1. recov[r] \in Recov /\ RecordKept
    BY RecordUnchanged DEF TypeOK, RecoverSnapshot
  <1>2. recov[r].len \in Nat
    BY <1>1 DEF Recov
  <1>3. PICK f : f = NewExec(TRUE, recov[r].len) /\ SetExec(r, f)
    BY DEF RecoverSnapshot
  <1>4. /\ f \in Exec /\ f.status = "running" /\ f.recovered = TRUE
        /\ f.suspended = FALSE /\ f.renewing = TRUE
    BY <1>2, <1>3, NewExecFields
  <1>5. Becomes(r, f.status, f.recovered, f.suspended, f.renewing)
    BY <1>3, <1>4, ExecUpdate
  <1> QED
    BY <1>1, <1>4, <1>5, NoRecovUpdate DEF RecoverSnapshot

LEMMA FailRecoveryEffect ==
    ASSUME TypeOK, NEW r \in Runtimes, FailRecovery(r)
    PROVE  /\ recov[r].pc = "leased"
           /\ RecovBecomes(r, "idle", FALSE)
           /\ \/ RecordKept
              \/ /\ record.phase \notin {"none", "finalizing"}
                 /\ Written("suspended", NoOwner, record.terminal)
           /\ UNCHANGED <<exec, history>>
  BY NoRecovUpdate, MarkedSuspendedEffect, RecordUnchanged DEF FailRecovery

-------------------------------------------------------------------------------
\* Types

LEMMA TypeInit ==
    ASSUME Init
    PROVE  TypeOK
  <1>1. 0 \in Nat /\ 0 \in Int
    OBVIOUS
  <1>2. record \in Record
    BY <1>1, Zenon DEF Init, Record, Phases
  <1>3. \A r \in Runtimes : exec[r] \in Exec
    <2>1. [NewExec(FALSE, 0) EXCEPT !.status = "none"] \in Exec
      BY <1>1, Zenon DEF NewExec, Exec
    <2> QED
      BY <2>1 DEF Init
  <1>4. NoRecov \in Recov
    BY <1>1, Zenon DEF NoRecov, Recov
  <1> QED
    BY <1>1, <1>2, <1>3, <1>4 DEF Init, TypeOK

LEMMA TypeNext ==
    ASSUME TypeOK, [Next]_vars
    PROVE  TypeOK'
  <1> USE DEF Becomes, Written, RecordKept, RecovBecomes, history
  <1>1. ASSUME NEW r \in Runtimes, Dispatch(r) PROVE TypeOK'
    BY <1>1, DispatchEffect DEF Dispatch, TypeOK
  <1>2. ASSUME NEW r \in Runtimes, EmitEvent(r) PROVE TypeOK'
    BY <1>2, EmitEventEffect DEF EmitEvent, TypeOK
  <1>3. ASSUME NEW r \in Runtimes, HandlerReturns(r) PROVE TypeOK'
    BY <1>3, HandlerReturnsEffect DEF HandlerReturns, TypeOK
  <1>4. ASSUME NEW r \in Runtimes, ControlClaims(r) PROVE TypeOK'
    BY <1>4, ControlClaimsEffect DEF ControlClaims, TypeOK
  <1>5. ASSUME NEW r \in Runtimes, BeginFinalization(r) PROVE TypeOK'
    BY <1>5, BeginFinalizationEffect DEF BeginFinalization, TypeOK
  <1>6. ASSUME NEW r \in Runtimes, CleanupFails(r) PROVE TypeOK'
    BY <1>6, CleanupFailsEffect DEF CleanupFails, TypeOK
  <1>7. ASSUME NEW r \in Runtimes, EmitTerminal(r) PROVE TypeOK'
    BY <1>7, EmitTerminalEffect DEF EmitTerminal, TypeOK
  <1>8. ASSUME NEW r \in Runtimes, Suspend(r) PROVE TypeOK'
    BY <1>8, SuspendEffect DEF Suspend, TypeOK
  <1>9. ASSUME NEW r \in Runtimes, Renew(r) PROVE TypeOK'
    BY <1>9, RenewEffect, ZenonT(60) DEF Renew, TypeOK
  <1>10. ASSUME NEW r \in Runtimes, ClaimRecovery(r) PROVE TypeOK'
    <2>1. leases' \in Nat
      BY <1>10 DEF ClaimRecovery, TypeOK
    <2>2. again' \subseteq Runtimes
      BY <1>10, ClaimRecoveryEffect DEF TypeOK
    <2> QED
      BY <1>10, <2>1, <2>2, ClaimRecoveryEffect DEF ClaimRecovery, TypeOK
  <1>11. ASSUME NEW r \in Runtimes, RecoverSnapshot(r) PROVE TypeOK'
    BY <1>11, RecoverSnapshotEffect DEF RecoverSnapshot, TypeOK
  <1>12. ASSUME NEW r \in Runtimes, FailRecovery(r) PROVE TypeOK'
    BY <1>12, FailRecoveryEffect DEF FailRecovery, TypeOK
  <1>13. ASSUME NEW r \in Runtimes, Crash(r) PROVE TypeOK'
    BY <1>13 DEF Crash, TypeOK
  <1>14. CASE Tick
    BY <1>14 DEF Tick, TypeOK
  <1>15. CASE UNCHANGED vars
    BY <1>15 DEF vars, TypeOK
  <1> QED
    BY <1>1, <1>2, <1>3, <1>4, <1>5, <1>6, <1>7, <1>8, <1>9, <1>10, <1>11,
       <1>12, <1>13, <1>14, <1>15 DEF Next

\* The record, the executions and the recoveries under way keep their types.
THEOREM RecoveryTypeCorrect == Spec => []TypeOK
  BY TypeInit, TypeNext, PTL DEF Spec

-------------------------------------------------------------------------------
\* The fence

\* The steps that change nothing the invariant looks at.
LEMMA FenceFrame ==
    ASSUME RecoveryInv, UNCHANGED <<record, exec, recov, history>>
    PROVE  RecoveryInv'
  BY DEF RecoveryInv, PhaseInv, ExecInv, GivenUpInv, OwnerInv, FenceInv, FreshOnly,
         Ending, Holder, history

LEMMA FenceInit ==
    ASSUME Init
    PROVE  RecoveryInv
  <1>1. \A r \in Runtimes : /\ exec[r].status = "none"
                            /\ exec[r].recovered = FALSE /\ exec[r].suspended = FALSE
                            /\ exec[r].renewing = FALSE
                            /\ recov[r].pc = "idle"
    <2>1. PICK e : e = [NewExec(FALSE, 0) EXCEPT !.status = "none"]
      OBVIOUS
    <2>2. /\ e.status = "none" /\ e.recovered = FALSE /\ e.suspended = FALSE
          /\ e.renewing = FALSE
      BY <2>1, Zenon DEF NewExec
    <2>3. NoRecov.pc = "idle"
      BY Zenon DEF NoRecov
    <2> QED
      BY <2>1, <2>2, <2>3 DEF Init
  <1>2. record.phase = "none" /\ record.owner = NoOwner /\ record.terminal = FALSE
    BY Zenon DEF Init
  <1>3. again = {}
    BY DEF Init
  <1> QED
    BY <1>1, <1>2, <1>3, RecoveryAssumption
    DEF RecoveryInv, PhaseInv, ExecInv, GivenUpInv, OwnerInv, FenceInv, FreshOnly, Ending

LEMMA FenceDispatch ==
    ASSUME TypeOK, RecoveryInv, NEW r \in Runtimes, Dispatch(r)
    PROVE  RecoveryInv'
  <1> USE RecoveryAssumption
      DEF Becomes, Written, RecordKept, RecovBecomes, RecoveryInv, Ending, Holder,
          FreshOnly, history
  <1>1. /\ Becomes(r, "running", FALSE, FALSE, FALSE)
        /\ Written("running", NoOwner, record.terminal)
        /\ record.phase = "none" /\ UNCHANGED <<recov, history>>
    BY DispatchEffect DEF PhaseInv
  <1>2. /\ FreshOnly /\ record.owner = NoOwner /\ ~record.terminal
        /\ \A s \in Runtimes : exec[s].status = "none"
    BY <1>1 DEF PhaseInv
  <1>3. \A s \in Runtimes : exec'[s].status # "none" => s = r /\ exec'[s].status = "running"
    BY <1>1, <1>2
  <1>4. PhaseInv'
    BY <1>1, <1>2, <1>3 DEF PhaseInv
  <1>5. ExecInv'
    BY <1>1, <1>2, <1>3 DEF ExecInv
  <1>6. GivenUpInv'
    BY <1>1, <1>2, <1>3 DEF GivenUpInv
  <1>7. OwnerInv'
    BY <1>1, <1>2, <1>3 DEF OwnerInv
  <1>8. FenceInv'
    BY <1>1, <1>2, <1>3 DEF FenceInv
  <1> QED
    BY <1>4, <1>5, <1>6, <1>7, <1>8 DEF RecoveryInv

LEMMA FenceEmitEvent ==
    ASSUME TypeOK, RecoveryInv, NEW r \in Runtimes, EmitEvent(r)
    PROVE  RecoveryInv'
  <1> USE EmitEventEffect, RecoveryAssumption
      DEF Becomes, Written, RecordKept, RecovBecomes, RecoveryInv, Ending, Holder,
          FreshOnly, history
  <1>1. PhaseInv'
    BY DEF PhaseInv
  <1>2. ExecInv'
    BY DEF ExecInv
  <1>3. GivenUpInv'
    BY DEF GivenUpInv
  <1>4. OwnerInv'
    BY DEF OwnerInv
  <1>5. FenceInv'
    BY DEF FenceInv
  <1> QED
    BY <1>1, <1>2, <1>3, <1>4, <1>5

LEMMA FenceHandlerReturns ==
    ASSUME TypeOK, RecoveryInv, NEW r \in Runtimes, HandlerReturns(r)
    PROVE  RecoveryInv'
  <1> USE HandlerReturnsEffect, RecoveryAssumption
      DEF Becomes, Written, RecordKept, RecovBecomes, RecoveryInv, Ending, Holder,
          FreshOnly, history
  <1>1. PhaseInv'
    BY DEF PhaseInv
  <1>2. ExecInv'
    BY DEF ExecInv
  <1>3. GivenUpInv'
    BY DEF GivenUpInv
  <1>4. OwnerInv'
    BY DEF OwnerInv
  <1>5. FenceInv'
    BY DEF FenceInv
  <1> QED
    BY <1>1, <1>2, <1>3, <1>4, <1>5

LEMMA FenceControlClaims ==
    ASSUME TypeOK, RecoveryInv, NEW r \in Runtimes, ControlClaims(r)
    PROVE  RecoveryInv'
  <1> USE ControlClaimsEffect, RecoveryAssumption
      DEF Becomes, Written, RecordKept, RecovBecomes, RecoveryInv, Ending, Holder,
          FreshOnly, history
  <1>1. PhaseInv'
    BY DEF PhaseInv
  <1>2. ExecInv'
    BY DEF ExecInv
  <1>3. GivenUpInv'
    BY DEF GivenUpInv
  <1>4. OwnerInv'
    BY DEF OwnerInv
  <1>5. FenceInv'
    BY DEF FenceInv
  <1> QED
    BY <1>1, <1>2, <1>3, <1>4, <1>5

LEMMA FenceBeginFinalization ==
    ASSUME TypeOK, RecoveryInv, NEW r \in Runtimes, BeginFinalization(r)
    PROVE  RecoveryInv'
  <1> USE RecoveryAssumption
      DEF Becomes, Written, RecordKept, RecovBecomes, RecoveryInv, Ending, Holder,
          FreshOnly, history
  <1>1. exec[r].status = "claimed" /\ UNCHANGED <<recov, history>>
    BY BeginFinalizationEffect
  <1>2. CASE /\ FinalizationAllowed(r)
             /\ Becomes(r, "finalizing", exec[r].recovered, exec[r].suspended,
                        exec[r].renewing)
             /\ Written("finalizing", record.owner, record.terminal)
    <2>1. \/ FreshOnly /\ record.owner = NoOwner
          \/ record.owner = r /\ record.phase \in {"recovering", "finalizing"}
      BY <1>2 DEF FinalizationAllowed, LeaseLive, PhaseInv
    <2>2. r \notin again => record.owner = Holder(r)
      BY <1>1, <2>1 DEF OwnerInv
    <2>3. r \notin again \cup kept => ~exec[r].suspended
      BY <2>1 DEF GivenUpInv
    <2>4. \A s \in Runtimes \ again : r \notin again /\ Ending(s) => s = r
      BY <1>1, <2>1, <2>2 DEF OwnerInv, FenceInv, ExecInv
    <2>5. \A s \in Runtimes \ again : Ending(s) =>
             \/ record.phase = "finalizing" /\ record.owner = Holder(s)
             \/ exec[s].status = "terminal" /\ record.terminal
      BY DEF FenceInv
    <2>6. PhaseInv'
      BY <1>1, <1>2, <2>1, <2>2, <2>3, <2>4, <2>5 DEF PhaseInv
    <2>7. ExecInv'
      BY <1>1, <1>2, <2>1, <2>2, <2>3, <2>4, <2>5 DEF ExecInv
    <2>8. GivenUpInv'
      BY <1>1, <1>2, <2>1, <2>2, <2>3, <2>4, <2>5 DEF GivenUpInv
    <2>9. OwnerInv'
      BY <1>1, <1>2, <2>1, <2>2, <2>3, <2>4, <2>5 DEF OwnerInv
    <2>10. FenceInv'
      BY <1>1, <1>2, <2>1, <2>2, <2>3, <2>4, <2>5 DEF FenceInv
    <2> QED
      BY <2>6, <2>7, <2>8, <2>9, <2>10 DEF RecoveryInv
  <1>3. CASE /\ Becomes(r, "failed", exec[r].recovered, exec[r].suspended,
                        exec[r].renewing)
             /\ RecordKept
    <2>1. PhaseInv'
      BY <1>1, <1>3 DEF PhaseInv
    <2>2. ExecInv'
      BY <1>1, <1>3 DEF ExecInv
    <2>3. GivenUpInv'
      BY <1>1, <1>3 DEF GivenUpInv
    <2>4. OwnerInv'
      BY <1>1, <1>3 DEF OwnerInv
    <2>5. FenceInv'
      BY <1>1, <1>3 DEF FenceInv
    <2> QED
      BY <2>1, <2>2, <2>3, <2>4, <2>5 DEF RecoveryInv
  <1> QED
    BY <1>2, <1>3, BeginFinalizationEffect

LEMMA FenceCleanupFails ==
    ASSUME TypeOK, RecoveryInv, NEW r \in Runtimes, CleanupFails(r)
    PROVE  RecoveryInv'
  <1> USE CleanupFailsEffect, RecoveryAssumption
      DEF Becomes, Written, RecordKept, RecovBecomes, RecoveryInv, Ending, Holder,
          FreshOnly, history
  <1>1. PhaseInv'
    BY DEF PhaseInv
  <1>2. ExecInv'
    BY DEF ExecInv
  <1>3. GivenUpInv'
    BY DEF GivenUpInv
  <1>4. OwnerInv'
    BY DEF OwnerInv
  <1>5. FenceInv'
    BY DEF FenceInv
  <1> QED
    BY <1>1, <1>2, <1>3, <1>4, <1>5

LEMMA FenceEmitTerminal ==
    ASSUME TypeOK, RecoveryInv, NEW r \in Runtimes, EmitTerminal(r)
    PROVE  RecoveryInv'
  <1> USE RecoveryAssumption
      DEF Becomes, Written, RecordKept, RecovBecomes, RecoveryInv, Ending, Holder,
          FreshOnly, history
  <1>1. /\ exec[r].status = "finalizing"
        /\ Becomes(r, "terminal", exec[r].recovered, exec[r].suspended, exec[r].renewing)
        /\ UNCHANGED <<recov, history>>
    BY EmitTerminalEffect
  <1>2. CASE RecordKept
    <2>1. PhaseInv'
      BY <1>1, <1>2 DEF PhaseInv
    <2>2. ExecInv'
      BY <1>1, <1>2 DEF ExecInv
    <2>3. GivenUpInv'
      BY <1>1, <1>2 DEF GivenUpInv
    <2>4. OwnerInv'
      BY <1>1, <1>2 DEF OwnerInv
    <2>5. FenceInv'
      BY <1>1, <1>2 DEF FenceInv
    <2> QED
      BY <2>1, <2>2, <2>3, <2>4, <2>5 DEF RecoveryInv
  <1>3. CASE Written("closed", NoOwner, TRUE) /\ AppendAllowed(r)
    <2>1. \A s \in Runtimes \ again : exec[s].status = "finalizing" => s = r
      BY <1>1, <1>3 DEF AppendAllowed, LeaseLive, FenceInv, ExecInv
    <2>2. PhaseInv'
      BY <1>1, <1>3, <2>1 DEF PhaseInv
    <2>3. ExecInv'
      BY <1>1, <1>3, <2>1 DEF ExecInv
    <2>4. GivenUpInv'
      BY <1>1, <1>3, <2>1 DEF GivenUpInv
    <2>5. OwnerInv'
      BY <1>1, <1>3, <2>1 DEF OwnerInv
    <2>6. FenceInv'
      BY <1>1, <1>3, <2>1 DEF FenceInv
    <2> QED
      BY <2>2, <2>3, <2>4, <2>5, <2>6 DEF RecoveryInv
  <1> QED
    BY <1>2, <1>3, EmitTerminalEffect

LEMMA FenceSuspend ==
    ASSUME TypeOK, RecoveryInv, NEW r \in Runtimes, Suspend(r)
    PROVE  RecoveryInv'
  <1> USE RecoveryAssumption
      DEF Becomes, Written, RecordKept, RecovBecomes, RecoveryInv, Ending, Holder,
          FreshOnly, history
  <1>1. /\ exec[r].status = "running" /\ record.phase # "finalizing"
        /\ Becomes(r, "running", exec[r].recovered, TRUE, exec[r].renewing)
        /\ Written("suspended", NoOwner, record.terminal)
        /\ UNCHANGED <<recov, history>>
    BY SuspendEffect DEF PhaseInv
  <1>2. PhaseInv'
    BY <1>1 DEF PhaseInv
  <1>3. ExecInv'
    BY <1>1 DEF ExecInv
  <1>4. GivenUpInv'
    BY <1>1 DEF GivenUpInv
  <1>5. OwnerInv'
    BY <1>1 DEF OwnerInv
  <1>6. FenceInv'
    BY <1>1 DEF FenceInv
  <1> QED
    BY <1>2, <1>3, <1>4, <1>5, <1>6 DEF RecoveryInv

LEMMA FenceRenew ==
    ASSUME TypeOK, RecoveryInv, NEW r \in Runtimes, Renew(r)
    PROVE  RecoveryInv'
  <1> USE RecoveryAssumption
      DEF Becomes, Written, RecordKept, RecovBecomes, RecoveryInv, Ending, Holder,
          FreshOnly, history
  <1>1. exec[r].renewing /\ UNCHANGED <<recov, again>> /\ RecordKept
    BY RenewEffect
  <1>2. CASE UNCHANGED <<exec, kept>>
    <2>1. PhaseInv'
      BY <1>1, <1>2 DEF PhaseInv
    <2>2. ExecInv'
      BY <1>1, <1>2 DEF ExecInv
    <2>3. GivenUpInv'
      BY <1>1, <1>2 DEF GivenUpInv
    <2>4. OwnerInv'
      BY <1>1, <1>2 DEF OwnerInv
    <2>5. FenceInv'
      BY <1>1, <1>2 DEF FenceInv
    <2> QED
      BY <2>1, <2>2, <2>3, <2>4, <2>5 DEF RecoveryInv
  <1>3. CASE ~UNCHANGED <<exec, kept>>
    <2> DEFINE b == exec[r].suspended \/ exec[r].status # "terminal"
    <2>1. /\ Becomes(r, exec[r].status, exec[r].recovered, b, FALSE)
          /\ kept' = IF LeaseHeld(r) THEN kept \cup {r} ELSE kept
      BY <1>3, RenewEffect
    <2>2. exec[r].recovered /\ exec[r].status # "none"
      BY <1>1 DEF ExecInv
    <2>3. r \notin again \cup kept' => record.owner # r
      BY <2>1 DEF PhaseInv, LeaseHeld
    <2>4. r \notin again \cup kept' => exec[r].status # "finalizing"
      BY <2>2, <2>3 DEF FenceInv
    <2>5. r \notin again \cup kept' /\ exec'[r].suspended => ~Ending(r)
      BY <2>1, <2>4 DEF GivenUpInv
    <2> HIDE DEF b
    <2>6. kept \subseteq kept'
      BY <2>1
    <2>7. PhaseInv'
      BY <1>1, <2>1, <2>2, <2>3, <2>5, <2>6 DEF PhaseInv
    <2>8. ExecInv'
      BY <1>1, <2>1, <2>2, <2>3, <2>5, <2>6, ZenonT(60) DEF ExecInv
    <2>9. GivenUpInv'
      BY <1>1, <2>1, <2>2, <2>3, <2>5, <2>6 DEF GivenUpInv
    <2>10. OwnerInv'
      BY <1>1, <2>1, <2>2, <2>3, <2>5, <2>6, ZenonT(60) DEF OwnerInv
    <2>11. FenceInv'
      BY <1>1, <2>1 DEF FenceInv
    <2> QED
      BY <2>7, <2>8, <2>9, <2>10, <2>11 DEF RecoveryInv
  <1> QED
    BY <1>2, <1>3

LEMMA FenceClaimRecovery ==
    ASSUME TypeOK, RecoveryInv, NEW r \in Runtimes, ClaimRecovery(r)
    PROVE  RecoveryInv'
  <1> USE ClaimRecoveryEffect, RecoveryAssumption
      DEF Becomes, Written, RecordKept, RecovBecomes, RecoveryInv, Ending, Holder,
          FreshOnly, history
  <1>1. PhaseInv'
    BY DEF PhaseInv
  <1>2. ExecInv'
    BY DEF ExecInv
  <1>3. GivenUpInv'
    BY DEF GivenUpInv, ExecInv
  <1>4. OwnerInv'
    BY DEF OwnerInv
  <1>5. FenceInv'
    BY DEF FenceInv
  <1> QED
    BY <1>1, <1>2, <1>3, <1>4, <1>5

LEMMA FenceRecoverSnapshot ==
    ASSUME TypeOK, RecoveryInv, NEW r \in Runtimes, RecoverSnapshot(r)
    PROVE  RecoveryInv'
  <1> USE RecoveryAssumption
      DEF Becomes, Written, RecordKept, RecovBecomes, RecoveryInv, Ending, Holder,
          FreshOnly, history
  <1>1. /\ recov[r].pc = "leased" /\ ~recov[r].terminal
        /\ exec[r].status = "none"
        /\ Becomes(r, "running", TRUE, FALSE, TRUE)
        /\ RecovBecomes(r, "idle", FALSE)
        /\ RecordKept /\ UNCHANGED history
    BY RecoverSnapshotEffect
  <1>2. /\ record.phase \notin {"none", "running"}
        /\ ~(record.phase = "finalizing" /\ record.owner = NoOwner)
        /\ r \notin again
        /\ record.owner = r => ~record.terminal
    BY <1>1 DEF PhaseInv, ExecInv, OwnerInv
  <1>3. PhaseInv'
    BY <1>1, <1>2 DEF PhaseInv
  <1>4. ExecInv'
    BY <1>1, <1>2 DEF ExecInv
  <1>5. GivenUpInv'
    BY <1>1, <1>2 DEF GivenUpInv
  <1>6. OwnerInv'
    BY <1>1, <1>2 DEF OwnerInv
  <1>7. FenceInv'
    BY <1>1, <1>2 DEF FenceInv
  <1> QED
    BY <1>3, <1>4, <1>5, <1>6, <1>7 DEF RecoveryInv

LEMMA FenceFailRecovery ==
    ASSUME TypeOK, RecoveryInv, NEW r \in Runtimes, FailRecovery(r)
    PROVE  RecoveryInv'
  <1> USE RecoveryAssumption
      DEF Becomes, Written, RecordKept, RecovBecomes, RecoveryInv, Ending, Holder,
          FreshOnly, history
  <1>1. /\ recov[r].pc = "leased" /\ RecovBecomes(r, "idle", FALSE)
        /\ UNCHANGED <<exec, history>>
    BY FailRecoveryEffect
  <1>2. CASE RecordKept
    <2>1. PhaseInv'
      BY <1>1, <1>2 DEF PhaseInv
    <2>2. ExecInv'
      BY <1>1, <1>2 DEF ExecInv
    <2>3. GivenUpInv'
      BY <1>1, <1>2 DEF GivenUpInv
    <2>4. OwnerInv'
      BY <1>1, <1>2 DEF OwnerInv
    <2>5. FenceInv'
      BY <1>1, <1>2 DEF FenceInv
    <2> QED
      BY <2>1, <2>2, <2>3, <2>4, <2>5 DEF RecoveryInv
  <1>3. CASE /\ record.phase \notin {"none", "finalizing"}
             /\ Written("suspended", NoOwner, record.terminal)
    <2>1. PhaseInv'
      BY <1>1, <1>3 DEF PhaseInv
    <2>2. ExecInv'
      BY <1>1, <1>3 DEF ExecInv
    <2>3. GivenUpInv'
      BY <1>1, <1>3 DEF GivenUpInv
    <2>4. OwnerInv'
      BY <1>1, <1>3 DEF OwnerInv
    <2>5. FenceInv'
      BY <1>1, <1>3 DEF FenceInv
    <2> QED
      BY <2>1, <2>2, <2>3, <2>4, <2>5 DEF RecoveryInv
  <1> QED
    BY <1>2, <1>3, FailRecoveryEffect

LEMMA FenceNext ==
    ASSUME TypeOK, RecoveryInv, [Next]_vars
    PROVE  RecoveryInv'
  <1>1. ASSUME NEW r \in Runtimes, Dispatch(r) PROVE RecoveryInv'
    BY <1>1, FenceDispatch
  <1>2. ASSUME NEW r \in Runtimes, EmitEvent(r) PROVE RecoveryInv'
    BY <1>2, FenceEmitEvent
  <1>3. ASSUME NEW r \in Runtimes, HandlerReturns(r) PROVE RecoveryInv'
    BY <1>3, FenceHandlerReturns
  <1>4. ASSUME NEW r \in Runtimes, ControlClaims(r) PROVE RecoveryInv'
    BY <1>4, FenceControlClaims
  <1>5. ASSUME NEW r \in Runtimes, BeginFinalization(r) PROVE RecoveryInv'
    BY <1>5, FenceBeginFinalization
  <1>6. ASSUME NEW r \in Runtimes, CleanupFails(r) PROVE RecoveryInv'
    BY <1>6, FenceCleanupFails
  <1>7. ASSUME NEW r \in Runtimes, EmitTerminal(r) PROVE RecoveryInv'
    BY <1>7, FenceEmitTerminal
  <1>8. ASSUME NEW r \in Runtimes, Suspend(r) PROVE RecoveryInv'
    BY <1>8, FenceSuspend
  <1>9. ASSUME NEW r \in Runtimes, Renew(r) PROVE RecoveryInv'
    BY <1>9, FenceRenew
  <1>10. ASSUME NEW r \in Runtimes, ClaimRecovery(r) PROVE RecoveryInv'
    BY <1>10, FenceClaimRecovery
  <1>11. ASSUME NEW r \in Runtimes, RecoverSnapshot(r) PROVE RecoveryInv'
    BY <1>11, FenceRecoverSnapshot
  <1>12. ASSUME NEW r \in Runtimes, FailRecovery(r) PROVE RecoveryInv'
    BY <1>12, FenceFailRecovery
  <1>13. ASSUME NEW r \in Runtimes, Crash(r) PROVE RecoveryInv'
    BY <1>13, FenceFrame DEF Crash, history
  <1>14. CASE Tick
    BY <1>14, FenceFrame DEF Tick, history
  <1>15. CASE UNCHANGED vars
    BY <1>15, FenceFrame DEF vars, history
  <1> QED
    BY <1>1, <1>2, <1>3, <1>4, <1>5, <1>6, <1>7, <1>8, <1>9, <1>10, <1>11,
       <1>12, <1>13, <1>14, <1>15 DEF Next

\* The fence invariant holds, whoever leases the record and whatever fails.
THEOREM FenceHolds == Spec => []RecoveryInv
  <1>1. Init => RecoveryInv
    BY FenceInit
  <1>2. TypeOK /\ RecoveryInv /\ [Next]_vars => RecoveryInv'
    BY FenceNext
  <1> QED
    BY <1>1, <1>2, RecoveryTypeCorrect, PTL DEF Spec

\* Whatever leases expire, whichever runtimes stall or crash and whichever reads and
\* writes fail, BeginFinalization lets at most one runtime through to the terminal
\* receipt, of those that did not lease the record of an execution they had.
THEOREM OneTerminalReceiptHolds == Spec => []OneTerminalReceipt
  <1>1. RecoveryInv => OneTerminalReceipt
    BY DEF RecoveryInv, FenceInv, Ending, OneTerminalReceipt
  <1> QED
    BY <1>1, FenceHolds, PTL

\* A runtime that suspended the invocation, or abandoned it with its lease lost,
\* never issues its terminal receipt, unless it leased the record again; one that
\* abandoned a lease it held after a failed read or write may.
THEOREM SuspendedIssuesNoReceiptHolds == Spec => []SuspendedIssuesNoReceipt
  <1>1. RecoveryInv => SuspendedIssuesNoReceipt
    BY DEF RecoveryInv, GivenUpInv, Ending, SuspendedIssuesNoReceipt
  <1> QED
    BY <1>1, FenceHolds, PTL
=============================================================================
