------------------------------- MODULE Admission -------------------------------
(***************************************************************************)
(* Admission of caller-signed requests (axon/invocation/admission.go), as  *)
(* InvokeDescriptorBoundRequest and recoverSnapshot (local_runtime.go) run *)
(* it: concurrent calls capture the replay store and the clock, verify,    *)
(* and only then register their nonce under the lock of the store.         *)
(*                                                                         *)
(* A replay key stands for (caller, ability, nonce).  What the stateless   *)
(* checks look at is one field of the request, its flaw.  The replay store *)
(* is replaced, never changed, by SetAdmissionDedupWindowMs, so stores are *)
(* numbered and a call keeps the number of the one it captured.            *)
(***************************************************************************)
EXTENDS Integers, Sequences, FiniteSets

CONSTANTS
    Calls,          \* goroutines that invoke or recover
    Keys,           \* replay keys
    Windows,        \* dedup windows, in clock ticks
    Flaws,          \* what the requests may have wrong
    MaxTime,        \* bound: the clock
    MaxStores,      \* bound: replay stores
    MaxAdmissions   \* bound: requests that pass checkAndRecord

ASSUME AdmissionAssumption ==
    /\ Windows \subseteq Nat /\ Windows # {}
    /\ Flaws \subseteq {"none", "envelope", "draft", "structure", "signature", "policy"}
    /\ MaxTime \in Nat /\ MaxStores \in Nat \ {0} /\ MaxAdmissions \in Nat

VARIABLES
    now,       \* wall clock, NowMs
    stores,    \* replay stores ever made; the last one is r.admissionReplay
    calls,     \* [Calls -> the call under way]
    admitted   \* history: what checkAndRecord let pass, in order

admissionVars == <<now, stores, calls, admitted>>

\* The replay key and the first check the request fails, in the order of the code.
Request == [key : Keys, flaw : Flaws]

Idle == [pc |-> "idle"]

\* A call: what it was given, the store and the clock it captured.  One that was
\* told AXON_NONCE_REPLAY is remembered until its goroutine calls again.
Call == [pc : {"verifying", "recording", "replay"}, req : Request,
         store : 1 .. MaxStores, nowMs : 0 .. MaxTime]

\* The nonces a store remembers, with the clock reading they came with.
Nonces == UNION {[K -> 0 .. MaxTime] : K \in SUBSET Keys}

Store == [windowMs : Windows, seen : Nonces]

\* An admission: the nonce, the store that let it pass, the clock reading of the call
\* and the time it passed.
Admitted == [key : Keys, store : 1 .. MaxStores, nowMs : 0 .. MaxTime, at : 0 .. MaxTime]

AdmissionTypeOK ==
    /\ now \in 0 .. MaxTime
    /\ stores \in Seq(Store) /\ Len(stores) \in 1 .. MaxStores
    /\ calls \in [Calls -> {Idle} \cup Call]
    /\ admitted \in Seq(Admitted)

NoNonces == [k \in {} |-> 0]

\* newNonceReplayStore, withWindowMs: a store starts empty.
NewStore(w) == [windowMs |-> w, seen |-> NoNonces]

AdmissionInit ==
    /\ now = 0
    /\ \E w \in Windows : stores = <<NewStore(w)>>
    /\ calls = [c \in Calls |-> Idle]
    /\ admitted = <<>>

Under(c, pc) == calls[c].pc = pc

CallGoes(c, pc) == calls' = [calls EXCEPT ![c].pc = pc]

Return(c) == calls' = [calls EXCEPT ![c] = Idle]

-------------------------------------------------------------------------------
\* InvokeDescriptorBoundRequest and recoverSnapshot up to the admission: the
\* replay store and the clock are read before anything is verified.
Invoke(c, q) ==
    /\ Under(c, "idle") \/ Under(c, "replay")
    /\ calls' = [calls EXCEPT ![c] = [pc |-> "verifying", req |-> q,
                                      store |-> Len(stores), nowMs |-> now]]
    /\ UNCHANGED <<now, stores, admitted>>

\* validateEnvelope, NewDescriptorBoundInvocationDraft, validateSignatureStructure
\* and verifyDescriptorBoundSignature.
CallerVerified(q) == q.flaw \notin {"envelope", "draft", "structure", "signature"}

\* The policy verifier of the provider, checked again by NewVerifiedAdmissionPolicy.
PolicyVerified(q) == q.flaw # "policy"

\* The entries checkAndRecord keeps: those not older than the window.
Pruned(seen, cutoff) ==
    [k \in {x \in DOMAIN seen : seen[x] >= cutoff} |-> seen[k]]

Recorded(seen, key, nowMs) ==
    [k \in DOMAIN seen \cup {key} |-> IF k = key THEN nowMs ELSE seen[k]]

\* Fault: the nonce is registered before the policy has agreed.
VerifyRecordsFirst(c) ==
    /\ Under(c, "verifying")
    /\ IF CallerVerified(calls[c].req) /\ PolicyVerified(calls[c].req)
       THEN CallGoes(c, "recording")
       ELSE Return(c)
    /\ stores' = IF CallerVerified(calls[c].req) /\ ~PolicyVerified(calls[c].req)
                 THEN [stores EXCEPT ![calls[c].store].seen =
                          Recorded(@, calls[c].req.key, calls[c].nowMs)]
                 ELSE stores
    /\ UNCHANGED <<now, admitted>>

\* verifyDescriptorBoundAdmission up to the replay store.
Verify(c) ==
    /\ Under(c, "verifying")
    /\ IF CallerVerified(calls[c].req) /\ PolicyVerified(calls[c].req)
       THEN CallGoes(c, "recording")
       ELSE Return(c)
    /\ UNCHANGED <<now, stores, admitted>>

\* Fault: an entry as old as the window is forgotten one tick early.
CutoffEarly(c) == calls[c].nowMs - stores[calls[c].store].windowMs + 1

Cutoff(c) == calls[c].nowMs - stores[calls[c].store].windowMs

\* checkAndRecord, with the clock the call captured at its start.
CheckAndRecord(c) ==
    LET q == calls[c].req
        s == calls[c].store
        kept == Pruned(stores[s].seen, Cutoff(c))
    IN  /\ Under(c, "recording")
        /\ \/ /\ q.key \in DOMAIN kept
              /\ stores' = [stores EXCEPT ![s].seen = kept]
              /\ CallGoes(c, "replay")
              /\ UNCHANGED admitted
           \/ /\ q.key \notin DOMAIN kept /\ Len(admitted) < MaxAdmissions
              /\ stores' = [stores EXCEPT
                               ![s].seen = Recorded(kept, q.key, calls[c].nowMs)]
              /\ Return(c)
              /\ admitted' = Append(admitted, [key |-> q.key, store |-> s,
                                               nowMs |-> calls[c].nowMs, at |-> now])
        /\ UNCHANGED <<now>>

\* SetAdmissionDedupWindowMs: a new store, without the nonces of the old one.
SetDedupWindow(w) ==
    /\ Len(stores) < MaxStores
    /\ stores' = Append(stores, NewStore(w))
    /\ UNCHANGED <<now, calls, admitted>>

Tick ==
    /\ now < MaxTime
    /\ now' = now + 1
    /\ UNCHANGED <<stores, calls, admitted>>

AdmissionNext ==
    \/ Tick
    \/ \E w \in Windows : SetDedupWindow(w)
    \/ \E c \in Calls : Verify(c) \/ CheckAndRecord(c)
                        \/ \E q \in Request : Invoke(c, q)

AdmissionSpec == AdmissionInit /\ [][AdmissionNext]_admissionVars

-------------------------------------------------------------------------------
\* Properties

\* Replay protection: when a nonce is admitted for the second time by one store,
\* its window, counted from the clock reading of the first admission, has passed
\* on the wall clock, whatever clock readings slow calls bring and whatever they
\* prune.
ReplayWindowKept ==
    \A i, j \in DOMAIN admitted :
        /\ i < j
        /\ admitted[i].key = admitted[j].key
        /\ admitted[i].store = admitted[j].store
        => admitted[j].at > admitted[i].nowMs + stores[admitted[i].store].windowMs

\* "a malformed or unverified caller's nonce never enters the store"
\* (admission.go:196-197): a call is told AXON_NONCE_REPLAY only if a request with
\* the same caller, ability and nonce was admitted, within the window of the call.
ReplayRefusalJustified ==
    \A c \in Calls :
        Under(c, "replay") =>
            \E i \in DOMAIN admitted :
                /\ admitted[i].key = calls[c].req.key
                /\ admitted[i].store = calls[c].store
                /\ admitted[i].nowMs >= Cutoff(c)
=============================================================================
