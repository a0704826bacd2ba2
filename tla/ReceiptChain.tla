------------------------------ MODULE ReceiptChain ------------------------------
(***************************************************************************)
(* The receipt chains of DefaultCanonicalReceiptProvider (axon/invocation/ *)
(* receipt_provider.go): AppendSignedReceipt reserves the next index of    *)
(* its chain under the chain's lock, resolves the signing authority, signs *)
(* and verifies without any lock, and commits under the lock again.        *)
(*                                                                         *)
(* A receipt is its index, the hash of its predecessor, whether its state  *)
(* is terminal and who signed it.  Hashes do not collide: the hash of a    *)
(* receipt is its content, so prev holds the predecessor itself.           *)
(***************************************************************************)
EXTENDS Integers, Sequences, SequencesExt

CONSTANTS
    Ids,          \* invocation ids
    Appenders,    \* goroutines that call AppendSignedReceipt
    MaxAppends    \* bound: calls of one appender

ASSUME ChainAssumption == MaxAppends \in Nat

VARIABLES
    chains,   \* [Ids -> receiptChainState]
    appends   \* [Appenders -> the append under way]

vars == <<chains, appends>>

ZeroHash == <<>>

SelfHash(r) == r

\* What the resolver can hand back: the callee it is for, its key, its signer and
\* the attestation of a host.
Authority == [calleeMatches : BOOLEAN, keyValid : BOOLEAN,
              signer : {"callee", "host"}, attestation : {"none", "valid", "invalid"}]

\* A signature as it comes back from SignAndVerify.
Signatures == {"verifies", "malformed", "mismatch"}

Steps == {"reserving", "waiting", "signing", "committing"}

Outcomes == {"none", "appended", "invalid", "terminal", "unsigned", "lost"}

NoAppend == [pc |-> "idle", outcome |-> "none", calls |-> 0]

\* A receipt holds its predecessor, so only the shape of a chain is a type.
IsSequence(s) == DOMAIN s = 1 .. Len(s)

TypeOK ==
    /\ \A i \in Ids : /\ chains[i].bound \in BOOLEAN
                      /\ chains[i].appending \in BOOLEAN
                      /\ chains[i].terminal \in BOOLEAN
                      /\ IsSequence(chains[i].receipts)
    /\ \A a \in Appenders : /\ appends[a].pc \in Steps \cup {"idle"}
                            /\ appends[a].outcome \in Outcomes
                            /\ appends[a].calls \in 0 .. MaxAppends

\* newReceiptChainState.
NewChain == [bound |-> TRUE, appending |-> FALSE, terminal |-> FALSE, receipts |-> <<>>]

Init ==
    /\ chains = [i \in Ids |-> [NewChain EXCEPT !.bound = FALSE]]
    /\ appends = [a \in Appenders |-> NoAppend]

At(a, pc) == appends[a].pc = pc

\* Fault: every receipt names the first one as its predecessor.
ReservationOfFirst(receipts) ==
    [index |-> Len(receipts),
     prev  |-> IF receipts = <<>> THEN ZeroHash ELSE SelfHash(Head(receipts))]

\* The index and the previous hash reserveAppend hands out and commitAppend expects.
Reservation(receipts) ==
    [index |-> Len(receipts),
     prev  |-> IF receipts = <<>> THEN ZeroHash ELSE SelfHash(Last(receipts))]

Returns(a, outcome) ==
    [appends EXCEPT ![a] = [pc |-> "idle", outcome |-> outcome, calls |-> @.calls]]

\* cond.Broadcast: every append that waits for this chain tries again.
Woken(f, id) ==
    [a \in Appenders |->
        IF f[a].pc = "waiting" /\ f[a].id = id THEN [f[a] EXCEPT !.pc = "reserving"]
        ELSE f[a]]

-------------------------------------------------------------------------------
\* Bind: a context and an empty chain for the id, once.  A second Bind, as by a
\* second recovery of the invocation, is refused.
Bind(id) ==
    /\ chains' = [chains EXCEPT ![id] = IF @.bound THEN @ ELSE NewChain]
    /\ UNCHANGED appends

\* AppendSignedReceipt up to the reservation: a context this provider has bound,
\* a terminal state only with its cleanup complete.
BeginAppend(a, id, terminal, cleanup) ==
    /\ At(a, "idle") /\ appends[a].calls < MaxAppends
    /\ appends' =
         [appends EXCEPT ![a] =
            IF chains[id].bound /\ (terminal => cleanup)
            THEN [pc |-> "reserving", outcome |-> "none", calls |-> @.calls + 1,
                  id |-> id, terminal |-> terminal]
            ELSE [pc |-> "idle", outcome |-> "invalid", calls |-> @.calls + 1]]
    /\ UNCHANGED chains

\* Fault: a reservation does not keep others out.
MustWaitNever(id) == FALSE

\* The loop condition of reserveAppend.
MustWait(id) == chains[id].appending

\* reserveAppend: wait for the append under way, or take the next index.
Reserve(a) ==
    LET id == appends[a].id IN
    /\ At(a, "reserving")
    /\ \/ /\ MustWait(id)
          /\ appends' = [appends EXCEPT ![a].pc = "waiting"]
          /\ UNCHANGED chains
       \/ /\ ~MustWait(id) /\ chains[id].terminal
          /\ appends' = Returns(a, "terminal")
          /\ UNCHANGED chains
       \/ /\ ~MustWait(id) /\ ~chains[id].terminal
          /\ chains' = [chains EXCEPT ![id].appending = TRUE]
          /\ appends' = [appends EXCEPT ![a] =
                [pc |-> "signing", outcome |-> "none", calls |-> @.calls, id |-> id,
                 terminal |-> @.terminal, at |-> Reservation(chains[id].receipts)]]

\* Fault: the waiting appends are not told.
AbortedSilently(a, outcome) ==
    /\ chains' = [chains EXCEPT ![appends[a].id].appending = FALSE]
    /\ appends' = Returns(a, outcome)

\* The deferred abortAppend of a call that did not commit.
Aborted(a, outcome) ==
    /\ chains' = [chains EXCEPT ![appends[a].id].appending = FALSE]
    /\ appends' = IF chains[appends[a].id].appending
                  THEN Woken(Returns(a, outcome), appends[a].id)
                  ELSE Returns(a, outcome)

\* validateSigningAuthority with VerifyHostAttestation: the exact callee, a usable
\* key, and an attestation exactly when somebody else signs.
AuthorityValid(authority) ==
    /\ authority.calleeMatches /\ authority.keyValid
    /\ authority.attestation = IF authority.signer = "callee" THEN "none" ELSE "valid"

\* Resolve, validateSigningAuthority, SignAndVerify and selfVerify, which checks
\* the signature independently of the authority.
Sign(a, authority, signature) ==
    /\ At(a, "signing")
    /\ IF AuthorityValid(authority) /\ signature = "verifies"
       THEN /\ appends' = [appends EXCEPT ![a] =
                 [pc |-> "committing", outcome |-> "none", calls |-> @.calls,
                  id |-> @.id, terminal |-> @.terminal, at |-> @.at,
                  hosted |-> authority.signer = "host"]]
            /\ UNCHANGED chains
       ELSE Aborted(a, "unsigned")

\* The resolver or the authority returns an error or panics.
SigningFails(a) == At(a, "signing") /\ Aborted(a, "unsigned")

\* The receipt AppendSignedReceipt drafts from its reservation.
Draft(a) ==
    [index |-> appends[a].at.index, prev |-> appends[a].at.prev,
     terminal |-> appends[a].terminal, hosted |-> appends[a].hosted]

\* Fault: any receipt may follow a terminal one.
ClosesNever(a) == FALSE

\* commitAppend: c.terminal = terminal.
Closes(a) == appends[a].terminal

\* commitAppend: the reservation is compared with the chain once more.
Commit(a) ==
    LET id == appends[a].id IN
    /\ At(a, "committing")
    /\ IF chains[id].appending /\ appends[a].at = Reservation(chains[id].receipts)
       THEN /\ chains' = [chains EXCEPT ![id] =
                 [bound |-> @.bound, appending |-> FALSE, terminal |-> Closes(a),
                  receipts |-> Append(@.receipts, Draft(a))]]
            /\ appends' = Woken(Returns(a, "appended"), id)
       ELSE Aborted(a, "lost")

AppendStep(a) == Reserve(a) \/ SigningFails(a) \/ Commit(a)
                 \/ \E authority \in Authority, s \in Signatures : Sign(a, authority, s)

Next ==
    \/ \E i \in Ids : Bind(i)
    \/ \E a \in Appenders, i \in Ids, terminal, cleanup \in BOOLEAN :
          BeginAppend(a, i, terminal, cleanup)
    \/ \E a \in Appenders : AppendStep(a)

Spec == Init /\ [][Next]_vars

\* A goroutine inside the provider goes on: no step of its waits for its caller.
FairSpec == Spec /\ \A a \in Appenders : WF_vars(AppendStep(a))

-------------------------------------------------------------------------------
\* VerifyReceiptChain (audit.go), the reference the chains are checked against: it
\* looks at indices and hashes and at nothing else.
VerifyReceiptChain(receipts) ==
    \A i \in DOMAIN receipts :
        /\ receipts[i].index = i - 1
        /\ receipts[i].prev = IF i = 1 THEN ZeroHash ELSE SelfHash(receipts[i - 1])

\* What a provider hands out (SnapshotSignedReceipts) at any instant passes the
\* auditor's VerifyReceiptChain, however appends overlap, fail and are retried.
ChainVerifies == \A i \in Ids : VerifyReceiptChain(chains[i].receipts)

\* A reservation is never lost: no append signs a receipt only to learn at its
\* commit that another one took its place (receipt_sequence_reservation_lost).
ReservationKept == \A a \in Appenders : appends[a].outcome # "lost"

\* The signed receipts are a ledger: appended one by one, never rewritten, and
\* nothing follows a terminal receipt.
ReceiptLedger == INSTANCE Ledger WITH
    log <- [i \in Ids |-> chains[i].receipts],
    IsTerminal <- LAMBDA r : r.terminal

ReceiptsAreLedger == ReceiptLedger!Spec

\* Every AppendSignedReceipt returns, whatever the authorities of the others do.
AppendsReturn == \A a \in Appenders : appends[a].pc # "idle" ~> At(a, "idle")
=============================================================================
