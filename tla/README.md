# A verification of the easynet-axon-go runtime

TLA+ models of the invocation runtime of this SDK (`axon/invocation`) and of its
client side (`axon`), with the TLC runs that check them on small instances and the TLAPS proofs that hold for
every instance.  Each module is a translation of the code named in the `map` of
`PROJECT.json`.

## The system

An *invocation* is a signed request that a `LocalRuntime` executes.  Its parts:

| part | state it keeps | operations | what is hard |
|---|---|---|---|
| `InvocationCore` (`handle.go`) | lifecycle state, event log, terminal claim, finalization error, output counter, `changed` and `terminal` channels | emit, restore, claim, fail finalization, acknowledge, fetch, stream Next/Close | six owners race for the end; waiters on a channel that is replaced at every signal; the terminal channel is closed outside the mutex |
| `LocalRuntime` (`local_runtime.go`) | registry of cores, reservations, children, executions, cancel intents | reserve, register, run, cancel, time out, suspend, recover | goroutines per invocation interleave between critical sections; parents end children; every error path returns a reservation |
| `MessageInbox` (`messaging.go`, `inbox_input.go`) | bounded queue, dedup entries, admission phase, deliveries under way | deliver, close, receive | EOF must not overtake accepted messages; retries; two locks |
| `PersistentLog` (`persistence.go`) | recovery record per invocation: phase, lease, events | initialize, append, begin finalization, mark, claim, renew | several runtimes, stalls, crashes, expired leases |
| `Supervisor` (`supervisor*.go`) | process group, cleanup callbacks, phase | register, signal, cleanup | cleanup racing registration, process groups that outlive a crash |
| admission (`admission.go`) | nonce replay store and its window | verify, prune, record, change the window | concurrent calls prune with clock readings taken before verification |
| receipt provider (`receipt_provider.go`) | bound contexts, one hash chain per invocation | bind, reserve, sign, commit, abort | signing happens outside every lock, between reservation and commit |
| receipts and bundles (`axiom.go`, `bundle.go`, `audit.go`, `receipt_verbs.go`) | nothing: records and their encodings | canonical bytes, JSON projection, decode, verify, walk, prove authority | what is signed, what is exported and what is compared must be the same fields |
| loopback streams (`streams.go`) | frames, credit, terminal state | push, next, cancel, close | credit and terminal frame at the limit |
| bidi session (`bidi_session.go`) | session state, sequence numbers, native handle | send, receive, close send, cancel, close | concurrent close, ordered frames |
| sidecar client (`client.go`, `reconnect.go`, `descriptor_bound_forwarding.go`) | bridge and handle, the reconnect flag, generation and worker | call, reconnect, hook, close | Close racing first use, an attempt under way and calls on a copied handle |
| native bidi stream (`dendrite_bridge_signed_invoke_bidi_cgo.go`) | eof and released flags, two locks, the native handle | send, half-close, receive, dispose | flags read without the lock; Dispose while Recv waits; unloading the library |

The parts interact through calls: the runtime emits into cores, a core asks the
receipt provider for a receipt and the persistent log for durability, calls back
into the runtime when it ends (`onInvocationTerminal`), and the runtime then
emits `child_terminal` into the parent's core.  The inbox calls the core through
an observer.  Runtimes of different processes meet only in the persistent log.
Admission runs before a reservation and hands the receipt provider the context it
binds; the signed chain leaves the process as a JSON bundle that an auditor
verifies.  On the client side user calls and the reconnect worker share one
transport, and a bidi stream shares the lock of the bridge with everything else
that calls the native library.

## Modules

| module | models | state | actions |
|---|---|---|---|
| `Lifecycle` | the rules of one core as operators | - | - |
| `InvocationCore` | one core with its emitters, finalizers and streams | the fields of `InvocationCore`, `EventStream`; `waiting` is the set of goroutines that hold the current `changed` channel | one per critical section of the core's mutex, and the unlocked tail of a terminal emit |
| `LocalRuntime` | the registry and the goroutines of several invocations in a parent tree | the maps of `LocalRuntime`; `pc`, `pending`, `err` are the goroutines' stages, remaining children and result | one per critical section of `r.mu`, of a core or of the recovery log |
| `MessageInbox` | one inbox | both locks' fields, the calls under way | one per critical section, and the channel operations |
| `RecoveryLog` | one recovery record and the runtimes that run it | the record, a clock, one execution and one recovery per runtime | one per operation on the record; `Tick` and `Crash` are the environment |
| `LoopbackStream` | one in-memory stream with its two handles | the credit channel, the frame queue, the cancel and close flags; `pc` is where a call is suspended | one per channel operation of `push`, `close`, `cancel`, `nextFrame`, `grantCredit` |
| `BidiSession` | one session and a generic transport | state, sequence numbers, sent and received frames, who holds the send and receive locks | one per critical section of the state mutex, and the transport calls between them |
| `Supervisor` | the process guard of one invocation | phase, processes, callbacks, the cleanup attempt, the record on disk, the members of each group | one per critical section or system call; process exits, `Crash` and the reaper of a later process are the environment |
| `Admission` | concurrent admissions of one runtime | the replay stores ever made, a clock, the store and clock reading each call captured | capture, stateless checks, `checkAndRecord`; `SetAdmissionDedupWindowMs`; the clock |
| `ReceiptChain` | the chains of one provider and concurrent appends | `receiptChainState` per id, where each append is | bind, reserve or wait, sign or fail, commit or abort |
| `Ledger` | what a receipt log promises, abstractly | a sequence per invocation | extend by one entry, never after a terminal one |
| `Authority` | bindings, evidence, proofs and their JSON, as operators | - | - |
| `ReceiptAudit` | one invocation's receipts from admission to audit | bound context, issued chain, bundle, what the auditor has verified and proved | admit, issue, export, damage, open, read, walk, prove |
| `SidecarClient` | one transport with its callers, worker, Close and endpoint | bridge, handle, reconnect state, the clients the native library has open | one per section under `mu`, one per native call, one per check of the worker's context |
| `NativeBidi` | one native bidi stream and the bridge's lock | the flags and locks of `BidiStream`, the RWMutex of the bridge, the native stream | entry checks, lock, native call, settle; unload; the peer |

`ReceiptChain` is shown to implement `Ledger` (`ReceiptsAreLedger`: the log of an
id is its signed receipts).  `ReceiptAudit` composes the provider, the bundle and
the auditor over `Authority`.

`RecoveryLogProofs`, `ReceiptChainProofs`, `ReceiptAuditProofs` and `BidiSessionProofs`
hold the theorems about the module they are named after; `InvocationProofs` those
about `InvocationCore` and `Supervisor`, `RuntimeProofs` those about `LocalRuntime` and
`Admission`, `QueueProofs` those about `MessageInbox` and `LoopbackStream`,
`ClientSideProofs` those about `NativeBidi` and `SidecarClient`.  Where two components
share a proof module, the specification of one carries its name (`SupervisorSpec`,
`AdmissionSpec`, `LoopbackSpec`, `ClientSpec`).
`MC...` modules give TLC its constants.  An operator that starts with "Fault:" is a plausible bug in
the definition below it; it is used only to show that a property can fail.

Data is abstract: payloads and reasons are left out, ids are model values, and in
the runtime modules a receipt is accepted or refused.  Where receipts are the
subject, a hash is the content it hashes and a signature the key and the bytes it
signs: hashes do not collide and signatures are not forged.  Durations are left
out except for leases, the replay window and the expiry of grants.

### How the steps correspond to the code

* A claim is taken with `r.mu` and the core's mutex held, together with the
  reading of the children: one step (`ClaimWithChildren`).
* `emitContext` is one step up to its unlock; the `onTerminal` callback, the
  parent's `child_terminal` and the close of the channel are steps of their own.
* `signalChangedLocked` replaces the channel, so it wakes exactly the goroutines
  that took the old one: it empties `waiting`.
* A core is fresh or recovered; its first event decides.
* The record is rewritten under the lock of its id and replaced by a rename: one
  step, which may also fail and leave the record as it was.  Runtimes are assumed to
  share the `PersistentLog` lock.  Any error of a renewal abandons the execution
  (`AbandonExecution`), whether or not the lease was lost.
* A runtime runs an invocation at most once, because its receipt provider
  rejects a second `Bind` of the same id, but it may lease the record again.  Two
  history variables mark the runtimes the properties leave out: `again` those that
  leased the record of an execution they already had, `kept` those that abandoned a
  lease they still held.
* `WinnerPanicked` is a panic before the claim.  Behind it the winner calls no foreign
  code outside the core's mutex (cleanup callbacks are recovered, `supervisor.go:225`),
  so the branch of `closePanickedCancelWinner` for a cancel claim
  (`local_runtime.go:1022-1036`) is not reached and not modelled.
* A `select` of `streams.go` is one step per branch that can be taken; where two
  branches are ready either is taken, as Go does.
* `Send`, `CloseSend` and `Cancel` hold the send lock over the transport call,
  `Receive` holds the receive lock: the state mutex is free in between, so other
  calls interleave there.  The transport loses nothing but may fail a call, repeat
  a frame, or end without a receipt.
* `SpawnProcessGroup` holds the mutex while it writes the record;
  `os.WriteFile` truncates before it writes, so a crash may hit between the two.
  A group's leader stays a zombie until it is waited for, and still answers the
  probe.
* An admission reads the replay store and the clock once, before it verifies, and
  uses both in `checkAndRecord`: capture and record are separate steps.  Stores are
  numbered because a call keeps the one it captured.
* `AppendSignedReceipt` is four steps: entry checks, `reserveAppend`, everything
  between reservation and commit, `commitAppend`; the deferred `abortAppend` is
  part of the step that fails.
* In `ReceiptAudit` the canonical bytes are tuples of exactly the fields the
  encoders write, the JSON keeps exactly the fields the projection keeps, and
  decoding loses what it loses: identities in an `AuthorityJSON` come back with
  the strict profile, a malformed causal context has no bytes and is exported as
  "none" (`CausalFromCtx`), and `NewReceiptProofFacts` panics on incomplete facts.
  `Damage` may drop, repeat or exchange receipts or put in the place of one any
  `ReceiptJSON` (`IsReceiptJSON`: the fields Go's types give it) whose signature is
  not by a key the auditor knows, or is one the provider made (`Unforged`).  The
  provider's key signs this one invocation: bundles that mix receipts of several are
  not considered.
* `mu` of the transport is free between two steps of `SidecarClient` except during
  the first use, which publishes the reconnect state, then its cancel function, then
  starts the worker (`CallEnable`, `CallArm`, `CallEnsure`), or stops after the first
  where the caller opted out of the loop.  `Close` reads that state without `mu`:
  `closer.unseen` records that the worker started behind it, `closer.late` that a call
  came after it returned.  `callInternal` works on a copied handle,
  `InvokeDescriptorBound` keeps `mu`.
* A goroutine of `NativeBidi` passes three points: the flags it reads unlocked,
  `upMu` or `recvMu`, and the read lock of the bridge.  A waiting writer keeps new
  readers out, as Go's `RWMutex` does.  Every native call may be refused; `Dispose`
  has marked the stream released by then, and `disposeFailed` records that it answered
  an error.  `CloseLibrary` frees no stream.

## Runs

Every run's properties are listed in `PROJECT.json` with the fault that breaks
each of them.

| run | instance | shows |
|---|---|---|
| `core` | 2 emitters, 2 finalizers, 1 stream, a buffer of 1 frame, 6 events | the outcome belongs to the owner that claimed; the terminal channel is closed once; no lost wakeup; bounded output; readers reach the end |
| `runtime` | a persisted parent with a deadline and a child, refused writes and receipts, a failing cleanup, a panicking winner | reservations are counted exactly over all error paths and suspension; children end before a cancelled or timed-out parent; every cancel is answered and every deadline ends its invocation |
| `inbox` | 2 senders, 1 receiver, queue of 1, 3 messages | EOF after everything accepted, FIFO without gaps in which everything acknowledged is found, retries agree, a close reaches receivers |
| `recovery` | 3 runtimes, a lease of 1 tick, 2 ticks, 2 leases, one runtime that may crash, 2 events | one terminal receipt among the runtimes that did not lease their own record again; none after a suspension or a lost lease; a runtime whose lease went to another stops its execution |
| `stream` | 2 producers, 1 consumer, a window of 1 frame, 2 frames each | credit is conserved; every end reaches a waiting consumer |
| `bidi` | 2 senders, a receiver, a closer, 3 frames from the peer | order of what goes up; the first receipt decides how the session ended; the session ends when its peer does |
| `supervisor` | 2 groups, 2 callbacks, 2 flows, a crash and a reaper | no process outlives a cleanup callback or a closed barrier; the record names every group that lives; every flow returns |
| `admission` | 2 calls, 2 nonces, a window of 1 tick, 3 ticks, 2 stores, 3 admissions | a nonce is admitted again by a store only after its window has passed on the wall clock; a replay refusal names a nonce that was admitted |
| `receipts` | 3 appenders, 2 appends each, 1 chain | what the provider hands out passes `VerifyReceiptChain`; no reservation is lost; the chain implements `Ledger`; every append returns |
| `audit` | bindings of every form, right and wrong, strict and web-safe, a malformed causal context, 2 receipts signed by callee or host, 1 change of the bundle out of some thirty | an accepted chain is a prefix of the issued one in every signed field; an unchanged bundle of a portable context is accepted and gives back the issued receipts; proofs of authority rest on grants that cover the receipt |
| `client` | 2 callers of 2 calls, with and without a loop, 2 attempts or no limit, 1 outage, 1 failing hook, Close | no client outlives Close, outside a call after it or a first use that overlaps it; the generation counts new clients with their hook done; a transport without a limit reconnects; a Close that cancelled the worker, or has none, returns |
| `native` | 2 senders of 2 operations, refused calls, a receiver, 2 frames of the peer, CloseLibrary | one end of the up direction and nothing behind it; a released stream is freed natively unless a Dispose answered an error; Dispose returns although nothing is received |

### Bounds

`Max...` constants cap counters in guards.  A buffer of one
frame already fills and drains; two finalizers are the most that ever work on one
claim (the winner and a panicked cancel winner); two ticks let a lease
of one tick be taken over, expire under its owner and be taken over again by the
third runtime, which takes two leases, or by the runtime that suspended it;
two producers contend for one credit, and the second frame of each needs the
credit of a first one back; two senders and a closer are in every pair of calls
of a session at once; of two groups one may die while the other holds out; one
slow call and one fast call are enough for every order of capture and record, and
three ticks pass a window of one tick twice; three appenders are one that holds
the reservation and two that are woken together; with two receipts a chain has a
link to break; two calls of two callers cover first use, a call on a copied handle
and a late call, and two attempts are given up by an outage; two operations of two
goroutines are every race of send, half-close and dispose.  The `runtime` instance
has room for both invocations: a refusal for capacity changes nothing and is not
reached.  Deadlock is
not checked: a system whose callers do nothing more may stop.

### Fairness

* `core`: a blocked emitter that was woken runs, finalizers run to their end, and
  a consumer keeps calling `Next`.  Nobody has to emit, claim or close.
* `runtime`: goroutines of the SDK are scheduled and timers fire.  A
  handler never has to return.
* `inbox`: a delivery under way is scheduled, the ability keeps receiving.
* `recovery`: the renewal ticker of a live runtime keeps firing.
* `stream`: calls under way are scheduled and the consumer keeps asking.  `Receive`
  is strongly fair: its `select` chooses at random between a frame and the timer,
  so a frame that is there again and again is taken in the end.
* `bidi`: calls return, and somebody keeps receiving.
* `supervisor`: the goroutine of the cleanup runs, callbacks return, time limits
  fire, and a process that got SIGKILL dies and is reaped.  A process that only
  got SIGTERM never has to die.
* `receipts`: a goroutine inside the provider goes on; resolvers and authorities
  return, with whatever result.
* `client`: goroutines run, the hook returns, the endpoint comes back.  `WorkerExit`
  is strongly fair: Go's `select` chooses at random between a tick and a context
  that is done.
* `native`: goroutines run and a mutex that is free again and again is obtained.
  Nothing is assumed of the peer or of timeouts.

## Proofs

TLAPS proves, for every value of the constants:

* `InvocationProofs`, of `InvocationCore`: the types; `ClaimDecidesOutcome`, from the invariant
  that every finalizer at work carries the event of the one claim (`OutcomeInv`);
  `TerminalClosedOnce`, from the invariant that at most one finalizer is between
  its terminal event and the close, and that the channel is then still open
  (`CloseInv`); `NoLostWakeup`, from `WakeupInv`, which adds that only goroutines
  inside their wait are in `waiting`; `OutputBounded`, from `OutputInv`: the counter
  of a core that was not recovered is exactly the number of unread live frames
  (`OutputCounted`), for which a stream must never hold a sequence beyond the log
  and a frame two streams read must be freed once.
* `QueueProofs`, of `MessageInbox`: the types; `EOFAfterEverything`, `FifoGapless` and
  `RetriesAgree` for any numbers of senders, receivers, messages and ids.  `InboxInv`
  adds that the count of deliveries under way is exact and EOF waits for it to be
  zero (`GateInv`), that the holder of the inbox's lock carries the one accepted
  message that is not visible yet (`LockInv`), that sequences are handed out before
  they are acknowledged (`SequenceInv`), and that dedup knows one sequence per id
  and forgets the oldest first (`DedupInv`).
* `RecoveryLogProofs`: the types; `OneTerminalReceipt` and
  `SuspendedIssuesNoReceipt`, for any number of runtimes, leases,
  stalls, crashes and failed reads and writes.  Neither is inductive: `RecoveryInv`
  adds what each phase says about the owner (`PhaseInv`), that only one execution was
  not recovered (`ExecInv`), that who gave the invocation up neither holds the record
  nor ends it (`GivenUpInv`), that an owner which finds a finished log never runs it
  (`OwnerInv`), and that whoever passed the fence still holds the record or the
  log has ended (`FenceInv`).  The proof first states the effect of each action
  on the fields the invariant reads, then argues on effects only.  The runtimes in
  `again` and `kept` are left out of the statements, not of the model: for them the
  code does otherwise (see the known divergences).
* `InvocationProofs`, of `Supervisor`: the types; `NothingOutlivesCleanup` and
  `RecordedUntilGone` for any sets of groups, callbacks and flows.  `SupervisorInv` adds that every
  started group is in `processes` (`StartedKnown`), that nothing is spawned once
  the phase has left active (`PhaseInv`) and so the attempt's copy stays complete
  (`CopyInv`), that callbacks run only after every group was seen absent
  (`AfterKillInv`), and that a reaper works on the record that is on disk
  (`ReaperInv`).
* `RuntimeProofs`, of `LocalRuntime`: the types and `ReservationsExact`, for any
  forest of invocations.  `RegistryInv` adds that the counters count the invocations
  the code treats as reserved (`CountInv`), that nobody works on an invocation before
  it is registered and a registered child is known to its parent (`PlaceInv`), that
  one goroutine emits the terminal event and its callback releases the reservation,
  unless a suspension did (`EndInv`), and that whoever finalizes has a claim
  (`ClaimedInv`).
* `RuntimeProofs`, of `LocalRuntime`: `SpawnedChildrenEndFirst`.  `FamilyInv` adds that
  a call which returned without an error tells of an invocation that ended
  (`ResultInv`), who may finalize for which claim (`OwnerInv`), and that a cancel or a
  deadline on its way to its event has, of the children in the parent's chain, only
  those left to end that it still has to wait for (`PropagateInv`).  Claim and children
  are read in one critical section, and no child is spawned behind a claim: this is why
  none is missed.
* `RuntimeProofs`, of `Admission`: the types; `ReplayWindowKept` and `ReplayRefusalJustified` for
  any calls, nonces, windows and replaced stores.  `AdmissionInv` adds that no call
  has a clock reading ahead of the wall clock (`CaptureInv`), that a store remembers
  each of its admissions until the window has passed (`RememberInv`: this is where
  pruning with an old clock reading is harmless, and with a newer one justified), and
  that it remembers nothing else (`SeenInv`).
* `ReceiptChainProofs`: the types; `ChainVerifies`, `ReservationKept`, that whoever
  waits for a chain waits for an append that holds it (`WaitersAttended`), and the
  refinement `ReceiptsAreLedger`, step by step: every step but a commit is a stutter
  of `Ledger`, a commit extends one log.  `ChainInv` says that the append between
  reservation and commit is alone on its chain and carries the chain's next place
  (`HolderInv`), that a chain is marked as appending only while it is held
  (`WaitInv`), and that the terminal flag agrees with the last receipt
  (`TerminalInv`).  Receipts contain their predecessors, so the types of the chain
  are shapes (`ChainShape`, `AppendShape`) rather than sets given in advance.
* `ReceiptAuditProofs`: the types; `AcceptedIsIssued`, `IssuedSurvivesExport` and
  `ProofsRestOnGrants`, for chains of any length, bindings of every form, any number of
  changes to the bundle and any change that forges nothing.  The first rests on what is
  signed: canonical bytes determine every signed field (`CanonicalReceiptFields`,
  `CanonicalAuthorityInjective`, `SameFacts`), so a receipt that verifies says what the
  issued one with its signature says (`AcceptedMatches`), wherever the bundle had it; the
  walk over indices then puts each at its own place.  The second is a round trip, form by
  form (`AuthorityRoundTrip`, `FactsRoundTrip`, `HostedRoundTrip`, `ReceiptRoundTrip`):
  whatever portable context the shallow gate at admission and the encoder of the proof
  facts let through, the stricter decoder accepts and gives back.  The third reads the claim of the grant
  off the signature (`DelegationIsGranted`, `SessionIsGranted`).  `AuditInv` says how
  each receipt was issued (`ContextInv`, `ChainInv`), that the bundle forges nothing
  (`BundleInv`), that what was verified was issued (`VerifiedInv`), and that without
  damage the auditor reads the chain itself (`FaithfulInv`).
* `BidiSessionProofs`: the types, `UpInOrder`, `ReceiptDecides`, and the action
  property that an ended session is never open again (`EndedIsFinal`).  `SessionInv`
  adds that data which went up has a sequence number that was recorded or is about to
  be (`SequenceInv`), and that an end goes up only behind a change of the state that
  no step undoes (`EndInv`); the lemma `Outcomes` says that every transition of
  `nextBidiState`, `fail` and `applyFrameLocked` only goes forward.
* `QueueProofs`, of `LoopbackStream`: the types and `CreditConserved`.  `LoopbackInv`
  adds that a push which waits for credit has a data frame and that finitely many
  calls hold credit (`CallsInv`), so that each step moves exactly one unit between the
  channel, the pushes, the queue and the consumers, or none; credit that is given
  back to a full channel is dropped only after a `GrantCredit`.
* `ClientSideProofs`, of `NativeBidi`: the types, `UpEndsOnce`, `ReleasedIsFreed`, and that no
  goroutine is in a native call of an unloaded library (`NoCallAfterUnload`).
  `StreamInv` adds who holds `upMu` (`HolderInv`), that at most one goroutine is going
  to end the up direction and has not done so (`EndInv`), that the native stream is
  freed before Go learns of it (`FreedInv`), and that a goroutine in a native call
  holds the bridge's lock for reading (`CallsInLibrary`).
* `ClientSideProofs`, of `SidecarClient`: the types, `ClosedIsQuiet` and the action
  property `GenerationIsFresh`.  `ClientInv` adds that the library has no client open
  but the one the transport holds (`ClientHeld`), that the worker is started behind the
  reconnect state (`WorkerStarted`), that a Close which tears down has seen the worker
  end and no step but a late call or a worker started behind it opens a client again
  (`NothingReopens`), and that the
  handle is newer than the one the worker retired from then on to the end of the attempt
  (`AttemptIsFresh`).

The inductive invariants of the core, the runtime, the inbox, the admission, the receipts, the
audit, the session, the client and the native stream were also model-checked, on the instances of their
runs, those of the inbox and of the native stream with two receivers besides.

The proofs assume what the modules assume of their constants (`...Assumption`) and
nothing else.  Bounds (`Max...`) are any natural number.  The
assumptions of `ReceiptAudit` are evaluated by its run: bindings are records the
constructors of `axiom.go` make (`BindingsAssumption`), the auditor's resolver knows the callee and its host (`SignersAssumption`), and a
signature on a binding by a key it knows was made for a grant (`GrantsAssumption`).
That hashes do not collide is how `Sha256` is defined.

Only model-checked:

* Liveness (`ReadersDrain`, `CancelAnswered`, `DeadlineEnds`, `CloseReachesReceivers`,
  `StaleOwnerStops`, `EndReachesConsumer`, `PeerEndsSession`, `FlowsReturn`,
  `AppendsReturn`, `Reconnects`, `CloseReturns`, `DisposeReturns`): it rests on
  fairness, which is out of the prover's reach.

## Known divergences

Where the code does something else than a comment, a test or a document says, the
property of the run excludes the case, and says so:

| where | the code | what is said |
|---|---|---|
| `handle.go:466` | a progress frame replayed after a recovery is acknowledged without having been counted, so more than the capacity of unread frames can follow | `README.md:132`: "Output and inbound message buffers are bounded at 64 frames." `OutputBounded` is about a core that was not recovered |
| `persistence.go:476` | the fence compares runtime ids: a runtime that leases the record it suspended lets the suspended execution issue a terminal receipt | `local_runtime.go:1167`: "SuspendForRestart relinquishes running persisted invocations without issuing terminal receipts." `OneTerminalReceipt` and `SuspendedIssuesNoReceipt` leave out runtimes in `again` |
| `local_runtime.go:1496` | any error of a renewal, a failed read or write too, abandons the execution: one whose lease is held and whose finalization is under way is marked suspended and still issues its receipt | the same line; `SuspendedIssuesNoReceipt` leaves out runtimes in `kept` |
| `local_runtime.go:1010` | a receipt provider that panics under the core's mutex leaves it locked; `closePanickedCancelWinner` waits for it with `r.mu` held | `concurrent_cancel_test.go:140` injects the panic before the claim only |
| `local_runtime.go:1259` | a recovery that fails late marks a record suspended that another runtime has closed | `lifecycle_convergence_test.go:392` treats a replayed closed record as a failure |
| `streams.go:229` | `GrantCredit` while frames are queued lets data into the slot of the terminal frame | `streams.go:19`: the terminal frame always has a reserved slot |
| `local_runtime.go:349` | the nonce is recorded before a capacity refusal that carries a retry hint: a retry of the signed request is a replay | - |
| `bundle.go:362` | the profile of an authority is not exported; a web-safe authority comes back strict, its proof hash differs, and decoding panics (`axiom.go:906`) | `IssuedSurvivesExport` is about portable contexts |
| `bundle.go:516`, `bundle.go:541` | a scalar causal context without its reference, or of an unknown form (a struct literal), is signed as no bytes and exported as "none", whose bytes differ: the bundle is rejected | the same |
| `reconnect.go:300` | a Close that reads the reconnect state before its cancel function is set waits for a worker nobody cancels | `client.go`: Close is safe on any transport. `CloseReturns` is about a Close that cancelled |
| `client.go:138` | where the first use of the transport overlaps Close, `shutdownReconnect` finds no state, no cancel function or nobody to wait for: Close returns and the worker starts behind it, in the first two cases uncancelled for ever, and may reopen a client; a call after Close reopens one too | "guarantees no resurrect after Close returns" is false for the worker there; `ClosedIsQuiet` leaves both cases out |
| `client.go:194` | a call that copied a nil bridge after Close panics | - |
| `reconnect.go:232` | a worker that gave up after `MaxAttempts` returns to its select with the flag set, and the next tick starts it again; no call reads `lastReconnectErr` | `reconnect.go:62-67`, `192-194`: it gives up, and "the next user call surfaces the error immediately rather than retrying forever". `Reconnects` is about transports without a limit |
| `reconnect.go:84`, `reconnect.go:128` | an interval of 0 becomes 15000, so only a negative one opts out of the loop; then nothing ever clears the flag | `reconnect.go:57-60`: "0 disables the background loop entirely". `Reconnects` is about transports with the loop |
| `descriptor_bound_forwarding.go:48` | `InvokeDescriptorBound` never marks a transport disconnected, so a transport without a signing key is never reconnected by it | - |
| `dendrite_bridge_signed_invoke_bidi_cgo.go:775` | Dispose marks the stream released before its one StreamClose: where that is refused, or the library is unloaded, the stream is leaked and no later call tries again | line 767: "It attempts final cleanup once." `ReleasedIsFreed` excepts a Dispose that answered an error |
| `dendrite_bridge_cgo.go:488` | a CloseLibrary that waits for a receiver keeps the Dispose out that would end the wait | the exception in `DisposeReturns` |

## Not modelled

* The native bridge beyond its lock and the bidi stream: calls into a C library
  whose state is not in the repository.
* `stream_resume.go`: one goroutine drives a resuming stream and nothing else
  touches its state; its tests reach each state.
* Parsing and formatting of names and requests, `InvocationJSON`, causal traces,
  key files, the ledger projection, the jsonl event file and its index.
* `runtime_server.go`: starts and stops an external process.
* Liveness when the receipt provider refuses a terminal event is not claimed: the
  code drops the error and the invocation stays claimed (hazard at
  `local_runtime.go:780`).

## Plan

All parts of the table of modules are modelled and checked, and every safety property a
run checks is a theorem.  What remains of interest is outside these modules: the jsonl
event file of the persistent log, the resuming streams, and the parsers of names and
requests.
