----------------------------- MODULE SidecarClient -----------------------------
(***************************************************************************)
(* The client side of the native bridge: SidecarTransport (axon/client.go, *)
(* axon/descriptor_bound_forwarding.go) with AutoReconnect, and its        *)
(* background worker (axon/reconnect.go).  User calls, the worker, Close   *)
(* and the endpoint are concurrent; bridge and handle are shared under mu, *)
(* the reconnect state is read by Close without it.                        *)
(*                                                                         *)
(* The native library is external: it hands out fresh handles, a client it *)
(* opened works until its connection breaks, and a call on a handle that   *)
(* is closed fails with an error of either class.  Backoff times are left  *)
(* out: a sleep takes any time.                                            *)
(***************************************************************************)
EXTENDS Integers, FiniteSets

CONSTANTS
    Callers,          \* goroutines that call
    Limits,           \* values of ReconnectOptions.MaxAttempts, 0 for no limit
    MaxCalls,         \* bound: calls of one caller
    MaxBreaks,        \* bound: times the endpoint goes away
    MaxHookFailures   \* bound: OnReconnect hooks that fail

ASSUME ClientAssumption ==
    /\ Limits \subseteq Nat /\ MaxCalls \in Nat
    /\ MaxBreaks \in Nat /\ MaxHookFailures \in Nat

VARIABLES
    net,        \* [up, live, breaks]: the endpoint and the clients whose connection works
    open,       \* clients the native library has open
    last,       \* the last handle it gave out
    transport,  \* [signing, loop, limit, bridge, handle] of the SidecarTransport
    reconnect,  \* [exists, cancellable, disconnected, cancelled, generation]
    worker,     \* [pc, attempts, failed, stale, hookFailures]
    calls,      \* [Callers -> [pc, handle, count]]
    closer      \* [pc, late, unseen]: the goroutine that calls Close; whether a call
                \* came after it returned, and the worker after it stopped waiting

clientVars == <<net, open, last, transport, reconnect, worker, calls, closer>>

WorkerSteps == {"none", "select", "retire", "open", "opened", "hook", "settle",
                "sleep", "gone"}

Net == [up : BOOLEAN, live : SUBSET Nat, breaks : 0 .. MaxBreaks]
\* loop: HealthCheckIntervalMs asks for the background loop; limit: MaxAttempts.
Transport == [signing : BOOLEAN, loop : BOOLEAN, limit : Limits,
              bridge : BOOLEAN, handle : Nat]
Reconnect == [exists : BOOLEAN, cancellable : BOOLEAN, disconnected : BOOLEAN,
              cancelled : BOOLEAN, generation : Nat]
Worker == [pc : WorkerSteps, attempts : Nat, failed : BOOLEAN, stale : Nat,
           hookFailures : 0 .. MaxHookFailures]
Call == [pc : {"idle", "enabling", "starting", "ensured", "invoking", "panicked"},
         handle : Nat, count : 0 .. MaxCalls]
Closer == [pc : {"idle", "joining", "tearing", "closed"}, late : BOOLEAN,
           unseen : BOOLEAN]

\* No handle is above the last one given out.
ClientTypeOK ==
    /\ net \in Net /\ net.live \subseteq open
    /\ last \in Nat /\ open \subseteq 1 .. last
    /\ transport \in Transport /\ transport.handle <= last
    /\ reconnect \in Reconnect
    /\ worker \in Worker /\ worker.stale <= last
    /\ calls \in [Callers -> Call] /\ \A c \in Callers : calls[c].handle <= last
    /\ closer \in Closer

ClientInit ==
    /\ net = [up |-> TRUE, live |-> {}, breaks |-> 0]
    /\ open = {} /\ last = 0
    /\ \E s, b \in BOOLEAN, m \in Limits :
          transport = [signing |-> s, loop |-> b, limit |-> m, bridge |-> FALSE,
                       handle |-> 0]
    /\ reconnect = [exists |-> FALSE, cancellable |-> FALSE, disconnected |-> FALSE,
                    cancelled |-> FALSE, generation |-> 0]
    /\ worker = [pc |-> "none", attempts |-> 0, failed |-> FALSE, stale |-> 0,
                 hookFailures |-> 0]
    /\ calls = [c \in Callers |-> [pc |-> "idle", handle |-> 0, count |-> 0]]
    /\ closer = [pc |-> "idle", late |-> FALSE, unseen |-> FALSE]

-------------------------------------------------------------------------------
(* The native library and the endpoint.                                        *)

\* The endpoint goes away and breaks every connection, or comes back.
Break ==
    /\ net.up /\ net.breaks < MaxBreaks
    /\ net' = [up |-> FALSE, live |-> {}, breaks |-> net.breaks + 1]
    /\ UNCHANGED <<open, last, transport, reconnect, worker, calls, closer>>

Restore ==
    /\ ~net.up
    /\ net' = [net EXCEPT !.up = TRUE]
    /\ UNCHANGED <<open, last, transport, reconnect, worker, calls, closer>>

\* CloseClient of the handle held, if any.
ClientClosed ==
    /\ open' = open \ {transport.handle}
    /\ net' = [net EXCEPT !.live = @ \ {transport.handle}]

-------------------------------------------------------------------------------
(* SidecarTransport under mu.                                                  *)

\* mu is given back between two steps, but for the first use of the transport.
MuFree == \A c \in Callers : calls[c].pc \notin {"enabling", "starting"}

Connected == transport.bridge /\ transport.handle # 0

\* ensureClient after that: keep the client, or open the library and a client; where
\* that fails the library is closed again.
Ensured ==
    IF Connected
    THEN UNCHANGED <<net, open, last, transport>>
    ELSE IF net.up
    THEN /\ last' = last + 1 /\ open' = open \cup {last + 1}
         /\ net' = [net EXCEPT !.live = @ \cup {last + 1}]
         /\ transport' = [transport EXCEPT !.bridge = TRUE, !.handle = last + 1]
    ELSE /\ transport' = [transport EXCEPT !.bridge = FALSE]
         /\ UNCHANGED <<net, open, last>>

EnsureFails == ~Connected /\ ~net.up

\* retireReconnectClient.
Retired ==
    /\ transport' = [transport EXCEPT !.handle = 0]
    /\ IF Connected THEN ClientClosed ELSE UNCHANGED <<open, net>>

-------------------------------------------------------------------------------
(* User calls: callInternal of a signing transport, InvokeDescriptorBound of   *)
(* the other kind.                                                             *)

\* The first use publishes the reconnect state, under mu (enableAutoReconnect).
CallEnable(c) ==
    /\ calls[c].pc = "idle" /\ calls[c].count < MaxCalls /\ ~reconnect.exists
    /\ calls' = [calls EXCEPT ![c].pc = "enabling"]
    /\ reconnect' = [reconnect EXCEPT !.exists = TRUE]
    /\ UNCHANGED <<net, open, last, transport, worker, closer>>

\* The cancel function follows, where the caller did not opt out of the loop.
CallArm(c) ==
    /\ calls[c].pc = "enabling" /\ transport.loop
    /\ calls' = [calls EXCEPT ![c].pc = "starting"]
    /\ reconnect' = [reconnect EXCEPT !.cancellable = TRUE]
    /\ UNCHANGED <<net, open, last, transport, worker, closer>>

\* The call is in ensureClient with the reconnect state set up.
InEnsure(c) ==
    \/ calls[c].pc = "starting"
    \/ calls[c].pc = "enabling" /\ ~transport.loop
    \/ calls[c].pc = "idle" /\ calls[c].count < MaxCalls /\ reconnect.exists /\ MuFree

StartsWorker == transport.loop /\ worker.pc = "none"

\* The rest of ensureClient.  The first use starts the worker; there is never a second.
CallEnsure(c) ==
    /\ InEnsure(c)
    /\ worker' = [worker EXCEPT !.pc = IF StartsWorker THEN "select" ELSE @]
    /\ Ensured
    /\ calls' = [calls EXCEPT ![c].count = @ + 1,
                              ![c].pc = IF EnsureFails THEN "idle" ELSE "ensured"]
    /\ closer' = [closer EXCEPT
                    !.late = @ \/ closer.pc = "closed",
                    !.unseen = @ \/ (StartsWorker /\ closer.pc \in {"tearing", "closed"})]
    /\ UNCHANGED reconnect

\* The caller's context is done.
CallAbandon(c) ==
    /\ calls[c].pc = "ensured"
    /\ calls' = [calls EXCEPT ![c].pc = "idle"]
    /\ UNCHANGED <<net, open, last, transport, reconnect, worker, closer>>

\* callInternal copies bridge and handle under mu and lets go of it; the call through
\* a nil bridge panics.
CallCopy(c) ==
    /\ calls[c].pc = "ensured" /\ transport.signing /\ MuFree
    /\ calls' = [calls EXCEPT ![c].pc = IF transport.bridge THEN "invoking" ELSE "panicked",
                              ![c].handle = transport.handle]
    /\ UNCHANGED <<net, open, last, transport, reconnect, worker, closer>>

\* InvokeAbilitySigned on the copied handle: an answer, an error of the application,
\* or one isTransportError takes for a dropped connection, which marks the transport
\* disconnected.  A timeout on a working client is taken for one too.
CallInvoke(c) ==
    /\ calls[c].pc = "invoking"
    /\ calls' = [calls EXCEPT ![c].pc = "idle", ![c].handle = 0]
    /\ \/ /\ calls[c].handle \in net.live \/ calls[c].handle \notin open
          /\ UNCHANGED reconnect
       \/ reconnect' = [reconnect EXCEPT !.disconnected = TRUE]
    /\ UNCHANGED <<net, open, last, transport, worker, closer>>

\* InvokeDescriptorBound keeps mu over the native call and answers with an error if
\* the client is gone.  It marks nothing.
CallForward(c) ==
    /\ calls[c].pc = "ensured" /\ ~transport.signing /\ MuFree
    /\ calls' = [calls EXCEPT ![c].pc = "idle"]
    /\ UNCHANGED <<net, open, last, transport, reconnect, worker, closer>>

-------------------------------------------------------------------------------
(* The worker.  A check of the context is taken together with the step after   *)
(* it: a cancel between the two only sets the flag that the next check reads.  *)

\* driveReconnect returns; its locals are gone.
Returns == worker' = [worker EXCEPT !.pc = "select", !.attempts = 0, !.failed = FALSE,
                                    !.stale = 0]

\* A tick that finds the flag set starts driveReconnect.
WorkerTick ==
    /\ worker.pc = "select" /\ reconnect.disconnected
    /\ worker' = [worker EXCEPT !.pc = "retire", !.stale = transport.handle]
    /\ UNCHANGED <<net, open, last, transport, reconnect, calls, closer>>

\* Fault: the worker looks at the flag before it looks at the context.
WorkerExitConnected ==
    /\ worker.pc = "select" /\ reconnect.cancelled /\ ~reconnect.disconnected
    /\ worker' = [worker EXCEPT !.pc = "gone"]
    /\ UNCHANGED <<net, open, last, transport, reconnect, calls, closer>>

\* The select finds the context done: wg.Done.
WorkerExit ==
    /\ worker.pc = "select" /\ reconnect.cancelled
    /\ worker' = [worker EXCEPT !.pc = "gone"]
    /\ UNCHANGED <<net, open, last, transport, reconnect, calls, closer>>

\* Fault: the client that broke is kept.
WorkerRetireNothing ==
    /\ worker.pc = "retire" /\ MuFree
    /\ IF reconnect.cancelled THEN Returns ELSE worker' = [worker EXCEPT !.pc = "open"]
    /\ UNCHANGED <<net, open, last, transport, reconnect, calls, closer>>

WorkerRetire ==
    /\ worker.pc = "retire" /\ MuFree
    /\ IF reconnect.cancelled
       THEN Returns /\ UNCHANGED <<net, open, transport>>
       ELSE worker' = [worker EXCEPT !.pc = "open"] /\ Retired
    /\ UNCHANGED <<last, reconnect, calls, closer>>

WorkerOpen ==
    /\ worker.pc = "open" /\ MuFree
    /\ IF reconnect.cancelled
       THEN Returns /\ UNCHANGED <<net, open, last, transport>>
       ELSE worker' = [worker EXCEPT !.pc = "opened", !.failed = EnsureFails] /\ Ensured
    /\ UNCHANGED <<reconnect, calls, closer>>

\* The hook runs only after a client was opened; a cancel gives the client back.
WorkerOpened ==
    /\ worker.pc = "opened" /\ MuFree
    /\ IF reconnect.cancelled
       THEN Returns /\ Retired
       ELSE /\ worker' = [worker EXCEPT !.pc = IF worker.failed THEN "settle" ELSE "hook"]
            /\ UNCHANGED <<net, open, transport>>
    /\ UNCHANGED <<last, reconnect, calls, closer>>

\* OnReconnect returns.
WorkerHook ==
    /\ worker.pc = "hook"
    /\ \/ worker' = [worker EXCEPT !.pc = "settle"]
       \/ /\ worker.hookFailures < MaxHookFailures
          /\ worker' = [worker EXCEPT !.pc = "settle", !.failed = TRUE,
                                      !.hookFailures = @ + 1]
    /\ UNCHANGED <<net, open, last, transport, reconnect, calls, closer>>

GivesUp == transport.limit > 0 /\ worker.attempts + 1 >= transport.limit

\* Fault: no limit is taken for a limit of zero, and a worker that gives up ends.
AfterFailureEnds ==
    worker' = [worker EXCEPT !.attempts = @ + 1, !.failed = FALSE,
                 !.pc = IF worker.attempts + 1 >= transport.limit THEN "gone" ELSE "sleep"]

\* A failed attempt: return to the select with the flag set, or sleep and try again.
AfterFailure ==
    \/ GivesUp /\ Returns
    \/ ~GivesUp /\ worker' = [worker EXCEPT !.pc = "sleep", !.failed = FALSE,
                                 !.attempts = IF transport.limit = 0 THEN 0 ELSE @ + 1]

WorkerSettle ==
    /\ worker.pc = "settle" /\ MuFree
    /\ IF reconnect.cancelled
       THEN Returns /\ Retired /\ UNCHANGED reconnect
       ELSE /\ IF worker.failed
               THEN AfterFailure /\ UNCHANGED reconnect
               ELSE /\ Returns
                    /\ reconnect' = [reconnect EXCEPT !.disconnected = FALSE,
                                                      !.generation = @ + 1]
            /\ UNCHANGED <<net, open, transport>>
    /\ UNCHANGED <<last, calls, closer>>

\* The backoff ends, or the context does.
WorkerWake ==
    /\ worker.pc = "sleep"
    /\ IF reconnect.cancelled THEN Returns ELSE worker' = [worker EXCEPT !.pc = "retire"]
    /\ UNCHANGED <<net, open, last, transport, reconnect, calls, closer>>

-------------------------------------------------------------------------------
(* Close.                                                                      *)

\* shutdownReconnect reads the reconnect state without mu: there may be none yet, or
\* one without its cancel function.
CloseBegin ==
    /\ closer.pc = "idle"
    /\ closer' = [closer EXCEPT !.pc = IF reconnect.exists THEN "joining" ELSE "tearing"]
    /\ reconnect' = [reconnect EXCEPT !.cancelled = reconnect.cancellable]
    /\ UNCHANGED <<net, open, last, transport, worker, calls>>

\* Fault: Close does not wait for the worker.
CloseJoinAtOnce ==
    /\ closer.pc = "joining"
    /\ closer' = [closer EXCEPT !.pc = "tearing"]
    /\ UNCHANGED <<net, open, last, transport, reconnect, worker, calls>>

\* wg.Wait.
CloseJoin ==
    /\ closer.pc = "joining" /\ worker.pc \in {"none", "gone"}
    /\ closer' = [closer EXCEPT !.pc = "tearing"]
    /\ UNCHANGED <<net, open, last, transport, reconnect, worker, calls>>

CloseTeardown ==
    /\ closer.pc = "tearing" /\ MuFree
    /\ IF Connected THEN ClientClosed ELSE UNCHANGED <<open, net>>
    /\ transport' = [transport EXCEPT !.bridge = FALSE, !.handle = 0]
    /\ closer' = [closer EXCEPT !.pc = "closed"]
    /\ UNCHANGED <<last, reconnect, worker, calls>>

-------------------------------------------------------------------------------

CallStep(c) ==
    CallArm(c) \/ CallEnsure(c) \/ CallCopy(c) \/ CallInvoke(c) \/ CallForward(c)

WorkerStep ==
    \/ WorkerTick \/ WorkerExit \/ WorkerRetire \/ WorkerOpen \/ WorkerOpened
    \/ WorkerHook \/ WorkerSettle \/ WorkerWake

CloseStep == CloseJoin \/ CloseTeardown

ClientNext ==
    \/ Break \/ Restore
    \/ \E c \in Callers : CallEnable(c) \/ CallAbandon(c) \/ CallStep(c)
    \/ WorkerStep
    \/ CloseBegin \/ CloseStep

ClientSpec == ClientInit /\ [][ClientNext]_clientVars

\* Goroutines run, the hook returns and the endpoint comes back; a select that finds
\* the context done over and over takes that branch in the end.
ClientFairSpec ==
    /\ ClientSpec
    /\ WF_clientVars(Restore)
    /\ \A c \in Callers : WF_clientVars(calls[c].pc # "idle" /\ CallStep(c))
    /\ WF_clientVars(WorkerStep) /\ SF_clientVars(WorkerExit)
    /\ WF_clientVars(CloseStep)

-------------------------------------------------------------------------------
(* Properties.                                                                 *)

\* Once Close has returned, the worker is gone and no client is open: a cancelled
\* attempt gave its client back and nothing reopens one (client.go Close: "guarantees
\* no resurrect after Close returns").  Two cases are outside: a call that enters
\* ensureClient after Close returned, and a first use of the transport that overlaps
\* Close, on whichever side of its beginning it entered.  There Close waits for no one
\* (reconnect.go:297-303 reads the state without mu), so the worker starts behind it.
ClosedIsQuiet ==
    closer.pc = "closed" /\ ~closer.late /\ ~closer.unseen =>
        open = {} /\ worker.pc \in {"none", "gone"}

\* The generation counts clients that were opened after the disconnect was seen, with
\* the hook done: it never advances on the client that broke, nor without one
\* (reconnect.go driveReconnect), unless the worker was started behind Close.
GenerationIsFresh ==
    [][reconnect'.generation # reconnect.generation =>
        \/ transport.handle \notin {0, worker.stale} /\ ~worker.failed
        \/ closer.unseen]_clientVars

\* The worker "drives reconnection with exponential backoff until it succeeds or the
\* context is cancelled" (reconnect.go:169-171): with a background loop and no limit on
\* the attempts, a transport marked disconnected is connected again or being closed.
Reconnects ==
    transport.loop /\ transport.limit = 0 /\ reconnect.disconnected ~>
        ~reconnect.disconnected \/ closer.pc # "idle"

\* A Close that cancelled the worker, or has none, returns, whatever the worker was
\* doing: waiting, opening, in the hook, asleep (reconnect.go shutdownReconnect).
CloseReturns ==
    closer.pc = "joining" /\ (reconnect.cancelled \/ ~transport.loop) ~>
        closer.pc = "closed"

===============================================================================
