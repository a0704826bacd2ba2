--------------------------- MODULE ReceiptChainProofs ---------------------------
(***************************************************************************)
(* What the receipt provider promises, for any sets of invocations and of  *)
(* goroutines and any number of appends: its chains verify, a reservation  *)
(* is never lost, a waiting append waits for somebody, and the signed      *)
(* receipts are a Ledger.                                                  *)
(***************************************************************************)
EXTENDS ReceiptChain, SequenceTheorems, TLAPS

-------------------------------------------------------------------------------
\* A receipt contains its predecessor, so no set of receipts is given in advance:
\* a chain is a sequence over its own entries.
IsChain(s) == s \in Seq({s[k] : k \in DOMAIN s})

\* receiptChainState keeps its four fields.
ChainShape ==
    /\ chains = [i \in Ids |-> [bound |-> chains[i].bound,
                                appending |-> chains[i].appending,
                                terminal |-> chains[i].terminal,
                                receipts |-> chains[i].receipts]]
    /\ \A i \in Ids : /\ chains[i].bound \in BOOLEAN
                      /\ chains[i].appending \in BOOLEAN
                      /\ chains[i].terminal \in BOOLEAN
                      /\ IsChain(chains[i].receipts)

\* AppendSignedReceipt between its reservation and its commit or abort.
Holds(a) == appends[a].pc \in {"signing", "committing"}

\* The locals of an append, by how far it is.
Queued == [pc : {"reserving", "waiting"}, outcome : {"none"}, calls : 0 .. MaxAppends,
           id : Ids, terminal : BOOLEAN]

AppendShape ==
    /\ appends = [a \in Appenders |-> appends[a]]
    /\ \A a \in Appenders :
        /\ appends[a].calls \in 0 .. MaxAppends
        /\ \/ appends[a].pc = "idle" /\ appends[a].outcome \in Outcomes \ {"lost"}
           \/ appends[a] \in Queued
           \/ /\ Holds(a) /\ appends[a].outcome = "none"
              /\ appends[a].id \in Ids /\ appends[a].terminal \in BOOLEAN

\* Only a bound chain is worked on, and an unbound one is empty.
BoundInv ==
    /\ \A i \in Ids : ~chains[i].bound =>
          chains[i].receipts = <<>> /\ ~chains[i].appending /\ ~chains[i].terminal
    /\ \A a \in Appenders : ~At(a, "idle") => chains[appends[a].id].bound

\* The append that holds a chain has the chain's next place, alone.
HolderInv ==
    /\ \A a \in Appenders : Holds(a) =>
          /\ chains[appends[a].id].appending
          /\ ~chains[appends[a].id].terminal
          /\ appends[a].at = Reservation(chains[appends[a].id].receipts)
    /\ \A a, b \in Appenders :
          Holds(a) /\ Holds(b) /\ appends[a].id = appends[b].id => a = b

\* The flag of the chain is what its last receipt says.
TerminalInv ==
    \A i \in Ids : chains[i].terminal <=>
        /\ chains[i].receipts # <<>>
        /\ chains[i].receipts[Len(chains[i].receipts)].terminal

\* A chain is reserved only while somebody holds it, and whoever waits waits for
\* a holder.
WaitInv ==
    /\ \A i \in Ids : chains[i].appending =>
          \E a \in Appenders : Holds(a) /\ appends[a].id = i
    /\ \A a \in Appenders : At(a, "waiting") => chains[appends[a].id].appending

ChainInv ==
    /\ ChainShape /\ AppendShape /\ BoundInv /\ HolderInv /\ TerminalInv /\ WaitInv
    /\ ChainVerifies

-------------------------------------------------------------------------------
\* Lemmas about the operators.

\* A function on 1 .. n is a sequence.
LEMMA FunctionIsSeq ==
    ASSUME NEW S, NEW n \in Nat, NEW f \in [1 .. n -> S]
    PROVE  f \in Seq(S)
  BY SeqDef

\* A sequence over any set is a sequence over its own entries.
LEMMA SeqIsChain ==
    ASSUME NEW S, NEW s \in Seq(S)
    PROVE  IsChain(s)
<1> DEFINE R == {s[k] : k \in DOMAIN s}
<1>1. Len(s) \in Nat /\ s \in [1 .. Len(s) -> S] /\ DOMAIN s = 1 .. Len(s)
  BY LenProperties
<1>2. s \in [1 .. Len(s) -> R]
  BY <1>1
<1>3. s \in Seq(R)
  <2> HIDE DEF R
  <2> QED
    BY <1>1, <1>2, FunctionIsSeq
<1> QED
  BY <1>3 DEF IsChain

\* commitAppend's append to c.receipts: the chain keeps its entries and gets one more.
LEMMA AppendKeepsChain ==
    ASSUME NEW s, NEW r, IsChain(s)
    PROVE  /\ IsChain(Append(s, r)) /\ Len(s) \in Nat
           /\ Len(Append(s, r)) = Len(s) + 1
           /\ \A k \in 1 .. Len(s) : Append(s, r)[k] = s[k]
           /\ Append(s, r)[Len(s) + 1] = r
           /\ Append(s, r) # <<>>
           /\ DOMAIN s = 1 .. Len(s) /\ DOMAIN Append(s, r) = 1 .. Len(s) + 1
           /\ SubSeq(Append(s, r), 1, Len(s)) = s
<1> DEFINE T == {s[k] : k \in DOMAIN s} \cup {r}
           A == Append(s, r)
<1>1. s \in Seq(T)
  BY DEF IsChain
<1>2. A \in Seq(T)
  BY <1>1
<1>3. /\ Len(s) \in Nat /\ Len(A) = Len(s) + 1 /\ A # <<>>
      /\ \A k \in 1 .. Len(s) : A[k] = s[k]
      /\ A[Len(s) + 1] = r
      /\ DOMAIN s = 1 .. Len(s) /\ DOMAIN A = 1 .. Len(s) + 1
  BY <1>1
<1>4. IsChain(A)
  BY <1>2, SeqIsChain, Zenon
<1>5. SubSeq(A, 1, Len(s)) = s
  BY <1>1
<1> QED
  BY <1>3, <1>4, <1>5

\* The deferred return of AppendSignedReceipt leaves the other calls alone.
LEMMA ReturnsEffect ==
    ASSUME AppendShape, NEW a \in Appenders, NEW o
    PROVE  Returns(a, o) =
             [b \in Appenders |->
                IF b = a THEN [pc |-> "idle", outcome |-> o, calls |-> appends[a].calls]
                ELSE appends[b]]
  BY DEF AppendShape, Returns

\* cond.Broadcast after a return: who waited for the chain queues again, with the
\* same request, and nobody else moves.
LEMMA WokenEffect ==
    ASSUME AppendShape, NEW a \in Appenders, NEW o, NEW id \in Ids,
           appends' = Woken(Returns(a, o), id)
    PROVE  /\ appends' = [b \in Appenders |-> appends'[b]]
           /\ appends'[a] = [pc |-> "idle", outcome |-> o, calls |-> appends[a].calls]
           /\ \A b \in Appenders \ {a} :
                IF appends[b].pc = "waiting" /\ appends[b].id = id
                THEN /\ appends'[b] \in Queued /\ appends'[b].pc = "reserving"
                     /\ appends'[b].id = appends[b].id
                ELSE appends'[b] = appends[b]
<1>1. Returns(a, o) =
             [b \in Appenders |->
                IF b = a THEN [pc |-> "idle", outcome |-> o, calls |-> appends[a].calls]
                ELSE appends[b]]
  BY ReturnsEffect
<1>2. appends' = [b \in Appenders |->
        IF Returns(a, o)[b].pc = "waiting" /\ Returns(a, o)[b].id = id
        THEN [Returns(a, o)[b] EXCEPT !.pc = "reserving"]
        ELSE Returns(a, o)[b]]
  BY DEF Woken
<1>3. appends'[a] = [pc |-> "idle", outcome |-> o, calls |-> appends[a].calls]
  <2>1. Returns(a, o)[a] = [pc |-> "idle", outcome |-> o, calls |-> appends[a].calls]
    BY <1>1
  <2>2. Returns(a, o)[a].pc # "waiting"
    BY <2>1
  <2> QED
    BY <1>2, <2>1, <2>2
<1>4. ASSUME NEW b \in Appenders \ {a}
      PROVE  IF appends[b].pc = "waiting" /\ appends[b].id = id
             THEN /\ appends'[b] \in Queued /\ appends'[b].pc = "reserving"
                  /\ appends'[b].id = appends[b].id
             ELSE appends'[b] = appends[b]
  <2>1. Returns(a, o)[b] = appends[b]
    BY <1>1, <1>4
  <2>2. CASE appends[b].pc = "waiting" /\ appends[b].id = id
    <3>1. appends[b] \in Queued
      BY <2>2 DEF AppendShape, Holds
    <3>2. appends'[b] = [appends[b] EXCEPT !.pc = "reserving"]
      BY <1>2, <2>1, <2>2
    <3> QED
      BY <2>2, <3>1, <3>2 DEF Queued
  <2>3. CASE ~(appends[b].pc = "waiting" /\ appends[b].id = id)
    BY <1>2, <2>1, <2>3
  <2> QED
    BY <2>2, <2>3
<1> QED
  BY <1>2, <1>3, <1>4
-------------------------------------------------------------------------------
\* What the steps do to the chains.

\* A new state for one chain.
LEMMA ChainUpdate ==
    ASSUME ChainShape, NEW id \in Ids,
           chains' = [i \in Ids |-> IF i = id THEN chains'[id] ELSE chains[i]],
           chains'[id] = [bound |-> chains'[id].bound,
                          appending |-> chains'[id].appending,
                          terminal |-> chains'[id].terminal,
                          receipts |-> chains'[id].receipts],
           chains'[id].bound \in BOOLEAN, chains'[id].appending \in BOOLEAN,
           chains'[id].terminal \in BOOLEAN, IsChain(chains'[id].receipts)
    PROVE  ChainShape'
<1>1. \A i \in Ids : i # id => chains'[i] = chains[i]
  BY Zenon
<1>2. ASSUME NEW i \in Ids
      PROVE  /\ chains'[i] = [bound |-> chains'[i].bound,
                              appending |-> chains'[i].appending,
                              terminal |-> chains'[i].terminal,
                              receipts |-> chains'[i].receipts]
             /\ chains'[i].bound \in BOOLEAN /\ chains'[i].appending \in BOOLEAN
             /\ chains'[i].terminal \in BOOLEAN /\ IsChain(chains'[i].receipts)
  <2>1. CASE i = id
    BY <2>1, Zenon
  <2>2. CASE i # id
    <3>1. chains[i] = [bound |-> chains[i].bound, appending |-> chains[i].appending,
                       terminal |-> chains[i].terminal, receipts |-> chains[i].receipts]
      BY DEF ChainShape
    <3>2. chains'[i] = chains[i]
      BY <1>1, <2>2, Zenon
    <3> QED
      BY <3>1, <3>2, Zenon DEF ChainShape
  <2> QED
    BY <2>1, <2>2, Zenon
<1>3. chains' = [i \in Ids |-> chains'[i]]
  BY Zenon
<1>4. chains' = [i \in Ids |-> [bound |-> chains'[i].bound,
                                appending |-> chains'[i].appending,
                                terminal |-> chains'[i].terminal,
                                receipts |-> chains'[i].receipts]]
  BY <1>2, <1>3
<1> QED
  BY <1>2, <1>4, Zenon DEF ChainShape

\* Bind: a new chain is empty, and so was the unbound one.
LEMMA BindEffect ==
    ASSUME ChainInv, NEW id \in Ids, Bind(id)
    PROVE  /\ ChainShape' /\ appends' = appends
           /\ \A i \in Ids : /\ chains'[i].receipts = chains[i].receipts
                             /\ chains'[i].appending = chains[i].appending
                             /\ chains'[i].terminal = chains[i].terminal
                             /\ chains[i].bound => chains'[i].bound
<1>1. CASE chains[id].bound
  <2>1. chains' = chains /\ appends' = appends
    BY <1>1 DEF Bind, ChainInv, ChainShape
  <2> QED
    BY <2>1 DEF ChainInv, ChainShape
<1>2. CASE ~chains[id].bound
  <2>1. chains' = [chains EXCEPT ![id] = NewChain] /\ appends' = appends
    BY <1>2 DEF Bind
  <2>2. chains' = [i \in Ids |->
          IF i = id THEN [bound |-> TRUE, appending |-> FALSE, terminal |-> FALSE,
                          receipts |-> <<>>]
          ELSE chains[i]]
    BY <2>1 DEF ChainInv, ChainShape, NewChain
  <2>3. /\ chains[id].receipts = <<>> /\ chains[id].appending = FALSE
        /\ chains[id].terminal = FALSE
    BY <1>2, Zenon DEF ChainInv, ChainShape, BoundInv
  <2>4. IsChain(<<>>)
    BY EmptySeq, SeqIsChain
  <2>5. chains'[id] = [bound |-> TRUE, appending |-> FALSE, terminal |-> FALSE,
                       receipts |-> <<>>]
    BY <2>2
  <2>6. /\ chains' = [i \in Ids |-> IF i = id THEN chains'[id] ELSE chains[i]]
        /\ \A i \in Ids : i # id => chains'[i] = chains[i]
    BY <2>2, <2>5
  <2>7. /\ chains'[id].bound = TRUE /\ chains'[id].appending = FALSE
        /\ chains'[id].terminal = FALSE /\ chains'[id].receipts = <<>>
    BY <2>5
  <2>8. ChainShape'
    <3>1. chains'[id] = [bound |-> chains'[id].bound,
                         appending |-> chains'[id].appending,
                         terminal |-> chains'[id].terminal,
                         receipts |-> chains'[id].receipts]
      BY <2>5
    <3>2. /\ chains'[id].bound \in BOOLEAN /\ chains'[id].appending \in BOOLEAN
          /\ chains'[id].terminal \in BOOLEAN /\ IsChain(chains'[id].receipts)
      BY <2>4, <2>7, Zenon
    <3> QED
      BY <2>6, <3>1, <3>2, ChainUpdate DEF ChainInv
  <2> QED
    BY <2>1, <2>3, <2>6, <2>7, <2>8
<1> QED
  BY <1>1, <1>2

\* reserveAppend and abortAppend: c.appending is all that changes.
LEMMA AppendingEffect ==
    ASSUME ChainInv, NEW id \in Ids, NEW v \in BOOLEAN,
           chains' = [chains EXCEPT ![id].appending = v]
    PROVE  /\ ChainShape' /\ chains'[id].appending = v
           /\ \A i \in Ids : /\ chains'[i].receipts = chains[i].receipts
                             /\ chains'[i].terminal = chains[i].terminal
                             /\ chains'[i].bound = chains[i].bound
           /\ \A i \in Ids : i # id => chains'[i].appending = chains[i].appending
<1>1. chains' = [i \in Ids |->
                   IF i = id
                   THEN [bound |-> chains[id].bound, appending |-> v,
                         terminal |-> chains[id].terminal,
                         receipts |-> chains[id].receipts]
                   ELSE chains[i]]
  <2>1. chains' = [i \in Ids |-> IF i = id THEN [chains[id] EXCEPT !.appending = v]
                                 ELSE chains[i]]
    BY DEF ChainInv, ChainShape
  <2>2. chains[id] = [bound |-> chains[id].bound, appending |-> chains[id].appending,
                      terminal |-> chains[id].terminal,
                      receipts |-> chains[id].receipts]
    BY DEF ChainInv, ChainShape
  <2>3. [chains[id] EXCEPT !.appending = v] =
          [bound |-> chains[id].bound, appending |-> v,
           terminal |-> chains[id].terminal, receipts |-> chains[id].receipts]
    BY <2>2
  <2> QED
    BY <2>1, <2>3
<1>2. /\ chains[id].bound \in BOOLEAN /\ chains[id].terminal \in BOOLEAN
      /\ IsChain(chains[id].receipts)
  BY Zenon DEF ChainInv, ChainShape
<1>3. /\ ChainShape'
      /\ chains'[id].bound = chains[id].bound /\ chains'[id].appending = v
      /\ chains'[id].terminal = chains[id].terminal
      /\ chains'[id].receipts = chains[id].receipts
      /\ \A i \in Ids : i # id => chains'[i] = chains[i]
  <2>1. chains'[id] = [bound |-> chains[id].bound, appending |-> v,
                       terminal |-> chains[id].terminal,
                       receipts |-> chains[id].receipts]
    BY <1>1
  <2>2. /\ chains' = [i \in Ids |-> IF i = id THEN chains'[id] ELSE chains[i]]
        /\ \A i \in Ids : i # id => chains'[i] = chains[i]
    BY <1>1, <2>1
  <2>3. /\ chains'[id].bound = chains[id].bound /\ chains'[id].appending = v
        /\ chains'[id].terminal = chains[id].terminal
        /\ chains'[id].receipts = chains[id].receipts
    BY <2>1
  <2>4. ChainShape'
    <3>1. chains'[id] = [bound |-> chains'[id].bound,
                         appending |-> chains'[id].appending,
                         terminal |-> chains'[id].terminal,
                         receipts |-> chains'[id].receipts]
      BY <2>1
    <3>2. /\ chains'[id].bound \in BOOLEAN /\ chains'[id].appending \in BOOLEAN
          /\ chains'[id].terminal \in BOOLEAN /\ IsChain(chains'[id].receipts)
      BY <1>2, <2>3, Zenon
    <3> QED
      BY <2>2, <3>1, <3>2, ChainUpdate DEF ChainInv
  <2> QED
    BY <2>2, <2>3, <2>4
<1> QED
  BY <1>3

\* The end of commitAppend: one receipt more, the terminal flag, and no reservation.
LEMMA CommitEffect ==
    ASSUME ChainInv, NEW id \in Ids, NEW t \in BOOLEAN, NEW r,
           chains' = [chains EXCEPT ![id] =
              [bound |-> @.bound, appending |-> FALSE, terminal |-> t,
               receipts |-> Append(@.receipts, r)]]
    PROVE  /\ ChainShape'
           /\ chains'[id].bound = chains[id].bound /\ chains'[id].appending = FALSE
           /\ chains'[id].terminal = t
           /\ chains'[id].receipts = Append(chains[id].receipts, r)
           /\ \A i \in Ids : i # id => chains'[i] = chains[i]
<1>1. chains' = [i \in Ids |->
                   IF i = id
                   THEN [bound |-> chains[id].bound, appending |-> FALSE, terminal |-> t,
                         receipts |-> Append(chains[id].receipts, r)]
                   ELSE chains[i]]
  BY DEF ChainInv, ChainShape
<1>2. chains[id].bound \in BOOLEAN /\ IsChain(chains[id].receipts)
  BY Zenon DEF ChainInv, ChainShape
<1>3. IsChain(Append(chains[id].receipts, r))
  BY <1>2, AppendKeepsChain, Zenon
<1>4. chains'[id] = [bound |-> chains[id].bound, appending |-> FALSE, terminal |-> t,
                     receipts |-> Append(chains[id].receipts, r)]
  BY <1>1
<1>5. /\ chains' = [i \in Ids |-> IF i = id THEN chains'[id] ELSE chains[i]]
      /\ \A i \in Ids : i # id => chains'[i] = chains[i]
  BY <1>1, <1>4
<1>6. /\ chains'[id].bound = chains[id].bound /\ chains'[id].appending = FALSE
      /\ chains'[id].terminal = t
      /\ chains'[id].receipts = Append(chains[id].receipts, r)
  BY <1>4
<1>7. ChainShape'
  <2>1. chains'[id] = [bound |-> chains'[id].bound,
                       appending |-> chains'[id].appending,
                       terminal |-> chains'[id].terminal,
                       receipts |-> chains'[id].receipts]
    BY <1>4
  <2>2. /\ chains'[id].bound \in BOOLEAN /\ chains'[id].appending \in BOOLEAN
        /\ chains'[id].terminal \in BOOLEAN /\ IsChain(chains'[id].receipts)
    BY <1>2, <1>3, <1>6, Zenon
  <2> QED
    BY <1>5, <2>1, <2>2, ChainUpdate DEF ChainInv
<1> QED
  BY <1>5, <1>6, <1>7
-------------------------------------------------------------------------------
\* The inductive step, action by action.

\* A step that leaves the chains alone and moves one append: it returns without
\* having held its chain, it queues, or it goes on holding.
LEMMA AppendMoves ==
    ASSUME ChainInv, NEW a \in Appenders, chains' = chains,
           appends' = [b \in Appenders |-> IF b = a THEN appends'[a] ELSE appends[b]],
           appends'[a].calls \in 0 .. MaxAppends,
           \/ /\ ~Holds(a) /\ appends'[a].pc = "idle"
              /\ appends'[a].outcome \in Outcomes \ {"lost"}
           \/ /\ ~Holds(a) /\ appends'[a] \in Queued
              /\ chains[appends'[a].id].bound
              /\ appends'[a].pc = "waiting" => chains[appends'[a].id].appending
           \/ /\ Holds(a) /\ appends'[a].pc = "committing" /\ appends'[a].outcome = "none"
              /\ appends'[a].id = appends[a].id /\ appends'[a].at = appends[a].at
              /\ appends'[a].terminal = appends[a].terminal
    PROVE  ChainInv'
<1>1. \A b \in Appenders : b # a => appends'[b] = appends[b]
  OBVIOUS
<1>2. \A b \in Appenders : b # a => (Holds(b)' <=> Holds(b))
  BY <1>1 DEF Holds
<1>3. Holds(a)' <=> Holds(a)
  BY DEF Holds, Queued
<1>4. Holds(a) => /\ appends[a].id \in Ids /\ appends[a].terminal \in BOOLEAN
                  /\ chains[appends[a].id].bound
  BY DEF ChainInv, AppendShape, Holds, Queued, BoundInv, At
<1>5. AppendShape'
  <2>1. appends' = [b \in Appenders |-> appends'[b]]
    OBVIOUS
  <2>2. ASSUME NEW b \in Appenders
        PROVE  /\ appends'[b].calls \in 0 .. MaxAppends
               /\ \/ appends'[b].pc = "idle" /\ appends'[b].outcome \in Outcomes \ {"lost"}
                  \/ appends'[b] \in Queued
                  \/ /\ Holds(b)' /\ appends'[b].outcome = "none"
                     /\ appends'[b].id \in Ids /\ appends'[b].terminal \in BOOLEAN
    <3>1. CASE b = a
      BY <1>3, <1>4, <3>1, Zenon
    <3>2. CASE b # a
      BY <1>1, <1>2, <3>2, Zenon DEF ChainInv, AppendShape
    <3> QED
      BY <3>1, <3>2
  <2> QED
    BY <2>1, <2>2, Zenon DEF AppendShape, Queued
<1>6. BoundInv'
  <2>1. ASSUME NEW b \in Appenders, appends'[b].pc # "idle"
        PROVE  chains[appends'[b].id].bound
    <3>1. CASE b = a
      BY <1>4, <2>1, <3>1, Zenon
    <3>2. CASE b # a
      BY <1>1, <2>1, <3>2, Zenon DEF ChainInv, BoundInv, At
    <3> QED
      BY <3>1, <3>2
  <2> QED
    BY <2>1, Zenon DEF ChainInv, BoundInv, At
<1>7. ASSUME NEW b \in Appenders, Holds(b)'
      PROVE  Holds(b) /\ appends'[b].id = appends[b].id /\ appends'[b].at = appends[b].at
  <2>1. CASE b = a
    <3>1. Holds(a)
      BY <1>3, <1>7, <2>1
    <3> QED
      BY <2>1, <3>1, Zenon
  <2>2. CASE b # a
    BY <1>1, <1>2, <1>7, <2>2, Zenon
  <2> QED
    BY <2>1, <2>2
<1>8. HolderInv'
  BY <1>7, ZenonT(60) DEF ChainInv, HolderInv, Reservation
<1>9. WaitInv'
  <2>1. \A b \in Appenders : Holds(b) => Holds(b)' /\ appends'[b].id = appends[b].id
    BY <1>2, <1>3, <1>7, Zenon
  <2>2. ASSUME NEW b \in Appenders, appends'[b].pc = "waiting"
        PROVE  chains[appends'[b].id].appending
    <3>1. CASE b = a
      BY <2>2, <3>1
    <3>2. CASE b # a
      BY <1>1, <2>2, <3>2, Zenon DEF ChainInv, WaitInv, At
    <3> QED
      BY <3>1, <3>2
  <2> QED
    BY <2>1, <2>2, ZenonT(60) DEF ChainInv, WaitInv, At
<1>10. ChainShape' /\ TerminalInv' /\ ChainVerifies'
  BY ZenonT(60) DEF ChainInv, ChainShape, TerminalInv, ChainVerifies
<1> QED
  BY <1>5, <1>6, <1>8, <1>9, <1>10, Zenon DEF ChainInv

\* The holder leaves, by commitAppend or abortAppend: everybody who waited for the
\* chain queues again, and the holders of other chains are left as they are.
LEMMA HolderLeaves ==
    ASSUME ChainInv, NEW a \in Appenders, Holds(a), NEW o \in Outcomes \ {"lost"},
           appends' = Woken(Returns(a, o), appends[a].id),
           ~chains'[appends[a].id].appending,
           \A i \in Ids : chains'[i].bound = chains[i].bound,
           \A i \in Ids : i # appends[a].id => chains'[i].appending = chains[i].appending
    PROVE  /\ AppendShape' /\ WaitInv'
           /\ \A b \in Appenders : ~At(b, "idle")' => chains'[appends'[b].id].bound
           /\ \A b \in Appenders : Holds(b)' =>
                 /\ Holds(b) /\ appends'[b] = appends[b] /\ appends[b].id # appends[a].id
<1> DEFINE id == appends[a].id
<1>1. id \in Ids
  BY DEF ChainInv, AppendShape, Holds, Queued
<1>2. /\ appends' = [b \in Appenders |-> appends'[b]]
      /\ appends'[a] = [pc |-> "idle", outcome |-> o, calls |-> appends[a].calls]
      /\ \A b \in Appenders \ {a} :
            IF appends[b].pc = "waiting" /\ appends[b].id = id
            THEN /\ appends'[b] \in Queued /\ appends'[b].pc = "reserving"
                 /\ appends'[b].id = appends[b].id
            ELSE appends'[b] = appends[b]
  BY <1>1, WokenEffect DEF ChainInv
<1>3. /\ appends'[a].pc = "idle" /\ appends'[a].outcome = o
      /\ appends'[a].calls = appends[a].calls
  BY <1>2
<1>4. AppendShape'
  <2>1. ASSUME NEW b \in Appenders
        PROVE  /\ appends'[b].calls \in 0 .. MaxAppends
               /\ \/ appends'[b].pc = "idle" /\ appends'[b].outcome \in Outcomes \ {"lost"}
                  \/ appends'[b] \in Queued
                  \/ /\ Holds(b)' /\ appends'[b].outcome = "none"
                     /\ appends'[b].id \in Ids /\ appends'[b].terminal \in BOOLEAN
    <3>1. CASE b = a
      BY <1>3, <3>1, Zenon DEF ChainInv, AppendShape
    <3>2. CASE b # a /\ appends'[b] = appends[b]
      BY <3>2, Zenon DEF ChainInv, AppendShape, Holds
    <3>3. CASE b # a /\ appends'[b] \in Queued
      BY <3>3, Zenon DEF Queued
    <3> QED
      BY <1>2, <3>1, <3>2, <3>3
  <2> QED
    BY <1>2, <2>1, Zenon DEF AppendShape, Queued
<1>5. ASSUME NEW b \in Appenders, appends'[b].pc # "idle"
      PROVE  chains'[appends'[b].id].bound
  <2>1. b # a /\ appends'[b].id = appends[b].id /\ appends[b].pc # "idle"
    BY <1>2, <1>3, <1>5
  <2>2. appends[b].id \in Ids
    BY <2>1 DEF ChainInv, AppendShape, Queued
  <2>3. chains[appends[b].id].bound
    BY <2>1 DEF ChainInv, BoundInv, At
  <2> QED
    BY <2>1, <2>2, <2>3
<1>6. ASSUME NEW b \in Appenders, Holds(b)'
      PROVE  Holds(b) /\ appends'[b] = appends[b] /\ appends[b].id # id
  <2>1. b # a /\ appends'[b] = appends[b]
    BY <1>2, <1>3, <1>6 DEF Holds
  <2>2. Holds(b)
    BY <1>6, <2>1 DEF Holds
  <2> QED
    BY <2>1, <2>2 DEF ChainInv, HolderInv
<1>7. WaitInv'
  <2>1. ASSUME NEW i \in Ids, chains'[i].appending
        PROVE  \E b \in Appenders : Holds(b)' /\ appends'[b].id = i
    <3>1. i # id /\ chains[i].appending
      BY <2>1
    <3>2. PICK b \in Appenders : Holds(b) /\ appends[b].id = i
      BY <3>1 DEF ChainInv, WaitInv
    <3>3. b # a /\ appends[b].pc # "waiting"
      BY <3>1, <3>2 DEF Holds
    <3>4. appends'[b] = appends[b]
      BY <1>2, <3>3
    <3> QED
      BY <3>2, <3>4 DEF Holds
  <2>2. ASSUME NEW b \in Appenders, appends'[b].pc = "waiting"
        PROVE  chains'[appends'[b].id].appending
    <3>1. b # a /\ appends'[b] = appends[b] /\ appends[b].id # id
      BY <1>2, <1>3, <2>2
    <3>2. appends[b].id \in Ids /\ chains[appends[b].id].appending
      BY <2>2, <3>1 DEF ChainInv, AppendShape, Queued, Holds, WaitInv, At
    <3> QED
      BY <3>1, <3>2
  <2> QED
    BY <2>1, <2>2 DEF WaitInv, At
<1> QED
  BY <1>4, <1>5, <1>6, <1>7 DEF At

\* abortAppend gives the place back.
LEMMA AbortedStep ==
    ASSUME ChainInv, NEW a \in Appenders, Holds(a), NEW o \in Outcomes \ {"lost"},
           Aborted(a, o)
    PROVE  ChainInv'
<1> DEFINE id == appends[a].id
<1>1. id \in Ids /\ chains[id].appending
  BY DEF ChainInv, AppendShape, Holds, Queued, HolderInv
<1>2. chains' = [chains EXCEPT ![id].appending = FALSE]
  BY DEF Aborted
<1>3. /\ ChainShape' /\ chains'[id].appending = FALSE
      /\ \A i \in Ids : /\ chains'[i].receipts = chains[i].receipts
                        /\ chains'[i].terminal = chains[i].terminal
                        /\ chains'[i].bound = chains[i].bound
      /\ \A i \in Ids : i # id => chains'[i].appending = chains[i].appending
  <2> HIDE DEF id
  <2>1. PICK j \in Ids : j = id
    BY <1>1
  <2> QED
    BY <1>1, <1>2, <2>1, AppendingEffect
<1>4. appends' = Woken(Returns(a, o), id)
  BY <1>1 DEF Aborted
<1>5. /\ AppendShape' /\ WaitInv'
      /\ \A b \in Appenders : ~At(b, "idle")' => chains'[appends'[b].id].bound
      /\ \A b \in Appenders : Holds(b)' =>
            /\ Holds(b) /\ appends'[b] = appends[b] /\ appends[b].id # id
  BY <1>3, <1>4, HolderLeaves
<1>6. BoundInv'
  BY <1>3, <1>5 DEF ChainInv, BoundInv
<1>7. HolderInv'
  <2>1. ASSUME NEW b \in Appenders, Holds(b)'
        PROVE  /\ chains'[appends'[b].id].appending
               /\ ~chains'[appends'[b].id].terminal
               /\ appends'[b].at = Reservation(chains'[appends'[b].id].receipts)
    <3>1. Holds(b) /\ appends'[b] = appends[b] /\ appends[b].id # id
      BY <1>5, <2>1
    <3>2. appends[b].id \in Ids
      BY <3>1 DEF ChainInv, AppendShape, Holds, Queued
    <3>3. /\ chains[appends[b].id].appending /\ ~chains[appends[b].id].terminal
          /\ appends[b].at = Reservation(chains[appends[b].id].receipts)
      BY <3>1 DEF ChainInv, HolderInv
    <3> QED
      BY <1>3, <3>1, <3>2, <3>3
  <2>2. ASSUME NEW b \in Appenders, NEW c \in Appenders, Holds(b)', Holds(c)',
               appends'[b].id = appends'[c].id
        PROVE  b = c
    BY <1>5, <2>2, Zenon DEF ChainInv, HolderInv
  <2> QED
    BY <2>1, <2>2, Zenon DEF HolderInv, Reservation
<1>8. TerminalInv'
  <2> SUFFICES ASSUME NEW i \in Ids
               PROVE  chains'[i].terminal <=>
                        /\ chains'[i].receipts # <<>>
                        /\ chains'[i].receipts[Len(chains'[i].receipts)].terminal
    BY Zenon DEF TerminalInv
  <2>1. chains'[i].receipts = chains[i].receipts /\ chains'[i].terminal = chains[i].terminal
    BY <1>3
  <2>2. chains[i].terminal <=> /\ chains[i].receipts # <<>>
                               /\ chains[i].receipts[Len(chains[i].receipts)].terminal
    BY DEF ChainInv, TerminalInv
  <2> QED
    BY <2>1, <2>2
<1>9. ChainVerifies'
  BY <1>3 DEF ChainInv, ChainVerifies, VerifyReceiptChain
<1> QED
  BY <1>3, <1>5, <1>6, <1>7, <1>8, <1>9, Zenon DEF ChainInv

\* A receipt drafted at the chain's next place keeps VerifyReceiptChain true.
LEMMA DraftVerifies ==
    ASSUME NEW s, IsChain(s), VerifyReceiptChain(s), NEW r,
           r.index = Reservation(s).index, r.prev = Reservation(s).prev
    PROVE  VerifyReceiptChain(Append(s, r))
<1> DEFINE A == Append(s, r)
<1>1. /\ Len(s) \in Nat /\ A[Len(s) + 1] = r
      /\ \A k \in 1 .. Len(s) : A[k] = s[k]
      /\ DOMAIN s = 1 .. Len(s) /\ DOMAIN A = 1 .. Len(s) + 1
  BY AppendKeepsChain
<1>2. r.index = Len(s) /\ r.prev = IF s = <<>> THEN ZeroHash ELSE s[Len(s)]
  BY DEF Reservation, SelfHash, Last
<1>3. s = <<>> <=> Len(s) = 0
  <2>1. s \in Seq({s[k] : k \in DOMAIN s})
    BY DEF IsChain
  <2> QED
    BY <2>1, EmptySeq
<1> HIDE DEF A
<1>4. ASSUME NEW k \in 1 .. Len(s) + 1
      PROVE  /\ A[k].index = k - 1
             /\ A[k].prev = IF k = 1 THEN ZeroHash ELSE SelfHash(A[k - 1])
  <2>1. CASE k \in 1 .. Len(s)
    <3>1. A[k] = s[k] /\ (k # 1 => A[k - 1] = s[k - 1])
      BY <1>1, <2>1
    <3>2. /\ s[k].index = k - 1
          /\ s[k].prev = IF k = 1 THEN ZeroHash ELSE SelfHash(s[k - 1])
      BY <1>1, <2>1 DEF VerifyReceiptChain
    <3> QED
      BY <3>1, <3>2 DEF SelfHash
  <2>2. CASE k = Len(s) + 1
    <3>1. A[k] = r /\ k - 1 = Len(s)
      BY <1>1, <2>2
    <3>2. CASE k = 1
      BY <1>2, <1>3, <3>1, <3>2
    <3>3. CASE k # 1
      <4>1. s # <<>> /\ A[k - 1] = s[Len(s)]
        BY <1>1, <1>3, <2>2, <3>3
      <4> QED
        BY <1>2, <3>1, <3>3, <4>1 DEF SelfHash
    <3> QED
      BY <3>2, <3>3
  <2> QED
    BY <1>1, <1>4, <2>1, <2>2
<1> QED
  BY <1>1, <1>4 DEF VerifyReceiptChain, A

\* commitAppend: what it compares always agrees, so it commits; the chain verifies
\* with the new receipt, and its flag is the receipt's.
LEMMA CommitStep ==
    ASSUME ChainInv, NEW a \in Appenders, Commit(a)
    PROVE  /\ ChainInv'
           /\ chains'[appends[a].id].receipts =
                Append(chains[appends[a].id].receipts, Draft(a))
           /\ \A i \in Ids : i # appends[a].id => chains'[i] = chains[i]
<1>1. Holds(a)
  BY DEF Commit, At, Holds
<1>2. PICK id \in Ids : id = appends[a].id
  BY <1>1 DEF ChainInv, AppendShape, Holds, Queued
<1>3. /\ chains[id].appending /\ ~chains[id].terminal
      /\ appends[a].at = Reservation(chains[id].receipts)
  BY <1>1, <1>2 DEF ChainInv, HolderInv
<1>4. PICK r : r = Draft(a)
  OBVIOUS
<1>5. PICK t \in BOOLEAN : t = appends[a].terminal
  BY <1>1 DEF ChainInv, AppendShape, Holds, Queued
<1>6. chains' = [chains EXCEPT ![id] =
              [bound |-> @.bound, appending |-> FALSE, terminal |-> t,
               receipts |-> Append(@.receipts, r)]]
  BY <1>2, <1>3, <1>4, <1>5 DEF Commit, Closes
<1>7. appends' = Woken(Returns(a, "appended"), id)
  BY <1>2, <1>3 DEF Commit
<1>8. /\ ChainShape'
      /\ chains'[id].bound = chains[id].bound /\ chains'[id].appending = FALSE
      /\ chains'[id].terminal = t
      /\ chains'[id].receipts = Append(chains[id].receipts, r)
      /\ \A i \in Ids : i # id => chains'[i] = chains[i]
  BY <1>6, CommitEffect
<1>9. /\ AppendShape' /\ WaitInv'
      /\ \A b \in Appenders : ~At(b, "idle")' => chains'[appends'[b].id].bound
      /\ \A b \in Appenders : Holds(b)' =>
            /\ Holds(b) /\ appends'[b] = appends[b] /\ appends[b].id # id
  <2>1. "appended" \in Outcomes \ {"lost"}
    BY DEF Outcomes
  <2>2. /\ \A i \in Ids : chains'[i].bound = chains[i].bound
        /\ \A i \in Ids : i # id => chains'[i].appending = chains[i].appending
        /\ ~chains'[id].appending
    BY <1>8
  <2> QED
    BY <1>1, <1>2, <1>7, <2>1, <2>2, HolderLeaves
<1>10. chains[id].bound
  BY <1>1, <1>2 DEF ChainInv, BoundInv, At, Holds
<1>11. BoundInv'
  BY <1>8, <1>9, <1>10 DEF ChainInv, BoundInv
<1>12. HolderInv'
  <2>1. ASSUME NEW b \in Appenders, Holds(b)'
        PROVE  /\ chains'[appends'[b].id].appending
               /\ ~chains'[appends'[b].id].terminal
               /\ appends'[b].at = Reservation(chains'[appends'[b].id].receipts)
    <3>1. Holds(b) /\ appends'[b] = appends[b] /\ appends[b].id # id
      BY <1>9, <2>1
    <3>2. appends[b].id \in Ids
      BY <3>1 DEF ChainInv, AppendShape, Holds, Queued
    <3>3. chains'[appends[b].id] = chains[appends[b].id]
      BY <1>8, <3>1, <3>2
    <3>4. /\ chains[appends[b].id].appending /\ ~chains[appends[b].id].terminal
          /\ appends[b].at = Reservation(chains[appends[b].id].receipts)
      BY <3>1 DEF ChainInv, HolderInv
    <3> QED
      BY <3>1, <3>3, <3>4
  <2>2. ASSUME NEW b \in Appenders, NEW c \in Appenders, Holds(b)', Holds(c)',
               appends'[b].id = appends'[c].id
        PROVE  b = c
    BY <1>9, <2>2, Zenon DEF ChainInv, HolderInv
  <2> QED
    BY <2>1, <2>2, Zenon DEF HolderInv, Reservation
<1>13. r.index = Reservation(chains[id].receipts).index /\
       r.prev = Reservation(chains[id].receipts).prev /\ r.terminal = t
  BY <1>3, <1>4, <1>5 DEF Draft
<1>14. IsChain(chains[id].receipts)
  BY DEF ChainInv, ChainShape
<1>15. ChainVerifies'
  <2>1. VerifyReceiptChain(chains'[id].receipts)
    BY <1>8, <1>13, <1>14, DraftVerifies DEF ChainInv, ChainVerifies
  <2> QED
    BY <1>8, <2>1 DEF ChainInv, ChainVerifies
<1>16. TerminalInv'
  <2>1. /\ chains'[id].receipts # <<>>
        /\ chains'[id].receipts[Len(chains'[id].receipts)] = r
    <3>1. PICK rs : rs = chains[id].receipts
      OBVIOUS
    <3>2. /\ Append(rs, r) # <<>> /\ Len(Append(rs, r)) = Len(rs) + 1
          /\ Append(rs, r)[Len(rs) + 1] = r
      BY <1>14, <3>1, AppendKeepsChain, Zenon
    <3>3. chains'[id].receipts = Append(rs, r)
      BY <1>8, <3>1, Zenon
    <3> QED
      BY <3>2, <3>3, Zenon
  <2>2. ASSUME NEW i \in Ids
        PROVE  chains'[i].terminal <=>
                 /\ chains'[i].receipts # <<>>
                 /\ chains'[i].receipts[Len(chains'[i].receipts)].terminal
    <3>1. CASE i = id
      BY <1>8, <1>13, <2>1, <3>1
    <3>2. CASE i # id
      BY <1>8, <3>2, Zenon DEF ChainInv, TerminalInv
    <3> QED
      BY <3>1, <3>2
  <2> QED
    BY <2>2, Zenon DEF TerminalInv
<1> QED
  BY <1>2, <1>4, <1>8, <1>9, <1>11, <1>12, <1>15, <1>16, Zenon DEF ChainInv

\* Bind touches no chain anybody has bound.
LEMMA BindStep ==
    ASSUME ChainInv, NEW id \in Ids, Bind(id)
    PROVE  /\ ChainInv'
           /\ \A i \in Ids : chains'[i].receipts = chains[i].receipts
<1>1. /\ ChainShape' /\ appends' = appends
      /\ \A i \in Ids : /\ chains'[i].receipts = chains[i].receipts
                        /\ chains'[i].appending = chains[i].appending
                        /\ chains'[i].terminal = chains[i].terminal
                        /\ chains[i].bound => chains'[i].bound
  BY BindEffect
<1>2. \A b \in Appenders : ~At(b, "idle") => appends[b].id \in Ids
  BY DEF ChainInv, AppendShape, Queued, At
<1>3. \A b \in Appenders : Holds(b) => appends[b].id \in Ids
  BY <1>2 DEF At, Holds
<1>4. AppendShape'
  BY <1>1, Zenon DEF ChainInv, AppendShape, Queued, Holds
<1>5. BoundInv'
  BY <1>1, <1>2 DEF ChainInv, BoundInv, At
<1>6. HolderInv'
  BY <1>1, <1>3 DEF ChainInv, HolderInv, Holds
<1>7. TerminalInv'
  BY <1>1 DEF ChainInv, TerminalInv
<1>8. WaitInv'
  BY <1>1, <1>2 DEF ChainInv, WaitInv, Holds, At
<1>9. ChainVerifies'
  BY <1>1 DEF ChainInv, ChainVerifies
<1> QED
  BY <1>1, <1>4, <1>5, <1>6, <1>7, <1>8, <1>9, Zenon DEF ChainInv

\* AppendSignedReceipt up to its reservation.
LEMMA BeginStep ==
    ASSUME ChainInv, NEW a \in Appenders, NEW id \in Ids, NEW terminal \in BOOLEAN,
           NEW cleanup \in BOOLEAN, BeginAppend(a, id, terminal, cleanup)
    PROVE  ChainInv' /\ chains' = chains
<1>1. chains' = chains /\ ~Holds(a) /\ appends[a].calls < MaxAppends
  BY DEF BeginAppend, At, Holds
<1>2. appends[a].calls + 1 \in 0 .. MaxAppends
  BY <1>1, ChainAssumption DEF ChainInv, AppendShape
<1>3. appends' = [b \in Appenders |-> IF b = a THEN appends'[a] ELSE appends[b]]
  BY DEF BeginAppend, ChainInv, AppendShape
<1>4. CASE chains[id].bound /\ (terminal => cleanup)
  <2>1. appends'[a] = [pc |-> "reserving", outcome |-> "none",
                       calls |-> appends[a].calls + 1, id |-> id, terminal |-> terminal]
    BY <1>4 DEF BeginAppend, ChainInv, AppendShape
  <2>2. /\ appends'[a] \in Queued /\ appends'[a].calls = appends[a].calls + 1
        /\ appends'[a].id = id /\ appends'[a].pc = "reserving"
    BY <1>2, <2>1 DEF Queued
  <2> QED
    BY <1>1, <1>2, <1>3, <1>4, <2>2, AppendMoves
<1>5. CASE ~(chains[id].bound /\ (terminal => cleanup))
  <2>1. appends'[a] = [pc |-> "idle", outcome |-> "invalid",
                       calls |-> appends[a].calls + 1]
    BY <1>5 DEF BeginAppend, ChainInv, AppendShape
  <2>2. /\ appends'[a].calls = appends[a].calls + 1 /\ appends'[a].pc = "idle"
        /\ appends'[a].outcome \in Outcomes \ {"lost"}
    BY <2>1 DEF Outcomes
  <2> QED
    BY <1>1, <1>2, <1>3, <2>2, AppendMoves
<1> QED
  BY <1>4, <1>5

\* reserveAppend.
LEMMA ReserveStep ==
    ASSUME ChainInv, NEW a \in Appenders, Reserve(a)
    PROVE  /\ ChainInv'
           /\ \A i \in Ids : chains'[i].receipts = chains[i].receipts
<1>1. At(a, "reserving") /\ appends[a] \in Queued /\ ~Holds(a)
  BY DEF Reserve, At, ChainInv, AppendShape, Holds
<1>2. PICK id \in Ids : id = appends[a].id
  BY <1>1 DEF Queued
<1>3. chains[id].bound /\ appends[a].calls \in 0 .. MaxAppends
  BY <1>1, <1>2 DEF ChainInv, BoundInv, At, AppendShape
<1>4. CASE MustWait(id)
  <2>1. chains' = chains /\ appends' = [appends EXCEPT ![a].pc = "waiting"]
    BY <1>2, <1>4 DEF Reserve
  <2>2. appends'[a] = [appends[a] EXCEPT !.pc = "waiting"]
    BY <2>1 DEF ChainInv, AppendShape
  <2>3. /\ appends'[a] \in Queued /\ appends'[a].pc = "waiting"
        /\ appends'[a].id = id /\ appends'[a].calls = appends[a].calls
    BY <1>1, <1>2, <2>2 DEF Queued
  <2>4. appends' = [b \in Appenders |-> IF b = a THEN appends'[a] ELSE appends[b]]
    BY <2>1, <2>2 DEF ChainInv, AppendShape
  <2>5. chains[id].appending
    BY <1>4 DEF MustWait
  <2>6. ChainInv'
    BY <1>1, <1>3, <2>1, <2>3, <2>4, <2>5, AppendMoves
  <2> QED
    BY <2>1, <2>6
<1>5. CASE ~MustWait(id) /\ chains[id].terminal
  <2>1. chains' = chains /\ appends' = Returns(a, "terminal")
    BY <1>2, <1>5 DEF Reserve
  <2>2. appends' = [b \in Appenders |->
            IF b = a THEN [pc |-> "idle", outcome |-> "terminal",
                           calls |-> appends[a].calls]
            ELSE appends[b]]
    BY <2>1, ReturnsEffect DEF ChainInv
  <2>3. /\ appends'[a].calls = appends[a].calls /\ appends'[a].pc = "idle"
        /\ appends'[a].outcome \in Outcomes \ {"lost"}
    BY <2>2 DEF Outcomes
  <2>4. appends' = [b \in Appenders |-> IF b = a THEN appends'[a] ELSE appends[b]]
    BY <2>2
  <2>5. ChainInv'
    BY <1>1, <1>3, <2>1, <2>3, <2>4, AppendMoves
  <2> QED
    BY <2>1, <2>5
<1>6. CASE ~MustWait(id) /\ ~chains[id].terminal
  <2>1. /\ chains' = [chains EXCEPT ![id].appending = TRUE]
        /\ appends' = [appends EXCEPT ![a] =
                [pc |-> "signing", outcome |-> "none", calls |-> @.calls, id |-> id,
                 terminal |-> @.terminal, at |-> Reservation(chains[id].receipts)]]
    BY <1>2, <1>6 DEF Reserve
  <2>2. /\ ChainShape' /\ chains'[id].appending = TRUE
        /\ \A i \in Ids : /\ chains'[i].receipts = chains[i].receipts
                          /\ chains'[i].terminal = chains[i].terminal
                          /\ chains'[i].bound = chains[i].bound
        /\ \A i \in Ids : i # id => chains'[i].appending = chains[i].appending
    BY <2>1, AppendingEffect
  <2>3. /\ appends'[a] =
             [pc |-> "signing", outcome |-> "none", calls |-> appends[a].calls, id |-> id,
              terminal |-> appends[a].terminal, at |-> Reservation(chains[id].receipts)]
        /\ \A b \in Appenders : b # a => appends'[b] = appends[b]
        /\ appends' = [b \in Appenders |-> appends'[b]]
    BY <2>1 DEF ChainInv, AppendShape
  <2>4. /\ appends'[a].pc = "signing" /\ appends'[a].outcome = "none"
        /\ appends'[a].calls = appends[a].calls /\ appends'[a].id = id
        /\ appends'[a].terminal = appends[a].terminal
        /\ appends'[a].at = Reservation(chains[id].receipts)
    BY <2>3
  <2>5. Holds(a)' /\ \A b \in Appenders : b # a => (Holds(b)' <=> Holds(b))
    BY <2>3, <2>4 DEF Holds
  <2>6. \A b \in Appenders : Holds(b) => appends[b].id # id
    BY <1>6 DEF MustWait, ChainInv, HolderInv
  <2>7. \A b \in Appenders : ~At(b, "idle") => appends[b].id \in Ids
    BY DEF ChainInv, AppendShape, Queued, At
  <2>8. AppendShape'
    <3>1. ASSUME NEW b \in Appenders
          PROVE  /\ appends'[b].calls \in 0 .. MaxAppends
                 /\ \/ appends'[b].pc = "idle" /\ appends'[b].outcome \in Outcomes \ {"lost"}
                    \/ appends'[b] \in Queued
                    \/ /\ Holds(b)' /\ appends'[b].outcome = "none"
                       /\ appends'[b].id \in Ids /\ appends'[b].terminal \in BOOLEAN
      <4>1. CASE b = a
        <5>1. appends[a].terminal \in BOOLEAN
          BY <1>1 DEF Queued
        <5> QED
          BY <1>3, <2>4, <2>5, <4>1, <5>1, Zenon
      <4>2. CASE b # a
        BY <2>3, <2>5, <4>2, Zenon DEF ChainInv, AppendShape
      <4> QED
        BY <4>1, <4>2
    <3> QED
      BY <2>3, <3>1, Zenon DEF AppendShape, Queued
  <2>9. BoundInv'
    <3>1. \A i \in Ids : ~chains'[i].bound =>
            chains'[i].receipts = <<>> /\ ~chains'[i].appending /\ ~chains'[i].terminal
      BY <1>3, <2>2 DEF ChainInv, BoundInv
    <3>2. ASSUME NEW b \in Appenders, appends'[b].pc # "idle"
          PROVE  chains'[appends'[b].id].bound
      BY <1>3, <2>2, <2>3, <2>4, <2>7, <3>2 DEF ChainInv, BoundInv, At
    <3> QED
      BY <3>1, <3>2 DEF BoundInv, At
  <2>10. HolderInv'
    <3>1. ASSUME NEW b \in Appenders, Holds(b)'
          PROVE  /\ chains'[appends'[b].id].appending
                 /\ ~chains'[appends'[b].id].terminal
                 /\ appends'[b].at = Reservation(chains'[appends'[b].id].receipts)
      <4>1. CASE b = a
        BY <1>6, <2>2, <2>4, <4>1
      <4>2. CASE b # a
        <5>1. Holds(b) /\ appends'[b] = appends[b]
          BY <2>3, <2>5, <3>1, <4>2
        <5>2. appends[b].id \in Ids /\ appends[b].id # id
          BY <2>6, <2>7, <5>1 DEF Holds, At
        <5>3. /\ chains[appends[b].id].appending /\ ~chains[appends[b].id].terminal
              /\ appends[b].at = Reservation(chains[appends[b].id].receipts)
          BY <5>1 DEF ChainInv, HolderInv
        <5> QED
          BY <2>2, <5>1, <5>2, <5>3
      <4> QED
        BY <4>1, <4>2
    <3>2. ASSUME NEW b \in Appenders, NEW c \in Appenders, Holds(b)', Holds(c)',
                 appends'[b].id = appends'[c].id
          PROVE  b = c
      BY <2>3, <2>4, <2>5, <2>6, <3>2 DEF ChainInv, HolderInv
    <3> QED
      BY <3>1, <3>2, Zenon DEF HolderInv, Reservation
  <2>11. TerminalInv'
    BY <2>2 DEF ChainInv, TerminalInv
  <2>12. WaitInv'
    <3>1. ASSUME NEW i \in Ids, chains'[i].appending
          PROVE  \E b \in Appenders : Holds(b)' /\ appends'[b].id = i
      <4>1. CASE i = id
        BY <2>4, <2>5, <4>1
      <4>2. CASE i # id
        <5>1. PICK b \in Appenders : Holds(b) /\ appends[b].id = i
          BY <2>2, <3>1, <4>2 DEF ChainInv, WaitInv
        <5>2. b # a
          BY <1>1, <5>1
        <5> QED
          BY <2>3, <2>5, <5>1, <5>2
      <4> QED
        BY <4>1, <4>2
    <3>2. ASSUME NEW b \in Appenders, appends'[b].pc = "waiting"
          PROVE  chains'[appends'[b].id].appending
      <4>1. b # a /\ appends'[b] = appends[b]
        BY <2>3, <2>4, <3>2
      <4>2. appends[b].id \in Ids /\ chains[appends[b].id].appending
        BY <2>7, <3>2, <4>1 DEF ChainInv, WaitInv, At
      <4> QED
        BY <2>2, <4>1, <4>2
    <3> QED
      BY <3>1, <3>2 DEF WaitInv, At
  <2>13. ChainVerifies'
    BY <2>2 DEF ChainInv, ChainVerifies
  <2> QED
    BY <2>2, <2>8, <2>9, <2>10, <2>11, <2>12, <2>13, Zenon DEF ChainInv
<1> QED
  BY <1>4, <1>5, <1>6

\* Resolving the authority and signing: the reservation is kept, or given back.
LEMMA SignStep ==
    ASSUME ChainInv, NEW a \in Appenders,
           \/ SigningFails(a)
           \/ \E authority \in Authority, sig \in Signatures : Sign(a, authority, sig)
    PROVE  /\ ChainInv'
           /\ \A i \in Ids : chains'[i].receipts = chains[i].receipts
<1>1. Holds(a) /\ appends[a].id \in Ids
  BY DEF SigningFails, Sign, At, Holds, ChainInv, AppendShape, Queued
<1>2. CASE Aborted(a, "unsigned")
  <2>1. "unsigned" \in Outcomes \ {"lost"}
    BY DEF Outcomes
  <2>2. ChainInv'
    BY <1>1, <1>2, <2>1, AbortedStep
  <2>3. PICK id \in Ids : id = appends[a].id
    BY <1>1
  <2>4. chains' = [chains EXCEPT ![id].appending = FALSE]
    BY <1>2, <2>3 DEF Aborted
  <2>5. \A i \in Ids : chains'[i].receipts = chains[i].receipts
    BY <2>4, AppendingEffect
  <2> QED
    BY <2>2, <2>5
<1>3. ASSUME NEW h,
             appends' = [appends EXCEPT ![a] =
                 [pc |-> "committing", outcome |-> "none", calls |-> @.calls,
                  id |-> @.id, terminal |-> @.terminal, at |-> @.at, hosted |-> h]],
             chains' = chains
      PROVE  ChainInv'
  <2>1. /\ appends'[a] =
             [pc |-> "committing", outcome |-> "none", calls |-> appends[a].calls,
              id |-> appends[a].id, terminal |-> appends[a].terminal,
              at |-> appends[a].at, hosted |-> h]
        /\ appends' = [b \in Appenders |-> IF b = a THEN appends'[a] ELSE appends[b]]
    BY <1>3 DEF ChainInv, AppendShape
  <2>2. /\ appends'[a].pc = "committing" /\ appends'[a].outcome = "none"
        /\ appends'[a].calls = appends[a].calls
        /\ appends'[a].id = appends[a].id /\ appends'[a].at = appends[a].at
        /\ appends'[a].terminal = appends[a].terminal
    BY <2>1
  <2>3. appends'[a].calls \in 0 .. MaxAppends
    BY <2>2 DEF ChainInv, AppendShape
  <2> QED
    BY <1>1, <1>3, <2>1, <2>2, <2>3, AppendMoves
<1>4. CASE SigningFails(a)
  BY <1>2, <1>4 DEF SigningFails
<1>5. ASSUME NEW authority \in Authority, NEW sig \in Signatures, Sign(a, authority, sig)
      PROVE  /\ ChainInv'
             /\ \A i \in Ids : chains'[i].receipts = chains[i].receipts
  <2>1. CASE AuthorityValid(authority) /\ sig = "verifies"
    <3>1. PICK h : h = (authority.signer = "host")
      OBVIOUS
    <3>2. /\ appends' = [appends EXCEPT ![a] =
                 [pc |-> "committing", outcome |-> "none", calls |-> @.calls,
                  id |-> @.id, terminal |-> @.terminal, at |-> @.at, hosted |-> h]]
          /\ chains' = chains
      BY <1>5, <2>1, <3>1 DEF Sign
    <3> QED
      BY <1>3, <3>2
  <2>2. CASE ~(AuthorityValid(authority) /\ sig = "verifies")
    BY <1>2, <1>5, <2>2 DEF Sign
  <2> QED
    BY <2>1, <2>2
<1> QED
  BY <1>4, <1>5

\* The chains start empty.
LEMMA ChainInit == Init => ChainInv
<1> SUFFICES ASSUME Init PROVE ChainInv
  OBVIOUS
<1>1. IsChain(<<>>)
  BY EmptySeq, SeqIsChain
<1>2. chains = [i \in Ids |-> [bound |-> FALSE, appending |-> FALSE, terminal |-> FALSE,
                               receipts |-> <<>>]]
  <2>1. [NewChain EXCEPT !.bound = FALSE] =
          [bound |-> FALSE, appending |-> FALSE, terminal |-> FALSE, receipts |-> <<>>]
    <3>1. NewChain = [bound |-> NewChain.bound, appending |-> NewChain.appending,
                      terminal |-> NewChain.terminal, receipts |-> NewChain.receipts]
      BY DEF NewChain
    <3>2. /\ NewChain.appending = FALSE /\ NewChain.terminal = FALSE
          /\ NewChain.receipts = <<>>
      BY DEF NewChain
    <3>3. PICK v \in BOOLEAN : v = FALSE
      BY Zenon
    <3>4. [NewChain EXCEPT !.bound = v] =
            [bound |-> v, appending |-> NewChain.appending,
             terminal |-> NewChain.terminal, receipts |-> NewChain.receipts]
      BY <3>1
    <3> QED
      BY <3>2, <3>3, <3>4, Zenon
  <2> QED
    BY <2>1, Zenon DEF Init
<1>3. \A i \in Ids : /\ chains[i].bound = FALSE /\ chains[i].appending = FALSE
                     /\ chains[i].terminal = FALSE /\ chains[i].receipts = <<>>
  BY <1>2
<1>4. ChainShape
  <2>1. chains = [i \in Ids |-> [bound |-> chains[i].bound,
                                appending |-> chains[i].appending,
                                terminal |-> chains[i].terminal,
                                receipts |-> chains[i].receipts]]
    BY <1>2
  <2> QED
    BY <1>1, <1>3, <2>1, Zenon DEF ChainShape
<1>5. /\ appends = [a \in Appenders |-> appends[a]]
      /\ \A a \in Appenders : /\ appends[a].pc = "idle" /\ appends[a].outcome = "none"
                              /\ appends[a].calls = 0
  BY DEF Init, NoAppend
<1>6. AppendShape
  BY <1>5, ChainAssumption DEF AppendShape, Outcomes
<1>7. BoundInv /\ HolderInv /\ WaitInv
  BY <1>3, <1>5 DEF BoundInv, HolderInv, WaitInv, At, Holds
<1>8. TerminalInv
  BY <1>3 DEF TerminalInv
<1>9. ChainVerifies
  BY <1>3 DEF ChainVerifies, VerifyReceiptChain
<1> QED
  BY <1>4, <1>6, <1>7, <1>8, <1>9 DEF ChainInv

\* Every step of the provider keeps the invariant; it leaves the receipts alone or
\* is a commit.
LEMMA ChainStep ==
    ASSUME ChainInv, [Next]_vars
    PROVE  /\ ChainInv'
           /\ \/ \A i \in Ids : chains'[i].receipts = chains[i].receipts
              \/ \E a \in Appenders : Commit(a)
<1>1. ASSUME NEW i \in Ids, Bind(i)
      PROVE  ChainInv' /\ \A j \in Ids : chains'[j].receipts = chains[j].receipts
  BY <1>1, BindStep
<1>2. ASSUME NEW a \in Appenders, NEW i \in Ids, NEW terminal \in BOOLEAN,
             NEW cleanup \in BOOLEAN, BeginAppend(a, i, terminal, cleanup)
      PROVE  ChainInv' /\ \A j \in Ids : chains'[j].receipts = chains[j].receipts
  BY <1>2, BeginStep
<1>3. ASSUME NEW a \in Appenders, Reserve(a)
      PROVE  ChainInv' /\ \A j \in Ids : chains'[j].receipts = chains[j].receipts
  BY <1>3, ReserveStep
<1>4. ASSUME NEW a \in Appenders,
           \/ SigningFails(a)
           \/ \E authority \in Authority, sig \in Signatures : Sign(a, authority, sig)
      PROVE  ChainInv' /\ \A j \in Ids : chains'[j].receipts = chains[j].receipts
  BY <1>4, SignStep
<1>5. ASSUME NEW a \in Appenders, Commit(a)
      PROVE  ChainInv'
  BY <1>5, CommitStep
<1>6. CASE UNCHANGED vars
  <2>1. chains' = chains /\ appends' = appends
    BY <1>6 DEF vars
  <2> QED
    BY <2>1 DEF ChainInv, ChainShape, AppendShape, BoundInv, HolderInv, TerminalInv,
                WaitInv, ChainVerifies, Holds, At
<1> QED
  BY <1>1, <1>2, <1>3, <1>4, <1>5, <1>6 DEF Next, AppendStep

\* The inductive invariant of the receipt provider, under every interleaving of Bind
\* and AppendSignedReceipt and every failure of a resolver or an authority.
THEOREM ChainInvariant == Spec => []ChainInv
  BY ChainInit, ChainStep, PTL DEF Spec

\* Type correctness of the chains and of the appends under way.
THEOREM ChainTypeCorrect == Spec => []TypeOK
<1>1. ChainInv => TypeOK
  <2> SUFFICES ASSUME ChainInv PROVE TypeOK
    OBVIOUS
  <2>1. \A i \in Ids : /\ chains[i].bound \in BOOLEAN /\ chains[i].appending \in BOOLEAN
                       /\ chains[i].terminal \in BOOLEAN
    BY Zenon DEF ChainInv, ChainShape
  <2>2. \A i \in Ids : IsSequence(chains[i].receipts)
    <3> SUFFICES ASSUME NEW i \in Ids PROVE IsSequence(chains[i].receipts)
      OBVIOUS
    <3>1. IsChain(chains[i].receipts)
      BY DEF ChainInv, ChainShape
    <3> QED
      BY <3>1, LenProperties DEF IsChain, IsSequence
  <2>3. \A a \in Appenders : /\ appends[a].pc \in Steps \cup {"idle"}
                             /\ appends[a].outcome \in Outcomes
                             /\ appends[a].calls \in 0 .. MaxAppends
    BY DEF ChainInv, AppendShape, Queued, Holds, Steps, Outcomes
  <2> QED
    BY <2>1, <2>2, <2>3, Zenon DEF TypeOK
<1> QED
  BY <1>1, ChainInvariant, PTL

\* What SnapshotSignedReceipts hands out passes VerifyReceiptChain at every instant.
THEOREM ChainsVerify == Spec => []ChainVerifies
<1>1. ChainInv => ChainVerifies
  BY DEF ChainInv
<1> QED
  BY <1>1, ChainInvariant, PTL

\* No commitAppend ever finds its place taken: receipt_sequence_reservation_lost is
\* unreachable.
THEOREM ReservationsKept == Spec => []ReservationKept
<1>1. ChainInv => ReservationKept
  BY DEF ChainInv, AppendShape, Queued, ReservationKept
<1> QED
  BY <1>1, ChainInvariant, PTL

\* Whoever waits in reserveAppend waits for a goroutine that is signing or committing
\* on the same chain.
WaitersAttended ==
    \A a \in Appenders : At(a, "waiting") =>
        \E b \in Appenders : Holds(b) /\ appends[b].id = appends[a].id

\* No wake-up of reserveAppend's condition variable is lost: nobody waits for a chain
\* that is free.
THEOREM WaitersAreAttended == Spec => []WaitersAttended
<1>1. ChainInv => WaitersAttended
  BY DEF ChainInv, AppendShape, Queued, Holds, WaitInv, At, WaitersAttended
<1> QED
  BY <1>1, ChainInvariant, PTL

-------------------------------------------------------------------------------
\* The signed receipts are a Ledger.

\* A commit extends one log by one entry, and only a log that has not ended.
LEMMA CommitExtends ==
    ASSUME ChainInv, NEW a \in Appenders, Commit(a)
    PROVE  ReceiptLedger!Next
<1>1. Holds(a)
  BY DEF Commit, At, Holds
<1>2. PICK id \in Ids : id = appends[a].id
  BY <1>1 DEF ChainInv, AppendShape, Holds, Queued
<1>3. /\ chains'[id].receipts = Append(chains[id].receipts, Draft(a))
      /\ \A i \in Ids : i # id => chains'[i] = chains[i]
  BY <1>2, CommitStep
<1>4. IsChain(chains[id].receipts) /\ ~chains[id].terminal
  BY <1>1, <1>2 DEF ChainInv, ChainShape, HolderInv
<1>5. /\ Len(chains'[id].receipts) = Len(chains[id].receipts) + 1
      /\ SubSeq(chains'[id].receipts, 1, Len(chains[id].receipts)) = chains[id].receipts
  <2>1. PICK s : s = chains[id].receipts
    OBVIOUS
  <2>2. PICK r : r = Draft(a)
    OBVIOUS
  <2>3. Len(Append(s, r)) = Len(s) + 1 /\ SubSeq(Append(s, r), 1, Len(s)) = s
    BY <1>4, <2>1, AppendKeepsChain, Zenon
  <2> QED
    BY <1>3, <2>1, <2>2, <2>3, Zenon
<1>6. ~ReceiptLedger!Ended(id)
  BY <1>4 DEF ChainInv, TerminalInv, ReceiptLedger!Ended
<1>7. ReceiptLedger!Extend(id)
  BY <1>3, <1>5, <1>6 DEF ReceiptLedger!Extend
<1> QED
  BY <1>7 DEF ReceiptLedger!Next

\* The receipts of DefaultCanonicalReceiptProvider implement Ledger: appended one by
\* one, never rewritten, nothing after a terminal receipt.
THEOREM ReceiptsImplementLedger == Spec => ReceiptsAreLedger
<1>1. Init => ReceiptLedger!Init
  BY DEF Init, NewChain, ReceiptLedger!Init
<1>2. ChainInv /\ [Next]_vars =>
        [ReceiptLedger!Next]_([i \in Ids |-> chains[i].receipts])
  BY ChainStep, CommitExtends
<1> QED
  BY <1>1, <1>2, ChainInvariant, PTL DEF Spec, ReceiptsAreLedger, ReceiptLedger!Spec
=============================================================================
