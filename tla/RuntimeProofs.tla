---------------------------- MODULE RuntimeProofs ----------------------------
(***************************************************************************)
(* Theorems about the local runtime, for any forest of invocations and any *)
(* faults.  LocalRuntime: its counters are the reservations held, and a    *)
(* parent that ends by a cancel or a deadline ends after the children it   *)
(* spawned.  Admission, which Invoke asks first: a nonce is admitted once  *)
(* in its window, and refused for a reason.                                *)
(***************************************************************************)
EXTENDS LocalRuntime, Admission, SequenceTheorems, FiniteSetTheorems, TLAPS

-------------------------------------------------------------------------------
(* The registry and its reservations.                                          *)

\* Invocations that hold a reservation, by the fields the code looks at.
Held == {i \in Invocations : dispatch[i] \in {"reserved", "started"} \/ active[i]}
HeldChildren(p) == {c \in Held : Parent[c] = p}

\* The counters are the reservations.
CountInv ==
    /\ IsFiniteSet(Held) /\ activeCount = Cardinality(Held)
    /\ \A p \in Invocations : activeChildren[p] = Cardinality(HeldChildren(p))

\* Nobody works on an invocation before it is registered; ability and watcher start with
\* the handle, closeUnstartedInvocation instead of them.  A child that is registered is
\* known to its parent, and nobody ends other children.
PlaceInv ==
    \A i \in Invocations :
        /\ ~Registered(i) => /\ \A k \in Kinds : pc[i][k] = "none"
                             /\ ~IsTerminal(core[i].state) /\ ~active[i] /\ ~suspended[i]
        /\ dispatch[i] # "returned" => pc[i]["ability"] = "none" /\ pc[i]["deadline"] = "none"
        /\ dispatch[i] # "unstarted" => pc[i]["dispatcher"] = "none"
        /\ \A c \in children[i] : Registered(c)
        /\ \A k \in Kinds : pending[i][k] \subseteq children[i]
        /\ Registered(i) /\ HasParent(i) => i \in children[Parent[i]]

\* A goroutine that has emitted the terminal event goes on to the callback; there is one,
\* and it releases the reservation unless a suspension did.
Behind == {"callback", "evidence", "close"}
CallbackDue(i) == \E k \in Kinds : pc[i][k] = "callback"

EndInv ==
    \A i \in Invocations :
        /\ \A k \in Kinds : pc[i][k] \in Behind => IsTerminal(core[i].state)
        /\ \A k, l \in Kinds : pc[i][k] = "callback" /\ pc[i][l] = "callback" => k = l
        /\ IsTerminal(core[i].state) => \E k \in Kinds : pc[i][k] \in Behind \cup {"done"}
        /\ Registered(i) /\ ~suspended[i] =>
              (active[i] <=> ~IsTerminal(core[i].state) \/ CallbackDue(i))
        /\ suspended[i] => ~active[i]

\* Whoever finalizes does so for a claim; the winner of a cancel claims for a cancel.
Finalizing == {"stop", "children", "cleanup", "emit"}
Cancels == {"caller_cancel", "parent_cancel"}

ClaimedInv ==
    \A i \in Invocations :
        /\ \A k \in Kinds : pc[i][k] \in Finalizing => core[i].claim # "none"
        /\ pc[i]["winner"] = "start" => intent[i].owner \in Cancels

RegistryInv == TypeOK /\ CountInv /\ PlaceInv /\ EndInv /\ ClaimedInv

-------------------------------------------------------------------------------
\* Lemmas about the pieces steps are made of.

Moved(i, k, s) ==
    /\ pc' \in [Invocations -> [Kinds -> Stages]] /\ pc'[i][k] = s
    /\ \A j \in Invocations, l \in Kinds : j # i \/ l # k => pc'[j][l] = pc[j][l]

CoresKept ==
    \A j \in Invocations : /\ core'[j].state = core[j].state
                           /\ core[j].claim # "none" => core'[j].claim # "none"

OwnersKept == \A j \in Invocations : intent'[j].owner \in {intent[j].owner} \cup Cancels

Marks(i, k, b) == err' = [err EXCEPT ![i][k] = b]
Awaits(i, k, S) == pending' = [pending EXCEPT ![i][k] = S]

\* A goroutine moves.
LEMMA GotoEffect ==
    ASSUME TypeOK, NEW i \in Invocations, NEW k \in Kinds, NEW s \in Stages, Goto(i, k, s)
    PROVE  Moved(i, k, s)
<1>1. PICK P \in [Invocations -> [Kinds -> Stages]] : P = pc
  BY DEF TypeOK
<1>2. P[i] \in [Kinds -> Stages]
  BY <1>1
<1>3. PICK q \in [Kinds -> Stages] : q = [P[i] EXCEPT ![k] = s]
  BY <1>2
<1>4. q[k] = s /\ \A l \in Kinds : l # k => q[l] = P[i][l]
  BY <1>2, <1>3
<1>5. pc' = [P EXCEPT ![i] = q]
  BY <1>1, <1>3 DEF Goto
<1> HIDE DEF Kinds, Stages
<1> QED
  BY <1>1, <1>4, <1>5 DEF Moved

\* An error flag is set or cleared.
LEMMA ErrEffect ==
    ASSUME TypeOK, NEW i \in Invocations, NEW k \in Kinds, NEW b \in BOOLEAN, Marks(i, k, b)
    PROVE  /\ err' \in [Invocations -> [Kinds -> BOOLEAN]] /\ err'[i][k] = b
           /\ \A j \in Invocations, l \in Kinds :
                 j # i \/ l # k => err'[j][l] = err[j][l]
<1>1. PICK P \in [Invocations -> [Kinds -> BOOLEAN]] : P = err
  BY DEF TypeOK
<1>2. P[i] \in [Kinds -> BOOLEAN]
  BY <1>1
<1>3. PICK q \in [Kinds -> BOOLEAN] : q = [P[i] EXCEPT ![k] = b]
  BY <1>2
<1>4. q[k] = b /\ \A l \in Kinds : l # k => q[l] = P[i][l]
  BY <1>2, <1>3
<1>5. err' = [P EXCEPT ![i] = q]
  BY <1>1, <1>3 DEF Marks
<1> HIDE DEF Kinds
<1> QED
  BY <1>1, <1>4, <1>5

\* The children a goroutine has to end are set.
LEMMA PendingEffect ==
    ASSUME TypeOK, NEW i \in Invocations, NEW k \in Kinds, NEW S \in SUBSET Invocations,
           Awaits(i, k, S)
    PROVE  /\ pending' \in [Invocations -> [Kinds -> SUBSET Invocations]]
           /\ pending'[i][k] = S
           /\ \A j \in Invocations, l \in Kinds :
                 j # i \/ l # k => pending'[j][l] = pending[j][l]
<1>1. PICK P \in [Invocations -> [Kinds -> SUBSET Invocations]] : P = pending
  BY DEF TypeOK
<1>2. P[i] \in [Kinds -> SUBSET Invocations]
  BY <1>1
<1>3. PICK q \in [Kinds -> SUBSET Invocations] : q = [P[i] EXCEPT ![k] = S]
  BY <1>2
<1>4. q[k] = S /\ \A l \in Kinds : l # k => q[l] = P[i][l]
  BY <1>2, <1>3
<1>5. pending' = [P EXCEPT ![i] = q]
  BY <1>1, <1>3 DEF Awaits
<1> HIDE DEF Kinds
<1> QED
  BY <1>1, <1>4, <1>5

\* A claim changes the owner of one core.
LEMMA ClaimEffect ==
    ASSUME TypeOK, NEW i \in Invocations, NEW owner \in Claims, Claim(i, owner)
    PROVE  /\ core' \in [Invocations -> Core] /\ core'[i].claim = owner
           /\ \A j \in Invocations : /\ core'[j].state = core[j].state
                                     /\ core'[j].finErr = core[j].finErr
                                     /\ j # i => core'[j] = core[j]
<1>1. core[i] \in Core /\ core \in [Invocations -> Core]
  BY DEF TypeOK
<1>2. PICK e \in Core : e = [core[i] EXCEPT !.claim = owner]
  BY <1>1 DEF Core
<1>3. e.claim = owner /\ e.state = core[i].state /\ e.finErr = core[i].finErr
  BY <1>1, <1>2 DEF Core
<1>4. core' = [core EXCEPT ![i] = e]
  BY <1>1, <1>2 DEF Claim
<1> QED
  BY <1>1, <1>3, <1>4

\* A failed finalization closes the channel of a core that is marked and not terminal.
LEMMA FailEffect ==
    ASSUME TypeOK, NEW i \in Invocations, FailFinalization(i)
    PROVE  /\ core' \in [Invocations -> Core] /\ terminal' \in [Invocations -> BOOLEAN]
           /\ \A j \in Invocations : /\ core'[j].state = core[j].state
                                     /\ core'[j].claim = core[j].claim
                                     /\ core[j].finErr => core'[j].finErr
                                     /\ terminal'[j] => terminal[j] \/ core'[j].finErr
<1>1. core[i] \in Core /\ core \in [Invocations -> Core] /\ terminal \in [Invocations -> BOOLEAN]
  BY DEF TypeOK
<1>2. PICK t \in BOOLEAN : t = TRUE
  OBVIOUS
<1>3. PICK e \in Core : e = [core[i] EXCEPT !.finErr = t]
  BY <1>1 DEF Core
<1>4. e.finErr = t /\ e.state = core[i].state /\ e.claim = core[i].claim
  BY <1>1, <1>3 DEF Core
<1>5. CASE CanFailFinalization(core[i])
  <2>1. core' = [core EXCEPT ![i] = e] /\ terminal' = [terminal EXCEPT ![i] = t]
    BY <1>1, <1>2, <1>3, <1>5 DEF FailFinalization
  <2> QED
    BY <1>1, <1>2, <1>4, <2>1
<1>6. CASE ~CanFailFinalization(core[i])
  BY <1>1, <1>6 DEF FailFinalization
<1> QED
  BY <1>5, <1>6

\* A goroutine ends.
LEMMA FinishEffect ==
    ASSUME TypeOK, NEW i \in Invocations, NEW k \in Kinds, NEW b \in BOOLEAN, Finish(i, k, b)
    PROVE  /\ Moved(i, k, "done")
           /\ err' \in [Invocations -> [Kinds -> BOOLEAN]] /\ err'[i][k] = b
           /\ \A j \in Invocations, l \in Kinds : j # i \/ l # k => err'[j][l] = err[j][l]
           /\ intent' \in [Invocations -> Intent]
           /\ \A j \in Invocations : /\ intent'[j].owner = intent[j].owner
                                     /\ j # i \/ k # "winner" => intent'[j] = intent[j]
           /\ k = "winner" => intent'[i].phase = "done" /\ intent'[i].err = b
<1>1. "done" \in Stages
  BY DEF Stages
<1>2. Moved(i, k, "done")
  BY <1>1, GotoEffect DEF Finish
<1>3. /\ err' \in [Invocations -> [Kinds -> BOOLEAN]] /\ err'[i][k] = b
      /\ \A j \in Invocations, l \in Kinds : j # i \/ l # k => err'[j][l] = err[j][l]
  <2>1. Marks(i, k, b)
    BY DEF Finish, Marks
  <2> QED
    BY <2>1, ErrEffect
<1>4. intent \in [Invocations -> Intent]
  BY DEF TypeOK
<1>5. CASE k = "winner"
  <2>1. PICK e \in Intent : e = [intent[i] EXCEPT !.phase = "done", !.err = b]
    BY <1>4 DEF Intent
  <2>2. e.phase = "done" /\ e.err = b /\ e.owner = intent[i].owner
    BY <1>4, <2>1 DEF Intent
  <2>3. intent' = [intent EXCEPT ![i] = e]
    BY <1>4, <1>5, <2>1 DEF Finish
  <2> QED
    BY <1>2, <1>3, <1>4, <1>5, <2>2, <2>3
<1>6. CASE k # "winner"
  BY <1>2, <1>3, <1>4, <1>6 DEF Finish
<1> QED
  BY <1>5, <1>6

-------------------------------------------------------------------------------
\* The counters.

\* The counters and the parents, as types.
LEMMA CountsTyped ==
    ASSUME TypeOK
    PROVE  /\ PendingCapacity \in Nat /\ activeCount \in 0 .. PendingCapacity
           /\ activeChildren \in [Invocations -> 0 .. PendingCapacity]
           /\ Parent \in [Invocations -> Invocations \cup {NoParent}]
           /\ NoParent \notin Invocations
  BY RuntimeAssumption DEF TypeOK

\* A set that loses an element, or not.
LEMMA OneLess ==
    ASSUME NEW S, NEW x, IsFiniteSet(S), x \in S
    PROVE  /\ IsFiniteSet(S \ {x}) /\ Cardinality(S \ {x}) = Cardinality(S) - 1
           /\ Cardinality(S) \in Nat /\ Cardinality(S) > 0
<1>1. /\ IsFiniteSet(S \ {x}) /\ Cardinality(S \ {x}) = Cardinality(S) - 1
  BY FS_RemoveElement
<1>2. Cardinality(S) \in Nat /\ Cardinality(S \ {x}) \in Nat
  BY <1>1, FS_CardinalityType
<1> QED
  BY <1>1, <1>2

\* A reservation is released.
LEMMA ReleaseEffect ==
    ASSUME TypeOK, CountInv, NEW i \in Held, ReleaseReservation(i), Held' = Held \ {i}
    PROVE  /\ CountInv' /\ activeCount' \in 0 .. PendingCapacity
           /\ activeChildren' \in [Invocations -> 0 .. PendingCapacity]
<1>1. /\ IsFiniteSet(Held') /\ Cardinality(Held') = Cardinality(Held) - 1
      /\ Cardinality(Held) \in Nat /\ Cardinality(Held) > 0
  BY OneLess DEF CountInv
<1>2. activeCount' = Cardinality(Held') /\ activeCount' \in 0 .. PendingCapacity
  BY <1>1, CountsTyped DEF CountInv, ReleaseReservation
<1>3. ASSUME NEW p \in Invocations
      PROVE  /\ activeChildren'[p] = Cardinality(HeldChildren(p)')
             /\ activeChildren'[p] \in 0 .. PendingCapacity
  <2>1. activeChildren[p] = Cardinality(HeldChildren(p))
        /\ activeChildren[p] \in 0 .. PendingCapacity /\ PendingCapacity \in Nat
    BY CountsTyped DEF CountInv
  <2>2. CASE Parent[i] = p
    <3>1. HeldChildren(p)' = HeldChildren(p) \ {i} /\ i \in HeldChildren(p)
      BY <2>2 DEF HeldChildren
    <3>2. IsFiniteSet(HeldChildren(p))
      <4>1. HeldChildren(p) \subseteq Held
        BY DEF HeldChildren
      <4> QED
        BY <4>1, FS_Subset DEF CountInv
    <3>3. Cardinality(HeldChildren(p)') = Cardinality(HeldChildren(p)) - 1
          /\ Cardinality(HeldChildren(p)) > 0
      BY <3>1, <3>2, OneLess
    <3>4. activeChildren'[p] = activeChildren[p] - 1
      BY <2>1, <2>2, <3>3 DEF ReleaseReservation
    <3> QED
      BY <2>1, <3>3, <3>4
  <2>3. CASE Parent[i] # p
    <3>1. HeldChildren(p)' = HeldChildren(p)
      BY <2>3 DEF HeldChildren
    <3>2. activeChildren'[p] = activeChildren[p]
      BY <2>3 DEF ReleaseReservation
    <3> QED
      BY <2>1, <3>1, <3>2
  <2> QED
    BY <2>2, <2>3
<1>4. activeChildren' \in [Invocations -> 0 .. PendingCapacity]
  <2>1. PICK F : activeChildren' = [p \in Invocations |-> F[p]]
    <3>1. activeChildren' = [p \in Invocations |-> activeChildren'[p]]
      BY DEF ReleaseReservation
    <3> QED
      BY <3>1
  <2> QED
    BY <1>3, <2>1
<1> QED
  BY <1>1, <1>2, <1>3, <1>4 DEF CountInv

\* A reservation is made.
LEMMA ReserveCounts ==
    ASSUME RegistryInv, NEW i \in Invocations, Reserve(i)
    PROVE  /\ CountInv' /\ activeCount' \in 0 .. PendingCapacity
           /\ activeChildren' \in [Invocations -> 0 .. PendingCapacity]
<1>1. i \notin Held /\ Held' = Held \cup {i}
  <2>1. dispatch \in [Invocations -> {"idle", "reserved", "started", "registered",
                                      "unstarted", "returned", "refused"}]
    BY DEF RegistryInv, TypeOK
  <2>2. dispatch[i] = "idle" /\ dispatch' = [dispatch EXCEPT ![i] = "reserved"]
        /\ active' = active
    BY DEF Reserve
  <2>3. ~active[i]
    BY <2>2 DEF RegistryInv, PlaceInv, Registered
  <2> QED
    BY <2>1, <2>2, <2>3 DEF Held
<1>2. /\ IsFiniteSet(Held') /\ Cardinality(Held') = Cardinality(Held) + 1
      /\ Cardinality(Held) \in Nat
  BY <1>1, FS_AddElement, FS_CardinalityType DEF RegistryInv, CountInv
<1>3. activeCount' = Cardinality(Held') /\ activeCount' \in 0 .. PendingCapacity
  BY <1>2, CountsTyped DEF RegistryInv, CountInv, Reserve
<1>4. ASSUME NEW p \in Invocations
      PROVE  /\ activeChildren'[p] = Cardinality(HeldChildren(p)')
             /\ activeChildren'[p] \in 0 .. PendingCapacity
  <2>1. activeChildren[p] = Cardinality(HeldChildren(p))
        /\ activeChildren[p] \in 0 .. PendingCapacity /\ PendingCapacity \in Nat
    BY CountsTyped DEF RegistryInv, CountInv
  <2>2. CASE Parent[i] = p
    <3>1. HeldChildren(p)' = HeldChildren(p) \cup {i} /\ i \notin HeldChildren(p)
      BY <1>1, <2>2 DEF HeldChildren
    <3>2. IsFiniteSet(HeldChildren(p))
      <4>1. HeldChildren(p) \subseteq Held
        BY DEF HeldChildren
      <4> QED
        BY <4>1, FS_Subset DEF RegistryInv, CountInv
    <3>3. Cardinality(HeldChildren(p)') = Cardinality(HeldChildren(p)) + 1
      BY <3>1, <3>2, FS_AddElement
    <3>4. activeChildren'[p] = activeChildren[p] + 1
      BY <2>1, <2>2 DEF Reserve
    <3>5. activeChildren[p] < PendingCapacity
      BY <2>2, CountsTyped DEF Reserve, HasParent, RegistryInv
    <3> QED
      BY <2>1, <3>3, <3>4, <3>5
  <2>3. CASE Parent[i] # p
    <3>1. HeldChildren(p)' = HeldChildren(p)
      BY <1>1, <2>3 DEF HeldChildren
    <3>2. activeChildren'[p] = activeChildren[p]
      BY <2>1, <2>3 DEF Reserve
    <3> QED
      BY <2>1, <3>1, <3>2
  <2> QED
    BY <2>2, <2>3
<1>5. activeChildren' \in [Invocations -> 0 .. PendingCapacity]
  BY <1>4 DEF Reserve
<1> QED
  BY <1>2, <1>3, <1>4, <1>5 DEF CountInv

\* Whoever keeps Held and the counters keeps their agreement.
LEMMA CountsKept ==
    ASSUME CountInv, Held' = Held, UNCHANGED <<activeCount, activeChildren>>
    PROVE  CountInv'
  BY DEF CountInv, HeldChildren

-------------------------------------------------------------------------------
\* Steps of a goroutine that leave the registry alone.

\* Types of a step that leaves dispatch and the registry alone.
LEMMA MoveTyped ==
    ASSUME TypeOK, UNCHANGED <<dispatch, registryVars, suspended>>,
           core' \in [Invocations -> Core], log' \in [Invocations -> Seq(LogEntry)],
           terminal' \in [Invocations -> BOOLEAN],
           phase' \in [Invocations -> {"none", "running", "suspended", "finalizing",
                                        "closed"}],
           intent' \in [Invocations -> Intent],
           pc' \in [Invocations -> [Kinds -> Stages]],
           pending' \in [Invocations -> [Kinds -> SUBSET Invocations]],
           err' \in [Invocations -> [Kinds -> BOOLEAN]]
    PROVE  TypeOK'
  BY DEF TypeOK, registryVars

\* One goroutine moves, no invocation ends or loses its reservation.
LEMMA MovePreserves ==
    ASSUME RegistryInv, NEW i \in Invocations, NEW k \in Kinds, NEW s \in Stages,
           Moved(i, k, s), CoresKept, OwnersKept,
           UNCHANGED <<dispatch, registryVars, suspended>>, TypeOK',
           \A j \in Invocations, l \in Kinds : pending'[j][l] \subseteq children[j],
           pc[i][k] # "callback", s # "callback",
           s \in Behind => pc[i][k] \in Behind,
           pc[i][k] \in Behind \cup {"done"} =>
              s \in Behind \cup {"done"} \/ ~IsTerminal(core[i].state),
           pc[i][k] # "none" \/ (Registered(i) /\ k \in {"winner", "parent_deadline"}),
           s \in Finalizing => pc[i][k] \in Finalizing \/ core'[i].claim # "none",
           s = "start" => intent'[i].owner \in Cancels
    PROVE  RegistryInv'
<1>1. /\ dispatch' = dispatch /\ active' = active /\ suspended' = suspended
      /\ children' = children /\ UNCHANGED <<activeCount, activeChildren>>
      /\ \A j \in Invocations : Registered(j)' <=> Registered(j)
  BY DEF registryVars, Registered
<1>2. CountInv'
  <2>1. Held' = Held
    BY <1>1 DEF Held
  <2> QED
    BY <1>1, <2>1, CountsKept DEF RegistryInv
<1>3. /\ pc'[i][k] = s
      /\ \A j \in Invocations, l \in Kinds : j # i \/ l # k => pc'[j][l] = pc[j][l]
  BY DEF Moved
<1>4. Registered(i)
  BY DEF RegistryInv, PlaceInv
<1>5. ASSUME NEW j \in Invocations
      PROVE  /\ ~Registered(j)' => /\ \A l \in Kinds : pc'[j][l] = "none"
                                   /\ ~IsTerminal(core'[j].state) /\ ~active'[j]
                                   /\ ~suspended'[j]
             /\ dispatch'[j] # "returned" =>
                   pc'[j]["ability"] = "none" /\ pc'[j]["deadline"] = "none"
             /\ dispatch'[j] # "unstarted" => pc'[j]["dispatcher"] = "none"
             /\ \A c \in children'[j] : Registered(c)'
             /\ \A l \in Kinds : pending'[j][l] \subseteq children'[j]
             /\ Registered(j)' /\ HasParent(j) => j \in children'[Parent[j]]
  <2>1. core'[j].state = core[j].state
    BY DEF CoresKept
  <2>2. ~Registered(j)' => \A l \in Kinds : pc'[j][l] = "none"
    BY <1>1, <1>3, <1>4 DEF RegistryInv, PlaceInv
  <2>3. ~Registered(j)' => ~IsTerminal(core'[j].state) /\ ~active'[j] /\ ~suspended'[j]
    BY <1>1, <2>1 DEF RegistryInv, PlaceInv
  <2>4. {"ability", "deadline", "dispatcher"} \subseteq Kinds
    BY DEF Kinds
  <2>5. dispatch'[j] # "returned" =>
           pc'[j]["ability"] = "none" /\ pc'[j]["deadline"] = "none"
    BY <1>1, <1>3, <2>4 DEF RegistryInv, PlaceInv
  <2>6. dispatch'[j] # "unstarted" => pc'[j]["dispatcher"] = "none"
    BY <1>1, <1>3, <2>4 DEF RegistryInv, PlaceInv
  <2>7. \A c \in children'[j] : Registered(c)'
    <3>1. children[j] \subseteq Invocations
      BY DEF RegistryInv, TypeOK
    <3> QED
      BY <1>1, <3>1 DEF RegistryInv, PlaceInv
  <2>8. Registered(j)' /\ HasParent(j) => j \in children'[Parent[j]]
    BY <1>1 DEF RegistryInv, PlaceInv
  <2> QED
    BY <1>1, <2>2, <2>3, <2>5, <2>6, <2>7, <2>8
<1>6. PlaceInv'
  BY <1>5 DEF PlaceInv, HasParent
<1>7. ASSUME NEW j \in Invocations
      PROVE  /\ \A l \in Kinds : pc'[j][l] \in Behind => IsTerminal(core'[j].state)
             /\ \A l, m \in Kinds :
                   pc'[j][l] = "callback" /\ pc'[j][m] = "callback" => l = m
             /\ IsTerminal(core'[j].state) =>
                   \E l \in Kinds : pc'[j][l] \in Behind \cup {"done"}
             /\ CallbackDue(j)' <=> CallbackDue(j)
  <2>1. core'[j].state = core[j].state
    BY DEF CoresKept
  <2>2. \A l \in Kinds : pc'[j][l] \in Behind => pc[j][l] \in Behind
    BY <1>3
  <2>3. \A l \in Kinds : pc'[j][l] = "callback" <=> pc[j][l] = "callback"
    BY <1>3
  <2>4. \A l \in Kinds : pc[j][l] \in Behind \cup {"done"} =>
           pc'[j][l] \in Behind \cup {"done"} \/ ~IsTerminal(core[j].state)
    BY <1>3
  <2> QED
    BY <2>1, <2>2, <2>3, <2>4 DEF RegistryInv, EndInv, CallbackDue
<1>8. EndInv'
  <2>1. ASSUME NEW j \in Invocations
        PROVE  /\ Registered(j)' /\ ~suspended'[j] =>
                    (active'[j] <=> ~IsTerminal(core'[j].state) \/ CallbackDue(j)')
               /\ suspended'[j] => ~active'[j]
    <3>1. core'[j].state = core[j].state
      BY DEF CoresKept
    <3> QED
      BY <1>1, <1>7, <3>1 DEF RegistryInv, EndInv
  <2> QED
    BY <1>7, <2>1 DEF EndInv
<1>9. ClaimedInv'
  <2>1. "winner" \in Kinds
    BY DEF Kinds
  <2>2. ASSUME NEW j \in Invocations, NEW l \in Kinds, pc'[j][l] \in Finalizing
        PROVE  core'[j].claim # "none"
    BY <1>3, <2>2 DEF RegistryInv, ClaimedInv, CoresKept
  <2>3. ASSUME NEW j \in Invocations, pc'[j]["winner"] = "start"
        PROVE  intent'[j].owner \in Cancels
    BY <1>3, <2>1, <2>3 DEF RegistryInv, ClaimedInv, OwnersKept
  <2> QED
    BY <2>2, <2>3 DEF ClaimedInv
<1> QED
  BY <1>2, <1>6, <1>8, <1>9 DEF RegistryInv

\* The parts of TypeOK that goroutines change.
LEMMA Shapes ==
    ASSUME TypeOK
    PROVE  /\ core \in [Invocations -> Core] /\ log \in [Invocations -> Seq(LogEntry)]
           /\ terminal \in [Invocations -> BOOLEAN]
           /\ phase \in [Invocations -> {"none", "running", "suspended", "finalizing",
                                         "closed"}]
           /\ intent \in [Invocations -> Intent]
           /\ pc \in [Invocations -> [Kinds -> Stages]]
           /\ pending \in [Invocations -> [Kinds -> SUBSET Invocations]]
           /\ err \in [Invocations -> [Kinds -> BOOLEAN]]
  BY DEF TypeOK

\* Nobody waits for other children than those registered.
LEMMA PendingKept ==
    ASSUME RegistryInv, UNCHANGED pending
    PROVE  \A j \in Invocations, l \in Kinds : pending'[j][l] \subseteq children[j]
  BY DEF RegistryInv, PlaceInv

\* Steps that only move a goroutine.
LEMMA PureMovePreserves ==
    ASSUME RegistryInv, NEW i \in Invocations, NEW k \in Kinds,
           NEW s \in {"done", "wait", "children", "cleanup", "emit"}, Goto(i, k, s),
           pc[i][k] \in {"start", "stop", "children", "cleanup"},
           pc[i][k] = "start" => s \in {"done", "wait"},
           UNCHANGED <<dispatch, core, log, terminal, registryVars, suspended, phase, intent,
                       pending, err>>
    PROVE  RegistryInv'
<1>1. s \in Stages
  BY DEF Stages
<1>2. Moved(i, k, s)
  BY <1>1, GotoEffect DEF RegistryInv
<1>3. TypeOK'
  BY <1>2, MoveTyped, Shapes DEF RegistryInv, Moved
<1>4. CoresKept /\ OwnersKept
  BY DEF CoresKept, OwnersKept
<1>5. pc[i][k] \notin Behind \cup {"done", "none"} /\ s \notin Behind
      /\ (s \in Finalizing => pc[i][k] \in Finalizing)
  BY DEF Behind, Finalizing
<1> QED
  BY <1>1, <1>2, <1>3, <1>4, <1>5, PendingKept, MovePreserves DEF Behind

\* An owner is a claim.
LEMMA OwnerIsClaim ==
    ASSUME NEW owner \in Owners
    PROVE  owner \in Claims /\ owner # "none"
  BY DEF Owners, Claims

\* The claims of closeUnstartedInvocation and of runAbility.
LEMMA ClaimPreserves ==
    ASSUME RegistryInv, NEW i \in Invocations, NEW k \in Kinds, NEW owner \in Owners,
           NEW s \in {"cleanup", "stop"}, Claim(i, owner), Goto(i, k, s),
           pc[i][k] = "start",
           UNCHANGED <<dispatch, log, terminal, registryVars, suspended, phase, intent,
                       pending, err>>
    PROVE  RegistryInv'
<1>1. s \in Stages
  BY DEF Stages
<1>2. Moved(i, k, s)
  BY <1>1, GotoEffect DEF RegistryInv
<1>3. core' \in [Invocations -> Core] /\ CoresKept /\ core'[i].claim # "none"
  BY OwnerIsClaim, ClaimEffect DEF RegistryInv, CoresKept
<1>4. TypeOK'
  BY <1>2, <1>3, MoveTyped, Shapes DEF RegistryInv, Moved
<1>5. OwnersKept
  BY DEF OwnersKept
<1> QED
  BY <1>1, <1>2, <1>3, <1>4, <1>5, PendingKept, MovePreserves DEF Behind

\* closeUnstartedInvocation claims, waits or leaves a suspended child.
LEMMA ClaimUnstartedPreserves ==
    ASSUME RegistryInv, NEW i \in Invocations, ClaimUnstarted(i)
    PROVE  RegistryInv'
<1>1. "dispatcher" \in Kinds /\ "failure" \in Owners
  BY DEF Kinds, Owners
<1>2. CASE Claim(i, "failure") /\ Goto(i, "dispatcher", "cleanup")
  BY <1>1, <1>2, ClaimPreserves DEF ClaimUnstarted
<1>3. CASE ~(Claim(i, "failure") /\ Goto(i, "dispatcher", "cleanup"))
  <2>1. PICK s \in {"done", "wait"} : Goto(i, "dispatcher", s) /\ UNCHANGED core
    BY <1>3 DEF ClaimUnstarted
  <2> QED
    BY <1>1, <2>1, PureMovePreserves DEF ClaimUnstarted
<1> QED
  BY <1>2, <1>3

\* runAbility claims, or ends without the claim.
LEMMA AbilityReturnsPreserves ==
    ASSUME RegistryInv, NEW i \in Invocations, NEW owner \in {"completion", "failure"},
           AbilityReturns(i, owner)
    PROVE  RegistryInv'
<1>1. "ability" \in Kinds /\ owner \in Owners
  BY DEF Kinds, Owners
<1>2. CASE Claim(i, owner) /\ Goto(i, "ability", "cleanup")
  BY <1>1, <1>2, ClaimPreserves DEF AbilityReturns
<1>3. CASE ~(Claim(i, owner) /\ Goto(i, "ability", "cleanup"))
  <2>1. Goto(i, "ability", "done") /\ UNCHANGED core
    BY <1>3 DEF AbilityReturns
  <2> QED
    BY <1>1, <2>1, PureMovePreserves DEF AbilityReturns
<1> QED
  BY <1>2, <1>3

\* A cancel is recorded and its winner started.
LEMMA StartIntentEffect ==
    ASSUME TypeOK, NEW i \in Invocations, NEW owner \in Claims, StartIntent(i, owner)
    PROVE  /\ Moved(i, "winner", "start") /\ intent' \in [Invocations -> Intent]
           /\ intent'[i].phase = "running" /\ intent'[i].owner = owner
           /\ \A j \in Invocations : j # i => intent'[j] = intent[j]
<1>1. "start" \in Stages /\ "winner" \in Kinds
  BY DEF Stages, Kinds
<1>2. Moved(i, "winner", "start")
  BY <1>1, GotoEffect DEF StartIntent
<1>3. intent \in [Invocations -> Intent]
  BY DEF TypeOK
<1>4. PICK e \in Intent : e = [intent[i] EXCEPT !.phase = "running", !.owner = owner]
  BY <1>3 DEF Intent
<1>5. e.phase = "running" /\ e.owner = owner
  BY <1>3, <1>4 DEF Intent
<1>6. intent' = [intent EXCEPT ![i] = e]
  BY <1>3, <1>4 DEF StartIntent
<1> QED
  BY <1>2, <1>3, <1>5, <1>6

\* An intent is recorded and its winner started.
LEMMA StartIntentPreserves ==
    ASSUME RegistryInv, NEW i \in Invocations, NEW owner \in Cancels, StartIntent(i, owner),
           Registered(i),
           UNCHANGED <<dispatch, core, log, terminal, registryVars, suspended, phase,
                       pending, err>>
    PROVE  RegistryInv'
<1>1. /\ Moved(i, "winner", "start") /\ intent' \in [Invocations -> Intent]
      /\ intent'[i].owner \in Cancels /\ OwnersKept
  <2>1. owner \in Claims
    BY DEF Cancels, Claims, Owners
  <2> QED
    BY <2>1, StartIntentEffect DEF RegistryInv, OwnersKept
<1>2. TypeOK'
  BY <1>1, MoveTyped, Shapes DEF RegistryInv, Moved
<1>3. CoresKept
  BY DEF CoresKept
<1>4. "start" \in Stages /\ "winner" \in Kinds
  BY DEF Stages, Kinds
<1>5. ~IsTerminal(core[i].state) /\ pc[i]["winner"] \notin Behind
  BY <1>4 DEF StartIntent, RegistryInv, EndInv
<1> QED
  BY <1>1, <1>2, <1>3, <1>4, <1>5, PendingKept, MovePreserves DEF Behind, Finalizing

\* A child somebody has to end is registered.
LEMMA PendingRegistered ==
    ASSUME RegistryInv, NEW i \in Invocations, NEW k \in Kinds, NEW c \in pending[i][k]
    PROVE  c \in Invocations /\ Registered(c)
<1>1. c \in children[i] /\ children[i] \subseteq Invocations
  BY DEF RegistryInv, PlaceInv, TypeOK
<1> QED
  BY <1>1 DEF RegistryInv, PlaceInv

\* A cancel or a deadline claims an invocation with its children, or waits.
LEMMA ClaimWithChildrenPreserves ==
    ASSUME RegistryInv, NEW i \in Invocations, NEW k \in Kinds, NEW owner \in Owners,
           ClaimWithChildren(i, k, owner),
           pc[i][k] = "start" \/ (pc[i][k] = "none" /\ k = "parent_deadline" /\ Registered(i)),
           UNCHANGED <<dispatch, log, terminal, registryVars, suspended, phase, intent, err>>
    PROVE  RegistryInv'
<1>1. PICK s \in {"stop", "wait"} : Goto(i, k, s) /\ (s = "stop" => CanClaim(core[i]))
                                     /\ (s = "wait" => ~CanClaim(core[i]))
  BY DEF ClaimWithChildren
<1>2. s \in Stages
  BY DEF Stages
<1>3. Moved(i, k, s)
  BY <1>1, <1>2, GotoEffect DEF RegistryInv
<1>4. /\ core' \in [Invocations -> Core] /\ CoresKept
      /\ s = "stop" => core'[i].claim # "none"
  <2>1. CASE Claim(i, owner)
    BY <2>1, OwnerIsClaim, ClaimEffect DEF RegistryInv, CoresKept
  <2>2. CASE UNCHANGED core /\ s = "wait"
    BY <2>2, Shapes DEF RegistryInv, CoresKept
  <2> QED
    BY <1>1, <2>1, <2>2 DEF ClaimWithChildren
<1>5. /\ pending' \in [Invocations -> [Kinds -> SUBSET Invocations]]
      /\ \A j \in Invocations, l \in Kinds : pending'[j][l] \subseteq children[j]
  <2>1. CASE Awaits(i, k, children[i])
    <3>1. children[i] \in SUBSET Invocations
      BY DEF RegistryInv, TypeOK
    <3>2. /\ pending' \in [Invocations -> [Kinds -> SUBSET Invocations]]
          /\ pending'[i][k] = children[i]
          /\ \A j \in Invocations, l \in Kinds :
                j # i \/ l # k => pending'[j][l] = pending[j][l]
      BY <2>1, <3>1, PendingEffect DEF RegistryInv
    <3>3. \A j \in Invocations, l \in Kinds : pending[j][l] \subseteq children[j]
      BY DEF RegistryInv, PlaceInv
    <3> QED
      BY <3>2, <3>3
  <2>2. CASE UNCHANGED pending
    BY <2>2, Shapes, PendingKept DEF RegistryInv
  <2> QED
    BY <2>1, <2>2 DEF ClaimWithChildren, Awaits
<1>6. TypeOK'
  BY <1>3, <1>4, <1>5, MoveTyped, Shapes DEF RegistryInv, Moved
<1>7. pc[i][k] \notin Behind \cup {"done"} /\ s \notin Behind /\ OwnersKept
      /\ (s \in Finalizing => core'[i].claim # "none")
  BY <1>4 DEF Behind, Finalizing, OwnersKept
<1> QED
  BY <1>2, <1>3, <1>4, <1>5, <1>6, <1>7, MovePreserves DEF Behind

\* A goroutine ends, with what it does to the core.
LEMMA FinishPreserves ==
    ASSUME RegistryInv, NEW i \in Invocations, NEW k \in Kinds, NEW b \in BOOLEAN,
           Finish(i, k, b), pc[i][k] \notin {"callback", "none"},
           core' \in [Invocations -> Core], CoresKept,
           terminal' \in [Invocations -> BOOLEAN],
           phase' \in [Invocations -> {"none", "running", "suspended", "finalizing",
                                        "closed"}],
           UNCHANGED <<dispatch, log, registryVars, suspended, pending>>
    PROVE  RegistryInv'
<1>1. /\ Moved(i, k, "done") /\ err' \in [Invocations -> [Kinds -> BOOLEAN]]
      /\ intent' \in [Invocations -> Intent] /\ OwnersKept
  BY FinishEffect DEF RegistryInv, OwnersKept
<1>2. TypeOK'
  BY <1>1, MoveTyped, Shapes DEF RegistryInv, Moved
<1>3. "done" \in Stages /\ "done" \notin Behind \cup Finalizing
  BY DEF Stages, Behind, Finalizing
<1> QED
  BY <1>1, <1>2, <1>3, PendingKept, MovePreserves

\* WaitTerminal returns.
LEMMA WaitTerminalPreserves ==
    ASSUME RegistryInv, NEW i \in Invocations, NEW k \in Kinds, WaitTerminal(i, k)
    PROVE  RegistryInv'
<1>1. PICK b \in BOOLEAN : b = core[i].finErr
  BY Shapes DEF RegistryInv, Core
<1>2. Finish(i, k, b) /\ pc[i][k] = "wait"
      /\ UNCHANGED <<dispatch, core, log, terminal, registryVars, suspended, phase, pending>>
  BY <1>1 DEF WaitTerminal
<1>3. CoresKept
  BY <1>2 DEF CoresKept
<1> QED
  BY <1>2, <1>3, Shapes, FinishPreserves DEF RegistryInv

\* The terminal channel is closed.
LEMMA CloseTerminalPreserves ==
    ASSUME RegistryInv, NEW i \in Invocations, NEW k \in Kinds, CloseTerminal(i, k)
    PROVE  RegistryInv'
<1>1. PICK b \in BOOLEAN : b = err[i][k]
  BY Shapes DEF RegistryInv
<1>2. Finish(i, k, b) /\ pc[i][k] = "close"
      /\ UNCHANGED <<dispatch, core, log, registryVars, suspended, phase, pending>>
  BY <1>1 DEF CloseTerminal
<1>3. CoresKept
  BY <1>2 DEF CoresKept
<1>4. terminal' \in [Invocations -> BOOLEAN]
  BY Shapes DEF RegistryInv, CloseTerminal
<1> QED
  BY <1>2, <1>3, <1>4, Shapes, FinishPreserves DEF RegistryInv

\* A goroutine gives its finalization up.
LEMMA GiveUpPreserves ==
    ASSUME RegistryInv, NEW i \in Invocations, NEW k \in Kinds, FailFinalization(i),
           Finish(i, k, TRUE), pc[i][k] \in {"children", "cleanup"},
           phase' \in [Invocations -> {"none", "running", "suspended", "finalizing",
                                        "closed"}],
           UNCHANGED <<dispatch, log, registryVars, suspended, pending>>
    PROVE  RegistryInv'
<1>1. /\ core' \in [Invocations -> Core] /\ terminal' \in [Invocations -> BOOLEAN]
      /\ CoresKept
  BY FailEffect DEF RegistryInv, CoresKept
<1>2. PICK b \in BOOLEAN : b = TRUE
  OBVIOUS
<1>3. Finish(i, k, b)
  BY <1>2
<1> QED
  BY <1>1, <1>3, FinishPreserves

\* The next child has ended, or could not be ended.
LEMMA AwaitChildPreserves ==
    ASSUME RegistryInv, NEW i \in Invocations, NEW k \in Kinds, NEW c \in Invocations,
           AwaitChild(i, k, c)
    PROVE  RegistryInv'
<1>1. CASE FailFinalization(i) /\ Finish(i, k, TRUE) /\ UNCHANGED pending
  BY <1>1, Shapes, GiveUpPreserves DEF AwaitChild, RegistryInv
<1>2. CASE /\ pending' = [pending EXCEPT ![i][k] = @ \ {c}]
           /\ UNCHANGED <<core, terminal, pc, err, intent>>
  <2>1. PICK S \in SUBSET Invocations : S = pending[i][k] \ {c}
    <3>1. pending[i][k] \in SUBSET Invocations
      BY Shapes DEF RegistryInv
    <3> QED
      BY <3>1
  <2>2. Awaits(i, k, S)
    BY <1>2, <2>1 DEF Awaits
  <2>3. /\ pending' \in [Invocations -> [Kinds -> SUBSET Invocations]]
        /\ pending'[i][k] = S
        /\ \A j \in Invocations, l \in Kinds :
              j # i \/ l # k => pending'[j][l] = pending[j][l]
    BY <2>2, PendingEffect DEF RegistryInv
  <2>4. \A j \in Invocations, l \in Kinds : pending'[j][l] \subseteq children[j]
    <3>1. \A j \in Invocations, l \in Kinds : pending[j][l] \subseteq children[j]
      BY DEF RegistryInv, PlaceInv
    <3> QED
      BY <2>1, <2>3, <3>1
  <2>5. UNCHANGED <<dispatch, log, registryVars, suspended, phase>> /\ pc[i][k] = "children"
    BY DEF AwaitChild
  <2>6. TypeOK'
    BY <1>2, <2>3, <2>5, MoveTyped, Shapes DEF RegistryInv
  <2>7. PICK s \in Stages : s = pc[i][k]
    BY Shapes DEF RegistryInv
  <2>8. Moved(i, k, s) /\ CoresKept /\ OwnersKept
    BY <1>2, <2>7, Shapes DEF Moved, CoresKept, OwnersKept, RegistryInv
  <2> QED
    BY <2>4, <2>5, <2>6, <2>7, <2>8, MovePreserves DEF Behind
<1> QED
  BY <1>1, <1>2 DEF AwaitChild

\* finishCleanup goes on, or fails the finalization.
LEMMA FinishCleanupPreserves ==
    ASSUME RegistryInv, NEW i \in Invocations, NEW k \in Kinds, FinishCleanup(i, k)
    PROVE  RegistryInv'
<1>1. /\ phase' \in [Invocations -> {"none", "running", "suspended", "finalizing",
                                      "closed"}]
      /\ UNCHANGED <<dispatch, log, registryVars, suspended, pending>>
      /\ pc[i][k] = "cleanup"
  BY Shapes DEF FinishCleanup, RegistryInv
<1>2. CASE FailFinalization(i) /\ Finish(i, k, TRUE)
  BY <1>1, <1>2, GiveUpPreserves
<1>3. CASE Goto(i, k, "emit") /\ UNCHANGED <<core, terminal, err, intent>>
  <2>1. "emit" \in Stages
    BY DEF Stages
  <2>2. Moved(i, k, "emit") /\ CoresKept /\ OwnersKept
    BY <1>3, <2>1, GotoEffect DEF RegistryInv, CoresKept, OwnersKept
  <2>3. TypeOK'
    BY <1>1, <1>3, <2>2, MoveTyped, Shapes DEF RegistryInv, Moved
  <2> QED
    BY <1>1, <2>1, <2>2, <2>3, PendingKept, MovePreserves DEF Behind, Finalizing
<1> QED
  BY <1>2, <1>3 DEF FinishCleanup

\* closePanickedCancelWinner in its three cases.
LEMMA WinnerPanickedPreserves ==
    ASSUME RegistryInv, NEW i \in Invocations, WinnerPanicked(i)
    PROVE  RegistryInv'
<1>1. "winner" \in Kinds /\ "failure" \in Owners /\ "stop" \in Stages
  BY DEF Kinds, Owners, Stages
<1>2. /\ UNCHANGED <<dispatch, log, terminal, registryVars, suspended, phase, pending>>
      /\ pc[i]["winner"] = "start"
  BY DEF WinnerPanicked
<1>3. PICK t \in BOOLEAN : t = TRUE
  OBVIOUS
<1>4. CASE Finish(i, "winner", t) /\ UNCHANGED core
  <2>1. CoresKept
    BY <1>4 DEF CoresKept
  <2> QED
    BY <1>1, <1>2, <1>4, <2>1, Shapes, FinishPreserves DEF RegistryInv
<1>5. CASE /\ Goto(i, "winner", "stop") /\ Marks(i, "winner", t) /\ UNCHANGED intent
           /\ Claim(i, "failure") \/ (UNCHANGED core /\ core[i].claim = "failure")
  <2>1. core' \in [Invocations -> Core] /\ CoresKept /\ core'[i].claim # "none"
    <3>1. CASE Claim(i, "failure")
      BY <1>1, <3>1, OwnerIsClaim, ClaimEffect DEF RegistryInv, CoresKept
    <3>2. CASE UNCHANGED core /\ core[i].claim = "failure"
      BY <3>2, Shapes DEF RegistryInv, CoresKept
    <3> QED
      BY <1>5, <3>1, <3>2
  <2>2. Moved(i, "winner", "stop")
    BY <1>1, <1>5, GotoEffect DEF RegistryInv
  <2>3. err' \in [Invocations -> [Kinds -> BOOLEAN]]
    BY <1>1, <1>5, ErrEffect DEF RegistryInv
  <2>4. TypeOK'
    BY <1>2, <1>5, <2>1, <2>2, <2>3, MoveTyped, Shapes DEF RegistryInv, Moved
  <2>5. OwnersKept
    BY <1>5 DEF OwnersKept
  <2> QED
    BY <1>1, <1>2, <2>1, <2>2, <2>4, <2>5, PendingKept, MovePreserves DEF Behind
<1> QED
  BY <1>3, <1>4, <1>5 DEF WinnerPanicked, Marks

\* An event of a core is appended to a log.
LEMMA AppendTyped ==
    ASSUME TypeOK, NEW p \in Invocations, NEW t \in EventTypes,
           NEW c \in Invocations \cup {NoParent},
           log' = [log EXCEPT ![p] = Append(@, [type |-> t, child |-> c])]
    PROVE  log' \in [Invocations -> Seq(LogEntry)]
<1>1. PICK e \in LogEntry : e = [type |-> t, child |-> c]
  BY DEF LogEntry
<1>2. log' = [log EXCEPT ![p] = Append(log[p], e)]
  BY <1>1
<1>3. Append(log[p], e) \in Seq(LogEntry) /\ log \in [Invocations -> Seq(LogEntry)]
  BY Shapes
<1> HIDE DEF LogEntry
<1> QED
  BY <1>2, <1>3

\* The evidence of a child's end goes to the parent.
LEMMA EvidencePreserves ==
    ASSUME RegistryInv, NEW i \in Invocations, NEW k \in Kinds, EmitChildTerminal(i, k)
    PROVE  RegistryInv'
<1>1. /\ UNCHANGED <<dispatch, core, terminal, registryVars, suspended, phase, intent,
                     pending, err>>
      /\ Goto(i, k, "close") /\ pc[i][k] = "evidence"
  BY DEF EmitChildTerminal
<1>2. "close" \in Stages
  BY DEF Stages
<1>3. Moved(i, k, "close") /\ CoresKept /\ OwnersKept
  BY <1>1, <1>2, GotoEffect DEF RegistryInv, CoresKept, OwnersKept
<1>4. log' \in [Invocations -> Seq(LogEntry)]
  <2>1. CASE UNCHANGED log
    BY <2>1, Shapes DEF RegistryInv
  <2>2. CASE /\ HasParent(i)
             /\ log' = [log EXCEPT ![Parent[i]] =
                          Append(@, [type |-> "child_terminal", child |-> i])]
    <3>1. Parent[i] \in Invocations
      BY <2>2, RuntimeAssumption DEF HasParent
    <3>2. "child_terminal" \in EventTypes
      BY DEF EventTypes, RunningEvents
    <3> QED
      BY <2>2, <3>1, <3>2, AppendTyped DEF RegistryInv
  <2> QED
    BY <2>1, <2>2 DEF EmitChildTerminal
<1>5. TypeOK'
  BY <1>1, <1>3, <1>4, MoveTyped, Shapes DEF RegistryInv, Moved
<1> QED
  BY <1>1, <1>2, <1>3, <1>5, PendingKept, MovePreserves DEF Behind, Finalizing

-------------------------------------------------------------------------------
\* The terminal event and its callback.

\* Whoever emits the terminal event of a claimed core emits one that ends it.
LEMMA FinalEvents ==
    ASSUME TypeOK, NEW i \in Invocations, NEW k \in Kinds, core[i].claim # "none"
    PROVE  /\ FinalEvent(i, k) \in TerminalEvents
           /\ TargetOf(FinalEvent(i, k)) \in TerminalStates
<1>1. core[i].claim \in Owners
  BY Shapes DEF Core, Claims
<1>2. TerminalEventOf(core[i].claim) \in TerminalEvents
  BY <1>1 DEF TerminalEventOf, Owners, TerminalEvents
<1>3. FinalEvent(i, k) \in TerminalEvents
  BY <1>2 DEF FinalEvent, TerminalEvents
<1>4. \A t \in TerminalEvents : TargetOf(t) \in TerminalStates
  BY DEF TargetOf, TerminalEvents, TerminalStates
<1> QED
  BY <1>3, <1>4

\* The core takes its terminal state.
LEMMA CoreEnds ==
    ASSUME TypeOK, NEW i \in Invocations, NEW t \in TerminalStates,
           core' = [core EXCEPT ![i].state = t]
    PROVE  /\ core' \in [Invocations -> Core] /\ core'[i].state = t
           /\ \A j \in Invocations : /\ core'[j].claim = core[j].claim
                                     /\ core'[j].finErr = core[j].finErr
                                     /\ j # i => core'[j] = core[j]
<1>1. core[i] \in Core /\ core \in [Invocations -> Core] /\ t \in States
  BY Shapes DEF States
<1>2. PICK e \in Core : e = [core[i] EXCEPT !.state = t]
  BY <1>1 DEF Core
<1>3. e.state = t /\ e.claim = core[i].claim /\ e.finErr = core[i].finErr
  BY <1>1, <1>2 DEF Core
<1>4. core' = [core EXCEPT ![i] = e]
  BY <1>1, <1>2
<1> QED
  BY <1>1, <1>3, <1>4

\* A terminal event that is accepted, in effects.
Ends(i, k) ==
    /\ ~IsTerminal(core[i].state) /\ core[i].claim # "none"
    /\ core' \in [Invocations -> Core] /\ core'[i].state = TargetOf(FinalEvent(i, k))
    /\ TargetOf(FinalEvent(i, k)) \in TerminalStates
    /\ \A j \in Invocations : /\ core'[j].claim = core[j].claim
                              /\ core'[j].finErr = core[j].finErr
                              /\ j # i => core'[j] = core[j]
    /\ log' = [log EXCEPT ![i] = Append(@, [type |-> FinalEvent(i, k), child |-> NoParent])]
    /\ log' \in [Invocations -> Seq(LogEntry)]
    /\ Moved(i, k, "callback") /\ UNCHANGED <<intent, terminal, pending>>
    /\ err' \in [Invocations -> [Kinds -> BOOLEAN]]
    /\ \A j \in Invocations, l \in Kinds : j # i \/ l # k => err'[j][l] = err[j][l]
    /\ phase' \in [Invocations -> {"none", "running", "suspended", "finalizing", "closed"}]
    /\ UNCHANGED <<dispatch, registryVars, suspended>>

\* A terminal emit is refused or ends the invocation.
LEMMA EmitTerminalEffect ==
    ASSUME RegistryInv, NEW i \in Invocations, NEW k \in Kinds, EmitTerminal(i, k)
    PROVE  \/ /\ Finish(i, k, TRUE)
              /\ UNCHANGED <<dispatch, core, log, terminal, registryVars, suspended, phase,
                             pending>>
           \/ Ends(i, k)
<1>1. core[i].claim # "none" /\ pc[i][k] = "emit"
  BY DEF RegistryInv, ClaimedInv, Finalizing, EmitTerminal
<1>2. PICK t \in TerminalEvents : t = FinalEvent(i, k) /\ TargetOf(t) \in TerminalStates
  BY <1>1, FinalEvents DEF RegistryInv
<1>3. CASE /\ EmitAllowed(core[i], t, TargetOf(t), FALSE)
           /\ core' = [core EXCEPT ![i].state = TargetOf(t)]
           /\ log' = [log EXCEPT ![i] = Append(@, [type |-> t, child |-> NoParent])]
           /\ Goto(i, k, "callback")
           /\ \/ /\ phase' = IF i \in Persisted THEN [phase EXCEPT ![i] = "closed"]
                                                ELSE phase
                 /\ UNCHANGED err
              \/ /\ Marks(i, k, TRUE)
                 /\ UNCHANGED phase
           /\ UNCHANGED intent
  <2>1. ~IsTerminal(core[i].state)
    BY <1>3 DEF EmitAllowed
  <2>2. /\ core' \in [Invocations -> Core] /\ core'[i].state = TargetOf(t)
        /\ \A j \in Invocations : /\ core'[j].claim = core[j].claim
                                  /\ core'[j].finErr = core[j].finErr
                                  /\ j # i => core'[j] = core[j]
    BY <1>2, <1>3, CoreEnds DEF RegistryInv
  <2>3. log' \in [Invocations -> Seq(LogEntry)]
    <3>1. t \in EventTypes
      BY DEF EventTypes
    <3> QED
      BY <1>3, <3>1, AppendTyped DEF RegistryInv
  <2>4. Moved(i, k, "callback")
    <3>1. "callback" \in Stages
      BY DEF Stages
    <3> QED
      BY <1>3, <3>1, GotoEffect DEF RegistryInv
  <2>5. phase' \in [Invocations -> {"none", "running", "suspended", "finalizing", "closed"}]
    BY <1>3, Shapes DEF RegistryInv
  <2>6. /\ err' \in [Invocations -> [Kinds -> BOOLEAN]]
        /\ \A j \in Invocations, l \in Kinds : j # i \/ l # k => err'[j][l] = err[j][l]
    <3>1. CASE UNCHANGED err
      BY <3>1, Shapes DEF RegistryInv
    <3>2. CASE Marks(i, k, TRUE)
      <4>1. PICK b \in BOOLEAN : b = TRUE
        OBVIOUS
      <4> QED
        BY <3>2, <4>1, ErrEffect DEF RegistryInv
    <3> QED
      BY <1>3, <3>1, <3>2
  <2>7. UNCHANGED <<dispatch, terminal, registryVars, suspended, pending>>
    BY DEF EmitTerminal
  <2> QED
    BY <1>1, <1>2, <1>3, <2>1, <2>2, <2>3, <2>4, <2>5, <2>6, <2>7 DEF Ends
<1>4. CASE Finish(i, k, TRUE) /\ UNCHANGED <<core, log, phase>>
  BY <1>4 DEF EmitTerminal
<1> QED
  BY <1>2, <1>3, <1>4 DEF EmitTerminal, Marks

\* An invocation ends: its callback is due, its reservation not yet released.
LEMMA EmitTerminalPreserves ==
    ASSUME RegistryInv, NEW i \in Invocations, NEW k \in Kinds, EmitTerminal(i, k)
    PROVE  RegistryInv'
<1>1. pc[i][k] = "emit"
  BY DEF EmitTerminal
<1>2. CASE /\ Finish(i, k, TRUE)
           /\ UNCHANGED <<dispatch, core, log, terminal, registryVars, suspended, phase,
                          pending>>
  <2>1. PICK b \in BOOLEAN : b = TRUE
    OBVIOUS
  <2>2. CoresKept
    BY <1>2 DEF CoresKept
  <2> QED
    BY <1>1, <1>2, <2>1, <2>2, Shapes, FinishPreserves DEF RegistryInv
<1>3. CASE Ends(i, k)
  <2>1. TypeOK'
    BY <1>3, Shapes, MoveTyped DEF Ends, RegistryInv, Moved
  <2>2. /\ dispatch' = dispatch /\ active' = active /\ suspended' = suspended
        /\ children' = children /\ UNCHANGED <<activeCount, activeChildren, pending, intent>>
        /\ \A j \in Invocations : Registered(j)' <=> Registered(j)
    BY <1>3 DEF Ends, registryVars, Registered
  <2>3. CountInv'
    <3>1. Held' = Held
      BY <2>2 DEF Held
    <3> QED
      BY <2>2, <3>1, CountsKept DEF RegistryInv
  <2>4. /\ pc'[i][k] = "callback"
        /\ \A j \in Invocations, l \in Kinds : j # i \/ l # k => pc'[j][l] = pc[j][l]
    BY <1>3 DEF Ends, Moved
  <2>5. Registered(i) /\ ~IsTerminal(core[i].state) /\ IsTerminal(core'[i].state)
        /\ \A j \in Invocations : /\ j # i => core'[j].state = core[j].state
                                  /\ core'[j].claim = core[j].claim
    BY <1>1, <1>3 DEF Ends, RegistryInv, PlaceInv, IsTerminal
  <2>6. PlaceInv'
    <3>1. {"ability", "deadline", "dispatcher"} \subseteq Kinds
      BY DEF Kinds
    <3>2. ASSUME NEW j \in Invocations
          PROVE  /\ ~Registered(j)' => /\ \A l \in Kinds : pc'[j][l] = "none"
                                       /\ ~IsTerminal(core'[j].state) /\ ~active'[j]
                                       /\ ~suspended'[j]
                 /\ dispatch'[j] # "returned" =>
                       pc'[j]["ability"] = "none" /\ pc'[j]["deadline"] = "none"
                 /\ dispatch'[j] # "unstarted" => pc'[j]["dispatcher"] = "none"
      BY <1>1, <2>2, <2>4, <2>5, <3>1 DEF RegistryInv, PlaceInv
    <3>3. ASSUME NEW j \in Invocations
          PROVE  /\ \A c \in children'[j] : Registered(c)'
                 /\ \A l \in Kinds : pending'[j][l] \subseteq children'[j]
                 /\ Registered(j)' /\ HasParent(j) => j \in children'[Parent[j]]
      <4>1. children[j] \subseteq Invocations
        BY DEF RegistryInv, TypeOK
      <4> QED
        BY <2>2, <4>1 DEF RegistryInv, PlaceInv
    <3> QED
      BY <3>2, <3>3 DEF PlaceInv, HasParent
  <2>7. EndInv'
    <3>1. \A l \in Kinds : pc[i][l] \notin Behind
      BY <2>5 DEF RegistryInv, EndInv
    <3>2. ASSUME NEW j \in Invocations, j # i
          PROVE  /\ \A l \in Kinds : pc'[j][l] \in Behind => IsTerminal(core'[j].state)
                 /\ \A l, m \in Kinds :
                       pc'[j][l] = "callback" /\ pc'[j][m] = "callback" => l = m
                 /\ IsTerminal(core'[j].state) =>
                       \E l \in Kinds : pc'[j][l] \in Behind \cup {"done"}
                 /\ CallbackDue(j)' <=> CallbackDue(j)
      BY <2>4, <2>5, <3>2 DEF RegistryInv, EndInv, CallbackDue
    <3>3. /\ \A l \in Kinds : pc'[i][l] \in Behind => IsTerminal(core'[i].state)
          /\ \A l, m \in Kinds :
                pc'[i][l] = "callback" /\ pc'[i][m] = "callback" => l = m
          /\ IsTerminal(core'[i].state) =>
                \E l \in Kinds : pc'[i][l] \in Behind \cup {"done"}
          /\ CallbackDue(i)'
      BY <2>4, <2>5, <3>1 DEF CallbackDue, Behind
    <3>4. ASSUME NEW j \in Invocations
          PROVE  /\ Registered(j)' /\ ~suspended'[j] =>
                      (active'[j] <=> ~IsTerminal(core'[j].state) \/ CallbackDue(j)')
                 /\ suspended'[j] => ~active'[j]
      BY <2>2, <2>5, <3>2, <3>3 DEF RegistryInv, EndInv
    <3> QED
      BY <3>2, <3>3, <3>4 DEF EndInv
  <2>8. ClaimedInv'
    <3>1. "winner" \in Kinds
      BY DEF Kinds
    <3>2. \A j \in Invocations, l \in Kinds :
             pc'[j][l] \in Finalizing \cup {"start"} => pc'[j][l] = pc[j][l]
      BY <2>4 DEF Finalizing
    <3> QED
      BY <2>2, <2>5, <3>1, <3>2 DEF RegistryInv, ClaimedInv
  <2> QED
    BY <2>1, <2>3, <2>6, <2>7, <2>8 DEF RegistryInv
<1> QED
  BY <1>2, <1>3, EmitTerminalEffect

\* The callback releases the reservation.
LEMMA OnTerminalPreserves ==
    ASSUME RegistryInv, NEW i \in Invocations, NEW k \in Kinds, OnTerminal(i, k)
    PROVE  RegistryInv'
<1>1. /\ UNCHANGED <<dispatch, core, log, terminal, children, deadline, suspended, phase,
                     intent, pending, err>>
      /\ pc[i][k] = "callback"
  BY DEF OnTerminal
<1>2. "evidence" \in Stages
  BY DEF Stages
<1>3. Moved(i, k, "evidence")
  BY <1>2, GotoEffect DEF OnTerminal, RegistryInv
<1>4. /\ pc'[i][k] = "evidence"
      /\ \A j \in Invocations, l \in Kinds : j # i \/ l # k => pc'[j][l] = pc[j][l]
  BY <1>3 DEF Moved
<1>5. /\ Registered(i) /\ IsTerminal(core[i].state)
      /\ \A l \in Kinds : l # k => pc[i][l] # "callback"
  BY <1>1 DEF RegistryInv, PlaceInv, EndInv, Behind
<1>6. active \in [Invocations -> BOOLEAN]
  BY DEF RegistryInv, TypeOK
<1>7. /\ active' \in [Invocations -> BOOLEAN] /\ ~active'[i]
      /\ \A j \in Invocations : j # i => active'[j] = active[j]
  BY <1>6 DEF OnTerminal
<1>8. /\ CountInv' /\ activeCount' \in 0 .. PendingCapacity
      /\ activeChildren' \in [Invocations -> 0 .. PendingCapacity]
  <2>1. Held' = Held \ {i}
    BY <1>1, <1>5, <1>7 DEF Held, Registered
  <2>2. CASE active[i]
    <3>1. i \in Held /\ ReleaseReservation(i)
      BY <2>2 DEF Held, OnTerminal
    <3> QED
      BY <2>1, <3>1, ReleaseEffect DEF RegistryInv
  <2>3. CASE ~active[i]
    <3>1. i \notin Held
      BY <1>5, <2>3 DEF Held, Registered
    <3>2. Held' = Held /\ UNCHANGED <<activeCount, activeChildren>>
      BY <2>1, <2>3, <3>1 DEF OnTerminal
    <3> QED
      BY <3>2, CountsKept, CountsTyped DEF RegistryInv
  <2> QED
    BY <2>2, <2>3
<1>9. TypeOK'
  BY <1>1, <1>3, <1>7, <1>8 DEF RegistryInv, TypeOK, Moved
<1>10. \A j \in Invocations : Registered(j)' <=> Registered(j)
  BY <1>1 DEF Registered
<1>11. PlaceInv'
  <2>1. {"ability", "deadline", "dispatcher"} \subseteq Kinds
    BY DEF Kinds
  <2>2. ASSUME NEW j \in Invocations
        PROVE  /\ ~Registered(j)' => /\ \A l \in Kinds : pc'[j][l] = "none"
                                     /\ ~IsTerminal(core'[j].state) /\ ~active'[j]
                                     /\ ~suspended'[j]
               /\ dispatch'[j] # "returned" =>
                     pc'[j]["ability"] = "none" /\ pc'[j]["deadline"] = "none"
               /\ dispatch'[j] # "unstarted" => pc'[j]["dispatcher"] = "none"
    BY <1>1, <1>4, <1>5, <1>7, <1>10, <2>1 DEF RegistryInv, PlaceInv
  <2>3. ASSUME NEW j \in Invocations
        PROVE  /\ \A c \in children'[j] : Registered(c)'
               /\ \A l \in Kinds : pending'[j][l] \subseteq children'[j]
               /\ Registered(j)' /\ HasParent(j) => j \in children'[Parent[j]]
    <3>1. children[j] \subseteq Invocations
      BY DEF RegistryInv, TypeOK
    <3> QED
      BY <1>1, <1>10, <3>1 DEF RegistryInv, PlaceInv
  <2> QED
    BY <2>2, <2>3 DEF PlaceInv, HasParent
<1>12. EndInv'
  <2>1. ASSUME NEW j \in Invocations, j # i
        PROVE  /\ \A l \in Kinds : pc'[j][l] = pc[j][l]
               /\ CallbackDue(j)' <=> CallbackDue(j)
    BY <1>4, <2>1 DEF CallbackDue
  <2>2. ~CallbackDue(i)'
    BY <1>4, <1>5 DEF CallbackDue
  <2>3. ASSUME NEW j \in Invocations
        PROVE  /\ \A l \in Kinds : pc'[j][l] \in Behind => IsTerminal(core'[j].state)
               /\ \A l, m \in Kinds :
                     pc'[j][l] = "callback" /\ pc'[j][m] = "callback" => l = m
               /\ IsTerminal(core'[j].state) =>
                     \E l \in Kinds : pc'[j][l] \in Behind \cup {"done"}
    BY <1>1, <1>4, <1>5, <2>1 DEF RegistryInv, EndInv, Behind
  <2>4. ASSUME NEW j \in Invocations
        PROVE  /\ Registered(j)' /\ ~suspended'[j] =>
                    (active'[j] <=> ~IsTerminal(core'[j].state) \/ CallbackDue(j)')
               /\ suspended'[j] => ~active'[j]
    BY <1>1, <1>5, <1>7, <1>10, <2>1, <2>2 DEF RegistryInv, EndInv
  <2> QED
    BY <2>3, <2>4 DEF EndInv
<1>13. ClaimedInv'
  <2>1. "winner" \in Kinds
    BY DEF Kinds
  <2>2. \A j \in Invocations, l \in Kinds :
           pc'[j][l] \in Finalizing \cup {"start"} => pc'[j][l] = pc[j][l]
    BY <1>4 DEF Finalizing
  <2> QED
    BY <1>1, <2>1, <2>2 DEF RegistryInv, ClaimedInv
<1> QED
  BY <1>8, <1>9, <1>11, <1>12, <1>13 DEF RegistryInv

-------------------------------------------------------------------------------
\* Dispatch.

DispatchStages == {"idle", "reserved", "started", "registered", "unstarted", "returned",
                   "refused"}

\* Before an invocation is registered nobody else sees it.
LEMMA UnseenPreserves ==
    ASSUME RegistryInv, NEW i \in Invocations,
           NEW d \in {"reserved", "started", "refused"},
           dispatch[i] \in {"idle", "reserved"}, dispatch' = [dispatch EXCEPT ![i] = d],
           TypeOK', CountInv', UNCHANGED <<pc, pending, children, active, suspended, intent>>,
           \A j \in Invocations : /\ IsTerminal(core'[j].state) <=> IsTerminal(core[j].state)
                                  /\ core'[j].claim = core[j].claim
    PROVE  RegistryInv'
<1>1. dispatch \in [Invocations -> DispatchStages]
  BY DEF RegistryInv, TypeOK, DispatchStages
<1>2. /\ \A j \in Invocations : Registered(j)' <=> Registered(j)
      /\ \A j \in Invocations : j # i => dispatch'[j] = dispatch[j]
  BY <1>1 DEF Registered
<1>3. PlaceInv'
  <2>1. ASSUME NEW j \in Invocations
        PROVE  /\ ~Registered(j)' => /\ \A l \in Kinds : pc'[j][l] = "none"
                                     /\ ~IsTerminal(core'[j].state) /\ ~active'[j]
                                     /\ ~suspended'[j]
               /\ dispatch'[j] # "returned" =>
                     pc'[j]["ability"] = "none" /\ pc'[j]["deadline"] = "none"
               /\ dispatch'[j] # "unstarted" => pc'[j]["dispatcher"] = "none"
    BY <1>2 DEF RegistryInv, PlaceInv
  <2>2. ASSUME NEW j \in Invocations
        PROVE  /\ \A c \in children'[j] : Registered(c)'
               /\ \A l \in Kinds : pending'[j][l] \subseteq children'[j]
               /\ Registered(j)' /\ HasParent(j) => j \in children'[Parent[j]]
    <3>1. children[j] \subseteq Invocations
      BY DEF RegistryInv, TypeOK
    <3> QED
      BY <1>2, <3>1 DEF RegistryInv, PlaceInv
  <2> QED
    BY <2>1, <2>2 DEF PlaceInv, HasParent
<1>4. EndInv'
  BY <1>2 DEF RegistryInv, EndInv, CallbackDue
<1>5. ClaimedInv'
  BY DEF RegistryInv, ClaimedInv
<1> QED
  BY <1>3, <1>4, <1>5 DEF RegistryInv

\* reserveInvocation.
LEMMA ReservePreserves ==
    ASSUME RegistryInv, NEW i \in Invocations, Reserve(i)
    PROVE  RegistryInv'
<1>1. /\ UNCHANGED <<core, log, terminal, active, children, suspended, phase, intent, pc,
                     pending, err>>
      /\ dispatch[i] = "idle" /\ dispatch' = [dispatch EXCEPT ![i] = "reserved"]
  BY DEF Reserve
<1>2. /\ CountInv' /\ activeCount' \in 0 .. PendingCapacity
      /\ activeChildren' \in [Invocations -> 0 .. PendingCapacity]
  BY ReserveCounts
<1>3. deadline' \in [Invocations -> BOOLEAN]
  <2>1. deadline \in [Invocations -> BOOLEAN]
    BY DEF RegistryInv, TypeOK
  <2>2. PICK b \in BOOLEAN : b = (i \in WallLimited \/ (HasParent(i) /\ deadline[Parent[i]]))
    BY Zenon
  <2>3. deadline' = [deadline EXCEPT ![i] = b]
    BY <2>2 DEF Reserve
  <2> QED
    BY <2>1, <2>3
<1>4. TypeOK'
  BY <1>1, <1>2, <1>3 DEF RegistryInv, TypeOK
<1> QED
  BY <1>1, <1>2, <1>4, UnseenPreserves

\* A core starts to run.
LEMMA StartCoreEffect ==
    ASSUME RegistryInv, NEW i \in Invocations, StartCore(i)
    PROVE  /\ core' \in [Invocations -> Core] /\ core'[i].state = "RUNNING"
           /\ \A j \in Invocations : /\ core'[j].claim = core[j].claim
                                     /\ core'[j].finErr = core[j].finErr
                                     /\ j # i => core'[j] = core[j]
<1>1. core[i] \in Core /\ core \in [Invocations -> Core] /\ "RUNNING" \in States
  BY Shapes DEF States, RegistryInv
<1>2. PICK e \in Core : e = [core[i] EXCEPT !.state = "RUNNING"]
  BY <1>1 DEF Core
<1>3. e.state = "RUNNING" /\ e.claim = core[i].claim /\ e.finErr = core[i].finErr
  BY <1>1, <1>2 DEF Core
<1>4. core' = [core EXCEPT ![i] = e]
  BY <1>1, <1>2 DEF StartCore
<1> HIDE DEF Core
<1>5. core'[i] = e /\ \A j \in Invocations : j # i => core'[j] = core[j]
  BY <1>1, <1>4
<1> QED
  BY <1>1, <1>3, <1>4, <1>5, Zenon

\* A core starts to run before anybody can reach it.
LEMMA StartCorePreserves ==
    ASSUME RegistryInv, NEW i \in Invocations, StartCore(i)
    PROVE  RegistryInv'
<1>1. /\ UNCHANGED <<log, terminal, registryVars, suspended, intent, pc, pending, err>>
      /\ dispatch[i] = "reserved" /\ dispatch' = [dispatch EXCEPT ![i] = "started"]
  BY DEF StartCore
<1>2. /\ core' \in [Invocations -> Core]
      /\ \A j \in Invocations : /\ core'[j].claim = core[j].claim
                                /\ j # i => core'[j] = core[j]
      /\ core'[i].state = "RUNNING"
  BY StartCoreEffect
<1>3. \A j \in Invocations : IsTerminal(core'[j].state) <=> IsTerminal(core[j].state)
  <2>1. ~IsTerminal(core[i].state) /\ ~IsTerminal("RUNNING")
    BY <1>1 DEF RegistryInv, PlaceInv, Registered, IsTerminal, TerminalStates
  <2> QED
    BY <1>2, <2>1
<1>4. phase' \in [Invocations -> {"none", "running", "suspended", "finalizing", "closed"}]
  BY Shapes DEF StartCore, RegistryInv
<1>5. UNCHANGED <<active, activeCount, activeChildren, children, deadline>>
  BY <1>1 DEF registryVars
<1>6. TypeOK'
  BY <1>1, <1>2, <1>4, <1>5 DEF RegistryInv, TypeOK
<1>7. CountInv'
  <2>1. dispatch \in [Invocations -> DispatchStages]
    BY DEF RegistryInv, TypeOK, DispatchStages
  <2>2. Held' = Held
    BY <1>1, <1>5, <2>1 DEF Held
  <2> QED
    BY <1>5, <2>2, CountsKept DEF RegistryInv
<1> QED
  BY <1>1, <1>2, <1>3, <1>5, <1>6, <1>7, UnseenPreserves

\* A dispatch fails behind its reservation.
LEMMA AbandonPreserves ==
    ASSUME RegistryInv, NEW i \in Invocations, AbandonReservation(i)
    PROVE  RegistryInv'
<1>1. /\ UNCHANGED <<core, log, terminal, active, children, deadline, suspended, intent, pc,
                     pending, err>>
      /\ dispatch[i] = "reserved" /\ dispatch' = [dispatch EXCEPT ![i] = "refused"]
      /\ ReleaseReservation(i)
  BY DEF AbandonReservation
<1>2. phase' \in [Invocations -> {"none", "running", "suspended", "finalizing", "closed"}]
  BY Shapes DEF AbandonReservation, RegistryInv
<1>3. i \in Held /\ Held' = Held \ {i}
  <2>1. dispatch \in [Invocations -> DispatchStages]
    BY DEF RegistryInv, TypeOK, DispatchStages
  <2>2. ~active[i]
    BY <1>1 DEF RegistryInv, PlaceInv, Registered
  <2> QED
    BY <1>1, <2>1, <2>2 DEF Held
<1>4. /\ CountInv' /\ activeCount' \in 0 .. PendingCapacity
      /\ activeChildren' \in [Invocations -> 0 .. PendingCapacity]
  BY <1>1, <1>3, ReleaseEffect DEF RegistryInv
<1>5. TypeOK'
  BY <1>1, <1>2, <1>4 DEF RegistryInv, TypeOK
<1> QED
  BY <1>1, <1>4, <1>5, UnseenPreserves

\* An invocation is registered, and known to its parent.
LEMMA RegisterPreserves ==
    ASSUME RegistryInv, NEW i \in Invocations, Register(i)
    PROVE  RegistryInv'
<1>1. /\ UNCHANGED <<core, log, terminal, activeCount, activeChildren, deadline, suspended,
                     phase, intent, pc, pending, err>>
      /\ dispatch[i] = "started" /\ dispatch' = [dispatch EXCEPT ![i] = "registered"]
  BY DEF Register
<1>2. dispatch \in [Invocations -> DispatchStages] /\ active \in [Invocations -> BOOLEAN]
      /\ children \in [Invocations -> SUBSET Invocations]
  BY DEF RegistryInv, TypeOK, DispatchStages
<1>3. /\ active' \in [Invocations -> BOOLEAN] /\ active'[i]
      /\ \A j \in Invocations : j # i => active'[j] = active[j]
  BY <1>2 DEF Register
<1>4. /\ children' \in [Invocations -> SUBSET Invocations]
      /\ \A p \in Invocations : children'[p] = IF p = Parent[i] THEN children[p] \cup {i}
                                                               ELSE children[p]
  BY <1>2 DEF Register
<1>5. TypeOK'
  BY <1>1, <1>3, <1>4 DEF RegistryInv, TypeOK
<1>6. /\ ~Registered(i) /\ Registered(i)'
      /\ \A j \in Invocations : j # i => dispatch'[j] = dispatch[j]
                                        /\ (Registered(j)' <=> Registered(j))
  BY <1>1, <1>2 DEF Registered
<1>7. /\ \A k \in Kinds : pc[i][k] = "none"
      /\ ~IsTerminal(core[i].state) /\ ~active[i] /\ ~suspended[i]
  BY <1>6 DEF RegistryInv, PlaceInv
<1>8. CountInv'
  <2>1. Held' = Held
    BY <1>1, <1>2, <1>3 DEF Held
  <2> QED
    BY <1>1, <2>1, CountsKept DEF RegistryInv
<1>9. PlaceInv'
  <2>1. {"ability", "deadline", "dispatcher"} \subseteq Kinds
    BY DEF Kinds
  <2>2. ASSUME NEW j \in Invocations
        PROVE  /\ ~Registered(j)' => /\ \A l \in Kinds : pc'[j][l] = "none"
                                     /\ ~IsTerminal(core'[j].state) /\ ~active'[j]
                                     /\ ~suspended'[j]
               /\ dispatch'[j] # "returned" =>
                     pc'[j]["ability"] = "none" /\ pc'[j]["deadline"] = "none"
               /\ dispatch'[j] # "unstarted" => pc'[j]["dispatcher"] = "none"
    BY <1>1, <1>3, <1>6, <1>7, <2>1 DEF RegistryInv, PlaceInv
  <2>3. ASSUME NEW j \in Invocations
        PROVE  /\ \A c \in children'[j] : Registered(c)'
               /\ \A l \in Kinds : pending'[j][l] \subseteq children'[j]
               /\ Registered(j)' /\ HasParent(j) => j \in children'[Parent[j]]
    <3>1. children[j] \subseteq Invocations
      BY DEF RegistryInv, TypeOK
    <3>2. \A c \in children'[j] : Registered(c)'
      BY <1>4, <1>6, <3>1 DEF RegistryInv, PlaceInv
    <3>3. \A l \in Kinds : pending'[j][l] \subseteq children'[j]
      BY <1>1, <1>4 DEF RegistryInv, PlaceInv
    <3>4. Registered(j)' /\ HasParent(j) => j \in children'[Parent[j]]
      <4>1. HasParent(j) => Parent[j] \in Invocations
        BY RuntimeAssumption DEF HasParent
      <4> QED
        BY <1>4, <1>6, <4>1 DEF RegistryInv, PlaceInv
    <3> QED
      BY <3>2, <3>3, <3>4
  <2> QED
    BY <2>2, <2>3 DEF PlaceInv, HasParent
<1>10. EndInv'
  BY <1>1, <1>3, <1>6, <1>7 DEF RegistryInv, EndInv, CallbackDue
<1>11. ClaimedInv'
  BY <1>1 DEF RegistryInv, ClaimedInv
<1> QED
  BY <1>5, <1>8, <1>9, <1>10, <1>11 DEF RegistryInv

\* The goroutines that start with the end of a dispatch.
Started(i, d) ==
    /\ pc' \in [Invocations -> [Kinds -> Stages]]
    /\ \A j \in Invocations, l \in Kinds : pc'[j][l] # pc[j][l] =>
          /\ j = i /\ pc'[j][l] = "start"
          /\ l \in IF d = "returned" THEN {"ability", "deadline"} ELSE {"dispatcher"}

\* Goroutines start on an invocation that had none of them.
LEMMA StartsPreserve ==
    ASSUME RegistryInv, NEW i \in Invocations, NEW d \in {"returned", "unstarted"},
           dispatch[i] = "registered", dispatch' = [dispatch EXCEPT ![i] = d],
           log' \in [Invocations -> Seq(LogEntry)],
           Started(i, d),
           UNCHANGED <<core, terminal, registryVars, suspended, phase, intent, pending, err>>
    PROVE  RegistryInv'
<1> USE DEF Started
<1>1. dispatch \in [Invocations -> DispatchStages]
  BY DEF RegistryInv, TypeOK, DispatchStages
<1>2. UNCHANGED <<active, activeCount, activeChildren, children, deadline>>
  BY DEF registryVars
<1>3. TypeOK'
  BY <1>2 DEF RegistryInv, TypeOK
<1>4. /\ dispatch'[i] = d /\ Registered(i)
      /\ \A j \in Invocations : Registered(j)' <=> Registered(j)
      /\ \A j \in Invocations : j # i => dispatch'[j] = dispatch[j]
  BY <1>1 DEF Registered
<1>5. CountInv'
  <2>1. Held' = Held
    BY <1>1, <1>2 DEF Held
  <2> QED
    BY <1>2, <2>1, CountsKept DEF RegistryInv
<1>6. {"ability", "deadline", "dispatcher", "winner"} \subseteq Kinds
  BY DEF Kinds
<1>7. \A l \in {"ability", "deadline", "dispatcher"} : pc[i][l] = "none"
  BY DEF RegistryInv, PlaceInv
<1>8. \A j \in Invocations, l \in Kinds :
         pc'[j][l] # pc[j][l] => pc[j][l] = "none" /\ pc'[j][l] = "start" /\ l # "winner"
  BY <1>7, ZenonT(60)
<1>9. PlaceInv'
  <2>1. ASSUME NEW j \in Invocations
        PROVE  /\ ~Registered(j)' => /\ \A l \in Kinds : pc'[j][l] = "none"
                                     /\ ~IsTerminal(core'[j].state) /\ ~active'[j]
                                     /\ ~suspended'[j]
               /\ dispatch'[j] # "returned" =>
                     pc'[j]["ability"] = "none" /\ pc'[j]["deadline"] = "none"
               /\ dispatch'[j] # "unstarted" => pc'[j]["dispatcher"] = "none"
    <3>1. CASE j # i
      BY <1>2, <1>4, <1>6, <3>1 DEF RegistryInv, PlaceInv
    <3>2. CASE j = i
      BY <1>4, <1>6, <1>7, <3>2
    <3> QED
      BY <3>1, <3>2
  <2>2. ASSUME NEW j \in Invocations
        PROVE  /\ \A c \in children'[j] : Registered(c)'
               /\ \A l \in Kinds : pending'[j][l] \subseteq children'[j]
               /\ Registered(j)' /\ HasParent(j) => j \in children'[Parent[j]]
    <3>1. children[j] \subseteq Invocations
      BY DEF RegistryInv, TypeOK
    <3> QED
      BY <1>2, <1>4, <3>1 DEF RegistryInv, PlaceInv
  <2> QED
    BY <2>1, <2>2 DEF PlaceInv, HasParent
<1>10. EndInv'
  <2>1. \A j \in Invocations, l \in Kinds :
           /\ pc'[j][l] \in Behind \cup {"done"} <=> pc[j][l] \in Behind \cup {"done"}
           /\ pc'[j][l] \in Behind <=> pc[j][l] \in Behind
           /\ pc'[j][l] = "callback" <=> pc[j][l] = "callback"
    BY <1>8 DEF Behind
  <2>2. \A j \in Invocations : CallbackDue(j)' <=> CallbackDue(j)
    BY <2>1 DEF CallbackDue
  <2>3. ASSUME NEW j \in Invocations
        PROVE  /\ \A l \in Kinds : pc'[j][l] \in Behind => IsTerminal(core'[j].state)
               /\ \A l, m \in Kinds :
                     pc'[j][l] = "callback" /\ pc'[j][m] = "callback" => l = m
               /\ IsTerminal(core'[j].state) =>
                     \E l \in Kinds : pc'[j][l] \in Behind \cup {"done"}
    BY <2>1 DEF RegistryInv, EndInv
  <2>4. ASSUME NEW j \in Invocations
        PROVE  /\ Registered(j)' /\ ~suspended'[j] =>
                    (active'[j] <=> ~IsTerminal(core'[j].state) \/ CallbackDue(j)')
               /\ suspended'[j] => ~active'[j]
    BY <1>2, <1>4, <2>2 DEF RegistryInv, EndInv
  <2> QED
    BY <2>3, <2>4 DEF EndInv
<1>11. ClaimedInv'
  <2>1. \A j \in Invocations, l \in Kinds :
           pc'[j][l] \in Finalizing => pc[j][l] \in Finalizing
    BY <1>8 DEF Finalizing
  <2>2. \A j \in Invocations : pc'[j]["winner"] = pc[j]["winner"]
    BY <1>6, <1>8
  <2> QED
    BY <2>1, <2>2 DEF RegistryInv, ClaimedInv
<1> QED
  BY <1>3, <1>5, <1>9, <1>10, <1>11 DEF RegistryInv

\* The spawn is in the parent's log, or the log is what it was.
LEMMA SpawnLogged ==
    ASSUME RegistryInv, NEW i \in Invocations,
           \/ UNCHANGED log
           \/ HasParent(i) /\ log' = [log EXCEPT ![Parent[i]] = Append(@, SpawnEvent(i))]
    PROVE  log' \in [Invocations -> Seq(LogEntry)]
<1>1. CASE UNCHANGED log
  BY <1>1, Shapes DEF RegistryInv
<1>2. CASE HasParent(i) /\ log' = [log EXCEPT ![Parent[i]] = Append(@, SpawnEvent(i))]
  <2>1. Parent[i] \in Invocations /\ "child_spawned" \in EventTypes
    BY <1>2, RuntimeAssumption DEF HasParent, EventTypes, RunningEvents
  <2> QED
    BY <1>2, <2>1, AppendTyped DEF RegistryInv, SpawnEvent
<1> QED
  BY <1>1, <1>2

\* The goroutines a committed spawn starts ...
LEMMA CommitSpawnStarts ==
    ASSUME RegistryInv, NEW i \in Invocations, CommitSpawn(i)
    PROVE  Started(i, "returned")
<1>1. PICK s \in {"start", "none"} : s = IF deadline[i] THEN "start" ELSE "none"
  OBVIOUS
<1>2. PICK P \in [Invocations -> [Kinds -> Stages]] : P = pc
  BY Shapes DEF RegistryInv
<1>3. PICK q \in [Kinds -> Stages] : q = [P[i] EXCEPT !["ability"] = "start", !["deadline"] = s]
  <2>1. P[i] \in [Kinds -> Stages] /\ {"start", "none"} \subseteq Stages
    BY <1>2 DEF Stages
  <2> QED
    BY <2>1
<1>4. pc' = [P EXCEPT ![i] = q]
  BY <1>1, <1>2, <1>3 DEF CommitSpawn
<1>5. P[i]["ability"] = "none" /\ P[i]["deadline"] = "none"
  BY <1>2 DEF CommitSpawn, RegistryInv, PlaceInv
<1>6. \A l \in Kinds : q[l] # P[i][l] => q[l] = "start" /\ l \in {"ability", "deadline"}
  BY <1>1, <1>2, <1>3, <1>5
<1>7. pc' \in [Invocations -> [Kinds -> Stages]]
      /\ \A j \in Invocations, l \in Kinds : pc'[j][l] # pc[j][l] =>
            j = i /\ pc'[j][l] = "start" /\ l \in {"ability", "deadline"}
  <2> HIDE DEF Kinds, Stages
  <2> QED
    BY <1>2, <1>4, <1>6
<1> QED
  BY <1>7 DEF Started

\* ... and a refused one.
LEMMA RefuseSpawnStarts ==
    ASSUME RegistryInv, NEW i \in Invocations, RefuseSpawn(i)
    PROVE  Started(i, "unstarted")
<1>1. "dispatcher" \in Kinds /\ "start" \in Stages
  BY DEF Kinds, Stages
<1>2. Moved(i, "dispatcher", "start")
  BY <1>1, GotoEffect DEF RefuseSpawn, RegistryInv
<1>3. pc' \in [Invocations -> [Kinds -> Stages]]
      /\ \A j \in Invocations, l \in Kinds : pc'[j][l] # pc[j][l] =>
            j = i /\ pc'[j][l] = "start" /\ l \in {"dispatcher"}
  BY <1>2 DEF Moved
<1> QED
  BY <1>3 DEF Started

\* A spawn is committed or refused.
LEMMA SpawnPreserves ==
    ASSUME RegistryInv, NEW i \in Invocations, CommitSpawn(i) \/ RefuseSpawn(i)
    PROVE  RegistryInv'
<1>1. log' \in [Invocations -> Seq(LogEntry)]
  BY SpawnLogged DEF CommitSpawn, RefuseSpawn
<1>2. CASE CommitSpawn(i)
  BY <1>1, <1>2, CommitSpawnStarts, StartsPreserve DEF CommitSpawn
<1>3. CASE RefuseSpawn(i)
  BY <1>1, <1>3, RefuseSpawnStarts, StartsPreserve DEF RefuseSpawn
<1> QED
  BY <1>2, <1>3

\* A suspension releases the reservation.
LEMMA SuspendPreserves ==
    ASSUME RegistryInv, NEW i \in Invocations, Suspend(i)
    PROVE  RegistryInv'
<1>1. /\ UNCHANGED <<dispatch, core, log, terminal, children, deadline, intent, pc, pending,
                     err>>
      /\ Registered(i) /\ active[i] /\ ReleaseReservation(i)
  BY DEF Suspend
<1>2. phase' \in [Invocations -> {"none", "running", "suspended", "finalizing", "closed"}]
  BY Shapes DEF Suspend, RegistryInv
<1>3. /\ active' \in [Invocations -> BOOLEAN] /\ ~active'[i]
      /\ \A j \in Invocations : j # i => active'[j] = active[j]
  <2>1. active \in [Invocations -> BOOLEAN]
    BY DEF RegistryInv, TypeOK
  <2> QED
    BY <2>1 DEF Suspend
<1>4. /\ suspended' \in [Invocations -> BOOLEAN] /\ suspended'[i]
      /\ \A j \in Invocations : j # i => suspended'[j] = suspended[j]
  <2>1. suspended \in [Invocations -> BOOLEAN]
    BY DEF RegistryInv, TypeOK
  <2> QED
    BY <2>1 DEF Suspend
<1>5. i \in Held /\ Held' = Held \ {i}
  BY <1>1, <1>3 DEF Held, Registered
<1>6. /\ CountInv' /\ activeCount' \in 0 .. PendingCapacity
      /\ activeChildren' \in [Invocations -> 0 .. PendingCapacity]
  BY <1>1, <1>5, ReleaseEffect DEF RegistryInv
<1>7. TypeOK'
  BY <1>1, <1>2, <1>3, <1>4, <1>6 DEF RegistryInv, TypeOK
<1>8. \A j \in Invocations : /\ Registered(j)' <=> Registered(j)
                             /\ CallbackDue(j)' <=> CallbackDue(j)
  BY <1>1 DEF Registered, CallbackDue
<1>9. PlaceInv'
  <2>1. ASSUME NEW j \in Invocations
        PROVE  /\ ~Registered(j)' => /\ \A l \in Kinds : pc'[j][l] = "none"
                                     /\ ~IsTerminal(core'[j].state) /\ ~active'[j]
                                     /\ ~suspended'[j]
               /\ dispatch'[j] # "returned" =>
                     pc'[j]["ability"] = "none" /\ pc'[j]["deadline"] = "none"
               /\ dispatch'[j] # "unstarted" => pc'[j]["dispatcher"] = "none"
    BY <1>1, <1>3, <1>4, <1>8 DEF RegistryInv, PlaceInv
  <2>2. ASSUME NEW j \in Invocations
        PROVE  /\ \A c \in children'[j] : Registered(c)'
               /\ \A l \in Kinds : pending'[j][l] \subseteq children'[j]
               /\ Registered(j)' /\ HasParent(j) => j \in children'[Parent[j]]
    <3>1. children[j] \subseteq Invocations
      BY DEF RegistryInv, TypeOK
    <3> QED
      BY <1>1, <1>8, <3>1 DEF RegistryInv, PlaceInv
  <2> QED
    BY <2>1, <2>2 DEF PlaceInv, HasParent
<1>10. EndInv'
  BY <1>1, <1>3, <1>4, <1>8 DEF RegistryInv, EndInv
<1>11. ClaimedInv'
  BY <1>1 DEF RegistryInv, ClaimedInv
<1> QED
  BY <1>6, <1>7, <1>9, <1>10, <1>11 DEF RegistryInv

-------------------------------------------------------------------------------
LEMMA RegistryInit ==
    ASSUME Init
    PROVE  RegistryInv
<1>1. /\ \A i \in Invocations : /\ dispatch[i] = "idle" /\ core[i] = NewCore
                                /\ ~active[i] /\ ~suspended[i] /\ children[i] = {}
                                /\ activeChildren[i] = 0
      /\ \A i \in Invocations, k \in Kinds : pc[i][k] = "none" /\ pending[i][k] = {}
      /\ activeCount = 0
  BY DEF Init, ForEach
<1>2. NewCore \in Core /\ ~IsTerminal(NewCore.state)
  <2>1. FALSE \in BOOLEAN /\ "UNSPECIFIED" \in States /\ "none" \in Claims
    BY DEF States, Claims
  <2> QED
    BY <2>1 DEF NewCore, Core, IsTerminal, TerminalStates
<1>3. TypeOK
  <2>1. /\ core \in [Invocations -> Core] /\ log \in [Invocations -> Seq(LogEntry)]
        /\ dispatch \in [Invocations -> {"idle", "reserved", "started", "registered",
                                          "unstarted", "returned", "refused"}]
    BY <1>2 DEF Init, ForEach
  <2>2. /\ terminal \in [Invocations -> BOOLEAN] /\ active \in [Invocations -> BOOLEAN]
        /\ deadline \in [Invocations -> BOOLEAN] /\ suspended \in [Invocations -> BOOLEAN]
    BY DEF Init, ForEach
  <2>3. /\ activeCount \in 0 .. PendingCapacity
        /\ activeChildren \in [Invocations -> 0 .. PendingCapacity]
    BY RuntimeAssumption DEF Init, ForEach
  <2>4. /\ children \in [Invocations -> SUBSET Invocations]
        /\ phase \in [Invocations -> {"none", "running", "suspended", "finalizing",
                                       "closed"}]
    BY DEF Init, ForEach
  <2>5. intent \in [Invocations -> Intent]
    <3>1. PICK b \in BOOLEAN : b = FALSE
      OBVIOUS
    <3>2. [phase |-> "none", owner |-> "none", err |-> b] \in Intent
      BY DEF Intent, Claims
    <3> QED
      BY <3>1, <3>2 DEF Init, ForEach
  <2>6. pc \in [Invocations -> [Kinds -> Stages]]
    <3>1. [k \in Kinds |-> "none"] \in [Kinds -> Stages]
      BY DEF Stages
    <3> QED
      BY <3>1 DEF Init, ForEach
  <2>7. pending \in [Invocations -> [Kinds -> SUBSET Invocations]]
    <3>1. [k \in Kinds |-> {}] \in [Kinds -> SUBSET Invocations]
      OBVIOUS
    <3> QED
      BY <3>1 DEF Init, ForEach
  <2>8. err \in [Invocations -> [Kinds -> BOOLEAN]]
    <3>1. [k \in Kinds |-> FALSE] \in [Kinds -> BOOLEAN]
      OBVIOUS
    <3> QED
      BY <3>1 DEF Init, ForEach
  <2> QED
    BY <2>1, <2>2, <2>3, <2>4, <2>5, <2>6, <2>7, <2>8 DEF TypeOK
<1>4. CountInv
  <2>1. Held = {} /\ \A p \in Invocations : HeldChildren(p) = {}
    BY <1>1 DEF Held, HeldChildren
  <2>2. IsFiniteSet({}) /\ Cardinality({}) = 0
    BY FS_EmptySet
  <2> QED
    BY <1>1, <2>1, <2>2 DEF CountInv
<1>5. PlaceInv
  <2>1. {"ability", "deadline", "dispatcher"} \subseteq Kinds
    BY DEF Kinds
  <2> QED
    BY <1>1, <1>2, <2>1 DEF PlaceInv, Registered
<1>6. EndInv
  BY <1>1, <1>2 DEF EndInv, Registered, Behind
<1>7. ClaimedInv
  <2>1. "winner" \in Kinds
    BY DEF Kinds
  <2> QED
    BY <1>1, <2>1 DEF ClaimedInv, Finalizing
<1> QED
  BY <1>3, <1>4, <1>5, <1>6, <1>7 DEF RegistryInv

\* Every step keeps the registry in order.
LEMMA RegistryStep ==
    ASSUME RegistryInv, [Next]_vars
    PROVE  RegistryInv'
<1>1. {"dispatcher", "ability", "winner", "deadline", "parent_deadline"} = Kinds
      /\ Cancels \subseteq Owners
  BY DEF Kinds, Cancels, Owners
<1>2. ASSUME NEW i \in Invocations,
             \/ Reserve(i) \/ AbandonReservation(i) \/ StartCore(i) \/ Register(i)
             \/ CommitSpawn(i) \/ RefuseSpawn(i) \/ ClaimUnstarted(i) \/ Suspend(i)
      PROVE  RegistryInv'
  BY <1>2, ReservePreserves, AbandonPreserves, StartCorePreserves, RegisterPreserves,
     SpawnPreserves, ClaimUnstartedPreserves, SuspendPreserves
<1>3. ASSUME NEW i \in Invocations, NEW owner \in {"completion", "failure"},
             AbilityReturns(i, owner)
      PROVE  RegistryInv'
  BY <1>3, AbilityReturnsPreserves
<1>4. ASSUME NEW i \in Invocations, CallerCancel(i)
      PROVE  RegistryInv'
  <2>1. Registered(i) /\ "caller_cancel" \in Cancels
    BY <1>4 DEF CallerCancel, Registered, Cancels
  <2> QED
    BY <1>4, <2>1, StartIntentPreserves DEF CallerCancel
<1>5. ASSUME NEW i \in Invocations, NEW c \in Invocations, CancelChild(i, c)
      PROVE  RegistryInv'
  <2>1. Registered(c) /\ "parent_cancel" \in Cancels
    BY <1>1, <1>5, PendingRegistered DEF CancelChild, IsNextChild, Cancels
  <2> QED
    BY <1>5, <2>1, StartIntentPreserves DEF CancelChild
<1>6. ASSUME NEW i \in Invocations, WinnerClaims(i)
      PROVE  RegistryInv'
  <2>1. PICK owner \in Owners : owner = intent[i].owner
    BY <1>1, <1>6 DEF WinnerClaims, RegistryInv, ClaimedInv
  <2>2. ClaimWithChildren(i, "winner", owner)
    BY <1>6, <2>1 DEF WinnerClaims
  <2> QED
    BY <1>1, <1>6, <2>2, ClaimWithChildrenPreserves DEF WinnerClaims
<1>7. ASSUME NEW i \in Invocations, DeadlineFires(i)
      PROVE  RegistryInv'
  <2>1. "deadline" \in Owners
    BY DEF Owners
  <2> QED
    BY <1>1, <1>7, <2>1, ClaimWithChildrenPreserves DEF DeadlineFires
<1>8. ASSUME NEW i \in Invocations, NEW k \in Kinds, NEW c \in Invocations,
             TimeoutChild(i, k, c)
      PROVE  RegistryInv'
  <2>1. "deadline" \in Owners
    BY DEF Owners
  <2>2. Registered(c)
    BY <1>8, PendingRegistered DEF TimeoutChild, IsNextChild
  <2> QED
    BY <1>1, <1>8, <2>1, <2>2, ClaimWithChildrenPreserves DEF TimeoutChild
<1>9. ASSUME NEW i \in Invocations, WinnerPanicked(i)
      PROVE  RegistryInv'
  BY <1>9, WinnerPanickedPreserves
<1>10. ASSUME NEW i \in Invocations, WatcherExits(i)
       PROVE  RegistryInv'
  BY <1>1, <1>10, PureMovePreserves DEF WatcherExits
<1>11. ASSUME NEW i \in Invocations, NEW k \in Kinds, SignalStop(i, k) \/ ChildrenEnded(i, k)
       PROVE  RegistryInv'
  <2>1. PICK s \in {"children", "cleanup"} : Goto(i, k, s)
    BY <1>11 DEF SignalStop, ChildrenEnded
  <2> QED
    BY <1>11, <2>1, PureMovePreserves DEF SignalStop, ChildrenEnded
<1>12. ASSUME NEW i \in Invocations, NEW k \in Kinds,
              \/ FinishCleanup(i, k) \/ EmitTerminal(i, k) \/ OnTerminal(i, k)
              \/ EmitChildTerminal(i, k) \/ CloseTerminal(i, k) \/ WaitTerminal(i, k)
       PROVE  RegistryInv'
  BY <1>12, FinishCleanupPreserves, EmitTerminalPreserves, OnTerminalPreserves,
     EvidencePreserves, CloseTerminalPreserves, WaitTerminalPreserves
<1>13. ASSUME NEW i \in Invocations, NEW k \in Kinds, NEW c \in Invocations,
              AwaitChild(i, k, c)
       PROVE  RegistryInv'
  BY <1>13, AwaitChildPreserves
<1>14. CASE UNCHANGED vars
  <2>1. UNCHANGED <<dispatch, core, log, terminal, active, activeCount, activeChildren,
                    children, deadline, suspended, phase, intent, pc, pending, err>>
    BY <1>14 DEF vars, registryVars
  <2>2. Held' = Held
    BY <2>1 DEF Held
  <2>3. TypeOK' /\ CountInv'
    BY <2>1, <2>2, CountsKept DEF RegistryInv, TypeOK
  <2>4. PlaceInv' /\ EndInv' /\ ClaimedInv'
    BY <2>1 DEF RegistryInv, PlaceInv, EndInv, ClaimedInv, Registered, CallbackDue, HasParent
  <2> QED
    BY <2>3, <2>4 DEF RegistryInv
<1> QED
  BY <1>2, <1>3, <1>4, <1>5, <1>6, <1>7, <1>8, <1>9, <1>10, <1>11, <1>12, <1>13, <1>14
     DEF Next, DispatchStep, FinalizeStep, CancelStep, DeadlineStep

\* The registry, its reservations and the goroutines at work agree.
THEOREM RegistryInvariant == Spec => []RegistryInv
<1>1. Init => RegistryInv
  BY RegistryInit
<1>2. RegistryInv /\ [Next]_vars => RegistryInv'
  BY RegistryStep
<1> QED
  BY <1>1, <1>2, PTL DEF Spec

\* Every variable of the runtime keeps its type: no counter leaves 0 .. PendingCapacity.
THEOREM RuntimeTypeCorrect == Spec => []TypeOK
<1>1. RegistryInv => TypeOK
  BY DEF RegistryInv
<1> QED
  BY <1>1, RegistryInvariant, PTL

\* activeCount and activeChildren are the reservations held, over every error path, race
\* and suspension: onInvocationTerminal, SuspendForRestart and a refused dispatch each
\* release theirs once.
THEOREM ReservationsAreExact == Spec => []ReservationsExact
<1>1. ASSUME RegistryInv PROVE ReservationsExact
  <2>1. ASSUME NEW i \in Invocations
        PROVE  HoldsReservation(i) <=> i \in Held
    <3>1. CASE Registered(i)
      <4>1. CallbackRan(i) <=> IsTerminal(core[i].state) /\ ~CallbackDue(i)
        BY <1>1 DEF CallbackRan, CallbackDue, RegistryInv, EndInv, Behind
      <4> QED
        BY <1>1, <3>1, <4>1 DEF HoldsReservation, Held, Registered, RegistryInv, EndInv
    <3>2. CASE ~Registered(i)
      <4>1. ~CallbackRan(i) /\ ~suspended[i] /\ ~active[i]
        BY <1>1, <3>2 DEF CallbackRan, RegistryInv, PlaceInv
      <4>2. dispatch[i] \in {"idle", "reserved", "started", "refused"}
        BY <1>1, <3>2 DEF RegistryInv, TypeOK, Registered
      <4> QED
        BY <4>1, <4>2 DEF HoldsReservation, Held
    <3> QED
      BY <3>1, <3>2
  <2>2. {i \in Invocations : HoldsReservation(i)} = Held
    BY <2>1 DEF Held
  <2>3. \A p \in Invocations :
           {c \in Invocations : Parent[c] = p /\ HoldsReservation(c)} = HeldChildren(p)
    BY <2>1 DEF Held, HeldChildren
  <2> QED
    BY <1>1, <2>2, <2>3 DEF ReservationsExact, RegistryInv, CountInv
<1> QED
  BY <1>1, RegistryInvariant, PTL

-------------------------------------------------------------------------------
(* Parents and children.                                                       *)

\* What a call that returned without an error tells of the invocation: WaitTerminal, a
\* cancel, a timeout of the parent.
Ended(i) == IsTerminal(core[i].state)
Answered(i) == intent[i].phase = "done" /\ ~intent[i].err
TimedOut(i) == pc[i]["parent_deadline"] = "done" /\ ~err[i]["parent_deadline"]

ResultInv ==
    \A i \in Invocations : /\ terminal[i] => Ended(i) \/ core[i].finErr
                           /\ Answered(i) \/ TimedOut(i) => Ended(i)

\* Who finalizes decides for what: the ability for its own outcome, the winner for a
\* cancel, or for the failure of a winner that panicked.
MayFinalize(i, k) ==
    /\ k = "ability" => core[i].claim \in {"completion", "failure"}
    /\ k = "winner" => core[i].claim \in Cancels \cup {"failure"}

OwnerInv ==
    \A i \in Invocations, k \in Kinds : pc[i][k] \in Finalizing => MayFinalize(i, k)

\* A cancel or a deadline on its way to its event: each child the parent's chain knows
\* of has ended, or is still to be ended.
Spreads(i, k) ==
    /\ k \in {"winner", "deadline", "parent_deadline"} /\ pc[i][k] \in Finalizing
    /\ k = "winner" => core[i].claim # "failure"

Due(i, k, c) == pc[i][k] \in {"stop", "children"} /\ c \in pending[i][k]

PropagateInv ==
    \A i \in Invocations :
        /\ SpawnedChildren(i) \subseteq children[i]
        /\ \A k \in Kinds : Spreads(i, k) =>
              \A c \in SpawnedChildren(i) : Ended(c) \/ Due(i, k, c)

FamilyInv == ResultInv /\ OwnerInv /\ PropagateInv /\ SpawnedChildrenEndFirst

\* No step takes back an outcome, a claim or a failure.
CoresGrow ==
    \A j \in Invocations : /\ Ended(j) => core'[j].state = core[j].state
                           /\ core[j].claim # "none" => core'[j].claim = core[j].claim
                           /\ core[j].finErr => core'[j].finErr

\* Who ends by a cancel or a deadline has no child left that runs.
EndsInOrder ==
    \A j \in Invocations : core'[j].state \in {"CANCELLED", "TIMED_OUT"} =>
        \/ core'[j].state = core[j].state
        \/ \A c \in SpawnedChildren(j) : Ended(c)

\* Calls that return without an error do so for an invocation that ended.
ResultsKept ==
    \A j \in Invocations :
        /\ terminal'[j] => terminal[j] \/ IsTerminal(core'[j].state) \/ core'[j].finErr
        /\ Answered(j)' => Answered(j) \/ Ended(j)'
        /\ TimedOut(j)' => TimedOut(j) \/ Ended(j)'

SpawnsKept ==
    \A j \in Invocations : /\ SpawnedChildren(j)' \subseteq SpawnedChildren(j)
                           /\ children[j] \subseteq children'[j]

\* What the goroutine that moves to stage s does about the children.
ChildrenMinded(i, k, s) ==
    Spreads(i, k)' =>
        \/ s = "stop" /\ pending'[i][k] = children[i]
        \/ /\ pc[i][k] \in Finalizing
           /\ \A c \in Invocations : Due(i, k, c) => Due(i, k, c)' \/ Ended(c)

OthersAwait(i, k) ==
    \A j \in Invocations, l \in Kinds : j # i \/ l # k => pending'[j][l] = pending[j][l]

\* Results stay true: what ended stays ended.
LEMMA ResultsHold ==
    ASSUME ResultInv, CoresGrow, ResultsKept
    PROVE  ResultInv'
<1> SUFFICES ASSUME NEW i \in Invocations
             PROVE  /\ terminal'[i] => Ended(i)' \/ core'[i].finErr
                    /\ Answered(i)' \/ TimedOut(i)' => Ended(i)'
  BY DEF ResultInv
<1>1. Ended(i) => Ended(i)'
  BY DEF CoresGrow, Ended
<1> QED
  BY <1>1 DEF ResultInv, CoresGrow, ResultsKept, Ended

\* A goroutine that moves on does not lose sight of the children.
LEMMA MoveKeepsFamily ==
    ASSUME RegistryInv, FamilyInv, NEW i \in Invocations, NEW k \in Kinds, NEW s \in Stages,
           Moved(i, k, s), CoresGrow, EndsInOrder, ResultsKept, SpawnsKept,
           s \in Finalizing => pc[i][k] \in Finalizing \/ MayFinalize(i, k)',
           ChildrenMinded(i, k, s), OthersAwait(i, k)
    PROVE  FamilyInv'
<1>1. ResultInv'
  BY ResultsHold DEF FamilyInv
<1>2. ASSUME NEW j \in Invocations, NEW l \in Kinds, pc[j][l] \in Finalizing
      PROVE  core'[j].claim = core[j].claim
  BY <1>2 DEF CoresGrow, RegistryInv, ClaimedInv
<1>3. ASSUME NEW j \in Invocations, NEW l \in Kinds, pc'[j][l] \in Finalizing,
             j # i \/ l # k
      PROVE  pc[j][l] = pc'[j][l]
  BY <1>3 DEF Moved
<1>4. OwnerInv'
  <2> SUFFICES ASSUME NEW j \in Invocations, NEW l \in Kinds, pc'[j][l] \in Finalizing
               PROVE  MayFinalize(j, l)'
    BY DEF OwnerInv
  <2>1. CASE pc[j][l] \in Finalizing
    BY <1>2, <2>1 DEF FamilyInv, OwnerInv, MayFinalize
  <2>2. CASE pc[j][l] \notin Finalizing
    BY <1>3, <2>2 DEF Moved
  <2> QED
    BY <2>1, <2>2
<1>5. PropagateInv'
  <2> SUFFICES ASSUME NEW j \in Invocations
               PROVE  /\ SpawnedChildren(j)' \subseteq children'[j]
                      /\ \A l \in Kinds : Spreads(j, l)' =>
                            \A c \in SpawnedChildren(j)' : Ended(c)' \/ Due(j, l, c)'
    BY DEF PropagateInv
  <2>1. SpawnedChildren(j)' \subseteq children'[j]
    BY DEF FamilyInv, PropagateInv, SpawnsKept
  <2>2. ASSUME NEW l \in Kinds, Spreads(j, l)', NEW c \in SpawnedChildren(j)'
        PROVE  Ended(c)' \/ Due(j, l, c)'
    <3>1. c \in SpawnedChildren(j) /\ c \in Invocations /\ c \in children[j]
      BY <2>2 DEF SpawnsKept, SpawnedChildren, FamilyInv, PropagateInv
    <3>2. Ended(c) => Ended(c)'
      BY <3>1 DEF CoresGrow, Ended
    <3>3. CASE pc[j][l] \in Finalizing
      <4>1. Spreads(j, l)
        BY <1>2, <2>2, <3>3 DEF Spreads
      <4>2. Ended(c) \/ Due(j, l, c)
        BY <3>1, <4>1 DEF FamilyInv, PropagateInv
      <4>3. CASE j = i /\ l = k
        <5>1. CASE s = "stop" /\ pending'[i][k] = children[i]
          BY <3>1, <4>3, <5>1 DEF Due, Moved
        <5>2. CASE \A d \in Invocations : Due(i, k, d) => Due(i, k, d)' \/ Ended(d)
          BY <3>1, <3>2, <4>2, <4>3, <5>2
        <5> QED
          BY <2>2, <4>3, <5>1, <5>2 DEF ChildrenMinded
      <4>4. CASE j # i \/ l # k
        <5>1. pc'[j][l] = pc[j][l] /\ pending'[j][l] = pending[j][l]
          BY <4>4 DEF Moved, OthersAwait
        <5> QED
          BY <3>2, <4>2, <5>1 DEF Due
      <4> QED
        BY <4>3, <4>4
    <3>4. CASE pc[j][l] \notin Finalizing
      <4>1. j = i /\ l = k
        BY <1>3, <2>2, <3>4 DEF Spreads
      <4>2. s = "stop" /\ pending'[i][k] = children[i]
        BY <2>2, <3>4, <4>1 DEF ChildrenMinded
      <4> QED
        BY <3>1, <4>1, <4>2 DEF Due, Moved
    <3> QED
      BY <3>3, <3>4
  <2> QED
    BY <2>1, <2>2
<1>6. SpawnedChildrenEndFirst'
  <2> SUFFICES ASSUME NEW p \in Invocations, core'[p].state \in {"CANCELLED", "TIMED_OUT"},
                      NEW c \in SpawnedChildren(p)'
               PROVE  IsTerminal(core'[c].state)
    BY DEF SpawnedChildrenEndFirst
  <2>1. c \in SpawnedChildren(p) /\ c \in Invocations
    BY DEF SpawnsKept, SpawnedChildren
  <2>2. Ended(c)
    BY <2>1 DEF EndsInOrder, FamilyInv, SpawnedChildrenEndFirst, Ended
  <2> QED
    BY <2>1, <2>2 DEF CoresGrow, Ended
<1> QED
  BY <1>1, <1>4, <1>5, <1>6 DEF FamilyInv

\* Steps that leave the log and the children alone ...
LEMMA SpawnsSame ==
    ASSUME UNCHANGED <<log, children>>
    PROVE  SpawnsKept
  BY DEF SpawnsKept, SpawnedChildren

\* ... the cores ...
LEMMA CoresSame ==
    ASSUME UNCHANGED core
    PROVE  CoresGrow /\ EndsInOrder
  BY DEF CoresGrow, EndsInOrder, Ended

\* ... the waiting alone.
LEMMA AwaitSame ==
    ASSUME UNCHANGED pending, NEW i \in Invocations, NEW k \in Kinds
    PROVE  OthersAwait(i, k)
  BY DEF OthersAwait

\* A step that moves no goroutine.
LEMMA StillKeepsFamily ==
    ASSUME RegistryInv, FamilyInv, CoresGrow, EndsInOrder, SpawnsKept, NEW i \in Invocations,
           UNCHANGED <<pc, pending, terminal, intent, err>>
    PROVE  FamilyInv'
<1>1. "ability" \in Kinds
  BY DEF Kinds
<1>2. PICK s \in Stages : s = pc[i]["ability"]
  BY <1>1, Shapes DEF RegistryInv
<1>3. Moved(i, "ability", s)
  BY <1>2, Shapes DEF Moved, RegistryInv
<1>4. ResultsKept
  BY DEF ResultsKept, Answered, TimedOut
<1>5. ChildrenMinded(i, "ability", s)
  BY DEF ChildrenMinded, Spreads
<1> QED
  BY <1>1, <1>2, <1>3, <1>4, <1>5, AwaitSame, MoveKeepsFamily

\* A goroutine moves and nothing else happens.
LEMMA PureMoveKeepsFamily ==
    ASSUME RegistryInv, FamilyInv, NEW i \in Invocations, NEW k \in Kinds,
           NEW s \in {"done", "wait", "children", "cleanup", "emit", "evidence", "close"},
           Goto(i, k, s), SpawnsKept,
           s = "done" => k # "parent_deadline",
           s \in Finalizing => pc[i][k] \in Finalizing,
           \A c \in pending[i][k] : pc[i][k] \in {"stop", "children"} => s = "children",
           UNCHANGED <<core, terminal, intent, pending, err>>
    PROVE  FamilyInv'
<1>1. s \in Stages
  BY DEF Stages
<1>2. Moved(i, k, s)
  BY <1>1, GotoEffect DEF RegistryInv
<1>3. \A j \in Invocations : TimedOut(j)' => TimedOut(j)
  <2> SUFFICES ASSUME NEW j \in Invocations, TimedOut(j)'
               PROVE  TimedOut(j)
    OBVIOUS
  <2>1. "parent_deadline" \in Kinds
    BY DEF Kinds
  <2>2. j # i \/ k # "parent_deadline"
    BY <1>2 DEF TimedOut, Moved
  <2> QED
    BY <1>2, <2>1, <2>2 DEF TimedOut, Moved
<1>4. ResultsKept
  BY <1>3 DEF ResultsKept, Answered
<1>5. ChildrenMinded(i, k, s)
  BY <1>2 DEF ChildrenMinded, Spreads, Due, Moved
<1> QED
  BY <1>1, <1>2, <1>4, <1>5, CoresSame, AwaitSame, MoveKeepsFamily

\* A goroutine ends with a result.
LEMMA FinishKeepsFamily ==
    ASSUME RegistryInv, FamilyInv, NEW i \in Invocations, NEW k \in Kinds,
           NEW b \in BOOLEAN, Finish(i, k, b), b \/ Ended(i), CoresGrow, EndsInOrder,
           \A j \in Invocations : terminal'[j] => terminal[j] \/ Ended(j) \/ core'[j].finErr,
           UNCHANGED <<log, children, pending>>
    PROVE  FamilyInv'
<1>1. "done" \in Stages /\ "done" \notin Finalizing
  BY DEF Stages, Finalizing
<1>2. /\ Moved(i, k, "done")
      /\ err'[i][k] = b
      /\ \A j \in Invocations, l \in Kinds : j # i \/ l # k => err'[j][l] = err[j][l]
      /\ \A j \in Invocations : j # i \/ k # "winner" => intent'[j] = intent[j]
      /\ k = "winner" => intent'[i].phase = "done" /\ intent'[i].err = b
  BY FinishEffect DEF RegistryInv
<1>3. ResultsKept
  <2> SUFFICES ASSUME NEW j \in Invocations
               PROVE  /\ terminal'[j] => terminal[j] \/ IsTerminal(core'[j].state)
                                          \/ core'[j].finErr
                      /\ Answered(j)' => Answered(j) \/ Ended(j)'
                      /\ TimedOut(j)' => TimedOut(j) \/ Ended(j)'
    BY DEF ResultsKept
  <2>1. Ended(j) => IsTerminal(core'[j].state)
    BY DEF CoresGrow, Ended
  <2>2. Answered(j)' => Answered(j) \/ Ended(j)'
    <3>1. CASE j = i /\ k = "winner"
      BY <1>2, <2>1, <3>1 DEF Answered, Ended
    <3>2. CASE j # i \/ k # "winner"
      BY <1>2, <3>2 DEF Answered
    <3> QED
      BY <3>1, <3>2
  <2>3. TimedOut(j)' => TimedOut(j) \/ Ended(j)'
    <3>1. CASE j = i /\ k = "parent_deadline"
      BY <1>2, <2>1, <3>1 DEF TimedOut, Ended
    <3>2. CASE j # i \/ k # "parent_deadline"
      <4>1. "parent_deadline" \in Kinds
        BY DEF Kinds
      <4> QED
        BY <1>2, <3>2, <4>1 DEF TimedOut, Moved
    <3> QED
      BY <3>1, <3>2
  <2> QED
    BY <2>1, <2>2, <2>3
<1>4. ChildrenMinded(i, k, "done")
  BY <1>1, <1>2 DEF ChildrenMinded, Spreads, Moved
<1> QED
  BY <1>1, <1>2, <1>3, <1>4, SpawnsSame, AwaitSame, MoveKeepsFamily

\* A claim: of whoever may finalize, with the children if it spreads.
LEMMA ClaimKeepsFamily ==
    ASSUME RegistryInv, FamilyInv, NEW i \in Invocations, NEW k \in Kinds,
           NEW s \in {"cleanup", "stop"}, NEW owner \in Owners,
           Claim(i, owner), Goto(i, k, s), CanClaim(core[i]), OthersAwait(i, k),
           k = "ability" => owner \in {"completion", "failure"},
           k = "winner" => owner \in Cancels \cup {"failure"},
           \/ k \in {"ability", "dispatcher"} \/ (k = "winner" /\ owner = "failure")
           \/ s = "stop" /\ pending'[i][k] = children[i],
           UNCHANGED <<log, children, terminal, intent>>,
           \A j \in Invocations :
              err[j]["parent_deadline"] => err'[j]["parent_deadline"]
    PROVE  FamilyInv'
<1>1. s \in Stages /\ s # "done"
  BY DEF Stages
<1>2. Moved(i, k, s)
  BY <1>1, GotoEffect DEF RegistryInv
<1>3. owner \in Claims
  BY OwnerIsClaim
<1>4. /\ core'[i].claim = owner
      /\ \A j \in Invocations : /\ core'[j].state = core[j].state
                                /\ core'[j].finErr = core[j].finErr
                                /\ j # i => core'[j] = core[j]
  BY <1>3, ClaimEffect DEF RegistryInv
<1>5. CoresGrow /\ EndsInOrder
  <2>1. \A j \in Invocations : core[j].claim # "none" => core'[j].claim = core[j].claim
    BY <1>4 DEF CanClaim
  <2> QED
    BY <1>4, <2>1, Zenon DEF CoresGrow, EndsInOrder, Ended
<1>6. ResultsKept
  <2>1. "parent_deadline" \in Kinds
    BY DEF Kinds
  <2>2. \A j \in Invocations : TimedOut(j)' => TimedOut(j)
    BY <1>1, <1>2, <2>1 DEF TimedOut, Moved
  <2> QED
    BY <2>2 DEF ResultsKept, Answered
<1>7. MayFinalize(i, k)'
  BY <1>4 DEF MayFinalize
<1>8. ChildrenMinded(i, k, s)
  BY <1>4 DEF ChildrenMinded, Spreads
<1> QED
  BY <1>1, <1>2, <1>5, <1>6, <1>7, <1>8, SpawnsSame, MoveKeepsFamily

\* The actions, one by one.  closeUnstartedInvocation finalizes for a failure.
LEMMA ClaimUnstartedFamily ==
    ASSUME RegistryInv, FamilyInv, NEW i \in Invocations, ClaimUnstarted(i)
    PROVE  FamilyInv'
<1>1. "dispatcher" \in Kinds /\ "failure" \in Owners
  BY DEF Kinds, Owners
<1>2. UNCHANGED <<log, children, terminal, intent, pending, err>> /\ SpawnsKept
  BY SpawnsSame DEF ClaimUnstarted, registryVars
<1>3. CASE CanClaim(core[i]) /\ Claim(i, "failure") /\ Goto(i, "dispatcher", "cleanup")
  BY <1>1, <1>2, <1>3, ClaimKeepsFamily, AwaitSame
<1>4. ASSUME NEW s \in {"done", "wait"}, Goto(i, "dispatcher", s), UNCHANGED core
      PROVE  FamilyInv'
  BY <1>1, <1>2, <1>4, PureMoveKeepsFamily DEF Finalizing, ClaimUnstarted
<1> QED
  BY <1>3, <1>4 DEF ClaimUnstarted

\* runAbility finalizes for its own outcome.
LEMMA AbilityReturnsFamily ==
    ASSUME RegistryInv, FamilyInv, NEW i \in Invocations,
           NEW owner \in {"completion", "failure"}, AbilityReturns(i, owner)
    PROVE  FamilyInv'
<1>1. "ability" \in Kinds /\ owner \in Owners
  BY DEF Kinds, Owners
<1>2. UNCHANGED <<log, children, terminal, intent, pending, err>> /\ SpawnsKept
  BY SpawnsSame DEF AbilityReturns, registryVars
<1>3. CASE CanClaim(core[i]) /\ Claim(i, owner) /\ Goto(i, "ability", "cleanup")
  BY <1>1, <1>2, <1>3, ClaimKeepsFamily, AwaitSame
<1>4. CASE Goto(i, "ability", "done") /\ UNCHANGED core
  BY <1>1, <1>2, <1>4, PureMoveKeepsFamily DEF Finalizing, AbilityReturns
<1> QED
  BY <1>3, <1>4 DEF AbilityReturns

\* A cancel is recorded.
LEMMA StartIntentFamily ==
    ASSUME RegistryInv, FamilyInv, NEW i \in Invocations, NEW owner \in Cancels,
           StartIntent(i, owner), UNCHANGED <<core, log, terminal, children, pending, err>>
    PROVE  FamilyInv'
<1>1. /\ "winner" \in Kinds /\ "parent_deadline" \in Kinds /\ "start" \in Stages
      /\ "start" \notin Finalizing /\ owner \in Claims
  BY DEF Kinds, Stages, Finalizing, Claims, Owners, Cancels
<1>2. /\ Moved(i, "winner", "start") /\ intent'[i].phase = "running"
      /\ \A j \in Invocations : j # i => intent'[j] = intent[j]
  BY <1>1, StartIntentEffect DEF RegistryInv
<1>3. ResultsKept
  <2>1. \A j \in Invocations : Answered(j)' => Answered(j)
    BY <1>2 DEF Answered
  <2>2. \A j \in Invocations : TimedOut(j)' => TimedOut(j)
    BY <1>1, <1>2 DEF TimedOut, Moved
  <2> QED
    BY <2>1, <2>2 DEF ResultsKept
<1>4. ChildrenMinded(i, "winner", "start")
  BY <1>1, <1>2 DEF ChildrenMinded, Spreads, Moved
<1> QED
  BY <1>1, <1>2, <1>3, <1>4, SpawnsSame, CoresSame, AwaitSame, MoveKeepsFamily

\* A cancel or a deadline claims and takes every child known by then with it.
LEMMA ClaimWithChildrenFamily ==
    ASSUME RegistryInv, FamilyInv, NEW i \in Invocations, NEW k \in Kinds,
           NEW owner \in Owners, ClaimWithChildren(i, k, owner), k # "ability",
           k = "winner" => owner \in Cancels,
           pc[i][k] \notin Finalizing,
           UNCHANGED <<log, children, terminal, intent, err>>
    PROVE  FamilyInv'
<1>1. CASE CanClaim(core[i])
  <2>1. Claim(i, owner) /\ Goto(i, k, "stop") /\ Awaits(i, k, children[i])
    BY <1>1 DEF ClaimWithChildren, Awaits
  <2>2. children[i] \in SUBSET Invocations
    BY DEF RegistryInv, TypeOK
  <2>3. pending'[i][k] = children[i] /\ OthersAwait(i, k)
    BY <2>1, <2>2, PendingEffect DEF RegistryInv, OthersAwait
  <2> QED
    BY <1>1, <2>1, <2>3, ClaimKeepsFamily
<1>2. CASE ~CanClaim(core[i])
  <2>1. Goto(i, k, "wait") /\ UNCHANGED <<core, pending>>
    BY <1>2 DEF ClaimWithChildren
  <2> QED
    BY <2>1, SpawnsSame, PureMoveKeepsFamily DEF Finalizing
<1> QED
  BY <1>1, <1>2

\* A winner that panicked finalizes for a failure and answers with an error.
LEMMA WinnerPanickedFamily ==
    ASSUME RegistryInv, FamilyInv, NEW i \in Invocations, WinnerPanicked(i)
    PROVE  FamilyInv'
<1>1. /\ "winner" \in Kinds /\ "parent_deadline" \in Kinds /\ "failure" \in Owners
      /\ "stop" \in Stages /\ "winner" # "parent_deadline"
  BY DEF Kinds, Owners, Stages
<1>2. UNCHANGED <<log, children, terminal, pending>>
  BY DEF WinnerPanicked, registryVars
<1>3. PICK b \in BOOLEAN : b = TRUE
  OBVIOUS
<1>4. ASSUME Marks(i, "winner", TRUE)
      PROVE  \A j \in Invocations : err'[j]["parent_deadline"] = err[j]["parent_deadline"]
  <2>1. \A j \in Invocations, l \in Kinds :
           j # i \/ l # "winner" => err'[j][l] = err[j][l]
    BY <1>1, <1>3, <1>4, ErrEffect DEF RegistryInv
  <2> QED
    BY <1>1, <2>1
<1>5. CASE /\ CanClaim(core[i]) /\ Claim(i, "failure") /\ Goto(i, "winner", "stop")
           /\ Marks(i, "winner", TRUE) /\ UNCHANGED intent
  BY <1>1, <1>2, <1>4, <1>5, AwaitSame, ClaimKeepsFamily
<1>6. CASE /\ core[i].claim = "failure" /\ Goto(i, "winner", "stop")
           /\ Marks(i, "winner", TRUE) /\ UNCHANGED <<core, intent>>
  <2>1. Moved(i, "winner", "stop")
    BY <1>1, <1>6, GotoEffect DEF RegistryInv
  <2>2. ResultsKept
    <3>1. \A j \in Invocations : TimedOut(j)' => TimedOut(j)
      BY <1>1, <1>4, <1>6, <2>1 DEF TimedOut, Moved
    <3> QED
      BY <1>2, <1>6, <3>1 DEF ResultsKept, Answered
  <2>3. MayFinalize(i, "winner")' /\ ChildrenMinded(i, "winner", "stop")
    BY <1>6 DEF MayFinalize, ChildrenMinded, Spreads
  <2> QED
    BY <1>1, <1>2, <1>6, <2>1, <2>2, <2>3, SpawnsSame, CoresSame, AwaitSame, MoveKeepsFamily
<1>7. CASE Finish(i, "winner", TRUE) /\ UNCHANGED core
  BY <1>1, <1>2, <1>3, <1>7, CoresSame, FinishKeepsFamily
<1> QED
  BY <1>5, <1>6, <1>7 DEF WinnerPanicked, Marks

\* Spawn events come by being appended.
LEMMA AppendSpawns ==
    ASSUME TypeOK, NEW p \in Invocations, NEW e \in LogEntry,
           log' = [log EXCEPT ![p] = Append(@, e)], NEW j \in Invocations,
           NEW c \in SpawnedChildren(j)'
    PROVE  c \in Invocations /\ (c \in SpawnedChildren(j) \/ (j = p /\ e = SpawnEvent(c)))
<1>1. c \in Invocations /\ \E n \in DOMAIN log'[j] : log'[j][n] = SpawnEvent(c)
  BY DEF SpawnedChildren, SpawnEvent
<1>2. PICK n \in DOMAIN log'[j] : log'[j][n] = SpawnEvent(c)
  BY <1>1
<1>3. log \in [Invocations -> Seq(LogEntry)]
  BY DEF TypeOK
<1>4. CASE j # p
  <2>1. log'[j] = log[j]
    BY <1>3, <1>4
  <2> QED
    BY <1>1, <1>2, <2>1 DEF SpawnedChildren
<1>5. CASE j = p
  <2>1. PICK q \in Seq(LogEntry) : q = log[p]
    BY <1>3
  <2>2. log'[j] = Append(q, e)
    BY <1>3, <1>5, <2>1
  <2> HIDE DEF LogEntry, SpawnEvent
  <2>3. n \in 1 .. Len(q) + 1 /\ (n <= Len(q) => n \in DOMAIN q /\ Append(q, e)[n] = q[n])
        /\ (n = Len(q) + 1 => Append(q, e)[n] = e) /\ Len(q) \in Nat
    BY <1>2, <2>1, <2>2
  <2>4. CASE n = Len(q) + 1
    BY <1>1, <1>2, <1>5, <2>2, <2>3, <2>4
  <2>5. CASE n <= Len(q)
    BY <1>1, <1>2, <1>5, <2>1, <2>2, <2>3, <2>5 DEF SpawnedChildren
  <2> QED
    BY <2>3, <2>4, <2>5
<1> QED
  BY <1>4, <1>5

\* Other events spawn nothing.
LEMMA OtherEvent ==
    ASSUME TypeOK, NEW p \in Invocations, NEW t \in EventTypes \ {"child_spawned"},
           NEW x \in Invocations \cup {NoParent},
           log' = [log EXCEPT ![p] = Append(@, [type |-> t, child |-> x])], UNCHANGED children
    PROVE  SpawnsKept
<1>1. PICK e \in LogEntry : e = [type |-> t, child |-> x]
  BY DEF LogEntry
<1>2. log' = [log EXCEPT ![p] = Append(@, e)]
  BY <1>1
<1>3. \A c \in Invocations : e # SpawnEvent(c)
  BY <1>1 DEF SpawnEvent
<1> QED
  BY <1>2, <1>3, AppendSpawns DEF SpawnsKept

\* WaitTerminal returns without an error for an invocation that ended.
LEMMA WaitTerminalFamily ==
    ASSUME RegistryInv, FamilyInv, NEW i \in Invocations, NEW k \in Kinds, WaitTerminal(i, k)
    PROVE  FamilyInv'
<1>1. PICK b \in BOOLEAN : b = core[i].finErr
  BY Shapes DEF RegistryInv, Core
<1>2. terminal[i] /\ Finish(i, k, b)
  BY <1>1 DEF WaitTerminal
<1>3. b \/ Ended(i)
  BY <1>1, <1>2, Zenon DEF FamilyInv, ResultInv
<1>4. UNCHANGED <<core, log, children, terminal, pending>>
  BY DEF WaitTerminal, registryVars
<1> QED
  BY <1>2, <1>3, <1>4, CoresSame, FinishKeepsFamily

\* The terminal channel is closed behind the terminal event.
LEMMA CloseTerminalFamily ==
    ASSUME RegistryInv, FamilyInv, NEW i \in Invocations, NEW k \in Kinds,
           CloseTerminal(i, k)
    PROVE  FamilyInv'
<1>1. PICK b \in BOOLEAN : b = err[i][k]
  BY Shapes DEF RegistryInv
<1>2. pc[i][k] = "close" /\ Finish(i, k, b)
  BY <1>1 DEF CloseTerminal
<1>3. Ended(i)
  BY <1>2 DEF RegistryInv, EndInv, Behind, Ended
<1>4. UNCHANGED <<core, log, children, pending>>
  BY DEF CloseTerminal, registryVars
<1>5. \A j \in Invocations : terminal'[j] => terminal[j] \/ Ended(j) \/ core'[j].finErr
  <2>1. \A j \in Invocations : j # i => terminal'[j] = terminal[j]
    BY Shapes DEF CloseTerminal, RegistryInv
  <2> QED
    BY <1>3, <2>1
<1> QED
  BY <1>2, <1>3, <1>4, <1>5, CoresSame, FinishKeepsFamily

\* A finalization that fails answers with an error.
LEMMA GiveUpFamily ==
    ASSUME RegistryInv, FamilyInv, NEW i \in Invocations, NEW k \in Kinds,
           FailFinalization(i), Finish(i, k, TRUE), UNCHANGED <<log, children, pending>>
    PROVE  FamilyInv'
<1>1. PICK b \in BOOLEAN : b = TRUE
  OBVIOUS
<1>2. \A j \in Invocations : /\ core'[j].state = core[j].state
                             /\ core'[j].claim = core[j].claim
                             /\ core[j].finErr => core'[j].finErr
                             /\ terminal'[j] => terminal[j] \/ core'[j].finErr
  BY FailEffect DEF RegistryInv
<1>3. CoresGrow /\ EndsInOrder
  BY <1>2, Zenon DEF CoresGrow, EndsInOrder, Ended
<1> QED
  BY <1>1, <1>2, <1>3, FinishKeepsFamily

\* A child is dropped from the waiting once its call returned without an error: it ended.
LEMMA AwaitChildFamily ==
    ASSUME RegistryInv, FamilyInv, NEW i \in Invocations, NEW k \in Kinds,
           NEW c \in Invocations, AwaitChild(i, k, c)
    PROVE  FamilyInv'
<1>1. UNCHANGED <<log, children>> /\ pc[i][k] = "children" /\ ChildReturned(k, c)
  BY DEF AwaitChild, registryVars
<1>2. CASE /\ ~ChildError(k, c)
           /\ pending' = [pending EXCEPT ![i][k] = @ \ {c}]
           /\ UNCHANGED <<core, terminal, pc, err, intent>>
  <2>1. Ended(c)
    BY <1>1, <1>2 DEF ChildReturned, ChildError, FamilyInv, ResultInv, Answered, TimedOut, Ended
  <2>2. pending[i][k] \ {c} \in SUBSET Invocations
    BY Shapes DEF RegistryInv
  <2>3. Awaits(i, k, pending[i][k] \ {c})
    BY <1>2, Shapes DEF Awaits, RegistryInv
  <2>4. pending'[i][k] = pending[i][k] \ {c} /\ OthersAwait(i, k)
    BY <2>2, <2>3, PendingEffect DEF RegistryInv, OthersAwait
  <2>5. Moved(i, k, "children") /\ "children" \in Stages
    BY <1>1, <1>2, Shapes DEF Moved, RegistryInv, Stages
  <2>6. ResultsKept
    BY <1>2 DEF ResultsKept, Answered, TimedOut
  <2>7. ChildrenMinded(i, k, "children")
    BY <1>1, <1>2, <2>1, <2>4 DEF ChildrenMinded, Finalizing, Due
  <2> QED
    BY <1>1, <1>2, <2>4, <2>5, <2>6, <2>7, SpawnsSame, CoresSame, MoveKeepsFamily
       DEF Finalizing
<1>3. CASE FailFinalization(i) /\ Finish(i, k, TRUE) /\ UNCHANGED pending
  BY <1>1, <1>3, GiveUpFamily
<1> QED
  BY <1>2, <1>3 DEF AwaitChild

\* The stop signal, and the move on when no child is left.
LEMMA SignalStopFamily ==
    ASSUME RegistryInv, FamilyInv, NEW i \in Invocations, NEW k \in Kinds,
           SignalStop(i, k) \/ ChildrenEnded(i, k)
    PROVE  FamilyInv'
<1>1. /\ pc[i][k] \in {"stop", "children"}
      /\ UNCHANGED <<core, log, children, terminal, intent, pending, err>>
  BY DEF SignalStop, ChildrenEnded, registryVars
<1>2. PICK s \in {"children", "cleanup"} : /\ Goto(i, k, s)
                                           /\ s = "cleanup" => pending[i][k] = {}
  BY DEF SignalStop, ChildrenEnded
<1> QED
  BY <1>1, <1>2, SpawnsSame, PureMoveKeepsFamily DEF Finalizing

\* Cleanup comes behind the children.
LEMMA FinishCleanupFamily ==
    ASSUME RegistryInv, FamilyInv, NEW i \in Invocations, NEW k \in Kinds,
           FinishCleanup(i, k)
    PROVE  FamilyInv'
<1>1. UNCHANGED <<log, children, pending>> /\ pc[i][k] = "cleanup"
  BY DEF FinishCleanup, registryVars
<1>2. CASE Goto(i, k, "emit") /\ UNCHANGED <<core, terminal, err, intent>>
  BY <1>1, <1>2, SpawnsSame, PureMoveKeepsFamily DEF Finalizing
<1>3. CASE FailFinalization(i) /\ Finish(i, k, TRUE)
  BY <1>1, <1>3, GiveUpFamily
<1> QED
  BY <1>2, <1>3 DEF FinishCleanup

\* The callback and the evidence for the parent.
LEMMA CallbackFamily ==
    ASSUME RegistryInv, FamilyInv, NEW i \in Invocations, NEW k \in Kinds,
           OnTerminal(i, k) \/ EmitChildTerminal(i, k)
    PROVE  FamilyInv'
<1>1. CASE OnTerminal(i, k)
  BY <1>1, SpawnsSame, PureMoveKeepsFamily DEF OnTerminal, Finalizing
<1>2. CASE EmitChildTerminal(i, k)
  <2>1. UNCHANGED <<core, terminal, children, intent, pending, err>>
    BY <1>2 DEF EmitChildTerminal, registryVars
  <2>2. SpawnsKept
    <3>1. CASE UNCHANGED log
      BY <2>1, <3>1, SpawnsSame
    <3>2. CASE /\ HasParent(i)
               /\ log' = [log EXCEPT ![Parent[i]] =
                            Append(@, [type |-> "child_terminal", child |-> i])]
      <4>1. /\ "child_terminal" \in EventTypes \ {"child_spawned"}
            /\ Parent[i] \in Invocations
        BY <3>2, RuntimeAssumption DEF EventTypes, RunningEvents, HasParent
      <4> QED
        BY <2>1, <3>2, <4>1, OtherEvent DEF RegistryInv
    <3> QED
      BY <1>2, <3>1, <3>2 DEF EmitChildTerminal
  <2> QED
    BY <1>2, <2>1, <2>2, PureMoveKeepsFamily DEF EmitChildTerminal, Finalizing
<1> QED
  BY <1>1, <1>2

\* A cancel or a deadline emits its event when the children have ended; other terminal
\* events say that the invocation completed or failed.
LEMMA EndsSpread ==
    ASSUME RegistryInv, FamilyInv, NEW i \in Invocations, NEW k \in Kinds,
           pc[i][k] = "emit", TargetOf(FinalEvent(i, k)) \in {"CANCELLED", "TIMED_OUT"}
    PROVE  \A c \in SpawnedChildren(i) : Ended(c)
<1>1. pc[i][k] \in Finalizing
  BY DEF Finalizing
<1>2. MayFinalize(i, k)
  BY <1>1 DEF FamilyInv, OwnerInv
<1>3. Spreads(i, k)
  <2>1. CASE k = "dispatcher"
    BY <2>1 DEF FinalEvent, TargetOf
  <2>2. CASE k = "ability"
    BY <1>2, <2>2 DEF FinalEvent, TargetOf, TerminalEventOf, MayFinalize
  <2>3. CASE k = "winner"
    BY <1>1, <2>3 DEF FinalEvent, TargetOf, TerminalEventOf, Spreads
  <2>4. CASE k \in {"deadline", "parent_deadline"}
    BY <1>1, <2>4 DEF Spreads
  <2> QED
    BY <2>1, <2>2, <2>3, <2>4 DEF Kinds
<1> QED
  BY <1>3 DEF FamilyInv, PropagateInv, Due

\* The terminal event.
LEMMA EmitTerminalFamily ==
    ASSUME RegistryInv, FamilyInv, NEW i \in Invocations, NEW k \in Kinds,
           EmitTerminal(i, k)
    PROVE  FamilyInv'
<1>1. CASE /\ Finish(i, k, TRUE)
           /\ UNCHANGED <<dispatch, core, log, terminal, registryVars, suspended, phase,
                          pending>>
  <2>1. PICK b \in BOOLEAN : b = TRUE
    OBVIOUS
  <2>2. UNCHANGED children
    BY <1>1 DEF registryVars
  <2> QED
    BY <1>1, <2>1, <2>2, CoresSame, FinishKeepsFamily
<1>2. CASE Ends(i, k)
  <2>1. pc[i][k] = "emit"
    BY DEF EmitTerminal
  <2>2. PICK t \in TerminalEvents : t = FinalEvent(i, k)
    BY <1>2, FinalEvents DEF Ends, RegistryInv
  <2>3. SpawnsKept
    <3>1. t \in EventTypes \ {"child_spawned"}
      BY DEF EventTypes, TerminalEvents
    <3>2. UNCHANGED children
      BY <1>2 DEF Ends, registryVars
    <3> QED
      BY <1>2, <2>2, <3>1, <3>2, OtherEvent DEF Ends, RegistryInv
  <2>4. CoresGrow
    <3> SUFFICES ASSUME NEW j \in Invocations
                 PROVE  /\ Ended(j) => core'[j].state = core[j].state
                        /\ core[j].claim # "none" => core'[j].claim = core[j].claim
                        /\ core[j].finErr => core'[j].finErr
      BY DEF CoresGrow
    <3>1. core'[j].claim = core[j].claim /\ core'[j].finErr = core[j].finErr
      BY <1>2, Zenon DEF Ends
    <3>2. Ended(j) => core'[j].state = core[j].state
      BY <1>2 DEF Ends, Ended
    <3> QED
      BY <3>1, <3>2, Zenon
  <2>5. EndsInOrder
    <3> SUFFICES ASSUME NEW j \in Invocations, core'[j].state \in {"CANCELLED", "TIMED_OUT"},
                        core'[j].state # core[j].state
                 PROVE  \A c \in SpawnedChildren(j) : Ended(c)
      BY DEF EndsInOrder
    <3>1. j = i /\ core'[i].state = TargetOf(FinalEvent(i, k))
      BY <1>2 DEF Ends
    <3> QED
      BY <2>1, <3>1, EndsSpread
  <2>6. /\ Moved(i, k, "callback") /\ UNCHANGED <<intent, terminal, pending>>
        /\ \A j \in Invocations, l \in Kinds : j # i \/ l # k => err'[j][l] = err[j][l]
    BY <1>2 DEF Ends
  <2>7. ResultsKept
    <3>1. "parent_deadline" \in Kinds
      BY DEF Kinds
    <3>2. \A j \in Invocations : TimedOut(j)' => TimedOut(j)
      BY <2>6, <3>1 DEF TimedOut, Moved
    <3> QED
      BY <2>6, <3>2 DEF ResultsKept, Answered
  <2>8. ChildrenMinded(i, k, "callback") /\ "callback" \notin Finalizing /\ "callback" \in Stages
    BY <2>6 DEF ChildrenMinded, Spreads, Moved, Finalizing, Stages
  <2> QED
    BY <2>3, <2>4, <2>5, <2>6, <2>7, <2>8, AwaitSame, MoveKeepsFamily
<1> QED
  BY <1>1, <1>2, EmitTerminalEffect

\* A child is spawned by a parent nobody has claimed.
LEMMA SpawnFamily ==
    ASSUME RegistryInv, FamilyInv, NEW i \in Invocations, CommitSpawn(i) \/ RefuseSpawn(i)
    PROVE  FamilyInv'
<1>1. /\ Registered(i) /\ UNCHANGED <<core, terminal, children, intent, pending, err>>
  BY DEF CommitSpawn, RefuseSpawn, registryVars, Registered
<1>2. /\ pc' \in [Invocations -> [Kinds -> Stages]]
      /\ \A j \in Invocations, l \in Kinds : pc'[j][l] # pc[j][l] => pc'[j][l] = "start"
  BY CommitSpawnStarts, RefuseSpawnStarts DEF Started
<1>3. ASSUME NEW j \in Invocations, NEW c \in SpawnedChildren(j)', c \notin SpawnedChildren(j)
      PROVE  c \in children[j] /\ core[j].claim = "none" /\ ~Ended(j)
  <2>1. /\ HasParent(i) /\ SpawnAllowed(i)
        /\ log' = [log EXCEPT ![Parent[i]] = Append(@, SpawnEvent(i))]
    BY <1>3 DEF CommitSpawn, RefuseSpawn, SpawnedChildren
  <2>2. Parent[i] \in Invocations /\ i \in children[Parent[i]]
    BY <1>1, <2>1, RuntimeAssumption DEF HasParent, RegistryInv, PlaceInv
  <2>3. PICK e \in LogEntry : e = SpawnEvent(i)
    BY DEF SpawnEvent, LogEntry, EventTypes, RunningEvents
  <2>4. j = Parent[i] /\ e = SpawnEvent(c) /\ c \in Invocations
    BY <1>3, <2>1, <2>2, <2>3, AppendSpawns DEF RegistryInv
  <2>5. c = i
    BY <2>3, <2>4 DEF SpawnEvent
  <2>6. core[j].claim = "none" /\ ~Ended(j)
    BY <2>1, <2>4 DEF SpawnAllowed, EmitAllowed, Ended, IsTerminal, TerminalStates
  <2> QED
    BY <2>2, <2>4, <2>5, <2>6
<1>4. ResultInv'
  <2>1. \A j \in Invocations : TimedOut(j)' => TimedOut(j)
    <3>1. "parent_deadline" \in Kinds
      BY DEF Kinds
    <3> QED
      BY <1>1, <1>2, <3>1 DEF TimedOut
  <2>2. ResultsKept
    BY <1>1, <2>1 DEF ResultsKept, Answered
  <2> QED
    BY <1>1, <2>2, CoresSame, ResultsHold DEF FamilyInv
<1>5. \A j \in Invocations, l \in Kinds : pc'[j][l] \in Finalizing => pc'[j][l] = pc[j][l]
  BY <1>2 DEF Finalizing
<1>6. OwnerInv'
  BY <1>1, <1>5 DEF FamilyInv, OwnerInv, MayFinalize
<1>7. PropagateInv'
  <2> SUFFICES ASSUME NEW j \in Invocations, NEW c \in SpawnedChildren(j)'
               PROVE  /\ c \in children'[j]
                      /\ \A l \in Kinds : Spreads(j, l)' => Ended(c)' \/ Due(j, l, c)'
    BY DEF PropagateInv
  <2>1. c \in children'[j]
    BY <1>1, <1>3 DEF FamilyInv, PropagateInv
  <2>2. ASSUME NEW l \in Kinds, Spreads(j, l)'
        PROVE  Ended(c)' \/ Due(j, l, c)'
    <3>1. Spreads(j, l) /\ pc'[j][l] = pc[j][l]
      BY <1>1, <1>5, <2>2 DEF Spreads
    <3>2. c \in SpawnedChildren(j)
      BY <1>3, <3>1 DEF Spreads, RegistryInv, ClaimedInv
    <3> QED
      BY <1>1, <3>1, <3>2 DEF FamilyInv, PropagateInv, Ended, Due
  <2> QED
    BY <2>1, <2>2
<1>8. SpawnedChildrenEndFirst'
  <2> SUFFICES ASSUME NEW p \in Invocations, core'[p].state \in {"CANCELLED", "TIMED_OUT"},
                      NEW c \in SpawnedChildren(p)'
               PROVE  IsTerminal(core'[c].state)
    BY DEF SpawnedChildrenEndFirst
  <2>1. Ended(p)
    BY <1>1 DEF Ended, IsTerminal, TerminalStates
  <2>2. c \in SpawnedChildren(p)
    BY <1>3, <2>1
  <2> QED
    BY <1>1, <2>2 DEF FamilyInv, SpawnedChildrenEndFirst
<1> QED
  BY <1>4, <1>6, <1>7, <1>8 DEF FamilyInv

\* Dispatch and suspension touch no goroutine.
LEMMA RegistryStepFamily ==
    ASSUME RegistryInv, FamilyInv, NEW i \in Invocations,
           \/ Reserve(i) \/ AbandonReservation(i) \/ StartCore(i) \/ Register(i)
           \/ Suspend(i)
    PROVE  FamilyInv'
<1>1. UNCHANGED <<pc, pending, terminal, intent, err, log>>
  BY DEF Reserve, AbandonReservation, StartCore, Register, Suspend
<1>2. SpawnsKept
  <2>1. CASE UNCHANGED children
    BY <1>1, <2>1, SpawnsSame
  <2>2. CASE Register(i)
    BY <1>1, <2>2, Shapes DEF Register, SpawnsKept, SpawnedChildren, RegistryInv
  <2> QED
    BY <2>1, <2>2 DEF Reserve, AbandonReservation, StartCore, Suspend, registryVars
<1>3. CoresGrow /\ EndsInOrder
  <2>1. CASE UNCHANGED core
    BY <2>1, CoresSame
  <2>2. CASE StartCore(i)
    <3>1. ~Ended(i) /\ core'[i].state = "RUNNING"
      BY <2>2, StartCoreEffect DEF StartCore, RegistryInv, PlaceInv, Registered, Ended
    <3>2. \A j \in Invocations : /\ core'[j].claim = core[j].claim
                                 /\ core'[j].finErr = core[j].finErr
                                 /\ j # i => core'[j] = core[j]
      BY <2>2, StartCoreEffect
    <3>3. CoresGrow
      BY <3>1, <3>2, Zenon DEF CoresGrow
    <3>4. EndsInOrder
      BY <3>1, <3>2 DEF EndsInOrder
    <3> QED
      BY <3>3, <3>4
  <2> QED
    BY <2>1, <2>2 DEF Reserve, AbandonReservation, Register, Suspend
<1> QED
  BY <1>1, <1>2, <1>3, StillKeepsFamily

\* No call, no child, no outcome.
LEMMA FamilyInit ==
    ASSUME Init
    PROVE  FamilyInv
<1>1. \A i \in Invocations : /\ core[i].state = "UNSPECIFIED" /\ ~terminal[i]
                             /\ intent[i].phase = "none" /\ log[i] = <<>>
  BY DEF Init, ForEach, NewCore
<1>2. \A i \in Invocations, k \in Kinds : pc[i][k] = "none"
  BY DEF Init, ForEach
<1>3. \A i \in Invocations : SpawnedChildren(i) = {}
  BY <1>1 DEF SpawnedChildren
<1>4. ResultInv
  <2>1. "parent_deadline" \in Kinds
    BY DEF Kinds
  <2> QED
    BY <1>1, <1>2, <2>1 DEF ResultInv, Answered, TimedOut
<1>5. OwnerInv /\ PropagateInv
  BY <1>2, <1>3 DEF OwnerInv, PropagateInv, Finalizing
<1>6. SpawnedChildrenEndFirst
  BY <1>3 DEF SpawnedChildrenEndFirst
<1> QED
  BY <1>4, <1>5, <1>6 DEF FamilyInv

\* Every step keeps the order of parents and children.
LEMMA FamilyStep ==
    ASSUME RegistryInv, FamilyInv, [Next]_vars
    PROVE  FamilyInv'
<1>1. {"dispatcher", "ability", "winner", "deadline", "parent_deadline"} = Kinds
      /\ Cancels \subseteq Owners /\ "deadline" \in Owners
      /\ "start" \notin Finalizing /\ "none" \notin Finalizing
  BY DEF Kinds, Cancels, Owners, Finalizing
<1>2. ASSUME NEW i \in Invocations,
             \/ Reserve(i) \/ AbandonReservation(i) \/ StartCore(i) \/ Register(i)
             \/ CommitSpawn(i) \/ RefuseSpawn(i) \/ ClaimUnstarted(i) \/ Suspend(i)
             \/ WinnerPanicked(i)
      PROVE  FamilyInv'
  BY <1>2, RegistryStepFamily, SpawnFamily, ClaimUnstartedFamily, WinnerPanickedFamily
<1>3. ASSUME NEW i \in Invocations, NEW owner \in {"completion", "failure"},
             AbilityReturns(i, owner)
      PROVE  FamilyInv'
  BY <1>3, AbilityReturnsFamily
<1>4. ASSUME NEW i \in Invocations, NEW c \in Invocations,
             CallerCancel(i) \/ CancelChild(c, i)
      PROVE  FamilyInv'
  <2>1. PICK owner \in Cancels : StartIntent(i, owner)
    BY <1>4 DEF CallerCancel, CancelChild, Cancels
  <2> QED
    BY <1>4, <2>1, StartIntentFamily DEF CallerCancel, CancelChild, registryVars
<1>5. ASSUME NEW i \in Invocations, WinnerClaims(i)
      PROVE  FamilyInv'
  <2>1. PICK owner \in Cancels : owner = intent[i].owner
    BY <1>5 DEF WinnerClaims, RegistryInv, ClaimedInv
  <2>2. ClaimWithChildren(i, "winner", owner)
    BY <1>5, <2>1 DEF WinnerClaims
  <2> QED
    BY <1>1, <1>5, <2>2, ClaimWithChildrenFamily DEF WinnerClaims, registryVars
<1>6. ASSUME NEW i \in Invocations, DeadlineFires(i)
      PROVE  FamilyInv'
  BY <1>1, <1>6, ClaimWithChildrenFamily DEF DeadlineFires, registryVars
<1>7. ASSUME NEW i \in Invocations, NEW k \in Kinds, NEW c \in Invocations,
             TimeoutChild(i, k, c)
      PROVE  FamilyInv'
  BY <1>1, <1>7, ClaimWithChildrenFamily DEF TimeoutChild, registryVars
<1>8. ASSUME NEW i \in Invocations, WatcherExits(i)
      PROVE  FamilyInv'
  BY <1>1, <1>8, SpawnsSame, PureMoveKeepsFamily DEF WatcherExits, registryVars, Finalizing
<1>9. ASSUME NEW i \in Invocations, NEW k \in Kinds,
             \/ SignalStop(i, k) \/ ChildrenEnded(i, k) \/ FinishCleanup(i, k)
             \/ EmitTerminal(i, k) \/ OnTerminal(i, k) \/ EmitChildTerminal(i, k)
             \/ CloseTerminal(i, k) \/ WaitTerminal(i, k)
      PROVE  FamilyInv'
  BY <1>9, SignalStopFamily, FinishCleanupFamily, EmitTerminalFamily, CallbackFamily,
     CloseTerminalFamily, WaitTerminalFamily
<1>10. ASSUME NEW i \in Invocations, NEW k \in Kinds, NEW c \in Invocations,
              AwaitChild(i, k, c)
       PROVE  FamilyInv'
  BY <1>10, AwaitChildFamily
<1>11. CASE UNCHANGED vars
  <2>1. UNCHANGED <<core, log, terminal, children, intent, pc, pending, err>>
    BY <1>11 DEF vars, registryVars
  <2> QED
    BY <2>1 DEF FamilyInv, ResultInv, OwnerInv, PropagateInv, SpawnedChildrenEndFirst,
                Ended, Answered, TimedOut, MayFinalize, Spreads, Due, SpawnedChildren
<1> QED
  BY <1>2, <1>3, <1>4, <1>5, <1>6, <1>7, <1>8, <1>9, <1>10, <1>11
     DEF Next, DispatchStep, FinalizeStep, CancelStep, DeadlineStep

\* "Parent cancellation and deadlines commit child terminal evidence before the parent
\* terminal receipt" (README.md:132-134), for any forest of invocations and whoever claims
\* parents and children in between.
THEOREM ChildrenEndFirst == Spec => []SpawnedChildrenEndFirst
<1>1. Init => FamilyInv
  BY FamilyInit
<1>2. RegistryInv /\ FamilyInv /\ [Next]_vars => FamilyInv'
  BY FamilyStep
<1>3. FamilyInv => SpawnedChildrenEndFirst
  BY DEF FamilyInv
<1> QED
  BY <1>1, <1>2, <1>3, RegistryInvariant, PTL DEF Spec

-------------------------------------------------------------------------------
(* The admission of caller-signed requests.                                    *)

\* The clock a call captured is not ahead of the wall clock, and the store it captured
\* exists, as does the store of every admission.
CaptureInv ==
    /\ \A c \in Calls : ~Under(c, "idle") =>
          calls[c].nowMs <= now /\ calls[c].store <= Len(stores)
    /\ \A i \in DOMAIN admitted : admitted[i].store <= Len(stores)

\* An admission is remembered by its store, with a clock reading not older than its
\* own, until the window that starts at that reading has passed on the wall clock.
RememberInv ==
    \A i \in DOMAIN admitted :
        LET st == stores[admitted[i].store] IN
        \/ /\ admitted[i].key \in DOMAIN st.seen
           /\ st.seen[admitted[i].key] >= admitted[i].nowMs
        \/ now > admitted[i].nowMs + st.windowMs

\* A store remembers only what it admitted.
SeenInv ==
    \A s \in 1 .. Len(stores) : \A k \in DOMAIN stores[s].seen :
        \E i \in DOMAIN admitted :
            /\ admitted[i].key = k /\ admitted[i].store = s
            /\ admitted[i].nowMs = stores[s].seen[k]

AdmissionInv ==
    /\ AdmissionTypeOK /\ CaptureInv /\ RememberInv /\ SeenInv
    /\ ReplayWindowKept /\ ReplayRefusalJustified

-------------------------------------------------------------------------------
\* Lemmas about the operators.

\* A set of remembered nonces is a function from some of the keys.
LEMMA NoncesDef ==
    ASSUME NEW f
    PROVE  f \in Nonces <=> DOMAIN f \subseteq Keys /\ f \in [DOMAIN f -> 0 .. MaxTime]
  BY DEF Nonces

\* What the pruning loop of checkAndRecord keeps.
LEMMA PrunedEffect ==
    ASSUME NEW f \in Nonces, NEW cutoff \in Int
    PROVE  /\ Pruned(f, cutoff) \in Nonces
           /\ DOMAIN Pruned(f, cutoff) = {k \in DOMAIN f : f[k] >= cutoff}
           /\ \A k \in DOMAIN Pruned(f, cutoff) : Pruned(f, cutoff)[k] = f[k]
<1> DEFINE P == Pruned(f, cutoff)
<1>1. DOMAIN f \subseteq Keys /\ f \in [DOMAIN f -> 0 .. MaxTime]
  BY NoncesDef
<1>2. /\ DOMAIN P = {k \in DOMAIN f : f[k] >= cutoff}
      /\ P = [k \in DOMAIN P |-> f[k]]
  BY DEF Pruned
<1>3. P \in [DOMAIN P -> 0 .. MaxTime] /\ DOMAIN P \subseteq Keys
  BY <1>1, <1>2
<1> HIDE DEF P
<1>4. P \in Nonces
  BY <1>3, NoncesDef
<1> QED
  BY <1>2, <1>4 DEF P

\* Registering a nonce.
LEMMA RecordedEffect ==
    ASSUME NEW f \in Nonces, NEW key \in Keys, NEW t \in 0 .. MaxTime
    PROVE  /\ Recorded(f, key, t) \in Nonces
           /\ DOMAIN Recorded(f, key, t) = DOMAIN f \cup {key}
           /\ Recorded(f, key, t)[key] = t
           /\ \A k \in DOMAIN f : k # key => Recorded(f, key, t)[k] = f[k]
<1> DEFINE R == Recorded(f, key, t)
<1>1. DOMAIN f \subseteq Keys /\ f \in [DOMAIN f -> 0 .. MaxTime]
  BY NoncesDef
<1>2. /\ DOMAIN R = DOMAIN f \cup {key}
      /\ R = [k \in DOMAIN R |-> IF k = key THEN t ELSE f[k]]
  BY DEF Recorded
<1>3. R \in [DOMAIN R -> 0 .. MaxTime] /\ DOMAIN R \subseteq Keys
  BY <1>1, <1>2
<1>4. R[key] = t /\ \A k \in DOMAIN f : k # key => R[k] = f[k]
  BY <1>2
<1> HIDE DEF R
<1>5. R \in Nonces
  BY <1>3, NoncesDef
<1> QED
  BY <1>2, <1>4, <1>5 DEF R

\* The lock of one store: its nonces change, its window and the other stores do not.
LEMMA StoreUpdate ==
    ASSUME AdmissionTypeOK, NEW s \in 1 .. Len(stores), NEW f \in Nonces,
           stores' = [stores EXCEPT ![s].seen = f]
    PROVE  /\ stores' \in Seq(Store) /\ Len(stores') = Len(stores)
           /\ stores'[s].seen = f
           /\ \A n \in 1 .. Len(stores) : stores'[n].windowMs = stores[n].windowMs
           /\ \A n \in 1 .. Len(stores) : n # s => stores'[n].seen = stores[n].seen
<1>1. stores \in Seq(Store) /\ Len(stores) \in Nat /\ DOMAIN stores = 1 .. Len(stores)
  BY DEF AdmissionTypeOK
<1>2. stores[s] \in Store
  BY <1>1
<1>3. PICK st : st = [windowMs |-> stores[s].windowMs, seen |-> f]
  OBVIOUS
<1>4. st \in Store /\ st.windowMs = stores[s].windowMs /\ st.seen = f
  BY <1>2, <1>3 DEF Store
<1>5. [stores[s] EXCEPT !.seen = f] = st
  BY <1>2, <1>3 DEF Store
<1>6. stores' = [stores EXCEPT ![s] = st]
  <2>1. stores' = [stores EXCEPT ![s] = [stores[s] EXCEPT !.seen = f]]
    OBVIOUS
  <2> QED
    BY <1>5, <2>1, Zenon
<1>7. /\ stores' \in Seq(Store) /\ Len(stores') = Len(stores)
      /\ stores'[s] = st
      /\ \A n \in 1 .. Len(stores) : n # s => stores'[n] = stores[n]
  BY <1>1, <1>4, <1>6
<1> QED
  BY <1>4, <1>7

-------------------------------------------------------------------------------
\* Type correctness.

\* A call that goes on or returns keeps its captured store and clock.
LEMMA CallMoves ==
    ASSUME AdmissionTypeOK, NEW c \in Calls, calls[c] \in Call,
           \/ CallGoes(c, "recording") \/ CallGoes(c, "replay") \/ Return(c)
    PROVE  /\ calls' \in [Calls -> {Idle} \cup Call]
           /\ \A b \in Calls : b # c => calls'[b] = calls[b]
           /\ calls'[c].pc # "idle" => /\ calls'[c].store = calls[c].store
                                       /\ calls'[c].nowMs = calls[c].nowMs
                                       /\ calls'[c].req = calls[c].req
<1>1. CASE Return(c)
  BY <1>1 DEF Return, AdmissionTypeOK, Idle
<1>2. ASSUME NEW to \in {"recording", "replay"}, CallGoes(c, to)
      PROVE  /\ calls' \in [Calls -> {Idle} \cup Call]
             /\ \A b \in Calls : b # c => calls'[b] = calls[b]
             /\ calls'[c].store = calls[c].store /\ calls'[c].nowMs = calls[c].nowMs
             /\ calls'[c].req = calls[c].req
  <2>1. calls' = [calls EXCEPT ![c] = [calls[c] EXCEPT !.pc = to]]
    BY <1>2 DEF CallGoes
  <2>2. PICK r : r = [calls[c] EXCEPT !.pc = to]
    OBVIOUS
  <2>3. r \in Call /\ r.store = calls[c].store /\ r.nowMs = calls[c].nowMs
        /\ r.req = calls[c].req
    BY <2>2 DEF Call
  <2>4. calls' = [calls EXCEPT ![c] = r]
    BY <2>1, <2>2, Zenon
  <2> QED
    BY <2>3, <2>4 DEF AdmissionTypeOK
<1> QED
  BY <1>1, <1>2

\* The types of the parts, as facts.
LEMMA Types ==
    ASSUME AdmissionTypeOK
    PROVE  /\ now \in 0 .. MaxTime /\ MaxTime \in Nat /\ MaxStores \in Nat
           /\ Len(stores) \in 1 .. MaxStores /\ DOMAIN stores = 1 .. Len(stores)
           /\ \A n \in 1 .. Len(stores) : /\ stores[n].windowMs \in Nat
                                          /\ stores[n].seen \in Nonces
           /\ Len(admitted) \in Nat /\ DOMAIN admitted = 1 .. Len(admitted)
           /\ \A i \in DOMAIN admitted :
                /\ admitted[i].key \in Keys /\ admitted[i].store \in 1 .. MaxStores
                /\ admitted[i].nowMs \in 0 .. MaxTime /\ admitted[i].at \in 0 .. MaxTime
           /\ \A c \in Calls : calls[c].pc = "idle" \/ calls[c] \in Call
<1>1. stores \in Seq(Store) /\ Len(stores) \in 1 .. MaxStores
  BY DEF AdmissionTypeOK
<1>2. \A n \in 1 .. Len(stores) : stores[n] \in Store
  BY <1>1
<1>3. \A n \in 1 .. Len(stores) : stores[n].windowMs \in Nat /\ stores[n].seen \in Nonces
  BY <1>2, AdmissionAssumption DEF Store
<1>4. admitted \in Seq(Admitted)
  BY DEF AdmissionTypeOK
<1>5. \A i \in DOMAIN admitted : admitted[i] \in Admitted
  BY <1>4
<1>6. \A i \in DOMAIN admitted :
        /\ admitted[i].key \in Keys /\ admitted[i].store \in 1 .. MaxStores
        /\ admitted[i].nowMs \in 0 .. MaxTime /\ admitted[i].at \in 0 .. MaxTime
  BY <1>5 DEF Admitted
<1>7. \A c \in Calls : calls[c].pc = "idle" \/ calls[c] \in Call
  BY DEF AdmissionTypeOK, Idle
<1> QED
  BY <1>1, <1>3, <1>4, <1>6, <1>7, AdmissionAssumption DEF AdmissionTypeOK

\* A step that admits nothing and forgets nothing leaves the history as good as it
\* was: the clock may advance and empty stores may be added.
LEMMA HistoryKept ==
    ASSUME AdmissionInv, AdmissionTypeOK', admitted' = admitted, now <= now',
           Len(stores) <= Len(stores'),
           \A n \in 1 .. Len(stores) : /\ stores'[n].windowMs = stores[n].windowMs
                                       /\ stores'[n].seen = stores[n].seen,
           \A n \in 1 .. Len(stores') : n > Len(stores) => DOMAIN stores'[n].seen = {}
    PROVE  /\ RememberInv' /\ SeenInv' /\ ReplayWindowKept'
           /\ \A i \in DOMAIN admitted : admitted[i].store <= Len(stores')
<1>1. /\ AdmissionTypeOK /\ now' \in Nat /\ Len(stores') \in Nat
  BY Types DEF AdmissionInv, AdmissionTypeOK
<1>2. \A i \in DOMAIN admitted : admitted[i].store \in 1 .. Len(stores)
  BY <1>1, Types DEF AdmissionInv, CaptureInv
<1>3. RememberInv'
  <2> SUFFICES ASSUME NEW i \in DOMAIN admitted
               PROVE  LET st == stores'[admitted[i].store] IN
                      \/ /\ admitted[i].key \in DOMAIN st.seen
                         /\ st.seen[admitted[i].key] >= admitted[i].nowMs
                      \/ now' > admitted[i].nowMs + st.windowMs
    BY DEF RememberInv
  <2>1. LET st == stores[admitted[i].store] IN
        \/ /\ admitted[i].key \in DOMAIN st.seen
           /\ st.seen[admitted[i].key] >= admitted[i].nowMs
        \/ now > admitted[i].nowMs + st.windowMs
    BY DEF AdmissionInv, RememberInv
  <2>2. stores[admitted[i].store].windowMs \in Nat /\ admitted[i].nowMs \in Nat
        /\ now \in Nat
    BY <1>1, <1>2, Types
  <2> QED
    BY <1>1, <1>2, <2>1, <2>2, SMTT(30)
<1>4. SeenInv'
  <2> SUFFICES ASSUME NEW n \in 1 .. Len(stores'), NEW k \in DOMAIN stores'[n].seen
               PROVE  \E i \in DOMAIN admitted :
                         /\ admitted[i].key = k /\ admitted[i].store = n
                         /\ admitted[i].nowMs = stores'[n].seen[k]
    BY DEF SeenInv
  <2>1. n \in 1 .. Len(stores) /\ stores'[n].seen = stores[n].seen
    BY <1>1, Types
  <2> QED
    BY <2>1 DEF AdmissionInv, SeenInv
<1>5. ReplayWindowKept'
  BY <1>2 DEF AdmissionInv, ReplayWindowKept
<1>6. \A i \in DOMAIN admitted : admitted[i].store <= Len(stores')
  BY <1>1, <1>2, Types
<1> QED
  BY <1>3, <1>4, <1>5, <1>6

\* A call that was refused stays justified while its locals, the windows and the
\* admissions stand.
LEMMA RefusalKept ==
    ASSUME AdmissionInv, NEW c \in Calls, calls[c].pc = "replay", calls'[c] = calls[c],
           \A n \in 1 .. Len(stores) : stores'[n].windowMs = stores[n].windowMs,
           DOMAIN admitted \subseteq DOMAIN admitted',
           \A i \in DOMAIN admitted : admitted'[i] = admitted[i]
    PROVE  \E i \in DOMAIN admitted' :
                /\ admitted'[i].key = calls'[c].req.key
                /\ admitted'[i].store = calls'[c].store
                /\ admitted'[i].nowMs >= calls'[c].nowMs - stores'[calls'[c].store].windowMs
<1>1. PICK i \in DOMAIN admitted :
        /\ admitted[i].key = calls[c].req.key /\ admitted[i].store = calls[c].store
        /\ admitted[i].nowMs >= calls[c].nowMs - stores[calls[c].store].windowMs
  BY DEF AdmissionInv, ReplayRefusalJustified, Under, Cutoff
<1>2. calls[c].store \in 1 .. Len(stores)
  <2>1. calls[c].store <= Len(stores)
    BY DEF AdmissionInv, CaptureInv, Under
  <2>2. AdmissionTypeOK /\ calls[c] \in Call
    BY Types DEF AdmissionInv
  <2>3. calls[c].store \in 1 .. MaxStores
    BY <2>2 DEF Call
  <2> QED
    BY <2>1, <2>2, <2>3, Types
<1> QED
  BY <1>1, <1>2

-------------------------------------------------------------------------------
\* The inductive step, action by action.

\* The wall clock advances.
LEMMA TickStep == ASSUME AdmissionInv, Tick PROVE AdmissionInv'
<1>1. /\ now' = now + 1 /\ now < MaxTime /\ stores' = stores /\ calls' = calls
      /\ admitted' = admitted /\ AdmissionTypeOK
  BY DEF Tick, AdmissionInv
<1>2. now \in Nat /\ Len(stores) \in Nat /\ MaxTime \in Nat
  BY <1>1, Types
<1>3. AdmissionTypeOK'
  BY <1>1, <1>2 DEF AdmissionTypeOK
<1>4. RememberInv' /\ SeenInv' /\ ReplayWindowKept'
  BY <1>1, <1>2, <1>3, HistoryKept
<1>5. CaptureInv'
  <2>1. \A c \in Calls : calls[c].pc # "idle" => calls[c].nowMs \in Nat
    BY <1>1, Types DEF Call
  <2> QED
    BY <1>1, <1>2, <2>1 DEF AdmissionInv, CaptureInv, Under
<1>6. ReplayRefusalJustified'
  BY <1>1 DEF AdmissionInv, ReplayRefusalJustified, Under, Cutoff
<1> QED
  BY <1>3, <1>4, <1>5, <1>6 DEF AdmissionInv

\* SetAdmissionDedupWindowMs: the calls under way keep the store they captured.
LEMMA SetDedupWindowStep ==
    ASSUME AdmissionInv, NEW w \in Windows, SetDedupWindow(w)
    PROVE  AdmissionInv'
<1>1. /\ now' = now /\ stores' = Append(stores, NewStore(w)) /\ calls' = calls
      /\ admitted' = admitted /\ AdmissionTypeOK /\ Len(stores) < MaxStores
  BY DEF SetDedupWindow, AdmissionInv
<1>2. PICK st : st = NewStore(w)
  OBVIOUS
<1>3. NoNonces \in Nonces /\ DOMAIN NoNonces = {}
  <2>1. DOMAIN NoNonces = {} /\ NoNonces \in [{} -> 0 .. MaxTime]
    BY DEF NoNonces
  <2> QED
    BY <2>1, NoncesDef
<1>4. st \in Store /\ DOMAIN st.seen = {}
  BY <1>2, <1>3 DEF NewStore, Store
<1>5. stores \in Seq(Store) /\ Len(stores) \in Nat /\ Len(stores) >= 1
      /\ MaxStores \in Nat /\ now \in Nat
  BY <1>1, Types DEF AdmissionTypeOK
<1>6. /\ stores' \in Seq(Store) /\ Len(stores') = Len(stores) + 1
      /\ \A n \in 1 .. Len(stores) : stores'[n] = stores[n]
      /\ stores'[Len(stores) + 1] = st
  BY <1>1, <1>2, <1>4, <1>5
<1>7. AdmissionTypeOK'
  BY <1>1, <1>5, <1>6 DEF AdmissionTypeOK
<1>8. \A n \in 1 .. Len(stores') : n > Len(stores) => DOMAIN stores'[n].seen = {}
  BY <1>4, <1>5, <1>6
<1>9. /\ RememberInv' /\ SeenInv' /\ ReplayWindowKept'
      /\ \A i \in DOMAIN admitted : admitted[i].store <= Len(stores')
  BY <1>1, <1>5, <1>6, <1>7, <1>8, HistoryKept
<1>10. CaptureInv'
  <2>1. \A c \in Calls : calls[c].pc # "idle" => calls[c].store \in Nat
    BY <1>1, Types DEF Call
  <2> QED
    BY <1>1, <1>5, <1>6, <1>9, <2>1 DEF AdmissionInv, CaptureInv, Under
<1>11. ReplayRefusalJustified'
  <2> SUFFICES ASSUME NEW c \in Calls, calls[c].pc = "replay"
               PROVE  \E i \in DOMAIN admitted' :
                /\ admitted'[i].key = calls'[c].req.key
                /\ admitted'[i].store = calls'[c].store
                /\ admitted'[i].nowMs >= calls'[c].nowMs - stores'[calls'[c].store].windowMs
    BY <1>1 DEF ReplayRefusalJustified, Under, Cutoff
  <2> QED
    BY <1>1, <1>6, RefusalKept
<1> QED
  BY <1>7, <1>9, <1>10, <1>11 DEF AdmissionInv

\* The start of a call: the store and the clock are read.
LEMMA InvokeStep ==
    ASSUME AdmissionInv, NEW c \in Calls, NEW q \in Request, Invoke(c, q)
    PROVE  AdmissionInv'
<1>1. /\ now' = now /\ stores' = stores /\ admitted' = admitted /\ AdmissionTypeOK
      /\ calls' = [calls EXCEPT ![c] = [pc |-> "verifying", req |-> q,
                                        store |-> Len(stores), nowMs |-> now]]
  BY DEF Invoke, AdmissionInv
<1>2. PICK r : r = [pc |-> "verifying", req |-> q, store |-> Len(stores), nowMs |-> now]
  OBVIOUS
<1>3. now \in 0 .. MaxTime /\ Len(stores) \in 1 .. MaxStores /\ Len(stores) \in Nat
      /\ now \in Nat
  BY <1>1, Types
<1>4. /\ r \in Call /\ r.pc = "verifying" /\ r.store = Len(stores) /\ r.nowMs = now
  BY <1>2, <1>3 DEF Call
<1>5. /\ calls' \in [Calls -> {Idle} \cup Call] /\ calls'[c] = r
      /\ \A b \in Calls : b # c => calls'[b] = calls[b]
  BY <1>1, <1>2, <1>4 DEF AdmissionTypeOK
<1>6. AdmissionTypeOK'
  BY <1>1, <1>5 DEF AdmissionTypeOK
<1>7. RememberInv' /\ SeenInv' /\ ReplayWindowKept'
  BY <1>1, <1>3, <1>6, HistoryKept
<1>8. CaptureInv'
  BY <1>1, <1>3, <1>4, <1>5 DEF AdmissionInv, CaptureInv, Under
<1>9. ReplayRefusalJustified'
  <2> SUFFICES ASSUME NEW b \in Calls, calls'[b].pc = "replay"
               PROVE  \E i \in DOMAIN admitted' :
                /\ admitted'[i].key = calls'[b].req.key
                /\ admitted'[i].store = calls'[b].store
                /\ admitted'[i].nowMs >= calls'[b].nowMs - stores'[calls'[b].store].windowMs
    BY DEF ReplayRefusalJustified, Under, Cutoff
  <2>1. b # c
    BY <1>4, <1>5
  <2>2. calls'[b] = calls[b] /\ calls[b].pc = "replay"
    BY <1>5, <2>1
  <2> QED
    BY <1>1, <2>2, RefusalKept
<1> QED
  BY <1>6, <1>7, <1>8, <1>9 DEF AdmissionInv

\* The stateless checks: no store is touched.
LEMMA VerifyStep ==
    ASSUME AdmissionInv, NEW c \in Calls, Verify(c)
    PROVE  AdmissionInv'
<1>1. /\ now' = now /\ stores' = stores /\ admitted' = admitted /\ AdmissionTypeOK
      /\ calls[c].pc = "verifying" /\ (CallGoes(c, "recording") \/ Return(c))
  BY DEF Verify, AdmissionInv, Under
<1>2. calls[c] \in Call
  BY <1>1, Types
<1>3. /\ calls' \in [Calls -> {Idle} \cup Call]
      /\ \A b \in Calls : b # c => calls'[b] = calls[b]
      /\ calls'[c].pc # "idle" => /\ calls'[c].store = calls[c].store
                                  /\ calls'[c].nowMs = calls[c].nowMs
                                  /\ calls'[c].req = calls[c].req
  BY <1>1, <1>2, CallMoves
<1>4. calls'[c].pc \in {"recording", "idle"}
  <2>1. CASE Return(c)
    BY <1>1, <2>1 DEF Return, AdmissionTypeOK, Idle
  <2>2. CASE CallGoes(c, "recording")
    <3>1. calls'[c] = [calls[c] EXCEPT !.pc = "recording"]
      BY <1>1, <2>2 DEF CallGoes, AdmissionTypeOK
    <3> QED
      BY <1>2, <3>1 DEF Call
  <2> QED
    BY <1>1, <2>1, <2>2
<1>5. AdmissionTypeOK'
  BY <1>1, <1>3 DEF AdmissionTypeOK
<1>6. now \in Nat /\ Len(stores) \in Nat
  BY <1>1, Types
<1>7. RememberInv' /\ SeenInv' /\ ReplayWindowKept'
  BY <1>1, <1>5, <1>6, HistoryKept
<1>8. CaptureInv'
  BY <1>1, <1>3 DEF AdmissionInv, CaptureInv, Under
<1>9. ReplayRefusalJustified'
  <2> SUFFICES ASSUME NEW b \in Calls, calls'[b].pc = "replay"
               PROVE  \E i \in DOMAIN admitted' :
                /\ admitted'[i].key = calls'[b].req.key
                /\ admitted'[i].store = calls'[b].store
                /\ admitted'[i].nowMs >= calls'[b].nowMs - stores'[calls'[b].store].windowMs
    BY DEF ReplayRefusalJustified, Under, Cutoff
  <2>1. b # c
    BY <1>4
  <2>2. calls'[b] = calls[b] /\ calls[b].pc = "replay"
    BY <1>3, <2>1
  <2> QED
    BY <1>1, <2>2, RefusalKept
<1> QED
  BY <1>5, <1>7, <1>8, <1>9 DEF AdmissionInv

\* What the pruning of checkAndRecord leaves in the store the call captured.
Kept(c) == Pruned(stores[calls[c].store].seen, Cutoff(c))

\* What checkAndRecord prunes is out of its window on the wall clock, since the
\* clock reading of the call is not ahead of it.
LEMMA PruneForgetsNothing ==
    ASSUME AdmissionInv, NEW c \in Calls, calls[c].pc = "recording"
    PROVE  /\ calls[c].store \in 1 .. Len(stores)
           /\ Kept(c) \in Nonces
           /\ \A k \in DOMAIN Kept(c) :
                 /\ k \in DOMAIN stores[calls[c].store].seen
                 /\ Kept(c)[k] = stores[calls[c].store].seen[k]
                 /\ Kept(c)[k] >= Cutoff(c)
           /\ \A i \in DOMAIN admitted : admitted[i].store = calls[c].store =>
                 \/ /\ admitted[i].key \in DOMAIN Kept(c)
                    /\ Kept(c)[admitted[i].key] >= admitted[i].nowMs
                 \/ now > admitted[i].nowMs + stores[calls[c].store].windowMs
<1>1. AdmissionTypeOK /\ calls[c] \in Call
  BY Types DEF AdmissionInv
<1>2. /\ calls[c].nowMs \in Nat /\ now \in Nat /\ calls[c].nowMs <= now
  BY <1>1, Types DEF Call, AdmissionInv, CaptureInv, Under
<1>3. PICK s \in 1 .. Len(stores) : s = calls[c].store
  <2>1. calls[c].store \in 1 .. MaxStores /\ calls[c].store <= Len(stores)
    BY <1>1 DEF Call, AdmissionInv, CaptureInv, Under
  <2> QED
    BY <1>1, <2>1, Types
<1> DEFINE kept == Kept(c)
<1>4. stores[s].windowMs \in Nat /\ stores[s].seen \in Nonces
  BY <1>1, Types
<1>5. Cutoff(c) = calls[c].nowMs - stores[s].windowMs /\ Cutoff(c) \in Int
  BY <1>3, <1>2, <1>4 DEF Cutoff
<1>6. /\ kept \in Nonces
      /\ DOMAIN kept = {k \in DOMAIN stores[s].seen : stores[s].seen[k] >= Cutoff(c)}
      /\ \A k \in DOMAIN kept : kept[k] = stores[s].seen[k]
  <2>1. PICK cut \in Int : cut = Cutoff(c)
    BY <1>5
  <2>2. PICK f \in Nonces : f = stores[s].seen
    BY <1>4
  <2>3. kept = Pruned(f, cut)
    BY <1>3, <2>1, <2>2, Zenon DEF Kept
  <2>4. /\ kept \in Nonces /\ DOMAIN kept = {k \in DOMAIN f : f[k] >= cut}
        /\ \A k \in DOMAIN kept : kept[k] = f[k]
    <3>1. /\ Pruned(f, cut) \in Nonces
          /\ DOMAIN Pruned(f, cut) = {k \in DOMAIN f : f[k] >= cut}
          /\ \A k \in DOMAIN Pruned(f, cut) : Pruned(f, cut)[k] = f[k]
      BY PrunedEffect
    <3> QED
      BY <2>3, <3>1, Zenon
  <2> QED
    BY <2>1, <2>2, <2>4
<1> HIDE DEF kept
<1>7. ASSUME NEW i \in DOMAIN admitted, admitted[i].store = s
      PROVE  \/ /\ admitted[i].key \in DOMAIN kept
                /\ kept[admitted[i].key] >= admitted[i].nowMs
             \/ now > admitted[i].nowMs + stores[s].windowMs
  <2>1. \/ /\ admitted[i].key \in DOMAIN stores[s].seen
           /\ stores[s].seen[admitted[i].key] >= admitted[i].nowMs
        \/ now > admitted[i].nowMs + stores[s].windowMs
    BY <1>7 DEF AdmissionInv, RememberInv
  <2>2. admitted[i].nowMs \in Nat
    BY <1>1, Types
  <2>3. CASE /\ admitted[i].key \in DOMAIN stores[s].seen
             /\ stores[s].seen[admitted[i].key] >= admitted[i].nowMs
    <3>1. PICK t \in Nat : t = stores[s].seen[admitted[i].key]
      BY <1>4, <2>3, NoncesDef
    <3>2. CASE t >= Cutoff(c)
      BY <1>6, <2>3, <3>1, <3>2
    <3>3. CASE ~(t >= Cutoff(c))
      BY <1>2, <1>4, <1>5, <2>2, <2>3, <3>1, <3>3, SMTT(30)
    <3> QED
      BY <3>2, <3>3
  <2> QED
    BY <2>1, <2>3
<1>8. \A k \in DOMAIN kept : /\ k \in DOMAIN stores[s].seen
                             /\ kept[k] = stores[s].seen[k] /\ kept[k] >= Cutoff(c)
  BY <1>6
<1> QED
  BY <1>3, <1>6, <1>7, <1>8, Zenon DEF kept

\* checkAndRecord refuses: the nonce is in the store, so it was admitted, with a clock
\* reading inside the window of the call.
LEMMA RefuseStep ==
    ASSUME AdmissionInv, NEW c \in Calls, calls[c].pc = "recording",
           calls[c].req.key \in DOMAIN Kept(c),
           stores' = [stores EXCEPT ![calls[c].store].seen = Kept(c)], CallGoes(c, "replay"),
           admitted' = admitted, now' = now
    PROVE  AdmissionInv'
<1>1. AdmissionTypeOK /\ calls[c] \in Call
  BY Types DEF AdmissionInv
<1>2. PICK s \in 1 .. Len(stores), kept \in Nonces : s = calls[c].store /\ kept = Kept(c)
  BY PruneForgetsNothing
<1>3. /\ kept \in Nonces
      /\ \A k \in DOMAIN kept : /\ k \in DOMAIN stores[s].seen
                                /\ kept[k] = stores[s].seen[k]
                                /\ kept[k] >= Cutoff(c)
      /\ \A i \in DOMAIN admitted : admitted[i].store = s =>
            \/ /\ admitted[i].key \in DOMAIN kept
               /\ kept[admitted[i].key] >= admitted[i].nowMs
            \/ now > admitted[i].nowMs + stores[s].windowMs
  BY <1>2, PruneForgetsNothing
<1>4. /\ stores' \in Seq(Store) /\ Len(stores') = Len(stores) /\ stores'[s].seen = kept
      /\ \A n \in 1 .. Len(stores) : stores'[n].windowMs = stores[n].windowMs
      /\ \A n \in 1 .. Len(stores) : n # s => stores'[n].seen = stores[n].seen
  <2>1. stores' = [stores EXCEPT ![s].seen = kept]
    BY <1>2, Zenon
  <2> QED
    BY <1>1, <2>1, StoreUpdate
<1>5. /\ calls' \in [Calls -> {Idle} \cup Call]
      /\ \A b \in Calls : b # c => calls'[b] = calls[b]
      /\ calls'[c].pc # "idle" => /\ calls'[c].store = calls[c].store
                                  /\ calls'[c].nowMs = calls[c].nowMs
                                  /\ calls'[c].req = calls[c].req
  BY <1>1, CallMoves
<1>6. AdmissionTypeOK'
  BY <1>1, <1>4, <1>5 DEF AdmissionTypeOK
<1>7. \A i \in DOMAIN admitted : admitted[i].store \in 1 .. Len(stores)
  BY <1>1, Types DEF AdmissionInv, CaptureInv
<1>8. CaptureInv'
  BY <1>4, <1>5, <1>7 DEF AdmissionInv, CaptureInv, Under
<1>9. RememberInv'
  <2> SUFFICES ASSUME NEW i \in DOMAIN admitted
               PROVE  LET st == stores'[admitted[i].store] IN
                      \/ /\ admitted[i].key \in DOMAIN st.seen
                         /\ st.seen[admitted[i].key] >= admitted[i].nowMs
                      \/ now > admitted[i].nowMs + st.windowMs
    BY DEF RememberInv
  <2>1. CASE admitted[i].store = s
    BY <1>3, <1>4, <2>1
  <2>2. CASE admitted[i].store # s
    BY <1>4, <1>7, <2>2 DEF AdmissionInv, RememberInv
  <2> QED
    BY <2>1, <2>2
<1>10. SeenInv'
  <2> SUFFICES ASSUME NEW n \in 1 .. Len(stores), NEW k \in DOMAIN stores'[n].seen
               PROVE  \E i \in DOMAIN admitted :
                         /\ admitted[i].key = k /\ admitted[i].store = n
                         /\ admitted[i].nowMs = stores'[n].seen[k]
    BY <1>4 DEF SeenInv
  <2>1. k \in DOMAIN stores[n].seen /\ stores'[n].seen[k] = stores[n].seen[k]
    BY <1>3, <1>4
  <2> QED
    BY <2>1 DEF AdmissionInv, SeenInv
<1>11. ReplayWindowKept'
  BY <1>4, <1>7 DEF AdmissionInv, ReplayWindowKept
<1>12. ReplayRefusalJustified'
  <2> SUFFICES ASSUME NEW b \in Calls, calls'[b].pc = "replay"
               PROVE  \E i \in DOMAIN admitted' :
                /\ admitted'[i].key = calls'[b].req.key
                /\ admitted'[i].store = calls'[b].store
                /\ admitted'[i].nowMs >= calls'[b].nowMs - stores'[calls'[b].store].windowMs
    BY DEF ReplayRefusalJustified, Under, Cutoff
  <2>1. CASE b # c
    BY <1>4, <1>5, <2>1, RefusalKept
  <2>2. CASE b = c
    <3>1. /\ calls'[c].store = s /\ calls'[c].nowMs = calls[c].nowMs
          /\ calls'[c].req = calls[c].req
      BY <1>5, <1>2, <2>2
    <3>2. PICK k \in DOMAIN kept : k = calls[c].req.key
      BY <1>2
    <3>3. k \in DOMAIN stores[s].seen /\ stores[s].seen[k] >= Cutoff(c)
      BY <1>3
    <3>4. PICK i \in DOMAIN admitted :
            /\ admitted[i].key = k /\ admitted[i].store = s
            /\ admitted[i].nowMs = stores[s].seen[k]
      BY <3>3 DEF AdmissionInv, SeenInv
    <3>5. admitted[i].nowMs >= calls[c].nowMs - stores[s].windowMs
      BY <1>2, <3>3, <3>4 DEF Cutoff
    <3> QED
      BY <1>4, <2>2, <3>1, <3>2, <3>4, <3>5
  <2> QED
    BY <2>1, <2>2
<1> QED
  BY <1>6, <1>8, <1>9, <1>10, <1>11, <1>12 DEF AdmissionInv

\* checkAndRecord admits: every earlier admission of the nonce is out of its window.
LEMMA AdmitStep ==
    ASSUME AdmissionInv, NEW c \in Calls, calls[c].pc = "recording",
           calls[c].req.key \notin DOMAIN Kept(c),
           stores' = [stores EXCEPT ![calls[c].store].seen =
                         Recorded(Kept(c), calls[c].req.key, calls[c].nowMs)],
           Return(c),
           admitted' = Append(admitted, [key |-> calls[c].req.key,
                                         store |-> calls[c].store,
                                         nowMs |-> calls[c].nowMs, at |-> now]),
           now' = now
    PROVE  AdmissionInv'
<1>1. AdmissionTypeOK /\ calls[c] \in Call
  BY Types DEF AdmissionInv
<1>2. PICK s \in 1 .. Len(stores), kept \in Nonces : s = calls[c].store /\ kept = Kept(c)
  BY PruneForgetsNothing
<1>3. /\ kept \in Nonces
      /\ \A k \in DOMAIN kept : /\ k \in DOMAIN stores[s].seen
                                /\ kept[k] = stores[s].seen[k]
                                /\ kept[k] >= Cutoff(c)
      /\ \A i \in DOMAIN admitted : admitted[i].store = s =>
            \/ /\ admitted[i].key \in DOMAIN kept
               /\ kept[admitted[i].key] >= admitted[i].nowMs
            \/ now > admitted[i].nowMs + stores[s].windowMs
  BY <1>2, PruneForgetsNothing
<1>4. PICK key \in Keys, t \in 0 .. MaxTime : key = calls[c].req.key /\ t = calls[c].nowMs
  BY <1>1 DEF Call, Request
<1>5. now \in 0 .. MaxTime /\ Len(stores) <= MaxStores /\ MaxTime \in Nat
      /\ key \notin DOMAIN kept
  BY <1>1, <1>2, <1>4, Types
<1>6. PICK f : f = Recorded(kept, key, t)
  OBVIOUS
<1>7. /\ f \in Nonces /\ DOMAIN f = DOMAIN kept \cup {key} /\ f[key] = t
      /\ \A k \in DOMAIN kept : k # key => f[k] = kept[k]
  <2>1. /\ Recorded(kept, key, t) \in Nonces
        /\ DOMAIN Recorded(kept, key, t) = DOMAIN kept \cup {key}
        /\ Recorded(kept, key, t)[key] = t
        /\ \A k \in DOMAIN kept : k # key => Recorded(kept, key, t)[k] = kept[k]
    BY RecordedEffect
  <2> QED
    BY <1>6, <2>1, Zenon
<1>8. /\ stores' \in Seq(Store) /\ Len(stores') = Len(stores) /\ stores'[s].seen = f
      /\ \A n \in 1 .. Len(stores) : stores'[n].windowMs = stores[n].windowMs
      /\ \A n \in 1 .. Len(stores) : n # s => stores'[n].seen = stores[n].seen
  <2>1. stores' = [stores EXCEPT ![s].seen = f]
    BY <1>6, <1>2, <1>4, Zenon
  <2> QED
    BY <1>1, <1>7, <2>1, StoreUpdate
<1>9. /\ calls' \in [Calls -> {Idle} \cup Call] /\ calls'[c].pc = "idle"
      /\ \A b \in Calls : b # c => calls'[b] = calls[b]
  BY <1>1 DEF Return, AdmissionTypeOK, Idle
<1>10. PICK e : e = [key |-> key, store |-> s, nowMs |-> t, at |-> now]
  OBVIOUS
<1>11. e \in Admitted /\ e.key = key /\ e.store = s /\ e.nowMs = t /\ e.at = now
  BY <1>1, <1>5, <1>10, Types DEF Admitted
<1>12. /\ admitted' \in Seq(Admitted) /\ Len(admitted) \in Nat
       /\ DOMAIN admitted = 1 .. Len(admitted)
       /\ DOMAIN admitted' = 1 .. Len(admitted) + 1
       /\ \A i \in DOMAIN admitted : admitted'[i] = admitted[i]
       /\ admitted'[Len(admitted) + 1] = e
  <2>1. admitted \in Seq(Admitted) /\ admitted' = Append(admitted, e)
    BY <1>1, <1>10, <1>2, <1>4 DEF AdmissionTypeOK
  <2> QED
    BY <1>11, <2>1
<1>13. AdmissionTypeOK'
  BY <1>1, <1>5, <1>8, <1>9, <1>12 DEF AdmissionTypeOK
<1>14. \A i \in DOMAIN admitted : admitted[i].store \in 1 .. Len(stores)
  BY <1>1, Types DEF AdmissionInv, CaptureInv
<1>15. CaptureInv'
  <2>1. ASSUME NEW b \in Calls, calls'[b].pc # "idle"
        PROVE  calls'[b].nowMs <= now /\ calls'[b].store <= Len(stores)
    BY <1>9, <2>1 DEF AdmissionInv, CaptureInv, Under
  <2>2. ASSUME NEW i \in DOMAIN admitted' PROVE admitted'[i].store <= Len(stores)
    <3>1. i \in DOMAIN admitted \/ i = Len(admitted) + 1
      BY <1>12
    <3> QED
      BY <1>1, <1>11, <1>12, <1>14, <3>1, Types
  <2> QED
    BY <1>8, <2>1, <2>2 DEF CaptureInv, Under
<1>16. ASSUME NEW i \in DOMAIN admitted, admitted[i].store = s, admitted[i].key = key
       PROVE  now > admitted[i].nowMs + stores[s].windowMs
  BY <1>3, <1>5, <1>16
<1>17. RememberInv'
  <2> SUFFICES ASSUME NEW i \in DOMAIN admitted'
               PROVE  LET st == stores'[admitted'[i].store] IN
                      \/ /\ admitted'[i].key \in DOMAIN st.seen
                         /\ st.seen[admitted'[i].key] >= admitted'[i].nowMs
                      \/ now > admitted'[i].nowMs + st.windowMs
    BY DEF RememberInv
  <2>1. CASE i = Len(admitted) + 1
    BY <1>5, <1>7, <1>8, <1>11, <1>12, <2>1
  <2>2. CASE i \in DOMAIN admitted /\ admitted[i].store = s
    <3>1. CASE admitted[i].key = key
      BY <1>8, <1>12, <1>16, <2>2, <3>1
    <3>2. CASE admitted[i].key # key
      BY <1>3, <1>7, <1>8, <1>12, <2>2, <3>2
    <3> QED
      BY <3>1, <3>2
  <2>3. CASE i \in DOMAIN admitted /\ admitted[i].store # s
    BY <1>8, <1>12, <1>14, <2>3 DEF AdmissionInv, RememberInv
  <2>4. i \in DOMAIN admitted \/ i = Len(admitted) + 1
    BY <1>12
  <2> QED
    BY <2>1, <2>2, <2>3, <2>4, Zenon
<1>18. SeenInv'
  <2> SUFFICES ASSUME NEW n \in 1 .. Len(stores), NEW k \in DOMAIN stores'[n].seen
               PROVE  \E i \in DOMAIN admitted' :
                         /\ admitted'[i].key = k /\ admitted'[i].store = n
                         /\ admitted'[i].nowMs = stores'[n].seen[k]
    BY <1>8 DEF SeenInv
  <2>1. CASE n = s /\ k = key
    <3>1. Len(admitted) + 1 \in DOMAIN admitted'
      BY <1>12
    <3> QED
      BY <1>7, <1>8, <1>11, <1>12, <2>1, <3>1
  <2>2. CASE ~(n = s /\ k = key)
    <3>1. k \in DOMAIN stores[n].seen /\ stores'[n].seen[k] = stores[n].seen[k]
      BY <1>3, <1>7, <1>8, <2>2
    <3>2. PICK i \in DOMAIN admitted :
            /\ admitted[i].key = k /\ admitted[i].store = n
            /\ admitted[i].nowMs = stores[n].seen[k]
      BY <3>1 DEF AdmissionInv, SeenInv
    <3>3. i \in DOMAIN admitted'
      BY <1>12
    <3> QED
      BY <1>12, <3>1, <3>2, <3>3
  <2> QED
    BY <2>1, <2>2
<1>19. ReplayWindowKept'
  <2> SUFFICES ASSUME NEW i \in DOMAIN admitted', NEW j \in DOMAIN admitted', i < j,
                      admitted'[i].key = admitted'[j].key,
                      admitted'[i].store = admitted'[j].store
               PROVE  admitted'[j].at >
                        admitted'[i].nowMs + stores'[admitted'[i].store].windowMs
    BY DEF ReplayWindowKept
  <2>1. i \in DOMAIN admitted
    BY <1>12
  <2>2. CASE j \in DOMAIN admitted
    BY <1>8, <1>12, <1>14, <2>1, <2>2, SMTT(30) DEF AdmissionInv, ReplayWindowKept
  <2>3. CASE j = Len(admitted) + 1
    BY <1>8, <1>11, <1>12, <1>16, <2>1, <2>3
  <2> QED
    BY <1>12, <2>2, <2>3
<1>20. ReplayRefusalJustified'
  <2> SUFFICES ASSUME NEW b \in Calls, calls'[b].pc = "replay"
               PROVE  \E i \in DOMAIN admitted' :
                /\ admitted'[i].key = calls'[b].req.key
                /\ admitted'[i].store = calls'[b].store
                /\ admitted'[i].nowMs >= calls'[b].nowMs - stores'[calls'[b].store].windowMs
    BY DEF ReplayRefusalJustified, Under, Cutoff
  <2>1. calls'[b] = calls[b] /\ calls[b].pc = "replay"
    BY <1>9
  <2>2. DOMAIN admitted \subseteq DOMAIN admitted'
    BY <1>12
  <2> QED
    BY <1>8, <1>12, <2>1, <2>2, RefusalKept
<1> QED
  BY <1>13, <1>15, <1>17, <1>18, <1>19, <1>20 DEF AdmissionInv

\* checkAndRecord.
LEMMA CheckAndRecordStep ==
    ASSUME AdmissionInv, NEW c \in Calls, CheckAndRecord(c)
    PROVE  AdmissionInv'
<1>1. calls[c].pc = "recording" /\ now' = now
  BY DEF CheckAndRecord, Under
<1>2. CASE calls[c].req.key \in DOMAIN Kept(c)
  <2>1. /\ stores' = [stores EXCEPT ![calls[c].store].seen = Kept(c)]
        /\ CallGoes(c, "replay") /\ admitted' = admitted
    BY <1>2, Zenon DEF CheckAndRecord, Kept
  <2> QED
    BY <1>1, <1>2, <2>1, RefuseStep
<1>3. CASE calls[c].req.key \notin DOMAIN Kept(c)
  <2>1. /\ stores' = [stores EXCEPT ![calls[c].store].seen =
                         Recorded(Kept(c), calls[c].req.key, calls[c].nowMs)]
        /\ Return(c)
        /\ admitted' = Append(admitted, [key |-> calls[c].req.key,
                                         store |-> calls[c].store,
                                         nowMs |-> calls[c].nowMs, at |-> now])
    BY <1>3, Zenon DEF CheckAndRecord, Kept
  <2> QED
    BY <1>1, <1>3, <2>1, AdmitStep
<1> QED
  BY <1>2, <1>3

\* One empty store, no call and no admission.
LEMMA AdmissionInitEstablishes == AdmissionInit => AdmissionInv
<1> SUFFICES ASSUME AdmissionInit PROVE AdmissionInv
  OBVIOUS
<1>1. PICK w \in Windows : stores = <<NewStore(w)>>
  BY DEF AdmissionInit
<1>2. PICK st : st = NewStore(w)
  OBVIOUS
<1>3. st \in Store /\ DOMAIN st.seen = {}
  <2>1. DOMAIN NoNonces = {} /\ NoNonces \in [{} -> 0 .. MaxTime]
    BY DEF NoNonces
  <2>2. NoNonces \in Nonces
    BY <2>1, NoncesDef
  <2> QED
    BY <1>2, <2>1, <2>2 DEF NewStore, Store
<1>4. stores \in Seq(Store) /\ Len(stores) = 1 /\ stores[1] = st
  BY <1>1, <1>2, <1>3
<1>5. /\ now = 0 /\ admitted = <<>> /\ calls = [c \in Calls |-> Idle]
      /\ \A c \in Calls : calls[c].pc = "idle"
  BY DEF AdmissionInit, Idle
<1>6. AdmissionTypeOK
  BY <1>4, <1>5, AdmissionAssumption DEF AdmissionTypeOK
<1>7. CaptureInv /\ RememberInv /\ ReplayWindowKept /\ ReplayRefusalJustified
  BY <1>5 DEF CaptureInv, RememberInv, ReplayWindowKept, ReplayRefusalJustified, Under
<1>8. SeenInv
  BY <1>3, <1>4 DEF SeenInv
<1> QED
  BY <1>6, <1>7, <1>8 DEF AdmissionInv

\* The inductive invariant of the admission, under every interleaving of slow and fast
\* calls with replacements of the store.
THEOREM AdmissionInvariant == AdmissionSpec => []AdmissionInv
<1>1. AdmissionInv /\ [AdmissionNext]_admissionVars => AdmissionInv'
  <2> SUFFICES ASSUME AdmissionInv, [AdmissionNext]_admissionVars PROVE AdmissionInv'
    OBVIOUS
  <2>1. CASE Tick
    BY <2>1, TickStep
  <2>2. ASSUME NEW w \in Windows, SetDedupWindow(w) PROVE AdmissionInv'
    BY <2>2, SetDedupWindowStep
  <2>3. ASSUME NEW c \in Calls, NEW q \in Request, Invoke(c, q) PROVE AdmissionInv'
    BY <2>3, InvokeStep
  <2>4. ASSUME NEW c \in Calls, Verify(c) PROVE AdmissionInv'
    BY <2>4, VerifyStep
  <2>5. ASSUME NEW c \in Calls, CheckAndRecord(c) PROVE AdmissionInv'
    BY <2>5, CheckAndRecordStep
  <2>6. CASE UNCHANGED admissionVars
    <3>1. now' = now /\ stores' = stores /\ calls' = calls /\ admitted' = admitted
      BY <2>6 DEF admissionVars
    <3> QED
      BY <3>1 DEF AdmissionInv, AdmissionTypeOK, CaptureInv, RememberInv, SeenInv,
                  ReplayWindowKept, ReplayRefusalJustified, Under, Cutoff
  <2> QED
    BY <2>1, <2>2, <2>3, <2>4, <2>5, <2>6 DEF AdmissionNext
<1> QED
  BY <1>1, AdmissionInitEstablishes, PTL DEF AdmissionSpec

\* Type correctness of the clock, the stores, the calls and the history.
THEOREM AdmissionTypeCorrect == AdmissionSpec => []AdmissionTypeOK
<1>1. AdmissionInv => AdmissionTypeOK
  BY DEF AdmissionInv
<1> QED
  BY <1>1, AdmissionInvariant, PTL

\* Replay protection: one store admits a nonce again only after its window has passed
\* on the wall clock, although checkAndRecord prunes by the clock of the call.
THEOREM ReplayWindowsKept == AdmissionSpec => []ReplayWindowKept
<1>1. AdmissionInv => ReplayWindowKept
  BY DEF AdmissionInv
<1> QED
  BY <1>1, AdmissionInvariant, PTL

\* AXON_NONCE_REPLAY is told only to a call whose nonce was admitted inside its window:
\* a request that failed verification never poisons the store.
THEOREM ReplayRefusalsJustified == AdmissionSpec => []ReplayRefusalJustified
<1>1. AdmissionInv => ReplayRefusalJustified
  BY DEF AdmissionInv
<1> QED
  BY <1>1, AdmissionInvariant, PTL
===============================================================================
