------------------------------ MODULE ReceiptAudit ------------------------------
(***************************************************************************)
(* One invocation's receipts from the provider that issues them to the     *)
(* auditor that accepts them: admission binds a context (receipt_provider  *)
(* .go), the provider signs a chain of receipts over their canonical bytes *)
(* (axiom.go), the chain is projected to JSON (bundle.go), the bundle      *)
(* travels and may arrive incomplete, reordered or with a field changed,   *)
(* and an auditor decodes it, verifies each receipt, walks the chain       *)
(* (audit.go) and proves the authority (receipt_verbs.go).                 *)
(*                                                                         *)
(* The signed fields no check looks into (type, state, timestamp, nonce,   *)
(* reason, cleanup, usage) are one field, content.  The fields that are    *)
(* not signed (child id, content type, key hint) are one field, notes.     *)
(***************************************************************************)
EXTENDS Authority, FiniteSets

CONSTANTS
    Id,             \* the invocation
    Caller, Callee, Subject, Ability,   \* of the admitted envelope
    Bindings,       \* authority bindings a policy may return
    ProofPayloads,  \* payloads of authority proofs
    Causals,        \* causal contexts of the envelope
    Hosts,          \* {} if the callee signs, {identity} if a host does
    Contents, Payloads,
    Keys,           \* URAs the auditor's resolver knows
    Grants,         \* the grants issuers have signed
    Changes(_),     \* the ReceiptJSONs one changed field makes of one
    MaxReceipts,    \* bound: receipts issued
    MaxDamage,      \* bound: changes to the bundle
    MaxTime         \* bound: the auditor's clock

ASSUME AuditAssumption ==
    /\ MaxReceipts \in Nat /\ MaxDamage \in Nat /\ MaxTime \in Nat
    /\ \A c \in Causals : c = [form |-> c.form, refs |-> c.refs]

\* The fields Go's types give a binding: the constructors of Authority leave nothing
\* else to set, and a delegation has one audience and no session.
ASSUME BindingsAssumption ==
    \A b \in Bindings :
        IF IsBootstrap(b) THEN b = BootstrapAuthority(b.principal, b.realm, b.ability)
        ELSE LET e == b.evidence IN
             /\ b = AuthorityBinding(b.form, b.authority, e)
             /\ e = [issuer |-> e.issuer, session |-> e.session, scopes |-> e.scopes,
                     audiences |-> e.audiences, issuedAt |-> e.issuedAt,
                     expiresAt |-> e.expiresAt, signature |-> e.signature]
             /\ e.audiences \in Seq(Pattern)
             /\ b.form = "self+identity" => e = NoEvidence
             /\ b.form = "delegated_by+delegation" => Len(e.audiences) = 1 /\ e.session = Blank

\* Profiles are constants of the package, a signing authority has at most one host,
\* and the auditor's resolver knows whoever signs.
ASSUME SignersAssumption ==
    /\ Id # Blank
    /\ \A i \in {Caller, Callee, Subject} : ProfileParses(i)
    /\ Callee.ura \in Keys
    /\ \A host \in Hosts : \A h \in host :
          host = {h} /\ ProfileParses(h) /\ h.ura \in Keys

\* A signature made with a key the auditor's resolver knows; anything else of that
\* length verifies nowhere.
SignedByKnown(signature) == HasSignatureSize(signature) /\ signature[1] \in Keys

\* What the issuer of a grant signs: the binding it gives, without its signature.
GrantBinding(g, profile) ==
    AuthorityBinding(g.form, Identity(g.authority, profile),
        [issuer |-> Identity(g.issuer, Strict), session |-> g.session,
         scopes |-> g.scopes, audiences |-> g.audiences, issuedAt |-> g.issuedAt,
         expiresAt |-> g.expiresAt, signature |-> <<>>])

GrantSignature(g) ==
    SignatureOf(g.issuer,
        IF g.form = "session_of+session" THEN SessionPayload(GrantBinding(g, Strict))
        ELSE DelegationPayload(GrantBinding(g, Strict), Identity(g.delegatee, Strict)))

\* Grants are not forged: a signature on a binding by a known key is the one of a grant.
ASSUME GrantsAssumption ==
    /\ \A g \in Grants :
          /\ g.form \in {"delegated_by+delegation", "session_of+session"}
          /\ g.form = "delegated_by+delegation" => g.audiences = <<g.audiences[1]>>
    /\ \A b \in Bindings :
          ~IsBootstrap(b) /\ SignedByKnown(b.evidence.signature) =>
             \E g \in Grants : b.evidence.signature = GrantSignature(g)

VARIABLES
    context,   \* {} or the BoundReceiptContext
    issued,    \* the signed chain of the provider
    bundle,    \* the ReceiptJSONs in transit
    damage,    \* changes to the bundle so far
    phase,     \* "issuing", "transit", "reading", or what the auditor found
    verified,  \* the receipts the auditor has verified
    proved,    \* the proofs of authority: [position, at]
    now        \* the auditor's clock

vars == <<context, issued, bundle, damage, phase, verified, proved, now>>

Verdicts == {"accepted", "broken", "rejected", "panicked"}

-------------------------------------------------------------------------------
(* Facts and canonical bytes.                                                  *)

\* entityRefKindForSubjectURA.
KindOfRole == [agent |-> "agent", service |-> "agent", ability |-> "ability",
               device |-> "device", resource |-> "resource", session |-> "session",
               continuation |-> "continuation", state |-> "state_object"]

\* EntityRefForSubject: {} when the role has no kind.
EntityRefForSubject(subject) ==
    IF Role(subject.ura) \in DOMAIN KindOfRole
    THEN {[kind |-> KindOfRole[Role(subject.ura)], entity |-> subject]}
    ELSE {}

\* ParseAbilityDescriptorRef.
IsDescriptorRef(ability) == Len(ability) = 3

DescriptorVersion(ability) == SubSeq(ability, 3, 3)

\* enumerableParentReceipts: a Merkle root names no parents.
ParentReceipts(causal) ==
    IF causal.form \in {"scalar", "list"} THEN causal.refs ELSE <<>>

RefsValid(refs) == \A k \in DOMAIN refs : refs[k].hash # ZeroHash /\ refs[k].ura # Blank

\* validateReceiptProofFactsSemantics; NewReceiptProofFacts panics where it fails.
FactsComplete(facts) ==
    /\ facts.subjectRef.entity.ura # Blank
    /\ facts.version # Blank /\ facts.env # Blank
    /\ ZeroHash \notin {facts.schema, facts.impl, facts.input, facts.output}
    /\ validateCompleteAuthorityProof(facts.proof)
    /\ RefsValid(facts.parents)

\* CanonicalAuthorityProofBytes.
CanonicalProof(proof) ==
    <<proof.type, {CanonicalAuthority(b) : b \in proof.binding}, proof.payload,
      proof.hash, proof.issuer, proof.signature, proof.hook>>

\* CanonicalReceiptProofFacts.
CanonicalFacts(facts) ==
    <<facts.subjectRef, facts.version, facts.schema, facts.impl, facts.env,
      CanonicalProof(facts.proof), facts.input, facts.output, facts.parents>>

CausalForms == {"none", "scalar", "list", "merkle"}

\* A scalar without its reference or a form that is none of the constants: only a
\* struct literal has one.
IsMalformed(causal) ==
    causal.form \notin CausalForms \/ (causal.form = "scalar" /\ causal.refs = <<>>)

\* CanonicalCausalContext: no byte for a malformed one.
CanonicalCausal(causal) ==
    IF IsMalformed(causal) THEN <<>> ELSE <<causal.form, causal.refs>>

\* Fault: the causal context is signed only through the parents it names.
CanonicalReceiptNoCausal(r) ==
    <<"receipt", r.index, r.id, r.content, r.prev, r.caller, r.callee, r.subject,
      r.digest, r.hosted, r.ability,
      CanonicalAuthority(r.authority), CanonicalFacts(r.facts)>>

\* CanonicalReceiptBytesWithHosted: what is signed and hashed.
CanonicalReceipt(r) ==
    <<"receipt", r.index, r.id, r.content, r.prev, r.caller, r.callee, r.subject,
      CanonicalCausal(r.causal), r.digest, r.hosted, r.ability,
      CanonicalAuthority(r.authority), CanonicalFacts(r.facts)>>

SelfHash(r) == Sha256(CanonicalReceipt(r))

\* CanonicalHostAttestationBytes.
HostAttestationBytes(callee, signer) == <<"host-attest:v1", callee.ura, signer.ura>>

\* VerifyHostAttestation with ValidateHostedAttestationAuthority.
HostAttested(callee, hosted) ==
    /\ Role(callee.ura) \in {"agent", "service"}
    /\ Role(hosted.signer.ura) = "device"
    /\ Realm(callee.ura) = Realm(hosted.signer.ura)
    /\ HasSignatureSize(hosted.attestation)
    /\ hosted.attestation = SignatureOf(hosted.signer.ura,
                                        HostAttestationBytes(callee, hosted.signer))

-------------------------------------------------------------------------------
(* The provider.                                                               *)

\* The proof a policy returns for its binding.
PolicyProof(binding, payload) ==
    LET draft == [type |-> <<"policy">>, binding |-> {binding}, payload |-> payload,
                  hash |-> ZeroHash, issuer |-> {Callee}, signature |-> {},
                  hook |-> <<"admission">>]
    IN  [draft EXCEPT !.hash = ExpectedHash(draft)]

\* proofFactsForOutput.
ProofFacts(ctx, output) ==
    [subjectRef |-> ctx.subjectRef, version |-> DescriptorVersion(Ability),
     schema |-> Sha256(<<"schema">>), impl |-> Sha256(<<"impl">>), env |-> <<"go">>,
     proof |-> ctx.proof, input |-> Sha256(<<"args">>), output |-> Sha256(output),
     parents |-> ParentReceipts(ctx.causal)]

Init ==
    /\ context = {} /\ issued = <<>> /\ bundle = <<>> /\ damage = 0
    /\ phase = "issuing" /\ verified = <<>> /\ proved = {} /\ now = 0

\* NewVerifiedAdmissionPolicy, newVerifiedDescriptorBoundAdmission and
\* bindReceiptContext.
Admit(binding, payload, causal) ==
    /\ context = {}
    /\ validateAuthorityBinding(Caller, Subject, Ability, binding)
    /\ validateAuthorityProof(PolicyProof(binding, payload), binding, Callee)
    /\ \E ref \in EntityRefForSubject(Subject) :
         LET ctx == [authority |-> binding, proof |-> PolicyProof(binding, payload),
                     causal |-> causal, subjectRef |-> ref] IN
         /\ IsDescriptorRef(Ability)
         /\ FactsComplete(ProofFacts(ctx, <<"probe">>))
         /\ context' = {ctx}
    /\ UNCHANGED <<issued, bundle, damage, phase, verified, proved, now>>

\* The hosted tail of a signing authority: none, or its identity and attestation.
Hosted(host) ==
    {[signer |-> h, attestation |-> SignatureOf(h.ura, HostAttestationBytes(Callee, h))]
        : h \in host}

\* The draft AppendSignedReceipt signs.
Draft(index, prev, ctx, content, payload, host) ==
    [index |-> index, id |-> Id, content |-> content, prev |-> prev,
     caller |-> Caller, callee |-> Callee, subject |-> Subject,
     causal |-> ctx.causal, digest |-> Sha256(payload), hosted |-> Hosted(host),
     ability |-> Ability, authority |-> ctx.authority,
     facts |-> ProofFacts(ctx, payload), payload |-> payload, notes |-> "issued",
     self |-> ZeroHash, alg |-> "ed25519", signature |-> <<>>]

Signer(host) == IF host = {} THEN Callee ELSE CHOOSE h \in host : TRUE

\* Its self hash and the signature of the callee or of its host.
Sealed(r, host) ==
    [r EXCEPT !.self = SelfHash(r),
              !.signature = SignatureOf(Signer(host).ura, CanonicalReceipt(r))]

\* AppendSignedReceipt, signed by the callee or by its host.
Issue(content, payload, host) ==
    /\ phase = "issuing" /\ Len(issued) < MaxReceipts
    /\ \A h \in Hosted(host) : HostAttested(Callee, h)
    /\ \E ctx \in context :
         LET prev == IF issued = <<>> THEN ZeroHash ELSE SelfHash(Last(issued)) IN
         issued' = Append(issued, Sealed(Draft(Len(issued), prev, ctx, content, payload,
                                               host), host))
    /\ UNCHANGED <<context, bundle, damage, phase, verified, proved, now>>

-------------------------------------------------------------------------------
(* The bundle.                                                                 *)

\* AuthorityProofFromProof.
FactsToJSON(facts) == [facts EXCEPT !.proof.binding = {AuthorityToJSON(b) : b \in @}]

\* The optional signer_binding and host_attestation_hex of a receipt.
SignerToJSON(hosted) == {h.signer : h \in hosted}

AttestationToJSON(hosted) ==
    IF hosted = {} THEN <<>> ELSE (CHOOSE h \in hosted : TRUE).attestation

CausalFromCtx(causal) ==
    IF IsMalformed(causal) THEN [form |-> "none", refs |-> <<>>] ELSE causal

\* ProjectSignedInvocationReceipt.
Project(r) ==
    [index |-> r.index, id |-> r.id, content |-> r.content, prev |-> r.prev,
     digest |-> r.digest, caller |-> r.caller, callee |-> r.callee,
     subject |-> r.subject, causal |-> CausalFromCtx(r.causal), ability |-> r.ability,
     authority |-> AuthorityToJSON(r.authority),
     facts |-> FactsToJSON(r.facts),
     alg |-> r.alg, signature |-> r.signature, self |-> {r.self},
     payload |-> {r.payload}, notes |-> r.notes,
     signer |-> SignerToJSON(r.hosted), attestation |-> AttestationToJSON(r.hosted)]

\* The chain leaves the provider.
Export ==
    /\ phase = "issuing" /\ issued # <<>>
    /\ bundle' = [k \in DOMAIN issued |-> Project(issued[k])]
    /\ phase' = "transit"
    /\ UNCHANGED <<context, issued, damage, verified, proved, now>>

\* The fields of a ReceiptJSON that Go's types fix: a bootstrap object has three, a
\* delegation at most one audience, a scalar causal context its reference; causal
\* contexts, proof facts and proofs are structs.
IsAuthorityJSON(a) ==
    IF IsBootstrap(a) THEN a = BootstrapAuthority(a.principal, a.realm, a.ability)
    ELSE a.audience \in Seq(Pattern) /\ Len(a.audience) <= 1 /\ a.audiences \in Seq(Pattern)

IsReceiptJSON(j) ==
    LET f == j.facts IN
    /\ j.causal = [form |-> j.causal.form, refs |-> j.causal.refs]
    /\ j.causal.form = "scalar" => j.causal.refs # <<>>
    /\ IsAuthorityJSON(j.authority)
    /\ \A a \in f.proof.binding : IsAuthorityJSON(a)
    /\ f = [subjectRef |-> f.subjectRef, version |-> f.version, schema |-> f.schema,
            impl |-> f.impl, env |-> f.env, proof |-> f.proof, input |-> f.input,
            output |-> f.output, parents |-> f.parents]
    /\ f.proof = [type |-> f.proof.type, binding |-> f.proof.binding,
                  payload |-> f.proof.payload, hash |-> f.proof.hash,
                  issuer |-> f.proof.issuer, signature |-> f.proof.signature,
                  hook |-> f.proof.hook]

\* Signatures are not forged: one by a known key is one the provider made, for this
\* receipt or for another.
Unforged(j) ==
    SignedByKnown(j.signature) => \E k \in DOMAIN issued : j.signature = issued[k].signature

\* A bundle is a file: receipts are left out, repeated, exchanged, or changed.
Damage ==
    /\ phase = "transit" /\ damage < MaxDamage
    /\ damage' = damage + 1
    /\ \E k \in DOMAIN bundle :
         \/ bundle' = RemoveAt(bundle, k)
         \/ bundle' = InsertAt(bundle, k, bundle[k])
         \/ k < Len(bundle) /\ bundle' = [bundle EXCEPT ![k] = bundle[k + 1],
                                                        ![k + 1] = bundle[k]]
         \/ \E j \in Changes(bundle[k]) : /\ IsReceiptJSON(j) /\ Unforged(j)
                                          /\ bundle' = [bundle EXCEPT ![k] = j]
    /\ UNCHANGED <<context, issued, phase, verified, proved, now>>

\* The auditor opens the bundle.
Open ==
    /\ phase = "transit"
    /\ phase' = "reading"
    /\ UNCHANGED <<context, issued, bundle, damage, verified, proved, now>>

-------------------------------------------------------------------------------
(* The auditor.                                                                *)

\* What ToUnverifiedReceipt and the UnmarshalJSONs refuse before they build the
\* proof facts.
Decodes(j) ==
    /\ j.id # Blank /\ j.causal.form \in CausalForms
    /\ \A i \in {j.caller, j.callee, j.subject} \cup j.signer \cup j.facts.proof.issuer :
          ProfileParses(i)
    /\ \A a \in {j.authority} \cup j.facts.proof.binding :
          AuthorityDecodes(a) /\ JSONComplete(a)
    /\ ZeroHash \notin {j.facts.schema, j.facts.impl, j.facts.input, j.facts.output}
    /\ j.facts.version # Blank /\ j.facts.env # Blank
    /\ RefsValid(j.facts.parents)
    /\ j.signer = {} => j.attestation = <<>>
    /\ \A p \in j.payload : Sha256(p) = j.digest /\ Sha256(p) = j.facts.output

\* The proof facts of a decoded receipt, as NewReceiptProofFacts receives them.
FactsOf(j) ==
    [j.facts EXCEPT !.proof.binding = {AuthorityOfJSON(a) : a \in @}]

HostedOf(signer, attestation) == {[signer |-> s, attestation |-> attestation] : s \in signer}

\* The record ToUnverifiedReceipt builds, its self hash computed unless given.
Decoded(j) ==
    LET r == [index |-> j.index, id |-> j.id, content |-> j.content, prev |-> j.prev,
              caller |-> j.caller, callee |-> j.callee, subject |-> j.subject,
              causal |-> j.causal, digest |-> j.digest,
              hosted |-> HostedOf(j.signer, j.attestation),
              ability |-> j.ability, authority |-> AuthorityOfJSON(j.authority),
              facts |-> FactsOf(j),
              payload |-> IF j.payload = {} THEN Blank ELSE CHOOSE p \in j.payload : TRUE,
              notes |-> j.notes, self |-> ZeroHash, alg |-> j.alg,
              signature |-> j.signature]
    IN  [r EXCEPT !.self = IF j.self = {} THEN SelfHash(r) ELSE CHOOSE h \in j.self : TRUE]

\* validateReceiptRecordSemantics, which ToUnverifiedReceipt checks too.
SemanticsValid(r) ==
    /\ validateAuthorityBinding(r.caller, r.subject, r.ability, r.authority)
    /\ validateAuthorityProof(r.facts.proof, r.authority, r.callee)
    /\ {r.facts.subjectRef} = EntityRefForSubject(r.subject)
    /\ IsDescriptorRef(r.ability)
    /\ r.facts.version = DescriptorVersion(r.ability)
    /\ r.facts.parents = ParentReceipts(r.causal)

\* VerifyReceiptSignatureWithHosted.
SignatureVerifies(r) ==
    LET signer == IF r.hosted = {} THEN r.callee.ura
                  ELSE (CHOOSE h \in r.hosted : TRUE).signer.ura IN
    /\ r.alg = "ed25519" /\ HasSignatureSize(r.signature)
    /\ signer \in Keys
    /\ \A h \in r.hosted : HostAttested(r.callee, h)
    /\ r.signature = SignatureOf(signer, CanonicalReceipt(r))

\* ToUnverifiedReceipt and UnverifiedReceipt.Verify.
Accepts(j) ==
    /\ SemanticsValid(Decoded(j))
    /\ SignatureVerifies(Decoded(j))
    /\ Decoded(j).self = SelfHash(Decoded(j))

\* The auditor reads the next receipt; the first it refuses ends the audit.
Read ==
    /\ phase = "reading" /\ Len(verified) < Len(bundle)
    /\ LET j == bundle[Len(verified) + 1] IN
         \/ /\ ~Decodes(j)
            /\ phase' = "rejected" /\ UNCHANGED verified
         \/ /\ Decodes(j) /\ ~FactsComplete(FactsOf(j))
            /\ phase' = "panicked" /\ UNCHANGED verified
         \/ /\ Decodes(j) /\ FactsComplete(FactsOf(j)) /\ ~Accepts(j)
            /\ phase' = "rejected" /\ UNCHANGED verified
         \/ /\ Decodes(j) /\ FactsComplete(FactsOf(j)) /\ Accepts(j)
            /\ verified' = Append(verified, Decoded(j)) /\ UNCHANGED phase
    /\ UNCHANGED <<context, issued, bundle, damage, proved, now>>

\* VerifyReceiptChain.
ChainLinked(receipts) ==
    \A k \in DOMAIN receipts :
        /\ receipts[k].index = k - 1
        /\ receipts[k].prev = IF k = 1 THEN ZeroHash ELSE SelfHash(receipts[k - 1])
        /\ receipts[k].self = SelfHash(receipts[k])

\* The auditor walks the chain of the receipts it has verified.
Walk ==
    /\ phase = "reading" /\ Len(verified) = Len(bundle)
    /\ phase' = IF ChainLinked(verified) THEN "accepted" ELSE "broken"
    /\ UNCHANGED <<context, issued, bundle, damage, verified, proved, now>>

\* The auditor asks for the authority of a receipt.
Prove(k) ==
    /\ phase = "accepted" /\ ProveAuthority(verified[k], Keys, now)
    /\ proved' = proved \cup {[position |-> k, at |-> now]}
    /\ UNCHANGED <<context, issued, bundle, damage, phase, verified, now>>

\* The wall clock, which only ProveAuthority reads.
Tick ==
    /\ phase = "accepted" /\ now < MaxTime
    /\ now' = now + 1
    /\ UNCHANGED <<context, issued, bundle, damage, phase, verified, proved>>

Next ==
    \/ \E b \in Bindings, p \in ProofPayloads, c \in Causals : Admit(b, p, c)
    \/ \E c \in Contents, p \in Payloads, h \in Hosts : Issue(c, p, h)
    \/ Export
    \/ Damage
    \/ Open
    \/ Read
    \/ Walk
    \/ \E k \in DOMAIN verified : Prove(k)
    \/ Tick

Spec == Init /\ [][Next]_vars

-------------------------------------------------------------------------------
(* Properties.                                                                 *)

\* The phases follow the shape of the state.
TypeOK ==
    /\ Cardinality(context) <= 1
    /\ phase \in {"issuing", "transit", "reading"} \cup Verdicts
    /\ damage \in 0 .. MaxDamage /\ now \in 0 .. MaxTime
    /\ Len(issued) <= MaxReceipts /\ Len(verified) <= Len(bundle)

\* Every field of a receipt but its payload, notes, self hash and signature.
SignedFields ==
    {"index", "id", "content", "prev", "caller", "callee", "subject", "causal",
     "digest", "hosted", "ability", "authority", "facts"}

\* Whatever happened to the bundle, an audit that ends with an unbroken chain of
\* verified receipts has the first receipts the provider issued, in every signed
\* field, and no other payload than theirs (CanonicalReceiptBytesWithHosted,
\* UnverifiedReceipt.Verify, VerifyReceiptChain).
AcceptedIsIssued ==
    phase = "accepted" =>
        /\ Len(verified) <= Len(issued)
        /\ \A k \in DOMAIN verified :
             /\ \A f \in SignedFields : verified[k][f] = issued[k][f]
             /\ verified[k].payload \in {Blank, issued[k].payload}

\* The JSON of a binding has no profiles: identities in it come back strict.
StrictBinding(b) ==
    ~IsBootstrap(b) =>
        /\ b.authority = Identity(b.authority.ura, Strict)
        /\ b.form # "self+identity" =>
              b.evidence.issuer = Identity(b.evidence.issuer.ura, Strict)

\* What a ReceiptJSON can carry: strict authorities and a causal context with its parts.
Portable(ctx) == StrictBinding(ctx.authority) /\ ~IsMalformed(ctx.causal)

\* A bundle that arrives as it left is accepted, and the receipts the auditor holds
\* are the ones the provider issued (ProjectSignedInvocationReceipt against
\* ToUnverifiedReceipt), where the admitted context is portable.  Admission does not ask
\* for that: a web-safe authority is admitted and signed, comes back strict
\* (bundle.go:362) and is rejected, or panics where its proof hashes the binding
\* (axiom.go:906).
IssuedSurvivesExport ==
    damage = 0 /\ phase \in Verdicts /\ (\A ctx \in context : Portable(ctx)) =>
        phase = "accepted" /\ verified = issued

\* What a grant an issuer signed is good for, whatever a binding made of it.
Covers(g, r, at) ==
    /\ g.form = r.authority.form /\ g.authority = r.authority.authority.ura
    /\ IF g.form = "session_of+session"
       THEN g.issuer = r.caller.ura /\ g.authority = r.subject.ura
       ELSE g.delegatee = r.caller.ura
    /\ ScopesAdmit(g.scopes, r.ability) /\ AudiencesAdmit(g.audiences, r.callee.ura)
    /\ at < g.expiresAt

\* A proof of delegated or session authority rests on a grant its issuer signed for
\* this caller, this authority, this ability and this callee, and that had not
\* expired (ProveAuthority); self and bootstrap authority are the caller's own.
ProofsRestOnGrants ==
    \A p \in proved :
        LET r == issued[p.position] IN
        CASE IsBootstrap(r.authority) -> r.authority.principal = Caller.ura
          [] r.authority.form = "self+identity" -> r.authority.authority.ura = Caller.ura
          [] OTHER -> \E g \in Grants : Covers(g, r, p.at)

===============================================================================
