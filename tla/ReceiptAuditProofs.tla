--------------------------- MODULE ReceiptAuditProofs ---------------------------
(***************************************************************************)
(* What an audit of receipts establishes, for chains of any length, any    *)
(* number of changes to the bundle and any change that forges nothing.     *)
(***************************************************************************)
EXTENDS ReceiptAudit, SequenceTheorems, FiniteSetTheorems, TLAPS

-------------------------------------------------------------------------------
(* The inductive invariant.                                                    *)

IsSequence(s) == s \in Seq(Range(s))

\* What Admit has checked of the context it binds.
ContextInv ==
    \A ctx \in context :
        /\ ctx.authority \in Bindings /\ ctx.causal \in Causals
        /\ \E p \in ProofPayloads : ctx.proof = PolicyProof(ctx.authority, p)
        /\ validateAuthorityBinding(Caller, Subject, Ability, ctx.authority)
        /\ validateAuthorityProof(ctx.proof, ctx.authority, Callee)
        /\ ctx.subjectRef \in EntityRefForSubject(Subject)
        /\ IsDescriptorRef(Ability)
        /\ FactsComplete(ProofFacts(ctx, <<"probe">>))

\* The link of the receipt at a position of a chain.
PrevAt(chain, k) == IF k = 1 THEN ZeroHash ELSE SelfHash(chain[k - 1])

\* A receipt AppendSignedReceipt makes.
IssuedAs(r, index, prev) ==
    \E ctx \in context, content \in Contents, payload \in Payloads, host \in Hosts :
        /\ \A h \in Hosted(host) : HostAttested(Callee, h)
        /\ r = Sealed(Draft(index, prev, ctx, content, payload, host), host)

ChainInv ==
    /\ IsSequence(issued)
    /\ \A k \in DOMAIN issued : IssuedAs(issued[k], k - 1, PrevAt(issued, k))

BundleInv ==
    /\ IsSequence(bundle)
    /\ \A k \in DOMAIN bundle : IsReceiptJSON(bundle[k]) /\ Unforged(bundle[k])

\* A receipt the auditor verified says what an issued one says.
Matches(v, r) ==
    /\ \A f \in SignedFields : v[f] = r[f]
    /\ v.payload \in {Blank, r.payload}

VerifiedInv ==
    /\ IsSequence(verified) /\ Len(verified) <= Len(bundle)
    /\ \A k \in DOMAIN verified : \E i \in DOMAIN issued : Matches(verified[k], issued[i])

\* Without damage the auditor reads what was projected, which is the chain itself where
\* the context is portable.
FaithfulInv ==
    /\ damage \in Nat
    /\ damage = 0 /\ phase # "issuing" =>
          bundle = [k \in DOMAIN issued |-> Project(issued[k])]
    /\ damage = 0 /\ (\A ctx \in context : Portable(ctx)) =>
        /\ phase \notin {"broken", "rejected", "panicked"}
        /\ \A k \in DOMAIN verified : verified[k] = issued[k]
        /\ phase = "accepted" => verified = issued

PhaseInv ==
    /\ phase = "issuing" => bundle = <<>>
    /\ phase \in {"issuing", "transit"} => verified = <<>>
    /\ phase # "accepted" => proved = {}
    /\ \A p \in proved : p.position \in DOMAIN verified

AuditInv ==
    /\ ContextInv /\ ChainInv /\ BundleInv /\ VerifiedInv /\ FaithfulInv /\ PhaseInv
    /\ AcceptedIsIssued /\ ProofsRestOnGrants

-------------------------------------------------------------------------------
(* Bindings and their canonical bytes.                                         *)

Forms == {"self+identity", "delegated_by+delegation", "session_of+session"}

\* A binding of a known form that Go's types allow.
WellFormed(b) ==
    IF IsBootstrap(b) THEN b = BootstrapAuthority(b.principal, b.realm, b.ability)
    ELSE LET e == b.evidence IN
         /\ b.form \in Forms
         /\ b = AuthorityBinding(b.form, b.authority, e)
         /\ e = [issuer |-> e.issuer, session |-> e.session, scopes |-> e.scopes,
                 audiences |-> e.audiences, issuedAt |-> e.issuedAt,
                 expiresAt |-> e.expiresAt, signature |-> e.signature]
         /\ e.audiences \in Seq(Pattern)
         /\ b.form = "self+identity" => e = NoEvidence
         /\ b.form = "delegated_by+delegation" => Len(e.audiences) = 1 /\ e.session = Blank

\* The gate lets only known forms through.
LEMMA GatedIsWellFormed ==
    ASSUME NEW b \in Bindings, NEW caller, NEW subject, NEW ability,
           validateAuthorityBinding(caller, subject, ability, b)
    PROVE  WellFormed(b)
<1>1. CASE IsBootstrap(b)
  BY <1>1, BindingsAssumption DEF WellFormed
<1>2. CASE ~IsBootstrap(b)
  <2>1. b.form \in Forms
    BY <1>2 DEF validateAuthorityBinding, Forms
  <2> QED
    BY <1>2, <2>1, BindingsAssumption DEF WellFormed
<1> QED
  BY <1>1, <1>2

\* ToBinding makes a well-formed binding of what UnmarshalJSON lets through.
LEMMA DecodedIsWellFormed ==
    ASSUME NEW a, IsAuthorityJSON(a), AuthorityDecodes(a), JSONComplete(a)
    PROVE  WellFormed(AuthorityOfJSON(a))
<1> DEFINE b == AuthorityOfJSON(a)
<1>1. CASE IsBootstrap(a)
  <2>1. b = a
    BY <1>1 DEF AuthorityOfJSON, IsBootstrap
  <2>2. a = BootstrapAuthority(a.principal, a.realm, a.ability)
    BY <1>1 DEF IsAuthorityJSON
  <2>3. WellFormed(a)
    BY <1>1, <2>2 DEF WellFormed
  <2> QED
    BY <2>1, <2>3
<1>2. CASE ~IsBootstrap(a) /\ a.form = "self+identity"
  <2>1. b = AuthorityBinding("self+identity", Identity(a.authority, Strict), NoEvidence)
    BY <1>2 DEF AuthorityOfJSON, SelfAuthority
  <2>2. b.form = "self+identity" /\ b.evidence = NoEvidence /\ ~IsBootstrap(b)
        /\ b.authority = Identity(a.authority, Strict)
    BY <2>1 DEF AuthorityBinding, IsBootstrap
  <2>3. NoEvidence.audiences \in Seq(Pattern)
    BY DEF NoEvidence
  <2> HIDE DEF b
  <2>4. WellFormed(b)
    BY <2>1, <2>2, <2>3 DEF WellFormed, NoEvidence, Forms
  <2> QED
    BY <2>4 DEF b
<1>3. CASE ~IsBootstrap(a) /\ a.form \in {"delegated_by+delegation", "session_of+session"}
  <2> DEFINE e == [issuer |-> Identity(a.issuer, Strict), session |-> a.session,
                   scopes |-> a.scopes, audiences |-> a.audience \o a.audiences,
                   issuedAt |-> a.issuedAt, expiresAt |-> a.expiresAt,
                   signature |-> a.signature]
  <2>1. b = AuthorityBinding(a.form, Identity(a.authority, Strict), e)
    BY <1>3 DEF AuthorityOfJSON
  <2>2. /\ b.form = a.form /\ b.evidence = e /\ ~IsBootstrap(b)
        /\ b.authority = Identity(a.authority, Strict)
    BY <1>3, <2>1 DEF AuthorityBinding, IsBootstrap
  <2>3. a.audience \in Seq(Pattern) /\ Len(a.audience) <= 1 /\ a.audiences \in Seq(Pattern)
    BY <1>3 DEF IsAuthorityJSON
  <2>4. e.audiences \in Seq(Pattern)
    BY <2>3
  <2>5. a.form = "delegated_by+delegation" => Len(e.audiences) = 1 /\ e.session = Blank
    <3> SUFFICES ASSUME a.form = "delegated_by+delegation"
                 PROVE  Len(e.audiences) = 1 /\ e.session = Blank
      OBVIOUS
    <3>1. a.session = Blank /\ a.audiences = <<>>
      BY <1>3 DEF AuthorityDecodes, AllowedFields, Fields, Blank
    <3>2. a.audience # <<>>
      BY <1>3 DEF JSONComplete
    <3>3. a.audience \o a.audiences = a.audience /\ Len(a.audience) = 1
      <4>1. a.audience \o <<>> = a.audience
        BY <2>3, ConcatEmptySeq
      <4>2. Len(a.audience) \in Nat \ {0}
        BY <2>3, <3>2, EmptySeq
      <4>3. PICK n \in Nat \ {0} : n = Len(a.audience)
        BY <4>2
      <4>4. n = 1
        <5>1. n <= 1
          BY <2>3, <4>3, Zenon
        <5> QED
          BY <5>1
      <4> QED
        BY <3>1, <4>1, <4>3, <4>4, Zenon
    <3> QED
      BY <3>1, <3>3
  <2>6. e = [issuer |-> e.issuer, session |-> e.session, scopes |-> e.scopes,
             audiences |-> e.audiences, issuedAt |-> e.issuedAt,
             expiresAt |-> e.expiresAt, signature |-> e.signature]
    OBVIOUS
  <2> HIDE DEF b, e
  <2>7. WellFormed(b)
    BY <1>3, <2>1, <2>2, <2>4, <2>5, <2>6 DEF WellFormed, Forms
  <2> QED
    BY <2>7 DEF b
<1> QED
  BY <1>1, <1>2, <1>3 DEF AuthorityDecodes

\* The first part of the canonical bytes of an authority can be read back.
LEMMA PairConcat ==
    ASSUME NEW f, NEW a, NEW S, NEW s \in Seq(S)
    PROVE  /\ (<<f, a>> \o s)[1] = f /\ (<<f, a>> \o s)[2] = a
           /\ Len(<<f, a>> \o s) = 2 + Len(s)
           /\ \A i \in 1 .. Len(s) : (<<f, a>> \o s)[i + 2] = s[i]
<1> DEFINE T == S \cup {f, a}
<1>1. <<f, a>> \in Seq(T) /\ s \in Seq(T)
  BY SeqMonotonic
<1>2. Len(<<f, a>>) = 2 /\ <<f, a>>[1] = f /\ <<f, a>>[2] = a
  OBVIOUS
<1> HIDE DEF T
<1> QED
  BY <1>1, <1>2, ConcatProperties, LenProperties

LEMMA PairConcatInjective ==
    ASSUME NEW f, NEW a, NEW S, NEW s \in Seq(S),
           NEW g, NEW c, NEW T, NEW t \in Seq(T), <<f, a>> \o s = <<g, c>> \o t
    PROVE  f = g /\ a = c /\ s = t
<1>1. f = g /\ a = c
  BY PairConcat
<1>2. Len(s) = Len(t)
  <2>1. Len(s) \in Nat /\ Len(t) \in Nat
    OBVIOUS
  <2> QED
    BY <2>1, PairConcat
<1>3. \A i \in 1 .. Len(s) : s[i] = t[i]
  BY <1>2, PairConcat
<1>4. s \in Seq(S \cup T) /\ t \in Seq(S \cup T)
  BY SeqMonotonic
<1> QED
  BY <1>1, <1>2, <1>3, <1>4, SeqEqual

\* CanonicalAuthorityOrBootstrapBytes gives different bindings different bytes.
LEMMA CanonicalAuthorityInjective ==
    ASSUME NEW b, NEW c, WellFormed(b), WellFormed(c),
           CanonicalAuthority(b) = CanonicalAuthority(c)
    PROVE  b = c
<1>1. ASSUME NEW x, WellFormed(x), ~IsBootstrap(x)
      PROVE  /\ CanonicalAuthority(x) = <<x.form, x.authority>> \o EvidencePayload(x)
             /\ x.form \in Forms
             /\ \E S : EvidencePayload(x) \in Seq(S)
  <2>1. x.form \in Forms
    BY <1>1 DEF WellFormed
  <2>2. CASE x.form = "self+identity"
    <3>1. EvidencePayload(x) = <<>>
      BY <2>2 DEF EvidencePayload
    <3> QED
      BY <1>1, <2>1, <3>1 DEF CanonicalAuthority
  <2>3. CASE x.form = "delegated_by+delegation"
    <3> DEFINE e == x.evidence
    <3>1. EvidencePayload(x) = <<e.issuer, e.scopes, e.audiences[1], e.issuedAt,
                                 e.expiresAt, e.signature>>
      BY <2>3 DEF EvidencePayload
    <3> HIDE DEF e
    <3>2. EvidencePayload(x) \in Seq({e.issuer, e.scopes, e.audiences[1], e.issuedAt,
                                      e.expiresAt, e.signature})
      BY <3>1
    <3> QED
      BY <1>1, <2>1, <3>2 DEF CanonicalAuthority
  <2>4. CASE x.form = "session_of+session"
    <3> DEFINE e == x.evidence
    <3>1. EvidencePayload(x) = <<e.issuer, e.session, e.scopes, e.audiences, e.issuedAt,
                                 e.expiresAt, e.signature>>
      BY <2>4 DEF EvidencePayload
    <3> HIDE DEF e
    <3>2. EvidencePayload(x) \in Seq({e.issuer, e.session, e.scopes, e.audiences,
                                      e.issuedAt, e.expiresAt, e.signature})
      BY <3>1
    <3> QED
      BY <1>1, <2>1, <3>2 DEF CanonicalAuthority
  <2> QED
    BY <2>1, <2>2, <2>3, <2>4 DEF Forms
<1>2. ASSUME NEW x, WellFormed(x), IsBootstrap(x), NEW y, WellFormed(y), ~IsBootstrap(y)
      PROVE  CanonicalAuthority(x) # CanonicalAuthority(y)
  <2>1. CanonicalAuthority(x)[1] = "bootstrap"
    BY <1>2 DEF CanonicalAuthority
  <2>2. CanonicalAuthority(y)[1] = y.form
    <3>1. PICK S : EvidencePayload(y) \in Seq(S)
      BY <1>1, <1>2
    <3>2. CanonicalAuthority(y) = <<y.form, y.authority>> \o EvidencePayload(y)
      BY <1>1, <1>2
    <3> QED
      BY <3>1, <3>2, PairConcat
  <2> QED
    BY <1>2, <2>1, <2>2 DEF IsBootstrap
<1>3. CASE IsBootstrap(b) /\ IsBootstrap(c)
  <2>1. /\ b.principal = c.principal /\ b.realm = c.realm /\ b.ability = c.ability
    BY <1>3 DEF CanonicalAuthority
  <2> QED
    BY <1>3, <2>1 DEF WellFormed
<1>4. CASE ~IsBootstrap(b) /\ ~IsBootstrap(c)
  <2>1. b.form = c.form /\ b.authority = c.authority
        /\ EvidencePayload(b) = EvidencePayload(c)
    <3>1. PICK u, v : u = EvidencePayload(b) /\ v = EvidencePayload(c)
      OBVIOUS
    <3>2. PICK S, T : u \in Seq(S) /\ v \in Seq(T)
      BY <1>1, <1>4, <3>1
    <3>3. <<b.form, b.authority>> \o u = <<c.form, c.authority>> \o v
      BY <1>1, <1>4, <3>1
    <3>4. b.form = c.form /\ b.authority = c.authority /\ u = v
      BY <3>2, <3>3, PairConcatInjective, SMTT(30)
    <3> QED
      BY <3>1, <3>4, Zenon
  <2>2. CASE b.form = "self+identity"
    BY <1>4, <2>1, <2>2 DEF WellFormed
  <2>3. CASE b.form = "delegated_by+delegation"
    <3> DEFINE e == b.evidence  d == c.evidence
    <3>1. <<e.issuer, e.scopes, e.audiences[1], e.issuedAt, e.expiresAt, e.signature>>
        = <<d.issuer, d.scopes, d.audiences[1], d.issuedAt, d.expiresAt, d.signature>>
      BY <2>1, <2>3 DEF EvidencePayload
    <3>2. /\ e.issuer = d.issuer /\ e.scopes = d.scopes
          /\ e.audiences[1] = d.audiences[1] /\ e.issuedAt = d.issuedAt
          /\ e.expiresAt = d.expiresAt /\ e.signature = d.signature
      BY <3>1
    <3>3. /\ e.audiences \in Seq(Pattern) /\ Len(e.audiences) = 1 /\ e.session = Blank
          /\ d.audiences \in Seq(Pattern) /\ Len(d.audiences) = 1 /\ d.session = Blank
      BY <1>4, <2>1, <2>3 DEF WellFormed
    <3>4. e.audiences = d.audiences
      BY <3>2, <3>3, SeqEqual
    <3> QED
      BY <1>4, <2>1, <3>2, <3>3, <3>4 DEF WellFormed
  <2>4. CASE b.form = "session_of+session"
    <3> DEFINE e == b.evidence  d == c.evidence
    <3>1. <<e.issuer, e.session, e.scopes, e.audiences, e.issuedAt, e.expiresAt, e.signature>>
        = <<d.issuer, d.session, d.scopes, d.audiences, d.issuedAt, d.expiresAt, d.signature>>
      BY <2>1, <2>4 DEF EvidencePayload
    <3>2. /\ e.issuer = d.issuer /\ e.session = d.session /\ e.scopes = d.scopes
          /\ e.audiences = d.audiences /\ e.issuedAt = d.issuedAt
          /\ e.expiresAt = d.expiresAt /\ e.signature = d.signature
      BY <3>1
    <3> QED
      BY <1>4, <2>1, <3>2 DEF WellFormed
  <2> QED
    BY <1>1, <1>4, <2>2, <2>3, <2>4 DEF Forms
<1> QED
  BY <1>2, <1>3, <1>4

-------------------------------------------------------------------------------
(* Receipts and their canonical bytes.                                         *)

\* Canonical bytes are read back field by field.
LEMMA CanonicalReceiptFields ==
    ASSUME NEW v, NEW r, CanonicalReceipt(v) = CanonicalReceipt(r)
    PROVE  /\ v.index = r.index /\ v.id = r.id /\ v.content = r.content /\ v.prev = r.prev
           /\ v.caller = r.caller /\ v.callee = r.callee /\ v.subject = r.subject
           /\ CanonicalCausal(v.causal) = CanonicalCausal(r.causal)
           /\ v.digest = r.digest /\ v.hosted = r.hosted /\ v.ability = r.ability
           /\ CanonicalAuthority(v.authority) = CanonicalAuthority(r.authority)
           /\ CanonicalFacts(v.facts) = CanonicalFacts(r.facts)
<1>1. /\ CanonicalReceipt(v)[2] = CanonicalReceipt(r)[2]
      /\ CanonicalReceipt(v)[3] = CanonicalReceipt(r)[3]
      /\ CanonicalReceipt(v)[4] = CanonicalReceipt(r)[4]
      /\ CanonicalReceipt(v)[5] = CanonicalReceipt(r)[5]
      /\ CanonicalReceipt(v)[6] = CanonicalReceipt(r)[6]
      /\ CanonicalReceipt(v)[7] = CanonicalReceipt(r)[7]
      /\ CanonicalReceipt(v)[8] = CanonicalReceipt(r)[8]
      /\ CanonicalReceipt(v)[9] = CanonicalReceipt(r)[9]
      /\ CanonicalReceipt(v)[10] = CanonicalReceipt(r)[10]
      /\ CanonicalReceipt(v)[11] = CanonicalReceipt(r)[11]
      /\ CanonicalReceipt(v)[12] = CanonicalReceipt(r)[12]
      /\ CanonicalReceipt(v)[13] = CanonicalReceipt(r)[13]
      /\ CanonicalReceipt(v)[14] = CanonicalReceipt(r)[14]
  OBVIOUS
<1>2. CanonicalCausal(v.causal) = CanonicalCausal(r.causal)
  BY <1>1 DEF CanonicalReceipt
<1> QED
  BY <1>1, <1>2 DEF CanonicalReceipt

LEMMA CanonicalFactsFields ==
    ASSUME NEW f, NEW g, CanonicalFacts(f) = CanonicalFacts(g)
    PROVE  /\ f.subjectRef = g.subjectRef /\ f.version = g.version /\ f.schema = g.schema
           /\ f.impl = g.impl /\ f.env = g.env /\ f.input = g.input
           /\ f.output = g.output /\ f.parents = g.parents
           /\ f.proof.type = g.proof.type /\ f.proof.payload = g.proof.payload
           /\ f.proof.hash = g.proof.hash /\ f.proof.issuer = g.proof.issuer
           /\ f.proof.signature = g.proof.signature /\ f.proof.hook = g.proof.hook
<1>1. CanonicalProof(f.proof) = CanonicalProof(g.proof)
  BY DEF CanonicalFacts
<1>2. /\ f.proof.type = g.proof.type /\ f.proof.payload = g.proof.payload
      /\ f.proof.hash = g.proof.hash /\ f.proof.issuer = g.proof.issuer
      /\ f.proof.signature = g.proof.signature /\ f.proof.hook = g.proof.hook
  BY <1>1 DEF CanonicalProof
<1> QED
  BY <1>2 DEF CanonicalFacts

\* What AppendSignedReceipt makes, field by field.
LEMMA SealedFields ==
    ASSUME NEW index, NEW prev, NEW ctx, NEW content, NEW payload, NEW host,
           NEW r, r = Sealed(Draft(index, prev, ctx, content, payload, host), host)
    PROVE  /\ r = [index |-> index, id |-> Id, content |-> content, prev |-> prev,
                   caller |-> Caller, callee |-> Callee, subject |-> Subject,
                   causal |-> ctx.causal, digest |-> Sha256(payload),
                   hosted |-> Hosted(host), ability |-> Ability,
                   authority |-> ctx.authority, facts |-> ProofFacts(ctx, payload),
                   payload |-> payload, notes |-> "issued", self |-> SelfHash(r),
                   alg |-> "ed25519",
                   signature |-> SignatureOf(Signer(host).ura, CanonicalReceipt(r))]
<1> DEFINE d == Draft(index, prev, ctx, content, payload, host)
<1>1. r = [index |-> index, id |-> Id, content |-> content, prev |-> prev,
           caller |-> Caller, callee |-> Callee, subject |-> Subject,
           causal |-> ctx.causal, digest |-> Sha256(payload),
           hosted |-> Hosted(host), ability |-> Ability,
           authority |-> ctx.authority, facts |-> ProofFacts(ctx, payload),
           payload |-> payload, notes |-> "issued", self |-> SelfHash(d),
           alg |-> "ed25519",
           signature |-> SignatureOf(Signer(host).ura, CanonicalReceipt(d))]
  BY DEF Sealed, Draft
<1>2. /\ r.index = d.index /\ r.id = d.id /\ r.content = d.content /\ r.prev = d.prev
      /\ r.caller = d.caller /\ r.callee = d.callee /\ r.subject = d.subject
      /\ r.causal = d.causal /\ r.digest = d.digest /\ r.hosted = d.hosted
      /\ r.ability = d.ability /\ r.authority = d.authority /\ r.facts = d.facts
  BY <1>1 DEF Draft
<1> HIDE DEF d
<1>3. CanonicalReceipt(r) = CanonicalReceipt(d)
  BY <1>2 DEF CanonicalReceipt
<1>4. SelfHash(r) = SelfHash(d)
  BY <1>3 DEF SelfHash
<1> QED
  BY <1>1, <1>3, <1>4

LEMMA SealedParts ==
    ASSUME NEW index, NEW prev, NEW ctx, NEW content, NEW payload, NEW host,
           NEW r, r = Sealed(Draft(index, prev, ctx, content, payload, host), host)
    PROVE  /\ r.index = index /\ r.id = Id /\ r.content = content /\ r.prev = prev
           /\ r.caller = Caller /\ r.callee = Callee /\ r.subject = Subject
           /\ r.causal = ctx.causal /\ r.digest = Sha256(payload)
           /\ r.hosted = Hosted(host) /\ r.ability = Ability
           /\ r.authority = ctx.authority /\ r.facts = ProofFacts(ctx, payload)
           /\ r.payload = payload /\ r.self = SelfHash(r) /\ r.alg = "ed25519"
           /\ r.signature = SignatureOf(Signer(host).ura, CanonicalReceipt(r))
<1> DEFINE h == SelfHash(r)  g == SignatureOf(Signer(host).ura, CanonicalReceipt(r))
<1>1. r = [index |-> index, id |-> Id, content |-> content, prev |-> prev,
           caller |-> Caller, callee |-> Callee, subject |-> Subject,
           causal |-> ctx.causal, digest |-> Sha256(payload),
           hosted |-> Hosted(host), ability |-> Ability,
           authority |-> ctx.authority, facts |-> ProofFacts(ctx, payload),
           payload |-> payload, notes |-> "issued", self |-> h,
           alg |-> "ed25519", signature |-> g]
  BY SealedFields
<1> HIDE DEF h, g
<1>2. /\ r.index = index /\ r.id = Id /\ r.content = content /\ r.prev = prev
      /\ r.caller = Caller /\ r.callee = Callee /\ r.subject = Subject
      /\ r.causal = ctx.causal /\ r.digest = Sha256(payload)
      /\ r.hosted = Hosted(host) /\ r.ability = Ability
      /\ r.authority = ctx.authority /\ r.facts = ProofFacts(ctx, payload)
      /\ r.payload = payload /\ r.self = h /\ r.alg = "ed25519" /\ r.signature = g
  BY <1>1
<1> QED
  BY <1>2 DEF h, g

\* What the proof facts of a ReceiptJSON decode to.
LEMMA FactsOfFields ==
    ASSUME NEW j, IsReceiptJSON(j)
    PROVE  FactsOf(j) =
             [subjectRef |-> j.facts.subjectRef, version |-> j.facts.version,
              schema |-> j.facts.schema, impl |-> j.facts.impl, env |-> j.facts.env,
              proof |-> [type |-> j.facts.proof.type,
                         binding |-> {AuthorityOfJSON(a) : a \in j.facts.proof.binding},
                         payload |-> j.facts.proof.payload, hash |-> j.facts.proof.hash,
                         issuer |-> j.facts.proof.issuer,
                         signature |-> j.facts.proof.signature,
                         hook |-> j.facts.proof.hook],
              input |-> j.facts.input, output |-> j.facts.output,
              parents |-> j.facts.parents]
<1> DEFINE f == j.facts  p == j.facts.proof
<1>1. /\ f = [subjectRef |-> f.subjectRef, version |-> f.version, schema |-> f.schema,
              impl |-> f.impl, env |-> f.env, proof |-> p, input |-> f.input,
              output |-> f.output, parents |-> f.parents]
      /\ p = [type |-> p.type, binding |-> p.binding, payload |-> p.payload,
              hash |-> p.hash, issuer |-> p.issuer, signature |-> p.signature,
              hook |-> p.hook]
  BY DEF IsReceiptJSON
<1>2. FactsOf(j) = [f EXCEPT !.proof =
                      [p EXCEPT !.binding = {AuthorityOfJSON(a) : a \in p.binding}]]
  BY DEF FactsOf
<1> DEFINE q == [type |-> p.type, binding |-> {AuthorityOfJSON(a) : a \in p.binding},
                 payload |-> p.payload, hash |-> p.hash, issuer |-> p.issuer,
                 signature |-> p.signature, hook |-> p.hook]
<1>3. [p EXCEPT !.binding = {AuthorityOfJSON(a) : a \in p.binding}] = q
  BY <1>1
<1> HIDE DEF q
<1>4. [f EXCEPT !.proof = q] =
             [subjectRef |-> f.subjectRef, version |-> f.version, schema |-> f.schema,
              impl |-> f.impl, env |-> f.env, proof |-> q, input |-> f.input,
              output |-> f.output, parents |-> f.parents]
  BY <1>1
<1> QED
  BY <1>2, <1>3, <1>4 DEF q

\* What a ReceiptJSON decodes to.
LEMMA DecodedFields ==
    ASSUME NEW j, NEW d, d = Decoded(j)
    PROVE  /\ d = [index |-> j.index, id |-> j.id, content |-> j.content, prev |-> j.prev,
                   caller |-> j.caller, callee |-> j.callee, subject |-> j.subject,
                   causal |-> j.causal, digest |-> j.digest,
                   hosted |-> HostedOf(j.signer, j.attestation),
                   ability |-> j.ability, authority |-> AuthorityOfJSON(j.authority),
                   facts |-> FactsOf(j),
                   payload |-> IF j.payload = {} THEN Blank ELSE CHOOSE p \in j.payload : TRUE,
                   notes |-> j.notes,
                   self |-> IF j.self = {} THEN SelfHash(d) ELSE CHOOSE h \in j.self : TRUE,
                   alg |-> j.alg, signature |-> j.signature]
<1> DEFINE t == HostedOf(j.signer, j.attestation)
           p == IF j.payload = {} THEN Blank ELSE CHOOSE x \in j.payload : TRUE
           a == AuthorityOfJSON(j.authority)
           f == FactsOf(j)
           self(x) == IF j.self = {} THEN SelfHash(x) ELSE CHOOSE y \in j.self : TRUE
           r == [index |-> j.index, id |-> j.id, content |-> j.content, prev |-> j.prev,
                 caller |-> j.caller, callee |-> j.callee, subject |-> j.subject,
                 causal |-> j.causal, digest |-> j.digest, hosted |-> t,
                 ability |-> j.ability, authority |-> a, facts |-> f, payload |-> p,
                 notes |-> j.notes, self |-> ZeroHash, alg |-> j.alg,
                 signature |-> j.signature]
           h == self(r)
           e == [index |-> j.index, id |-> j.id, content |-> j.content, prev |-> j.prev,
                 caller |-> j.caller, callee |-> j.callee, subject |-> j.subject,
                 causal |-> j.causal, digest |-> j.digest, hosted |-> t,
                 ability |-> j.ability, authority |-> a, facts |-> f, payload |-> p,
                 notes |-> j.notes, self |-> h, alg |-> j.alg,
                 signature |-> j.signature]
<1>1. d = [r EXCEPT !.self = h]
  BY DEF Decoded
<1> HIDE DEF t, p, a, f, h
<1>2. d = e
  BY <1>1
<1>3. /\ r.index = d.index /\ r.id = d.id /\ r.content = d.content /\ r.prev = d.prev
      /\ r.caller = d.caller /\ r.callee = d.callee /\ r.subject = d.subject
      /\ r.causal = d.causal /\ r.digest = d.digest /\ r.hosted = d.hosted
      /\ r.ability = d.ability /\ r.authority = d.authority /\ r.facts = d.facts
  BY <1>2
<1>4. SelfHash(r) = SelfHash(d)
  <2> HIDE DEF r, e
  <2> QED
    BY <1>3 DEF SelfHash, CanonicalReceipt
<1>5. h = self(d)
  <2> HIDE DEF r
  <2> QED
    BY <1>4 DEF h
<1> HIDE DEF r, self
<1> QED
  BY <1>2, <1>5, Zenon DEF e, t, p, a, f, self

LEMMA DecodedParts ==
    ASSUME NEW j, NEW d, d = Decoded(j)
    PROVE  /\ d.causal = j.causal /\ d.digest = j.digest
           /\ d.authority = AuthorityOfJSON(j.authority) /\ d.facts = FactsOf(j)
           /\ d.payload = IF j.payload = {} THEN Blank ELSE CHOOSE p \in j.payload : TRUE
           /\ d.signature = j.signature
<1> DEFINE p == IF j.payload = {} THEN Blank ELSE CHOOSE x \in j.payload : TRUE
           h == IF j.self = {} THEN SelfHash(d) ELSE CHOOSE x \in j.self : TRUE
           t == HostedOf(j.signer, j.attestation)
<1>1. d = [index |-> j.index, id |-> j.id, content |-> j.content, prev |-> j.prev,
           caller |-> j.caller, callee |-> j.callee, subject |-> j.subject,
           causal |-> j.causal, digest |-> j.digest, hosted |-> t,
           ability |-> j.ability, authority |-> AuthorityOfJSON(j.authority),
           facts |-> FactsOf(j), payload |-> p, notes |-> j.notes, self |-> h,
           alg |-> j.alg, signature |-> j.signature]
  BY DecodedFields
<1> HIDE DEF p, h, t
<1>2. /\ d.causal = j.causal /\ d.digest = j.digest
      /\ d.authority = AuthorityOfJSON(j.authority) /\ d.facts = FactsOf(j)
      /\ d.payload = p /\ d.signature = j.signature
  BY <1>1
<1> QED
  BY <1>2 DEF p

-------------------------------------------------------------------------------
(* What the auditor accepts.                                                   *)

\* The proof of a policy, field by field.
LEMMA PolicyProofFields ==
    ASSUME NEW b, NEW payload
    PROVE  PolicyProof(b, payload) =
             [type |-> <<"policy">>, binding |-> {b}, payload |-> payload,
              hash |-> PolicyProof(b, payload).hash, issuer |-> {Callee},
              signature |-> {}, hook |-> <<"admission">>]
<1> DEFINE draft == [type |-> <<"policy">>, binding |-> {b}, payload |-> payload,
                     hash |-> ZeroHash, issuer |-> {Callee}, signature |-> {},
                     hook |-> <<"admission">>]
           h == ExpectedHash(draft)
<1>1. PolicyProof(b, payload) = [draft EXCEPT !.hash = h]
  BY DEF PolicyProof
<1> HIDE DEF h
<1> QED
  BY <1>1

\* The facts of a receipt commit to its output.
LEMMA ProofFactsOutput ==
    ASSUME NEW ctx, NEW payload
    PROVE  ProofFacts(ctx, payload).output = Sha256(payload)
  BY DEF ProofFacts

\* Hashes do not collide.
LEMMA SameHash ==
    ASSUME NEW x, NEW y, Sha256(x) = Sha256(y)
    PROVE  x = y
BY DEF Sha256

\* Proof facts with the same canonical bytes and the same binding are the same.
LEMMA SameFacts ==
    ASSUME NEW j, IsReceiptJSON(j), NEW ctx \in context, ContextInv, NEW payload,
           CanonicalFacts(FactsOf(j)) = CanonicalFacts(ProofFacts(ctx, payload)),
           FactsOf(j).proof.binding = {ctx.authority}
    PROVE  FactsOf(j) = ProofFacts(ctx, payload)
<1> DEFINE f == FactsOf(j)  g == ProofFacts(ctx, payload)
<1>1. PICK p \in ProofPayloads : ctx.proof = PolicyProof(ctx.authority, p)
  BY DEF ContextInv
<1>2. g = [subjectRef |-> g.subjectRef, version |-> g.version, schema |-> g.schema,
           impl |-> g.impl, env |-> g.env, proof |-> g.proof, input |-> g.input,
           output |-> g.output, parents |-> g.parents]
  BY DEF ProofFacts
<1>3. g.proof = ctx.proof
  BY DEF ProofFacts
<1>4. g.proof = [type |-> g.proof.type, binding |-> {ctx.authority},
                 payload |-> g.proof.payload, hash |-> g.proof.hash,
                 issuer |-> g.proof.issuer, signature |-> g.proof.signature,
                 hook |-> g.proof.hook]
  BY <1>1, <1>3, PolicyProofFields
<1>5. /\ f = [subjectRef |-> f.subjectRef, version |-> f.version, schema |-> f.schema,
              impl |-> f.impl, env |-> f.env, proof |-> f.proof, input |-> f.input,
              output |-> f.output, parents |-> f.parents]
      /\ f.proof = [type |-> f.proof.type, binding |-> f.proof.binding,
                    payload |-> f.proof.payload, hash |-> f.proof.hash,
                    issuer |-> f.proof.issuer, signature |-> f.proof.signature,
                    hook |-> f.proof.hook]
  <2> DEFINE q == [type |-> j.facts.proof.type,
                   binding |-> {AuthorityOfJSON(a) : a \in j.facts.proof.binding},
                   payload |-> j.facts.proof.payload, hash |-> j.facts.proof.hash,
                   issuer |-> j.facts.proof.issuer,
                   signature |-> j.facts.proof.signature, hook |-> j.facts.proof.hook]
  <2>1. f = [subjectRef |-> j.facts.subjectRef, version |-> j.facts.version,
             schema |-> j.facts.schema, impl |-> j.facts.impl, env |-> j.facts.env,
             proof |-> q, input |-> j.facts.input, output |-> j.facts.output,
             parents |-> j.facts.parents]
    BY FactsOfFields
  <2>2. q = [type |-> q.type, binding |-> q.binding, payload |-> q.payload,
             hash |-> q.hash, issuer |-> q.issuer, signature |-> q.signature,
             hook |-> q.hook]
    OBVIOUS
  <2> HIDE DEF f, q
  <2>3. f.proof = q
    BY <2>1
  <2> QED
    BY <2>1, <2>2, <2>3
<1> HIDE DEF f, g
<1>6. /\ f.subjectRef = g.subjectRef /\ f.version = g.version /\ f.schema = g.schema
      /\ f.impl = g.impl /\ f.env = g.env /\ f.input = g.input
      /\ f.output = g.output /\ f.parents = g.parents
      /\ f.proof.type = g.proof.type /\ f.proof.payload = g.proof.payload
      /\ f.proof.hash = g.proof.hash /\ f.proof.issuer = g.proof.issuer
      /\ f.proof.signature = g.proof.signature /\ f.proof.hook = g.proof.hook
  BY CanonicalFactsFields DEF f, g
<1>7. f.proof = g.proof
  <2>1. f.proof.binding = {ctx.authority}
    BY DEF f
  <2> QED
    BY <1>4, <1>5, <1>6, <2>1
<1>8. f = g
  BY <1>2, <1>5, <1>6, <1>7
<1> QED
  BY <1>8 DEF f, g

\* UnverifiedReceipt.Verify accepts only what was issued: a signature of the provider is
\* on the bytes of a receipt of the provider, and the bytes determine the fields.
LEMMA AcceptedMatches ==
    ASSUME ContextInv, ChainInv, NEW j, IsReceiptJSON(j), Unforged(j), Decodes(j), Accepts(j)
    PROVE  \E i \in DOMAIN issued : Matches(Decoded(j), issued[i])
<1> DEFINE d == Decoded(j)
<1>1. /\ d.causal = j.causal /\ d.digest = j.digest
      /\ d.authority = AuthorityOfJSON(j.authority) /\ d.facts = FactsOf(j)
      /\ d.payload = IF j.payload = {} THEN Blank ELSE CHOOSE p \in j.payload : TRUE
      /\ d.signature = j.signature
  BY DecodedParts
<1> HIDE DEF d
<1>2. SemanticsValid(d) /\ SignatureVerifies(d)
  BY DEF Accepts, d
<1>3. PICK signer \in Keys : /\ HasSignatureSize(d.signature)
                             /\ d.signature = SignatureOf(signer, CanonicalReceipt(d))
  BY <1>2 DEF SignatureVerifies
<1>4. PICK i \in DOMAIN issued : d.signature = issued[i].signature
  <2>1. SignedByKnown(d.signature)
    BY <1>3 DEF SignedByKnown, SignatureOf
  <2> QED
    BY <1>1, <2>1 DEF Unforged
<1> DEFINE r == issued[i]
<1>5. PICK ctx \in context, content \in Contents, payload \in Payloads, host \in Hosts :
         r = Sealed(Draft(i - 1, PrevAt(issued, i), ctx, content, payload, host), host)
  BY DEF ChainInv, IssuedAs
<1> HIDE DEF r
<1>6. /\ r.causal = ctx.causal /\ r.digest = Sha256(payload) /\ r.payload = payload
      /\ r.authority = ctx.authority /\ r.facts = ProofFacts(ctx, payload)
      /\ r.signature = SignatureOf(Signer(host).ura, CanonicalReceipt(r))
  BY <1>5, SealedParts
<1>7. CanonicalReceipt(d) = CanonicalReceipt(r)
  <2>1. d.signature = r.signature
    BY <1>4 DEF r
  <2>2. SignatureOf(signer, CanonicalReceipt(d))
      = SignatureOf(Signer(host).ura, CanonicalReceipt(r))
    BY <1>3, <1>6, <2>1
  <2> QED
    BY <2>2 DEF SignatureOf
<1>8. /\ d.index = r.index /\ d.id = r.id /\ d.content = r.content /\ d.prev = r.prev
      /\ d.caller = r.caller /\ d.callee = r.callee /\ d.subject = r.subject
      /\ CanonicalCausal(d.causal) = CanonicalCausal(r.causal)
      /\ d.digest = r.digest /\ d.hosted = r.hosted /\ d.ability = r.ability
      /\ CanonicalAuthority(d.authority) = CanonicalAuthority(r.authority)
      /\ CanonicalFacts(d.facts) = CanonicalFacts(r.facts)
  BY <1>7, CanonicalReceiptFields
<1>9. d.causal = r.causal
  <2>1. d.causal = [form |-> d.causal.form, refs |-> d.causal.refs]
    BY <1>1 DEF IsReceiptJSON
  <2>2. ctx.causal \in Causals
    BY DEF ContextInv
  <2>3. r.causal = [form |-> r.causal.form, refs |-> r.causal.refs]
    BY <1>6, <2>2, AuditAssumption
  <2>4. CanonicalCausal(d.causal) = <<d.causal.form, d.causal.refs>>
    BY <1>1 DEF IsReceiptJSON, Decodes, IsMalformed, CanonicalCausal
  <2>5. CanonicalCausal(r.causal) \in {<<>>, <<r.causal.form, r.causal.refs>>}
    BY DEF CanonicalCausal
  <2>6. d.causal.form = r.causal.form /\ d.causal.refs = r.causal.refs
    BY <1>8, <2>4, <2>5
  <2> QED
    BY <2>1, <2>3, <2>6
<1>10. d.authority = r.authority
  <2>1. WellFormed(d.authority)
    BY <1>1, DecodedIsWellFormed DEF IsReceiptJSON, Decodes
  <2>2. WellFormed(r.authority)
    BY <1>6, GatedIsWellFormed DEF ContextInv
  <2> QED
    BY <1>8, <2>1, <2>2, CanonicalAuthorityInjective
<1>11. d.facts = r.facts
  <2>1. d.facts.proof.binding = {d.authority}
    BY <1>2 DEF SemanticsValid, validateAuthorityProof
  <2> QED
    BY <1>1, <1>6, <1>8, <1>10, <2>1, SameFacts
<1>12. d.payload \in {Blank, r.payload}
  <2>1. ASSUME NEW p \in j.payload PROVE p = r.payload
    <3>1. Sha256(p) = Sha256(payload)
      BY <1>1, <1>6, <1>8 DEF Decodes
    <3> QED
      BY <1>6, <3>1, SameHash
  <2> QED
    BY <1>1, <2>1
<1>13. Matches(d, r)
  BY <1>8, <1>9, <1>10, <1>11, <1>12 DEF Matches, SignedFields
<1> QED
  BY <1>13 DEF d, r

-------------------------------------------------------------------------------
(* What an export preserves.                                                   *)

\* The JSON of an admitted binding decodes, and to the binding where it is strict.
LEMMA AuthorityRoundTrip ==
    ASSUME NEW b \in Bindings, NEW caller, NEW subject, NEW ability,
           validateAuthorityBinding(caller, subject, ability, b),
           validateCompleteAuthorityOrBootstrap(b)
    PROVE  /\ StrictBinding(b) => AuthorityOfJSON(AuthorityToJSON(b)) = b
           /\ IsAuthorityJSON(AuthorityToJSON(b))
           /\ AuthorityDecodes(AuthorityToJSON(b)) /\ JSONComplete(AuthorityToJSON(b))
<1>0. WellFormed(b)
  BY GatedIsWellFormed
<1>1. CASE IsBootstrap(b)
  <2>1. AuthorityToJSON(b) = b
    BY <1>1 DEF AuthorityToJSON, IsBootstrap
  <2>2. AuthorityOfJSON(b) = b /\ AuthorityDecodes(b)
    BY <1>1 DEF AuthorityOfJSON, IsBootstrap, AuthorityDecodes
  <2>3. IsAuthorityJSON(b)
    BY <1>0, <1>1 DEF WellFormed, IsAuthorityJSON
  <2>4. JSONComplete(b)
    BY <1>1 DEF JSONComplete, IsBootstrap, validateCompleteAuthorityOrBootstrap
  <2> QED
    BY <2>1, <2>2, <2>3, <2>4
<1>2. CASE b.form = "self+identity"
  <2>1. ~IsBootstrap(b) /\ b.authority.ura # Blank
    BY <1>2 DEF IsBootstrap, validateAuthorityBinding
  <2>2. PICK a : a = AuthorityToJSON(b)
    OBVIOUS
  <2>3. a = [NoAuthorityJSON EXCEPT !.form = b.form, !.authority = b.authority.ura]
    BY <1>2, <2>1, <2>2 DEF AuthorityToJSON
  <2>4. a = [form |-> "self+identity", authority |-> b.authority.ura, issuer |-> Blank,
             session |-> Blank, audience |-> <<>>, audiences |-> <<>>, scopes |-> <<>>,
             issuedAt |-> 0, expiresAt |-> 0, signature |-> <<>>]
    BY <1>2, <2>3 DEF NoAuthorityJSON
  <2>5. a.form = "self+identity" /\ ~IsBootstrap(a)
    BY <2>4 DEF IsBootstrap
  <2>6. StrictBinding(b) => AuthorityOfJSON(a) = b
    <3> HAVE StrictBinding(b)
    <3>1. AuthorityOfJSON(a) = AuthorityBinding("self+identity",
                                   Identity(b.authority.ura, Strict), NoEvidence)
      BY <2>4, <2>5 DEF AuthorityOfJSON, SelfAuthority
    <3>2. b = AuthorityBinding(b.form, b.authority, NoEvidence)
      BY <1>0, <1>2, <2>1 DEF WellFormed
    <3>3. b.authority = Identity(b.authority.ura, Strict)
      BY <2>1 DEF StrictBinding
    <3> QED
      BY <1>2, <3>1, <3>2, <3>3
  <2>7. IsAuthorityJSON(a)
    BY <2>4, <2>5 DEF IsAuthorityJSON
  <2>8. AuthorityDecodes(a)
    <3>1. \A f \in Fields : a[f] = Blank
      BY <2>4 DEF Fields, Blank
    <3> QED
      BY <2>5, <3>1 DEF AuthorityDecodes
  <2>9. JSONComplete(a)
    BY <2>1, <2>4, <2>5 DEF JSONComplete
  <2> QED
    BY <2>2, <2>6, <2>7, <2>8, <2>9
<1>3. CASE b.form \in {"delegated_by+delegation", "session_of+session"}
  <2> DEFINE e == b.evidence
             delegated == b.form = "delegated_by+delegation"
  <2>1. ~IsBootstrap(b) /\ b.form # "self+identity"
    BY <1>3 DEF IsBootstrap
  <2>2. PICK a : a = AuthorityToJSON(b)
    OBVIOUS
  <2>3. a = [form |-> b.form, authority |-> b.authority.ura,
             issuer |-> e.issuer.ura, session |-> e.session,
             audience |-> IF delegated THEN e.audiences ELSE <<>>,
             audiences |-> IF delegated THEN <<>> ELSE e.audiences,
             scopes |-> e.scopes, issuedAt |-> e.issuedAt, expiresAt |-> e.expiresAt,
             signature |-> e.signature]
    BY <2>1, <2>2 DEF AuthorityToJSON
  <2>4. /\ a.form = b.form /\ a.authority = b.authority.ura /\ a.issuer = e.issuer.ura
        /\ a.session = e.session /\ a.scopes = e.scopes
        /\ a.issuedAt = e.issuedAt /\ a.expiresAt = e.expiresAt
        /\ a.signature = e.signature
        /\ a.audience = IF delegated THEN e.audiences ELSE <<>>
        /\ a.audiences = IF delegated THEN <<>> ELSE e.audiences
    BY <2>3
  <2>5. /\ e.audiences \in Seq(Pattern)
        /\ delegated => Len(e.audiences) = 1 /\ e.session = Blank
        /\ b = AuthorityBinding(b.form, b.authority, e)
        /\ e = [issuer |-> e.issuer, session |-> e.session, scopes |-> e.scopes,
                audiences |-> e.audiences, issuedAt |-> e.issuedAt,
                expiresAt |-> e.expiresAt, signature |-> e.signature]
    BY <1>0, <2>1 DEF WellFormed
  <2>6. StrictBinding(b) => /\ b.authority = Identity(b.authority.ura, Strict)
                            /\ e.issuer = Identity(e.issuer.ura, Strict)
    BY <2>1 DEF StrictBinding
  <2>7. /\ b.authority.ura # Blank /\ e.issuer.ura # Blank /\ e.scopes # <<>>
        /\ e.audiences # <<>> /\ e.signature # <<>>
        /\ b.form = "session_of+session" => e.session # Blank
    BY <1>3 DEF validateAuthorityBinding, EvidencePresent, IsBootstrap
  <2>8. ~IsBootstrap(a) /\ a.form # "self+identity"
    BY <2>1, <2>4 DEF IsBootstrap
  <2>9. a.audience \o a.audiences = e.audiences
    <3>1. <<>> \o e.audiences = e.audiences /\ e.audiences \o <<>> = e.audiences
      BY <2>5, ConcatEmptySeq
    <3> QED
      BY <2>4, <3>1
  <2> HIDE DEF e
  <2>10. StrictBinding(b) => AuthorityOfJSON(a) = b
    <3> HAVE StrictBinding(b)
    <3>1. AuthorityOfJSON(a) =
            AuthorityBinding(a.form, Identity(a.authority, Strict),
                [issuer |-> Identity(a.issuer, Strict), session |-> a.session,
                 scopes |-> a.scopes, audiences |-> a.audience \o a.audiences,
                 issuedAt |-> a.issuedAt, expiresAt |-> a.expiresAt,
                 signature |-> a.signature])
      BY <2>8 DEF AuthorityOfJSON
    <3> QED
      BY <3>1, <2>4, <2>5, <2>6, <2>9, Zenon
  <2>11. IsAuthorityJSON(a)
    <3>1. /\ a.audience \in Seq(Pattern) /\ a.audiences \in Seq(Pattern)
          /\ a.audience = <<>> \/ Len(a.audience) = 1
      BY <2>4, <2>5
    <3>2. Len(a.audience) <= 1
      <4>1. PICK n \in {0, 1} : Len(a.audience) = n
        BY <3>1, EmptySeq, Zenon
      <4>2. n <= 1
        OBVIOUS
      <4> QED
        BY <4>1, <4>2, Zenon
    <3> QED
      BY <2>8, <3>1, <3>2 DEF IsAuthorityJSON
  <2>12. AuthorityDecodes(a)
    <3>1. ASSUME NEW f \in Fields, a[f] # Blank PROVE f \in AllowedFields(a.form)
      <4>1. CASE delegated
        <5>1. a.session = Blank /\ a.audiences = Blank
          BY <2>4, <2>5, <4>1 DEF Blank
        <5>2. f \notin {"session", "audiences"}
          BY <3>1, <5>1
        <5> QED
          BY <2>4, <3>1, <4>1, <5>2 DEF AllowedFields, Fields
      <4>2. CASE ~delegated
        <5>1. a.audience = Blank /\ a.form = "session_of+session"
          BY <1>3, <2>4, <4>2 DEF Blank
        <5>2. f # "audience"
          BY <3>1, <5>1
        <5> QED
          BY <3>1, <5>1, <5>2 DEF AllowedFields, Fields
      <4> QED
        BY <4>1, <4>2
    <3>2. {f \in Fields : a[f] # Blank} \subseteq AllowedFields(a.form)
      BY <3>1
    <3>3. a.form \in {"self+identity", "delegated_by+delegation", "session_of+session"}
      BY <1>3, <2>4
    <3> QED
      BY <3>2, <3>3 DEF AuthorityDecodes
  <2>13. JSONComplete(a)
    BY <1>3, <2>4, <2>7, <2>8 DEF JSONComplete
  <2> QED
    BY <2>2, <2>10, <2>11, <2>12, <2>13
<1> QED
  BY <1>0, <1>1, <1>2, <1>3 DEF WellFormed, Forms

\* What an admitted context has: an authority whose JSON decodes, to itself where it is
\* strict, and facts that are complete whatever the output.
LEMMA AdmittedContext ==
    ASSUME ContextInv, NEW ctx \in context, NEW payload
    PROVE  /\ FactsComplete(ProofFacts(ctx, payload))
           /\ LET a == AuthorityToJSON(ctx.authority)
              IN  /\ StrictBinding(ctx.authority) => AuthorityOfJSON(a) = ctx.authority
                  /\ IsAuthorityJSON(a) /\ AuthorityDecodes(a) /\ JSONComplete(a)
           /\ ctx.proof.binding = {ctx.authority} /\ ctx.proof.issuer = {Callee}
<1>1. /\ ctx.authority \in Bindings
      /\ validateAuthorityBinding(Caller, Subject, Ability, ctx.authority)
      /\ validateAuthorityProof(ctx.proof, ctx.authority, Callee)
      /\ FactsComplete(ProofFacts(ctx, <<"probe">>))
  BY DEF ContextInv
<1>2. /\ ctx.proof.binding = {ctx.authority} /\ ctx.proof.issuer = {Callee}
  BY <1>1 DEF validateAuthorityProof
<1> DEFINE g == ProofFacts(ctx, payload)  h == ProofFacts(ctx, <<"probe">>)
<1>3. /\ g.subjectRef = h.subjectRef /\ g.version = h.version /\ g.env = h.env
      /\ g.schema = h.schema /\ g.impl = h.impl /\ g.input = h.input
      /\ g.proof = h.proof /\ g.parents = h.parents /\ g.output = Sha256(payload)
      /\ h.proof = ctx.proof
  BY DEF ProofFacts
<1>4. Sha256(payload) # ZeroHash
  BY DEF Sha256, ZeroHash
<1> HIDE DEF g, h
<1>5. FactsComplete(h)
  BY <1>1 DEF h
<1>6. FactsComplete(g)
  BY <1>3, <1>4, <1>5 DEF FactsComplete
<1>7. validateCompleteAuthorityOrBootstrap(ctx.authority)
  BY <1>2, <1>3, <1>5 DEF FactsComplete, validateCompleteAuthorityProof
<1> QED
  BY <1>1, <1>2, <1>6, <1>7, AuthorityRoundTrip DEF g

\* The proof facts of an issued receipt, projected.
LEMMA FactsRoundTrip ==
    ASSUME ContextInv, NEW ctx \in context, NEW payload, NEW j,
           j.facts = FactsToJSON(ProofFacts(ctx, payload)),
           j.authority = AuthorityToJSON(ctx.authority),
           j.causal = CausalFromCtx(ctx.causal)
    PROVE  /\ IsReceiptJSON(j)
           /\ StrictBinding(ctx.authority) => FactsOf(j) = ProofFacts(ctx, payload)
           /\ j.facts.proof.binding = {AuthorityToJSON(ctx.authority)}
           /\ j.facts.proof.issuer = {Callee}
           /\ LET g == ProofFacts(ctx, payload)
              IN  /\ j.facts.schema = g.schema /\ j.facts.impl = g.impl
                  /\ j.facts.input = g.input /\ j.facts.output = g.output
                  /\ j.facts.version = g.version /\ j.facts.env = g.env
                  /\ j.facts.parents = g.parents
<1> DEFINE g == ProofFacts(ctx, payload)  a == AuthorityToJSON(ctx.authority)
           p == ctx.proof
           q == [type |-> p.type, binding |-> {a}, payload |-> p.payload,
                 hash |-> p.hash, issuer |-> p.issuer, signature |-> p.signature,
                 hook |-> p.hook]
           f == j.facts
<1>1. PICK x \in ProofPayloads : p = PolicyProof(ctx.authority, x)
  BY DEF ContextInv
<1>2. p = [type |-> p.type, binding |-> {ctx.authority}, payload |-> p.payload,
           hash |-> p.hash, issuer |-> {Callee}, signature |-> p.signature,
           hook |-> p.hook]
  <2> HIDE DEF p
  <2>1. p = [type |-> <<"policy">>, binding |-> {ctx.authority}, payload |-> x,
             hash |-> p.hash, issuer |-> {Callee}, signature |-> {},
             hook |-> <<"admission">>]
    BY <1>1, PolicyProofFields
  <2> QED
    BY <2>1
<1>3. g = [subjectRef |-> g.subjectRef, version |-> g.version, schema |-> g.schema,
           impl |-> g.impl, env |-> g.env, proof |-> p, input |-> g.input,
           output |-> g.output, parents |-> g.parents]
  BY DEF ProofFacts
<1>4. f = [g EXCEPT !.proof = [g.proof EXCEPT !.binding =
                                  {AuthorityToJSON(b) : b \in g.proof.binding}]]
  BY DEF FactsToJSON
<1> HIDE DEF g, p, f
<1>5. g.proof = p
  BY <1>3
<1>6. [p EXCEPT !.binding = {AuthorityToJSON(b) : b \in p.binding}] = q
  <2>1. p.binding = {ctx.authority}
    BY <1>2
  <2>2. {AuthorityToJSON(b) : b \in p.binding} = {a}
    BY <2>1
  <2> HIDE DEF a
  <2>3. [p EXCEPT !.binding = {a}] = q
    BY <1>2
  <2> QED
    BY <2>2, <2>3
<1>7. q = [type |-> q.type, binding |-> q.binding, payload |-> q.payload,
           hash |-> q.hash, issuer |-> q.issuer, signature |-> q.signature,
           hook |-> q.hook] /\ q.binding = {a} /\ q.issuer = {Callee}
  BY <1>2
<1>8. [q EXCEPT !.binding = {ctx.authority}] = p
  <2> HIDE DEF a
  <2> QED
    BY <1>2
<1>9. f = [g EXCEPT !.proof = q]
  BY <1>4, <1>5, <1>6
<1> HIDE DEF q
<1>10. f = [subjectRef |-> g.subjectRef, version |-> g.version, schema |-> g.schema,
            impl |-> g.impl, env |-> g.env, proof |-> q, input |-> g.input,
            output |-> g.output, parents |-> g.parents]
  BY <1>3, <1>9
<1>11. /\ f.subjectRef = g.subjectRef /\ f.version = g.version /\ f.schema = g.schema
       /\ f.impl = g.impl /\ f.env = g.env /\ f.proof = q /\ f.input = g.input
       /\ f.output = g.output /\ f.parents = g.parents
  BY <1>10
<1>12. IsReceiptJSON(j)
  <2>1. IsAuthorityJSON(a)
    BY AdmittedContext
  <2>2. /\ j.causal = [form |-> j.causal.form, refs |-> j.causal.refs]
        /\ j.causal.form = "scalar" => j.causal.refs # <<>>
    <3>1. ctx.causal = [form |-> ctx.causal.form, refs |-> ctx.causal.refs]
      BY AuditAssumption DEF ContextInv
    <3>2. PICK c : c = j.causal
      OBVIOUS
    <3>3. CASE IsMalformed(ctx.causal)
      <4>1. c = [form |-> "none", refs |-> <<>>]
        BY <3>2, <3>3 DEF CausalFromCtx
      <4> QED
        BY <3>2, <4>1
    <3>4. CASE ~IsMalformed(ctx.causal)
      BY <3>1, <3>4 DEF CausalFromCtx, IsMalformed
    <3> QED
      BY <3>3, <3>4
  <2> HIDE DEF a
  <2>3. \A y \in f.proof.binding : IsAuthorityJSON(y)
    BY <1>7, <1>11, <2>1
  <2>4. f = [subjectRef |-> f.subjectRef, version |-> f.version, schema |-> f.schema,
             impl |-> f.impl, env |-> f.env, proof |-> f.proof, input |-> f.input,
             output |-> f.output, parents |-> f.parents]
    BY <1>10, <1>11
  <2>5. f.proof = [type |-> f.proof.type, binding |-> f.proof.binding,
                   payload |-> f.proof.payload, hash |-> f.proof.hash,
                   issuer |-> f.proof.issuer, signature |-> f.proof.signature,
                   hook |-> f.proof.hook]
    BY <1>7, <1>11
  <2>6. j.authority = a
    BY DEF a
  <2> QED
    BY <2>1, <2>2, <2>3, <2>4, <2>5, <2>6 DEF IsReceiptJSON, f
<1>13. StrictBinding(ctx.authority) => FactsOf(j) = g
  <2> HAVE StrictBinding(ctx.authority)
  <2>1. FactsOf(j) = [f EXCEPT !.proof = [f.proof EXCEPT !.binding =
                                  {AuthorityOfJSON(y) : y \in f.proof.binding}]]
    BY DEF FactsOf, f
  <2>2. {AuthorityOfJSON(y) : y \in f.proof.binding} = {ctx.authority}
    <3>1. AuthorityOfJSON(a) = ctx.authority
      BY AdmittedContext
    <3>2. f.proof.binding = {a}
      BY <1>7, <1>11
    <3> HIDE DEF a
    <3> QED
      BY <3>1, <3>2
  <2>3. FactsOf(j) = [f EXCEPT !.proof = p]
    BY <1>8, <1>11, <2>1, <2>2
  <2> QED
    BY <1>3, <1>10, <2>3
<1> QED
  BY <1>7, <1>11, <1>12, <1>13 DEF f, g

\* A receipt is signed by its callee or by one host, whose tail survives the JSON.
LEMMA HostedRoundTrip ==
    ASSUME NEW host \in Hosts, NEW hosted, hosted = Hosted(host),
           NEW signers, signers = SignerToJSON(hosted),
           NEW attestation, attestation = AttestationToJSON(hosted)
    PROVE  /\ HostedOf(signers, attestation) = hosted
           /\ signers = {} => attestation = <<>>
           /\ \A s \in signers : ProfileParses(s)
           /\ Signer(host).ura \in Keys
           /\ Signer(host).ura = IF hosted = {} THEN Callee.ura
                                 ELSE (CHOOSE h \in hosted : TRUE).signer.ura
<1>1. CASE host = {}
  <2>1. hosted = {} /\ signers = {} /\ attestation = <<>> /\ Signer(host) = Callee
    BY <1>1 DEF Hosted, Signer, SignerToJSON, AttestationToJSON
  <2> QED
    BY <2>1, SignersAssumption DEF HostedOf
<1>2. CASE host # {}
  <2>1. PICK h \in host : host = {h} /\ ProfileParses(h) /\ h.ura \in Keys
    BY <1>2, SignersAssumption
  <2> DEFINE t == [signer |-> h,
                   attestation |-> SignatureOf(h.ura, HostAttestationBytes(Callee, h))]
  <2>2. hosted = {t} /\ Signer(host) = h
    BY <2>1 DEF Hosted, Signer
  <2>3. t = [signer |-> t.signer, attestation |-> t.attestation] /\ t.signer = h
    OBVIOUS
  <2> HIDE DEF t
  <2>4. (CHOOSE x \in hosted : TRUE) = t /\ hosted # {}
    BY <2>2
  <2>5. signers = {h} /\ attestation = t.attestation
    BY <2>2, <2>3, <2>4 DEF SignerToJSON, AttestationToJSON
  <2>6. HostedOf(signers, attestation) = hosted
    BY <2>2, <2>3, <2>5 DEF HostedOf
  <2>7. Signer(host).ura = (CHOOSE x \in hosted : TRUE).signer.ura
    BY <2>2, <2>3, <2>4
  <2> QED
    BY <2>1, <2>2, <2>4, <2>5, <2>6, <2>7
<1> QED
  BY <1>1, <1>2

\* ToUnverifiedReceipt decodes what ProjectSignedInvocationReceipt makes, and gives back
\* what that was given where the context is portable.
LEMMA ReceiptRoundTrip ==
    ASSUME ContextInv, NEW ctx \in context, NEW index, NEW prev, NEW content,
           NEW payload, NEW host \in Hosts, \A h \in Hosted(host) : HostAttested(Callee, h),
           NEW r, r = Sealed(Draft(index, prev, ctx, content, payload, host), host),
           NEW j, j = Project(r)
    PROVE  /\ IsReceiptJSON(j) /\ Decodes(j) /\ j.signature = r.signature
           /\ Portable(ctx) => Decoded(j) = r /\ FactsOf(j) = ProofFacts(ctx, payload)
<1>1. /\ r.index = index /\ r.id = Id /\ r.content = content /\ r.prev = prev
      /\ r.caller = Caller /\ r.callee = Callee /\ r.subject = Subject
      /\ r.causal = ctx.causal /\ r.digest = Sha256(payload)
      /\ r.hosted = Hosted(host) /\ r.ability = Ability
      /\ r.authority = ctx.authority /\ r.facts = ProofFacts(ctx, payload)
      /\ r.payload = payload /\ r.self = SelfHash(r) /\ r.alg = "ed25519"
      /\ r.signature = SignatureOf(Signer(host).ura, CanonicalReceipt(r))
  BY SealedParts
<1> DEFINE a == AuthorityToJSON(r.authority)
           f == FactsToJSON(r.facts)
           signers == SignerToJSON(r.hosted)
           attestation == AttestationToJSON(r.hosted)
           causal == CausalFromCtx(r.causal)
<1>2. /\ j.index = r.index /\ j.id = r.id /\ j.content = r.content /\ j.prev = r.prev
      /\ j.digest = r.digest /\ j.caller = r.caller /\ j.callee = r.callee
      /\ j.subject = r.subject /\ j.causal = causal /\ j.ability = r.ability
      /\ j.authority = a /\ j.facts = f /\ j.alg = r.alg /\ j.signature = r.signature
      /\ j.self = {r.self} /\ j.payload = {r.payload} /\ j.notes = r.notes
      /\ j.signer = signers /\ j.attestation = attestation
  <2> HIDE DEF a, f, signers, attestation, causal
  <2>1. j = [index |-> r.index, id |-> r.id, content |-> r.content, prev |-> r.prev,
             digest |-> r.digest, caller |-> r.caller, callee |-> r.callee,
             subject |-> r.subject, causal |-> causal, ability |-> r.ability,
             authority |-> a, facts |-> f, alg |-> r.alg, signature |-> r.signature,
             self |-> {r.self}, payload |-> {r.payload}, notes |-> r.notes,
             signer |-> signers, attestation |-> attestation]
    BY DEF Project, a, f, signers, attestation, causal
  <2> QED
    BY <2>1
<1>3. /\ IsReceiptJSON(j)
      /\ StrictBinding(ctx.authority) => FactsOf(j) = ProofFacts(ctx, payload)
      /\ j.facts.proof.binding = {a} /\ j.facts.proof.issuer = {Callee}
      /\ LET g == ProofFacts(ctx, payload)
         IN  /\ j.facts.schema = g.schema /\ j.facts.impl = g.impl
             /\ j.facts.input = g.input /\ j.facts.output = g.output
             /\ j.facts.version = g.version /\ j.facts.env = g.env
             /\ j.facts.parents = g.parents
  <2>1. j.facts = FactsToJSON(ProofFacts(ctx, payload))
    BY <1>1, <1>2
  <2>2. /\ j.authority = AuthorityToJSON(ctx.authority)
        /\ j.causal = CausalFromCtx(ctx.causal) /\ a = AuthorityToJSON(ctx.authority)
    BY <1>1, <1>2
  <2> HIDE DEF a, f
  <2> QED
    BY <2>1, <2>2, FactsRoundTrip
<1>4. /\ StrictBinding(ctx.authority) => AuthorityOfJSON(a) = r.authority
      /\ AuthorityDecodes(a) /\ JSONComplete(a)
      /\ FactsComplete(ProofFacts(ctx, payload))
  BY <1>1, AdmittedContext
<1>5. /\ HostedOf(j.signer, j.attestation) = r.hosted
      /\ j.signer = {} => j.attestation = <<>>
      /\ \A s \in j.signer : ProfileParses(s)
  <2>1. r.hosted = Hosted(host) /\ j.signer = SignerToJSON(r.hosted)
    BY <1>1, <1>2
  <2>2. j.attestation = AttestationToJSON(r.hosted)
    BY <1>2
  <2> QED
    BY <2>1, <2>2, HostedRoundTrip
<1> HIDE DEF a, f, signers, attestation, causal
<1>6. Decodes(j)
  <2>1. j.id # Blank /\ j.causal.form \in CausalForms
    <3>1. CausalFromCtx(ctx.causal).form \in CausalForms
      BY DEF CausalFromCtx, IsMalformed, CausalForms
    <3> QED
      BY <1>1, <1>2, <3>1, SignersAssumption DEF causal
  <2>2. \A i \in {j.caller, j.callee, j.subject} \cup j.signer \cup j.facts.proof.issuer :
          ProfileParses(i)
    BY <1>1, <1>2, <1>3, <1>5, SignersAssumption
  <2>3. \A y \in {j.authority} \cup j.facts.proof.binding : AuthorityDecodes(y) /\ JSONComplete(y)
    BY <1>2, <1>3, <1>4
  <2>4. /\ ZeroHash \notin {j.facts.schema, j.facts.impl, j.facts.input, j.facts.output}
        /\ j.facts.version # Blank /\ j.facts.env # Blank /\ RefsValid(j.facts.parents)
    BY <1>3, <1>4 DEF FactsComplete
  <2>5. \A p \in j.payload : Sha256(p) = j.digest /\ Sha256(p) = j.facts.output
    <3>1. ProofFacts(ctx, payload).output = Sha256(payload)
      BY ProofFactsOutput, ZenonT(60)
    <3> QED
      BY <1>1, <1>2, <1>3, <3>1
  <2> QED
    BY <1>5, <2>1, <2>2, <2>3, <2>4, <2>5 DEF Decodes
<1>7. Portable(ctx) => Decoded(j) = r
  <2> HAVE Portable(ctx)
  <2>0. j.causal = r.causal /\ StrictBinding(ctx.authority)
    BY <1>1, <1>2 DEF Portable, CausalFromCtx, causal
  <2>1. PICK d : d = Decoded(j)
    OBVIOUS
  <2> DEFINE p == IF j.payload = {} THEN Blank ELSE CHOOSE x \in j.payload : TRUE
             h == IF j.self = {} THEN SelfHash(d) ELSE CHOOSE x \in j.self : TRUE
             t == HostedOf(j.signer, j.attestation)
  <2>2. p = r.payload /\ h = r.self /\ t = r.hosted
    BY <1>2, <1>5
  <2>3. d = [index |-> j.index, id |-> j.id, content |-> j.content, prev |-> j.prev,
             caller |-> j.caller, callee |-> j.callee, subject |-> j.subject,
             causal |-> j.causal, digest |-> j.digest, hosted |-> t,
             ability |-> j.ability, authority |-> AuthorityOfJSON(j.authority),
             facts |-> FactsOf(j), payload |-> p, notes |-> j.notes, self |-> h,
             alg |-> j.alg, signature |-> j.signature]
    BY <2>1, DecodedFields
  <2> HIDE DEF p, h, t
  <2>4. d = [index |-> j.index, id |-> j.id, content |-> j.content, prev |-> j.prev,
             caller |-> j.caller, callee |-> j.callee, subject |-> j.subject,
             causal |-> j.causal, digest |-> j.digest, hosted |-> r.hosted,
             ability |-> j.ability, authority |-> AuthorityOfJSON(j.authority),
             facts |-> FactsOf(j), payload |-> r.payload, notes |-> j.notes,
             self |-> r.self, alg |-> j.alg, signature |-> j.signature]
    BY <2>2, <2>3
  <2>5. d = [index |-> r.index, id |-> r.id, content |-> r.content, prev |-> r.prev,
             caller |-> r.caller, callee |-> r.callee, subject |-> r.subject,
             causal |-> r.causal, digest |-> r.digest, hosted |-> r.hosted,
             ability |-> r.ability, authority |-> r.authority,
             facts |-> r.facts, payload |-> r.payload, notes |-> r.notes,
             self |-> r.self, alg |-> r.alg, signature |-> r.signature]
    BY <1>1, <1>2, <1>3, <1>4, <2>0, <2>4
  <2>6. PICK s, g : r = [index |-> index, id |-> Id, content |-> content, prev |-> prev,
           caller |-> Caller, callee |-> Callee, subject |-> Subject,
           causal |-> ctx.causal, digest |-> Sha256(payload),
           hosted |-> Hosted(host), ability |-> Ability,
           authority |-> ctx.authority, facts |-> ProofFacts(ctx, payload),
           payload |-> payload, notes |-> "issued", self |-> s,
           alg |-> "ed25519", signature |-> g]
    BY SealedFields
  <2>7. r = d
    BY <2>5, <2>6
  <2> QED
    BY <2>1, <2>7
<1> QED
  BY <1>2, <1>3, <1>6, <1>7 DEF Portable

\* ... and Verify accepts it.
LEMMA IssuedIsAccepted ==
    ASSUME ContextInv, NEW ctx \in context, Portable(ctx), NEW index, NEW prev, NEW content,
           NEW payload, NEW host \in Hosts, \A h \in Hosted(host) : HostAttested(Callee, h),
           NEW r, r = Sealed(Draft(index, prev, ctx, content, payload, host), host)
    PROVE  /\ FactsComplete(FactsOf(Project(r))) /\ Accepts(Project(r))
           /\ Decodes(Project(r)) /\ Decoded(Project(r)) = r
<1>1. PICK j : j = Project(r)
  OBVIOUS
<1>2. Decoded(j) = r /\ Decodes(j) /\ FactsOf(j) = ProofFacts(ctx, payload)
  BY <1>1, ReceiptRoundTrip
<1>3. FactsComplete(FactsOf(j))
  BY <1>2, AdmittedContext
<1>4. /\ r.caller = Caller /\ r.callee = Callee /\ r.subject = Subject
      /\ r.causal = ctx.causal /\ r.hosted = Hosted(host) /\ r.ability = Ability
      /\ r.authority = ctx.authority /\ r.facts = ProofFacts(ctx, payload)
      /\ r.self = SelfHash(r) /\ r.alg = "ed25519"
      /\ r.signature = SignatureOf(Signer(host).ura, CanonicalReceipt(r))
  BY SealedParts
<1>5. SemanticsValid(r)
  <2>1. /\ ctx.subjectRef \in EntityRefForSubject(Subject)
        /\ validateAuthorityBinding(Caller, Subject, Ability, ctx.authority)
        /\ validateAuthorityProof(ctx.proof, ctx.authority, Callee)
        /\ IsDescriptorRef(Ability)
    BY DEF ContextInv
  <2>2. {ctx.subjectRef} = EntityRefForSubject(Subject)
    BY <2>1 DEF EntityRefForSubject
  <2>3. /\ r.facts.subjectRef = ctx.subjectRef /\ r.facts.version = DescriptorVersion(Ability)
        /\ r.facts.proof = ctx.proof /\ r.facts.parents = ParentReceipts(ctx.causal)
    BY <1>4 DEF ProofFacts
  <2> QED
    BY <1>4, <2>1, <2>2, <2>3 DEF SemanticsValid
<1>6. SignatureVerifies(r)
  <2> DEFINE signer == IF r.hosted = {} THEN r.callee.ura
                       ELSE (CHOOSE h \in r.hosted : TRUE).signer.ura
  <2>1. signer = Signer(host).ura /\ Signer(host).ura \in Keys
    BY <1>4, HostedRoundTrip
  <2>2. HasSignatureSize(r.signature)
    BY <1>4 DEF HasSignatureSize, SignatureOf
  <2>3. \A h \in r.hosted : HostAttested(r.callee, h)
    BY <1>4
  <2> QED
    BY <1>4, <2>1, <2>2, <2>3 DEF SignatureVerifies
<1>7. Accepts(j)
  BY <1>2, <1>4, <1>5, <1>6 DEF Accepts
<1> QED
  BY <1>1, <1>2, <1>3, <1>7

-------------------------------------------------------------------------------
(* The steps.                                                                  *)

LEMMA SequenceFacts ==
    ASSUME NEW s, IsSequence(s)
    PROVE  Len(s) \in Nat /\ DOMAIN s = 1 .. Len(s)
BY LenProperties DEF IsSequence

LEMMA SequenceAppend ==
    ASSUME NEW s, IsSequence(s), NEW e
    PROVE  /\ IsSequence(Append(s, e)) /\ Len(Append(s, e)) = Len(s) + 1
           /\ Append(s, e)[Len(s) + 1] = e
           /\ \A k \in DOMAIN s : Append(s, e)[k] = s[k]
           /\ DOMAIN Append(s, e) = 1 .. Len(s) + 1
<1> DEFINE S == Range(s) \cup {e}  t == Append(s, e)
<1>1. s \in Seq(S)
  BY SeqMonotonic DEF IsSequence
<1> HIDE DEF S
<1>2. e \in S
  BY DEF S
<1>3. /\ t \in Seq(S) /\ Len(t) = Len(s) + 1 /\ t[Len(s) + 1] = e
      /\ \A k \in 1 .. Len(s) : t[k] = s[k]
      /\ DOMAIN t = 1 .. Len(s) + 1
  BY <1>1, <1>2
<1> HIDE DEF t
<1>4. t \in [1 .. Len(t) -> Range(t)]
  BY <1>3, LenProperties DEF Range
<1>5. t \in Seq(Range(t))
  BY <1>3, <1>4
<1> QED
  BY <1>3, <1>5, SequenceFacts DEF IsSequence, t

\* A sequence with elements of another one.
LEMMA SequenceOver ==
    ASSUME NEW S, NEW t \in Seq(S)
    PROVE  IsSequence(t)
<1>1. Len(t) \in Nat /\ t \in [1 .. Len(t) -> S] /\ DOMAIN t = 1 .. Len(t)
  BY LenProperties
<1>2. t \in [1 .. Len(t) -> Range(t)]
  BY <1>1 DEF Range
<1> QED
  BY <1>1, <1>2 DEF IsSequence

\* Damage only moves the receipts of a bundle.
LEMMA SequenceMoves ==
    ASSUME NEW s, IsSequence(s), NEW k \in DOMAIN s, NEW t,
           \/ t = RemoveAt(s, k) \/ t = InsertAt(s, k, s[k])
           \/ k < Len(s) /\ t = [s EXCEPT ![k] = s[k + 1], ![k + 1] = s[k]]
    PROVE  IsSequence(t) /\ \A i \in DOMAIN t : \E l \in DOMAIN s : t[i] = s[l]
<1> DEFINE R == Range(s)
<1>1. s \in Seq(R) /\ Len(s) \in Nat /\ DOMAIN s = 1 .. Len(s) /\ s[k] \in R
  BY LenProperties DEF IsSequence, Range
<1>2. \A e \in R : \E l \in DOMAIN s : e = s[l]
  BY DEF Range
<1> HIDE DEF R
<1>3. t \in Seq(R)
  <2>1. SubSeq(s, 1, k - 1) \in Seq(R) /\ SubSeq(s, k + 1, Len(s)) \in Seq(R)
        /\ SubSeq(s, k, Len(s)) \in Seq(R)
    BY <1>1, SubSeqProperties, ElementOfSeq
  <2>2. CASE t = RemoveAt(s, k)
    BY <2>1, <2>2, ConcatProperties DEF RemoveAt
  <2>3. CASE t = InsertAt(s, k, s[k])
    <3>1. <<s[k]>> \in Seq(R)
      BY <1>1
    <3> QED
      BY <2>1, <2>3, <3>1, ConcatProperties DEF InsertAt
  <2>4. CASE k < Len(s) /\ t = [s EXCEPT ![k] = s[k + 1], ![k + 1] = s[k]]
    <3>1. k + 1 \in 1 .. Len(s) /\ s[k + 1] \in R
      BY <1>1, <2>4, ElementOfSeq
    <3> QED
      BY <1>1, <2>4, <3>1, ExceptSeq
  <2> QED
    BY <2>2, <2>3, <2>4
<1>4. \A i \in DOMAIN t : t[i] \in R
  BY <1>3, LenProperties, ElementOfSeq
<1> QED
  BY <1>2, <1>3, <1>4, SequenceOver

LEMMA SequenceOfFunction ==
    ASSUME NEW n \in Nat, NEW R, NEW t \in [1 .. n -> R]
    PROVE  IsSequence(t) /\ Len(t) = n
<1>1. t \in Seq(R)
  OBVIOUS
<1>2. Len(t) = n
  BY <1>1, LenProperties
<1> QED
  BY <1>1, <1>2, SequenceOver

LEMMA InitAudit ==
    ASSUME Init
    PROVE  AuditInv
<1>1. /\ context = {} /\ issued = <<>> /\ bundle = <<>> /\ damage = 0
      /\ phase = "issuing" /\ verified = <<>> /\ proved = {}
  BY DEF Init
<1>2. IsSequence(<<>>) /\ Len(<<>>) = 0 /\ DOMAIN <<>> = {}
  BY EmptySeq DEF IsSequence
<1>3. ContextInv /\ ChainInv /\ BundleInv
  BY <1>1, <1>2 DEF ContextInv, ChainInv, BundleInv
<1>4. VerifiedInv /\ FaithfulInv /\ PhaseInv
  BY <1>1, <1>2 DEF VerifiedInv, FaithfulInv, PhaseInv
<1>5. AcceptedIsIssued /\ ProofsRestOnGrants
  BY <1>1 DEF AcceptedIsIssued, ProofsRestOnGrants
<1> QED
  BY <1>3, <1>4, <1>5 DEF AuditInv

LEMMA AdmitStep ==
    ASSUME AuditInv, NEW b \in Bindings, NEW p \in ProofPayloads, NEW c \in Causals,
           Admit(b, p, c)
    PROVE  AuditInv'
<1>1. /\ context = {} /\ UNCHANGED <<issued, bundle, damage, phase, verified, proved>>
      /\ validateAuthorityBinding(Caller, Subject, Ability, b)
      /\ validateAuthorityProof(PolicyProof(b, p), b, Callee)
  BY DEF Admit
<1>2. PICK ref \in EntityRefForSubject(Subject), ctx \in context' :
        /\ ctx = [authority |-> b, proof |-> PolicyProof(b, p), causal |-> c,
                  subjectRef |-> ref]
        /\ IsDescriptorRef(Ability) /\ FactsComplete(ProofFacts(ctx, <<"probe">>))
        /\ context' = {ctx}
  BY DEF Admit
<1>3. /\ ctx.authority = b /\ ctx.proof = PolicyProof(b, p) /\ ctx.causal = c
      /\ ctx.subjectRef = ref
  BY <1>2
<1>4. ContextInv'
  BY <1>1, <1>2, <1>3 DEF ContextInv
<1>5. DOMAIN issued = {} /\ IsSequence(issued)
  BY <1>1 DEF AuditInv, ChainInv, IssuedAs
<1>6. ChainInv'
  BY <1>1, <1>5 DEF ChainInv, IsSequence
<1>7. BundleInv' /\ VerifiedInv'
  BY <1>1 DEF AuditInv, BundleInv, VerifiedInv, Unforged, IsSequence
<1>8. FaithfulInv' /\ PhaseInv'
  BY <1>1 DEF AuditInv, FaithfulInv, PhaseInv
<1>9. AcceptedIsIssued' /\ ProofsRestOnGrants'
  BY <1>1 DEF AuditInv, AcceptedIsIssued, ProofsRestOnGrants
<1> QED
  BY <1>4, <1>6, <1>7, <1>8, <1>9 DEF AuditInv

LEMMA IssueStep ==
    ASSUME AuditInv, NEW content \in Contents, NEW payload \in Payloads, NEW host \in Hosts,
           Issue(content, payload, host)
    PROVE  AuditInv'
<1>1. /\ phase = "issuing"
      /\ UNCHANGED <<context, bundle, damage, phase, verified, proved>>
      /\ \A h \in Hosted(host) : HostAttested(Callee, h)
  BY DEF Issue
<1>2. /\ ContextInv /\ ChainInv /\ BundleInv /\ VerifiedInv /\ FaithfulInv /\ PhaseInv
      /\ bundle = <<>> /\ verified = <<>> /\ proved = {} /\ DOMAIN <<>> = {}
  BY <1>1 DEF AuditInv, PhaseInv
<1> DEFINE n == Len(issued)
           prev == IF issued = <<>> THEN ZeroHash ELSE SelfHash(Last(issued))
<1>3. PICK ctx, r : /\ ctx \in context /\ issued' = Append(issued, r)
                    /\ r = Sealed(Draft(n, prev, ctx, content, payload, host), host)
  BY DEF Issue
<1>4. IsSequence(issued) /\ n \in Nat /\ DOMAIN issued = 1 .. n
  BY <1>2, SequenceFacts DEF ChainInv
<1>5. /\ IsSequence(issued') /\ DOMAIN issued' = 1 .. n + 1 /\ issued'[n + 1] = r
      /\ \A k \in 1 .. n : issued'[k] = issued[k]
  BY <1>3, <1>4, SequenceAppend
<1>6. prev = PrevAt(issued, n + 1)
  <2>1. issued = <<>> <=> n = 0
    BY <1>4, EmptySeq DEF IsSequence
  <2>2. Last(issued) = issued[n] /\ (n + 1) - 1 = n
    BY <1>4 DEF Last
  <2> QED
    BY <1>4, <2>1, <2>2 DEF PrevAt
<1>7. \A k \in 1 .. n + 1 : PrevAt(issued', k) = PrevAt(issued, k)
  BY <1>4, <1>5 DEF PrevAt
<1> HIDE DEF prev
<1>8. ChainInv'
  <2>1. \A k \in 1 .. n + 1 : IssuedAs(issued'[k], k - 1, PrevAt(issued, k))
    <3> SUFFICES ASSUME NEW k \in 1 .. n + 1
                 PROVE  IssuedAs(issued'[k], k - 1, PrevAt(issued, k))
      OBVIOUS
    <3>1. CASE k = n + 1
      <4>1. (n + 1) - 1 = n
        BY <1>4
      <4>2. IssuedAs(r, n, prev)
        BY <1>1, <1>3 DEF IssuedAs
      <4> QED
        BY <1>5, <1>6, <3>1, <4>1, <4>2
    <3>2. CASE k # n + 1
      <4>1. k \in 1 .. n
        BY <1>4, <3>2
      <4> QED
        BY <1>2, <1>4, <1>5, <4>1 DEF ChainInv
    <3> QED
      BY <3>1, <3>2
  <2>2. \A k \in DOMAIN issued' : IssuedAs(issued'[k], k - 1, PrevAt(issued', k))
    BY <1>5, <1>7, <2>1
  <2>3. \A k \in DOMAIN issued' : IssuedAs(issued[k], k - 1, PrevAt(issued, k))'
    BY <1>1, <2>2 DEF IssuedAs
  <2> QED
    BY <1>5, <2>3 DEF ChainInv, IsSequence
<1>9. ContextInv' /\ BundleInv'
  BY <1>1, <1>2 DEF ContextInv, BundleInv, IsSequence
<1>10. VerifiedInv' /\ FaithfulInv' /\ PhaseInv'
  BY <1>1, <1>2 DEF VerifiedInv, FaithfulInv, PhaseInv, IsSequence
<1>11. AcceptedIsIssued' /\ ProofsRestOnGrants'
  BY <1>1, <1>2 DEF AcceptedIsIssued, ProofsRestOnGrants
<1> QED
  BY <1>8, <1>9, <1>10, <1>11 DEF AuditInv

\* What the provider has done is behind it once the chain has left.
LEMMA ChainKept ==
    ASSUME ContextInv, ChainInv, UNCHANGED <<context, issued>>
    PROVE  /\ ContextInv' /\ ChainInv'
           /\ \A j : Unforged(j) => Unforged(j)'
<1>1. context' = context /\ issued' = issued
  OBVIOUS
<1>2. ContextInv'
  BY <1>1 DEF ContextInv
<1>3. \A k \in DOMAIN issued : IssuedAs(issued[k], k - 1, PrevAt(issued, k))'
  BY <1>1 DEF ChainInv, IssuedAs
<1>4. ChainInv'
  BY <1>1, <1>3 DEF ChainInv, IsSequence
<1> QED
  BY <1>1, <1>2, <1>4 DEF Unforged

LEMMA BundleKept ==
    ASSUME AuditInv, UNCHANGED <<context, issued, bundle>>
    PROVE  ContextInv' /\ ChainInv' /\ BundleInv'
<1>1. ContextInv' /\ ChainInv' /\ \A j : Unforged(j) => Unforged(j)'
  BY ChainKept DEF AuditInv
<1>2. IsSequence(bundle') /\ bundle' = bundle
  BY DEF AuditInv, BundleInv, IsSequence
<1>3. \A k \in DOMAIN bundle : Unforged(bundle[k])'
  BY <1>1, <1>2 DEF AuditInv, BundleInv, Unforged
<1> QED
  BY <1>1, <1>2, <1>3 DEF AuditInv, BundleInv

LEMMA ExportStep ==
    ASSUME AuditInv, Export
    PROVE  AuditInv'
<1>1. /\ phase = "issuing" /\ phase' = "transit"
      /\ UNCHANGED <<context, issued, damage, verified, proved>>
  BY DEF Export
<1>2. /\ ContextInv /\ ChainInv /\ BundleInv /\ VerifiedInv /\ FaithfulInv /\ PhaseInv
      /\ verified = <<>> /\ proved = {} /\ DOMAIN <<>> = {} /\ Len(<<>>) = 0
  BY <1>1, EmptySeq DEF AuditInv, PhaseInv
<1>3. PICK b : b = [k \in DOMAIN issued |-> Project(issued[k])] /\ bundle' = b
  BY DEF Export
<1>4. ContextInv' /\ ChainInv' /\ issued' = issued
  BY <1>1, <1>2, ChainKept
<1>5. Len(issued) \in Nat /\ DOMAIN issued = 1 .. Len(issued)
  BY <1>2, SequenceFacts DEF ChainInv
<1>6. IsSequence(b) /\ Len(b) = Len(issued) /\ DOMAIN b = DOMAIN issued
  <2>1. b \in [1 .. Len(issued) -> {b[k] : k \in DOMAIN issued}]
    BY <1>3, <1>5
  <2> QED
    BY <1>3, <1>5, <2>1, SequenceOfFunction
<1>7. \A k \in DOMAIN issued : IsReceiptJSON(b[k]) /\ b[k].signature = issued[k].signature
  <2> SUFFICES ASSUME NEW k \in DOMAIN issued
               PROVE  IsReceiptJSON(b[k]) /\ b[k].signature = issued[k].signature
    OBVIOUS
  <2>1. PICK ctx \in context, content \in Contents, payload \in Payloads, host \in Hosts :
          /\ \A h \in Hosted(host) : HostAttested(Callee, h)
          /\ issued[k] = Sealed(Draft(k - 1, PrevAt(issued, k), ctx, content, payload, host),
                                host)
    BY <1>2 DEF ChainInv, IssuedAs
  <2>2. b[k] = Project(issued[k])
    BY <1>3
  <2> QED
    BY <1>2, <2>1, <2>2, ReceiptRoundTrip
<1>8. BundleInv'
  <2>1. IsSequence(bundle)'
    BY <1>3, <1>6 DEF IsSequence
  <2>2. \A k \in DOMAIN bundle' : Unforged(bundle[k])'
    BY <1>3, <1>4, <1>6, <1>7 DEF Unforged
  <2> QED
    BY <1>3, <1>6, <1>7, <2>1, <2>2 DEF BundleInv
<1>9. VerifiedInv'
  BY <1>1, <1>2, <1>3, <1>5, <1>6 DEF VerifiedInv, IsSequence
<1>10. FaithfulInv' /\ PhaseInv'
  BY <1>1, <1>2, <1>3 DEF FaithfulInv, PhaseInv
<1>11. AcceptedIsIssued' /\ ProofsRestOnGrants'
  BY <1>1, <1>2 DEF AcceptedIsIssued, ProofsRestOnGrants
<1> QED
  BY <1>4, <1>8, <1>9, <1>10, <1>11 DEF AuditInv

LEMMA DamageStep ==
    ASSUME AuditInv, Damage
    PROVE  AuditInv'
<1>1. /\ phase = "transit" /\ damage' = damage + 1
      /\ UNCHANGED <<context, issued, phase, verified, proved>>
  BY DEF Damage
<1>2. /\ ContextInv /\ ChainInv /\ BundleInv /\ VerifiedInv /\ FaithfulInv /\ PhaseInv
      /\ verified = <<>> /\ proved = {} /\ DOMAIN <<>> = {} /\ Len(<<>>) = 0
  BY <1>1, EmptySeq DEF AuditInv, PhaseInv
<1>3. ContextInv' /\ ChainInv' /\ issued' = issued /\ \A j : Unforged(j) => Unforged(j)'
  BY <1>1, <1>2, ChainKept
<1>4. /\ IsSequence(bundle')
      /\ \A i \in DOMAIN bundle' : IsReceiptJSON(bundle'[i]) /\ Unforged(bundle'[i])
  <2>1. IsSequence(bundle) /\ \A i \in DOMAIN bundle : IsReceiptJSON(bundle[i]) /\ Unforged(bundle[i])
    BY <1>2 DEF BundleInv
  <2>2. PICK k \in DOMAIN bundle :
          \/ \/ bundle' = RemoveAt(bundle, k) \/ bundle' = InsertAt(bundle, k, bundle[k])
             \/ k < Len(bundle) /\ bundle' = [bundle EXCEPT ![k] = bundle[k + 1],
                                                            ![k + 1] = bundle[k]]
          \/ \E j \in Changes(bundle[k]) : /\ IsReceiptJSON(j) /\ Unforged(j)
                                           /\ bundle' = [bundle EXCEPT ![k] = j]
    BY DEF Damage
  <2>3. CASE \/ bundle' = RemoveAt(bundle, k) \/ bundle' = InsertAt(bundle, k, bundle[k])
             \/ k < Len(bundle) /\ bundle' = [bundle EXCEPT ![k] = bundle[k + 1],
                                                            ![k + 1] = bundle[k]]
    <3>1. PICK t : t = bundle'
      OBVIOUS
    <3>2. IsSequence(t) /\ \A i \in DOMAIN t : \E l \in DOMAIN bundle : t[i] = bundle[l]
      BY <2>1, <2>3, <3>1, SequenceMoves
    <3> QED
      BY <2>1, <3>1, <3>2
  <2>4. CASE \E j \in Changes(bundle[k]) : /\ IsReceiptJSON(j) /\ Unforged(j)
                                           /\ bundle' = [bundle EXCEPT ![k] = j]
    <3>1. PICK j : IsReceiptJSON(j) /\ Unforged(j) /\ bundle' = [bundle EXCEPT ![k] = j]
      BY <2>4
    <3>2. Len(bundle) \in Nat /\ DOMAIN bundle = 1 .. Len(bundle)
      BY <2>1, SequenceFacts
    <3>3. bundle' \in [1 .. Len(bundle) -> Range(bundle) \cup {j}]
      BY <2>1, <3>1, <3>2, LenProperties DEF IsSequence, Range
    <3>4. IsSequence(bundle')
      BY <3>2, <3>3, SequenceOfFunction
    <3> QED
      BY <2>1, <3>1, <3>2, <3>4
  <2> QED
    BY <2>2, <2>3, <2>4
<1>5. BundleInv'
  <2>1. \A i \in DOMAIN bundle' : Unforged(bundle[i])'
    BY <1>3, <1>4 DEF Unforged
  <2> QED
    BY <1>4, <2>1 DEF BundleInv, IsSequence
<1>6. VerifiedInv'
  BY <1>1, <1>2, <1>4, SequenceFacts DEF VerifiedInv, IsSequence
<1>7. FaithfulInv' /\ PhaseInv'
  BY <1>1, <1>2 DEF FaithfulInv, PhaseInv
<1>8. AcceptedIsIssued' /\ ProofsRestOnGrants'
  BY <1>1, <1>2 DEF AcceptedIsIssued, ProofsRestOnGrants
<1> QED
  BY <1>3, <1>5, <1>6, <1>7, <1>8 DEF AuditInv

LEMMA OpenStep ==
    ASSUME AuditInv, Open
    PROVE  AuditInv'
<1>1. /\ phase = "transit" /\ phase' = "reading"
      /\ UNCHANGED <<context, issued, bundle, damage, verified, proved>>
  BY DEF Open
<1>2. ContextInv' /\ ChainInv' /\ BundleInv'
  BY <1>1, BundleKept
<1>3. VerifiedInv' /\ FaithfulInv' /\ PhaseInv'
  BY <1>1 DEF AuditInv, VerifiedInv, FaithfulInv, PhaseInv, IsSequence
<1>4. AcceptedIsIssued' /\ ProofsRestOnGrants'
  BY <1>1 DEF AuditInv, AcceptedIsIssued, ProofsRestOnGrants
<1> QED
  BY <1>2, <1>3, <1>4 DEF AuditInv

\* Every receipt of the chain, with the context it was issued in.
LEMMA IssuedAt ==
    ASSUME ContextInv, ChainInv, NEW k \in DOMAIN issued
    PROVE  /\ issued[k].index = k - 1 /\ issued[k].prev = PrevAt(issued, k)
           /\ issued[k].self = SelfHash(issued[k])
           /\ issued[k].caller = Caller /\ issued[k].callee = Callee
           /\ issued[k].subject = Subject /\ issued[k].ability = Ability
           /\ issued[k].authority \in Bindings
           /\ (\A ctx \in context : Portable(ctx)) =>
                 LET j == Project(issued[k])
                 IN  /\ Decodes(j) /\ FactsComplete(FactsOf(j)) /\ Accepts(j)
                     /\ Decoded(j) = issued[k]
<1>1. PICK ctx \in context, content \in Contents, payload \in Payloads, host \in Hosts :
        /\ \A h \in Hosted(host) : HostAttested(Callee, h)
        /\ issued[k] = Sealed(Draft(k - 1, PrevAt(issued, k), ctx, content, payload, host),
                              host)
  BY DEF ChainInv, IssuedAs
<1>2. PICK r : r = issued[k]
  OBVIOUS
<1>3. /\ r.index = k - 1 /\ r.prev = PrevAt(issued, k) /\ r.self = SelfHash(r)
      /\ r.caller = Caller /\ r.callee = Callee /\ r.subject = Subject
      /\ r.ability = Ability /\ r.authority = ctx.authority
  BY <1>1, <1>2, SealedParts
<1>4. ctx.authority \in Bindings
  BY DEF ContextInv
<1>5. Portable(ctx) => /\ FactsComplete(FactsOf(Project(r))) /\ Accepts(Project(r))
                       /\ Decodes(Project(r)) /\ Decoded(Project(r)) = r
  BY <1>1, <1>2, IssuedIsAccepted
<1> QED
  BY <1>2, <1>3, <1>4, <1>5

LEMMA ReadStep ==
    ASSUME AuditInv, Read
    PROVE  AuditInv'
<1>1. /\ phase = "reading" /\ Len(verified) < Len(bundle)
      /\ UNCHANGED <<context, issued, bundle, damage, proved>>
  BY DEF Read
<1>2. /\ ContextInv /\ ChainInv /\ BundleInv /\ VerifiedInv /\ FaithfulInv /\ PhaseInv
      /\ proved = {}
  BY <1>1 DEF AuditInv, PhaseInv
<1>3. ContextInv' /\ ChainInv' /\ BundleInv'
  BY <1>1, BundleKept
<1>4. PICK n : n = Len(verified)
  OBVIOUS
<1>5. /\ n \in Nat /\ DOMAIN verified = 1 .. n
      /\ Len(bundle) \in Nat /\ DOMAIN bundle = 1 .. Len(bundle) /\ n + 1 \in DOMAIN bundle
  BY <1>1, <1>2, <1>4, SequenceFacts DEF VerifiedInv, BundleInv
<1>6. PICK j : j = bundle[n + 1]
  OBVIOUS
<1>7. IsReceiptJSON(j) /\ Unforged(j)
  BY <1>2, <1>5, <1>6 DEF BundleInv
<1> DEFINE faithful == damage = 0 /\ \A ctx \in context : Portable(ctx)
<1>8. faithful => /\ n + 1 \in DOMAIN issued /\ Decodes(j) /\ FactsComplete(FactsOf(j))
                  /\ Accepts(j) /\ Decoded(j) = issued[n + 1]
  <2> SUFFICES ASSUME faithful
               PROVE  /\ n + 1 \in DOMAIN issued /\ Decodes(j) /\ FactsComplete(FactsOf(j))
                      /\ Accepts(j) /\ Decoded(j) = issued[n + 1]
    OBVIOUS
  <2>1. bundle = [k \in DOMAIN issued |-> Project(issued[k])]
    BY <1>1, <1>2 DEF FaithfulInv
  <2>2. n + 1 \in DOMAIN issued /\ j = Project(issued[n + 1])
    BY <1>5, <1>6, <2>1
  <2> QED
    BY <1>2, <2>2, IssuedAt
<1>9. AcceptedIsIssued' /\ ProofsRestOnGrants'
  <2>1. phase' # "accepted" /\ proved' = {}
    BY <1>1, <1>2 DEF Read
  <2> QED
    BY <2>1 DEF AcceptedIsIssued, ProofsRestOnGrants
<1>10. CASE verified' = verified /\ phase' \in {"rejected", "panicked"}
             /\ ~(Decodes(j) /\ FactsComplete(FactsOf(j)) /\ Accepts(j))
  <2>1. ~faithful
    BY <1>8, <1>10
  <2>2. VerifiedInv' /\ FaithfulInv' /\ PhaseInv'
    BY <1>1, <1>2, <1>10, <2>1 DEF VerifiedInv, FaithfulInv, PhaseInv, IsSequence
  <2> QED
    BY <1>3, <1>9, <2>2 DEF AuditInv
<1>11. CASE verified' = Append(verified, Decoded(j)) /\ phase' = phase
             /\ Decodes(j) /\ FactsComplete(FactsOf(j)) /\ Accepts(j)
  <2>1. PICK i \in DOMAIN issued : Matches(Decoded(j), issued[i])
    BY <1>2, <1>7, <1>11, AcceptedMatches
  <2>2. PICK d : d = Decoded(j)
    OBVIOUS
  <2>3. IsSequence(verified)
    BY <1>2 DEF VerifiedInv
  <2>4. /\ IsSequence(verified') /\ Len(verified') = n + 1 /\ DOMAIN verified' = 1 .. n + 1
        /\ verified'[n + 1] = d /\ \A k \in 1 .. n : verified'[k] = verified[k]
    BY <1>4, <1>5, <1>11, <2>2, <2>3, SequenceAppend
  <2>5. VerifiedInv'
    <3>1. Len(verified') <= Len(bundle')
      BY <1>1, <1>4, <1>5, <2>4
    <3>2. \A k \in 1 .. n + 1 : \E l \in DOMAIN issued : Matches(verified'[k], issued[l])
      BY <1>2, <1>5, <2>1, <2>2, <2>4 DEF VerifiedInv
    <3> QED
      BY <1>1, <2>4, <3>1, <3>2 DEF VerifiedInv, IsSequence
  <2>6. faithful => \A k \in 1 .. n + 1 : verified'[k] = issued[k]
    BY <1>2, <1>5, <1>8, <2>2, <2>4 DEF FaithfulInv
  <2>7. FaithfulInv'
    BY <1>1, <1>2, <1>11, <2>4, <2>6 DEF FaithfulInv
  <2>8. PhaseInv'
    BY <1>1, <1>2, <1>11 DEF PhaseInv
  <2> QED
    BY <1>3, <1>9, <2>5, <2>7, <2>8 DEF AuditInv
<1> QED
  BY <1>4, <1>6, <1>10, <1>11 DEF Read

\* A range of naturals determines where it ends.
LEMMA SameUpTo ==
    ASSUME NEW a \in Nat, NEW b \in Nat, 1 .. a = 1 .. b
    PROVE  a = b
<1>1. \A i \in Int : 1 <= i /\ i <= a <=> 1 <= i /\ i <= b
  OBVIOUS
<1>2. a <= b /\ b <= a
  BY <1>1
<1> QED
  BY <1>2

LEMMA WalkStep ==
    ASSUME AuditInv, Walk
    PROVE  AuditInv'
<1>1. /\ phase = "reading" /\ Len(verified) = Len(bundle)
      /\ phase' = IF ChainLinked(verified) THEN "accepted" ELSE "broken"
      /\ UNCHANGED <<context, issued, bundle, damage, verified, proved>>
  BY DEF Walk
<1>2. /\ ContextInv /\ ChainInv /\ BundleInv /\ VerifiedInv /\ FaithfulInv /\ PhaseInv
      /\ proved = {}
  BY <1>1 DEF AuditInv, PhaseInv
<1>3. ContextInv' /\ ChainInv' /\ BundleInv'
  BY <1>1, BundleKept
<1>4. /\ IsSequence(issued) /\ Len(issued) \in Nat /\ DOMAIN issued = 1 .. Len(issued)
      /\ IsSequence(verified) /\ Len(verified) \in Nat
      /\ DOMAIN verified = 1 .. Len(verified)
      /\ DOMAIN bundle = 1 .. Len(bundle) /\ Len(bundle) \in Nat
  BY <1>2, SequenceFacts DEF ChainInv, VerifiedInv, BundleInv
<1>5. ASSUME damage = 0, \A ctx \in context : Portable(ctx)
      PROVE  verified = issued /\ ChainLinked(verified)
  <2>1. bundle = [k \in DOMAIN issued |-> Project(issued[k])]
    BY <1>1, <1>2, <1>5 DEF FaithfulInv
  <2>2. DOMAIN verified = DOMAIN issued
    BY <1>1, <1>4, <2>1
  <2>3. Len(verified) = Len(issued)
    <3>1. 1 .. Len(verified) = 1 .. Len(issued)
      <4>1. DOMAIN verified = 1 .. Len(verified) /\ DOMAIN issued = 1 .. Len(issued)
        BY <1>4
      <4> QED
        BY <2>2, <4>1, Zenon
    <3>2. Len(verified) \in Nat /\ Len(issued) \in Nat
      BY <1>4, ZenonT(60)
    <3> QED
      BY <3>1, <3>2, SameUpTo, Zenon
  <2>4. \A k \in 1 .. Len(issued) : verified[k] = issued[k]
    BY <1>2, <1>4, <1>5, <2>3 DEF FaithfulInv
  <2>5. verified = issued
    <3> DEFINE R == Range(issued)
    <3>1. issued \in [1 .. Len(issued) -> R] /\ verified = [k \in 1 .. Len(issued) |-> verified[k]]
      BY <1>4, <2>3, LenProperties DEF IsSequence
    <3> HIDE DEF R
    <3> QED
      BY <2>4, <3>1
  <2>6. ChainLinked(issued)
    BY <1>2, IssuedAt DEF ChainLinked, PrevAt
  <2> QED
    BY <2>5, <2>6
<1>6. ASSUME ChainLinked(verified), NEW k \in DOMAIN verified
      PROVE  k \in DOMAIN issued /\ Matches(verified[k], issued[k])
  <2>1. PICK i \in DOMAIN issued : Matches(verified[k], issued[i])
    BY <1>2 DEF VerifiedInv
  <2>2. verified[k].index = issued[i].index
    BY <2>1 DEF Matches, SignedFields
  <2>3. verified[k].index = k - 1
    BY <1>6 DEF ChainLinked
  <2>4. issued[i].index = i - 1
    BY <1>2, IssuedAt
  <2>5. k \in Int /\ i \in Int
    BY <1>4
  <2>6. k - 1 = i - 1
    BY <2>2, <2>3, <2>4
  <2>7. k = i
    BY <2>5, <2>6
  <2> QED
    BY <2>1, <2>7
<1>7. VerifiedInv'
  BY <1>1, <1>2 DEF VerifiedInv, IsSequence
<1>8. FaithfulInv' /\ PhaseInv'
  BY <1>1, <1>2, <1>5 DEF FaithfulInv, PhaseInv
<1>9. AcceptedIsIssued'
  <2>1. SUFFICES ASSUME ChainLinked(verified)
                 PROVE  AcceptedIsIssued'
    BY <1>1 DEF AcceptedIsIssued
  <2>2. Len(verified) <= Len(issued)
    <3>1. CASE Len(verified) = 0
      BY <1>4, <3>1
    <3>2. CASE Len(verified) # 0
      <4>1. Len(verified) \in DOMAIN verified
        BY <1>4, <3>2
      <4>2. Len(verified) \in DOMAIN issued
        BY <1>6, <2>1, <4>1
      <4> QED
        BY <1>4, <4>2
    <3> QED
      BY <3>1, <3>2
  <2> QED
    BY <1>1, <1>6, <2>1, <2>2 DEF AcceptedIsIssued, Matches
<1>10. ProofsRestOnGrants'
  BY <1>1, <1>2 DEF ProofsRestOnGrants
<1> QED
  BY <1>3, <1>7, <1>8, <1>9, <1>10 DEF AuditInv

\* The claim of a binding the issuer signed is the claim of a grant.
LEMMA DelegationIsGranted ==
    ASSUME NEW b \in Bindings, NEW caller, b.form = "delegated_by+delegation",
           SignedByIssuer(b, Keys, DelegationPayload(b, caller))
    PROVE  \E g \in Grants :
             /\ g.form = b.form /\ g.authority = b.authority.ura
             /\ g.delegatee = caller.ura /\ g.scopes = b.evidence.scopes
             /\ g.audiences = <<b.evidence.audiences[1]>>
             /\ g.expiresAt = b.evidence.expiresAt
<1> DEFINE e == b.evidence
<1>1. ~IsBootstrap(b)
  BY DEF IsBootstrap
<1>2. /\ e.signature = SignatureOf(e.issuer.ura, DelegationPayload(b, caller))
      /\ SignedByKnown(e.signature)
  <2>1. /\ e.signature = SignatureOf(e.issuer.ura, DelegationPayload(b, caller))
        /\ HasSignatureSize(e.signature) /\ e.issuer.ura \in Keys
    BY DEF SignedByIssuer
  <2> QED
    BY <2>1 DEF SignedByKnown, SignatureOf
<1>3. PICK g \in Grants : e.signature = GrantSignature(g)
  BY <1>1, <1>2, GrantsAssumption
<1>4. DelegationPayload(b, caller) =
        <<"delegation", e.issuer.ura, b.authority.ura, caller.ura, e.audiences[1],
          e.scopes, e.issuedAt, e.expiresAt>>
  BY DEF DelegationPayload
<1>5. g.form = "delegated_by+delegation" /\ g.audiences = <<g.audiences[1]>>
  <2>1. CASE g.form = "session_of+session"
    <3>1. DelegationPayload(b, caller) = SessionPayload(GrantBinding(g, Strict))
      BY <1>2, <1>3, <2>1 DEF GrantSignature, SignatureOf
    <3>2. SessionPayload(GrantBinding(g, Strict))[1] = "session"
      BY DEF SessionPayload
    <3> QED
      BY <1>4, <3>1, <3>2
  <2> QED
    BY <2>1, GrantsAssumption
<1>6. DelegationPayload(b, caller) =
        DelegationPayload(GrantBinding(g, Strict), Identity(g.delegatee, Strict))
  BY <1>2, <1>3, <1>5 DEF GrantSignature, SignatureOf
<1>7. DelegationPayload(GrantBinding(g, Strict), Identity(g.delegatee, Strict)) =
        <<"delegation", g.issuer, g.authority, g.delegatee, g.audiences[1], g.scopes,
          g.issuedAt, g.expiresAt>>
  BY DEF DelegationPayload, GrantBinding, AuthorityBinding, Identity
<1>8. /\ b.authority.ura = g.authority /\ caller.ura = g.delegatee
      /\ e.audiences[1] = g.audiences[1] /\ e.scopes = g.scopes
      /\ e.expiresAt = g.expiresAt
  BY <1>4, <1>6, <1>7
<1> QED
  BY <1>5, <1>8

LEMMA SessionIsGranted ==
    ASSUME NEW b \in Bindings, b.form = "session_of+session",
           SignedByIssuer(b, Keys, SessionPayload(b))
    PROVE  \E g \in Grants :
             /\ g.form = b.form /\ g.authority = b.authority.ura
             /\ g.issuer = b.evidence.issuer.ura /\ g.scopes = b.evidence.scopes
             /\ g.audiences = b.evidence.audiences
             /\ g.expiresAt = b.evidence.expiresAt
<1> DEFINE e == b.evidence
<1>1. ~IsBootstrap(b)
  BY DEF IsBootstrap
<1>2. /\ e.signature = SignatureOf(e.issuer.ura, SessionPayload(b))
      /\ SignedByKnown(e.signature)
  <2>1. /\ e.signature = SignatureOf(e.issuer.ura, SessionPayload(b))
        /\ HasSignatureSize(e.signature) /\ e.issuer.ura \in Keys
    BY DEF SignedByIssuer
  <2> QED
    BY <2>1 DEF SignedByKnown, SignatureOf
<1>3. PICK g \in Grants : e.signature = GrantSignature(g)
  BY <1>1, <1>2, GrantsAssumption
<1>4. SessionPayload(b) =
        <<"session", e.issuer.ura, b.authority.ura, e.session, e.scopes, e.audiences,
          e.issuedAt, e.expiresAt>>
  BY DEF SessionPayload
<1>5. g.form = "session_of+session"
  <2>1. CASE g.form # "session_of+session"
    <3>1. SessionPayload(b) =
            DelegationPayload(GrantBinding(g, Strict), Identity(g.delegatee, Strict))
      BY <1>2, <1>3, <2>1 DEF GrantSignature, SignatureOf
    <3>2. DelegationPayload(GrantBinding(g, Strict), Identity(g.delegatee, Strict))[1] = "delegation"
      BY DEF DelegationPayload
    <3> QED
      BY <1>4, <3>1, <3>2
  <2> QED
    BY <2>1
<1>6. SessionPayload(b) = SessionPayload(GrantBinding(g, Strict))
  BY <1>2, <1>3, <1>5 DEF GrantSignature, SignatureOf
<1>7. SessionPayload(GrantBinding(g, Strict)) =
        <<"session", g.issuer, g.authority, g.session, g.scopes, g.audiences,
          g.issuedAt, g.expiresAt>>
  BY DEF SessionPayload, GrantBinding, AuthorityBinding, Identity
<1>8. /\ e.issuer.ura = g.issuer /\ b.authority.ura = g.authority
      /\ e.scopes = g.scopes /\ e.audiences = g.audiences /\ e.expiresAt = g.expiresAt
  BY <1>4, <1>6, <1>7
<1> QED
  BY <1>5, <1>8

LEMMA ProveStep ==
    ASSUME AuditInv, NEW k \in DOMAIN verified, Prove(k)
    PROVE  AuditInv'
<1>1. /\ phase = "accepted" /\ ProveAuthority(verified[k], Keys, now)
      /\ proved' = proved \cup {[position |-> k, at |-> now]}
      /\ UNCHANGED <<context, issued, bundle, damage, phase, verified>>
  BY DEF Prove
<1>2. /\ ContextInv /\ ChainInv /\ VerifiedInv /\ FaithfulInv /\ PhaseInv
      /\ AcceptedIsIssued /\ ProofsRestOnGrants
  BY DEF AuditInv
<1>3. ContextInv' /\ ChainInv' /\ BundleInv'
  BY <1>1, BundleKept
<1>4. VerifiedInv' /\ FaithfulInv' /\ PhaseInv'
  <2>1. VerifiedInv' /\ FaithfulInv'
    BY <1>1, <1>2 DEF VerifiedInv, FaithfulInv, IsSequence
  <2>2. PhaseInv'
    BY <1>1, <1>2 DEF PhaseInv
  <2> QED
    BY <2>1, <2>2
<1>5. AcceptedIsIssued'
  BY <1>1, <1>2 DEF AcceptedIsIssued
<1>6. PICK r : r = issued[k]
  OBVIOUS
<1>7. k \in DOMAIN issued
  BY <1>1, <1>2, SequenceFacts DEF AcceptedIsIssued, VerifiedInv, ChainInv
<1>8. PICK v : v = verified[k]
  OBVIOUS
<1>9. /\ v.authority = r.authority /\ v.caller = r.caller /\ v.callee = r.callee
      /\ v.subject = r.subject /\ v.ability = r.ability
  <2>1. \A f \in SignedFields : v[f] = r[f]
    BY <1>1, <1>2, <1>6, <1>8 DEF AcceptedIsIssued
  <2> QED
    BY <2>1 DEF SignedFields
<1>10. r.caller = Caller /\ r.authority \in Bindings
  BY <1>2, <1>6, <1>7, IssuedAt
<1> DEFINE b == r.authority
<1>11. \/ IsBootstrap(b) /\ b.principal = r.caller.ura
       \/ b.form = "self+identity" /\ b.authority.ura = r.caller.ura
       \/ b.form = "delegated_by+delegation" /\ ProvesDelegation(v, b, Keys, now)
       \/ b.form = "session_of+session" /\ ProvesSession(v, b, Keys, now)
  BY <1>1, <1>8, <1>9 DEF ProveAuthority
<1>12. ASSUME b.form = "delegated_by+delegation", ProvesDelegation(v, b, Keys, now)
       PROVE  \E g \in Grants : Covers(g, r, now)
  <2>1. PICK g \in Grants :
          /\ g.form = b.form /\ g.authority = b.authority.ura
          /\ g.delegatee = r.caller.ura /\ g.scopes = b.evidence.scopes
          /\ g.audiences = <<b.evidence.audiences[1]>>
          /\ g.expiresAt = b.evidence.expiresAt
    <3>1. SignedByIssuer(b, Keys, DelegationPayload(b, v.caller))
      BY <1>12 DEF ProvesDelegation
    <3>2. SignedByIssuer(b, Keys, DelegationPayload(b, r.caller))
      BY <1>9, <3>1
    <3>3. PICK a \in Bindings : a = b
      BY <1>10
    <3>4. PICK caller : caller = r.caller
      OBVIOUS
    <3>5. /\ a.form = "delegated_by+delegation"
          /\ SignedByIssuer(a, Keys, DelegationPayload(a, caller))
      BY <1>12, <3>2, <3>3, <3>4
    <3>6. \E g \in Grants :
            /\ g.form = a.form /\ g.authority = a.authority.ura
            /\ g.delegatee = caller.ura /\ g.scopes = a.evidence.scopes
            /\ g.audiences = <<a.evidence.audiences[1]>>
            /\ g.expiresAt = a.evidence.expiresAt
      BY <3>5, DelegationIsGranted
    <3> QED
      BY <3>3, <3>4, <3>6
  <2> QED
    BY <1>9, <1>12, <2>1 DEF ProvesDelegation, Covers
<1>13. ASSUME b.form = "session_of+session", ProvesSession(v, b, Keys, now)
       PROVE  \E g \in Grants : Covers(g, r, now)
  <2>1. PICK g \in Grants :
          /\ g.form = b.form /\ g.authority = b.authority.ura
          /\ g.issuer = b.evidence.issuer.ura /\ g.scopes = b.evidence.scopes
          /\ g.audiences = b.evidence.audiences
          /\ g.expiresAt = b.evidence.expiresAt
    <3>1. SignedByIssuer(b, Keys, SessionPayload(b))
      BY <1>13 DEF ProvesSession
    <3> QED
      BY <1>10, <1>13, <3>1, SessionIsGranted
  <2> QED
    BY <1>9, <1>13, <2>1 DEF ProvesSession, Covers
<1>14. ProofsRestOnGrants'
  <2> SUFFICES ASSUME NEW p \in proved'
               PROVE  LET c == issued[p.position].authority
                      IN  CASE IsBootstrap(c) -> c.principal = Caller.ura
                            [] c.form = "self+identity" -> c.authority.ura = Caller.ura
                            [] OTHER -> \E g \in Grants : Covers(g, issued[p.position], p.at)
    BY <1>1 DEF ProofsRestOnGrants
  <2>1. CASE p \in proved
    BY <1>2, <2>1 DEF ProofsRestOnGrants
  <2>2. CASE p = [position |-> k, at |-> now]
    <3>1. issued[p.position] = r /\ p.at = now
      BY <1>6, <2>2
    <3>2. CASE b.form = "self+identity" \/ IsBootstrap(b)
      BY <1>10, <1>11, <3>1, <3>2 DEF IsBootstrap
    <3>3. CASE b.form # "self+identity" /\ ~IsBootstrap(b)
      BY <1>11, <1>12, <1>13, <3>1, <3>3
    <3> QED
      BY <3>2, <3>3
  <2> QED
    BY <1>1, <2>1, <2>2
<1> QED
  BY <1>3, <1>4, <1>5, <1>14 DEF AuditInv

LEMMA TickStep ==
    ASSUME AuditInv, UNCHANGED <<context, issued, bundle, damage, phase, verified, proved>>
    PROVE  AuditInv'
<1>1. ContextInv' /\ ChainInv' /\ BundleInv'
  BY BundleKept
<1>2. VerifiedInv' /\ FaithfulInv' /\ PhaseInv'
  BY DEF AuditInv, VerifiedInv, FaithfulInv, PhaseInv, IsSequence
<1>3. AcceptedIsIssued' /\ ProofsRestOnGrants'
  BY DEF AuditInv, AcceptedIsIssued, ProofsRestOnGrants
<1> QED
  BY <1>1, <1>2, <1>3 DEF AuditInv

-------------------------------------------------------------------------------
(* The theorems.                                                               *)

\* Every reachable state satisfies the inductive invariant: the chain was signed in
\* the admitted context, the bundle forges nothing, every receipt the auditor
\* verified is one the provider issued, and an undamaged bundle is read as the chain.
THEOREM AuditInvariant == Spec => []AuditInv
<1>1. Init => AuditInv
  BY InitAudit
<1>2. AuditInv /\ [Next]_vars => AuditInv'
  <2> SUFFICES ASSUME AuditInv, [Next]_vars
               PROVE  AuditInv'
    OBVIOUS
  <2>1. CASE \E b \in Bindings, p \in ProofPayloads, c \in Causals : Admit(b, p, c)
    BY <2>1, AdmitStep
  <2>2. CASE \E c \in Contents, p \in Payloads, h \in Hosts : Issue(c, p, h)
    BY <2>2, IssueStep
  <2>3. CASE Export
    BY <2>3, ExportStep
  <2>4. CASE Damage
    BY <2>4, DamageStep
  <2>5. CASE Open
    BY <2>5, OpenStep
  <2>6. CASE Read
    BY <2>6, ReadStep
  <2>7. CASE Walk
    BY <2>7, WalkStep
  <2>8. CASE \E k \in DOMAIN verified : Prove(k)
    BY <2>8, ProveStep
  <2>9. CASE Tick
    BY <2>9, TickStep DEF Tick
  <2>10. CASE UNCHANGED vars
    BY <2>10, TickStep DEF vars
  <2> QED
    BY <2>1, <2>2, <2>3, <2>4, <2>5, <2>6, <2>7, <2>8, <2>9, <2>10 DEF Next
<1> QED
  BY <1>1, <1>2, PTL DEF Spec

\* The context is bound once, and the chain, the damage and the clock stay in their
\* bounds; the auditor never reads past the bundle.
THEOREM AuditTypeCorrect == Spec => []TypeOK
<1> USE AuditAssumption
<1>1. Init => TypeOK
  BY EmptySeq, FS_EmptySet DEF Init, TypeOK
<1>2. AuditInv /\ AuditInv' /\ TypeOK /\ [Next]_vars => TypeOK'
  <2> SUFFICES ASSUME AuditInv, AuditInv', TypeOK, [Next]_vars
               PROVE  TypeOK'
    OBVIOUS
  <2>1. Cardinality(context') <= 1
    <3>1. CASE UNCHANGED context
      BY <3>1 DEF TypeOK
    <3>2. CASE \E ctx : context' = {ctx}
      <4>1. PICK ctx : context' = {ctx}
        BY <3>2
      <4>2. Cardinality({ctx}) = 1
        BY FS_Singleton, Zenon
      <4> QED
        BY <4>1, <4>2
    <3>3. UNCHANGED context \/ \E ctx : context' = {ctx}
      BY DEF Next, vars, Admit, Issue, Export, Damage, Open, Read, Walk, Prove, Tick
    <3> QED
      BY <3>1, <3>2, <3>3
  <2>2. phase' \in {"issuing", "transit", "reading"} \cup Verdicts
    BY DEF TypeOK, Verdicts, Next, vars, Admit, Issue, Export, Damage, Open, Read, Walk,
           Prove, Tick
  <2>3. damage' \in 0 .. MaxDamage /\ now' \in 0 .. MaxTime
    BY DEF TypeOK, Next, vars, Admit, Issue, Export, Damage, Open, Read, Walk, Prove, Tick
  <2>4. Len(issued') <= MaxReceipts
    <3>1. CASE UNCHANGED issued
      BY <3>1 DEF TypeOK
    <3>2. CASE Len(issued) < MaxReceipts /\ \E r : issued' = Append(issued, r)
      <4>1. IsSequence(issued)
        BY DEF AuditInv, ChainInv
      <4>2. PICK n \in Nat, m \in Int : n = Len(issued) /\ m = Len(issued') /\ m = n + 1
        BY <3>2, <4>1, SequenceFacts, SequenceAppend
      <4> QED
        BY <3>2, <4>2
    <3>3. UNCHANGED issued \/ (Len(issued) < MaxReceipts /\ \E r : issued' = Append(issued, r))
      BY DEF Next, vars, Admit, Issue, Export, Damage, Open, Read, Walk, Prove, Tick
    <3> QED
      BY <3>1, <3>2, <3>3
  <2>5. Len(verified') <= Len(bundle')
    BY DEF AuditInv, VerifiedInv
  <2> QED
    BY <2>1, <2>2, <2>3, <2>4, <2>5 DEF TypeOK
<1> QED
  BY <1>1, <1>2, AuditInvariant, PTL DEF Spec

\* Whatever receipts a bundle lost, repeated, exchanged or had changed, an audit that
\* accepts it holds a prefix of what the provider issued, field by signed field and
\* with no other payload (VerifyReceiptChain over UnverifiedReceipt.Verify).
THEOREM AcceptedReceiptsAreIssued == Spec => []AcceptedIsIssued
<1>1. AuditInv => AcceptedIsIssued
  BY DEF AuditInv
<1> QED
  BY <1>1, AuditInvariant, PTL

\* Every chain issued in a portable context (strict authorities, a causal context with
\* its parts) survives ProjectSignedInvocationReceipt and ToUnverifiedReceipt: the audit
\* of an undamaged bundle cannot reject, break or panic, and ends with the issued
\* receipts themselves.  Contexts that are not portable are admitted by the code too and
\* are outside.
THEOREM IssuedReceiptsSurvive == Spec => []IssuedSurvivesExport
<1>1. AuditInv => IssuedSurvivesExport
  BY DEF AuditInv, FaithfulInv, IssuedSurvivesExport, Verdicts
<1> QED
  BY <1>1, AuditInvariant, PTL

\* ProveAuthority succeeds on an accepted receipt only by the caller's own authority
\* or by a grant signed for this caller, authority, ability and callee, in its time.
THEOREM ProofsAreGranted == Spec => []ProofsRestOnGrants
<1>1. AuditInv => ProofsRestOnGrants
  BY DEF AuditInv
<1> QED
  BY <1>1, AuditInvariant, PTL

===============================================================================
