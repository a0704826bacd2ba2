------------------------------- MODULE Authority -------------------------------
(***************************************************************************)
(* Authority bindings and their proofs (axon/invocation/axiom.go,          *)
(* receipt_provider.go, receipt_verbs.go) and their JSON projection        *)
(* (bundle.go): who an invocation acts for, how that is evidenced, and     *)
(* what ProveAuthority accepts.                                            *)
(*                                                                         *)
(* Texts are tuples and Blank is the empty one: a URA is <<realm, role,    *)
(* name>>, an ability <<realm, name, version>>.  The key of a URA is the   *)
(* URA.  A signature is <<key, bytes>>, and a pair is a signature of the   *)
(* right length.  The hash of x is <<"sha256", x>>: hashes do not collide. *)
(* What Go holds in a pointer is a set with at most one element.           *)
(***************************************************************************)
EXTENDS Integers, Sequences, SequencesExt

Blank == <<>>

ZeroHash == <<>>

Sha256(x) == <<"sha256", x>>

SignatureOf(key, bytes) == <<key, bytes>>

HasSignatureSize(signature) == Len(signature) = 2

Strict == "axon-strict-v2"

WebSafe == "web-safe-v2"

Identity(ura, profile) == [ura |-> ura, profile |-> profile]

\* ParseUraProfile, and with it ToAgent and ToSubject of an IdentityJSON.
ProfileParses(identity) == identity.profile \in {Strict, WebSafe}

Realm(ura) == ura[1]

Role(ura) == ura[2]

-------------------------------------------------------------------------------
(* Bindings.  The form is the pair of a relation and an evidence kind; all     *)
(* evidence has the same fields, and a delegation has one audience.            *)

NoEvidence ==
    [issuer |-> Identity(Blank, ""), session |-> Blank, scopes |-> <<>>,
     audiences |-> <<>>, issuedAt |-> 0, expiresAt |-> 0, signature |-> <<>>]

\* SelfAuthority, DelegatedAuthority and SessionAuthority.
AuthorityBinding(form, authority, evidence) ==
    [form |-> form, authority |-> authority, evidence |-> evidence]

SelfAuthority(ura) ==
    AuthorityBinding("self+identity", Identity(ura, Strict), NoEvidence)

BootstrapAuthority(principal, realm, ability) ==
    [form |-> "bootstrap", principal |-> principal, realm |-> realm,
     ability |-> ability]

IsBootstrap(binding) == binding.form = "bootstrap"

\* "any" is *, "prefix" a text followed by *, "under" a text that ends in a slash.
Pattern == [kind : {"any", "exact", "prefix", "under"}, text : Seq(STRING)]

scopeMatches(pattern, ability) ==
    CASE pattern.kind = "any" -> TRUE
      [] pattern.kind = "prefix" -> IsPrefix(pattern.text, ability)
      [] OTHER -> pattern.text = ability

audienceAdmits(audience, callee) ==
    \/ audience.kind = "any"
    \/ audience.text = callee
    \/ audience.kind = "under" /\ IsPrefix(audience.text, callee)

ScopesAdmit(scopes, ability) ==
    \E k \in DOMAIN scopes : scopeMatches(scopes[k], ability)

AudiencesAdmit(audiences, callee) ==
    \E k \in DOMAIN audiences : audienceAdmits(audiences[k], callee)

\* Evidence whose fields the shallow gate wants present.
EvidencePresent(evidence) ==
    /\ evidence.issuer.ura # Blank
    /\ evidence.scopes # <<>> /\ evidence.audiences # <<>>
    /\ evidence.signature # <<>>

\* validateAuthorityBinding: the shallow gate at admission, at every encoding of a
\* receipt and at every verification.
validateAuthorityBinding(caller, subject, ability, binding) ==
    \/ /\ IsBootstrap(binding)
       /\ binding.principal = caller.ura
       /\ binding.ability = ability
       /\ binding.realm # Blank
    \/ /\ binding.form = "self+identity"
       /\ binding.authority.ura # Blank
       /\ binding.authority.ura = caller.ura
    \/ /\ binding.form = "delegated_by+delegation"
       /\ binding.authority.ura # Blank
       /\ EvidencePresent(binding.evidence)
    \/ /\ binding.form = "session_of+session"
       /\ binding.authority.ura # Blank
       /\ binding.authority.ura = subject.ura
       /\ EvidencePresent(binding.evidence)
       /\ binding.evidence.session # Blank

\* nonemptyTrimmedStrings.
NoneBlank(patterns) ==
    patterns # <<>> /\ \A k \in DOMAIN patterns :
                          patterns[k].kind = "exact" => patterns[k].text # Blank

\* validateCompleteAuthorityOrBootstrap: what the encoder of the proof facts wants,
\* stricter about blank entries than the gate above.
validateCompleteAuthorityOrBootstrap(binding) ==
    \/ /\ IsBootstrap(binding)
       /\ binding.principal # Blank /\ binding.realm # Blank
       /\ binding.ability # Blank
    \/ /\ binding.form = "self+identity"
       /\ binding.authority.ura # Blank
    \/ /\ binding.form \in {"delegated_by+delegation", "session_of+session"}
       /\ binding.authority.ura # Blank
       /\ EvidencePresent(binding.evidence)
       /\ NoneBlank(binding.evidence.scopes)
       /\ binding.form = "session_of+session" => /\ binding.evidence.session # Blank
                                                 /\ NoneBlank(binding.evidence.audiences)

-------------------------------------------------------------------------------
(* Canonical bytes.                                                            *)

\* putEvidencePayload with the signature; an identity has no payload.
EvidencePayload(binding) ==
    LET e == binding.evidence IN
    CASE binding.form = "self+identity" -> <<>>
      [] binding.form = "delegated_by+delegation" ->
            <<e.issuer, e.scopes, e.audiences[1], e.issuedAt, e.expiresAt, e.signature>>
      [] binding.form = "session_of+session" ->
            <<e.issuer, e.session, e.scopes, e.audiences, e.issuedAt, e.expiresAt,
              e.signature>>

\* CanonicalAuthorityOrBootstrapBytes.
CanonicalAuthority(binding) ==
    IF IsBootstrap(binding)
    THEN <<"bootstrap", binding.principal, binding.realm, binding.ability>>
    ELSE <<binding.form, binding.authority>> \o EvidencePayload(binding)

\* Fault: the claim does not name the caller it is for.
DelegationPayloadForAnyone(binding, caller) ==
    LET e == binding.evidence IN
    <<"delegation", e.issuer.ura, binding.authority.ura, e.audiences[1],
      e.scopes, e.issuedAt, e.expiresAt>>

\* delegationPayloadCanonical: what the issuer signs.  The caller is in it although
\* the evidence does not store it; profiles are not.
DelegationPayload(binding, caller) ==
    LET e == binding.evidence IN
    <<"delegation", e.issuer.ura, binding.authority.ura, caller.ura, e.audiences[1],
      e.scopes, e.issuedAt, e.expiresAt>>

\* sessionAuthorityPayloadCanonical.
SessionPayload(binding) ==
    LET e == binding.evidence IN
    <<"session", e.issuer.ura, binding.authority.ura, e.session, e.scopes,
      e.audiences, e.issuedAt, e.expiresAt>>

-------------------------------------------------------------------------------
(* Proofs: [type, binding, payload, hash, issuer, signature, hook].            *)

\* AuthorityProofExpectedHash: of the payload if there is one, else of the binding.
ExpectedHash(proof) ==
    CASE proof.payload # Blank -> Sha256(proof.payload)
      [] proof.payload = Blank /\ proof.binding # {} ->
            Sha256(CanonicalAuthority(CHOOSE b \in proof.binding : TRUE))
      [] OTHER -> ZeroHash

\* validateAuthorityProof: the proof is about this binding and this callee.
validateAuthorityProof(proof, binding, callee) ==
    /\ proof.type # Blank
    /\ proof.binding = {binding}
    /\ proof.issuer = {callee} /\ callee.ura # Blank
    /\ proof.hook # Blank
    /\ proof.hash # ZeroHash /\ proof.hash = ExpectedHash(proof)

\* validateCompleteAuthorityProof.
validateCompleteAuthorityProof(proof) ==
    /\ proof.type # Blank
    /\ proof.binding # {}
    /\ \A b \in proof.binding : validateCompleteAuthorityOrBootstrap(b)
    /\ proof.issuer # {} /\ \A i \in proof.issuer : i.ura # Blank
    /\ proof.hook # Blank
    /\ proof.hash # ZeroHash /\ proof.hash = ExpectedHash(proof)

\* The issuer resolves and signed these bytes.
SignedByIssuer(binding, keys, payload) ==
    /\ binding.evidence.issuer.ura \in keys
    /\ HasSignatureSize(binding.evidence.signature)
    /\ binding.evidence.signature = SignatureOf(binding.evidence.issuer.ura, payload)

\* proveAuthorityBinding, delegated_by+delegation.
ProvesDelegation(r, binding, keys, now) ==
    /\ AudiencesAdmit(<<binding.evidence.audiences[1]>>, r.callee.ura)
    /\ ScopesAdmit(binding.evidence.scopes, r.ability)
    /\ now < binding.evidence.expiresAt
    /\ SignedByIssuer(binding, keys, DelegationPayload(binding, r.caller))

\* proveAuthorityBinding, session_of+session: presented by its issuer, owned by the
\* subject.
ProvesSession(r, binding, keys, now) ==
    /\ binding.evidence.issuer.ura = r.caller.ura
    /\ binding.authority.ura = r.subject.ura
    /\ AudiencesAdmit(binding.evidence.audiences, r.callee.ura)
    /\ ScopesAdmit(binding.evidence.scopes, r.ability)
    /\ now < binding.evidence.expiresAt
    /\ SignedByIssuer(binding, keys, SessionPayload(binding))

\* ProveAuthority of a receipt, with the keys the resolver knows, by the wall clock.
ProveAuthority(r, keys, now) ==
    LET binding == r.authority IN
    \/ /\ IsBootstrap(binding)
       /\ binding.principal = r.caller.ura
       /\ binding.ability = r.ability
       /\ binding.realm # Blank
    \/ binding.form = "self+identity" /\ binding.authority.ura = r.caller.ura
    \/ binding.form = "delegated_by+delegation" /\ ProvesDelegation(r, binding, keys, now)
    \/ binding.form = "session_of+session" /\ ProvesSession(r, binding, keys, now)

-------------------------------------------------------------------------------
(* JSON.  Identities in an AuthorityJSON are bare URAs.                        *)

NoAuthorityJSON ==
    [form |-> "", authority |-> Blank, issuer |-> Blank, session |-> Blank,
     audience |-> <<>>, audiences |-> <<>>, scopes |-> <<>>, issuedAt |-> 0,
     expiresAt |-> 0, signature |-> <<>>]

\* AuthorityFromBinding and the BootstrapJSON of AuthorityOrBootstrapJSONFromBinding.
AuthorityToJSON(binding) ==
    LET e == binding.evidence
        delegated == binding.form = "delegated_by+delegation" IN
    CASE IsBootstrap(binding) -> binding
      [] binding.form = "self+identity" ->
            [NoAuthorityJSON EXCEPT !.form = binding.form, !.authority = binding.authority.ura]
      [] OTHER ->
            [form |-> binding.form, authority |-> binding.authority.ura,
             issuer |-> e.issuer.ura, session |-> e.session,
             audience |-> IF delegated THEN e.audiences ELSE <<>>,
             audiences |-> IF delegated THEN <<>> ELSE e.audiences,
             scopes |-> e.scopes, issuedAt |-> e.issuedAt, expiresAt |-> e.expiresAt,
             signature |-> e.signature]

\* authorityJSONAllowedFields, of the fields that are not in every form.
AllowedFields(form) ==
    CASE form = "delegated_by+delegation" -> {"issuer", "audience", "scopes", "signature"}
      [] form = "session_of+session" ->
            {"issuer", "session", "audiences", "scopes", "signature"}
      [] OTHER -> {}

Fields == {"issuer", "session", "audience", "audiences", "scopes", "signature"}

\* UnmarshalJSON of an AuthorityOrBootstrapJSON: a known form and only its fields.
AuthorityDecodes(json) ==
    \/ IsBootstrap(json)
    \/ /\ json.form \in {"self+identity", "delegated_by+delegation", "session_of+session"}
       /\ {f \in Fields : json[f] # Blank} \subseteq AllowedFields(json.form)

\* The completeness checks of ToBinding.
JSONComplete(json) ==
    CASE IsBootstrap(json) ->
            json.principal # Blank /\ json.realm # Blank /\ json.ability # Blank
      [] json.form = "self+identity" -> json.authority # Blank
      [] OTHER ->
            /\ json.authority # Blank /\ json.issuer # Blank
            /\ json.scopes # <<>> /\ json.signature # <<>>
            /\ IF json.form = "session_of+session"
               THEN json.session # Blank /\ json.audiences # <<>>
               ELSE json.audience # <<>>

\* Fault: the issuer is taken for the authority.
AuthorityOfJSONIssuer(json) ==
    CASE IsBootstrap(json) -> json
      [] json.form = "self+identity" -> SelfAuthority(json.authority)
      [] OTHER ->
            AuthorityBinding(json.form, Identity(json.issuer, Strict),
                [issuer |-> Identity(json.issuer, Strict), session |-> json.session,
                 scopes |-> json.scopes, audiences |-> json.audience \o json.audiences,
                 issuedAt |-> json.issuedAt, expiresAt |-> json.expiresAt,
                 signature |-> json.signature])

\* ToBinding: every identity comes back with the strict profile.
AuthorityOfJSON(json) ==
    CASE IsBootstrap(json) -> json
      [] json.form = "self+identity" -> SelfAuthority(json.authority)
      [] OTHER ->
            AuthorityBinding(json.form, Identity(json.authority, Strict),
                [issuer |-> Identity(json.issuer, Strict), session |-> json.session,
                 scopes |-> json.scopes, audiences |-> json.audience \o json.audiences,
                 issuedAt |-> json.issuedAt, expiresAt |-> json.expiresAt,
                 signature |-> json.signature])

===============================================================================
