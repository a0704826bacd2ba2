----------------------------- MODULE MCReceiptAudit -----------------------------
(***************************************************************************)
(* Instances of ReceiptAudit: one delegation and one session really        *)
(* signed, bindings that use them rightly and wrongly, bundles of two      *)
(* receipts with a field changed.                                          *)
(***************************************************************************)
EXTENDS ReceiptAudit

CONSTANT AuthorityProfiles   \* profiles of the authorities in bindings

MCId == <<"inv">>

Agent == <<"r1", "agent", "a">>

Other == <<"r1", "agent", "b">>

Owner == <<"r1", "resource", "o">>

Device == <<"r1", "device", "d">>

MCCaller == Identity(Agent, WebSafe)

MCCallee == Identity(<<"r1", "service", "s">>, Strict)

MCSubject == Identity(Owner, Strict)

MCAbility == <<"r1", "search", "v1">>

Exact(text) == [kind |-> "exact", text |-> text]

Everyone == [kind |-> "any", text |-> Blank]

\* Signed by the owner for the caller, and for somebody else; a session of the owner
\* the caller presents.
Delegation ==
    [form |-> "delegated_by+delegation", issuer |-> Owner, authority |-> Owner,
     delegatee |-> Agent, session |-> Blank, issuedAt |-> 0, expiresAt |-> 1,
     scopes |-> <<[kind |-> "prefix", text |-> <<"r1", "search">>]>>,
     audiences |-> <<[kind |-> "under", text |-> <<"r1", "service">>]>>]

Elsewhere ==
    [Delegation EXCEPT !.delegatee = Other, !.scopes = <<Exact(MCAbility)>>,
                       !.audiences = <<Everyone>>, !.expiresAt = 2]

Session ==
    [form |-> "session_of+session", issuer |-> Agent, authority |-> Owner,
     delegatee |-> Blank, session |-> <<"s1">>, issuedAt |-> 0, expiresAt |-> 2,
     scopes |-> <<Exact(<<"r1", "other", "v1">>), Exact(MCAbility)>>,
     audiences |-> <<Exact(MCCallee.ura)>>]

MCGrants == {Delegation, Elsewhere, Session}

\* The binding a grant gives, with the signature its issuer made.
Signed(g, profile) ==
    [GrantBinding(g, profile) EXCEPT !.evidence.signature = GrantSignature(g)]

\* A signature nobody made.
Noise == SignatureOf(<<"nobody">>, <<>>)

\* Bindings: of the grants, and of a grant with a field that its issuer did not sign.
MCBindings ==
    {Signed(g, p) : g \in MCGrants, p \in AuthorityProfiles}
        \cup {[Signed(Delegation, Strict) EXCEPT !.evidence.issuer.profile = WebSafe],
              [Signed(Delegation, Strict) EXCEPT !.evidence.expiresAt = 2],
              [Signed(Delegation, Strict) EXCEPT !.authority.ura = Other],
              [Signed(Delegation, Strict) EXCEPT !.evidence.signature = <<"short">>],
              [Signed(Delegation, Strict) EXCEPT !.evidence.signature = Noise],
              [Signed(Session, Strict) EXCEPT !.evidence.audiences = <<Everyone>>],
              [Signed(Session, Strict) EXCEPT !.evidence.issuer.ura = Owner],
              [Signed(Session, Strict) EXCEPT !.evidence.scopes = <<Exact(Blank)>>],
              [Signed(Session, Strict) EXCEPT !.form = "credential_of+attestation"],
              SelfAuthority(Agent), SelfAuthority(Other),
              AuthorityBinding("self+identity", Identity(Agent, WebSafe), NoEvidence),
              BootstrapAuthority(Agent, <<"r1">>, MCAbility),
              BootstrapAuthority(Agent, <<"r1">>, <<"r1", "other", "v1">>)}

Ref(name) == [hash |-> Sha256(<<name>>), ura |-> <<"r1", "receipt", name>>]

None == [form |-> "none", refs |-> <<>>]

Merkle == [form |-> "merkle", refs |-> <<Ref("root")>>]

\* A scalar with a nil reference, which no constructor makes.
NilScalar == [form |-> "scalar", refs |-> <<>>]

MCCausals == {Merkle, NilScalar, [form |-> "list", refs |-> <<Ref("x"), Ref("y")>>]}

MCHosts == {{}, {Identity(Device, Strict)}}

MCPayloads == {<<"out">>}

MCProofPayloads == {Blank, <<"policy proof">>}

MCKeys == {Agent, Other, Owner, Device, MCCallee.ura}

\* One field changed, or fields changed so that they agree with each other.
MCChanges(j) ==
    {[j EXCEPT !.index = 1], [j EXCEPT !.id = <<"other">>], [j EXCEPT !.content = "done"],
     [j EXCEPT !.prev = ZeroHash], [j EXCEPT !.self = {}], [j EXCEPT !.self = {ZeroHash}],
     [j EXCEPT !.digest = Sha256(<<"other">>)], [j EXCEPT !.payload = {}],
     [j EXCEPT !.payload = {<<"other">>}], [j EXCEPT !.notes = "changed"],
     [j EXCEPT !.caller.ura = Other], [j EXCEPT !.caller.profile = Strict],
     [j EXCEPT !.subject.profile = "unknown"], [j EXCEPT !.callee.ura = Agent],
     [j EXCEPT !.ability = <<"r1", "search", "v2">>], [j EXCEPT !.causal = None],
     [j EXCEPT !.facts.parents = <<>>], [j EXCEPT !.facts.impl = ZeroHash],
     [j EXCEPT !.facts.env = <<"other">>], [j EXCEPT !.facts.output = Sha256(<<"other">>)],
     [j EXCEPT !.facts.proof.hash = Sha256(<<"other">>)], [j EXCEPT !.facts.proof.issuer = {}],
     [j EXCEPT !.facts.proof.payload = <<"other">>],
     [j EXCEPT !.authority = AuthorityToJSON(SelfAuthority(Agent))],
     [j EXCEPT !.authority = AuthorityToJSON(SelfAuthority(Agent)), !.self = {},
               !.facts.proof = [PolicyProof(SelfAuthority(Agent), Blank) EXCEPT
                                   !.binding = {AuthorityToJSON(SelfAuthority(Agent))}]],
     [j EXCEPT !.payload = {<<"other">>}, !.digest = Sha256(<<"other">>),
               !.facts.output = Sha256(<<"other">>), !.self = {}],
     [j EXCEPT !.index = 0, !.prev = ZeroHash, !.self = {}],
     [j EXCEPT !.signer = {}, !.attestation = <<>>, !.self = {}],
     [j EXCEPT !.causal = None, !.facts.parents = <<>>, !.self = {}],
     [j EXCEPT !.ability = <<"r1", "search", "v2">>, !.facts.version = <<"v2">>],
     [j EXCEPT !.signature = <<>>], [j EXCEPT !.signature = Noise], [j EXCEPT !.signer = {}],
     [j EXCEPT !.attestation = <<>>], [j EXCEPT !.alg = "none"]}
        \cup {[j EXCEPT !.authority.form = f] :
                f \in IF IsBootstrap(j.authority) THEN {} ELSE {"session_of+session"}}

===============================================================================
