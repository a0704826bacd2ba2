\* Two receipts, self-signed or hosted, one damage to the bundle.
SPECIFICATION Spec
CONSTANTS
    Id <- MCId
    Caller <- MCCaller
    Callee <- MCCallee
    Subject <- MCSubject
    Ability <- MCAbility
    Bindings <- MCBindings
    ProofPayloads <- MCProofPayloads
    Causals <- MCCausals
    Hosts <- MCHosts
    Contents = {"run"}
    Payloads <- MCPayloads
    Keys <- MCKeys
    Grants <- MCGrants
    Changes <- MCChanges
    AuthorityProfiles = {"axon-strict-v2", "web-safe-v2"}
    MaxReceipts = 2
    MaxDamage = 1
    MaxTime = 2
INVARIANTS AcceptedIsIssued IssuedSurvivesExport ProofsRestOnGrants
CHECK_DEADLOCK FALSE
