SPECIFICATION Spec
CONSTANTS
    NoURI = NoURI
    Abilities = {"resource/read", "resource/write", "agent/delegate"}
    MeteringEnabled = FALSE
    TrustedRootDIDs = {"platform"}
    TrustPolicies <- MCTrustPolicies
    MaxChainDepth = 2
    HardMaxDepth = 3
    MaxChainCapsCaveats = 9
    MaxCapabilities = 4
    MaxCaveatsPerBlock = 2
    ClockSkew = 1
    Roots <- MCRoots
    Foreign <- MCForeign
    DID = {"platform", "partner", "stranger", "alice", "bob"}
    CaveatLists <- MCCaveatLists
    Invocations <- MCInvocations
    MaxHops = 2
INVARIANTS
    TypeOK
    ChainOfCustody
    HopsWithinDepth
    MintedVerifies
    WithinRootGrant
PROPERTIES
    DelegationNarrows
CHECK_DEADLOCK FALSE
