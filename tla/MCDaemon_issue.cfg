SPECIFICATION FairSpec
CONSTANTS
    root = root
    mid = mid
    leaf = leaf
    flat = flat
    alice = alice
    bob = alice
    NoCID = NoCID
    DID = {alice}
    Agents = {alice}
    Content <- MCContent
    Boot = boot
    HardMaxDepth = 2
    MaxChainCapsCaveats = 3
    MaxPerCredential = 3
    CID = {root, mid, leaf, flat}
    Seeded = {}
    Issuers = {i1}
    Revokers = {}
    Verifiers = {v1}
    Reconcilers = {boot, tick}
    RevokeStatuses = {}
    Tiers = {"HIGH"}
    MaxChainDepth = 1
    MaxFaults = 1
    MaxSeq = 0
    MaxCrashes = 1
INVARIANTS
    TypeOK
    ChainsResolvable
    BootRepairs
    ReconcileIdempotent
    DepthBudget
    OverLimitNeverAuthorized
PROPERTIES
    EventuallyIndexed
