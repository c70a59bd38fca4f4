SPECIFICATION Spec
CONSTANTS
    root = root
    mid = mid
    leaf = leaf
    flat = flat
    alice = alice
    bob = bob
    NoCID = NoCID
    DID = {alice, bob}
    Agents = {alice, bob}
    Content <- MCContent
    Boot = boot
    HardMaxDepth = 2
    MaxChainCapsCaveats = 3
    MaxPerCredential = 3
    CID = {root, mid}
    Seeded = {root}
    Issuers = {i1}
    Revokers = {}
    Verifiers = {v1}
    Reconcilers = {boot, tick}
    RevokeStatuses = {}
    Tiers = {"HIGH"}
    MaxChainDepth = 1
    MaxFaults = 0
    MaxSeq = 2
    MaxCrashes = 0
INVARIANTS
    AuthorizedIsEnumerable
