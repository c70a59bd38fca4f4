SPECIFICATION Spec
CONSTANTS
    root = root
    mid = mid
    leaf = leaf
    flat = flat
    alice = alice
    bob = bob
    NoCID = NoCID
    DID = {alice, bob}
    Agents = {alice, bob}
    Content <- MCContent
    Boot = boot
    HardMaxDepth = 2
    MaxChainCapsCaveats = 3
    MaxPerCredential = 3
    CID = {root, mid, leaf}
    Seeded = {root, mid}
    Issuers = {i1}
    Revokers = {r1, r2}
    Verifiers = {}
    Reconcilers = {boot}
    RevokeStatuses = {"COMPROMISED", "REINSTATED"}
    Tiers = {"HIGH"}
    MaxChainDepth = 2
    MaxFaults = 0
    MaxSeq = 1
    MaxCrashes = 0
INVARIANTS
    AckedInForce
    CascadeComplete
PROPERTIES
    ImplementsLedger
