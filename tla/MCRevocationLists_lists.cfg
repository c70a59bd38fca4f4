SPECIFICATION Spec
CONSTANTS
    cred = cred
    agent = agent
    None = None
    Cids = {cred}
    Dids = {agent}
    Pairs <- MCPairs
    Posters = {p1, p2}
    Listers = {l1, l2}
    Consumers = {c1}
    Statuses = {"REVOKED", "REINSTATED"}
    MaxSeq = 2
    MaxLists = 2
    MaxRestarts = 1
CHECK_DEADLOCK FALSE
SYMMETRY MCSymmetry
INVARIANTS
    CacheTruthful
    ToldIsKnown
PROPERTIES
    NeverOlder
