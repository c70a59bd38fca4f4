SPECIFICATION FairSpec
CONSTANTS
    Callers = {c1, c2}
    Nobody = Nobody
    Tokens = {named, bare}
    named = named
    bare = bare
    old = old
    new = new
    k1 = k1
    k2 = k2
    NoKid = NoKid
    KidOf <- MCKidOf
    SignerOf <- MCSignerOf
    ExpOf <- MCExpOf
    Newest = 2
    KeySet <- MCKeySet
    Ttl = 2
    FetchTimeout = 1
    Leeway = 1
    MaxPause = 1
    MaxClock = 5
INVARIANTS
    NoStepBack
    WithdrawnKeysExpire
    SingleFetch
    OneTimeoutEach
PROPERTIES
    EveryCallAnswered
CHECK_DEADLOCK FALSE
