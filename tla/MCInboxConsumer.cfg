CONSTANTS
    Workers = {w1, w2}
    Keys = {"k1", "k2"}
    Hashes = {"h1", "h2"}
    a = a
    b = b
    c = c
    d = d
    e = e
    Envelopes = {a,b,c,d,e}
    KeyOf <- TwoKeys
    HashOf <- TwoHashes
    KindOf <- MixedKinds
    CopiesEach = 1
    MaxAttempts = 2
    MaxUpsets = 1
SPECIFICATION FairSpec
INVARIANTS
    EffectsMatchRows
    NoLostUpdate
    NothingLost
PROPERTIES
    EveryItemEnds
CHECK_DEADLOCK FALSE
