SPECIFICATION FairSpec
CONSTANTS
    e1 = e1
    e2 = e2
    h1 = h1
    h2 = h2
    s1 = s1
    s2 = s2
    k1 = k1
    k2 = k2
    None = None
    Transactions = {t1, t2}
    Ids = {e1, e2, h1, h2}
    Plain = {h1, h2}
    Series = {s1, s2}
    Keys = {k1, k2}
    Seed <- OneAndTwo
    MaxCalls = 2
    MaxUpsets = 1
INVARIANTS
    SeriesStands
    VersionCountsSaves
    RejectedWritesNothing
PROPERTIES
    RefusalIsNoRace
    RaceIsRetryable
    EveryTransactionEnds
CHECK_DEADLOCK FALSE
