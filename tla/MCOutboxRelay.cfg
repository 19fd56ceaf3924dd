SPECIFICATION FairSpec
CONSTANTS
    Relays = {r1, r2}
    Messages = {m1, m2}
    Incomplete = {}
    Unassemblable = {m2}
    BatchSize = 2
    Concurrency = 1
    MaxAttempts = 2
    MaxUpsets = 2
INVARIANTS
    RelayInv
    CopiesWithinAttempts
PROPERTIES
    SupersededClaimIsInert
    RefinesAtLeastOnce
    EveryRowSettles
    ShutdownEnds
CHECK_DEADLOCK FALSE
