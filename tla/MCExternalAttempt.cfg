SPECIFICATION FairSpec
CONSTANTS
    w1 = w1
    w2 = w2
    m1 = m1
    m2 = m2
    o1 = o1
    o2 = o2
    NoMessage = NoMessage
    NoObservation = NoObservation
    Workers = {w1, w2}
    Messages = {m1, m2}
    Observations = {o1, o2}
    FindingOf <- TwoFindings
    Replies <- ThreeReplies
    Profile <- ByObservation
    QueryAvailable = TRUE
    StaleAfter = 1
    Retention = 1
    Life = 1
    BeginRounds = 2
    MaxEntries = 2
    MaxDeliveries = 2
    LastDelivery = 2
    MaxClock = 3
    MaxUpsets = 1
INVARIANTS
    LedgerInv
    StepsAreSound
PROPERTIES
    RecordedStands
    BegunIsClosed
CHECK_DEADLOCK FALSE
