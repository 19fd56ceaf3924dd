SPECIFICATION FairSpec
CONSTANTS
    NoMessage = NoMessage
    Messages = {m1}
    Workers = {w1, w2}
    VisibilityBase = 4
    HeartbeatEvery = 2
    MaxVisibility = 9
    ProcessingDeadline = 8
    Backoff = 3
INVARIANTS
    ReceiptInv
    ReleaseStands
PROPERTIES
    GestureIsMade
    NotStranded
