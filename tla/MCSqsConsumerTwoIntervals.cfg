SPECIFICATION Spec
CONSTANTS
    NoMessage = NoMessage
    Messages = {m1}
    Workers = {w1, w2}
    VisibilityBase = 5
    HeartbeatEvery = 2
    MaxVisibility = 9
    ProcessingDeadline = 8
    Backoff = 3
INVARIANT LiveIsAlone
