SPECIFICATION CommandFairSpec
CONSTANTS
    c1 = c1
    c2 = c2
    c3 = c3
    k1 = k1
    NoCall = NoCall
    Calls = {c1, c2, c3}
    Keys = {k1}
    Key <- OneKey
    Payload <- OneKeyPayload
    KeyRetention = 4
    Deadline = 1
    MaxSkew = 1
    LastTick = 4
    MaxMishaps = 1
INVARIANTS
    RepeatsAreApart
    CommandInv
PROPERTIES
    ExpiredEntriesLeave
CHECK_DEADLOCK FALSE
