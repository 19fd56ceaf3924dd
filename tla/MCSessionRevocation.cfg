CONSTANTS
    s1 = s1
    s2 = s2
    u = u
    Sessions = {s1, s2}
    Subjects = {u}
    SubjectOf <- OneSubject
    Rank <- Ranks
    PerSecond = 2
    TTL = 2
    Skew = 1
    Ahead = 1
    PageSize = 1
    MaxPages = 4
    MaxTime = 4
    MaxTokens = 2
    MaxEvents = 2
    MaxUpsets = 1
SPECIFICATION FairSpec
INVARIANTS
    DenyInv
    DeniedForCause
PROPERTIES
    ComesToDeny
