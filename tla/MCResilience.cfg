SPECIFICATION SideSpec
CONSTANTS
    Calls = {c1, c2, c3, c4, c5}
    Pool = 3
    Queue = 1
    Acquisition = 1
    Window = 2
    MinSamples = 2
    Threshold = 50
    Cooldown = 1
    Probes = 2
    MaxSamples = 2
    Dependencies = {d1, d2}
    Deadline = 6
    Totals = {0, 3}
    MaxAttempts = 3
    OpDeadline = 3
    EstimatedDuration = 1
    Base = 1
    Cap = 2
INVARIANTS
    GuardAccounted
    BudgetInv
    DenialIsReported
PROPERTIES
    OnlyProbesDecide
    KeepsAdmitting
