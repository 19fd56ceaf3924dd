CONSTANTS
    Members = {m1, m2}
    Records = 2
    QueuePerPartition = 2
    MaxAttempts = 2
    MaxPoll = 2
    MaxUpsets = 2
SPECIFICATION FairSpec
INVARIANTS
    PartitionInv
PROPERTIES
    NoRewind
    OneHandler
    Drains
CHECK_DEADLOCK FALSE
