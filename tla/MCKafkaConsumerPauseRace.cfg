\* A queue of two: the pause of the poll loop against the resume of the worker.
CONSTANTS
    Members = {m1}
    Records = 4
    QueuePerPartition = 2
    MaxAttempts = 2
    MaxPoll = 2
    MaxUpsets = 0
SPECIFICATION FairSpec
PROPERTY PauseEnds
CHECK_DEADLOCK FALSE
