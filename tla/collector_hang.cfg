CONSTANTS
    Msgs = {m1, m2}
    Bad = {m2}
    Workers = {w1, w2}
    QueueSize = 1
    Prefetch = 2
    None = None
    MaxRedeliveries = 0
    MaxFailures = 1
SPECIFICATION FairSpec
PROPERTY ShutdownCompletes
CHECK_DEADLOCK FALSE
