CONSTANTS
    Msgs = {m1, m2, m3}
    Bad = {m3}
    Workers = {w1, w2}
    QueueSize = 1
    Prefetch = 2
    None = None
    MaxRedeliveries = 1
    MaxFailures = 1
SPECIFICATION Spec
SYMMETRY Symm
INVARIANT UnprocessedIsRedelivered
CHECK_DEADLOCK FALSE
