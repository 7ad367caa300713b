CONSTANTS
    Msgs = {m1, m2}
    Bad = {m2}
    Workers = {w1, w2}
    QueueSize = 1
    Prefetch = 2
    None = None
    MaxRedeliveries = 1
    MaxFailures = 1
SPECIFICATION FairSpec
INVARIANTS TypeOK NoSendOnClosed StatsBalance AckedAccounted
PROPERTIES UnsubscribeReturns EnqueuedIsProcessed
CHECK_DEADLOCK FALSE
