CONSTANTS
    Msgs = {m1, m2}
    Handlers = {f1}
    BufferSize = 1
    MaxWorkers = 1
    None = None
SPECIFICATION FairSpec
INVARIANTS TypeOK StopCompletes StatsBalance
PROPERTIES CallsReturn AcceptedIsServed
CHECK_DEADLOCK FALSE
