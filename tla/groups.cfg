CONSTANTS
    Msgs = {m1}
    Ids = {i1, i2}
    Conns = {n1, n2}
    Deliverers = {d1, d2}
    ChanSize = 1
    BatchSize = 2
    None = None
    MaxReturns = 1
    MaxFaults = 1
SPECIFICATION FairSpec
INVARIANTS TypeOK RegisteredOpen NoSilentLoss DeliveredOnce
PROPERTIES DeliveryGoesOn CloseEnds
CHECK_DEADLOCK FALSE
