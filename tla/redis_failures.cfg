CONSTANTS
    Msgs = {m1, m2}
    Consumers = {c1, c2}
    Handlers = {h1, h2}
    Stamps = {s1, s2, s3}
    None = None
    Prefetch = 1
    MaxRetries = 2
    MaxNacks = 1
    MaxTimeouts = 0
    MaxFaults = 2
    MaxCrashes = 0
SPECIFICATION Spec
CONSTRAINT TwoEvents
SYMMETRY Symm
INVARIANTS ThreadInv NoSilentLoss CopiesBounded AckIsFinal
PROPERTIES ImplementsAtLeastOnce
