CONSTANTS
    Msgs = {m1, m2}
    Consumers = {c1}
    Handlers = {h1, h2}
    Stamps = {s1, s2}
    None = None
    Prefetch = 2
    MaxRetries = 1
    MaxNacks = 1
    MaxTimeouts = 1
    MaxFaults = 0
    MaxCrashes = 1
SPECIFICATION FairSpec
INVARIANTS DeadLetterIsFinal
PROPERTIES ImplementsAtLeastOnce EventuallySettled
