CONSTANTS
    Msgs = {m1}
    Consumers = {c1, c2}
    Handlers = {h1, h2}
    Stamps = {s1, s2}
    None = None
    Prefetch = 1
    MaxRetries = 3
    MaxNacks = 0
    MaxTimeouts = 0
    MaxFaults = 0
    MaxCrashes = 0
SPECIFICATION Spec
INVARIANT NoDuplication
