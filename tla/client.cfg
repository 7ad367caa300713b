CONSTANTS
    t1 = t1
    Topics = {t1}
    Subs = {s1, s2}
    Unsubs = {u1}
    Msgs = {m1, m2}
    TopicOf <- OneTopic
    Prefetch = 2
    None = None
    MaxFailures = 1
SPECIFICATION FairSpec
INVARIANTS PollersInReach ShutdownLeavesKnown AckedHandled
PROPERTIES CallsReturn
CHECK_DEADLOCK FALSE
