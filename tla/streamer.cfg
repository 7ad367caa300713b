CONSTANTS
    Streamers = {s1, s2}
    Records = 2
    LoopMode = TRUE
    None = None
    MaxFaults = 1
    MaxCrashes = 1
SPECIFICATION FairSpec
INVARIANTS OneStreamer StoppedReleased
PROPERTIES ReleaseOwnOnly CancelStops
CHECK_DEADLOCK FALSE
