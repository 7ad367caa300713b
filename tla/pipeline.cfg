CONSTANTS
    Resolution = 2
    NoBound = NoBound
    Texts <- AnyText
    Files <- AllFiles
    Foreign <- NoMetric
    Workers = {w1, w2}
    Handlers = {h1}
    Requests <- SomeRequests
    WellFormed = {"g1", "g2"}
    Unparsable = Unparsable
    MaxLimit = 2
    None = None
    MaxTime = 2
    MaxFailures = 1
SPECIFICATION Spec
INVARIANTS FaithfulToFile TelemetryHasGPU ListedHasTelemetry OneDocPerGPU StoredPerDelivery
PROPERTIES AnswersExact
SYMMETRY Symm
CHECK_DEADLOCK FALSE
