SPECIFICATION Spec
CONSTANTS
    Session = {"s1", "s2"}
    MaxEntries = 6
    MaxClock = 2
    EventKind <- MCEventKind
    MaxArchived = 1
    SummaryRows = 3
    MinSteps = 2
    TickLimit = 1
    FailureThreshold = 3
    Cooldown = 2
    Text = {t1, t2}
    Capacity = 2
    Backoff <- MCBackoff
    LocalModels = FALSE
    Texts = 3
    Checkpoint = {2}
    Old = {1}
    CacheSize = 2
    BatchSize = 2
    MaxFaults = 1
INVARIANTS
    HandoffSound EmbeddingSound
PROPERTIES
    NoPartialAfterEnd SummarisedEventually
    NoHammering
    LocalCoverageReached
CHECK_DEADLOCK FALSE
