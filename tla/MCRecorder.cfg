SPECIFICATION RecorderSpec
CONSTANTS
    NULL = NULL
    EventId = {i1, i2}
    Envelope <- AnyEnvelope
    Tag = {"v1"}
    Gates = {"off", "block", "warn"}
    Captures = {TRUE, FALSE}
    ManagedRequired = TRUE
    WriteQueueLimit = 1
    Retention = 2
    RetryBatch = 1
    MaxRetryRows = 2
    MaxAudit = 3
SYMMETRY Symmetry
INVARIANTS RecorderConsistent
PROPERTIES QueuedUntilStored GateHolds
