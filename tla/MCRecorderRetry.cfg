SPECIFICATION RetrySpec
CONSTANTS
    NULL = NULL
    Envelope <- Pair
    EventId = {i1, i2}
    Tag = {}
    Gates = {"off"}
    Captures = {TRUE}
    ManagedRequired = FALSE
    WriteQueueLimit = 0
    Retention = 1
    RetryBatch = 1
    MaxRetryRows = 2
    MaxAudit = 0
PROPERTIES RetriesComplete
