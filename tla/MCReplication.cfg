SPECIFICATION LiveSpec
CONSTANTS
    MaxEvents = 4
    BackendMode = "hybrid"
    MaxQueue = 1
    BatchSize = 2
    MaxFailures = 3
    MaxReads = 1
    MaxExits = 1
    MinReads = 1
    MatchPercent = 95
    FailurePercent = 50
INVARIANTS NothingForgotten QueueSound WritesAccounted
PROPERTIES QueueDrains
