SPECIFICATION CoordinationSpec
CONSTANTS
    User = {u1}
    Team = {t1}
    NULL = NULL
    LeaseId = {1, 2}
    Target = {f1}
    Project = {p1}
    AgentArg <- MCAgent
    Trim <- MCTrim
    Blank = ""
    TtlArg <- MCTtlArg
    DefaultTtl = 2
    MaxTtl = 3
    MaxTime = 2
    ClockMayStepBack = FALSE
    SignalId = {1, 2, 3}
    AgentName <- MCAgent
    TrimName <- MCTrim
    SignalProject = {p1}
    Caller <- MCCaller
    ExpiryArg = {0, 1}
    Limit = 1
    MaxMoment = 1
    ClockMayGoBack = TRUE
INVARIANTS Exclusive PromisesExclusive RepliesLinked
PROPERTIES ImplementsLock AckedOnce Delivered
