SPECIFICATION MCConsSpec
CONSTANTS
    Src = {1, 2, 3}
    SessionOf <- MCSessionOf
    FactKey = {"k"}
    WeakKey = {"k"}
    Worker = {"timer", "admin"}
    JobLimit <- MCJobLimit
    MaxJobs = 2
    MaxCrashes = 1
    MaxAdmin = 1
    NoFact = NoFact
    Gone = Gone
INVARIANT HistoryComplete
CHECK_DEADLOCK FALSE
