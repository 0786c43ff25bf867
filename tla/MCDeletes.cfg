SPECIFICATION McpSpec
CONSTANTS
    Server = {p1}
    Idle = Idle
    CacheTime = 1
    Attempts = 1
    LastTick = 2
    MaxCalls = 1
    MaxFailures = 0
    Remote = {}
    Events = {e1}
INVARIANT DeletesTakeEffect
CHECK_DEADLOCK FALSE
