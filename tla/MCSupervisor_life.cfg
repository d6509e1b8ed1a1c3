CONSTANTS
    Sessions = {s1, s2}
    Exits <- AnyExit
    QueueCap = 2
    MaxChanges = 2
    MaxDisconnects = 2
    MaxExits = 2
SPECIFICATION FairSpec
INVARIANTS TypeOK OneAgentPerSession StopReachesAll
PROPERTIES StopEndsWithTasks FailedAgentReturns
CHECK_DEADLOCK FALSE
