CONSTANTS
    Sessions = {s1}
    Exits <- Failures
    QueueCap = 4
    MaxChanges = 1
    MaxDisconnects = 0
    MaxExits = 1
SPECIFICATION FairSpec
PROPERTY StopCompletes
CHECK_DEADLOCK FALSE
