SPECIFICATION FairSpec
CONSTANTS
    None = None
    Error = Error
    FailFuse = 2
    WindowPast = 1
    Start = 1
    Rewards = {2}
    MaxMinute = 2
    MaxRewards = 1
    MaxCrashes = 1
    MaxFaults = 1
INVARIANTS
    TypeOK
    NoMinuteForgotten
PROPERTIES
    OutOfTimeLocks
    MeteringSpec
CHECK_DEADLOCK FALSE
