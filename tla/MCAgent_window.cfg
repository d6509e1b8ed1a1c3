SPECIFICATION Spec
CONSTANTS
    None = None
    Error = Error
    FailFuse = 2
    WindowPast = 1
    Start = 3
    Rewards = {2}
    MaxMinute = 3
    MaxRewards = 0
    MaxCrashes = 0
    MaxFaults = 0
PROPERTY
    ReachableServerNeverTrips
CHECK_DEADLOCK FALSE
