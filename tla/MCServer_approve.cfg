SPECIFICATION Spec
CONSTANTS
    Handlers = {h1, h2}
    Kinds <- KindsCached
    Grants <- MCGrants
    None = None
    Off = Off
    MaxRequests = 4
    MaxFaults = 0
    MaxAbandons = 0
    MaxMidnights = 0
    MaxRestarts = 0
INVARIANT
    CacheSettles
CHECK_DEADLOCK FALSE
