SPECIFICATION Spec
CONSTANTS
    Handlers = {h1, h2}
    Kinds <- AnyKind
    Grants <- MCGrants
    None = None
    Off = Off
    MaxRequests = 4
    MaxFaults = 1
    MaxAbandons = 0
    MaxMidnights = 1
    MaxRestarts = 1
INVARIANTS
    QuiescentChildView
    QuiescentParentView
    BlockedShowsZero
CHECK_DEADLOCK FALSE
