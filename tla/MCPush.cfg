SPECIFICATION Spec
CONSTANTS
    Children = {c1, c2}
    Endpoints = {e1, e2, e3}
    Requests = {r1, r2}
    Values <- MCValues
    Limit = 1
    None = None
    MaxWork = 4
    MaxFaults = 1
SYMMETRY PushSymmetry
INVARIANTS
    TypeOK
    SubscriptionsBounded
    AlertsAsPromised
    OwnAlertsOnly
PROPERTIES
    LiveKept
CHECK_DEADLOCK FALSE
