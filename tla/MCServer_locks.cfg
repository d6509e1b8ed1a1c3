SPECIFICATION FairSpec
CONSTANTS
    Handlers = {h1, h2}
    Kinds <- AnyKind
    Grants = {1}
    None = None
    Off = Off
    MaxRequests = 3
    MaxFaults = 1
    MaxAbandons = 1
    MaxMidnights = 0
    MaxRestarts = 0
INVARIANTS
    TypeOK
    LockDiscipline
    CacheCoherent
PROPERTY
    RequestsFinish
CHECK_DEADLOCK FALSE
