SPECIFICATION FairSpec
CONSTANTS
    None = None
    Interval = 3
    Warn = 2
    Caution = 3
    Grace = 3
    Decrement = 3
    Poll = 1
    Timeout = 4
    FailFuse = 2
    Cap = 2
    MaxLeft = 2
    MaxFaults = 1
INVARIANTS
    TypeOK
    WarnedInTime
    RelockInTime
    FailsafeInTime
PROPERTY
    NoticeGoes
CHECK_DEADLOCK FALSE
