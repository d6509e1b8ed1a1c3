SPECIFICATION Spec
CONSTANTS
    Children = {c1}
    Devices = {d1, d2}
    dishes = dishes
    reading = reading
    Tasks = {dishes, reading}
    Configs <- MCConfigs
    Amounts <- MCAmounts
    WindowPast = 1
    WindowFuture = 0
    DayLength = 2
    ChartDays = 1
    MaxMinute = 2
    MaxRows = 3
    MaxSubmissions = 2
INVARIANTS
    TypeOK
    MinutesConserved
    DebtAudited
    SubmissionsSettledOnce
    SubmissionsApprovable
    ChartAddsUp
PROPERTIES
    DebtRepaidFirst
    OnlyParentsUnblock
SYMMETRY DeviceSymmetry
CHECK_DEADLOCK FALSE
