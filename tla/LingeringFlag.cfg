\* A sweep reads, an OUT is recorded and resolves nothing, the sweep raises its flag.
SPECIFICATION UninterruptedSpec
CONSTANTS
    NEED = 2
    ABSENT = 2
    HoursPerDay = 3
    SweepHour = 2
    MaxExits = 2
    MaxOutages = 2
    Requests = {r1,r2}
    MaxPunches = 3
    Scenarios = {"races"}
CHECK_DEADLOCK FALSE
INVARIANT
    FlagsReflectReality
