\* One worker at two sites over two days, the second a Sunday; and two workers of one
\* site-day.
SPECIFICATION SeveralSpec
CONSTANTS
    Null = Null
    Workers = {w1, w2}
    Sites = {s1, s2}
    TicksPerDay = 2
    StandardHours = 1
    FirstSunday = 1
    LastDate = 1
    LastTick = 3
    MaxPunches = 2
    TypedTimes = {1}
    TypedShifts = {"night"}
    TypedHours = {1}
    SitesOf <- MCSitesOf
    Shifts <- MCShifts
    LunchHours <- MCLunchHours
    MaxShiftHours <- MCMaxShiftHours
    GraceHours <- MCGraceHours
INVARIANTS
    MissedFlagIsReal
    ForgotFlagIsReal
SYMMETRY WorkerSymmetry
