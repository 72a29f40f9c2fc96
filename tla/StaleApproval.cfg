\* Overtime approved, corrected down, approved again with the day.
SPECIFICATION Spec
CONSTANTS
    Null = Null
    Workers = {w1}
    Sites = {s1}
    TicksPerDay = 3
    StandardHours = 1
    FirstSunday = 6
    LastDate = 0
    LastTick = 4
    MaxPunches = 2
    TypedTimes = {1, 2}
    TypedShifts = {"night"}
    TypedHours = {1}
    SitesOf <- MCSitesOf
    Shifts <- MCShifts
    LunchHours <- MCLunchHours
    MaxShiftHours <- MCMaxShiftHours
    GraceHours <- MCGraceHours
INVARIANTS
    PaidOvertimeWasWorked
