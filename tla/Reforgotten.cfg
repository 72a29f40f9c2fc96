\* A record whose flag was resolved is left open again.
SPECIFICATION FairScanSpec
CONSTANTS
    Null = Null
    Workers = {w1}
    Sites = {s1}
    TicksPerDay = 5
    StandardHours = 1
    FirstSunday = 6
    LastDate = 0
    LastTick = 4
    MaxPunches = 2
    TypedTimes = {2}
    TypedShifts = {"night"}
    TypedHours = {1}
    SitesOf <- MCSitesOf
    Shifts <- MCShifts
    LunchHours <- MCLunchHours
    MaxShiftHours <- MCMaxShiftHours
    GraceHours <- MCGraceHours
PROPERTIES
    SweepFlagsEveryOverdue
