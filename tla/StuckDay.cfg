\* One record of a submitted day is rejected.
SPECIFICATION CrewSpec
CONSTANTS
    Null = Null
    Workers = {w1, w2}
    Sites = {s1}
    TicksPerDay = 2
    StandardHours = 1
    FirstSunday = 6
    LastDate = 0
    LastTick = 2
    MaxPunches = 2
    TypedTimes = {1}
    TypedShifts = {"night"}
    TypedHours = {1}
    SitesOf <- MCSitesOf
    Shifts <- MCShifts
    LunchHours <- MCLunchHours
    MaxShiftHours <- MCMaxShiftHours
    GraceHours <- MCGraceHours
PROPERTY
    RestOfDayProceeds
