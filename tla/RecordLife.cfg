\* One record through every handler: one worker, one site, one day of records;
\* with the timer running, what is forgotten is eventually noticed.
SPECIFICATION FairSpec
CONSTANTS
    Null = Null
    Workers = {w1}
    Sites = {s1}
    TicksPerDay = 3
    StandardHours = 1
    FirstSunday = 6
    LastDate = 0
    LastTick = 4
    MaxPunches = 2
    TypedTimes = {2}
    TypedShifts = {"night"}
    TypedHours = {1}
    SitesOf <- MCSitesOf
    Shifts <- MCShifts
    LunchHours <- MCLunchHours
    MaxShiftHours <- MCMaxShiftHours
    GraceHours <- MCGraceHours
INVARIANTS
    TypeOK
    HoursMatchTimes
    OvertimeQueuedIffEarned
    StampsFollowStatus
    OpenDayHasOpenPunch
    PaidAsShown
PROPERTIES
    TypedOutFollowsIn
    ImplementsGate
    ForgottenOutIsNoticed
    ForgottenSubmitIsNoticed
