\* A kiosk through taps, captures and answers, the sweeps through restarts, and the
\* requests that meet on one record.
SPECIFICATION FairSpec
CONSTANTS
    NEED = 2
    ABSENT = 2
    HoursPerDay = 3
    SweepHour = 2
    MaxExits = 2
    MaxOutages = 2
    Requests = {r1,r2}
    MaxPunches = 3
    Scenarios = {"kiosk","sweeps","races"}
CHECK_DEADLOCK FALSE
PROPERTIES
    OnlyStaleFillsBreak
    EachScanSpendsOneTap
    KioskComesBack
    DueWorkIsSwept
