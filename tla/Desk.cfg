\* The accounts, the designations, the Log Attendance page and the scripts.
SPECIFICATION MCSpec
CONSTANTS
    Accounts = {admin,u1,u2}
    Admin = admin
    Browsers = {b1,b2}
    Places = {p1}
    Focus = {"approve_overtime"}
    Titles = {t1,t2}
    Staff = {w1,w2}
    Words = {"mason","driver"}
    Grounds = {"s1","s2"}
    Fenced = {"s1","s2"}
    Positions = {"s1","s2","hidden"}
    Punches = {"in"}
    Checks = {c1,c2}
    Scans = {1}
    SeedCodes = {"VBW"}
    ImportCodes = {"TNG","POOL"}
    DemoCode = "VBW"
    Pool = "POOL"
    Trades = {"Helper"}
    Listed = {"e1"}
    DemoPeople = {"d1"}
    MaxRuns = 2
    MaxSpan = 2
    PageRows = 1
    PageFlags = 1
    AttendanceTarget = 85
    TicksPerDay = 24
    StandardHours = 8
    FirstSunday = 6
    Sites = {"site"}
    Null = Null
    OtMultiplier = 1
    FoodMinHours = 5
    FaceMatchThreshold = 4
    FaceStrongMatch = 1
    FaceMatchMargin = 2
    NoFix = NoFix
    Grid = 3
    LastDay = 8
    Gallery = 3
    Scenarios = {"accounts","designations","logging","scripts","figures"}
CHECK_DEADLOCK FALSE
SYMMETRY Symmetry
INVARIANTS
    SomeActiveManagement
    NamesAgree
    RosterTitleExists
    RecordedInsideFence
    WorkersAreHoused
    ReportsPartition
    PagesAccountForAll
    FiguresAgree
    WeeklyRunsAddUp
    InsideTriangle
    MatchIsClear
PROPERTIES
    EditsStayWithinAuthority
    SetShiftsAreKept
