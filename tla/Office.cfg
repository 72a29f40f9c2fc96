\* Three scenarios of the office: deletions and undos, requests about employees, and
\* every other handler one request at a time.
SPECIFICATION MCSpec
CONSTANTS
    Null = Null
    TopUser = hr
    FirstBranch = b1
    DefaultName = n1
    Branches = {b1,b2}
    Sites = {s1,s2}
    Workers = {w1,w2}
    Stations = {t1}
    Users = {u1}
    Requests = {r1,r2}
    Names = {n1,n2}
    Asks = {a1,a2}
    MaxEntries = 4
    Scenarios = {"deletions","requests","office"}
CHECK_DEADLOCK FALSE
SYMMETRY Symmetry
INVARIANTS
    TypeOK
    DeletedIsOnRegister
    SiteNameFollowsPrimary
    OnRosterHasNotLeft
    OffloadTakesEffect
