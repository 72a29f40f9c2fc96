\* Closings of two sites that share two employees, restored, and the process dying.
SPECIFICATION MCSpec
CONSTANTS
    Null = Null
    TopUser = hr
    FirstBranch = b1
    DefaultName = n1
    Branches = {b1,b2}
    Sites = {s1,s2}
    Workers = {w1,w2}
    Stations = {t1}
    Users = {u1}
    Requests = {r1,r2}
    Names = {n1,n2}
    Asks = {a1}
    MaxEntries = 1
    Scenarios = {"closings"}
CHECK_DEADLOCK FALSE
SYMMETRY Symmetry
INVARIANTS
    ClosedSiteHasNoRoster
PROPERTIES
    ClosingsKeepPromise
