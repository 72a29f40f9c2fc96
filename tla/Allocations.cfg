\* Two orders and two requests side by side, with crashes; and every handler on one
\* order, one request at a time.
SPECIFICATION MCSpec
CONSTANTS
    Null = Null
    Role = d1
    OtherRole = d2
    Orders = {o1,o2}
    Sites = {s1}
    Roles = {d1, d2}
    Workers = {w1,w2}
    Outsiders = {p1}
    Requests = {r1,r2}
    Lines <- DistinctLines
    MaxCodes = 2
CHECK_DEADLOCK FALSE
SYMMETRY Symmetry
INVARIANTS
    AllocatedCanScan
    CodesUnique
    StatusFollowsAllocations
PROPERTIES
    AllocationsAreNotLost
