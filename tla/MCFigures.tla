----------------------------- MODULE MCFigures ------------------------------
(* What is computed and never stored: the reports, the pages, the payroll runs, the fences and
   the choice of a face, on inputs enumerated within small bounds. *)
EXTENDS Pages, PayRun, Sensing

CONSTANTS
    Grid,        \* bound: the size of the grid of positions
    LastDay,     \* bound: the last day of the payroll's records
    Gallery      \* bound: how many faces are compared

ASSUME FiguresAssumption ==
    /\ Grid \in Nat /\ MaxSpan \in Nat /\ Gallery \in Nat
    /\ PageRows \in Nat /\ PageFlags \in Nat
    /\ LastDay \in Nat /\ LastDay >= 7     \* arrears are saved for the first two weeks
    /\ NoFix \notin Int \X Int

VARIABLE input   \* what a computation is asked about, chosen once

-----------------------------------------------------------------------------
(* Reports *)

ReportUsers(db) == {[all |-> TRUE, sites |-> {}]}
                   \union {[all |-> FALSE, sites |-> x] : x \in SUBSET DOMAIN db.site}

\* Those of the sites, and those a site had when it wrote its records.
BranchesOf(db)  == {db.site[s].branch : s \in DOMAIN db.site}
                   \union {db.day[k].branch : k \in Records(db)}

Filters(db) == [site   : DOMAIN db.site \union {Nowhere},
                branch : BranchesOf(db) \union {Nowhere},
                from   : 0 .. MaxSpan, to : 0 .. MaxSpan + 1]

Rows(db, user, f) ==
    {<<k[1], k[2], db.day[k].site>> : k \in PresentRows(db, user, f)} \union AbsentRows(db, user, f)

\* No report has two rows of one employee for one day, present or absent, or calls
\* somebody absent who was present anywhere.
OneRowPerDay(db, user, f) ==
    \A a, b \in AbsentRows(db, user, f) :
        /\ a[1] = b[1] /\ a[2] = b[2] => a[3] = b[3]
        /\ db.day[<<a[1], a[2]>>].site = Nowhere

\* The reports of the branches share no row and together are the report of them all.
BranchesPartition(db, user, f) ==
    LET branch(b) == Rows(db, user, [f EXCEPT !.branch = b])
    IN  /\ Rows(db, user, f) = UNION {branch(b) : b \in BranchesOf(db)}
        /\ \A b, c \in BranchesOf(db) : b # c => branch(b) \cap branch(c) = {}

\* Everybody on the roster has a row for each day of a bounded range since he joined.
NobodyIsMissing(db, user, f) ==
    user.all /\ f.site = Nowhere /\ f.from # 0 /\ f.to - f.from \in 0 .. MaxSpan - 1 =>
        \A e \in DOMAIN db.employee : \A d \in f.from .. f.to :
            /\ db.employee[e].status = "active"
            /\ db.employee[e].joined <= d /\ d <= db.today
            => \E row \in Rows(db, user, f) : row[1] = e /\ row[2] = d

\* An employee and a day are in one row of any report, whoever asks and however it is
\* filtered, in one branch's report at most, and in none only for want of scope, range
\* or roster (absence.ts:56, :108).
ReportsPartition ==
    input.about = "absence" =>
        \A user \in ReportUsers(input), f \in Filters(input) :
            /\ OneRowPerDay(input, user, f)
            /\ f.branch = Nowhere => BranchesPartition(input, user, f) /\ NobodyIsMissing(input, user, f)

Figure == {"present", "active", "otPending", "flags"}

NoFilter == [site |-> Nowhere, branch |-> Nowhere, from |-> 0, to |-> 0, status |-> Nowhere]

AllActive(db) == \A s \in DOMAIN db.site : db.site[s].status = "active"

\* A site's page and its line of the rollup, as far as the page reads.
PagesAgree(db, user) ==
    LET rollup == HierarchyRollup(db, user)
    IN  \A s \in DOMAIN rollup :
            /\ Cardinality(RecordsAt(db, s)) <= PageRows
            /\ Cardinality(FlagsAt(db, s)) <= PageFlags
            => SitePage(db, s) = rollup[s]

\* The headline and the sum of the lines, when no site is closed.
HeadlineAgrees(db, user) ==
    LET rollup == HierarchyRollup(db, user)
    IN  AllActive(db) =>
            \A x \in Figure :
                Headline(db, user)[x] = SumFunction([s \in DOMAIN rollup |-> rollup[s][x]])

\* A line of the overtime report has the waiting hours of the rollup's lines of all sites
\* of its name, unless one of them is closed; its approved column adds up to its log.
OvertimeAgrees(db, user) ==
    LET report == OvertimeReport(db, user, NoFilter)
        rollup == HierarchyRollup(db, user)
        named(n) == {s \in DOMAIN db.site : db.site[s].name = n}
        lines(n) == [s \in named(n) \cap DOMAIN rollup |-> rollup[s].otPending]
    IN  /\ \A n \in {db.site[s].name : s \in DOMAIN db.site} :
              (\A s \in named(n) : db.site[s].status = "active") =>
                  SumFunction(lines(n)) = IF n \in DOMAIN report THEN report[n].pending ELSE 0
        /\ OvertimeTotals(db, user, NoFilter).pending = Headline(db, user).otPending
        /\ OvertimeTotals(db, user, NoFilter).approved = Counted(db, ApprovedLog(db, user, NoFilter))

\* The employee report and the hub count the same people, the dashboard those of them
\* whose primary site is in scope.
EmployeesAgree(db, user) ==
    LET summary == EmployeeSummary(db, user, NoFilter)
        hub     == Hub(db, user)
    IN  /\ summary.active = hub.active /\ summary.total = hub.roster
        /\ summary.faceRegistered = hub.faces
        /\ Headline(db, user).active <= hub.active
        /\ user.all => Headline(db, user).active = hub.active
        /\ Headline(db, user).present = hub.loggedToday
        /\ Headline(db, user).otPending = hub.otHours

\* Screens that show one figure show the same: a site's page and its line of the rollup,
\* as far as the page reads; the headline and the sum of the lines, when no site is
\* closed; the overtime and the employee reports and the hub
\* (hierarchy.ts:33, dashboard.ts:47, reports.ts:32).
FiguresAgree ==
    input.about = "dashboard" =>
        \A user \in ReportUsers(input) :
            /\ PagesAgree(input, user)
            /\ HeadlineAgrees(input, user)
            /\ OvertimeAgrees(input, user)
            /\ EmployeesAgree(input, user)

\* The counters of the dashboard are the lengths of the queues they link to.
CountersAreQueues(db, user) ==
    LET needs == NeedsYou(db, user)
        days(tab) == SumFunction(RegularizationDays(db, user, tab))
    IN  /\ needs.ot = Cardinality(OvertimeQueue(db, user, "pending"))
        /\ needs.days = days("submitted") + days("recommended")
        /\ needs.requests = Cardinality(RequestList(db, user, "pending"))
                            + Cardinality(RequestList(db, user, "recommended"))
        /\ Verdict(db, user) = "success" =>
              /\ \A tab \in {"submitted", "recommended"} : OnTab(db, user, tab) = {}
              /\ Exceptions(HierarchyRollup(db, user)) \subseteq Below(HierarchyRollup(db, user))

\* Every record in scope is on one tab of the chain, or waits for its day's submission
\* on the page of an open site; the page of a submitted day has its records on the tabs.
NothingIsBuried(db, user) ==
    LET chain(sd) == SumFunction([tab \in ChainTabs |->
                                     LET days == RegularizationDays(db, user, tab)
                                     IN  IF sd \in DOMAIN days THEN days[sd] ELSE 0])
        page(k) == SubmitPage(db, user, db.day[k].site, k[2])
    IN  \A k \in Mine(db, user) :
            /\ Cardinality({tab \in ChainTabs : k \in OnTab(db, user, tab)})
                  = IF db.day[k].status = "scanned" THEN 0 ELSE 1
            /\ db.site[db.day[k].site].status = "active" =>
                  /\ k \in page(k).rows
                  /\ DailyGrid(db, user, db.day[k].site, k[2]) \subseteq page(k).rows
                  /\ page(k).submitted <=> chain(SiteDayOf(db, k)) = Cardinality(page(k).rows)
                  /\ k \in OnSiteNow(db, user) => k \in ScanLog(db, user)
            /\ k \in SiteDayPage(db, user, db.day[k].site, k[2]).rows

\* The hours on the tabs of the overtime queue are those on all of it, of which the
\* overtime report has the waiting and, as approved, the approved.
OvertimeTabsAddUp(db, user) ==
    LET hours(tab) == SumFunction(OvertimeGroups(db, user, tab))
    IN  /\ hours("all") = SumFunction([tab \in OvertimeTabs |-> hours(tab)])
        /\ OvertimeTotals(db, user, NoFilter).pending = hours("pending")
        /\ \A k \in ApprovedLog(db, user, NoFilter) : k \in OvertimeQueue(db, user, "approved")

\* The headcount of a site on the sites page is the length of its list of employees, and
\* a branch is offered exactly when an open site of it is listed.
HeadcountsAgree(db, user) ==
    LET sites == OrgList(db, user, "active")
        counts == WorkerCounts(db, user)
    IN  /\ \A s \in DOMAIN sites : sites[s] = Cardinality(WorkerList(db, user, "active", s, FALSE))
        /\ counts.active = Hub(db, user).roster /\ counts.faceRegistered = Hub(db, user).faces
        /\ counts.facePending = Cardinality(WorkerList(db, user, "active", Nowhere, TRUE))
        /\ counts.active + counts.pending + counts.archived
              = Cardinality(EmployeesWith(db, user, UNION {StatusTabs[t] : t \in DOMAIN StatusTabs}))
        /\ ~ user.all => VisibleBranches(db, user) = {db.site[s].branch : s \in DOMAIN sites}

\* The manpower tabs are all the requests, and the boards have every number allocated.
BoardsAgree(db, user) ==
    /\ ManpowerList(db, user, "all")
          = UNION {ManpowerList(db, user, t) : t \in {"open", "partial", "fulfilled", "cancelled"}}
    /\ AllocationRows(db, user)
          = SumFunction([s \in DOMAIN db.site |->
                             SumFunction([i \in Board(db, user, s) |-> db.manpower[i].filled])])

\* "Clear, separate lists so nothing is buried" (rulebook-v2.md:68): whoever looks, the
\* queues, the lists and the counters that link to them account for every record once
\* (dashboard.ts:131, regularization.ts:30, attendance.ts:229, workers.ts:124).
PagesAccountForAll ==
    input.about = "pages" =>
        \A user \in ReportUsers(input) :
            /\ CountersAreQueues(input, user)
            /\ NothingIsBuried(input, user)
            /\ OvertimeTabsAddUp(input, user)
            /\ HeadcountsAgree(input, user)
            /\ BoardsAgree(input, user)

Yards  == {"A", "B"}
Pair == {"k1", "k2"}

\* Two sites, the second with a status and a name, which may be that of the first.
Yard(status, name) == [A |-> [branch |-> "north", status |-> "active", name |-> "yard"],
                       B |-> [branch |-> "south", status |-> status, name |-> name]]

\* A record carries the name its site has now.
Signed(site, r) == [r EXCEPT !.siteName = IF r.site = Nowhere THEN "" ELSE site[r.site].name]

Assignment == {[siteIds |-> ids, siteId |-> s] : ids \in SUBSET Yards, s \in Yards}

Placed == {a \in Assignment : a.siteId \in a.siteIds}

\* No record, one of the second site, or one of the first, which may have been in another
\* branch at the time.
Visited == {[site |-> Nowhere, branch |-> "", otStatus |-> "none", otHours |-> 0],
            [site |-> "B", branch |-> "south", otStatus |-> "none", otHours |-> 0]}
           \union [site : {"A"}, branch : {"north", "south", "west"}, otStatus : {"none"}, otHours : {0}]

Attended == {[site |-> Nowhere, branch |-> "", siteName |-> "", otStatus |-> "none", otHours |-> 0, typed |-> {}]}
            \union [site : Yards, branch : {"north"}, siteName : {""},
                     otStatus : {"pending"}, otHours : {2}, typed : {{}}]
            \union [site : Yards, branch : {"north"}, siteName : {""},
                     otStatus : {"approved"}, otHours : {2}, typed : {{}, {1}}]

AbsenceInput ==
    \E status \in {"active", "archived"}, a \in Placed, joined, today \in 1 .. MaxSpan,
       at \in [1 .. MaxSpan -> Visited] :
        input = [about |-> "absence", today |-> today, site |-> Yard("active", "works"), flags |-> << >>,
                 employee |-> [e \in {"k1"} |-> [status |-> status, siteIds |-> a.siteIds,
                                                  siteId |-> a.siteId, joined |-> joined]],
                 day |-> [k \in {"k1"} \X (1 .. MaxSpan) |-> at[k[2]]]]

FigureInput ==
    \E closing \in {"active", "archived"}, status \in {"active", "inactive"}, a \in Placed,
       name \in {"yard", "works"},
       at \in [Pair -> Attended], flags \in {<< >>, <<"A">>, <<"A", "B">>, <<"B", "B">>} :
        input = [about |-> "dashboard", today |-> 1, site |-> Yard(closing, name), flags |-> flags,
                 employee |-> [e \in Pair |->
                     IF e = "k1" THEN [status |-> status, siteIds |-> a.siteIds, siteId |-> a.siteId, joined |-> 1, face |-> TRUE]
                     ELSE [status |-> "active", siteIds |-> {"B"}, siteId |-> "B", joined |-> 1, face |-> FALSE]],
                 day |-> [k \in Pair \X {1} |-> Signed(Yard(closing, name), at[k[1]])]]

\* A record anywhere in the chain, with overtime anywhere in its own; here both sites have
\* one name.
Chained == {[site |-> s, branch |-> "north", siteName |-> "yard", status |-> status, otStatus |-> ot,
             otHours |-> IF ot \in {"none", "open"} THEN 0 ELSE 2, typed |-> {},
             open |-> ot = "open", voided |-> FALSE] :
               s \in Yards, status \in ChainTabs \union {"scanned"},
               ot \in OvertimeTabs \union {"none", "open"}}

NoRecord == [site |-> Nowhere, branch |-> "", siteName |-> "", status |-> "none", otStatus |-> "none", otHours |-> 0, typed |-> {},
             open |-> FALSE, voided |-> FALSE]

PagesInput ==
    \E closing \in {"active", "archived"}, status \in {"active", "inactive", "archived"}, a \in Placed,
       one \in Chained,
       other \in {r \in Chained : r.site = "A" /\ r.otStatus = "none"} \union {NoRecord},
       flags \in {<< >>, <<"B">>}, waiting \in {"recommended", "approved"} :
        input = [about |-> "pages", today |-> 1, site |-> Yard(closing, "yard"), flags |-> flags,
                 employee |-> [e \in Pair |->
                     IF e = "k1" THEN [status |-> status, siteIds |-> a.siteIds, siteId |-> a.siteId,
                                       joined |-> 1, face |-> TRUE]
                     ELSE [status |-> "active", siteIds |-> {"B"}, siteId |-> "B", joined |-> 1, face |-> FALSE]],
                 day |-> [k \in Pair \X {1} |-> IF k[1] = "k1" THEN one ELSE other],
                 request |-> <<[site |-> "B", status |-> waiting]>>,
                 manpower |-> <<[site |-> "A", status |-> "partial", filled |-> 1],
                                [site |-> "B", status |-> "cancelled", filled |-> 2]>>]

-----------------------------------------------------------------------------
(* Payroll *)

Dates == 0 .. LastDay

Closed(hours) == CloseSession(NewScan("site", "day", 0), hours, 1)

\* The days a run tells apart: forgotten, short, long, with its overtime approved,
\* rejected and voided.
Days == {NewScan("site", "day", 0), Closed(4), ApproveOvertime(Closed(12), [kind |-> "hours", hours |-> 2]),
         Closed(12), Reject(Closed(12)), [Closed(12) EXCEPT !.voided = TRUE]}

PayInput ==
    \E d, e \in Dates, first, second \in Days, v, w \in {0, 7} :
        /\ d < e
        /\ input = [about |-> "payroll",
                    day |-> [x \in Dates |-> CASE x = d -> first [] x = e -> second [] OTHER -> Null],
                    arrears |-> SaveArrears(SaveArrears(<< >>, WeekBounds(v, 0), 5), WeekBounds(w, 0), 3)]

Weeks == {WeekBounds(d, 0) : d \in Dates}

InRange(d, range) == d \in range.from .. range.to

WeekRun(range) == ComputePayroll(input.day, input.arrears, range, 80, 3)

Total(x) == SumFunction([range \in Weeks |-> WeekRun(range)[x]])

OnTheBooks(d) == /\ input.day[d] # Null /\ ~ input.day[d].voided
                 /\ input.day[d].attendanceStatus # "rejected"

Payable(d) == OnTheBooks(d) /\ ~ IsOpen(input.day[d])

\* The ranges with arrears in which the worker has a day that is not taken off the books.
ArrearsDue == {range \in DOMAIN input.arrears : \E d \in Dates : InRange(d, range) /\ OnTheBooks(d)}

\* Run week after week the payroll pays each day once: every day is in its own week's run
\* and, a week later, in that of "last week"; the hours and the food of the runs are those
\* of all the days to be paid, and every arrears entry is in one run, or in none if the
\* worker has no day in its week (payroll.ts:18).
WeeklyRunsAddUp ==
    input.about = "payroll" =>
        /\ \A d \in Dates : /\ InRange(d, WeekBounds(d, 0))
                            /\ WeekBounds(d + 7, -1) = WeekBounds(d, 0)
        /\ Total("days") = Cardinality({d \in Dates : Payable(d)})
        /\ Total("normalHrs") + Total("otHrs") =
              SumFunction([d \in {x \in Dates : Payable(x)} |->
                  Lesser(AtLeastZero(input.day[d].totalHours - input.day[d].breakHours), StandardHours)
                  + PaidOvertime(input.day[d])])
        /\ Total("foodDays") =
              Cardinality({d \in Dates : Payable(d) /\ PaidDay(input.day[d]).total >= FoodMinHours})
        /\ Total("arrears") = SumFunctionOnSet(input.arrears, ArrearsDue)

-----------------------------------------------------------------------------
(* Fences *)

Points == (0 .. Grid) \X (0 .. Grid)

FenceInput ==
    \E a, b, c \in Points : input = [about |-> "fence", polygon |-> <<a, b, c>>]

\* Twice the signed area of the triangle p, q, r.
Turn(p, q, r) == (q[1] - p[1]) * (r[2] - p[2]) - (q[2] - p[2]) * (r[1] - p[1])

\* A drawn triangle is told from its outside whichever corner it starts at and whichever
\* way it was drawn: a point strictly on the inner side of its edges is inside, one
\* strictly beyond an edge is not (geo.ts:36).
InsideTriangle ==
    input.about = "fence" =>
        LET a == input.polygon[1]  b == input.polygon[2]  c == input.polygon[3]
            site == [polygon |-> input.polygon, located |-> FALSE, radius |-> 0]
            side == IF Turn(a, b, c) > 0 THEN 1 ELSE -1
        IN  Turn(a, b, c) # 0 =>
              \A p \in Points :
                  LET sides  == {side * Turn(a, b, p), side * Turn(b, c, p), side * Turn(c, a, p)}
                      answer == CheckGeofence(site, [point |-> p, distance |-> 0])
                  IN  /\ (\A t \in sides : t > 0) => answer = "inside"
                      /\ (\E t \in sides : t < 0) => answer = "outside"

-----------------------------------------------------------------------------
(* Faces *)

FaceInput ==
    \E n \in 0 .. Gallery : \E distance \in [1 .. n -> 0 .. FaceMatchThreshold + 1] :
        input = [about |-> "face", candidates |-> [i \in 1 .. n |-> [id |-> i, distance |-> distance[i]]]]

\* A face is taken for the nearest worker exactly when that one is near enough and, unless
\* very near, clear of every other one, whatever the order the workers are read in
\* (face.ts:91).
MatchIsClear ==
    input.about = "face" =>
        LET c == input.candidates
            match == BestMatch(c)
            nearest(i) == \A j \in DOMAIN c : c[i].distance <= c[j].distance
            clear(i) == \A j \in DOMAIN c \ {i} : c[j].distance - c[i].distance >= FaceMatchMargin
        IN  /\ match # NoMatch => \E i \in DOMAIN c : match = c[i] /\ nearest(i)
            /\ match # NoMatch <=>
                  \E i \in DOMAIN c :
                      /\ nearest(i) /\ c[i].distance <= FaceMatchThreshold
                      /\ c[i].distance <= FaceStrongMatch \/ clear(i)

FiguresInit == AbsenceInput \/ PagesInput \/ FigureInput \/ PayInput \/ FenceInput \/ FaceInput

=============================================================================
