-------------------------------- MODULE Pages --------------------------------
(***************************************************************************)
(* What the work queues, the lists and the daily pages show of a database  *)
(* (routes/regularization.ts, overtime.ts, flags.ts, requests.ts,          *)
(* manpower.ts, workers.ts, org.ts, attendance.ts, dashboard.ts).  Like    *)
(* the reports they only read.  To the snapshot of Reporting they add, of  *)
(*   day             its status and whether it is open and voided,         *)
(*   request         the requests, a site and a status each,               *)
(*   manpower        the manpower requests: site, status, needed, filled.  *)
(* Search, sorting and the row caps of the lists are left out.             *)
(***************************************************************************)
EXTENDS Reporting

Mine(db, user) == {k \in Records(db) : CanUseSite(user, db.day[k].site)}

-----------------------------------------------------------------------------
(* The queues. *)

ChainTabs == {"submitted", "recommended", "approved", "rejected"}

OnTab(db, user, tab) == {k \in Mine(db, user) : db.day[k].status = tab}

SiteDayOf(db, k) == <<db.day[k].site, k[2]>>

\* The corrections queue: site-days with their number of records on the tab.
RegularizationDays(db, user, tab) ==
    LET rows == OnTab(db, user, tab)
    IN  [sd \in {SiteDayOf(db, k) : k \in rows} |->
            Cardinality({k \in rows : SiteDayOf(db, k) = sd})]

\* One site-day: its records, and whom HR can add a manual day for.
SiteDayPage(db, user, s, d) ==
    LET rows == IF CanUseSite(user, s) THEN {k \in RecordsAt(db, s) : k[2] = d} ELSE {}
    IN  [rows |-> rows,
         addable |-> {e \in DOMAIN db.employee : /\ CanUseSite(user, s)
                                                 /\ db.employee[e].siteId = s
                                                 /\ db.employee[e].status = "active"
                                                 /\ <<e, d>> \notin rows}]

OvertimeTabs == {"pending", "recommended", "approved", "rejected"}

OvertimeQueue(db, user, tab) ==
    {k \in Mine(db, user) :
        db.day[k].otStatus \in IF tab = "all" THEN OvertimeTabs ELSE {tab}}

\* Its rows by site, with the hours worked of each.
OvertimeGroups(db, user, tab) ==
    LET rows == OvertimeQueue(db, user, tab)
    IN  [s \in {db.day[k].site : k \in rows} |->
            Hours(db, {k \in rows : db.day[k].site = s})]

FlagList(db, user) == {i \in DOMAIN db.flags : CanUseSite(user, db.flags[i])}

InScope(user, things) == {i \in DOMAIN things : CanUseSite(user, things[i].site)}

RequestList(db, user, tab) ==
    {i \in InScope(user, db.request) :
        db.request[i].status \in IF tab = "decided" THEN {"approved", "rejected"} ELSE {tab}}

ManpowerList(db, user, tab) ==
    {i \in InScope(user, db.manpower) : tab # "all" => db.manpower[i].status = tab}

\* The board of a site, and the report of the allocations, number by number.
Board(db, user, s) ==
    {i \in InScope(user, db.manpower) : db.manpower[i].site = s /\ db.manpower[i].status # "cancelled"}

AllocationRows(db, user) ==
    SumFunction([i \in {x \in InScope(user, db.manpower) : db.manpower[x].status # "cancelled"} |->
                    db.manpower[i].filled])

-----------------------------------------------------------------------------
(* What waits, on the dashboard. *)

\* Faulty variant: what the project manager has recommended is nobody's work.
AwaitingRecommendation == {"submitted"}

AwaitingDecision == {"submitted", "recommended"}

OnSiteNow(db, user) ==
    {k \in Mine(db, user) : k[2] = db.today /\ db.day[k].open /\ ~ db.day[k].voided}

NeedsYou(db, user) ==
    [ot       |-> Cardinality({k \in Mine(db, user) : db.day[k].otStatus = "pending"}),
     days     |-> Cardinality({k \in Mine(db, user) : db.day[k].status \in AwaitingDecision}),
     requests |-> Cardinality({i \in InScope(user, db.request) :
                                  db.request[i].status \in {"pending", "recommended"}}),
     flags    |-> Cardinality(FlagList(db, user))]

NeedsYouTotal(n) == n.ot + n.days + n.requests + n.flags

Verdict(db, user) ==
    LET share == Percent(Headline(db, user))
        needs == NeedsYou(db, user)
    IN  IF share < AttendanceTarget - 10 \/ needs.flags > 0 THEN "danger"
        ELSE IF share < AttendanceTarget \/ NeedsYouTotal(needs) > 0 THEN "warning"
        ELSE "success"

-----------------------------------------------------------------------------
(* The lists of employees and sites. *)

StatusTabs == [active |-> {"active", "inactive"}, pending |-> {"pending"}, archived |-> {"archived"}]

EmployeesWith(db, user, statuses) ==
    {e \in DOMAIN db.employee :
        CanUseWorker(user, db.employee[e]) /\ db.employee[e].status \in statuses}

\* The site filter offers the active sites of the user only.
WorkerList(db, user, tab, s, unregistered) ==
    {e \in EmployeesWith(db, user, StatusTabs[tab]) :
        /\ s \in ActiveSites(db, user) => s \in db.employee[e].siteIds
        /\ unregistered => ~ db.employee[e].face}

WorkerCounts(db, user) ==
    LET n(statuses) == Cardinality(EmployeesWith(db, user, statuses))
        enrolled == {e \in EmployeesWith(db, user, StatusTabs.active) : db.employee[e].face}
    IN  [active |-> n(StatusTabs.active), pending |-> n(StatusTabs.pending),
         archived |-> n(StatusTabs.archived),
         faceRegistered |-> Cardinality(enrolled),
         facePending |-> n(StatusTabs.active) - Cardinality(enrolled)]

\* Everybody on the roster assigned to a site, primary or not.
SiteHeadcount(db, s) ==
    Cardinality({e \in DOMAIN db.employee :
                    s \in db.employee[e].siteIds /\ db.employee[e].status \in StatusTabs.active})

OrgList(db, user, tab) ==
    [s \in {x \in DOMAIN db.site : CanUseSite(user, x) /\ db.site[x].status = tab} |-> SiteHeadcount(db, s)]

VisibleBranches(db, user) ==
    {b \in {db.site[s].branch : s \in DOMAIN db.site} :
        user.all \/ \E s \in ActiveSites(db, user) : db.site[s].branch = b}

-----------------------------------------------------------------------------
(* The supervisor's day. *)

\* The grid of a day: those who work at the site now, with their records there.
DailyGrid(db, user, s, d) ==
    {<<e, d>> : e \in {x \in DOMAIN db.employee :
                          /\ s \in ActiveSites(db, user)
                          /\ s \in db.employee[x].siteIds
                          /\ db.employee[x].status = "active"
                          /\ <<x, d>> \in RecordsAt(db, s)}}

\* The scans of today, at every site the user may scan at.
ScanLog(db, user) == UNION {TodayAt(db, s) : s \in ActiveSites(db, user)}

SubmitPage(db, user, s, d) ==
    LET rows == {k \in RecordsAt(db, s) : s \in ActiveSites(db, user) /\ k[2] = d}
    IN  [rows |-> rows,
         submitted |-> rows # {} /\ \A k \in rows : db.day[k].status # "scanned"]

=============================================================================
