----------------------------- MODULE Reporting ------------------------------
(***************************************************************************)
(* What the reports and dashboards say of a database (lib/report.ts,       *)
(* lib/absence.ts, lib/hierarchy.ts, routes/reports.ts,                    *)
(* routes/dashboard.ts, lib/scope.ts).  They only read: these are          *)
(* operators on a snapshot db of                                           *)
(*   today, site     the date; of each site its branch, status and name,   *)
(*   employee        status, siteIds, siteId, joined, face enrolled,       *)
(*   day             the attendance record of an employee and date: its    *)
(*                   site, or Nowhere, the branch and siteName copied when *)
(*                   it was written, otStatus, otHours and the hours       *)
(*                   approved, if typed,                                   *)
(*   flags           the unresolved flags, an attempted site each,         *)
(* for a user [all, sites] and the filters [site, branch, from, to] of a   *)
(* request.  A site that is edited gives its new name to its records but   *)
(* not its new branch; names are not unique.  Other names, sorting, paging *)
(* and file formats are left out.                                          *)
(***************************************************************************)
EXTENDS Integers, FiniteSetsExt

CONSTANTS
    MaxSpan,        \* ABSENCE_MAX_SPAN_DAYS
    PageRows,       \* the overtime rows a site's page reads
    PageFlags,      \* the flags it reads
    AttendanceTarget    \* config.attendanceTarget, percent

Nowhere == "nowhere"    \* no site, or a filter left open

-----------------------------------------------------------------------------
(* Scope and filters. *)

CanUseSite(user, s) == user.all \/ s \in user.sites

CanUseWorker(user, e) == user.all \/ e.siteIds \cap user.sites # {}

\* A site outside the user's scope is no filter.
SiteFilter(user, f) == IF f.site # Nowhere /\ CanUseSite(user, f.site) THEN f.site ELSE Nowhere

Records(db) == {k \in DOMAIN db.day : db.day[k].site # Nowhere}

Within(f, d) == (f.from # 0 => d >= f.from) /\ (f.to # 0 => d <= f.to)

\* The attendance rows of a report: keys <<employee, date>> of records.
PresentRows(db, user, f) ==
    {k \in Records(db) :
        LET s == db.day[k].site
        IN  /\ CanUseSite(user, s)
            /\ SiteFilter(user, f) # Nowhere => s = f.site
            /\ f.branch # Nowhere => db.day[k].branch = f.branch
            /\ Within(f, k[2])}

-----------------------------------------------------------------------------
(* Absence. *)

\* Both ends given, in order, and not too far apart; never beyond today.
EligibleDates(db, f) ==
    IF f.from = 0 \/ f.to = 0 \/ f.from > f.to \/ f.to - f.from >= MaxSpan THEN {}
    ELSE {d \in f.from .. f.to : d <= db.today}

\* Faulty variant: who is present is read with the report's own query.
PresenceOnReport(db, user, f) == PresentRows(db, user, f)

\* Who is present is told by any record, in scope and on the report or not.
Presence(db, user, f) == Records(db)

OnReport(db, user, f, e) ==
    LET w == db.employee[e]
    IN  /\ w.status \in {"active", "inactive"}
        /\ CanUseWorker(user, w)
        /\ SiteFilter(user, f) # Nowhere => f.site \in w.siteIds

\* The one site an absence is put down to: the filtered one, else the primary.
AbsentSites(db, user, f, e) ==
    IF SiteFilter(user, f) # Nowhere THEN {f.site} ELSE {db.employee[e].siteId}

\* The synthesized rows: employee, date and site.
AbsentRows(db, user, f) ==
    {row \in (DOMAIN db.employee) \X EligibleDates(db, f) \X (DOMAIN db.site) :
        LET e == row[1]  d == row[2]  s == row[3]
        IN  /\ OnReport(db, user, f, e)
            /\ s \in AbsentSites(db, user, f, e)
            /\ f.branch # Nowhere => db.site[s].branch = f.branch
            /\ d >= db.employee[e].joined
            /\ <<e, d>> \notin Presence(db, user, f)}

-----------------------------------------------------------------------------
(* The employee and the overtime reports. *)

Hours(db, rows) == SumFunction([k \in rows |-> db.day[k].otHours])

\* Those of the status asked for, else everybody on the roster.
EmployeeRows(db, user, f) ==
    {e \in DOMAIN db.employee :
        LET w == db.employee[e]
        IN  /\ CanUseWorker(user, w)
            /\ w.status \in IF f.status = Nowhere THEN {"active", "inactive"} ELSE {f.status}
            /\ SiteFilter(user, f) # Nowhere => f.site \in w.siteIds}

\* The active ones are counted without the status filter.
EmployeeSummary(db, user, f) ==
    LET rows == EmployeeRows(db, user, f)
        enrolled == {e \in rows : db.employee[e].face}
    IN  [total          |-> Cardinality(rows),
         active         |-> Cardinality(EmployeeRows(db, user, [f EXCEPT !.status = "active"])),
         faceRegistered |-> Cardinality(enrolled),
         facePending    |-> Cardinality(rows) - Cardinality(enrolled)]

OvertimeRows(db, user, f) ==
    {k \in Records(db) :
        /\ db.day[k].otStatus \in {"pending", "approved"}
        /\ CanUseSite(user, db.day[k].site)
        /\ SiteFilter(user, f) # Nowhere => db.day[k].site = f.site
        /\ Within(f, k[2])}

\* An approval of the whole day types no hours: all of them count.
CountedHours(r) ==
    IF r.otStatus = "approved" /\ r.typed # {} THEN CHOOSE h \in r.typed : TRUE ELSE r.otHours

Counted(db, rows) == SumFunction([k \in rows |-> CountedHours(db.day[k])])

\* One line for each name with overtime, so that sites of one name share it; the costs
\* are left out.
OvertimeReport(db, user, f) ==
    LET rows == OvertimeRows(db, user, f)
        with(n, status) == {k \in rows : db.day[k].siteName = n /\ db.day[k].otStatus = status}
    IN  [n \in {db.day[k].siteName : k \in rows} |->
            [pending  |-> Counted(db, with(n, "pending")),
             approved |-> Counted(db, with(n, "approved"))]]

OvertimeTotals(db, user, f) ==
    LET report == OvertimeReport(db, user, f)
    IN  [pending  |-> SumFunction([n \in DOMAIN report |-> report[n].pending]),
         approved |-> SumFunction([n \in DOMAIN report |-> report[n].approved])]

\* The log of the approved overtime, with its exports.
ApprovedLog(db, user, f) == {k \in OvertimeRows(db, user, f) : db.day[k].otStatus = "approved"}

\* The cards of the reports hub.
Hub(db, user) ==
    LET mine    == {k \in Records(db) : CanUseSite(user, db.day[k].site)}
        pending == {k \in mine : db.day[k].otStatus = "pending"}
        roster  == EmployeeRows(db, user, [site |-> Nowhere, status |-> Nowhere])
    IN  [loggedToday |-> Cardinality({k \in mine : k[2] = db.today}),
         active      |-> Cardinality({e \in roster : db.employee[e].status = "active"}),
         faces       |-> Cardinality({e \in roster : db.employee[e].face}),
         roster      |-> Cardinality(roster),
         otHours     |-> Hours(db, pending),
         otRecords   |-> Cardinality(pending)]

-----------------------------------------------------------------------------
(* Dashboards. *)

ActiveSites(db, user) == {s \in DOMAIN db.site : db.site[s].status = "active" /\ CanUseSite(user, s)}

RecordsAt(db, s)   == {k \in Records(db) : db.day[k].site = s}
TodayAt(db, s)     == {k \in RecordsAt(db, s) : k[2] = db.today}
PendingAt(db, s)   == {k \in RecordsAt(db, s) : db.day[k].otStatus = "pending"}
FlagsAt(db, s)     == {i \in DOMAIN db.flags : db.flags[i] = s}

\* Faulty variant: an employee of two sites counts at both.
AssignedTo(db, s) == {e \in DOMAIN db.employee :
                        s \in db.employee[e].siteIds /\ db.employee[e].status = "active"}

Workforce(db, s) == {e \in DOMAIN db.employee :
                        db.employee[e].siteId = s /\ db.employee[e].status = "active"}

\* One line of the rollup over the branches.
SiteRollup(db, s) ==
    [present   |-> Cardinality(TodayAt(db, s)),
     active    |-> Cardinality(Workforce(db, s)),
     otPending |-> Hours(db, PendingAt(db, s)),
     flags     |-> Cardinality(FlagsAt(db, s))]

HierarchyRollup(db, user) == [s \in ActiveSites(db, user) |-> SiteRollup(db, s)]

\* The rows a site's page reads: the newest pending or approved overtime, a few flags.
PageOvertime(db, s) ==
    LET all == {k \in RecordsAt(db, s) : db.day[k].otStatus \in {"pending", "approved"}}
    IN  IF Cardinality(all) <= PageRows THEN all
        ELSE CHOOSE newest \in kSubset(PageRows, all) :
                \A k \in newest, j \in all \ newest : j[2] <= k[2]

\* The page of one site, for who may use it while it is active.
SitePage(db, s) ==
    [present   |-> Cardinality(TodayAt(db, s)),
     active    |-> Cardinality(Workforce(db, s)),
     otPending |-> Hours(db, {k \in PageOvertime(db, s) : db.day[k].otStatus = "pending"}),
     flags     |-> IF Cardinality(FlagsAt(db, s)) > PageFlags THEN PageFlags
                   ELSE Cardinality(FlagsAt(db, s))]

\* The figures over everything in scope, sites no longer active included.
Headline(db, user) ==
    [present   |-> Cardinality({k \in Records(db) : k[2] = db.today /\ CanUseSite(user, db.day[k].site)}),
     active    |-> Cardinality({e \in DOMAIN db.employee :
                      db.employee[e].status = "active" /\ CanUseSite(user, db.employee[e].siteId)}),
     otPending |-> Hours(db, {k \in Records(db) :
                      db.day[k].otStatus = "pending" /\ CanUseSite(user, db.day[k].site)}),
     flags     |-> Cardinality({i \in DOMAIN db.flags : CanUseSite(user, db.flags[i])})]

\* Of a line of the rollup, the share present, rounded half up.
Percent(line) == IF line.active = 0 THEN 0
                 ELSE (200 * line.present + line.active) \div (2 * line.active)

Below(rollup) == {s \in DOMAIN rollup : Percent(rollup[s]) < AttendanceTarget}

\* The sites that need a look; the first five, by a score, are listed.
Exceptions(rollup) ==
    {s \in DOMAIN rollup : s \in Below(rollup) \/ rollup[s].flags > 0 \/ rollup[s].otPending > 0}

=============================================================================
