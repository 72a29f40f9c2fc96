# TLA+ models of the Site Attendance system

This directory holds TLA+ models of the attendance system in this repository, the
TLC configurations that model-check them, and TLAPS proofs about them. Paths such as
`lib/attendance.ts` are relative to the repository's `src/` (the browser's code is under
`public/`, the scripts under `scripts/`); `PROJECT.json` lists the source lines behind
every definition. Run `tlc -config X.cfg M` for the model checker and `tlapm M.tla` for the
proofs.

## 1. The system

An Express server keeps everything in MongoDB through Mongoose. One process runs
(`ecosystem.config.cjs`: one instance), its handlers interleave at every `await`, and no
handler uses a transaction: what is atomic is a single `save`, `create`, `updateMany` or
`find`. A Mongoose `save` writes the paths that differ from the copy read; pushing onto an
array always succeeds, setting or replacing an array is refused when the document's version
has moved since the read. Several models below are about exactly that.

| Component | State it keeps | Operations | What makes it correct |
|---|---|---|---|
| Scan engine (`lib/attendance.ts`, `routes/attendance.ts`, `routes/station.ts`) | `attendance`, one document per worker and day (unique index) | IN, re-open, OUT, submit the day | one record a day; hours are those of first In and last Out; a re-opened day forgets its approval; requests that race leave a whole record |
| Flags (`lib/flagResolve.ts`, `routes/flags.ts`) | `flag_events`, one per record and one per site-day (unique indexes) | acknowledge, fix the clock-out, submit the day | the queue shows what is broken, all of it and nothing else |
| Sweeps and scheduler (`lib/missedClockout.ts`, `lib/forgotSubmit.ts`, `lib/scheduler.ts`, `server.ts`, `db.ts`) | a timer, the process | raise flags at night and at boot | what is forgotten is eventually flagged, through restarts |
| Regularization (`routes/regularization.ts`) | the day's status and stamps | recommend, approve, reject, correct, void, manual day, verify | the approver decides on the hours as they are |
| Overtime (`routes/overtime.ts`) | the record's `overtime` | recommend, approve with hours, reject | only decided overtime is paid, never more than was worked |
| Time and shifts (`lib/time.ts`, `lib/shift.ts`) | none | calendar, shift selection, reckoner | one reckoning everywhere |
| Payroll (`lib/payroll.ts`, `routes/payroll.ts`) | arrears | pay of a period | every day paid once, and the arrears of the weeks with a day to pay for |
| Reports, dashboards (`lib/report.ts`, `lib/absence.ts`, `lib/hierarchy.ts`, `routes/reports.ts`, `routes/dashboard.ts`) | none | aggregations, exports | the same figure everywhere; nobody in two rows, nobody missing |
| Workers (`routes/workers.ts`) | `workers` | enrol, edit, bulk, archive, restore, delete | who left is off the roster; what is deleted can be undone |
| Organisation (`routes/org.ts`, `routes/deletionlog.ts`, `routes/stations.ts`, `routes/designations.ts`) | branches, sites, stations, designations, deletion log | create, edit, sign off, delete, undo, with cascades | no roster at a closed site, no lost deletion, copies of names agree |
| Requests (`routes/requests.ts`) | `requests` | raise, recommend, decide | the worker follows the decision |
| Manpower (`routes/manpower.ts`, `lib/manpower.ts`) | `manpower_requests`, a code counter | raise, allocate, deallocate, cancel | status follows the allocations, none is lost, who is allocated can scan |
| Users and permissions (`routes/users.ts`, `auth/*`) | users, sessions | accounts, capabilities, logins | nobody passes on what he has not; somebody can always manage |
| Face and geofence (`lib/face.ts`, `lib/geo.ts`, `routes/me.ts`) | none | best match, point in polygon | a clear nearest face; inside is inside however the fence was drawn |
| Kiosk and browser (`public/js/station.js`, `face-autoscan.js`, `attendance-scan.js`) | locks, a detector, the position | capture and send | one scan per tap; the page always comes back; a scan is fenced |
| Scripts (`scripts/*.ts`) | none | seed, import, migrations, demo | re-running one never undoes the office's work |

Components interact through the shared collections: scans, submissions, corrections and
decisions all edit the same attendance document; each of them resolves flags; the sweeps
read the documents and raise flags; payroll and reports read the documents. A closing site
archives or deletes its workers, disables its stations and drops itself from the users'
scopes; an approved offload and a manpower allocation write the worker too.

Hard behaviours, listed one by one under `hazards` in `PROJECT.json`: a day re-opened or
corrected after it was decided; shifts across midnight with times typed without a date;
copies of one document saved by two handlers; sweeps racing scans; count-then-update;
several saves of one handler with a failure in between; restarts around the sweep time;
lost answers at the kiosk; copies of names; numbers computed by two different queries.

## 2. The modules

A module that models code, what it models, and how its state and actions correspond.

### The record of a day

| Module | What it is |
|---|---|
| `AttendanceTime` | the calendar, typed times, the timer's delay, shift windows and selection, the pay reckoner; pure operators |
| `AttendanceRecord` | one attendance document and what each handler does to it between reading and saving it; the pay and the report of one record; pure operators |
| `Attendance` | the core state machine: clock, attendance collection, both kinds of flags; one action per request and per sweep |
| `ApprovalGate` | abstract specification: what the approval chain promises about one record |
| `AttendanceProperties` | the invariants, the refinement, the liveness properties and two statements the code breaks |
| `MCAttendance`, `MCSeveral` | shift tables, reduced next-state relations and the scenarios for TLC; the page of a site-day |
| `ScanRaces` | the requests that meet on one record, split where they await |
| `AttendanceProofs`, `OutcomeProofs` | the theorems about it (section 4): the records; the flags and the gate |

In `Attendance`, `att[<<w, d>>]` is the document of worker `w` for day `d`, or `Null`: a
function instead of a set of documents because of the unique index on worker and day, and
because documents are never deleted. `missed[k]` is the `missed_clockout` flag of the record
`k`, `forgot[<<s, d>>]` the `forgot_submit` flag of a site-day: `"none"`, `"open"` or
`"resolved"`, because both kinds have a unique index and flags are never deleted. `now` is
the server's clock in ticks. A request is one step: what goes wrong there goes wrong with one
user at a time.

`ScanRaces` is the same record with its requests split at their awaits: `request[r]` is
where request `r` stands and the copy it holds; `rec.version` counts what Mongoose counts.
`LookIn`, `Create`, `LookAgain` and `SaveReopen` are an IN with its duplicate-key fallback;
`LookOut` and `SaveClose` an OUT, `LoadDay`/`SaveSubmitted` and `LoadFlagged`/`SaveFilled`
the supervisor, `FindOpen`/`RaiseMissed` and `FindUnsubmitted`/`RaiseForgot` the sweeps,
`CountUnsubmitted`/`ResolveForgotSubmit` the count-then-update. `Crash` ends every request
in flight, `Midnight` makes the day a past one. Times become two labels: which OUT the
record carries and which OUT its hours were computed from.

Abstractions. A tick is any whole number of hundredths of an hour, so `round2` has nothing
to round. Names, geo captures, remarks, and the audit fields that no handler reads
(`source`, `markedBy`, `outSource`, `corrections`, `verified*`) are left out, and with them
the `verify` handler, which changes nothing else. The pairs `submittedBy/At`,
`recommendedBy/At`, `decidedBy/At` are the set `stamps`. A punch of `sessions` is only open
or closed: pay never reads its times. Role and site-scope checks are static guards; every
action stands for any user who may call the handler. The face match and the geofence decide
which worker scans at which site; the core lets any worker scan at any site of `SitesOf`.
Sites do not change their shifts or lunch while a run lasts. Documents from before
`breakHours` was stored are left out.

### The office

| Module | What it is |
|---|---|
| `Organisation` | branches, sites, stations, scopes, the deletion register; each handler as the steps between its awaits; cascades employee by employee |
| `Roster` | the life of an employee, on top of `Organisation`: enrol, edit, bulk status and move, archive, delete, restore, remark |
| `WorkerRequests` | overtime and offload requests about an employee, on top of `Roster` |
| `SiteClosing` | abstract specification: what closing a site promises the people who work there |
| `MCOffice` | their properties, what `SiteClosing` sees of them, and four scenarios |
| `Manpower`, `MCManpower` | manpower requests with their code counter and the allocations; properties and two scenarios |
| `OfficeProofs`, `DeletionProofs`, `ManpowerProofs` | the theorems about them |

`req[r]` is the request `r` in flight: its operation, what its handler read, and which step
is next. `stale[r]` holds the employees whose version has moved since `r` read them, which
is what a versioned save asks; a handler that replaces `siteIds` is guarded by it, one that
writes single fields is not. A closing is `CloseSiteRead`, the two finds of the cascade,
then for one employee after the other either `CascadeDetach` or `CascadeLog` and
`CascadeLeave`, then `CloseSite` and `AfterClose` for stations and scopes, in the order of `org.ts`. `Crash`
forgets all requests in flight. A handler with one awaited write after reads that nothing
can invalidate is one step (`CreateBranch`, `ToggleStation`, `AddRemark`).
Of a site only status, branch and name are kept, of an employee status, sites, the copied
site name and whether a leaving date is set. The allocations of a manpower request are a bag,
because their order is read by nobody.

### Desk, browser, process, scripts

| Module | What it is |
|---|---|
| `Access` | the capability matrix, accounts, logins, sessions; who may create and edit whom. One request at a time |
| `Designations` | designations and the copies of their names on employees and records. One request at a time |
| `LogScan` | the Log Attendance page: location checks and scans in flight, the lock of the button, the server's own fence |
| `Scripts` | seed, import, three migrations, demo preparation and clean-up as whole runs between the office's edits |
| `Kiosk` | the kiosk page: sign-in, camera, detector, the scan in flight, answers of every kind |
| `Scheduling` | the server process: boot with or without MongoDB, catch-up, timer, signals, exits, crashes, outages |
| `Reporting`, `Pages` | reports, dashboards, queues, lists and daily pages as operators on a snapshot of the database |
| `PayRun` | the ranges, the run of a period with arrears and food allowance, the exposure |
| `Sensing` | geofence, location check and face choice over a grid and whole distances |
| `MCClocking`, `MCFigures`, `MCDesk` | properties, inputs and scenarios |
| `ClockingProofs`, `DeskProofs` | the theorems about them |
| `FoldProofs` | what the community modules' sums and folds do, for the proofs above |

`Reporting`, `Pages`, `PayRun` and `Sensing` have no state of their own: `MCFigures` makes
every small input an initial state and the properties compare the operators with a reference
definition or with one another. `PayRun` pays the records of `AttendanceRecord` with the very
operators the core's runs and proofs are about. Of a record `Reporting` keeps what the queries
read: its own copies of the branch and of the site's name, which an employee's absence and a
site's page do not go by.

Definitions that a comment calls a *faulty variant* are plausible bugs (a dropped guard, a
missing reset, a swapped order). They are used by nothing; each property of a passing run is
violated once one of them, or an action it names, replaces the definition below it
(`mutants` in `PROJECT.json`), which shows that the property depends on that code.

## 3. What TLC checks

| Run | Specification and size | Question |
|---|---|---|
| `RecordLife.cfg` | `FairSpec`, one worker, one site, one day, clock to tick 4 of 3-tick days | every handler in every order on one record: type, hours, overtime, stamps, session log, typed OUTs after the IN and within a day of it, payslip equal to report, the refinement of `ApprovalGate`; and what is forgotten is eventually flagged |
| `SeveralRecords.cfg` | `SeveralSpec`, two scenarios: one worker, two sites, two days, the second a Sunday; two workers (symmetric) of one site-day | open flags are about open records; the site-day's flag follows the last unsubmitted record, whoever it is |
| `Closings.cfg` | `MCSpec` of `MCOffice`, scenario `"closings"`, two requests in flight, with crashes | nobody on the roster is left at a closed site, and the refinement of `SiteClosing` |
| `Office.cfg` | `MCSpec` of `MCOffice`, the other three scenarios, two requests in flight | deletions and undos, requests about employees, and every other handler: nothing deleted off the register, no approved offload without effect, site names follow the primary site |
| `Allocations.cfg` | `MCSpec` of `MCManpower`, two orders side by side with crashes; every handler one at a time | who is allocated can scan, codes are unique, statuses follow, no allocation is lost |
| `Desk.cfg` | `MCSpec` of `MCDesk`, five scenarios | accounts, designations, the Log Attendance page, scripts; and reports, pages, payroll, fence and face over every small input |
| `Clocking.cfg` | `FairSpec` of `MCClocking`, three scenarios | one scan per tap, the kiosk comes back, due work is swept, requests that race leave a whole record, but for one save (section 5) |
| `StaleApproval.cfg`, `Reforgotten.cfg`, `LockedButton.cfg`, `StuckDay.cfg`, `LingeringFlag.cfg` | the same modules | statements the code breaks (section 5) |

Scenarios. Where components share no state that one of them writes, or where a question is
about a few handlers, one run holds several *scenarios*: a variable says which handlers the
behaviour uses. Nothing moves between scenarios, so each is a check of its own, and a
property about one of them names it.

- `MCSeveral`: `"days"` (scans, submissions, sweeps and fixes, no HR corrections) and
  `"crew"` (scans before midnight, the chain, void and reject, sweeps).
- `MCOffice`: `"closings"` (two sites with two shared employees closed, restored, crashed),
  `"deletions"` (one employee and its site deleted, undone, deleted again),
  `"requests"` (two requests about two employees, recommended and decided by several users,
  beside the stations), `"office"` (every other handler, one request at a time).
- `MCManpower`: `serial` or side by side.
- `MCDesk`: `"accounts"`, `"designations"`, `"logging"`, `"scripts"`, `"figures"`.
- `MCClocking`: `"kiosk"`, `"sweeps"`, `"races"`.

Bounds and why they are enough.

- Records. `MaxPunches = 2` allows one re-opening of each day, which is what takes a decided
  day back; further punches repeat it (`ScanRaces` has 3, so that a re-open can follow a
  re-open). `TicksPerDay` is 2, 3 or 5, so that a day has times before, at and after a typed
  time and shifts that end within the day and across midnight; `LastTick` lies beyond the end
  of the last day, so that records become overdue and past days exist. `StandardHours = 1`
  makes overtime of 0, 1 and more possible. One typed time of day suffices for the invariants
  because In times vary by scanning; the run about stale approvals uses two so that a
  correction can shorten a day. `MaxShiftHours` is a tick more than a day, so that a session
  may cross midnight, and sites differ in lunch and grace. Every handler touches one record or
  every record of a site-day, so one record, two days of one worker, and two workers of one
  day cover the ways records meet. The proofs cover the record invariants for every bound.
- Two requests in flight: nearly every race found in the code is between two, and most of the
  office's invariants are proved for any number (section 4). The one known to need a third is
  in section 5. Two sites are what a detaching cascade needs, two employees
  what a cascade needs to die in the middle of. The register holds one entry in `"closings"`
  and `"office"`, and `MaxEntries` (4) in `"deletions"`, where an entry is used, repeated and
  used again.
- Manpower: two orders are what two codes and a shared employee need; two lines of different
  roles with one person each reach open, partial and fulfilled. `MaxCodes` 2.
- Accounts: the first administrator and two others, two browsers; of the capabilities a form
  ticks only `Focus` varies (one capability), the others come with the roles.
- Kiosk: `NEED` and `ABSENT` 2, the least for which counting matters. Sweeps: two exits and two
  outages, so that an outage can fall before, during and after a restart; a three-hour day.
- Figures: two sites in two branches, two employees or records, an absence range of
  `MaxSpan` 2; a page that reads one row; nine days, so that a week and the next one's first
  days exist; triangles on a 4 by 4 grid; up to three candidates with every distance around
  the thresholds.

`CHECK_DEADLOCK` is on for the record runs, where the sweeps are always enabled. It is off
for the office, manpower, desk and clocking runs: their bounds are used up (entries, codes,
exits, punches), a site may stay closed for ever, and a scenario of figures has no steps.

Fairness.

- `FairSpec` of the core asks weak fairness of the two sweeps only: the timer reschedules
  itself after every run, failed or not (`lib/scheduler.ts`, "always reschedule"), each
  sweep has its own `try`, and both also run at boot. No user and no clock is assumed to act.
- `KioskFairness`: a position comes or its timeout does (the page asks the browser for one
  with a timeout), a request is answered or fails, and the page draws the answer. The tapper,
  the detector and the server's decision are not assumed to do anything.
- `ServerFairness`: the process manager restarts a process that ended, started promises
  finish, timers fire, time passes, a closing process exits (forced after a timeout) and
  MongoDB comes back. Nothing is assumed of failures; the property excepts the process that was
  booted without MongoDB, which never sweeps until it is restarted (`server.ts` starts it
  anyway).
- `FairScanSpec` (`Reforgotten.cfg`) is `FairSpec` with workers and sweeps only.

## 4. What TLAPS proves

### The record of a day

For every set of workers and sites, every shift table, lunch, grace, day length and bound
allowed by the named assumptions (`TimeAssumption`, `NullAssumption`,
`AttendanceAssumption`), which TLC evaluates in every run of the core:

- `TypeCorrect`, `HoursAlwaysMatch`, `OvertimeAlwaysQueued`, `StampsAlwaysFollow`,
  `OpenDaysHaveAPunch`: the invariants of the records that the runs check.
- `TypedOutsFollowIns`: an OUT that a step writes with another time than the moment of the step
  lies after the In of its record and at most a day later. HR's corrections and manual days, the
  submission of a day and the flags queue all type OUTs, and a correction may move the In of an
  OUT it leaves alone. It rests on `InTimeStaysOnItsDay`: In times fall on the day of their record.
- `PaysWhatIsShown`: a day that is paid is paid exactly as the reports show it, although
  payroll and reports compute it separately.
- `MissedFlagsAreReal`, `ForgotFlagsAreReal`: an unresolved flag always points at work that is
  still to be done (with requests as single steps; section 5 has what interleaving breaks).
- `CoreImplementsGate`: `Spec` implements `ApprovalGate` under the refinement mapping that
  `RecordLife` checks.
- `OutAfterIn`: a typed OUT is after the IN and at most a day later. `DelayWithinADay`: the
  timer sleeps between one tick and one day.

The argument. `RecordInv` is the inductive invariant: the type invariant, and every record
`Kept`, that is, well-typed, on its day and `Sound` (hours, overtime, stamps and session log
at once). None of the parts is inductive alone: an overtime decision keeps the hours right
only because undecided overtime means there is some; a re-opened day loses its stamps only
because a scanned day has none; a typed OUT is a number only because the In lies on the
record's day. `AttendanceProofs` has one lemma per edit of a record, on top of three
general ones (a step of the chain, a decision on the overtime, a recomputation), and lifts
them to one lemma per action, with two shapes of update: one record
changes, or every record changes to one that is kept.

`PaysWhatIsShown` rests on the lemma `ShownIsPaid`: where the hours of a closed record are
those of its In, Out and lunch, the stored standard hours are what payroll computes as the
lesser of the working hours and the standard day, and both read the approved overtime with the
same fallback.

`FlagInv` adds the two flag invariants. A sweep raises a flag only for what it has just
found; a step that can take a flag's reason away resolves that flag (of the record, or of
the site-day once its last unsubmitted record is gone); so what is left to prove of the
other steps is that they neither close, void nor submit a record, nor move it to another
site. `OutcomeProofs` also shows of each edit of a record that it is a move of the gate (this needs
`RecordInv`: that undecided overtime is never empty, and that an open record has none), and
of each action that it moves every record at most once.

### The office

`ClosingsAreClean`: however many sites are closed side by side, restored, and however many
employees they share, and wherever a crash falls, nobody on the roster is left at a closed
site and no deleted employee is off the register. `ClosingSpec` starts from any office, with
any number of requests; `ClosedSitesAreEmpty` is the same of the run. The invariant,
`ClosingInv`, says that what a cascade still has to do is in what its closing holds (`ClosingsKnow`): the
employees it found are all those on the roster at its site (nobody is enrolled by a closing),
a copy that is not stale is the employee as he stands, an employee a cascade is about to
delete is logged already. The step that needs it all is a detaching cascade that meets
another one: the second of the two is refused by the version of `siteIds`, and its closing
ends there with the site open.

`ClosingsDetachOrSendOff`: those closings, however many, implement `SiteClosing`. Seen from
outside, a closing only ever takes one site from an employee who keeps another, or sends off
one who has no other, who is on the register by then if he is deleted; and the site closes
when nobody is left at it. The document says so of one cascade (`org.ts:26-29`); every cascade
decides on lists that were read before, beside others that change them. `PromiseInv` adds to
`ClosingInv` what makes the old lists good enough (`KnowsElsewhere`): as nobody gains a site
and nobody on the roster is at a closed one, every other site an employee still has is on the
list that was read of him and among the active sites that were read, in whichever order the two
reads came. So who is not found elsewhere has no other site; and a list that is replaced is
current, because the save asks for its version. `ClosingsOfTheRunKeepPromise` is the same of
the run, whose other scenarios are seen as nothing happening. A faulty cascade that looks at an
employee's primary site only breaks this property and no other of the office's.

`ShapesHold`: with every handler beside every other and any number of requests, each record has
the shape of its schema, an employee always has a site and none twice, and whatever a request,
an entry of the register or an offload names is there when it is used (`EverythingIsFound`).
`ShapesInv` says the same of every copy and list a request holds; the one handler that could
leave an employee without a site is the detaching cascade, and the site it keeps him for is not
the one it takes (`Surveyed`). An edit keeps the sites its user may not see and adds those he
ticked, which are others (`RetainedBuildsUp`: the fold of the kept ones is a list of sites,
each once). `ShapesOfRecordsHold` is the type invariant of the run.

`DeletionsAreRegistered`: while employees and sites are deleted by hand, deleted by cascades and
undone, in any order and as often as the register has room, whatever is deleted is on the
register whenever no request is in flight. It holds for any number of sites and employees, and
as long as two requests at most are in flight at once (`TwoAtOnce`); section 5 has what three
do. An entry belongs to no one deletion: two requests may register one employee,
and undoing either entry brings him back. So `DeletionInv` counts (`Covered`): the open entries of
an employee that no undo is about to mark, and the entries that a deletion by hand still has
to write, are at least as many as the deletions that a cascade has registered and not yet
done, and one more if he is deleted. The undo that saves an employee takes one entry out of the
count and his deletion with it. Had another request brought him back first, there would be no
deletion to take, and the entry could be the one a closing has just written for him. With two in
flight this cannot be: beside an undo about to restore somebody whom a closing knows from before,
nobody else moves, and he is deleted still (the last conjunct of `DeletionInv`). `DeletedOfTheRunAreOnRegister` is the
same of the run (and of its closings, crashes included, without the bound);
`TwoRequestsKeepTheRegister` says it of the run's two requests.

`OffloadsTakeEffect`: however many users recommend, decide and decide again, once nobody is
deciding no employee of an approved offload is active. `AsksInv` says that an approved offload
whose employee is active has a request that is about to write him.
`OffloadsOfTheRunTakeEffect` is the same of the run.

`ReturnsAreRestores`: nobody on the roster has a leaving date. In closings and deletions,
undos among them, this is proved for any number of requests (`LeavingInv`: every step that
brings somebody back clears the date, and a copy that a bulk or an edit would save is never
there). In the other handlers it is true one request at a time only (section 5), and
`OfficeInv` carries what the single request in flight holds.

`NamesFollow`: with one request at a time, and any number of sites and employees, the site name
copied onto an employee is his primary site's whenever no request is in flight. `NamesInv` adds
what the request knows of the names it will write (an enrolment, an edit or a move holds a list
with the name of its first site as it is now; a renaming holds the name before it saves the site
and the one after), and lets the copies on a site lag while its renaming is on its way to them.
`RetainedIsList` is the fold it needs: the sites an editor may not see stay a list of sites.

`AllocatedAlwaysCanScan`, `CodesNeverClash`, `AllocationsOnlyDeallocated`,
`ManpowerTypeCorrect`: of `Manpower!Spec`, with any number of handlers side by side and
crashes. The type invariant, `ManpowerTypeCorrect`, is proved and no run repeats it.
`ManpowerInv` says that a handler past the step that gives the site has given it,
that a minted code is at most the counter and nobody else's, and that the copy of a handler
whose version has not moved is the request as it stands, which is why a save refused by its
version is all the protection the list of allocations needs.

`StatusAlwaysFollows`: while the handlers follow one another, a request is open exactly when it
has no allocation and fulfilled exactly when every role has the people demanded, however many
lines and people there are. The invariant, `SerialInv`, says that at most one handler is
between its steps, that the copy it holds is the request as it stands, and that every request is
`Settled`: its status is what `lib/manpower.ts` computes of its lines and allocations. The
counting is in `FilledByRole`: the demand for a role is that of its one line, because no role is
on two (`LinesAssumption`; section 5 has what happens otherwise), and nothing is filled by nobody.

### The desk, the figures, the kiosk and the races

`ManagementRemains` and `AuthorityIsNeverExceeded`, for any accounts, sites and browsers: the
invariant is only the type and that an active management account is left; a session's account
is active and what it may assign never exceeds its own role, which the role matrix, expanded
role by role, shows. `CopiesFollowNames` and `RosterKeepsItsTitles` share one invariant
(`TitlesInv`): names of standing designations differ, copies follow, whoever is on the books
and was not restored has a standing one. `FenceHolds`: what the server logs at a fenced site
was located there, with any number of checks and scans in flight and whatever the page shows;
the page is not part of the argument. `EverybodyIsHoused` and `ScriptsKeepShifts` are about
the seed, the import and the migrations in any order and number.

`ReportsAccountForDays` is about *any* database whose records are of its employees and sites
(`Snapshot`), any user and any filter, not only the enumerated ones: an employee and a day are
in one row at most, a record in the report of the branch it was written in, an absence in that
of the site's branch, and nobody is missing. `ReportsOfTheRunAddUp` applies it to the run.
`TrianglesAreFences` is about every triangle and point of the plane with whole coordinates:
the three areas of a point with two corners add up to the triangle's and, weighed with the
heights of the corners, to zero (`AreasOfTriangle`); which edges the ray crosses is told by
the signs of both (`CrossesByTurn`); so the number of crossings is odd exactly inside
(`OddInside`). `FencesOfTheRunHold` is the same of `CheckGeofence` on a grid of any size.

`MatchesAreClear` is about any number of faces at any distances. The code goes through them once
and keeps the two nearest; the invariant of that loop, `Nearest`, holds of the first `k` faces
for every `k` (`SeenAreNearest`), and the two nearest of all decide whether the match is clear.
`MatchesOfTheRunAreClear` is the same of the run.

`PayrollAddsUp` is about a calendar of any length whose closed days are `Reckoned`, as a scan
leaves them (`DaysAreReckoned`): the weeks part the days (`WeeksPartition`, from the remainder by
seven), each run pays the days of its week, and what is added up part by part is the sum. Arrears
are paid for exactly the weeks in which the worker has a record that is not voided or rejected
(`ArrearsDue`).
`PayrollOfTheRunAddsUp` is the same of the run.

`FiguresAreOfOneSource` and `NothingGetsLost` are about *any* database with finitely many records,
all of its employees and sites (`Ledger`), in states the code gives them (`Books`), and any user.
A figure that one screen counts at once and another site by site, day by day or tab by tab is
one set in parts, which share nothing because a record has one site, one date and one status;
`CountsAddUp` and `SumsAddUp` do the rest. The overtime report is by name, so a line of it is
compared with all sites of the name together. `FiguresOfTheRunAgree` and
`PagesOfTheRunAccountForAll` are the same of the enumerated databases.

Induction over data. The library's induction theorems take an operator as a parameter, which the
provers cannot instantiate, but sums and folds are needed above. `FoldProofs` argues by a least
counterexample instead: a set of numbers that is not empty has a smallest (`LeastNumber`), a
family of finite sets one with the fewest elements (`SmallestSet`). A fold is the function the
community module chooses (`FoldExists` shows that there is one), so that `SumFunctionOnSet` does
not depend on the order it picks elements in (`SumWithout`), and adds up in parts (`SumOfParts`).

`EveryScanIsTapped` is about a detector of any sensitivity (`TapInv`: what is selected has not
been spent while a scan may start). `RecordStaysWhole` is about any number of racing requests:
whatever scan, submission, fix, sweep or crash comes next, a whole record stays whole, unless the
step is the save of a typed OUT from a copy whose version has moved (section 5). A close writes
the OUT with the punch it ends, by its position in the copy, and is refused by the version if a
re-open has pushed another; a typed OUT does the same without being refused. `RacesInv` says that
the copy a request holds is a record with a punch, and what it has in common with the record.

### Assumptions

Beside `TimeAssumption`, `NullAssumption` and `AttendanceAssumption` of the core:
`OfficeAssumption` (finitely many requests and sites, the register has a size, the values that
records are made of are not `Null`),
`ManpowerAssumption` (finitely many people and requests, an employee is no outsource employee, a
line has a role and a quantity), `LinesAssumption` (no role on two lines), `AccessAssumption`,
`DesignationsAssumption`, `FaceAssumption` (thresholds are numbers), `FiguresAssumption` (sizes
are numbers, the calendar has the two weeks that arrears are saved for, no position is
"no fix"), and that the values that stand for "nothing" are no others' names. TLC evaluates
every one of them on the run that has the module.

### Only model-checked

- Liveness (`ForgottenOutIsNoticed`, `ForgottenSubmitIsNoticed`, `KioskComesBack`,
  `DueWorkIsSwept`): the prover handles neither fairness nor `ENABLED`.
  Every other property of a passing run is stated by a theorem, for every value of the
  constants that the assumptions allow.

## 5. Where the code disagrees with its documents, or with itself

Five runs are expected to be violated; each quotes a statement of the code's comments or
documents and TLC shows a sequence of ordinary calls that breaks it (`findings`):

- `StaleApproval.cfg`: overtime is approved, HR corrects the day down, the day is approved
  again, and payroll pays the old `approvedHours`.
- `Reforgotten.cfg`: a record flagged once is never flagged again. (The flag-resolution
  design lists re-opening a resolved flag as deferred; the README promises it.)
- `LockedButton.cfg`: after a scan the Scan button of a fenced site stays locked although the
  position was confirmed.
- `StuckDay.cfg`: after the first worker by name of a submitted day is rejected, the page of
  the day offers no button for the others.
- `LingeringFlag.cfg`: a sweep raises a flag for a record that an OUT closed after the sweep's
  query, and nothing resolves it.

More was met while modelling. The models have these behaviours; where a property would have
been broken by one of them, it is stated for the part that holds.

Records and flags:
- Clearing the approved-hours input approves 0 hours, not all (`routes/overtime.ts:96-98`).
- A day approved while a record was open stays approved when its OUT is filled from the flags
  queue (`routes/flags.ts:84`).
- A second OUT tap closes yesterday's forgotten record, because the open session is looked for
  before the debounce (`lib/attendance.ts:118`).
- A re-open that races a submit leaves a submitted record with cleared hours
  (`lib/attendance.ts:177-180`); two re-opens at once leave two open punches; a re-open between
  the count and the update of `lib/flagResolve.ts:29-31` leaves an unsubmitted day without its
  flag; a crash between the save of an OUT and the resolution leaves the flag.
- HR correcting an In time while an OUT is being saved leaves hours reckoned from the old In
  (`routes/regularization.ts:213`; not in a model, see section 6).
- A typed OUT saved from a copy read before another OUT and a re-open (`routes/flags.ts:88`,
  `routes/attendance.ts:273`) leaves an OUT on a record whose last punch is open.
  `OnlyStaleFillsBreak` names this save and shows that it is the only one.
- HR may type an In for later in the day than an OUT that is then scanned
  (`routes/regularization.ts:207`, `lib/attendance.ts:200-202`): the hours are clamped to 0.
  `TypedOutFollowsIn` is about typed OUTs.
- A voided record that is scanned again stays voided and is never paid
  (`routes/regularization.ts:230`).

Office:
- The detaching cascade of a closing site keeps the old primary's name on the employee
  (`routes/org.ts:47`), while a rename writes it by primary site (`:456`); the run states the
  agreement for sites that are not closed.
- A deletion by hand is saved before it is put on the register (`routes/workers.ts:612`),
  although the register is where every deletion can be undone (`routes/deletionlog.ts:17`): a
  crash in between hides the employee.
- With three requests a deleted employee can drop off the register (`routes/org.ts:55`,
  `routes/deletionlog.ts:63`): a cascade has logged him and not yet saved him, a second request
  deletes and logs him too, and two undos of the two entries both find him deleted, bring him
  back and mark both entries undone around the cascade's save. The run has two requests.
- Enrolment accepts the site of a form opened before the site closed (`routes/workers.ts:366`),
  although the form offers active sites only (`:48`).
- An edit saves the status it chose over an employee archived since the edit read him
  (`routes/workers.ts:543`), although an archived one must be restored before it is edited
  (`:489`); the run states `OnRosterHasNotLeft` for one request at a time there.
- Undoing the deletion of a site whose branch was deleted brings it back into no branch
  (`routes/deletionlog.ts:72`, `routes/org.ts:207`).
- Recommending a request that was decided meanwhile puts it back to recommended
  (`routes/requests.ts:164`, `:184`, `:185`); a crash after the decision is saved loses the
  offload (`:193`, `:195`); approving the offload of an archived employee sets him
  inactive, which is on the roster (`:198`, `models/Worker.ts:3-5`).
- Manpower: two allocations at once each compute the status from a copy
  (`routes/manpower.ts:246`); a role demanded on two lines counts the same people twice
  (`lib/manpower.ts:19`).
- A rename of a designation races with an enrolment or a scan that has read the old name; a
  restored employee may hold a deleted designation; nothing ever sets the status "pending".
- Un-ticking every capability of an account gives back the role's defaults; two managers may
  deactivate each other in racing requests; a manager can untick his own `manage_users`; closing
  a site can leave a project manager with none.

Browser and process:
- Kiosk: a tapped action stays picked when the tapper walks off; a failed face-model load is
  remembered by the server as a rejected promise (`lib/face.ts:35`); a regenerated
  key does not end the station's sessions; a station whose site is missing is sent between login
  and capture.
- Log Attendance: an answer to the check of another site unlocks the button; the last position
  is used for every later scan; action and site are read after the position came. The server's
  fence is what holds (`RecordedInsideFence`).
- A server process booted without MongoDB never sweeps until it is restarted.

Figures:
- A site that moves to another branch takes its name to its old records but not its branch
  (`routes/org.ts:433`, `:458-462`): the report of a branch shows the records written while the
  site was in it (`lib/report.ts:38`), and the absences of the sites that are in it now
  (`lib/absence.ts:103-111`).
- Sites of one name share a line of the overtime report (`routes/reports.ts:273`); only a site's
  code is unique (`models/ProjectSite.ts:46-47`).
- Arrears saved for a range in which the worker has no record, or only voided and rejected ones,
  are never paid: the run has no row for him (`lib/payroll.ts:46-66`, `:84-99`).
- The overtime report and the dashboard count voided records; recommended overtime is neither
  in the overtime report nor in the dashboard's pending figure; the employee report's `active`
  count ignores the status filter (`routes/reports.ts:190`).
- A site's page reads at most 50 overtime rows and 8 flags and sums what it read.
- The daily grid hides the records of employees who moved away; the submit page offers active
  sites only; who may be added on the page of a day may already have a record at another site.
- Arrears are keyed by the exact range: those of "this month" vanish the next day, and the
  dashboard's week leaves out what was saved for Monday to Sunday.
- The portal's location check tests the radius of the nearest site only, and ignores sites
  with a polygon only (`routes/me.ts`).

Scripts:
- `migrate_archive_levels.ts` calls itself idempotent (`:7`), yet a second run archives who was
  deleted since (`:21`). The import recreates sites under new ids while the users keep the old
  ones; `migrate_roles.ts` promotes to a role the schema no longer has; the seed writes the names
  of renamed sites again; `clean_demo.ts` leaves the demo logins.

## 6. What is not modelled, and why

- `wrong_site_scan` flags (raised by a refused scan, resolved by a person only) and the
  `verify` handler (audit fields no handler reads).
- HR's corrections split at their awaits. `ScanRaces` splits scans, submissions, fixes and
  sweeps; a correction changes times, and times are what that module leaves out.
- A scan does not look at the status of its site (`routes/attendance.ts:152`), stations are
  enabled again when a site is restored (`routes/org.ts:506`), and a deallocation leaves the
  employee his site (`routes/manpower.ts:250`): the models do the same, and no document says
  otherwise.
- Exports, charts, views and wording; search, sorting and the larger row caps (20000, 5000,
  2000, 500, 300).
- The face network and the haversine: floating point. `Sensing` starts from distances.
- Passwords, CSRF tokens and rate limits (a limited scan is one of the kiosk's refusals); the
  enrolment page; the Express wiring and the configuration, whose numbers are CONSTANTS.
- A crash inside a script, the migrations of geometry and indexes, the e2e suites, the vendored
  libraries and the prototype.

## 7. Plan

Done: the core with its proofs; the races on a record; the scheduler with restarts; the
organisation, employees, requests and manpower; payroll, reports and pages; geofence, face,
kiosk and Log Attendance; accounts, designations and scripts.

Proved since: the desk, the requests and the closings of the office, the manpower, the kiosk's
taps and the races on a record; and what sums or goes through data: the status of a manpower
request, the match, the payroll, the figures, the pages and the copied site names.

The whole office at last: the type over all its handlers, the deletions on the register, and
closings as an implementation of `SiteClosing`.

Left: HR's corrections in `ScanRaces`, with In times; an abstract register in which what is
deleted can be undone, with deletions, cascades and undos shown to implement it. Section 5
lists what would have to change in the code before more could be stated: a deletion that is
registered before it is saved, an undo that asks whether the entry still stands.
