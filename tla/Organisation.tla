---------------------------- MODULE Organisation ----------------------------
(***************************************************************************)
(* Branches, project sites, the employees assigned to them, their kiosk    *)
(* stations and the deletion register (routes/org.ts, routes/stations.ts,  *)
(* routes/deletionlog.ts).                                                 *)
(*                                                                         *)
(* A handler is a request that reads, awaits and writes: every step below  *)
(* is what one request does between two awaits, and the requests in flight *)
(* interleave.  A document saved by Mongoose writes only the fields that   *)
(* differ from the copy read; replacing an array also requires that the    *)
(* document's version has not moved since the read, and every remark       *)
(* pushed moves it.  stale[r] holds the employees whose version has moved  *)
(* since request r read them.                                              *)
(***************************************************************************)
EXTENDS Naturals, SequencesExt

CONSTANTS
    Null,
    Branches, Sites, Workers, Stations, Users,
    Requests,     \* requests that may be in flight at once
    Names,        \* names a site can be given
    MaxEntries    \* bound: entries of the deletion register

Roster == {"pending", "active", "inactive"}
Gone   == {"archived", "deleted"}

VARIABLES
    branch,    \* "unborn", "open" or "gone"
    site,      \* Null, or [status, branch, name]
    worker,    \* Null, or [status, siteIds, siteName, left]; left: deletedAt is set
    station,   \* Null, or [site, active]
    scope,     \* the sites each Project Manager or Supervisor is assigned
    log,       \* the deletion register: a sequence of [kind, id, undone]
    req,       \* the requests in flight
    stale

vars == <<branch, site, worker, station, scope, log, req, stale>>

Idle == [op |-> "idle"]
Entry(kind, id) == [kind |-> kind, id |-> id, undone |-> FALSE]
NewSite(b, n) == [status |-> "active", branch |-> b, name |-> n]
NewStation(s) == [site |-> s, active |-> TRUE]
NewWorker(status, ids, n) == [status |-> status, siteIds |-> ids, siteName |-> n, left |-> FALSE]

SiteIs(s, status) == site[s] # Null /\ site[s].status = status
OnRoster(w) == worker[w] # Null /\ worker[w].status \in Roster
At(w, s) == worker[w] # Null /\ \E i \in DOMAIN worker[w].siteIds : worker[w].siteIds[i] = s

\* The primary site: the pre-validate hook keeps siteId equal to the first of siteIds.
SiteId(w) == worker[w].siteIds[1]

CopiesOf(r) ==
    CASE req[r].op = "close" -> DOMAIN req[r].todo
      [] req[r].op = "edit"  -> {req[r].worker}
      [] OTHER -> {}

\* The office as the handlers leave it: some branches, sites at them, active employees
\* at some of the sites, Project Managers assigned to some.
Opened(branches, sites, enrolled, names, assigned) ==
    /\ branch = [b \in Branches |-> IF b \in branches THEN "open" ELSE "unborn"]
    /\ \E at \in [sites -> branches], name \in [sites -> names] :
          site = [s \in Sites |-> IF s \in sites THEN NewSite(at[s], name[s]) ELSE Null]
    /\ \E ids \in [enrolled -> SetToSeqs(sites) \union {<<s>> : s \in sites}] :
          worker = [w \in Workers |-> IF w \in enrolled
                                      THEN NewWorker("active", ids[w], site[ids[w][1]].name)
                                      ELSE Null]
    /\ station = [t \in Stations |-> Null]
    /\ scope = [u \in Users |-> assigned]
    /\ log = << >>
    /\ req = [r \in Requests |-> Idle]
    /\ stale = [r \in Requests |-> {}]

Start(r, request) == req[r] = Idle /\ req' = [req EXCEPT ![r] = request]
Continue(r, request) == req' = [req EXCEPT ![r] = request]
Finish(r) == req' = [req EXCEPT ![r] = Idle] /\ stale' = [stale EXCEPT ![r] = {}]

\* w's version moves: the copies other requests hold are stale.  r has finished with its own.
Moved(r, w) ==
    stale' = [q \in Requests |-> IF q = r THEN stale[r] \ {w}
                                 ELSE IF w \in CopiesOf(q) THEN stale[q] \union {w}
                                 ELSE stale[q]]

Append1(e) == Len(log) < MaxEntries /\ log' = Append(log, e)

-----------------------------------------------------------------------------
(* Branches and sites *)

CreateBranch(b) ==
    /\ branch[b] = "unborn"
    /\ branch' = [branch EXCEPT ![b] = "open"]
    /\ UNCHANGED <<site, worker, station, scope, log, req, stale>>

\* Blocked while the branch still has sites: counted first, deleted after.
DeleteBranchCount(r, b) ==
    /\ \A s \in Sites : site[s] # Null /\ site[s].branch = b => site[s].status = "deleted"
    /\ Start(r, [op |-> "deleteBranch", branch |-> b])
    /\ UNCHANGED <<branch, site, worker, station, scope, log, stale>>

DeleteBranch(r) ==
    /\ req[r].op = "deleteBranch"
    /\ branch' = [branch EXCEPT ![req[r].branch] = "gone"]
    /\ Finish(r)
    /\ UNCHANGED <<site, worker, station, scope, log>>

CreateSiteRead(r, s, b, n) ==
    /\ site[s] = Null
    /\ branch[b] = "open"
    /\ Start(r, [op |-> "createSite", site |-> s, branch |-> b, name |-> n])
    /\ UNCHANGED <<branch, site, worker, station, scope, log, stale>>

CreateSite(r) ==
    /\ req[r].op = "createSite"
    /\ site' = IF site[req[r].site] = Null
               THEN [site EXCEPT ![req[r].site] = NewSite(req[r].branch, req[r].name)]
               ELSE site
    /\ Finish(r)
    /\ UNCHANGED <<branch, worker, station, scope, log>>

\* The edit form offers the branches that existed when it was opened; neither the
\* branch nor the site's status is looked at again.
EditSiteRead(r, s, b, n) ==
    /\ site[s] # Null
    /\ branch[b] # "unborn"
    /\ Start(r, [op |-> "editSite", site |-> s, branch |-> b, name |-> n,
                 before |-> site[s].name, saved |-> FALSE])
    /\ UNCHANGED <<branch, site, worker, station, scope, log, stale>>

EditSite(r) ==
    LET q == req[r] IN
    /\ q.op = "editSite" /\ ~q.saved
    /\ site' = [site EXCEPT ![q.site].branch = q.branch, ![q.site].name = q.name]
    /\ IF q.before = q.name
       THEN Finish(r)
       ELSE Continue(r, [q EXCEPT !.saved = TRUE]) /\ UNCHANGED stale
    /\ UNCHANGED <<branch, worker, station, scope, log>>

\* Faulty variant: only the employees on the roster are renamed along.
RenameOnRoster(r) ==
    LET q == req[r] IN
    /\ q.op = "editSite" /\ q.saved
    /\ worker' = [w \in Workers |-> IF OnRoster(w) /\ SiteId(w) = q.site
                                    THEN [worker[w] EXCEPT !.siteName = q.name]
                                    ELSE worker[w]]
    /\ Finish(r)
    /\ UNCHANGED <<branch, site, station, scope, log>>

\* The copied name follows on every employee whose primary site this is.
RenameOnWorkers(r) ==
    LET q == req[r] IN
    /\ q.op = "editSite" /\ q.saved
    /\ worker' = [w \in Workers |-> IF worker[w] # Null /\ SiteId(w) = q.site
                                    THEN [worker[w] EXCEPT !.siteName = q.name]
                                    ELSE worker[w]]
    /\ Finish(r)
    /\ UNCHANGED <<branch, site, station, scope, log>>

-----------------------------------------------------------------------------
(* Closing a site: sign-off, archive, delete *)

\* to is the status the site will get, fate what happens to its sole-site employees.
\* Sign-off requires an active site; the delete page's archive takes any not deleted.
CloseSiteRead(r, s, to, fate) ==
    /\ SiteIs(s, "active") \/ SiteIs(s, "archived")
    /\ Start(r, [op |-> "close", phase |-> "read", site |-> s, to |-> to,
                 fate |-> IF to = "archived" THEN "archived" ELSE fate,
                 seen |-> site[s].status, todo |-> << >>, others |-> Null,
                 logged |-> Null, left |-> {"workers", "sites"}])
    /\ UNCHANGED <<branch, site, worker, station, scope, log, stale>>

\* cascadeSiteWorkers reads the employees and the other active sites side by side.
CascadeFindWorkers(r) ==
    LET q == req[r]
        here == {w \in Workers : OnRoster(w) /\ At(w, q.site)} IN
    /\ q.op = "close" /\ q.phase = "read" /\ "workers" \in q.left
    /\ Continue(r, [q EXCEPT !.todo = [w \in here |-> worker[w].siteIds],
                             !.left = @ \ {"workers"}])
    /\ UNCHANGED <<branch, site, worker, station, scope, log, stale>>

CascadeFindSites(r) ==
    LET q == req[r] IN
    /\ q.op = "close" /\ q.phase = "read" /\ "sites" \in q.left
    /\ Continue(r, [q EXCEPT !.others = {s \in Sites \ {q.site} : SiteIs(s, "active")},
                             !.left = @ \ {"sites"}])
    /\ UNCHANGED <<branch, site, worker, station, scope, log, stale>>

Cascading(r) == req[r].op = "close" /\ req[r].phase = "read" /\ req[r].left = {}

\* An employee's list names a site once: the filter takes out one.
Without(ids, s) == RemoveFirst(ids, s)

\* Faulty variant: only the primary site is looked at.
PrimaryElsewhere(q, w) == q.todo[w][1] \in q.others

StaysElsewhere(q, w) == \E i \in DOMAIN q.todo[w] : q.todo[w][i] \in q.others
Done(q, w) == [q EXCEPT !.todo = [x \in DOMAIN q.todo \ {w} |-> q.todo[x]], !.logged = Null]

\* One employee after the other: who is on the register is saved before the next is
\* looked at.  An employee of another active site loses this one.  Replacing the array is
\* a versioned save: on a stale copy it throws, and the request ends there.
\* Faulty variant: a save that never looks at the version.
Unversioned(r, w) == TRUE

Versioned(r, w) == w \notin stale[r]

CascadeDetach(r, w) ==
    LET q == req[r] IN
    /\ Cascading(r) /\ q.logged = Null /\ w \in DOMAIN q.todo /\ StaysElsewhere(q, w)
    /\ IF Versioned(r, w)
       THEN /\ worker' = [worker EXCEPT ![w].siteIds = Without(q.todo[w], q.site)]
            /\ Moved(r, w)
            /\ Continue(r, Done(q, w))
       ELSE UNCHANGED worker /\ Finish(r)
    /\ UNCHANGED <<branch, site, station, scope, log>>

\* A sole-site employee follows the site; a deletion is put on the register first.
CascadeLog(r, w) ==
    LET q == req[r] IN
    /\ Cascading(r) /\ w \in DOMAIN q.todo /\ ~StaysElsewhere(q, w)
    /\ q.fate = "deleted" /\ q.logged = Null
    /\ Append1(Entry("worker", w))
    /\ Continue(r, [q EXCEPT !.logged = w])
    /\ UNCHANGED <<branch, site, worker, station, scope, stale>>

\* Faulty variant: the employee is saved whether or not the register was written.
CascadeLeaveUnlogged(r, w) ==
    LET q == req[r] IN
    /\ Cascading(r) /\ w \in DOMAIN q.todo /\ ~StaysElsewhere(q, w)
    /\ worker' = [worker EXCEPT ![w].status = q.fate, ![w].left = TRUE]
    /\ Moved(r, w)
    /\ Continue(r, Done(q, w))
    /\ UNCHANGED <<branch, site, station, scope, log>>

CascadeLeave(r, w) ==
    LET q == req[r] IN
    /\ Cascading(r) /\ w \in DOMAIN q.todo /\ ~StaysElsewhere(q, w)
    /\ q.fate = "deleted" => q.logged = w
    /\ worker' = [worker EXCEPT ![w].status = q.fate, ![w].left = TRUE]
    /\ Moved(r, w)
    /\ Continue(r, Done(q, w))
    /\ UNCHANGED <<branch, site, station, scope, log>>

\* Only then the site itself; a status equal to the one read is not written.
CloseSite(r) ==
    LET q == req[r] IN
    /\ Cascading(r) /\ DOMAIN q.todo = {}
    /\ site' = IF q.to = q.seen THEN site ELSE [site EXCEPT ![q.site].status = q.to]
    /\ Continue(r, [q EXCEPT !.phase = "after",
                             !.left = IF q.to = "deleted" THEN {"stations", "scopes", "log"}
                                                          ELSE {"stations"}])
    /\ UNCHANGED <<branch, worker, station, scope, log, stale>>

\* What follows the site's save: the three writes of a deletion run side by side.
AfterClose(r, what) ==
    LET q == req[r] IN
    /\ q.op = "close" /\ q.phase = "after" /\ what \in q.left
    /\ station' = IF what = "stations"
                  THEN [t \in Stations |-> IF station[t] # Null /\ station[t].site = q.site
                                           THEN [station[t] EXCEPT !.active = FALSE]
                                           ELSE station[t]]
                  ELSE station
    /\ scope' = IF what = "scopes" THEN [u \in Users |-> scope[u] \ {q.site}] ELSE scope
    /\ IF what = "log" THEN Append1(Entry("site", q.site)) ELSE UNCHANGED log
    /\ IF q.left = {what}
       THEN Finish(r)
       ELSE Continue(r, [q EXCEPT !.left = @ \ {what}]) /\ UNCHANGED stale
    /\ UNCHANGED <<branch, site, worker>>

RestoreSiteRead(r, s) ==
    /\ SiteIs(s, "archived")
    /\ Start(r, [op |-> "restoreSite", site |-> s, saved |-> FALSE])
    /\ UNCHANGED <<branch, site, worker, station, scope, log, stale>>

RestoreSite(r) ==
    LET q == req[r] IN
    /\ q.op = "restoreSite" /\ ~q.saved
    /\ site' = [site EXCEPT ![q.site].status = "active"]
    /\ Continue(r, [q EXCEPT !.saved = TRUE])
    /\ UNCHANGED <<branch, worker, station, scope, log, stale>>

RestoreStations(r) ==
    LET q == req[r] IN
    /\ q.op = "restoreSite" /\ q.saved
    /\ station' = [t \in Stations |-> IF station[t] # Null /\ station[t].site = q.site
                                      THEN [station[t] EXCEPT !.active = TRUE]
                                      ELSE station[t]]
    /\ Finish(r)
    /\ UNCHANGED <<branch, site, worker, scope, log>>

-----------------------------------------------------------------------------
(* Undoing a deletion *)

UndoReadEntry(r, e) ==
    /\ e \in DOMAIN log /\ ~log[e].undone
    /\ Start(r, [op |-> "undo", entry |-> e, phase |-> "entry"])
    /\ UNCHANGED <<branch, site, worker, station, scope, log, stale>>

IsDeleted(entry) ==
    IF entry.kind = "worker" THEN worker[entry.id].status = "deleted"
                             ELSE SiteIs(entry.id, "deleted")

UndoReadRecord(r) ==
    LET q == req[r] IN
    /\ q.op = "undo" /\ q.phase = "entry"
    /\ IF IsDeleted(log[q.entry])
       THEN Continue(r, [q EXCEPT !.phase = "record"]) /\ UNCHANGED stale
       ELSE Finish(r)
    /\ UNCHANGED <<branch, site, worker, station, scope, log>>

UndoSaveRecord(r) ==
    LET q == req[r]
        entry == log[q.entry] IN
    /\ q.op = "undo" /\ q.phase = "record"
    /\ IF entry.kind = "worker"
       THEN /\ worker' = [worker EXCEPT ![entry.id].status = "archived"]
            /\ Moved(r, entry.id)
            /\ UNCHANGED site
       ELSE site' = [site EXCEPT ![entry.id].status = "archived"] /\ UNCHANGED <<worker, stale>>
    /\ Continue(r, [q EXCEPT !.phase = "saved"])
    /\ UNCHANGED <<branch, station, scope, log>>

UndoSaveEntry(r) ==
    /\ req[r].op = "undo" /\ req[r].phase = "saved"
    /\ log' = [log EXCEPT ![req[r].entry].undone = TRUE]
    /\ Finish(r)
    /\ UNCHANGED <<branch, site, worker, station, scope>>

-----------------------------------------------------------------------------
(* Stations *)

RegisterStationRead(r, t, s) ==
    /\ station[t] = Null /\ SiteIs(s, "active")
    /\ Start(r, [op |-> "station", station |-> t, site |-> s])
    /\ UNCHANGED <<branch, site, worker, station, scope, log, stale>>

RegisterStation(r) ==
    LET q == req[r] IN
    /\ q.op = "station"
    /\ station' = IF station[q.station] = Null
                  THEN [station EXCEPT ![q.station] = NewStation(q.site)]
                  ELSE station
    /\ Finish(r)
    /\ UNCHANGED <<branch, site, worker, scope, log>>

ToggleStation(t) ==
    /\ station[t] # Null
    /\ station' = [station EXCEPT ![t].active = ~@]
    /\ UNCHANGED <<branch, site, worker, scope, log, req, stale>>

DeleteStation(t) ==
    /\ station[t] # Null
    /\ station' = [station EXCEPT ![t] = Null]
    /\ UNCHANGED <<branch, site, worker, scope, log, req, stale>>

-----------------------------------------------------------------------------
(* The process dies: every request in flight is lost, what was saved stays. *)

Crash ==
    /\ \E r \in Requests : req[r] # Idle
    /\ req' = [r \in Requests |-> Idle]
    /\ stale' = [r \in Requests |-> {}]
    /\ UNCHANGED <<branch, site, worker, station, scope, log>>

Quiet == \A r \in Requests : req[r] = Idle

Cascade(r) ==
    \/ CascadeFindWorkers(r) \/ CascadeFindSites(r)
    \/ \E w \in Workers : CascadeDetach(r, w) \/ CascadeLog(r, w) \/ CascadeLeave(r, w)
    \/ CloseSite(r)
    \/ \E what \in {"stations", "scopes", "log"} : AfterClose(r, what)

Undo(r) == UndoReadRecord(r) \/ UndoSaveRecord(r) \/ UndoSaveEntry(r)

=============================================================================
