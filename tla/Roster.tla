------------------------------- MODULE Roster -------------------------------
(***************************************************************************)
(* The life of an employee (routes/workers.ts) beside the organisation     *)
(* that moves and retires employees on its own: enrolment, edit, the bulk  *)
(* actions, archive, delete and restore.                                   *)
(***************************************************************************)
EXTENDS Organisation

CONSTANT TopUser    \* Management or HR: sees every site

Actors == Users \union {TopUser}

CanUseSite(u, s) == IF u = TopUser THEN TRUE ELSE s \in scope[u]
CanUseWorker(u, w) == worker[w] # Null /\ \E s \in Sites : At(w, s) /\ CanUseSite(u, s)

\* What a form can name: one site or several, each once; the first is the primary.
Picks == SetToAllKPermutations(Sites) \ {<< >>}

\* The sites a form offers are the active ones when it is opened; the handlers only
\* ask that the chosen sites exist.
EnrolRead(r, u, w, ids) ==
    /\ worker[w] = Null
    /\ \A s \in ToSet(ids) : CanUseSite(u, s) /\ site[s] # Null
    /\ Start(r, [op |-> "enrol", worker |-> w, ids |-> ids, name |-> site[ids[1]].name])
    /\ UNCHANGED <<branch, site, worker, station, scope, log, stale>>

\* The face is encoded between the checks and the insert; the unique Employee ID
\* refuses the second of two enrolments.
Enrol(r) ==
    LET q == req[r] IN
    /\ q.op = "enrol"
    /\ worker' = IF worker[q.worker] = Null
                 THEN [worker EXCEPT ![q.worker] = NewWorker("active", q.ids, q.name)]
                 ELSE worker
    /\ Finish(r)
    /\ UNCHANGED <<branch, site, station, scope, log>>

\* Faulty variant: every site stays, the picked ones twice.
RetainedAll(u, w, picked) == worker[w].siteIds

\* Sites outside the editor's scope stay on the employee, after the ones picked.
Retained(u, w, picked) ==
    LET keep(kept, s) == IF CanUseSite(u, s) \/ s \in ToSet(picked) THEN kept ELSE Append(kept, s)
    IN  FoldLeft(keep, << >>, worker[w].siteIds)

EditRead(r, u, w, picked, status) ==
    LET ids == picked \o Retained(u, w, picked) IN
    /\ CanUseWorker(u, w) /\ worker[w].status \notin Gone
    /\ \A s \in ToSet(picked) : CanUseSite(u, s)
    /\ \A s \in ToSet(ids) : site[s] # Null
    /\ Start(r, [op |-> "edit", worker |-> w, copy |-> worker[w], remark |-> FALSE,
                 to |-> [worker[w] EXCEPT !.status = status, !.siteIds = ids,
                                          !.siteName = site[ids[1]].name]])
    /\ UNCHANGED <<branch, site, worker, station, scope, log, stale>>

\* What a save writes over the stored document: the fields the copy changed.
Written(stored, copy, to) ==
    [f \in DOMAIN stored |-> IF to[f] # copy[f] THEN to[f] ELSE stored[f]]

\* A changed list of sites is a versioned save; only the bulk move pushes a remark.
EditSave(r) ==
    LET q == req[r]
        w == q.worker
        resited == q.to.siteIds # q.copy.siteIds IN
    /\ q.op = "edit"
    /\ IF resited /\ ~Versioned(r, w)
       THEN UNCHANGED worker /\ Finish(r)
       ELSE /\ worker' = [worker EXCEPT ![w] = Written(@, q.copy, q.to)]
            /\ Continue(r, Idle)
            /\ IF resited \/ q.remark THEN Moved(r, w) ELSE stale' = [stale EXCEPT ![r] = {}]
    /\ UNCHANGED <<branch, site, station, scope, log>>

\* The bulk actions re-read their selection, one save per employee.
BulkStatusRead(r, u, w, status) ==
    /\ CanUseWorker(u, w) /\ worker[w].status \notin Gone
    /\ Start(r, [op |-> "edit", worker |-> w, copy |-> worker[w], remark |-> FALSE,
                 to |-> [worker[w] EXCEPT !.status = status]])
    /\ UNCHANGED <<branch, site, worker, station, scope, log, stale>>

\* Moving in bulk looks at the target's status, and then reads the employees.
BulkMoveSite(r, u, s) ==
    /\ CanUseSite(u, s) /\ SiteIs(s, "active")
    /\ Start(r, [op |-> "moveTo", actor |-> u, site |-> s, name |-> site[s].name])
    /\ UNCHANGED <<branch, site, worker, station, scope, log, stale>>

BulkMoveRead(r, w) ==
    LET q == req[r]
        ids == <<q.site>> \o Retained(q.actor, w, <<q.site>>) IN
    /\ q.op = "moveTo"
    /\ CanUseWorker(q.actor, w) /\ worker[w].status \notin Gone
    /\ Continue(r, [op |-> "edit", worker |-> w, copy |-> worker[w], remark |-> TRUE,
                    to |-> [worker[w] EXCEPT !.siteIds = ids, !.siteName = q.name]])
    /\ UNCHANGED <<branch, site, worker, station, scope, log, stale>>

\* Archive and delete, one employee or many: the employee is saved, then the
\* deletion is put on the register.
LeaveRead(r, u, w, to) ==
    /\ CanUseWorker(u, w) /\ worker[w].status # "deleted"
    /\ Start(r, [op |-> "leave", worker |-> w, copy |-> worker[w], to |-> to, saved |-> FALSE])
    /\ UNCHANGED <<branch, site, worker, station, scope, log, stale>>

LeaveSave(r) ==
    LET q == req[r]
        to == [q.copy EXCEPT !.status = q.to] IN
    /\ q.op = "leave" /\ ~q.saved
    /\ worker' = [worker EXCEPT ![q.worker] = [Written(@, q.copy, to) EXCEPT !.left = TRUE]]
    /\ Moved(r, q.worker)
    /\ Continue(r, IF q.to = "deleted" THEN [q EXCEPT !.saved = TRUE] ELSE Idle)
    /\ UNCHANGED <<branch, site, station, scope, log>>

\* Faulty variant: a deletion that finds an open entry of the employee adds none.
LeaveLogOnce(r) ==
    /\ req[r].op = "leave" /\ req[r].saved
    /\ IF \E e \in DOMAIN log : log[e] = Entry("worker", req[r].worker)
       THEN UNCHANGED log
       ELSE Append1(Entry("worker", req[r].worker))
    /\ Finish(r)
    /\ UNCHANGED <<branch, site, worker, station, scope>>

LeaveLog(r) ==
    /\ req[r].op = "leave" /\ req[r].saved
    /\ Append1(Entry("worker", req[r].worker))
    /\ Finish(r)
    /\ UNCHANGED <<branch, site, worker, station, scope>>

\* Back to active, whatever became of the employee's sites.
RestoreRead(r, u, w) ==
    /\ CanUseWorker(u, w) /\ worker[w].status = "archived"
    /\ Start(r, [op |-> "restore", worker |-> w])
    /\ UNCHANGED <<branch, site, worker, station, scope, log, stale>>

\* Faulty variant: the leaving date stays.
RestoreKeepingDate(r) ==
    LET w == req[r].worker IN
    /\ req[r].op = "restore"
    /\ worker' = [worker EXCEPT ![w].status = "active"]
    /\ Moved(r, w)
    /\ Continue(r, Idle)
    /\ UNCHANGED <<branch, site, station, scope, log>>

Restore(r) ==
    LET w == req[r].worker IN
    /\ req[r].op = "restore"
    /\ worker' = [worker EXCEPT ![w].status = "active", ![w].left = FALSE]
    /\ Moved(r, w)
    /\ Continue(r, Idle)
    /\ UNCHANGED <<branch, site, station, scope, log>>

\* A remark, its clearing by position, or a face: no field of the model, but the
\* document's version moves with every remark pushed.
AddRemark(u, w) ==
    /\ CanUseWorker(u, w)
    /\ stale' = [q \in Requests |-> IF w \in CopiesOf(q) THEN stale[q] \union {w} ELSE stale[q]]
    /\ UNCHANGED <<branch, site, worker, station, scope, log, req>>

=============================================================================
