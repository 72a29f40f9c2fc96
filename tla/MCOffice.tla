------------------------------ MODULE MCOffice ------------------------------
(* The organisation, the roster and the requests about employees: their
   correctness, and the scenarios of the runs.  A scenario is the set of handlers
   whose interleavings one question is about, and the office it starts from. *)
EXTENDS WorkerRequests, FiniteSetsExt, TLC

CONSTANTS
    DefaultName, FirstBranch,
    Scenarios   \* bound: which of the scenarios a run explores

ASSUME OfficeAssumption ==
    /\ IsFiniteSet(Sites) /\ IsFiniteSet(Requests)
    /\ MaxEntries \in Nat
    /\ DefaultName \in Names
    /\ FirstBranch \in Branches
    /\ Null \notin Workers
    /\ Null \notin [status : Roster \union Gone, siteIds : Seq(Sites), siteName : Names, left : BOOLEAN]
    /\ Null \notin [status : {"active"} \union Gone, branch : Branches, name : Names]
    /\ Null \notin [type : {"scheduled_ot", "offload"}, status : {"pending", "recommended"} \union Decided,
                   worker : Workers, site : Sites, recommended : BOOLEAN]

VARIABLE scenario

mcVars == <<allVars, scenario>>

Kinds == {"archived", "deleted"}

Request ==
    [op : {"idle"}]
    \union [op : {"deleteBranch"}, branch : Branches]
    \union [op : {"createSite"}, site : Sites, branch : Branches, name : Names]
    \union [op : {"editSite"}, site : Sites, branch : Branches, name : Names, before : Names,
            saved : BOOLEAN]
    \union [op : {"restoreSite"}, site : Sites, saved : BOOLEAN]
    \union [op : {"undo"}, entry : 1 .. MaxEntries, phase : {"entry", "record", "saved"}]
    \union [op : {"station"}, station : Stations, site : Sites]
    \union [op : {"enrol"}, worker : Workers, ids : Picks, name : Names]
    \union [op : {"moveTo"}, actor : Actors, site : Sites, name : Names]
    \union [op : {"restore"}, worker : Workers]
    \union [op : {"recommend"}, ask : Asks]
    \union [op : {"decide"}, ask : Asks, outcome : Decided, saved : BOOLEAN]

Employee == [status : Roster \union Gone, siteIds : Picks, siteName : Names, left : BOOLEAN]

\* Every record has the shape its schema gives it; a worker always has a site, each
\* site once.
TypeOK ==
    /\ branch \in [Branches -> {"unborn", "open", "gone"}]
    /\ \A s \in Sites : site[s] = Null \/
         site[s] \in [status : {"active"} \union Gone, branch : Branches, name : Names]
    /\ \A w \in Workers : worker[w] = Null \/ worker[w] \in Employee
    /\ \A t \in Stations : station[t] = Null \/ station[t] \in [site : Sites, active : BOOLEAN]
    /\ scope \in [Users -> SUBSET Sites]
    /\ \A e \in DOMAIN log : log[e] \in
         [kind : {"worker"}, id : Workers, undone : BOOLEAN] \union
         [kind : {"site"}, id : Sites, undone : BOOLEAN]
    /\ \A r \in Requests : req[r].op \in {"close", "edit", "leave"} \/ req[r] \in Request
    /\ stale \in [Requests -> SUBSET Workers]

\* Signing off, archiving or deleting a site takes its people along: none who is still
\* on the roster is assigned to a site that is closed, however two closings that share
\* an employee interleave and wherever the process dies (org.ts:472).
ClosedSiteHasNoRoster ==
    scenario = "closings" =>
        \A w \in Workers, s \in Sites :
            OnRoster(w) /\ At(w, s) => SiteIs(s, "active")

OnRegister(kind, id) == \E e \in DOMAIN log : log[e] = Entry(kind, id)

DeletedEmployeesAreOnRegister ==
    \A w \in Workers :
        worker[w] # Null /\ worker[w].status = "deleted" => OnRegister("worker", w)

\* Whatever is deleted can be undone from the register (deletionlog.ts:17): deletions by
\* hand, cascades and undos of the same record may interleave two at a time, and hold it
\* whenever no request is in flight.  A third breaks it: an employee logged by a cascade
\* and by hand, and both entries undone before the cascade saves him, stays deleted with
\* no entry.
DeletedIsOnRegister ==
    scenario = "deletions" /\ Quiet =>
        /\ DeletedEmployeesAreOnRegister
        /\ \A s \in Sites : SiteIs(s, "deleted") => OnRegister("site", s)

\* What is seen of the closings; in the other scenarios nothing is.
Seen(view) == IF scenario = "closings" THEN view ELSE {}

OpenSites        == Seen({s \in Sites : SiteIs(s, "active")})
Posts            == [w \in Workers |-> Seen({s \in Sites : OnRoster(w) /\ At(w, s)})]
DeletedPeople    == Seen({w \in Workers : worker[w] # Null /\ worker[w].status = "deleted"})
RegisteredPeople == Seen({w \in Workers : OnRegister("worker", w)})

Promise == INSTANCE SiteClosing WITH
    Site       <- Sites,
    Employee   <- Workers,
    open       <- OpenSites,
    posts      <- Posts,
    deleted    <- DeletedPeople,
    registered <- RegisteredPeople

\* Closings that run side by side keep what one of them promises: an employee of another
\* active site only loses this one, and none but a sole-site employee is sent to Archives
\* or deleted (org.ts:26-29), although each decides on lists it has read before.  The
\* register is written first (org.ts:55): whoever a cascade deletes is on it at every
\* moment, crashes included.
ClosingsKeepPromise == Promise!Spec

\* With no request in flight, the site name copied onto an employee is the name of the
\* employee's primary site, as long as no site is closed (org.ts:456).
SiteNameFollowsPrimary ==
    scenario = "office" /\ Quiet =>
        \A w \in Workers : worker[w] # Null => worker[w].siteName = site[SiteId(w)].name

\* An employee on the roster has no leaving date: who left comes back only by a
\* restore, which clears it (workers.ts:489).
OnRosterHasNotLeft == scenario # "requests" => \A w \in Workers : OnRoster(w) => ~worker[w].left

\* With no request in flight, the employee of an approved offload is not active,
\* whoever else recommended or decided beside the approval (requests.ts:195).
OffloadTakesEffect ==
    scenario = "requests" /\ Quiet =>
        \A a \in Asks : ask[a] # Null /\ ask[a].type = "offload" /\ ask[a].status = "approved"
                        => worker[ask[a].worker].status # "active"

-----------------------------------------------------------------------------
(* The handlers *)

Closing == \E r \in Requests :
    \/ \E s \in Sites, to, fate \in Kinds : CloseSiteRead(r, s, to, fate)
    \/ Cascade(r)

Undoing == \E r \in Requests : (\E e \in DOMAIN log : UndoReadEntry(r, e)) \/ Undo(r)

RestoringSites == \E r \in Requests :
    (\E s \in Sites : RestoreSiteRead(r, s)) \/ RestoreSite(r) \/ RestoreStations(r)

Leaving == \E r \in Requests :
    \/ \E w \in Workers, to \in Gone : LeaveRead(r, TopUser, w, to)
    \/ LeaveSave(r) \/ LeaveLog(r)

Branching == \E r \in Requests :
    \/ \E b \in Branches : CreateBranch(b) \/ DeleteBranchCount(r, b)
    \/ DeleteBranch(r)

Siting == \E r \in Requests :
    \/ \E s \in Sites, b \in Branches, n \in Names : CreateSiteRead(r, s, b, n) \/ EditSiteRead(r, s, b, n)
    \/ CreateSite(r) \/ EditSite(r) \/ RenameOnWorkers(r)

Stationing == \E r \in Requests, t \in Stations :
    (\E s \in Sites : RegisterStationRead(r, t, s)) \/ RegisterStation(r) \/ ToggleStation(t) \/ DeleteStation(t)

Enrolling == \E r \in Requests :
    (\E u \in Actors, w \in Workers, ids \in Picks : EnrolRead(r, u, w, ids)) \/ Enrol(r)

Editing == \E r \in Requests :
    \/ \E u \in Actors, w \in Workers :
          \/ \E ids \in Picks, status \in {"active", "inactive"} : EditRead(r, u, w, ids, status)
          \/ \E status \in {"active", "inactive"} : BulkStatusRead(r, u, w, status)
          \/ RestoreRead(r, u, w)
          \/ AddRemark(u, w)
    \/ \E u \in Actors, s \in Sites : BulkMoveSite(r, u, s)
    \/ \E w \in Workers : BulkMoveRead(r, w)
    \/ EditSave(r) \/ Restore(r)

-----------------------------------------------------------------------------
(* The scenarios *)

OpenedWith(nSites, nWorkers, names, managed) ==
    \E s \in kSubset(nSites, Sites), w \in kSubset(nWorkers, Workers) :
        Opened({FirstBranch}, s, w, names, IF managed THEN s ELSE {})

MCInit ==
    /\ scenario \in Scenarios
    /\ ask = [a \in Asks |-> Null]
    /\ \/ scenario = "closings"  /\ OpenedWith(2, 2, {DefaultName}, FALSE)
       \/ scenario = "deletions" /\ OpenedWith(1, 1, {DefaultName}, FALSE)
       \/ scenario = "requests"  /\ OpenedWith(1, 2, {DefaultName}, TRUE)
       \/ scenario = "office"    /\ OpenedWith(1, 0, Names, TRUE)

\* Two requests close sites that share employees, and the process may die.
Closings ==
    /\ scenario = "closings"
    /\ Closing \/ RestoringSites \/ Crash
    /\ Len(log') <= 1
    /\ UNCHANGED ask

\* Deletions of one employee and of its site, cascades and undos, side by side.
Deletions ==
    /\ scenario = "deletions"
    /\ Closing \/ Leaving \/ Undoing
    /\ UNCHANGED ask

\* Several users recommend and decide side by side, and stations come and go.
Answers ==
    /\ scenario = "requests"
    /\ \/ Asking \/ \E r \in Requests : Answering(r)
       \/ Stationing /\ UNCHANGED ask

\* One request at a time and one employee, every other handler but the closing of sites.
Office ==
    /\ scenario = "office"
    /\ Branching \/ Siting \/ Enrolling \/ Editing \/ Leaving \/ Undoing
    /\ Cardinality({r \in Requests : req'[r] # Idle}) <= 1
    /\ Cardinality({w \in Workers : worker'[w] # Null}) <= 1
    /\ Len(log') <= 1
    /\ UNCHANGED ask

MCNext == (Closings \/ Deletions \/ Answers \/ Office) /\ UNCHANGED scenario

MCSpec == MCInit /\ [][MCNext]_mcVars

Symmetry == Permutations(Requests) \union Permutations(Workers) \union Permutations(Sites)

=============================================================================
