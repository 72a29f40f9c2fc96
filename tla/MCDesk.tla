------------------------------- MODULE MCDesk -------------------------------
(* The office's desk: accounts, designations, the Log Attendance page, the maintenance
   scripts, and what is computed from the data: reports, payroll, fences and faces.
   They share no state that one of them writes, so each is a scenario of its own. *)
EXTENDS Access, Designations, LogScan, Scripts, MCFigures, TLC

CONSTANT Scenarios   \* bound: which of the scenarios a run explores

VARIABLE scenario

deskVars == <<accessVars, titleVars, logVars, scriptVars, input, scenario>>

-----------------------------------------------------------------------------
(* Accounts *)

\* Somebody can always sign in who may manage every account: no sequence of edits,
\* deactivations and role changes by anybody leaves no active management account
\* (users.ts:300).
SomeActiveManagement ==
    \E u \in Accounts : Exists(u) /\ account[u].active /\ account[u].role = "management"

\* What a step gives the account u beyond its old capabilities and its new role's.
Gains(u) ==
    IF ~ Exists(u)' THEN {}
    ELSE (Effective(account[u])' \ (IF Exists(u) THEN Effective(account[u]) ELSE {}))
         \ RoleDefaults[account'[u].role]

\* What a step may do to the account u.
Authorised(u) ==
    account'[u] # account[u] =>
        \E b \in Browsers :
           /\ signedIn[b] # "nobody"
           /\ LET actor == account[signedIn[b]]
              IN  /\ actor.active
                  /\ account'[u].role \in AssignableRoles(actor)
                  /\ Exists(u) => account[u].role \in AssignableRoles(actor)
                  /\ Gains(u) \subseteq Effective(actor)

\* An account is written only by somebody signed in and active who may assign the role
\* it had and the one it gets, and who holds whatever it gains beside the role's own
\* capabilities: nobody passes on what he has not, by however many edits (users.ts:84).
EditsStayWithinAuthority == [][\A u \in Accounts : Authorised(u)]_deskVars

-----------------------------------------------------------------------------
(* Designations *)

\* The name copied onto an employee or an attendance record is the name of its
\* designation, as long as that stands, through renames before and after an employee
\* leaves and comes back (designations.ts:94).
NamesAgree ==
    \A w \in Staff : \A copy \in {staff[w], workday[w]} :
        copy.id # NoTitle /\ Stands(copy.id) => copy.name = title[copy.id]

\* An employee on the books has a designation that stands, unless he was restored and
\* has not chosen one since (designations.ts:105).
RosterTitleExists ==
    \A w \in Staff \ returned : staff[w].status \in OnBooks => Stands(staff[w].id)

-----------------------------------------------------------------------------
(* The Log Attendance page *)

\* Whatever the page has unlocked, cached or mixed up between sites, the server writes a
\* scan at a fenced site only from a fix inside it (attendance.ts:148).
RecordedInsideFence == IsFenced(logged.site) => logged.geo = logged.site

\* The page confirmed at a site, with nothing in flight, can scan: the button "stays
\* locked until you're confirmed inside the radius" (attendance-scan.js:1).
ConfirmedSiteCanScan ==
    geoOk /\ (\A i \in Checks : checks[i] = Idle) /\ (\A i \in Scans : scans[i] = Idle)
        => ~ locked

-----------------------------------------------------------------------------
(* The scripts *)

\* Everybody on the roster belongs to a site that exists, whichever scripts ran, in
\* whatever order and however often (import_master_data.ts:105).
WorkersAreHoused == \A p \in People : person[p] # Absent => person[p].site \in SiteIds

\* The shifts the office set at a site are never overwritten by a script, the migration
\* that gives every site its shifts included (migrate_shifts.ts:15).
SetShiftsAreKept ==
    [][\A c \in Codes :
          projectSite[c].shifts = "office" /\ projectSite'[c].id = projectSite[c].id
              => projectSite'[c].shifts = "office"]_deskVars

-----------------------------------------------------------------------------
(* The scenarios *)

\* One initial page is enough where the page is not what the scenario is about.
Unused == device = "hidden" /\ at = CHOOSE g \in Grounds : TRUE

MCInit ==
    /\ scenario \in Scenarios
    /\ AccessInit /\ DesignationsInit
    /\ LogInit /\ (scenario # "logging" => Unused)
    /\ ScriptsInit /\ (scenario # "scripts" => \A p \in Listed : person[p].status = "active")
    /\ IF scenario = "figures" THEN FiguresInit ELSE input = [about |-> "nothing"]

AtAccounts     == scenario = "accounts" /\ AccessNext /\ UNCHANGED <<titleVars, logVars, scriptVars>>
AtDesignations == scenario = "designations" /\ DesignationsNext /\ UNCHANGED <<accessVars, logVars, scriptVars>>
AtLogging      == scenario = "logging" /\ LogNext /\ UNCHANGED <<accessVars, titleVars, scriptVars>>
AtScripts      == scenario = "scripts" /\ ScriptsNext /\ UNCHANGED <<accessVars, titleVars, logVars>>

MCNext ==
    /\ AtAccounts \/ AtDesignations \/ AtLogging \/ AtScripts
    /\ UNCHANGED <<scenario, input>>

MCSpec == MCInit /\ [][MCNext]_deskVars

Symmetry == Permutations(Accounts \ {Admin}) \union Permutations(Browsers)
            \union Permutations(Checks)

=============================================================================
