------------------------------ MODULE Scripts -------------------------------
(***************************************************************************)
(* The maintenance scripts, run by hand on the live database, between the  *)
(* office's own edits: scripts/seed.ts, import_master_data.ts,             *)
(* migrate_*.ts, make_demo_users.ts, demo_prep.ts, clean_demo.ts.          *)
(* A document that is inserted gets a new id: its code and a number.       *)
(***************************************************************************)
EXTENDS Naturals

CONSTANTS
    SeedCodes,      \* the codes of the seed's sites, the first the demo's
    ImportCodes,    \* the codes of the import's sites
    DemoCode,       \* "VBW"
    Pool,           \* the code of the import's pool of the unassigned
    Trades,
    Listed,         \* the workbook's employees
    DemoPeople,     \* the DEMO- employees
    MaxRuns         \* bound: how many documents a script numbers

ASSUME ScriptsAssumption ==
    /\ DemoCode \in SeedCodes /\ Pool \in ImportCodes
    /\ "none" \notin SeedCodes \union ImportCodes
    /\ MaxRuns \in Nat

VARIABLES
    projectSite,    \* by code: its id, status and shifts
    person,         \* by registration number
    record,         \* who has attendance records or flags
    register,       \* the deletion log
    scope,          \* the accounts: role and sites
    demoStation,    \* the site id of the Demo Station, or NoId
    designation,    \* the designations' names
    inserted        \* documents inserted so far

scriptVars == <<projectSite, person, record, register, scope, demoStation, designation, inserted>>

Codes    == SeedCodes \union ImportCodes
People   == Listed \union DemoPeople
Roles    == {"management", "hr", "pm", "supervisor"}
Staffers == {"admin", "pm", "supervisor"}
NoId     == <<"none", 0>>
NoSite   == [id |-> NoId, status |-> "unset", shifts |-> "unset"]
Absent   == [status |-> "unborn", site |-> NoId, trade |-> "none"]
NoUser   == [role |-> "none", sites |-> {}]
SiteIds  == {projectSite[c].id : c \in {k \in Codes : projectSite[k] # NoSite}}

\* A database of before the migrations: no status or shifts on the sites, people
\* deleted the old way, a role that is gone.
ScriptsInit ==
    /\ projectSite = [c \in Codes |-> IF c \in SeedCodes THEN [NoSite EXCEPT !.id = <<c, 0>>] ELSE NoSite]
    /\ \E old \in {"active", "deleted"}, t \in Trades :
          person = [p \in People |-> IF p \in Listed
                        THEN [status |-> old, site |-> <<DemoCode, 0>>, trade |-> t] ELSE Absent]
    /\ record = {} /\ register = {} /\ demoStation = NoId /\ designation = Trades
    /\ scope = [u \in Staffers |-> CASE u = "admin"      -> [role |-> "management", sites |-> {}]
                                     [] u = "supervisor" -> [role |-> "pe", sites |-> {<<DemoCode, 0>>}]
                                     [] OTHER            -> NoUser]
    /\ inserted = 0

\* Found by its code, or inserted with the schema's defaults.
Upserted(c) ==
    IF projectSite[c] # NoSite THEN projectSite[c]
    ELSE [id |-> <<c, inserted + 1>>, status |-> "active", shifts |-> "default"]

-----------------------------------------------------------------------------
(* Seed and import. *)

\* Sites, designations and the first account are ensured; what exists stays.
Seed ==
    /\ inserted < MaxRuns
    /\ projectSite' = [c \in Codes |-> IF c \in SeedCodes THEN Upserted(c) ELSE projectSite[c]]
    /\ designation' = designation \union Trades
    /\ scope' = [scope EXCEPT !["admin"] =
                    IF @ = NoUser THEN [role |-> "management", sites |-> {}] ELSE @]
    /\ inserted' = inserted + 1
    /\ UNCHANGED <<person, record, register, demoStation>>

\* Faulty variant: the roster is upserted, never cleared.
KeptRoster == person

ClearedRoster == [p \in People |-> Absent]

\* The roster sheets' site, else the master sheet's location, else the pool.
SiteOf(sheet, location) ==
    IF sheet # "none" THEN sheet ELSE IF location # "none" THEN location ELSE Pool

\* Everything is cleared but the accounts, the stations and the register; the
\* workbook's active employees come back, at sites with new ids.
ImportMaster ==
    /\ inserted < MaxRuns
    /\ LET at(c) == <<c, inserted + 1>>
       IN  \E active \in SUBSET Listed, t \in Trades,
              sheet, location \in (ImportCodes \ {Pool}) \union {"none"} :
             /\ projectSite' = [c \in Codes |->
                   IF c \in ImportCodes
                   THEN [id |-> at(c), status |-> "active", shifts |-> "default"] ELSE NoSite]
             /\ person' = [p \in People |->
                   IF p \in active
                   THEN [status |-> "active", site |-> at(SiteOf(sheet, location)), trade |-> t]
                   ELSE ClearedRoster[p]]
             /\ designation' = {t}
    /\ record' = {}
    /\ inserted' = inserted + 1
    /\ UNCHANGED <<register, scope, demoStation>>

-----------------------------------------------------------------------------
(* The migrations. *)

\* People deleted the old way are archived; sites get a status.
MigrateLevels ==
    /\ person' = [p \in People |-> IF person[p].status = "deleted"
                                   THEN [person[p] EXCEPT !.status = "archived"] ELSE person[p]]
    /\ projectSite' = [c \in Codes |-> IF projectSite[c] # NoSite /\ projectSite[c].status = "unset"
                                       THEN [projectSite[c] EXCEPT !.status = "active"] ELSE projectSite[c]]
    /\ UNCHANGED <<record, register, scope, demoStation, designation, inserted>>

\* Faulty variant: every site is given the defaults.
Unshifted == {c \in Codes : projectSite[c] # NoSite}

NeedsShifts == {c \in Codes : projectSite[c] # NoSite /\ projectSite[c].shifts = "unset"}

MigrateShifts ==
    /\ projectSite' = [c \in Codes |-> IF c \in NeedsShifts
                                       THEN [projectSite[c] EXCEPT !.shifts = "default"] ELSE projectSite[c]]
    /\ UNCHANGED <<person, record, register, scope, demoStation, designation, inserted>>

\* Bulk updates skip the validation that refuses "super_admin": the first account stays.
MigrateRoles ==
    /\ scope' = [u \in Staffers |-> IF scope[u].role = "pe" THEN [scope[u] EXCEPT !.role = "supervisor"]
                                    ELSE scope[u]]
    /\ UNCHANGED <<projectSite, person, record, register, demoStation, designation, inserted>>

-----------------------------------------------------------------------------
(* The demo. *)

\* The demo's accounts, active, with sites from the imported organisation or the seed's.
Demoted(sites) ==
    [u \in Staffers |-> IF u = "admin" THEN scope[u] ELSE [role |-> u, sites |-> sites]]

DemoStaff ==
    /\ \A c \in ImportCodes \ {Pool} : projectSite[c] # NoSite
    /\ scope' = Demoted({projectSite[c].id : c \in ImportCodes \ {Pool}})
    /\ UNCHANGED <<projectSite, person, record, register, demoStation, designation, inserted>>

DemoPrep ==
    /\ projectSite[DemoCode] # NoSite
    /\ LET home == projectSite[DemoCode].id
       IN  /\ person' = [p \in People |-> IF p \in DemoPeople
                 THEN [status |-> "active", site |-> home, trade |-> "none"] ELSE person[p]]
           /\ scope' = Demoted({home})
           /\ demoStation' = home
    /\ record' = record \union DemoPeople
    /\ UNCHANGED <<projectSite, register, designation, inserted>>

CleanDemo ==
    /\ person' = [p \in People |-> IF p \in DemoPeople THEN Absent ELSE person[p]]
    /\ record' = record \ DemoPeople
    /\ demoStation' = NoId
    /\ UNCHANGED <<projectSite, register, scope, designation, inserted>>

-----------------------------------------------------------------------------
(* The office, between the scripts. *)

DeletePerson(p) ==
    /\ person[p].status = "active"
    /\ person' = [person EXCEPT ![p].status = "deleted"]
    /\ register' = register \union {p}
    /\ UNCHANGED <<projectSite, record, scope, demoStation, designation, inserted>>

UndoDeletion(p) ==
    /\ p \in register /\ person[p].status = "deleted"
    /\ person' = [person EXCEPT ![p].status = "active"]
    /\ register' = register \ {p}
    /\ UNCHANGED <<projectSite, record, scope, demoStation, designation, inserted>>

MovePerson(p) ==
    /\ person[p].status = "active"
    /\ \E id \in SiteIds : person' = [person EXCEPT ![p].site = id]
    /\ UNCHANGED <<projectSite, record, register, scope, demoStation, designation, inserted>>

\* The form of a site writes its shifts.
EditShifts(c) ==
    /\ projectSite[c] # NoSite
    /\ projectSite' = [projectSite EXCEPT ![c].shifts = "office"]
    /\ UNCHANGED <<person, record, register, scope, demoStation, designation, inserted>>

ScriptsNext ==
    \/ Seed \/ ImportMaster
    \/ MigrateLevels \/ MigrateShifts \/ MigrateRoles
    \/ DemoStaff \/ DemoPrep \/ CleanDemo
    \/ \E p \in People : DeletePerson(p) \/ UndoDeletion(p) \/ MovePerson(p)
    \/ \E c \in Codes : EditShifts(c)

=============================================================================
