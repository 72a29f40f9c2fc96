------------------------------- MODULE Access -------------------------------
(***************************************************************************)
(* Accounts, the capability matrix and the sessions of the office          *)
(* (auth/permissions.ts, auth/middleware.ts, routes/auth.ts,               *)
(* routes/users.ts).  One request at a time.  Names, phones and passwords  *)
(* are left out; an e-mail address is the account's identity.              *)
(***************************************************************************)
EXTENDS FiniteSets

CONSTANTS
    Accounts,
    Admin,          \* the account the seed creates
    Browsers,
    Places,         \* the sites an account can be scoped to
    Focus           \* bound: the capabilities a form ticks off or on beside the role's

ASSUME AccessAssumption == Admin \in Accounts /\ "nobody" \notin Accounts /\ Places # {}

VARIABLES
    account,    \* the users collection
    signedIn    \* session.userId of each browser, or "nobody"

accessVars == <<account, signedIn>>

-----------------------------------------------------------------------------
(* The permission matrix. *)

Role      == {"management", "hr", "pm", "supervisor"}
TopAdmins == {"management", "hr"}

CapabilityRoles ==
    [everyone |-> Role, admins |-> TopAdmins, loggers |-> {"hr", "pm", "supervisor"},
     reviewers |-> {"management", "hr", "pm"}, recommenders |-> {"hr", "pm"},
     closers |-> {"management"}]

CapabilitiesOf ==
    [everyone     |-> {"view_dashboard", "view_reports", "view_flags", "enroll_worker",
                       "manage_stations", "view_requests", "create_request",
                       "view_manpower", "request_manpower"},
     admins       |-> {"view_payroll", "add_designation", "view_org", "manage_org",
                       "manage_sites", "manage_users", "delete_worker",
                       "correct_attendance", "allocate_manpower"},
     loggers      |-> {"mark_attendance", "submit_attendance"},
     reviewers    |-> {"view_overtime", "view_regularization"},
     recommenders |-> {"recommend_overtime", "recommend_request", "recommend_attendance"},
     closers      |-> {"approve_overtime", "decide_request", "approve_attendance"}]

AllCapabilities == UNION {CapabilitiesOf[g] : g \in DOMAIN CapabilitiesOf}

Can(role, capability) ==
    \E g \in DOMAIN CapabilitiesOf : capability \in CapabilitiesOf[g] /\ role \in CapabilityRoles[g]

RoleDefaults == [role \in Role |-> {c \in AllCapabilities : Can(role, c)}]

\* A non-empty list of one's own replaces the role's defaults.
Effective(user) == IF user.capabilities # {} THEN user.capabilities ELSE RoleDefaults[user.role]

UserCan(user, capability) == capability \in Effective(user)

SeesAllSites(role) == role \in TopAdmins

-----------------------------------------------------------------------------
(* What an actor may do to an account. *)

AssignableRoles(actor) ==
    CASE actor.role = "management" -> Role
      [] actor.role = "hr"         -> {"pm", "supervisor"}
      [] OTHER                     -> {}

CanManageRole(actor, role) == role \in AssignableRoles(actor)

\* The sites stored with a role: none for who sees all, at least one for the others.
Scopes(role) == IF SeesAllSites(role) THEN {{}} ELSE SUBSET Places \ {{}}

\* Faulty variant: whatever is ticked is granted.
ResolveAnyCapabilities(actor, role, submitted, existing) ==
    IF submitted = RoleDefaults[role] THEN {} ELSE submitted

\* Granted: the role's own and what the actor holds.  Kept: what the actor cannot touch.
\* Exactly the role's defaults are stored as none.
ResolveCapabilities(actor, role, submitted, existing) ==
    LET grantable == RoleDefaults[role] \cup Effective(actor)
        final     == (existing \ grantable) \cup (submitted \cap grantable)
    IN  IF final = RoleDefaults[role] THEN {} ELSE final

\* The ticks a form carries.
Ticked(role) == {(RoleDefaults[role] \cup on) \ off : on, off \in SUBSET Focus}

-----------------------------------------------------------------------------
(* Sessions. *)

NoAccount == [role |-> "nobody", active |-> FALSE, sites |-> {}, capabilities |-> {}]
Exists(u) == account[u] # NoAccount

AccessInit ==
    /\ account = [u \in Accounts |->
                     IF u = Admin THEN [NoAccount EXCEPT !.role = "management", !.active = TRUE]
                     ELSE NoAccount]
    /\ signedIn = [b \in Browsers |-> "nobody"]

Login(b, u) ==
    /\ signedIn[b] = "nobody"
    /\ Exists(u) /\ account[u].active
    /\ signedIn' = [signedIn EXCEPT ![b] = u]
    /\ UNCHANGED account

Logout(b) ==
    /\ signedIn[b] # "nobody"
    /\ signedIn' = [signedIn EXCEPT ![b] = "nobody"]
    /\ UNCHANGED account

\* The account is read afresh on each request; a deactivated one loses its session.
DropSession(b) ==
    /\ signedIn[b] # "nobody"
    /\ ~ account[signedIn[b]].active
    /\ signedIn' = [signedIn EXCEPT ![b] = "nobody"]
    /\ UNCHANGED account

\* The guard of every page of the users' module.
ManagesUsers(u) == Exists(u) /\ account[u].active /\ UserCan(account[u], "manage_users")

-----------------------------------------------------------------------------
(* The accounts. *)

CreateUser(a, u) ==
    /\ ManagesUsers(a) /\ ~ Exists(u)
    /\ \E role \in AssignableRoles(account[a]) :
          \E places \in Scopes(role), ticks \in Ticked(role) :
             account' = [account EXCEPT ![u] =
                 [role |-> role, active |-> TRUE, sites |-> places,
                  capabilities |-> ResolveCapabilities(account[a], role, ticks, {})]]
    /\ UNCHANGED signedIn

\* The form saved over the account: a role of roles, the active flag one of flags.
SaveUser(a, u, roles, flags) ==
    /\ ManagesUsers(a) /\ Exists(u)
    /\ CanManageRole(account[a], account[u].role)
    /\ \E role \in roles, active \in flags :
          \E places \in Scopes(role), ticks \in Ticked(role) :
             account' = [account EXCEPT ![u] =
                 [role |-> role, active |-> active, sites |-> places,
                  capabilities |-> ResolveCapabilities(account[a], role, ticks, @.capabilities)]]
    /\ UNCHANGED signedIn

\* Faulty variant: one's own role and active flag are taken from the form too.
EditAnyUser(a, u) == SaveUser(a, u, AssignableRoles(account[a]), BOOLEAN)

\* Nobody changes his own role or active flag.
EditUser(a, u) ==
    IF u = a THEN SaveUser(a, u, {account[u].role}, {account[u].active})
    ELSE SaveUser(a, u, AssignableRoles(account[a]), BOOLEAN)

ToggleUser(a, u) ==
    /\ ManagesUsers(a) /\ Exists(u) /\ u # a
    /\ CanManageRole(account[a], account[u].role)
    /\ account' = [account EXCEPT ![u].active = ~ @]
    /\ UNCHANGED signedIn

AccessNext ==
    \E b \in Browsers :
        \/ Logout(b)
        \/ DropSession(b)
        \/ \E u \in Accounts :
              \/ Login(b, u)
              \/ /\ signedIn[b] # "nobody"
                 /\ \/ CreateUser(signedIn[b], u)
                    \/ EditUser(signedIn[b], u)
                    \/ ToggleUser(signedIn[b], u)

=============================================================================
