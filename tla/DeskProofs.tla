----------------------------- MODULE DeskProofs -----------------------------
(***************************************************************************)
(* The invariants of the office's desk, for every set of accounts,         *)
(* designations, sites, checks and scans in flight, and documents: one     *)
(* inductive invariant for each part of the state.  Of what is computed,   *)
(* the reports, figures and pages of any database, the fences round any    *)
(* triangle, the choice of a face among any number and the payroll of any  *)
(* calendar.                                                               *)
(***************************************************************************)
EXTENDS MCDesk, FoldProofs

-----------------------------------------------------------------------------
(* Accounts *)

User == [role : Role, active : BOOLEAN, sites : SUBSET Places,
         capabilities : SUBSET AllCapabilities]

AccountsTypeOK ==
    /\ account \in [Accounts -> User \union {NoAccount}]
    /\ signedIn \in [Browsers -> Accounts \union {"nobody"}]

\* The inductive invariant of the accounts.
AccountsInv == AccountsTypeOK /\ SomeActiveManagement

LEMMA RolesDiffer ==
    NoAccount \notin User /\ "management" \in Role
  BY DEF NoAccount, User, Role

LEMMA DefaultsType ==
    ASSUME NEW role \in Role
    PROVE  RoleDefaults[role] \subseteq AllCapabilities
  BY DEF RoleDefaults

\* What an account may do is never more than the matrix knows.
LEMMA EffectiveType ==
    ASSUME NEW user \in User
    PROVE  Effective(user) \subseteq AllCapabilities
  BY DefaultsType DEF Effective, User

LEMMA ScopesType ==
    ASSUME NEW role, NEW places \in Scopes(role)
    PROVE  places \in SUBSET Places
  BY DEF Scopes

\* Only management may be assigned by management.
LEMMA AssignableType ==
    ASSUME NEW actor
    PROVE  /\ AssignableRoles(actor) \subseteq Role
           /\ "management" \in AssignableRoles(actor) => actor.role = "management"
  BY DEF AssignableRoles, Role

\* What is granted is within the matrix, and what it gives beyond the old capabilities
\* and the role's own is the actor's.
LEMMA GrantedType ==
    ASSUME NEW actor \in User, NEW role \in Role, NEW submitted,
           NEW existing \in SUBSET AllCapabilities
    PROVE  ResolveCapabilities(actor, role, submitted, existing) \in SUBSET AllCapabilities
  BY DefaultsType, EffectiveType DEF ResolveCapabilities

LEMMA GrantedWithinAuthority ==
    ASSUME NEW actor, NEW role, NEW submitted, NEW existing,
           NEW sites, NEW active,
           NEW user, user = [role |-> role, active |-> active, sites |-> sites,
                   capabilities |-> ResolveCapabilities(actor, role, submitted, existing)]
    PROVE  (Effective(user) \ existing) \ RoleDefaults[role] \subseteq Effective(actor)
  <1> DEFINE granted == ResolveCapabilities(actor, role, submitted, existing)
  <1>1. CASE granted = {}
    BY <1>1 DEF Effective
  <1>2. CASE granted # {}
    <2>1. Effective(user) = granted
      BY <1>2 DEF Effective
    <2>2. granted \subseteq existing \union RoleDefaults[role] \union Effective(actor)
      BY DEF ResolveCapabilities
    <2> QED BY <2>1, <2>2
  <1> QED BY <1>1, <1>2

\* What an edit by the account a may do to the account u: it stays an account, of a role
\* a may assign, and a's own role and active flag stay.
Edits(a, u) ==
    /\ signedIn' = signedIn
    /\ ManagesUsers(a) /\ a \in Accounts /\ u \in Accounts
    /\ \E user \in User :
          /\ account' = [account EXCEPT ![u] = user]
          /\ user.role \in AssignableRoles(account[a])
          /\ Exists(u) => account[u].role \in AssignableRoles(account[a])
          /\ u = a => user.role = account[a].role /\ user.active = account[a].active
          /\ (Effective(user) \ (IF Exists(u) THEN Effective(account[u]) ELSE {}))
                \ RoleDefaults[user.role] \subseteq Effective(account[a])

LEMMA SavesAreEdits ==
    ASSUME AccountsTypeOK, NEW a \in Accounts, NEW u \in Accounts,
           NEW roles \in SUBSET AssignableRoles(account[a]), NEW flags \in SUBSET BOOLEAN,
           u = a => roles \subseteq {account[a].role} /\ flags \subseteq {account[a].active},
           SaveUser(a, u, roles, flags)
    PROVE  Edits(a, u)
  <1>1. account[a] \in User /\ account[u] \in User
    BY DEF SaveUser, ManagesUsers, Exists, AccountsTypeOK
  <1>2. PICK role \in roles, active \in flags : \E places \in Scopes(role), ticks \in Ticked(role) :
             account' = [account EXCEPT ![u] =
                 [role |-> role, active |-> active, sites |-> places,
                  capabilities |-> ResolveCapabilities(account[a], role, ticks, account[u].capabilities)]]
    BY DEF SaveUser, AccountsTypeOK
  <1>3. PICK places \in Scopes(role), ticks \in Ticked(role) :
             account' = [account EXCEPT ![u] =
                 [role |-> role, active |-> active, sites |-> places,
                  capabilities |-> ResolveCapabilities(account[a], role, ticks, account[u].capabilities)]]
    BY <1>2
  <1> DEFINE granted == ResolveCapabilities(account[a], role, ticks, account[u].capabilities)
             user    == [role |-> role, active |-> active, sites |-> places, capabilities |-> granted]
  <1>4. role \in Role /\ role \in AssignableRoles(account[a])
    BY AssignableType
  <1>5. account[u].capabilities \in SUBSET AllCapabilities
    BY <1>1 DEF User
  <1>6. granted \in SUBSET AllCapabilities
    BY <1>1, <1>4, <1>5, GrantedType
  <1>7. user \in User
    BY <1>4, <1>6, ScopesType DEF User
  <1>8. (Effective(user) \ account[u].capabilities) \ RoleDefaults[role] \subseteq Effective(account[a])
    BY GrantedWithinAuthority
  <1>9. account[u].capabilities \subseteq Effective(account[u])
    BY DEF Effective
  <1>10. account[u].role \in AssignableRoles(account[a]) /\ ManagesUsers(a) /\ Exists(u) /\ signedIn' = signedIn
    BY DEF SaveUser, CanManageRole
  <1> HIDE DEF granted
  <1>11. /\ user.role = role /\ user.active = active
         /\ account' = [account EXCEPT ![u] = user]
    BY <1>3 DEF granted
  <1> HIDE DEF user
  <1>12. (Effective(user) \ Effective(account[u])) \ RoleDefaults[user.role] \subseteq Effective(account[a])
    BY <1>8, <1>9, <1>11
  <1> QED BY <1>4, <1>7, <1>10, <1>11, <1>12 DEF Edits

LEMMA CreationsAreEdits ==
    ASSUME AccountsTypeOK, NEW a \in Accounts, NEW u \in Accounts, CreateUser(a, u)
    PROVE  Edits(a, u)
  <1>1. account[a] \in User /\ ManagesUsers(a) /\ ~ Exists(u) /\ signedIn' = signedIn /\ u # a
    BY DEF CreateUser, ManagesUsers, Exists, AccountsTypeOK
  <1>2. PICK role \in AssignableRoles(account[a]) : \E places \in Scopes(role), ticks \in Ticked(role) :
             account' = [account EXCEPT ![u] =
                 [role |-> role, active |-> TRUE, sites |-> places,
                  capabilities |-> ResolveCapabilities(account[a], role, ticks, {})]]
    BY DEF CreateUser
  <1>3. PICK places \in Scopes(role), ticks \in Ticked(role) :
             account' = [account EXCEPT ![u] =
                 [role |-> role, active |-> TRUE, sites |-> places,
                  capabilities |-> ResolveCapabilities(account[a], role, ticks, {})]]
    BY <1>2
  <1> DEFINE granted == ResolveCapabilities(account[a], role, ticks, {})
             user    == [role |-> role, active |-> TRUE, sites |-> places, capabilities |-> granted]
  <1>4. role \in Role
    BY AssignableType
  <1>5. granted \in SUBSET AllCapabilities
    BY <1>1, <1>4, GrantedType
  <1>6. user \in User
    BY <1>4, <1>5, ScopesType DEF User
  <1>7. (Effective(user) \ {}) \ RoleDefaults[role] \subseteq Effective(account[a])
    BY GrantedWithinAuthority
  <1> HIDE DEF granted
  <1>8. user.role = role /\ account' = [account EXCEPT ![u] = user]
    BY <1>3 DEF granted
  <1> HIDE DEF user
  <1> QED BY <1>1, <1>2, <1>6, <1>7, <1>8 DEF Edits

LEMMA TogglesAreEdits ==
    ASSUME AccountsTypeOK, NEW a \in Accounts, NEW u \in Accounts, ToggleUser(a, u)
    PROVE  Edits(a, u)
  <1> DEFINE user == [account[u] EXCEPT !.active = ~ @]
  <1>1. account[u] \in User /\ ManagesUsers(a) /\ Exists(u) /\ signedIn' = signedIn /\ u # a
    BY DEF ToggleUser, Exists, AccountsTypeOK
  <1>2. /\ account[u].role \in AssignableRoles(account[a])
        /\ account' = [account EXCEPT ![u] = user]
    BY DEF ToggleUser, CanManageRole, AccountsTypeOK
  <1>3. user \in User /\ user.role = account[u].role /\ user.capabilities = account[u].capabilities
    BY <1>1 DEF User
  <1>4. Effective(user) = Effective(account[u])
    BY <1>3 DEF Effective
  <1> HIDE DEF user
  <1> QED BY <1>1, <1>2, <1>3, <1>4 DEF Edits

\* A step of the accounts is an edit by somebody signed in, or leaves the accounts alone.
LEMMA AccountSteps ==
    ASSUME AccountsTypeOK, AccessNext
    PROVE  \/ \E b \in Browsers, u \in Accounts :
                 signedIn[b] \in Accounts /\ signedIn[b] # "nobody" /\ Edits(signedIn[b], u)
           \/ account' = account /\ signedIn' \in [Browsers -> Accounts \union {"nobody"}]
  <1>1. PICK b \in Browsers :
        \/ Logout(b)
        \/ DropSession(b)
        \/ \E u \in Accounts :
              \/ Login(b, u)
              \/ /\ signedIn[b] # "nobody"
                 /\ \/ CreateUser(signedIn[b], u)
                    \/ EditUser(signedIn[b], u)
                    \/ ToggleUser(signedIn[b], u)
    BY DEF AccessNext
  <1>2. CASE Logout(b) \/ DropSession(b) \/ \E u \in Accounts : Login(b, u)
    BY <1>2 DEF Logout, DropSession, Login, AccountsTypeOK
  <1>3. CASE \E u \in Accounts : /\ signedIn[b] # "nobody"
                                 /\ \/ CreateUser(signedIn[b], u)
                                    \/ EditUser(signedIn[b], u)
                                    \/ ToggleUser(signedIn[b], u)
    <2> DEFINE a == signedIn[b]
    <2>1. a \in Accounts /\ a # "nobody"
      BY <1>3 DEF AccountsTypeOK
    <2>2. PICK u \in Accounts : CreateUser(a, u) \/ EditUser(a, u) \/ ToggleUser(a, u)
      BY <1>3
    <2> HIDE DEF a
    <2>3. CASE CreateUser(a, u)
      BY <2>1, <2>3, CreationsAreEdits DEF a
    <2>4. CASE ToggleUser(a, u)
      BY <2>1, <2>4, TogglesAreEdits DEF a
    <2>5. CASE EditUser(a, u) /\ u # a
      <3>1. SaveUser(a, u, AssignableRoles(account[a]), BOOLEAN)
        BY <2>5 DEF EditUser
      <3> QED BY <2>1, <2>5, <3>1, SavesAreEdits DEF a
    <2>6. CASE EditUser(a, u) /\ u = a
      <3>1. SaveUser(a, u, {account[u].role}, {account[u].active})
        BY <2>6 DEF EditUser
      <3>2. account[u].role \in AssignableRoles(account[a]) /\ account[u].active \in BOOLEAN
        BY <3>1 DEF SaveUser, CanManageRole, Exists, AccountsTypeOK, User
      <3> QED BY <2>1, <2>6, <3>1, <3>2, SavesAreEdits DEF a
    <2> QED BY <2>2, <2>3, <2>4, <2>5, <2>6
  <1> QED BY <1>1, <1>2, <1>3

\* An edit keeps an active management account: the editor's own, if another's is lost.
LEMMA EditsKeepManagement ==
    ASSUME AccountsInv, NEW a, NEW u, Edits(a, u)
    PROVE  AccountsInv'
  <1>1. PICK user \in User :
          /\ account' = [account EXCEPT ![u] = user]
          /\ user.role \in AssignableRoles(account[a])
          /\ Exists(u) => account[u].role \in AssignableRoles(account[a])
          /\ u = a => user.role = account[a].role /\ user.active = account[a].active
    BY DEF Edits
  <1>2. a \in Accounts /\ u \in Accounts /\ account[a] \in User /\ account[a].active /\ Exists(a)
    BY DEF Edits, AccountsInv, AccountsTypeOK, ManagesUsers, Exists
  <1>3. AccountsTypeOK'
    BY <1>1, <1>2 DEF AccountsInv, AccountsTypeOK, Edits
  <1>4. PICK m \in Accounts : Exists(m) /\ account[m].active /\ account[m].role = "management"
    BY DEF AccountsInv, SomeActiveManagement
  <1>5. CASE u = a /\ m = a
    BY <1>1, <1>2, <1>3, <1>4, <1>5, RolesDiffer DEF SomeActiveManagement, Exists, AccountsInv, AccountsTypeOK
  <1>6. CASE u # m
    BY <1>1, <1>2, <1>3, <1>4, <1>6 DEF SomeActiveManagement, Exists, AccountsInv, AccountsTypeOK
  <1>7. CASE u # a /\ m = u
    <2>1. account[a].role = "management"
      BY <1>1, <1>4, <1>7, AssignableType
    <2> QED BY <1>1, <1>2, <1>3, <1>7, <2>1 DEF SomeActiveManagement, Exists, AccountsInv, AccountsTypeOK
  <1> QED BY <1>3, <1>5, <1>6, <1>7 DEF AccountsInv

LEMMA AccountsInvInit ==
    ASSUME AccessInit
    PROVE  AccountsInv
  BY AccessAssumption
  DEF AccessInit, AccountsInv, AccountsTypeOK, SomeActiveManagement, Exists, NoAccount,
      User, Role

LEMMA AccountsInvStep ==
    ASSUME AccountsInv, [MCNext]_deskVars
    PROVE  AccountsInv'
  <1>1. CASE AccessNext
    <2>1. CASE \E b \in Browsers, u \in Accounts : Edits(signedIn[b], u)
      BY <2>1, EditsKeepManagement
    <2>2. CASE account' = account /\ signedIn' \in [Browsers -> Accounts \union {"nobody"}]
      BY <2>2 DEF AccountsInv, AccountsTypeOK, SomeActiveManagement, Exists
    <2> QED BY <1>1, <2>1, <2>2, AccountSteps DEF AccountsInv
  <1>2. CASE UNCHANGED accessVars
    BY <1>2 DEF AccountsInv, AccountsTypeOK, SomeActiveManagement, Exists, accessVars
  <1> QED BY <1>1, <1>2 DEF MCNext, AtAccounts, AtDesignations, AtLogging, AtScripts, deskVars

LEMMA AccountsInvariant == MCSpec => []AccountsInv
  <1>1. MCInit => AccountsInv
    BY AccountsInvInit DEF MCInit
  <1>2. AccountsInv /\ [MCNext]_deskVars => AccountsInv'
    BY AccountsInvStep
  <1> QED BY <1>1, <1>2, PTL DEF MCSpec

\* An active management account remains, whatever anybody who manages users edits,
\* deactivates or demotes, himself included (users.ts:300).
THEOREM ManagementRemains == MCSpec => []SomeActiveManagement
  <1>1. AccountsInv => SomeActiveManagement
    BY DEF AccountsInv
  <1> QED BY <1>1, AccountsInvariant, PTL

LEMMA EditsAreAuthorised ==
    ASSUME AccountsTypeOK, NEW b \in Browsers, signedIn[b] # "nobody", NEW v \in Accounts,
           Edits(signedIn[b], v), NEW u \in Accounts
    PROVE  Authorised(u)
  <1> DEFINE a == signedIn[b]
  <1>1. PICK user \in User :
          /\ account' = [account EXCEPT ![v] = user]
          /\ user.role \in AssignableRoles(account[a])
          /\ Exists(v) => account[v].role \in AssignableRoles(account[a])
          /\ (Effective(user) \ (IF Exists(v) THEN Effective(account[v]) ELSE {}))
                \ RoleDefaults[user.role] \subseteq Effective(account[a])
    BY DEF Edits
  <1>2. CASE u # v
    BY <1>1, <1>2 DEF Authorised, AccountsTypeOK
  <1>3. CASE u = v
    <2>1. account'[u] = user /\ account[a].active
      BY <1>1, <1>3 DEF AccountsTypeOK, Edits, ManagesUsers
    <2>2. Gains(u) \subseteq Effective(account[a])
      BY <1>1, <1>3, <2>1 DEF Gains, Effective
    <2> QED BY <1>1, <1>3, <2>1, <2>2 DEF Authorised
  <1> QED BY <1>2, <1>3

\* Nobody writes an account above his authority, or hands out a capability that neither
\* the role carries nor he holds (users.ts:84).
THEOREM AuthorityIsNeverExceeded == MCSpec => EditsStayWithinAuthority
  <1>1. ASSUME AccountsInv, [MCNext]_deskVars, NEW u \in Accounts
        PROVE  Authorised(u)
    <2>1. CASE AccessNext
      <3>1. CASE \E b \in Browsers, v \in Accounts :
                     signedIn[b] # "nobody" /\ Edits(signedIn[b], v)
        BY <1>1, <3>1, EditsAreAuthorised DEF AccountsInv
      <3>2. CASE account' = account
        BY <3>2 DEF Authorised
      <3> QED BY <1>1, <2>1, <3>1, <3>2, AccountSteps DEF AccountsInv
    <2>2. CASE UNCHANGED accessVars
      BY <2>2 DEF Authorised, accessVars
    <2> QED BY <1>1, <2>1, <2>2
          DEF MCNext, AtAccounts, AtDesignations, AtLogging, AtScripts, deskVars
  <1>2. AccountsInv /\ [MCNext]_deskVars =>
            [\A u \in Accounts : Authorised(u)]_deskVars
    BY <1>1
  <1> QED BY <1>2, AccountsInvariant, PTL DEF MCSpec, EditsStayWithinAuthority

-----------------------------------------------------------------------------
(* Designations *)

\* What an employee and a record carry of a designation.
Copy == [id : Titles \union {NoTitle}, name : Name \union {NoName}]

Employee == [status : OnBooks \union {"unborn", "archived"},
             id : Titles \union {NoTitle}, name : Name \union {NoName}]

TitlesTypeOK ==
    /\ title \in [Titles -> Name \union {NoName, Deleted}]
    /\ staff \in [Staff -> Employee]
    /\ workday \in [Staff -> Copy]
    /\ returned \subseteq Staff

\* An id that was copied is not given to a new designation: ids are not used twice.
CopiesWereNamed ==
    \A w \in Staff : \A id \in {staff[w].id, workday[w].id} :
        id # NoTitle => title[id] # NoName

\* Whoever was hired has a designation, standing or not.
HiredHaveTitles == \A w \in Staff : staff[w].status # "unborn" => staff[w].id \in Titles

\* The inductive invariant of the designations.
TitlesInv == TitlesTypeOK /\ CopiesWereNamed /\ HiredHaveTitles /\ NamesAgree /\ RosterTitleExists

LEMMA NamesDiffer ==
    /\ NoName \notin Name /\ Deleted \notin Name /\ NoName # Deleted
    /\ NoTitle \notin Titles
  BY DesignationsAssumption DEF NoName, Deleted, Name, NoTitle

\* A designation is given its first or another name, which its copies already have.
LEMMA NamedTitles ==
    ASSUME TitlesInv, NEW d \in Titles, NEW n \in Name,
           title' = [title EXCEPT ![d] = n]
    PROVE  /\ title' \in [Titles -> Name \union {NoName, Deleted}]
           /\ \A e \in Titles : Stands(e)' <=> e = d \/ Stands(e)
           /\ \A e \in Titles : e # d => title'[e] = title[e]
           /\ title'[d] = n
  BY NamesDiffer DEF TitlesInv, TitlesTypeOK, Stands

LEMMA TitlesInvStep ==
    ASSUME TitlesInv, [MCNext]_deskVars
    PROVE  TitlesInv'
  <1> USE NamesDiffer DEF TitlesInv
  <1>1. ASSUME NEW d \in Titles, NEW n \in Name, AddDesignation(d, n)
        PROVE  TitlesInv'
    <2>1. title' = [title EXCEPT ![d] = n] /\ UNCHANGED <<staff, workday, returned>>
          /\ title[d] = NoName
      BY <1>1 DEF AddDesignation
    <2>2. \A w \in Staff : staff[w].id # d /\ workday[w].id # d
      BY <2>1 DEF CopiesWereNamed
    <2> QED BY <2>1, <2>2, NamedTitles
            DEF TitlesTypeOK, CopiesWereNamed, HiredHaveTitles, NamesAgree, RosterTitleExists, Stands
  <1>2. ASSUME NEW d \in Titles, NEW n \in Name, RenameDesignation(d, n)
        PROVE  TitlesInv'
    <2>1. /\ title' = [title EXCEPT ![d] = n] /\ returned' = returned
          /\ staff' = [w \in Staff |-> IF staff[w].id = d THEN [staff[w] EXCEPT !.name = n]
                                       ELSE staff[w]]
          /\ workday' = [w \in Staff |-> IF workday[w].id = d THEN [workday[w] EXCEPT !.name = n]
                                         ELSE workday[w]]
      BY <1>2 DEF RenameDesignation, Renamed
    <2>2. \A w \in Staff :
             /\ staff'[w] \in Employee /\ workday'[w] \in Copy
             /\ staff'[w].id = staff[w].id /\ staff'[w].status = staff[w].status
             /\ workday'[w].id = workday[w].id
             /\ staff'[w].name = IF staff[w].id = d THEN n ELSE staff[w].name
             /\ workday'[w].name = IF workday[w].id = d THEN n ELSE workday[w].name
      BY <2>1 DEF TitlesTypeOK, Employee, Copy
    <2>3. TitlesTypeOK'
      BY <2>1, <2>2, NamedTitles DEF TitlesTypeOK
    <2>4. CopiesWereNamed'
      BY <2>2, NamedTitles, <2>1 DEF CopiesWereNamed, TitlesTypeOK, Employee, Copy
    <2>5. NamesAgree'
      <3>1. ASSUME NEW w \in Staff, NEW copy \in {staff'[w], workday'[w]},
                   copy.id # NoTitle, Stands(copy.id)'
            PROVE  copy.name = title'[copy.id]
        <4>1. PICK old \in {staff[w], workday[w]} :
                 copy.id = old.id /\ copy.name = IF old.id = d THEN n ELSE old.name
          BY <2>2, <3>1
        <4>2. copy.id \in Titles
          BY <2>2, <3>1 DEF Employee, Copy
        <4>3. CASE copy.id = d
          BY <2>1, <4>1, <4>3, NamedTitles
        <4>4. CASE copy.id # d
          <5>1. title'[copy.id] = title[copy.id]
            BY <2>1, <4>2, <4>4, NamedTitles
          <5>2. Stands(old.id)
            BY <3>1, <4>1, <5>1 DEF Stands
          <5> QED BY <3>1, <4>1, <4>4, <5>1, <5>2 DEF NamesAgree
        <4> QED BY <4>3, <4>4
      <3> QED BY <3>1 DEF NamesAgree
    <2>6. HiredHaveTitles'
      BY <2>2 DEF HiredHaveTitles
    <2>7. RosterTitleExists'
      BY <2>1, <2>2, NamedTitles DEF RosterTitleExists, HiredHaveTitles, OnBooks, Stands
    <2> QED BY <2>3, <2>4, <2>5, <2>6, <2>7
  <1>3. ASSUME NEW d \in Titles, DeleteDesignation(d)
        PROVE  TitlesInv'
    <2>1. /\ title' = [title EXCEPT ![d] = Deleted] /\ UNCHANGED <<staff, workday, returned>>
          /\ \A w \in Staff : staff[w].status \in OnBooks => staff[w].id # d
      BY <1>3 DEF DeleteDesignation, Holders
    <2> QED BY <2>1
            DEF TitlesTypeOK, CopiesWereNamed, HiredHaveTitles, NamesAgree, RosterTitleExists, Stands
  <1>4. ASSUME NEW w \in Staff, NEW status \in OnBooks, ResolveDesignation(w, status)
        PROVE  TitlesInv'
    <2>1. returned' = returned \ {w} /\ workday' = workday
      BY <1>4 DEF ResolveDesignation
    <2>2. ASSUME NEW d \in Titles, NEW name \in Name,
                 staff' = [staff EXCEPT ![w] = [status |-> status, id |-> d, name |-> name]],
                 \/ Stands(d) /\ name = title[d] /\ title' = title
                 \/ title[d] = NoName /\ title' = [title EXCEPT ![d] = name]
          PROVE  TitlesInv'
      <3>1. /\ title' \in [Titles -> Name \union {NoName, Deleted}]
            /\ \A e \in Titles : Stands(e)' <=> e = d \/ Stands(e)
            /\ \A e \in Titles : e # d => title'[e] = title[e]
            /\ title'[d] = name
        BY <2>2, NamedTitles DEF TitlesTypeOK, Stands
      <3>2. \A v \in Staff : \A copy \in {staff[v], workday[v]} :
               copy.id = d => Stands(d) /\ name = title[d]
        BY <2>2 DEF CopiesWereNamed
      <3>3. staff' \in [Staff -> Employee] /\ TitlesTypeOK'
        BY <2>1, <2>2, <3>1 DEF TitlesTypeOK, Employee
      <3>4. CopiesWereNamed'
        BY <2>1, <2>2, <3>1 DEF CopiesWereNamed, TitlesTypeOK, Employee, Copy
      <3>5. NamesAgree'
        BY <2>1, <2>2, <3>1, <3>2 DEF NamesAgree, TitlesTypeOK, Employee, Copy
      <3>6. HiredHaveTitles'
        BY <2>2 DEF HiredHaveTitles, TitlesTypeOK
      <3>7. RosterTitleExists'
        <4>1. ASSUME NEW v \in Staff \ returned', staff'[v].status \in OnBooks
              PROVE  title'[staff'[v].id] \in Name
          <5>1. CASE v = w
            BY <2>2, <3>1, <4>1, <5>1 DEF TitlesTypeOK, Stands
          <5>2. CASE v # w
            <6>1. staff'[v] = staff[v] /\ v \notin returned /\ staff[v].id \in Titles
              BY <2>1, <2>2, <4>1, <5>2 DEF TitlesTypeOK, HiredHaveTitles, OnBooks
            <6> QED BY <3>1, <4>1, <6>1 DEF RosterTitleExists, Stands
          <5> QED BY <5>1, <5>2
        <4> QED BY <4>1 DEF RosterTitleExists, Stands
      <3> QED BY <3>3, <3>4, <3>5, <3>6, <3>7
    <2>3. CASE \E d \in Titles :
                  /\ Stands(d)
                  /\ staff' = [staff EXCEPT ![w] = [status |-> status, id |-> d, name |-> title[d]]]
                  /\ UNCHANGED title
      BY <2>2, <2>3 DEF Stands
    <2>4. CASE \E d \in Titles, n \in Name :
                  /\ title[d] = NoName /\ Alike(n) = {}
                  /\ title' = [title EXCEPT ![d] = n]
                  /\ staff' = [staff EXCEPT ![w] = [status |-> status, id |-> d, name |-> n]]
      BY <2>2, <2>4
    <2>5. ResolveDesignation(w, status)
      BY <1>4
    <2> QED BY <2>3, <2>4, <2>5 DEF ResolveDesignation
  <1>5. ASSUME NEW w \in Staff, Depart(w)
        PROVE  TitlesInv'
    BY <1>5 DEF Depart, TitlesTypeOK, CopiesWereNamed, HiredHaveTitles, NamesAgree, RosterTitleExists, Stands,
                Employee, OnBooks
  <1>6. ASSUME NEW w \in Staff, Return(w)
        PROVE  TitlesInv'
    BY <1>6 DEF Return, TitlesTypeOK, CopiesWereNamed, HiredHaveTitles, NamesAgree, RosterTitleExists, Stands,
                Employee, OnBooks
  <1>7. ASSUME NEW w \in Staff, WorkDay(w)
        PROVE  TitlesInv'
    BY <1>7 DEF WorkDay, TitlesTypeOK, CopiesWereNamed, HiredHaveTitles, NamesAgree, RosterTitleExists, Stands,
                Employee, Copy
  <1>8. CASE UNCHANGED titleVars
    BY <1>8 DEF titleVars, TitlesTypeOK, CopiesWereNamed, HiredHaveTitles, NamesAgree, RosterTitleExists, Stands
  <1>9. CASE DesignationsNext
    BY <1>1, <1>2, <1>3, <1>4, <1>5, <1>6, <1>7, <1>9
    DEF DesignationsNext, Hire, Reassign, OnBooks
  <1> QED BY <1>8, <1>9 DEF MCNext, AtAccounts, AtDesignations, AtLogging, AtScripts, deskVars

LEMMA TitlesInvariant == MCSpec => []TitlesInv
  <1>1. MCInit => TitlesInv
    BY NamesDiffer DEF MCInit, DesignationsInit, TitlesInv, TitlesTypeOK, CopiesWereNamed, HiredHaveTitles,
       NamesAgree, RosterTitleExists, Stands, Employee, Copy, NoDay, NoTitle, OnBooks
  <1>2. TitlesInv /\ [MCNext]_deskVars => TitlesInv'
    BY TitlesInvStep
  <1> QED BY <1>1, <1>2, PTL DEF MCSpec

\* The copies of a designation's name on employees, those who left included, and on
\* records never drift from it while it stands (designations.ts:94).
THEOREM CopiesFollowNames == MCSpec => []NamesAgree
  <1>1. TitlesInv => NamesAgree
    BY DEF TitlesInv
  <1> QED BY <1>1, TitlesInvariant, PTL

\* No deletion takes the designation of somebody on the books (designations.ts:105).
THEOREM RosterKeepsItsTitles == MCSpec => []RosterTitleExists
  <1>1. TitlesInv => RosterTitleExists
    BY DEF TitlesInv
  <1> QED BY <1>1, TitlesInvariant, PTL

-----------------------------------------------------------------------------
(* The Log Attendance page *)

\* A fix the server takes for a fenced site is inside it.
LEMMA GateIsTheFence ==
    ASSUME NEW s, IsFenced(s), NEW geo, Gate(s, geo) \in Allowed
    PROVE  geo = s
  <1>1. CASE geo # s
    <2>1. Gate(s, geo) \in {"no_fix", "outside"}
      BY <1>1 DEF Gate
    <2> QED BY <2>1 DEF Allowed
  <1> QED BY <1>1

\* No scan is let through at a fenced site from elsewhere, whatever the page unlocked,
\* kept of an older fix or mixed up between two sites (attendance.ts:148).
THEOREM FenceHolds == MCSpec => []RecordedInsideFence
  <1>1. MCInit => RecordedInsideFence
    BY LogScanAssumption DEF MCInit, LogInit, RecordedInsideFence, IsFenced
  <1>2. ASSUME RecordedInsideFence, LogNext
        PROVE  RecordedInsideFence'
    <2>1. CASE logged' = logged
      BY <1>2, <2>1 DEF RecordedInsideFence
    <2>2. ASSUME NEW i \in Scans, Gate(scans[i].site, scans[i].geo) \in Allowed,
                 logged' = [site |-> scans[i].site, geo |-> scans[i].geo]
          PROVE  RecordedInsideFence'
      BY <2>2, GateIsTheFence DEF RecordedInsideFence
    <2>3. logged' = logged \/ \E i \in Scans : Scan(i)
      BY <1>2 DEF LogNext, Travel, ToggleAuto, SetAction, VerifyLocation, CheckLocated,
                  GeoCheck, CheckAnswered, DoScan, ScanLocated, ScanAnswered
    <2> QED BY <2>1, <2>2, <2>3 DEF Scan
  <1>3. RecordedInsideFence /\ [MCNext]_deskVars => RecordedInsideFence'
    <2>1. UNCHANGED logVars => (RecordedInsideFence => RecordedInsideFence')
      BY DEF logVars, RecordedInsideFence
    <2> QED BY <1>2, <2>1
            DEF MCNext, AtAccounts, AtDesignations, AtLogging, AtScripts, deskVars
  <1> QED BY <1>1, <1>3, PTL DEF MCSpec

-----------------------------------------------------------------------------
(* The scripts *)

SiteRecord ==
    [id : (Codes \union {"none"}) \X Nat, status : {"unset", "active"},
     shifts : {"unset", "default", "office"}]

PersonRecord ==
    [status : {"unborn", "active", "deleted", "archived"},
     site : (Codes \union {"none"}) \X Nat, trade : Trades \union {"none"}]

\* A site that exists has an id of its code, given when it was inserted.
IdsAreNumbered ==
    \A c \in Codes : projectSite[c] # NoSite => projectSite[c].id \in {c} \X (0 .. inserted)

\* The inductive invariant of the scripts.
ScriptsInv ==
    /\ inserted \in Nat
    /\ projectSite \in [Codes -> SiteRecord]
    /\ person \in [People -> PersonRecord]
    /\ IdsAreNumbered
    /\ WorkersAreHoused

\* What a step may do to the site of a code: it stays, with its id and any shifts of the
\* office, or all sites are replaced by sites with new ids.
SiteStays(c) ==
    /\ projectSite[c] # NoSite => projectSite'[c] # NoSite /\ projectSite'[c].id = projectSite[c].id
    /\ projectSite[c].shifts = "office" => projectSite'[c].shifts = "office"
    /\ projectSite'[c] # NoSite /\ projectSite[c] = NoSite =>
          projectSite'[c].id = <<c, inserted + 1>> /\ inserted' = inserted + 1
    /\ projectSite'[c] \in SiteRecord

SitesStay ==
    /\ \A c \in Codes : SiteStays(c)
    /\ projectSite' = [c \in Codes |-> projectSite'[c]]
    /\ inserted' \in {inserted, inserted + 1}

LEMMA SitesThatStay ==
    ASSUME ScriptsInv, SitesStay
    PROVE  /\ SiteIds \subseteq SiteIds'
           /\ projectSite' \in [Codes -> SiteRecord] /\ inserted' \in Nat /\ IdsAreNumbered'
  <1>1. SiteIds \subseteq SiteIds'
    BY DEF SitesStay, SiteStays, SiteIds, ScriptsInv
  <1>2. projectSite' \in [Codes -> SiteRecord] /\ inserted' \in Nat
    BY DEF SitesStay, SiteStays, ScriptsInv
  <1>3. ASSUME NEW c \in Codes, projectSite'[c] # NoSite
        PROVE  projectSite'[c].id \in {c} \X (0 .. inserted')
    <2>1. CASE projectSite[c] # NoSite
      <3>1. projectSite'[c].id = projectSite[c].id
        BY <1>3, <2>1 DEF SitesStay, SiteStays
      <3>2. PICK n \in 0 .. inserted : projectSite[c].id = <<c, n>>
        BY <2>1 DEF ScriptsInv, IdsAreNumbered
      <3>3. n \in 0 .. inserted'
        BY DEF ScriptsInv, SitesStay
      <3> QED BY <3>1, <3>2, <3>3
    <2>2. CASE projectSite[c] = NoSite
      <3>1. projectSite'[c].id = <<c, inserted + 1>> /\ inserted' = inserted + 1
        BY <1>3, <2>2 DEF SitesStay, SiteStays
      <3>2. inserted + 1 \in 0 .. inserted'
        BY <3>1 DEF ScriptsInv
      <3> QED BY <3>1, <3>2
    <2> QED BY <2>1, <2>2
  <1> QED BY <1>1, <1>2, <1>3 DEF IdsAreNumbered

LEMMA OneSiteKind ==
    ASSUME NEW c \in Codes
    PROVE  /\ NoSite \in SiteRecord /\ NoSite.shifts = "unset"
           /\ \A n \in Nat, shifts \in {"default", "office"} :
                 /\ [id |-> <<c, n>>, status |-> "active", shifts |-> shifts] \in SiteRecord
                 /\ [id |-> <<c, n>>, status |-> "active", shifts |-> shifts] # NoSite
           /\ \A site \in SiteRecord : site # NoSite =>
                 /\ [site EXCEPT !.shifts = "office"] \in SiteRecord \ {NoSite}
                 /\ [site EXCEPT !.shifts = "default"] \in SiteRecord \ {NoSite}
                 /\ [site EXCEPT !.status = "active"] \in SiteRecord \ {NoSite}
  BY DEF NoSite, NoId, SiteRecord

\* Every operation but the import leaves the sites where they are.
LEMMA OperationsKeepSites ==
    ASSUME ScriptsInv,
           \/ Seed \/ MigrateLevels \/ MigrateShifts \/ MigrateRoles
           \/ DemoStaff \/ DemoPrep \/ CleanDemo
           \/ \E p \in People : DeletePerson(p) \/ UndoDeletion(p) \/ MovePerson(p)
           \/ \E c \in Codes : EditShifts(c)
    PROVE  SitesStay
  <1>1. CASE Seed
    <2>1. /\ projectSite' = [c \in Codes |-> IF c \in SeedCodes THEN Upserted(c) ELSE projectSite[c]]
          /\ inserted' = inserted + 1 /\ inserted + 1 \in Nat
      BY <1>1 DEF Seed, ScriptsInv
    <2>2. ASSUME NEW c \in Codes
          PROVE  SiteStays(c)
      <3>1. CASE projectSite[c] # NoSite
        <4>1. projectSite'[c] = projectSite[c]
          BY <2>1, <3>1 DEF Upserted
        <4> QED BY <3>1, <4>1 DEF SiteStays, ScriptsInv
      <3>2. CASE projectSite[c] = NoSite
        <4>1. projectSite'[c] \in {NoSite, [id |-> <<c, inserted + 1>>, status |-> "active", shifts |-> "default"]}
          BY <2>1, <3>2 DEF Upserted
        <4>2. projectSite[c].shifts = "unset"
          BY <3>2 DEF NoSite
        <4>3. NoSite \in SiteRecord
              /\ [id |-> <<c, inserted + 1>>, status |-> "active", shifts |-> "default"] \in SiteRecord
          BY <2>1, OneSiteKind
        <4> QED BY <2>1, <3>2, <4>1, <4>2, <4>3 DEF SiteStays
      <3> QED BY <3>1, <3>2
    <2> QED BY <2>1, <2>2 DEF SitesStay
  <1>2. CASE MigrateLevels
    <2>1. /\ projectSite' = [c \in Codes |-> IF projectSite[c] # NoSite /\ projectSite[c].status = "unset"
                                       THEN [projectSite[c] EXCEPT !.status = "active"] ELSE projectSite[c]]
          /\ inserted' = inserted
      BY <1>2 DEF MigrateLevels
    <2>2. ASSUME NEW c \in Codes
          PROVE  SiteStays(c)
      <3>1. projectSite[c] \in SiteRecord
        BY DEF ScriptsInv
      <3>2. CASE projectSite[c] # NoSite /\ projectSite[c].status = "unset"
        <4>1. projectSite'[c] = [projectSite[c] EXCEPT !.status = "active"]
          BY <2>1, <3>2
        <4>2. projectSite'[c].id = projectSite[c].id /\ projectSite'[c].shifts = projectSite[c].shifts
          BY <3>1, <4>1 DEF SiteRecord
        <4> QED BY <3>1, <3>2, <4>1, <4>2, OneSiteKind DEF SiteStays
      <3>3. CASE ~ (projectSite[c] # NoSite /\ projectSite[c].status = "unset")
        <4>1. projectSite'[c] = projectSite[c]
          BY <2>1, <3>3
        <4> QED BY <3>1, <4>1 DEF SiteStays
      <3> QED BY <3>2, <3>3
    <2> QED BY <2>1, <2>2 DEF SitesStay
  <1>3. CASE MigrateShifts
    <2>1. /\ projectSite' = [c \in Codes |-> IF c \in NeedsShifts
                                       THEN [projectSite[c] EXCEPT !.shifts = "default"] ELSE projectSite[c]]
          /\ inserted' = inserted
      BY <1>3 DEF MigrateShifts
    <2>2. ASSUME NEW c \in Codes
          PROVE  SiteStays(c)
      BY <2>1, OneSiteKind DEF SiteStays, ScriptsInv, SiteRecord, NeedsShifts
    <2> QED BY <2>1, <2>2 DEF SitesStay
  <1>4. CASE \E c \in Codes : EditShifts(c)
    <2>1. PICK c \in Codes : /\ projectSite[c] # NoSite /\ inserted' = inserted
                             /\ projectSite' = [projectSite EXCEPT ![c].shifts = "office"]
      BY <1>4 DEF EditShifts
    <2>2. ASSUME NEW d \in Codes
          PROVE  SiteStays(d)
      BY <2>1, OneSiteKind DEF SiteStays, ScriptsInv, SiteRecord
    <2> QED BY <2>1, <2>2 DEF SitesStay, ScriptsInv
  <1>5. CASE UNCHANGED <<projectSite, inserted>>
    BY <1>5 DEF SitesStay, SiteStays, ScriptsInv
  <1>6. CASE \/ MigrateRoles \/ DemoStaff \/ DemoPrep \/ CleanDemo
             \/ \E p \in People : DeletePerson(p) \/ UndoDeletion(p) \/ MovePerson(p)
    BY <1>5, <1>6 DEF MigrateRoles, DemoStaff, DemoPrep, CleanDemo, DeletePerson,
                      UndoDeletion, MovePerson
  <1> QED BY <1>1, <1>2, <1>3, <1>4, <1>6

\* Whoever is at work, was moved or prepared for the demo has a site that exists.
LEMMA OperationsKeepHousing ==
    ASSUME ScriptsInv, SitesStay,
           \/ Seed \/ MigrateLevels \/ MigrateShifts \/ MigrateRoles
           \/ DemoStaff \/ DemoPrep \/ CleanDemo
           \/ \E p \in People : DeletePerson(p) \/ UndoDeletion(p) \/ MovePerson(p)
           \/ \E c \in Codes : EditShifts(c)
    PROVE  person' \in [People -> PersonRecord] /\ WorkersAreHoused'
  <1>1. \A id : id \in SiteIds => id \in SiteIds'
    BY SitesThatStay
  <1>2. SiteIds \subseteq (Codes \union {"none"}) \X Nat
    BY DEF SiteIds, ScriptsInv, SiteRecord
  <1>5. person = [q \in People |-> person[q]]
    BY DEF ScriptsInv
  <1>12. person' = [q \in People |-> person'[q]]
    BY <1>5 DEF Seed, MigrateLevels, MigrateShifts, MigrateRoles, DemoStaff, DemoPrep, CleanDemo,
                DeletePerson, UndoDeletion, MovePerson, EditShifts
  \* It is enough that everybody keeps his site, gets one that exists, or is absent.
  <1>3. SUFFICES ASSUME NEW p \in People
                 PROVE  /\ person'[p] \in PersonRecord
                        /\ person'[p] # Absent => person'[p].site \in SiteIds'
    BY <1>12 DEF WorkersAreHoused
  <1>4. person[p] \in PersonRecord /\ (person[p] # Absent => person[p].site \in SiteIds)
    BY DEF ScriptsInv, WorkersAreHoused
  <1>6. CASE UNCHANGED person
    BY <1>1, <1>4, <1>5, <1>6
  <1>7. CASE MigrateLevels
    <2>1. person' = [q \in People |-> IF person[q].status = "deleted"
                        THEN [person[q] EXCEPT !.status = "archived"] ELSE person[q]]
      BY <1>7 DEF MigrateLevels
    <2>2. CASE person[p].status = "deleted"
      <3>1. person'[p] = [person[p] EXCEPT !.status = "archived"] /\ person[p] # Absent
        BY <2>1, <2>2 DEF Absent
      <3> QED BY <1>1, <1>4, <2>1, <3>1 DEF PersonRecord
    <2>3. CASE person[p].status # "deleted"
      BY <1>1, <1>4, <2>1, <2>3
    <2> QED BY <2>2, <2>3
  <1>8. CASE DemoPrep
    <2>1. PICK home : /\ home = projectSite[DemoCode].id
                      /\ person' = [q \in People |-> IF q \in DemoPeople
                            THEN [status |-> "active", site |-> home, trade |-> "none"] ELSE person[q]]
      BY <1>8 DEF DemoPrep
    <2>2. home \in SiteIds
      BY <1>8, <2>1, ScriptsAssumption DEF DemoPrep, SiteIds, Codes
    <2>3. CASE p \in DemoPeople
      BY <1>1, <1>2, <2>1, <2>2, <2>3 DEF PersonRecord
    <2>4. CASE p \notin DemoPeople
      BY <1>1, <1>4, <2>1, <2>4
    <2> QED BY <2>3, <2>4
  <1>9. CASE CleanDemo
    <2>1. person' = [q \in People |-> IF q \in DemoPeople THEN Absent ELSE person[q]]
      BY <1>9 DEF CleanDemo
    <2>2. Absent \in PersonRecord
      BY DEF Absent, PersonRecord, NoId
    <2> QED BY <1>1, <1>4, <2>1, <2>2
  <1>10. CASE \E q \in People : DeletePerson(q) \/ UndoDeletion(q)
    <2>1. PICK q \in People, status \in {"active", "deleted"} :
             /\ person' = [person EXCEPT ![q].status = status]
             /\ person[q].status \in {"active", "deleted"}
      BY <1>10 DEF DeletePerson, UndoDeletion
    <2>2. CASE p = q
      <3>1. person'[p] = [person[p] EXCEPT !.status = status] /\ person[p] # Absent
        BY <1>5, <2>1, <2>2 DEF Absent
      <3>2. person'[p].site = person[p].site
        BY <1>4, <3>1 DEF PersonRecord
      <3> QED BY <1>1, <1>4, <1>5, <2>1, <3>1, <3>2 DEF PersonRecord
    <2>3. CASE p # q
      BY <1>1, <1>4, <1>5, <2>1, <2>3
    <2> QED BY <2>2, <2>3
  <1>11. CASE \E q \in People : MovePerson(q)
    <2>1. PICK q \in People, id \in SiteIds : person' = [person EXCEPT ![q].site = id]
      BY <1>11 DEF MovePerson
    <2>2. CASE p = q
      <3>1. person'[p] = [person[p] EXCEPT !.site = id]
        BY <1>5, <2>1, <2>2
      <3> QED BY <1>1, <1>2, <1>4, <1>5, <2>1, <3>1 DEF PersonRecord
    <2>3. CASE p # q
      BY <1>1, <1>4, <1>5, <2>1, <2>3
    <2> QED BY <2>2, <2>3
  <1> QED BY <1>6, <1>7, <1>8, <1>9, <1>10, <1>11
          DEF Seed, MigrateShifts, MigrateRoles, DemoStaff, EditShifts

\* The import inserts every site anew and houses whom it lists in one of them.
LEMMA ImportHousesEverybody ==
    ASSUME ScriptsInv, ImportMaster
    PROVE  /\ ScriptsInv'
           /\ \A c \in Codes : projectSite'[c].id = projectSite[c].id => projectSite[c] = NoSite
  <1> DEFINE n       == inserted + 1
             made(c) == [id |-> <<c, n>>, status |-> "active", shifts |-> "default"]
  <1>1. n \in Nat /\ inserted' = n
    BY DEF ImportMaster, ScriptsInv
  <1>2. PICK active \in SUBSET Listed, t \in Trades,
             sheet \in (ImportCodes \ {Pool}) \union {"none"},
             location \in (ImportCodes \ {Pool}) \union {"none"} :
          /\ projectSite' = [c \in Codes |-> IF c \in ImportCodes THEN made(c) ELSE NoSite]
          /\ person' = [p \in People |->
                IF p \in active
                THEN [status |-> "active", site |-> <<SiteOf(sheet, location), n>>, trade |-> t]
                ELSE ClearedRoster[p]]
          /\ designation' = {t}
    BY Zenon DEF ImportMaster
  <1>3. SiteOf(sheet, location) \in ImportCodes
    BY ScriptsAssumption DEF SiteOf
  <1>4. \A c \in Codes : made(c) \in SiteRecord /\ made(c) # NoSite /\ made(c).id = <<c, n>>
    BY <1>1, OneSiteKind
  <1>5. NoSite \in SiteRecord /\ NoSite.id = <<"none", 0>>
    BY DEF NoSite, NoId, SiteRecord
  <1> HIDE DEF made
  <1>6. projectSite' \in [Codes -> SiteRecord] /\ IdsAreNumbered'
    <2>1. \A c \in Codes : <<c, n>> \in {c} \X (0 .. n)
      BY <1>1
    <2> QED BY <1>1, <1>2, <1>4, <1>5, <2>1 DEF IdsAreNumbered
  <1>7. <<SiteOf(sheet, location), n>> \in SiteIds'
    <2>1. projectSite'[SiteOf(sheet, location)] = made(SiteOf(sheet, location))
      BY <1>2, <1>3 DEF Codes
    <2> QED BY <1>3, <1>4, <2>1 DEF SiteIds, Codes
  <1>8. WorkersAreHoused' /\ person' \in [People -> PersonRecord]
    <2>1. Absent \in PersonRecord /\ \A p \in People : ClearedRoster[p] = Absent
      BY DEF Absent, PersonRecord, NoId, ClearedRoster
    <2>2. [status |-> "active", site |-> <<SiteOf(sheet, location), n>>, trade |-> t] \in PersonRecord
      BY <1>1, <1>3 DEF PersonRecord, Codes
    <2>3. \A p \in People :
             person'[p] \in {Absent, [status |-> "active", site |-> <<SiteOf(sheet, location), n>>, trade |-> t]}
      BY <1>2, <2>1
    <2> QED BY <1>2, <1>7, <2>1, <2>2, <2>3 DEF WorkersAreHoused
  <1>9. ASSUME NEW c \in Codes, projectSite[c] # NoSite
        PROVE  projectSite'[c].id # projectSite[c].id
    <2>1. PICK k \in 0 .. inserted : projectSite[c].id = <<c, k>>
      BY <1>9 DEF ScriptsInv, IdsAreNumbered
    <2>2. k # n /\ c # "none"
      BY <1>1, ScriptsAssumption DEF ScriptsInv, Codes
    <2>3. projectSite'[c].id \in {<<c, n>>, <<"none", 0>>}
      BY <1>2, <1>4, <1>5
    <2> QED BY <2>1, <2>2, <2>3
  <1> QED BY <1>1, <1>6, <1>8, <1>9 DEF ScriptsInv

LEMMA ScriptsSteps ==
    ASSUME ScriptsNext
    PROVE  \/ ImportMaster
           \/ \/ Seed \/ MigrateLevels \/ MigrateShifts \/ MigrateRoles
              \/ DemoStaff \/ DemoPrep \/ CleanDemo
              \/ \E p \in People : DeletePerson(p) \/ UndoDeletion(p) \/ MovePerson(p)
              \/ \E c \in Codes : EditShifts(c)
  BY DEF ScriptsNext

LEMMA ScriptsInvariant == MCSpec => []ScriptsInv
  <1>1. ASSUME MCInit
        PROVE  ScriptsInv
    <2>1. inserted = 0
          /\ projectSite = [c \in Codes |-> IF c \in SeedCodes THEN [NoSite EXCEPT !.id = <<c, 0>>] ELSE NoSite]
      BY <1>1 DEF MCInit, ScriptsInit
    <2>2. PICK old \in {"active", "deleted"}, t \in Trades :
          person = [p \in People |-> IF p \in Listed
                        THEN [status |-> old, site |-> <<DemoCode, 0>>, trade |-> t] ELSE Absent]
      BY <1>1 DEF MCInit, ScriptsInit
    <2>3. projectSite \in [Codes -> SiteRecord] /\ IdsAreNumbered
      BY <2>1 DEF IdsAreNumbered, NoSite, NoId, SiteRecord
    <2>4. <<DemoCode, 0>> \in SiteIds
      BY <2>1, ScriptsAssumption DEF SiteIds, Codes, NoSite, NoId
    <2>5. person \in [People -> PersonRecord]
      BY <2>2, ScriptsAssumption DEF PersonRecord, Absent, NoId, Codes
    <2>6. WorkersAreHoused
      BY <2>2, <2>4 DEF WorkersAreHoused
    <2> QED BY <2>1, <2>3, <2>5, <2>6 DEF ScriptsInv
  <1>2. ASSUME ScriptsInv, [MCNext]_deskVars
        PROVE  ScriptsInv'
    <2>1. CASE ScriptsNext
      <3>1. CASE ImportMaster
        BY <1>2, <3>1, ImportHousesEverybody
      <3>2. CASE ~ ImportMaster
        BY <1>2, <2>1, <3>2, ScriptsSteps, OperationsKeepSites, OperationsKeepHousing,
           SitesThatStay DEF ScriptsInv
      <3> QED BY <3>1, <3>2
    <2>2. CASE UNCHANGED scriptVars
      BY <1>2, <2>2 DEF scriptVars, ScriptsInv, IdsAreNumbered, WorkersAreHoused, SiteIds
    <2> QED BY <1>2, <2>1, <2>2
            DEF MCNext, AtAccounts, AtDesignations, AtLogging, AtScripts, deskVars
  <1> QED BY <1>1, <1>2, PTL DEF MCSpec

\* No order of scripts and edits leaves somebody on the roster at a site that is gone
\* (import_master_data.ts:105).
THEOREM EverybodyIsHoused == MCSpec => []WorkersAreHoused
  <1>1. ScriptsInv => WorkersAreHoused
    BY DEF ScriptsInv
  <1> QED BY <1>1, ScriptsInvariant, PTL

\* No script overwrites the shifts the office set at a site that stays
\* (migrate_shifts.ts:15).
THEOREM ScriptsKeepShifts == MCSpec => SetShiftsAreKept
  <1>1. ASSUME ScriptsInv, [MCNext]_deskVars, NEW c \in Codes,
               projectSite[c].shifts = "office", projectSite'[c].id = projectSite[c].id
        PROVE  projectSite'[c].shifts = "office"
    <2>1. CASE ScriptsNext
      <3>1. projectSite[c] # NoSite
        BY <1>1 DEF NoSite
      <3>2. SitesStay
        BY <1>1, <2>1, <3>1, ScriptsSteps, OperationsKeepSites, ImportHousesEverybody
      <3> QED BY <1>1, <3>2 DEF SitesStay, SiteStays
    <2>2. CASE UNCHANGED scriptVars
      BY <1>1, <2>2 DEF scriptVars
    <2> QED BY <1>1, <2>1, <2>2
            DEF MCNext, AtAccounts, AtDesignations, AtLogging, AtScripts, deskVars
  <1>2. ScriptsInv /\ [MCNext]_deskVars =>
           [\A c \in Codes :
              projectSite[c].shifts = "office" /\ projectSite'[c].id = projectSite[c].id
                  => projectSite'[c].shifts = "office"]_deskVars
    BY <1>1
  <1> QED BY <1>2, ScriptsInvariant, PTL DEF MCSpec, SetShiftsAreKept

-----------------------------------------------------------------------------
(* The reports *)

\* What a report is read from: every employee has a primary site that exists, every
\* record a site, and there is a place for a record on every date up to today.
Snapshot(db) ==
    /\ Nowhere \notin DOMAIN db.site /\ Nowhere \notin BranchesOf(db)
    /\ \E dates \in SUBSET Int : /\ 1 .. db.today \subseteq dates
                                 /\ DOMAIN db.day = (DOMAIN db.employee) \X dates
    /\ \A k \in DOMAIN db.day : db.day[k].site \in DOMAIN db.site \union {Nowhere}
    /\ \A e \in DOMAIN db.employee : /\ db.employee[e].siteId \in DOMAIN db.site
                                     /\ db.employee[e].joined \in Int
    /\ db.today \in Nat

AnyFilter(db) == [site : DOMAIN db.site \union {Nowhere}, branch : BranchesOf(db) \union {Nowhere},
                  from : Nat, to : Nat]

LEMMA KeysArePairs ==
    ASSUME NEW db, Snapshot(db)
    PROVE  /\ \A k \in DOMAIN db.day : k = <<k[1], k[2]>> /\ k[1] \in DOMAIN db.employee /\ k[2] \in Int
           /\ \A e \in DOMAIN db.employee : \A d \in 1 .. db.today : <<e, d>> \in DOMAIN db.day
  <1>1. PICK dates \in SUBSET Int :
          1 .. db.today \subseteq dates /\ DOMAIN db.day = (DOMAIN db.employee) \X dates
    BY DEF Snapshot
  <1>2. \A k \in (DOMAIN db.employee) \X dates :
          k = <<k[1], k[2]>> /\ k[1] \in DOMAIN db.employee /\ k[2] \in dates
    OBVIOUS
  <1>3. \A e \in DOMAIN db.employee : \A d \in dates : <<e, d>> \in (DOMAIN db.employee) \X dates
    OBVIOUS
  <1> QED BY <1>1, <1>2, <1>3

\* Nobody is absent on a day twice, or on a day with a record.
LEMMA AbsentOnce ==
    ASSUME NEW db, Snapshot(db), NEW user, NEW f \in AnyFilter(db)
    PROVE  OneRowPerDay(db, user, f)
  <1>1. \A row \in AbsentRows(db, user, f) :
          /\ row[1] \in DOMAIN db.employee /\ row[2] \in 1 .. db.today
          /\ row[3] \in AbsentSites(db, user, f, row[1])
          /\ <<row[1], row[2]>> \notin Records(db)
    <2> TAKE row \in AbsentRows(db, user, f)
    <2>1. /\ row[1] \in DOMAIN db.employee /\ row[2] \in EligibleDates(db, f)
          /\ row[3] \in AbsentSites(db, user, f, row[1])
          /\ <<row[1], row[2]>> \notin Records(db)
      BY DEF AbsentRows, Presence
    <2>2. row[2] \in 1 .. db.today
      BY <2>1 DEF EligibleDates, AnyFilter, Snapshot
    <2> QED BY <2>1, <2>2
  <1>2. \A e \in DOMAIN db.employee : \A x, y \in AbsentSites(db, user, f, e) : x = y
    BY DEF AbsentSites
  <1>3. \A e \in DOMAIN db.employee : \A d \in 1 .. db.today :
          <<e, d>> \notin Records(db) => db.day[<<e, d>>].site = Nowhere
    BY KeysArePairs DEF Records
  <1> QED BY <1>1, <1>2, <1>3 DEF OneRowPerDay

\* The branch a row of a report is of: the one its record was written in, and for an
\* absence the one its site is in now.
RowBranch(db, row) ==
    IF <<row[1], row[2]>> \in Records(db) THEN db.day[<<row[1], row[2]>>].branch
    ELSE db.site[row[3]].branch

\* The row of a record on a report, and the two kinds of rows.
Line(db, k) == <<k[1], k[2], db.day[k].site>>

LEMMA BranchOfRow ==
    ASSUME NEW db, Snapshot(db), NEW user, NEW f
    PROVE  /\ \A k \in PresentRows(db, user, f) :
                 k \in Records(db) /\ RowBranch(db, Line(db, k)) = db.day[k].branch
           /\ \A row \in AbsentRows(db, user, f) : RowBranch(db, row) = db.site[row[3]].branch
           /\ Rows(db, user, f) = {Line(db, k) : k \in PresentRows(db, user, f)}
                                     \union AbsentRows(db, user, f)
  <1>1. ASSUME NEW k \in PresentRows(db, user, f)
        PROVE  k \in Records(db) /\ RowBranch(db, Line(db, k)) = db.day[k].branch
    <2>1. k \in Records(db) /\ k \in DOMAIN db.day
      BY <1>1 DEF PresentRows, Records
    <2>2. k = <<k[1], k[2]>>
      BY <2>1, KeysArePairs
    <2>3. Line(db, k)[1] = k[1] /\ Line(db, k)[2] = k[2]
      BY DEF Line
    <2> QED BY <2>1, <2>2, <2>3 DEF RowBranch
  <1>2. ASSUME NEW row \in AbsentRows(db, user, f)
        PROVE  RowBranch(db, row) = db.site[row[3]].branch
    BY <1>2 DEF AbsentRows, Presence, RowBranch
  <1> QED BY <1>1, <1>2 DEF Rows, Line

\* The rows of a branch's report are those of the report of all that are of the branch.
LEMMA RowsOfBranch ==
    ASSUME NEW db, Snapshot(db), NEW user, NEW f \in AnyFilter(db), f.branch = Nowhere,
           NEW b \in BranchesOf(db)
    PROVE  Rows(db, user, [f EXCEPT !.branch = b])
             = {row \in Rows(db, user, f) : RowBranch(db, row) = b}
  <1> DEFINE g == [f EXCEPT !.branch = b]
  <1>1. g \in AnyFilter(db) /\ g.branch = b /\ g.site = f.site /\ g.from = f.from /\ g.to = f.to
        /\ b # Nowhere
    BY DEF AnyFilter, Snapshot
  <1> HIDE DEF g
  <1>2. SiteFilter(user, g) = SiteFilter(user, f) /\ \A d : Within(g, d) <=> Within(f, d)
    BY <1>1 DEF SiteFilter, Within
  <1>3. PresentRows(db, user, g) = {k \in PresentRows(db, user, f) : db.day[k].branch = b}
    BY <1>1, <1>2 DEF PresentRows
  <1>4. AbsentRows(db, user, g) = {row \in AbsentRows(db, user, f) : db.site[row[3]].branch = b}
    <2>1. /\ EligibleDates(db, g) = EligibleDates(db, f) /\ Presence(db, user, g) = Presence(db, user, f)
          /\ \A e : OnReport(db, user, g, e) <=> OnReport(db, user, f, e)
          /\ \A e : AbsentSites(db, user, g, e) = AbsentSites(db, user, f, e)
      BY <1>1, <1>2 DEF EligibleDates, Presence, OnReport, AbsentSites
    <2> QED BY <1>1, <2>1 DEF AbsentRows
  <1> DEFINE present(h) == {Line(db, k) : k \in PresentRows(db, user, h)}
  <1>5. present(g) = {row \in present(f) : RowBranch(db, row) = b}
    BY <1>3, BranchOfRow
  <1>6. AbsentRows(db, user, g) = {row \in AbsentRows(db, user, f) : RowBranch(db, row) = b}
    BY <1>4, BranchOfRow
  <1>7. /\ Rows(db, user, g) = present(g) \union AbsentRows(db, user, g)
        /\ Rows(db, user, f) = present(f) \union AbsentRows(db, user, f)
    BY BranchOfRow
  <1> HIDE DEF present
  <1> QED BY <1>5, <1>6, <1>7 DEF g

\* The rows of a report are of the branches of the sites and of the records.
LEMMA RowsHaveBranches ==
    ASSUME NEW db, Snapshot(db), NEW user, NEW f \in AnyFilter(db), NEW row \in Rows(db, user, f)
    PROVE  RowBranch(db, row) \in BranchesOf(db)
  <1>1. CASE row \in {Line(db, k) : k \in PresentRows(db, user, f)}
    <2>1. PICK k \in PresentRows(db, user, f) : row = Line(db, k)
      BY <1>1
    <2> QED BY <2>1, BranchOfRow DEF BranchesOf
  <1>2. CASE row \in AbsentRows(db, user, f)
    <2>1. row[3] \in DOMAIN db.site
      BY <1>2 DEF AbsentRows
    <2> QED BY <1>2, <2>1, BranchOfRow DEF BranchesOf
  <1> QED BY <1>1, <1>2, BranchOfRow

LEMMA ReportsOfBranches ==
    ASSUME NEW db, Snapshot(db), NEW user, NEW f \in AnyFilter(db), f.branch = Nowhere
    PROVE  BranchesPartition(db, user, f)
  <1> DEFINE all == Rows(db, user, f)
             branch(b) == Rows(db, user, [f EXCEPT !.branch = b])
  <1>1. \A b \in BranchesOf(db) : branch(b) = {row \in all : RowBranch(db, row) = b}
    BY RowsOfBranch
  <1>2. \A row \in all : RowBranch(db, row) \in BranchesOf(db)
    BY RowsHaveBranches
  <1> HIDE DEF all, branch
  <1>3. all = UNION {branch(b) : b \in BranchesOf(db)}
    <2>1. \A row \in all : \E b \in BranchesOf(db) : row \in branch(b)
      BY <1>1, <1>2
    <2>2. \A b \in BranchesOf(db) : branch(b) \subseteq all
      BY <1>1
    <2> QED BY <2>1, <2>2
  <1>4. \A b, c \in BranchesOf(db) : b # c => branch(b) \cap branch(c) = {}
    BY <1>1
  <1> QED BY <1>3, <1>4 DEF BranchesPartition, all, branch

LEMMA EverybodyHasARow ==
    ASSUME NEW db, Snapshot(db), NEW user, NEW f \in AnyFilter(db), f.branch = Nowhere
    PROVE  NobodyIsMissing(db, user, f)
  <1> SUFFICES ASSUME user.all, f.site = Nowhere, f.from # 0, f.to - f.from \in 0 .. MaxSpan - 1,
                      NEW e \in DOMAIN db.employee, NEW d \in f.from .. f.to,
                      db.employee[e].status = "active", db.employee[e].joined <= d, d <= db.today
               PROVE  \E row \in Rows(db, user, f) : row[1] = e /\ row[2] = d
    BY DEF NobodyIsMissing
  <1>1. /\ f.from \in Nat /\ f.to \in Nat /\ f.from <= d /\ d <= f.to /\ f.from <= f.to
        /\ d \in 1 .. db.today /\ f.to # 0 /\ db.employee[e].joined \in Int
    BY FiguresAssumption DEF AnyFilter, Snapshot
  <1>2. SiteFilter(user, f) = Nowhere /\ Within(f, d)
    BY <1>1 DEF SiteFilter, Within
  <1>3. CASE <<e, d>> \in Records(db)
    <2> DEFINE k == <<e, d>>
    <2>1. k \in PresentRows(db, user, f)
      BY <1>2, <1>3 DEF PresentRows, CanUseSite
    <2>2. <<e, d, db.day[k].site>> \in Rows(db, user, f)
      BY <2>1 DEF Rows
    <2> QED BY <2>2
  <1>4. CASE <<e, d>> \notin Records(db)
    <2> DEFINE row == <<e, d, db.employee[e].siteId>>
    <2>1. d \in EligibleDates(db, f)
      <3>1. ~ (f.to - f.from >= MaxSpan)
        BY <1>1, FiguresAssumption
      <3> QED BY <1>1, <3>1 DEF EligibleDates
    <2>2. OnReport(db, user, f, e)
      BY <1>2 DEF OnReport, CanUseWorker
    <2>3. AbsentSites(db, user, f, e) = {db.employee[e].siteId} /\ db.employee[e].siteId \in DOMAIN db.site
      BY <1>2 DEF AbsentSites, Snapshot
    <2>4. row \in AbsentRows(db, user, f)
      BY <1>1, <1>4, <2>1, <2>2, <2>3 DEF AbsentRows, Presence
    <2>5. row \in Rows(db, user, f)
      BY <2>4 DEF Rows
    <2> QED BY <2>5
  <1> QED BY <1>3, <1>4

\* Whatever the database, whoever asks and whatever the filter: an employee and a day are
\* in one row of a report, in one branch's report at most, and in none only for want of
\* scope, range or roster (absence.ts:56, :108).
THEOREM ReportsAccountForDays ==
    ASSUME NEW db, Snapshot(db), NEW user \in ReportUsers(db), NEW f \in AnyFilter(db)
    PROVE  /\ OneRowPerDay(db, user, f)
           /\ f.branch = Nowhere => BranchesPartition(db, user, f) /\ NobodyIsMissing(db, user, f)
  BY AbsentOnce, ReportsOfBranches, EverybodyHasARow

LEMMA AbsenceInputIsSnapshot ==
    ASSUME AbsenceInput
    PROVE  Snapshot(input)
  <1>1. PICK status \in {"active", "archived"}, a \in Placed, joined \in 1 .. MaxSpan,
             today \in 1 .. MaxSpan, there \in [1 .. MaxSpan -> Visited] :
          input = [about |-> "absence", today |-> today, site |-> Yard("active", "works"), flags |-> << >>,
                   employee |-> [e \in {"k1"} |-> [status |-> status, siteIds |-> a.siteIds,
                                                    siteId |-> a.siteId, joined |-> joined]],
                   day |-> [k \in {"k1"} \X (1 .. MaxSpan) |-> there[k[2]]]]
    BY DEF AbsenceInput
  <1>2. DOMAIN input.site = Yards /\ Nowhere \notin Yards
        /\ \A s \in Yards : input.site[s].branch \in {"north", "south"}
    BY <1>1 DEF Yard, Yards, Nowhere
  <1>3. /\ DOMAIN input.employee = {"k1"} /\ input.employee["k1"].siteId \in Yards
        /\ input.employee["k1"].joined \in Int
    BY <1>1, FiguresAssumption DEF Placed, Assignment
  <1>4. input.today = today /\ today \in Nat /\ today <= MaxSpan
    BY <1>1, FiguresAssumption
  <1>5. \A r \in Visited : /\ r.site \in Yards \union {Nowhere}
                           /\ r.branch \in {"", "north", "south", "west"}
    <2> TAKE r \in Visited
    <2>1. CASE r \in [site : {"A"}, branch : {"north", "south", "west"}, otStatus : {"none"}, otHours : {0}]
      <3>1. r.site \in {"A"} /\ r.branch \in {"north", "south", "west"}
        BY <2>1
      <3> QED BY <3>1 DEF Yards
    <2>2. CASE r = [site |-> Nowhere, branch |-> "", otStatus |-> "none", otHours |-> 0]
      BY <2>2
    <2>3. CASE r = [site |-> "B", branch |-> "south", otStatus |-> "none", otHours |-> 0]
      BY <2>3 DEF Yards
    <2> QED BY <2>1, <2>2, <2>3 DEF Visited
  <1>6. /\ DOMAIN input.day = {"k1"} \X (1 .. MaxSpan)
        /\ \A k \in DOMAIN input.day : input.day[k] \in Visited
    BY <1>1
  <1>7. Nowhere \notin BranchesOf(input)
    BY <1>2, <1>5, <1>6 DEF BranchesOf, Records, Nowhere
  <1>8. 1 .. MaxSpan \in SUBSET Int /\ 1 .. input.today \subseteq 1 .. MaxSpan
    BY <1>4, FiguresAssumption
  <1> QED BY <1>2, <1>3, <1>4, <1>5, <1>6, <1>7, <1>8 DEF Snapshot

\* The reports of the run (absence.ts:56, :108).
THEOREM ReportsOfTheRunAddUp == MCSpec => []ReportsPartition
  <1>1. MCInit => ReportsPartition
    <2> SUFFICES ASSUME MCInit, input.about = "absence"
                 PROVE  ReportsPartition
      BY DEF ReportsPartition
    <2>1. AbsenceInput
      BY DEF MCInit, FiguresInit, PagesInput, FigureInput, PayInput, FenceInput, FaceInput
    <2>2. \A f \in Filters(input) : f \in AnyFilter(input)
      BY FiguresAssumption DEF Filters, AnyFilter
    <2> QED BY <2>1, <2>2, AbsenceInputIsSnapshot, ReportsAccountForDays DEF ReportsPartition
  <1>2. ReportsPartition /\ [MCNext]_deskVars => ReportsPartition'
    BY DEF MCNext, deskVars, ReportsPartition
  <1> QED BY <1>1, <1>2, PTL DEF MCSpec

-----------------------------------------------------------------------------
(* The fences *)

LEMMA SignsOfProducts ==
    \A x, y \in Int :
        /\ x * y \in Int
        /\ x > 0 /\ y > 0 => x * y > 0
        /\ x > 0 /\ y < 0 => x * y < 0
        /\ x < 0 /\ y > 0 => x * y < 0
        /\ x < 0 /\ y < 0 => x * y > 0
        /\ x = 0 \/ y = 0 => x * y = 0
  OBVIOUS

\* The areas a point makes with the edges of a triangle add up to the triangle's, and
\* weighted with the heights of the corners opposite they cancel.
LEMMA AreasOfTriangle ==
    ASSUME NEW a \in Int \X Int, NEW b \in Int \X Int, NEW c \in Int \X Int, NEW p \in Int \X Int
    PROVE  /\ Turn(a, b, p) \in Int /\ Turn(b, c, p) \in Int /\ Turn(c, a, p) \in Int
           /\ Turn(a, b, p) + Turn(b, c, p) + Turn(c, a, p) = Turn(a, b, c)
           /\ Turn(a, b, p) * (c[1] - p[1]) + Turn(b, c, p) * (a[1] - p[1])
                + Turn(c, a, p) * (b[1] - p[1]) = 0
  <1>1. \A a1, a2, b1, b2, c1, c2, p1, p2 \in Int :
          LET ab == (b1 - a1) * (p2 - a2) - (b2 - a2) * (p1 - a1)
              bc == (c1 - b1) * (p2 - b2) - (c2 - b2) * (p1 - b1)
              ca == (a1 - c1) * (p2 - c2) - (a2 - c2) * (p1 - c1)
          IN  /\ ab \in Int /\ bc \in Int /\ ca \in Int
              /\ ab + bc + ca = (b1 - a1) * (c2 - a2) - (b2 - a2) * (c1 - a1)
              /\ ab * (c1 - p1) + bc * (a1 - p1) + ca * (b1 - p1) = 0
    OBVIOUS
  <1>2. /\ a[1] \in Int /\ a[2] \in Int /\ b[1] \in Int /\ b[2] \in Int
        /\ c[1] \in Int /\ c[2] \in Int /\ p[1] \in Int /\ p[2] \in Int
    OBVIOUS
  <1> QED BY <1>1, <1>2 DEF Turn

\* The ray crosses an edge that starts below the point and ends above it when the point
\* is on its right, and one that comes down when it is on its left.
LEMMA CrossesByTurn ==
    ASSUME NEW a \in Int \X Int, NEW b \in Int \X Int, NEW p \in Int \X Int
    PROVE  /\ Crosses(p, a, b) <=>
                \/ ~ (a[1] - p[1] > 0) /\ b[1] - p[1] > 0 /\ Turn(a, b, p) < 0
                \/ a[1] - p[1] > 0 /\ ~ (b[1] - p[1] > 0) /\ Turn(a, b, p) > 0
           /\ a[1] - p[1] = 0 /\ b[1] - p[1] = 0 => Turn(a, b, p) = 0
  <1>1. \A a1, a2, b1, b2, p1, p2 \in Int :
          LET slope == (b2 - a2) * (p1 - a1)
              dy    == b1 - a1
              turn  == (b1 - a1) * (p2 - a2) - (b2 - a2) * (p1 - a1)
          IN  /\ (p2 - a2) * dy < slope <=> turn < 0
              /\ (p2 - a2) * dy > slope <=> turn > 0
              /\ a1 - p1 = 0 /\ b1 - p1 = 0 => turn = 0
    OBVIOUS
  <1>2. \A a1, b1, p1 \in Int :
          /\ ~ (a1 > p1) /\ b1 > p1 => b1 - a1 > 0
          /\ a1 > p1 /\ ~ (b1 > p1) => ~ (b1 - a1 > 0)
          /\ a1 - p1 > 0 <=> a1 > p1
          /\ b1 - p1 > 0 <=> b1 > p1
    OBVIOUS
  <1>3. /\ a[1] \in Int /\ a[2] \in Int /\ b[1] \in Int /\ b[2] \in Int
        /\ p[1] \in Int /\ p[2] \in Int
    OBVIOUS
  <1>4. Turn(a, b, p) = (b[1] - a[1]) * (p[2] - a[2]) - (b[2] - a[2]) * (p[1] - a[1])
    BY DEF Turn
  <1>5. a[1] - p[1] = 0 /\ b[1] - p[1] = 0 => Turn(a, b, p) = 0
    BY <1>1, <1>3, <1>4
  <1>6. CASE ~ (a[1] > p[1]) /\ b[1] > p[1]
    BY <1>1, <1>2, <1>3, <1>4, <1>5, <1>6 DEF Crosses
  <1>7. CASE a[1] > p[1] /\ ~ (b[1] > p[1])
    BY <1>1, <1>2, <1>3, <1>4, <1>5, <1>7 DEF Crosses
  <1>8. CASE (a[1] > p[1]) = (b[1] > p[1])
    BY <1>2, <1>3, <1>5, <1>8 DEF Crosses
  <1> QED BY <1>6, <1>7, <1>8

\* u, v and w are the areas, x, y and z the heights of the corners over the point.
LEMMA OddInside ==
    ASSUME NEW u \in Int, NEW v \in Int, NEW w \in Int, NEW x \in Int, NEW y \in Int, NEW z \in Int,
           u * z + v * x + w * y = 0,
           x = 0 /\ y = 0 => u = 0, y = 0 /\ z = 0 => v = 0, z = 0 /\ x = 0 => w = 0,
           NEW ab, ab <=> \/ ~ (x > 0) /\ y > 0 /\ u < 0
                          \/ x > 0 /\ ~ (y > 0) /\ u > 0,
           NEW bc, bc <=> \/ ~ (y > 0) /\ z > 0 /\ v < 0
                          \/ y > 0 /\ ~ (z > 0) /\ v > 0,
           NEW ca, ca <=> \/ ~ (z > 0) /\ x > 0 /\ w < 0
                          \/ z > 0 /\ ~ (x > 0) /\ w > 0
    PROVE  LET odd == (ab <=> (bc <=> ca))
           IN  /\ u + v + w > 0 => /\ u > 0 /\ v > 0 /\ w > 0 => odd
                                   /\ u < 0 \/ v < 0 \/ w < 0 => ~ odd
               /\ u + v + w < 0 => /\ u < 0 /\ v < 0 /\ w < 0 => odd
                                   /\ u > 0 \/ v > 0 \/ w > 0 => ~ odd
  <1>1. PICK m, n, o \in Int : m = u * z /\ n = v * x /\ o = w * y
    BY SignsOfProducts
  <1>2. m + n + o = 0
    BY <1>1
  <1>3. /\ u > 0 /\ z > 0 => m > 0
        /\ u > 0 /\ z < 0 => m < 0
        /\ u < 0 /\ z > 0 => m < 0
        /\ u < 0 /\ z < 0 => m > 0
        /\ u = 0 \/ z = 0 => m = 0
    BY <1>1, SignsOfProducts
  <1>4. /\ v > 0 /\ x > 0 => n > 0
        /\ v > 0 /\ x < 0 => n < 0
        /\ v < 0 /\ x > 0 => n < 0
        /\ v < 0 /\ x < 0 => n > 0
        /\ v = 0 \/ x = 0 => n = 0
    BY <1>1, SignsOfProducts
  <1>5. /\ w > 0 /\ y > 0 => o > 0
        /\ w > 0 /\ y < 0 => o < 0
        /\ w < 0 /\ y > 0 => o < 0
        /\ w < 0 /\ y < 0 => o > 0
        /\ w = 0 \/ y = 0 => o = 0
    BY <1>1, SignsOfProducts
  <1> DEFINE odd == (ab <=> (bc <=> ca))
  <1>6. ASSUME u + v + w > 0, u > 0, v > 0, w > 0
        PROVE  odd
    BY <1>2, <1>3, <1>4, <1>5, <1>6, SMTT(60)
  <1>7. ASSUME u + v + w > 0, u < 0 \/ v < 0 \/ w < 0
        PROVE  ~ odd
    BY <1>2, <1>3, <1>4, <1>5, <1>7, SMTT(60)
  <1>8. ASSUME u + v + w < 0, u < 0, v < 0, w < 0
        PROVE  odd
    BY <1>2, <1>3, <1>4, <1>5, <1>8, SMTT(60)
  <1>9. ASSUME u + v + w < 0, u > 0 \/ v > 0 \/ w > 0
        PROVE  ~ odd
    BY <1>2, <1>3, <1>4, <1>5, <1>9, SMTT(60)
  <1> QED BY <1>6, <1>7, <1>8, <1>9

LEMMA SizeOfTwo ==
    ASSUME NEW x, NEW y, x # y
    PROVE  Cardinality({x, y}) = 2 /\ IsFiniteSet({x, y})
  <1>1. {x, y} = {x} \union {y} /\ y \notin {x}
    OBVIOUS
  <1>2. Cardinality({x}) = 1 /\ IsFiniteSet({x})
    BY FS_Singleton
  <1> QED BY <1>1, <1>2, FS_AddElement

LEMMA SizesUpToThree ==
    ASSUME NEW x, NEW y, NEW z, x # y, y # z, z # x
    PROVE  /\ Cardinality({}) = 0 /\ Cardinality({x}) = 1 /\ Cardinality({x, y}) = 2
           /\ Cardinality({x, y, z}) = 3
  <1>1. Cardinality({}) = 0 /\ Cardinality({x}) = 1 /\ IsFiniteSet({x})
    BY FS_EmptySet, FS_Singleton
  <1>2. Cardinality({x, y}) = 2 /\ IsFiniteSet({x, y})
    BY SizeOfTwo
  <1>3. Cardinality({x, y, z}) = 3
    <2>1. {x, y, z} = {x, y} \union {z} /\ z \notin {x, y}
      OBVIOUS
    <2> QED BY <1>2, <2>1, FS_AddElement
  <1> QED BY <1>1, <1>2, <1>3

\* Of three edges an odd number is crossed, or an even one.
LEMMA ParityOfThree ==
    ASSUME NEW x, NEW y, NEW z, x # y, y # z, z # x, NEW E \in SUBSET {x, y, z}
    PROVE  Cardinality(E) % 2 = 1 <=> (x \in E <=> (y \in E <=> z \in E))
  <1>1. 0 % 2 = 0 /\ 1 % 2 = 1 /\ 2 % 2 = 0 /\ 3 % 2 = 1
    OBVIOUS
  <1>2. ASSUME E = {x, y, z} \/ E = {x} \/ E = {y} \/ E = {z}
        PROVE  /\ Cardinality(E) % 2 = 1
               /\ x \in E <=> (y \in E <=> z \in E)
    <2>1. Cardinality(E) \in {1, 3}
      <3>1. CASE E = {x, y, z}
        BY <3>1, SizesUpToThree, Zenon
      <3>2. CASE E \in {{x}, {y}, {z}}
        BY <3>2, FS_Singleton
      <3> QED BY <1>2, <3>1, <3>2
    <2>2. Cardinality(E) % 2 = 1
      BY <1>1, <2>1
    <2>3. x \in E <=> (y \in E <=> z \in E)
      BY <1>2
    <2> QED BY <2>2, <2>3
  <1>3. ASSUME E = {x, y} \/ E = {y, z} \/ E = {z, x} \/ E = {}
        PROVE  /\ Cardinality(E) % 2 = 0
               /\ ~ (x \in E <=> (y \in E <=> z \in E))
    <2>1. Cardinality(E) \in {0, 2}
      <3>1. CASE E = {x, y}
        BY <3>1, SizesUpToThree, Zenon
      <3>2. CASE E = {y, z}
        <4>1. Cardinality({y, z}) = 2
          BY SizeOfTwo
        <4> QED BY <3>2, <4>1
      <3>3. CASE E = {z, x}
        <4>1. Cardinality({z, x}) = 2
          BY SizeOfTwo
        <4> QED BY <3>3, <4>1
      <3>4. CASE E = {}
        BY <3>4, FS_EmptySet
      <3> QED BY <1>3, <3>1, <3>2, <3>3, <3>4
    <2>2. Cardinality(E) % 2 = 0
      BY <1>1, <2>1
    <2>3. ~ (x \in E <=> (y \in E <=> z \in E))
      BY <1>3
    <2> QED BY <2>2, <2>3
  <1>4. \/ E = {x, y, z} \/ E = {x} \/ E = {y} \/ E = {z}
        \/ E = {x, y} \/ E = {y, z} \/ E = {z, x} \/ E = {}
    OBVIOUS
  <1>5. 0 # 1
    OBVIOUS
  <1> DEFINE parity == Cardinality(E) % 2
  <1>6. \/ parity = 1 /\ (x \in E <=> (y \in E <=> z \in E))
        \/ parity = 0 /\ ~ (x \in E <=> (y \in E <=> z \in E))
    BY <1>2, <1>3, <1>4
  <1> HIDE DEF parity
  <1>7. parity = 1 <=> (x \in E <=> (y \in E <=> z \in E))
    BY <1>5, <1>6, Zenon
  <1> QED BY <1>7 DEF parity

LEMMA TriangleParity ==
    ASSUME NEW a, NEW b, NEW c, NEW p
    PROVE  PointInPolygon(p, <<a, b, c>>) <=> (Crosses(p, a, b) <=> (Crosses(p, b, c) <=> Crosses(p, c, a)))
  <1> DEFINE polygon == <<a, b, c>>
             crossed == {e \in {<<1, 2>>, <<2, 3>>, <<3, 1>>} : Crosses(p, polygon[e[1]], polygon[e[2]])}
  <1>1. Edges(polygon) = {<<1, 2>>, <<2, 3>>, <<3, 1>>}
    <2>1. Len(polygon) = 3 /\ 1 .. 3 = {1, 2, 3}
      OBVIOUS
    <2>2. \A i \in {1, 2, 3} :
            <<IF i = 1 THEN 3 ELSE i - 1, i>> =
               IF i = 1 THEN <<3, 1>> ELSE IF i = 2 THEN <<1, 2>> ELSE <<2, 3>>
      OBVIOUS
    <2>3. Edges(polygon) = {<<IF i = 1 THEN 3 ELSE i - 1, i>> : i \in {1, 2, 3}}
      BY <2>1 DEF Edges
    <2> QED BY <2>2, <2>3
  <1>2. /\ <<1, 2>> # <<2, 3>> /\ <<2, 3>> # <<3, 1>> /\ <<3, 1>> # <<1, 2>>
        /\ polygon[1] = a /\ polygon[2] = b /\ polygon[3] = c
    OBVIOUS
  <1> HIDE DEF polygon
  <1>3. Cardinality(crossed) % 2 = 1 <=>
          (Crosses(p, a, b) <=> (Crosses(p, b, c) <=> Crosses(p, c, a)))
    <2>1. /\ crossed \in SUBSET {<<1, 2>>, <<2, 3>>, <<3, 1>>}
          /\ <<1, 2>> \in crossed <=> Crosses(p, a, b)
          /\ <<2, 3>> \in crossed <=> Crosses(p, b, c)
          /\ <<3, 1>> \in crossed <=> Crosses(p, c, a)
      BY <1>2
    <2> HIDE DEF crossed
    <2>2. Cardinality(crossed) % 2 = 1
            <=> (<<1, 2>> \in crossed <=> (<<2, 3>> \in crossed <=> <<3, 1>> \in crossed))
      <3>1. PICK x, y, z : x = <<1, 2>> /\ y = <<2, 3>> /\ z = <<3, 1>>
        OBVIOUS
      <3>2. x # y /\ y # z /\ z # x /\ crossed \in SUBSET {x, y, z}
        BY <1>2, <2>1, <3>1
      <3>3. Cardinality(crossed) % 2 = 1 <=> (x \in crossed <=> (y \in crossed <=> z \in crossed))
        BY <3>2, ParityOfThree
      <3> QED BY <3>1, <3>3
    <2> QED BY <2>1, <2>2
  <1>4. PointInPolygon(p, polygon) <=> Cardinality(crossed) % 2 = 1
    BY <1>1 DEF PointInPolygon
  <1> QED BY <1>3, <1>4 DEF polygon

\* Wherever its corners are, whichever comes first and whichever way round they go, a
\* triangle is told from its outside: a point strictly on the inner side of its edges is
\* inside, one strictly beyond an edge is not (geo.ts:36).
THEOREM TrianglesAreFences ==
    ASSUME NEW a \in Int \X Int, NEW b \in Int \X Int, NEW c \in Int \X Int, Turn(a, b, c) # 0,
           NEW p \in Int \X Int
    PROVE  LET side  == IF Turn(a, b, c) > 0 THEN 1 ELSE -1
               sides == {side * Turn(a, b, p), side * Turn(b, c, p), side * Turn(c, a, p)}
           IN  /\ (\A t \in sides : t > 0) => PointInPolygon(p, <<a, b, c>>)
               /\ (\E t \in sides : t < 0) => ~ PointInPolygon(p, <<a, b, c>>)
  <1> DEFINE odd == (Crosses(p, a, b) <=> (Crosses(p, b, c) <=> Crosses(p, c, a)))
  <1>1. PICK u, v, w, x, y, z \in Int :
          /\ u = Turn(a, b, p) /\ v = Turn(b, c, p) /\ w = Turn(c, a, p)
          /\ x = a[1] - p[1] /\ y = b[1] - p[1] /\ z = c[1] - p[1]
    <2>1. /\ Turn(a, b, p) \in Int /\ Turn(b, c, p) \in Int /\ Turn(c, a, p) \in Int
      BY AreasOfTriangle
    <2>2. /\ a[1] \in Int /\ b[1] \in Int /\ c[1] \in Int /\ p[1] \in Int
      OBVIOUS
    <2>3. /\ a[1] - p[1] \in Int /\ b[1] - p[1] \in Int /\ c[1] - p[1] \in Int
      BY <2>2
    <2> QED BY <2>1, <2>3, Zenon
  <1>2. u + v + w = Turn(a, b, c) /\ u * z + v * x + w * y = 0
    BY <1>1, AreasOfTriangle
  <1>3. PICK ab, bc, ca \in BOOLEAN :
          (ab <=> Crosses(p, a, b)) /\ (bc <=> Crosses(p, b, c)) /\ (ca <=> Crosses(p, c, a))
    <2>1. \E ab \in BOOLEAN : ab <=> Crosses(p, a, b)
      OBVIOUS
    <2>2. \E bc \in BOOLEAN : bc <=> Crosses(p, b, c)
      OBVIOUS
    <2>3. \E ca \in BOOLEAN : ca <=> Crosses(p, c, a)
      OBVIOUS
    <2> QED BY <2>1, <2>2, <2>3, Zenon
  <1>4. /\ ab <=> \/ ~ (x > 0) /\ y > 0 /\ u < 0
                  \/ x > 0 /\ ~ (y > 0) /\ u > 0
        /\ x = 0 /\ y = 0 => u = 0
    BY <1>1, <1>3, CrossesByTurn
  <1>5. /\ bc <=> \/ ~ (y > 0) /\ z > 0 /\ v < 0
                  \/ y > 0 /\ ~ (z > 0) /\ v > 0
        /\ y = 0 /\ z = 0 => v = 0
    BY <1>1, <1>3, CrossesByTurn
  <1>6. /\ ca <=> \/ ~ (z > 0) /\ x > 0 /\ w < 0
                  \/ z > 0 /\ ~ (x > 0) /\ w > 0
        /\ z = 0 /\ x = 0 => w = 0
    BY <1>1, <1>3, CrossesByTurn
  <1>7. /\ u + v + w > 0 => /\ u > 0 /\ v > 0 /\ w > 0 => odd
                            /\ u < 0 \/ v < 0 \/ w < 0 => ~ odd
        /\ u + v + w < 0 => /\ u < 0 /\ v < 0 /\ w < 0 => odd
                            /\ u > 0 \/ v > 0 \/ w > 0 => ~ odd
    <2>1. LET parity == (ab <=> (bc <=> ca))
          IN  /\ u + v + w > 0 => /\ u > 0 /\ v > 0 /\ w > 0 => parity
                                  /\ u < 0 \/ v < 0 \/ w < 0 => ~ parity
              /\ u + v + w < 0 => /\ u < 0 /\ v < 0 /\ w < 0 => parity
                                  /\ u > 0 \/ v > 0 \/ w > 0 => ~ parity
      BY <1>2, <1>4, <1>5, <1>6, OddInside
    <2> QED BY <1>3, <2>1
  <1>8. PointInPolygon(p, <<a, b, c>>) <=> odd
    BY TriangleParity
  <1> HIDE DEF odd
  <1> DEFINE side  == IF Turn(a, b, c) > 0 THEN 1 ELSE -1
             sides == {side * u, side * v, side * w}
  <1>9. /\ (\A t \in sides : t > 0) => odd
        /\ (\E t \in sides : t < 0) => ~ odd
    <2>1. CASE Turn(a, b, c) > 0
      <3>1. 1 * u = u /\ 1 * v = v /\ 1 * w = w
        OBVIOUS
      <3>2. sides = {u, v, w}
        BY <2>1, <3>1
      <3> HIDE DEF sides
      <3>3. ASSUME \A t \in sides : t > 0
            PROVE  odd
        BY <1>2, <1>7, <2>1, <3>2, <3>3
      <3>4. ASSUME \E t \in sides : t < 0
            PROVE  ~ odd
        <4>1. u < 0 \/ v < 0 \/ w < 0
          BY <3>2, <3>4
        <4> QED BY <1>2, <1>7, <2>1, <4>1
      <3> QED BY <3>3, <3>4
    <2>2. CASE Turn(a, b, c) < 0
      <3>1. (-1) * u = -u /\ (-1) * v = -v /\ (-1) * w = -w
        OBVIOUS
      <3>2. Turn(a, b, c) \in Int
        BY <1>2
      <3>3. side = -1
        BY <2>2, <3>2
      <3>4. sides = {-u, -v, -w}
        BY <3>1, <3>3
      <3> HIDE DEF side, sides
      <3>5. ASSUME \A t \in sides : t > 0
            PROVE  odd
        <4>1. -u > 0 /\ -v > 0 /\ -w > 0
          BY <3>4, <3>5
        <4>2. u < 0 /\ v < 0 /\ w < 0
          BY <4>1
        <4> QED BY <1>2, <1>7, <2>2, <4>2
      <3>6. ASSUME \E t \in sides : t < 0
            PROVE  ~ odd
        <4>1. -u < 0 \/ -v < 0 \/ -w < 0
          BY <3>4, <3>6
        <4>2. u > 0 \/ v > 0 \/ w > 0
          BY <4>1
        <4> QED BY <1>2, <1>7, <2>2, <4>2
      <3> QED BY <3>5, <3>6
    <2>3. Turn(a, b, c) > 0 \/ Turn(a, b, c) < 0
      <3>1. Turn(a, b, c) \in Int
        BY <1>2
      <3> QED BY <3>1
    <2> QED BY <2>1, <2>2, <2>3
  <1> QED BY <1>1, <1>8, <1>9

\* The fences of the run (geo.ts:36).
THEOREM FencesOfTheRunHold == MCSpec => []InsideTriangle
  <1>1. MCInit => InsideTriangle
    <2> SUFFICES ASSUME MCInit, input.about = "fence"
                 PROVE  InsideTriangle
      BY DEF InsideTriangle
    <2>1. FenceInput
      BY DEF MCInit, FiguresInit, AbsenceInput, PagesInput, FigureInput, PayInput, FaceInput
    <2>2. PICK a, b, c \in Points : input = [about |-> "fence", polygon |-> <<a, b, c>>]
      BY <2>1 DEF FenceInput
    <2>3. \A q \in Points : q \in Int \X Int /\ q # NoFix
      BY FiguresAssumption DEF Points
    <2>4. /\ input.polygon = <<a, b, c>> /\ input.polygon[1] = a /\ input.polygon[2] = b
          /\ input.polygon[3] = c
      BY <2>2
    <2> DEFINE site == [polygon |-> input.polygon, located |-> FALSE, radius |-> 0]
    <2>5. \A q \in Points :
            CheckGeofence(site, [point |-> q, distance |-> 0])
               = IF PointInPolygon(q, <<a, b, c>>) THEN "inside" ELSE "outside"
      <3>1. site.polygon = <<a, b, c>> /\ Len(<<a, b, c>>) >= 3
        BY <2>4
      <3> HIDE DEF site
      <3> QED BY <2>3, <3>1 DEF CheckGeofence
    <2> HIDE DEF site
    <2> DEFINE side     == IF Turn(a, b, c) > 0 THEN 1 ELSE -1
               sides(q) == {side * Turn(a, b, q), side * Turn(b, c, q), side * Turn(c, a, q)}
               answer(q) == CheckGeofence(site, [point |-> q, distance |-> 0])
    <2>6. ASSUME Turn(a, b, c) # 0, NEW q \in Points
          PROVE  /\ (\A t \in sides(q) : t > 0) => answer(q) = "inside"
                 /\ (\E t \in sides(q) : t < 0) => answer(q) = "outside"
      <3>1. a \in Int \X Int /\ b \in Int \X Int /\ c \in Int \X Int /\ q \in Int \X Int
        BY <2>3
      <3>2. /\ (\A t \in sides(q) : t > 0) => PointInPolygon(q, <<a, b, c>>)
            /\ (\E t \in sides(q) : t < 0) => ~ PointInPolygon(q, <<a, b, c>>)
        BY <2>6, <3>1, TrianglesAreFences
      <3>3. answer(q) = IF PointInPolygon(q, <<a, b, c>>) THEN "inside" ELSE "outside"
        BY <2>5
      <3> HIDE DEF sides, answer
      <3> QED BY <3>2, <3>3
    <2> QED BY <2>4, <2>6 DEF InsideTriangle, site
  <1>2. InsideTriangle /\ [MCNext]_deskVars => InsideTriangle'
    BY DEF MCNext, deskVars, InsideTriangle
  <1> QED BY <1>1, <1>2, PTL DEF MCSpec

-----------------------------------------------------------------------------
(* The face. *)

Candidate == [id : Nat \ {0}, distance : Nat]
Seen == [best : Candidate \union {NoMatch}, second : Candidate \union {NoMatch}]
Unseen == [best |-> NoMatch, second |-> NoMatch]

LEMMA NextBestType ==
    ASSUME NEW seen \in Seen, NEW c \in Candidate
    PROVE  NextBest(seen, c) \in Seen
  BY DEF NextBest, Seen

\* How BestMatch goes through the candidates.
Goes(iter, c) ==
    iter = [s \in SUBSET DOMAIN c |->
               IF s = {} THEN Unseen
               ELSE LET x == Max(s) IN NextBest(iter[s \ {x}], c[x])]

LEMMA GoesThrough ==
    ASSUME NEW c
    PROVE  FoldLeft(NextBest, Unseen, c) = (CHOOSE iter : Goes(iter, c))[DOMAIN c]
  BY DEF FoldLeft, MapThenFoldSet, Goes

LEMMA GoesExists ==
    ASSUME NEW n \in Nat, NEW c \in [1 .. n -> Candidate]
    PROVE  \E iter : Goes(iter, c)
  <1> DEFINE S    == 1 .. n
             pick == [s \in (SUBSET S) \ {{}} |-> Max(s)]
             h    == [p \in S \X Seen |-> NextBest(p[2], c[p[1]])]
  <1>1. pick \in Picking(S) /\ \A s \in (SUBSET S) \ {{}} : pick[s] = Max(s)
    BY MaxOfSome DEF Picking
  <1>2. h \in [S \X Seen -> Seen] /\ \A i \in S, seen \in Seen : h[<<i, seen>>] = NextBest(seen, c[i])
    BY NextBestType
  <1>3. Unseen \in Seen /\ IsFiniteSet(S)
    BY FS_Interval DEF Unseen, Seen
  <1> HIDE DEF pick, h
  <1>4. PICK iter : IsFold(iter, S, Seen, Unseen, h, pick)
    <2>1. PICK A : A = Seen
      OBVIOUS
    <2> QED BY <1>1, <1>2, <1>3, <2>1, FoldExists
  <1>5. ASSUME NEW s \in SUBSET S, s # {}
        PROVE  iter[s] = NextBest(iter[s \ {Max(s)}], c[Max(s)])
    <2>1. pick[s] = Max(s) /\ Max(s) \in S /\ s \ {Max(s)} \in SUBSET S
      BY <1>1, <1>5, MaxOfSome
    <2>2. iter[s] = h[<<pick[s], iter[s \ {pick[s]}]>>]
      BY <1>4, <1>5 DEF IsFold, Folding
    <2>3. iter[s \ {Max(s)}] \in Seen
      BY <1>4, <2>1 DEF IsFold
    <2> QED BY <1>2, <2>1, <2>2, <2>3
  <1>6. iter[{}] = Unseen
    BY <1>4 DEF IsFold, Folding
  <1>7. iter = [s \in SUBSET S |-> iter[s]]
    BY <1>4 DEF IsFold
  <1>8. iter = [s \in SUBSET S |-> IF s = {} THEN Unseen ELSE NextBest(iter[s \ {Max(s)}], c[Max(s)])]
    BY <1>5, <1>6, <1>7
  <1>9. DOMAIN c = S
    OBVIOUS
  <1>10. Goes(iter, c)
    BY <1>8, <1>9 DEF Goes
  <1> QED BY <1>10

\* The two nearest of the first k.
Nearest(seen, c, k) ==
    /\ k = 0 => seen = Unseen
    /\ k > 0 => \E b \in 1 .. k :
          /\ seen.best = c[b] /\ \A j \in 1 .. k : c[b].distance <= c[j].distance
          /\ k = 1 => seen.second = NoMatch
          /\ k > 1 => \E m \in (1 .. k) \ {b} :
                /\ seen.second = c[m]
                /\ \A j \in (1 .. k) \ {b} : c[m].distance <= c[j].distance

LEMMA NextNearest ==
    ASSUME NEW n \in Nat, NEW c \in [1 .. n -> Candidate], NEW k \in 1 .. n, NEW seen,
           Nearest(seen, c, k - 1)
    PROVE  Nearest(NextBest(seen, c[k]), c, k)
  <1>1. k \in Nat /\ k > 0 /\ k \in 1 .. k
        /\ \A j \in 1 .. k : c[j] \in Candidate /\ c[j] # NoMatch /\ c[j].distance \in Nat
    BY DEF Candidate, NoMatch
  <1>2. CASE k = 1
    <2>1. seen.best = NoMatch /\ seen.second = NoMatch
      BY <1>2 DEF Nearest, Unseen
    <2>2. NextBest(seen, c[k]) = [best |-> c[k], second |-> NoMatch]
      BY <2>1 DEF NextBest
    <2>3. \A j \in 1 .. k : j = k
      BY <1>2
    <2> HIDE DEF NoMatch
    <2> QED BY <1>1, <1>2, <2>2, <2>3 DEF Nearest
  <1>3. CASE k > 1
    <2> DEFINE new == NextBest(seen, c[k])
               P == 1 .. k - 1
    <2>1. \A j \in 1 .. k : j = k \/ j \in P
      BY <1>1
    <2>2. P \subseteq 1 .. k /\ k \notin P
      BY <1>1
    <2>3. PICK b \in P :
            /\ seen.best = c[b] /\ \A j \in P : c[b].distance <= c[j].distance
            /\ k = 2 => seen.second = NoMatch
            /\ k > 2 => \E m \in P \ {b} :
                  /\ seen.second = c[m] /\ \A j \in P \ {b} : c[m].distance <= c[j].distance
      BY <1>1, <1>3 DEF Nearest
    <2>4. b # k /\ b \in 1 .. k /\ c[b] # NoMatch
      BY <1>1, <2>2
    <2>5. CASE c[k].distance < c[b].distance
      <3>1. new.best = c[k] /\ new.second = c[b]
        BY <2>3, <2>4, <2>5 DEF NextBest
      <3>2. \A j \in 1 .. k : c[k].distance <= c[j].distance
        BY <1>1, <2>1, <2>2, <2>3, <2>5
      <3>3. \A j \in (1 .. k) \ {k} : c[b].distance <= c[j].distance
        BY <2>1, <2>3
      <3>4. b \in (1 .. k) \ {k}
        BY <2>4
      <3> QED BY <1>1, <1>3, <3>1, <3>2, <3>3, <3>4 DEF Nearest
    <2>6. CASE ~ (c[k].distance < c[b].distance)
      <3>1. \A j \in 1 .. k : c[b].distance <= c[j].distance
        BY <1>1, <2>1, <2>2, <2>3, <2>6
      <3>2. \E m \in (1 .. k) \ {b} :
               new.best = c[b] /\ new.second = c[m]
               /\ \A j \in (1 .. k) \ {b} : c[m].distance <= c[j].distance
        <4>1. CASE k = 2
          <5>1. new.best = c[b] /\ new.second = c[k]
            BY <2>3, <2>4, <2>6, <4>1 DEF NextBest
          <5>2. \A j \in (1 .. k) \ {b} : j = k
            BY <2>1, <4>1
          <5>3. k \in (1 .. k) \ {b} /\ c[k].distance <= c[k].distance
            BY <1>1, <2>4
          <5>4. \A j \in (1 .. k) \ {b} : c[k].distance <= c[j].distance
            BY <5>2, <5>3
          <5> HIDE DEF new
          <5> QED BY <5>1, <5>3, <5>4
        <4>2. CASE k > 2
          <5>1. PICK m \in P \ {b} :
                   /\ seen.second = c[m] /\ \A j \in P \ {b} : c[m].distance <= c[j].distance
            BY <2>3, <4>2
          <5>2. m \in (1 .. k) \ {b} /\ c[m] # NoMatch
            BY <1>1, <2>2
          <5>3. CASE c[k].distance < c[m].distance
            <6>1. new.best = c[b] /\ new.second = c[k]
              BY <2>3, <2>4, <2>6, <5>1, <5>2, <5>3 DEF NextBest
            <6>2. \A j \in (1 .. k) \ {b} : c[k].distance <= c[j].distance
              BY <1>1, <2>1, <2>2, <5>1, <5>2, <5>3
            <6> QED BY <1>1, <2>4, <6>1, <6>2
          <5>4. CASE ~ (c[k].distance < c[m].distance)
            <6>1. new = seen
              BY <2>3, <2>4, <2>6, <5>1, <5>2, <5>4 DEF NextBest
            <6>2. \A j \in (1 .. k) \ {b} : c[m].distance <= c[j].distance
              BY <1>1, <2>1, <2>2, <5>1, <5>2, <5>4
            <6> QED BY <2>3, <5>1, <5>2, <6>1, <6>2
          <5> QED BY <5>3, <5>4
        <4> QED BY <1>1, <1>3, <4>1, <4>2
      <3> QED BY <1>3, <2>4, <3>1, <3>2 DEF Nearest
    <2> QED BY <2>5, <2>6
  <1> QED BY <1>1, <1>2, <1>3

LEMMA SeenAreNearest ==
    ASSUME NEW n \in Nat, NEW c \in [1 .. n -> Candidate]
    PROVE  Nearest(FoldLeft(NextBest, Unseen, c), c, n)
  <1> DEFINE iter == CHOOSE iter : Goes(iter, c)
             Bad  == {k \in Nat : k <= n /\ ~ Nearest(iter[1 .. k], c, k)}
  <1>1. Goes(iter, c)
    BY GoesExists
  <1> HIDE DEF iter
  <1>2. DOMAIN c = 1 .. n
    OBVIOUS
  <1>3. 0 \notin Bad
    <2>1. 1 .. 0 = {}
      OBVIOUS
    <2>2. iter[{}] = Unseen
      BY <1>1 DEF Goes
    <2> QED BY <2>1, <2>2 DEF Nearest
  <1>4. ASSUME NEW k \in Bad, k # 0, k - 1 \in Nat \ Bad
        PROVE  FALSE
    <2>1. k \in 1 .. n /\ Nearest(iter[1 .. k - 1], c, k - 1)
      BY <1>4
    <2>2. /\ 1 .. k \in SUBSET (1 .. n) /\ 1 .. k # {} /\ k \in 1 .. k
          /\ (1 .. k) \ {k} = 1 .. k - 1
      BY <2>1
    <2>3. Max(1 .. k) = k
      <3>1. Max(1 .. k) \in 1 .. k /\ Max(1 .. k) >= k
        BY <2>2, MaxOfSome
      <3> QED BY <2>1, <3>1
    <2>4. iter[1 .. k] = NextBest(iter[1 .. k - 1], c[k])
      BY <1>1, <1>2, <2>2, <2>3 DEF Goes
    <2> QED BY <2>1, <2>4, NextNearest
  <1>5. Bad = {}
    <2> HIDE DEF Bad
    <2>1. Bad \in SUBSET Nat
      BY DEF Bad
    <2> QED BY <1>3, <1>4, <2>1, LeastNumber
  <1>6. Nearest(iter[1 .. n], c, n)
    BY <1>5
  <1> QED BY <1>2, <1>6, GoesThrough DEF iter

\* What the run says of a gallery.
FaceIsClear(c, match) ==
    LET nearest(i) == \A j \in DOMAIN c : c[i].distance <= c[j].distance
        clear(i) == \A j \in DOMAIN c \ {i} : c[j].distance - c[i].distance >= FaceMatchMargin
    IN  /\ match # NoMatch => \E i \in DOMAIN c : match = c[i] /\ nearest(i)
        /\ match # NoMatch <=>
              \E i \in DOMAIN c :
                  /\ nearest(i) /\ c[i].distance <= FaceMatchThreshold
                  /\ c[i].distance <= FaceStrongMatch \/ clear(i)

\* The nearest of any number of faces is taken, when it is near enough and clear of the rest,
\* in whatever order they are read (face.ts:91).
THEOREM MatchesAreClear ==
    ASSUME NEW n \in Nat, NEW c \in [1 .. n -> Candidate]
    PROVE  FaceIsClear(c, BestMatch(c))
  <1> DEFINE seen  == FoldLeft(NextBest, Unseen, c)
             match == BestMatch(c)
  <1>1. Nearest(seen, c, n)
    BY SeenAreNearest
  <1>2. match = IF \/ seen.best = NoMatch
                   \/ seen.best.distance > FaceMatchThreshold
                   \/ /\ seen.best.distance > FaceStrongMatch
                      /\ seen.second # NoMatch
                      /\ seen.second.distance - seen.best.distance < FaceMatchMargin
                THEN NoMatch ELSE seen.best
    BY DEF BestMatch, Unseen
  <1> HIDE DEF seen, match
  <1>3. /\ DOMAIN c = 1 .. n /\ \A i \in 1 .. n : c[i] # NoMatch /\ c[i].distance \in Nat
        /\ FaceMatchThreshold \in Nat /\ FaceStrongMatch \in Nat /\ FaceMatchMargin \in Nat
    BY FaceAssumption DEF Candidate, NoMatch
  <1>4. CASE n = 0
    <2>1. match = NoMatch
      BY <1>1, <1>2, <1>4 DEF Nearest, Unseen
    <2> QED BY <1>3, <1>4, <2>1 DEF FaceIsClear, match
  <1>5. CASE n > 0
    <2>1. PICK b \in 1 .. n :
            /\ seen.best = c[b] /\ \A j \in 1 .. n : c[b].distance <= c[j].distance
            /\ n = 1 => seen.second = NoMatch
            /\ n > 1 => \E m \in (1 .. n) \ {b} :
                  /\ seen.second = c[m] /\ \A j \in (1 .. n) \ {b} : c[m].distance <= c[j].distance
      BY <1>1, <1>5 DEF Nearest
    <2> DEFINE near     == c[b].distance <= FaceMatchThreshold
               clear(i) == \A j \in (1 .. n) \ {i} : c[j].distance - c[i].distance >= FaceMatchMargin
    <2>2. match # NoMatch <=> near /\ (c[b].distance <= FaceStrongMatch \/ clear(b))
      <3>1. CASE n = 1
        <4>1. (1 .. n) \ {b} = {}
          BY <3>1
        <4> QED BY <1>2, <1>3, <2>1, <3>1, <4>1
      <3>2. CASE n > 1
        <4>1. PICK m \in (1 .. n) \ {b} :
                seen.second = c[m] /\ \A j \in (1 .. n) \ {b} : c[m].distance <= c[j].distance
          BY <2>1, <3>2
        <4>2. clear(b) <=> c[m].distance - c[b].distance >= FaceMatchMargin
          BY <1>3, <4>1
        <4> HIDE DEF clear
        <4> QED BY <1>2, <1>3, <2>1, <4>1, <4>2
      <3> QED BY <1>5, <3>1, <3>2
    <2>3. match # NoMatch => match = c[b]
      BY <1>2, <2>1
    <2>4. ASSUME NEW i \in 1 .. n, \A j \in 1 .. n : c[i].distance <= c[j].distance
          PROVE  c[i].distance = c[b].distance /\ (clear(i) => clear(b))
      <3>1. c[i].distance = c[b].distance
        BY <1>3, <2>1, <2>4
      <3>2. ASSUME clear(i), i # b
            PROVE  clear(b)
        <4>1. FaceMatchMargin = 0
          BY <1>3, <3>1, <3>2
        <4> QED BY <1>3, <2>1, <4>1
      <3> QED BY <3>1, <3>2
    <2> QED BY <1>3, <2>1, <2>2, <2>3, <2>4 DEF FaceIsClear, match
  <1> QED BY <1>4, <1>5

\* MatchIsClear of every gallery the desk is asked about.
THEOREM MatchesOfTheRunAreClear == MCSpec => []MatchIsClear
  <1>1. MCInit => MatchIsClear
    <2> SUFFICES ASSUME MCInit, input.about = "face"
                 PROVE  MatchIsClear
      BY DEF MatchIsClear
    <2>1. FaceInput
      BY DEF MCInit, FiguresInit, AbsenceInput, PagesInput, FigureInput, PayInput, FenceInput
    <2> PICK n \in 0 .. Gallery :
            \E distance \in [1 .. n -> 0 .. FaceMatchThreshold + 1] :
                input = [about |-> "face",
                         candidates |-> [i \in 1 .. n |-> [id |-> i, distance |-> distance[i]]]]
      BY <2>1 DEF FaceInput
    <2>2. PICK distance \in [1 .. n -> 0 .. FaceMatchThreshold + 1] :
              input = [about |-> "face",
                       candidates |-> [i \in 1 .. n |-> [id |-> i, distance |-> distance[i]]]]
      OBVIOUS
    <2> DEFINE c == input.candidates
    <2>3. n \in Nat /\ c \in [1 .. n -> Candidate]
      <3>1. n \in Nat
        BY FiguresAssumption
      <3>2. \A i \in 1 .. n : i \in Nat \ {0} /\ distance[i] \in Nat
        BY <3>1, FaceAssumption
      <3>3. \A i \in 1 .. n : [id |-> i, distance |-> distance[i]] \in Candidate
        BY <3>2 DEF Candidate
      <3> QED BY <2>2, <3>1, <3>3
    <2>4. FaceIsClear(c, BestMatch(c))
      BY <2>3, MatchesAreClear
    <2> QED BY <2>4 DEF FaceIsClear, MatchIsClear
  <1>2. MatchIsClear /\ [MCNext]_deskVars => MatchIsClear'
    BY DEF MCNext, deskVars, MatchIsClear
  <1> QED BY <1>1, <1>2, PTL DEF MCSpec

-----------------------------------------------------------------------------
(* The payroll *)

\* The week of every day of a calendar.
WeekOf(days) == [d \in days |-> WeekBounds(d, 0)]

LEMMA Mondays ==
    ASSUME NEW d \in Nat
    PROVE  /\ d % 7 \in 0 .. 6
           /\ WeekBounds(d, 0).from = d - (d % 7) /\ WeekBounds(d, 0).to = d - (d % 7) + 6
           /\ WeekBounds(d, 0) = [from |-> d - (d % 7), to |-> d - (d % 7) + 6]
           /\ WeekBounds(d + 7, -1) = WeekBounds(d, 0)
  <1>1. d % 7 \in 0 .. 6 /\ (d + 7) % 7 = d % 7
    OBVIOUS
  <1>2. d - (d % 7) + 7 * 0 = d - (d % 7)
    BY <1>1
  <1>5. (d + 7) - ((d + 7) % 7) + 7 * (-1) = d - (d % 7)
    BY <1>1
  <1>3. WeekBounds(d, 0) = [from |-> d - (d % 7), to |-> d - (d % 7) + 6]
    BY <1>2 DEF WeekBounds, DayOfWeek
  <1>4. WeekBounds(d + 7, -1) = [from |-> d - (d % 7), to |-> d - (d % 7) + 6]
    BY <1>5 DEF WeekBounds, DayOfWeek
  <1> QED BY <1>1, <1>3, <1>4

LEMMA WeeksPartition ==
    /\ \A d \in Nat : InRange(d, WeekBounds(d, 0))
    /\ \A d, e \in Nat : d >= WeekBounds(e, 0).from /\ d <= WeekBounds(e, 0).to
                            <=> WeekBounds(d, 0) = WeekBounds(e, 0)
  <1>1. ASSUME NEW d \in Nat
        PROVE  InRange(d, WeekBounds(d, 0))
    <2>1. PICK m \in 0 .. 6 : m = d % 7
      BY Mondays
    <2>2. d \in (d - m) .. (d - m + 6)
      OBVIOUS
    <2> QED BY <2>1, <2>2, Mondays DEF InRange
  <1>2. ASSUME NEW d \in Nat, NEW e \in Nat
        PROVE  d >= WeekBounds(e, 0).from /\ d <= WeekBounds(e, 0).to <=> WeekBounds(d, 0) = WeekBounds(e, 0)
    <2>1. PICK k \in Nat, m \in 0 .. 6 : d = 7 * k + m /\ m = d % 7
      <3>1. d = 7 * (d \div 7) + (d % 7) /\ d \div 7 \in Nat /\ d % 7 \in 0 .. 6
        OBVIOUS
      <3> QED BY <3>1
    <2>3. PICK l \in Nat, n \in 0 .. 6 : e = 7 * l + n /\ n = e % 7
      <3>1. e = 7 * (e \div 7) + (e % 7) /\ e \div 7 \in Nat /\ e % 7 \in 0 .. 6
        OBVIOUS
      <3> QED BY <3>1
    <2>4. d >= e - n /\ d <= e - n + 6 <=> d - m = e - n
      BY <2>1, <2>3
    <2>2. WeekBounds(d, 0) = WeekBounds(e, 0) <=> d - (d % 7) = e - (e % 7)
      BY Mondays
    <2> QED BY <2>1, <2>2, <2>3, <2>4, Mondays
  <1> QED BY <1>1, <1>2

\* A closed day as the attendance core keeps it.
Reckoned(r) ==
    /\ r.inTime \in Nat /\ r.outTime \in Nat /\ r.breakHours \in Nat
    /\ r.totalHours = AtLeastZero(r.outTime - r.inTime)
    /\ r.overtime.approvedHours \in Optional(Nat)

\* Any calendar of days and any arrears saved for its weeks.
AnyPayroll ==
    /\ DOMAIN input.day = Dates
    /\ \A d \in Dates : Payable(d) => Reckoned(input.day[d])
    /\ DOMAIN input.arrears \subseteq Weeks
    /\ \A range \in DOMAIN input.arrears : input.arrears[range] \in Int

LEMMA PaidHours ==
    ASSUME NEW r, Reckoned(r)
    PROVE  /\ PaidDay(r).normal = Lesser(AtLeastZero(r.totalHours - r.breakHours), StandardHours)
           /\ PaidDay(r).normal \in Int
           /\ PaidDay(r).overtime = PaidOvertime(r) /\ PaidOvertime(r) \in Int
  <1>1. StandardHours \in Int
    BY TimeAssumption
  <1>2. \A n \in Int : AtLeastZero(n) \in Int
    BY DEF AtLeastZero
  <1>3. r.inTime \in Int /\ r.outTime \in Int /\ r.breakHours \in Int /\ r.totalHours \in Int
    BY <1>2 DEF Reckoned
  <1>4. PaidDay(r).normal = Lesser(AtLeastZero(r.totalHours - r.breakHours), StandardHours)
    BY DEF PaidDay, Reckoned
  <1>5. PaidDay(r).normal \in Int
    BY <1>1, <1>2, <1>3, <1>4 DEF Lesser
  <1>6. PaidOvertime(r) \in Int
    <2>1. r.overtime.approvedHours = Null \/ r.overtime.approvedHours \in Int
      BY DEF Reckoned, Optional
    <2>2. AtLeastZero(AtLeastZero(r.outTime - r.inTime - r.breakHours) - StandardHours) \in Int
      BY <1>1, <1>2, <1>3
    <2> QED BY <2>1, <2>2 DEF PaidOvertime
  <1>7. PaidDay(r).overtime = PaidOvertime(r)
    BY DEF PaidDay
  <1> QED BY <1>4, <1>5, <1>6, <1>7

LEMMA WeekRunIs ==
    ASSUME NEW range
    PROVE  LET days == PaidDays(input.day, range)
           IN  /\ WeekRun(range)["days"] = Cardinality(days)
               /\ WeekRun(range)["normalHrs"] = SumFunction([d \in days |-> PaidDay(input.day[d]).normal])
               /\ WeekRun(range)["otHrs"] = SumFunction([d \in days |-> PaidDay(input.day[d]).overtime])
               /\ WeekRun(range)["foodDays"]
                     = Cardinality({d \in days : PaidDay(input.day[d]).total >= FoodMinHours})
               /\ WeekRun(range)["arrears"] = IF Considered(input.day, range) = {} THEN 0
                                              ELSE Arrears(input.arrears, range)
  BY DEF WeekRun, ComputePayroll

\* Week after week, each day is paid once: for a calendar of any length, whatever its days
\* (payroll.ts:18).
THEOREM PayrollAddsUp ==
    ASSUME AnyPayroll
    PROVE  /\ \A d \in Dates : /\ InRange(d, WeekBounds(d, 0))
                               /\ WeekBounds(d + 7, -1) = WeekBounds(d, 0)
           /\ Total("days") = Cardinality({d \in Dates : Payable(d)})
           /\ Total("normalHrs") + Total("otHrs") =
                 SumFunction([d \in {x \in Dates : Payable(x)} |->
                     Lesser(AtLeastZero(input.day[d].totalHours - input.day[d].breakHours), StandardHours)
                     + PaidOvertime(input.day[d])])
           /\ Total("foodDays") =
                 Cardinality({d \in Dates : Payable(d) /\ PaidDay(input.day[d]).total >= FoodMinHours})
           /\ Total("arrears") = SumFunctionOnSet(input.arrears, ArrearsDue)
  <1> DEFINE paid == {d \in Dates : Payable(d)}
             fed  == {d \in Dates : Payable(d) /\ PaidDay(input.day[d]).total >= FoodMinHours}
             week == [d \in Dates |-> WeekBounds(d, 0)]
             runs(x) == [range \in Weeks |-> WeekRun(range)[x]]
  <1>1. Dates \subseteq Nat /\ IsFiniteSet(Dates) /\ IsFiniteSet(paid) /\ IsFiniteSet(fed)
        /\ IsFiniteSet(Weeks)
    <2>1. Dates \subseteq Nat /\ IsFiniteSet(Dates)
      BY FiguresAssumption, FS_Interval DEF Dates
    <2>2. Weeks = {week[d] : d \in Dates}
      BY DEF Weeks
    <2>3. IsFiniteSet(Weeks)
      <3>1. week \in Surjection(Dates, Weeks)
        <4>1. week \in [Dates -> Weeks]
          BY DEF Weeks
        <4> HIDE DEF week
        <4> QED BY <4>1, <2>2 DEF Surjection
      <3>2. IsFiniteSet(Dates)
        BY <2>1
      <3> HIDE DEF week
      <3> QED BY <3>1, <3>2, FS_Surjection
    <2>4. paid \subseteq Dates /\ fed \subseteq Dates
      OBVIOUS
    <2> QED BY <2>1, <2>3, <2>4, FS_Subset
  <1>2. \A d \in Dates : week[d] \in Weeks /\ week[d] = WeekBounds(d, 0)
    BY DEF Weeks
  <1>3. \A range \in Weeks : PaidDays(input.day, range) = Part(paid, week, range)
    <2> SUFFICES ASSUME NEW e \in Dates
                 PROVE  PaidDays(input.day, WeekBounds(e, 0)) = Part(paid, week, WeekBounds(e, 0))
      BY DEF Weeks
    <2>1. \A d \in Dates : d >= WeekBounds(e, 0).from /\ d <= WeekBounds(e, 0).to
                              <=> week[d] = WeekBounds(e, 0)
      BY <1>1, WeeksPartition
    <2>2. DOMAIN input.day = Dates
      BY DEF AnyPayroll
    <2> HIDE DEF week
    <2> QED BY <2>1, <2>2 DEF PaidDays, Considered, Part, Payable, OnTheBooks
  <1> HIDE DEF week
  <1>4. \A x : Total(x) = SumFunctionOnSet(runs(x), Weeks)
    BY DEF Total, SumFunction
  <1>5. \A x : \A range \in Weeks : runs(x)[range] = WeekRun(range)[x]
    OBVIOUS
  <1> HIDE DEF runs
  <1>6. \A d \in paid : Reckoned(input.day[d])
    BY DEF AnyPayroll
  <1>7. ASSUME NEW x, NEW f, Summable(f, paid),
               \A range \in Weeks : WeekRun(range)[x] = SumFunctionOnSet(f, Part(paid, week, range))
        PROVE  Total(x) = SumFunctionOnSet(f, paid)
    <2>1. \A range \in Weeks : runs(x)[range] = SumFunctionOnSet(f, Part(paid, week, range))
      BY <1>5, <1>7
    <2>2. SumFunctionOnSet(runs(x), Weeks) = SumFunctionOnSet(f, paid)
      <3>1. \A d \in paid : week[d] \in Weeks
        BY <1>2
      <3>2. IsFiniteSet(Weeks)
        BY <1>1
      <3>3. Summable(f, paid)
        BY <1>7
      <3> HIDE DEF paid
      <3> QED BY <2>1, <3>1, <3>2, <3>3, PartsAddUp
    <2> QED BY <1>4, <2>2
  <1>8. ASSUME NEW range
        PROVE  /\ IsFiniteSet(Part(paid, week, range)) /\ Part(paid, week, range) \subseteq paid
               /\ \A f : Summable(f, paid) => Summable(f, Part(paid, week, range))
    <2>1. Part(paid, week, range) \subseteq paid
      BY DEF Part
    <2>2. IsFiniteSet(Part(paid, week, range))
      BY <1>1, <2>1, FS_Subset
    <2> HIDE DEF paid
    <2> QED BY <2>1, <2>2 DEF Summable
  <1> HIDE DEF paid
  <1>9. Total("days") = Cardinality(paid)
    <2> DEFINE ones == [d \in paid |-> 1]
    <2>1. \A d \in paid : ones[d] = 1
      OBVIOUS
    <2> HIDE DEF ones
    <2>2. Summable(ones, paid)
      BY <1>1, <2>1 DEF Summable
    <2>3. ASSUME NEW range \in Weeks
          PROVE  WeekRun(range)["days"] = SumFunctionOnSet(ones, Part(paid, week, range))
      <3>1. SumFunctionOnSet(ones, Part(paid, week, range)) = Cardinality(Part(paid, week, range))
        BY <2>1, <1>8, SumOfOnes
      <3> QED BY <1>3, <3>1, WeekRunIs
    <2>4. SumFunctionOnSet(ones, paid) = Cardinality(paid)
      BY <1>1, <2>1, SumOfOnes
    <2> QED BY <1>7, <2>2, <2>3, <2>4
  <1> DEFINE normal   == [d \in paid |-> PaidDay(input.day[d]).normal]
             overtime == [d \in paid |-> PaidDay(input.day[d]).overtime]
             both     == [d \in paid |-> Lesser(AtLeastZero(input.day[d].totalHours - input.day[d].breakHours),
                                                StandardHours)
                                         + PaidOvertime(input.day[d])]
  <1>10. /\ \A d \in paid : /\ normal[d] = PaidDay(input.day[d]).normal
                            /\ overtime[d] = PaidDay(input.day[d]).overtime
                            /\ normal[d] \in Int /\ overtime[d] \in Int
                            /\ both[d] = normal[d] + overtime[d]
         /\ DOMAIN both = paid
    <2>1. ASSUME NEW d \in paid
          PROVE  /\ normal[d] = PaidDay(input.day[d]).normal
                 /\ overtime[d] = PaidDay(input.day[d]).overtime
                 /\ normal[d] \in Int /\ overtime[d] \in Int
      BY <1>6, PaidHours
    <2>2. ASSUME NEW d \in paid
          PROVE  both[d] = normal[d] + overtime[d]
      <3> DEFINE r == input.day[d]
      <3>1. Reckoned(r)
        BY <1>6
      <3>2. both[d] = Lesser(AtLeastZero(r.totalHours - r.breakHours), StandardHours) + PaidOvertime(r)
        OBVIOUS
      <3>3. normal[d] = PaidDay(r).normal /\ overtime[d] = PaidDay(r).overtime
        BY <2>1
      <3> HIDE DEF r, both, normal, overtime
      <3>4. PaidDay(r).normal = Lesser(AtLeastZero(r.totalHours - r.breakHours), StandardHours)
            /\ PaidDay(r).overtime = PaidOvertime(r)
        BY <3>1, PaidHours
      <3> QED BY <3>2, <3>3, <3>4
    <2>3. DOMAIN both = paid
      OBVIOUS
    <2> HIDE DEF both, normal, overtime
    <2> QED BY <2>1, <2>2, <2>3
  <1> HIDE DEF normal, overtime, both
  <1>11. Summable(normal, paid) /\ Summable(overtime, paid) /\ Summable(both, paid)
    <2>1. \A d \in paid : both[d] \in Int
      BY <1>10
    <2> QED BY <1>1, <1>10, <2>1 DEF Summable
  <1>12. Total("normalHrs") = SumFunctionOnSet(normal, paid)
    <2>1. ASSUME NEW range \in Weeks
          PROVE  WeekRun(range)["normalHrs"] = SumFunctionOnSet(normal, Part(paid, week, range))
      <3> DEFINE part == Part(paid, week, range)
                 hrs  == [d \in part |-> PaidDay(input.day[d]).normal]
      <3>1. WeekRun(range)["normalHrs"] = SumFunction(hrs)
        BY <1>3, WeekRunIs
      <3>2. Summable(normal, part) /\ part \subseteq paid
        BY <1>8, <1>11
      <3>3. DOMAIN hrs = part /\ \A d \in part : hrs[d] = PaidDay(input.day[d]).normal
        OBVIOUS
      <3> HIDE DEF part, hrs
      <3>4. \A d \in part : hrs[d] = normal[d]
        BY <1>10, <3>2, <3>3
      <3>5. SumFunction(hrs) = SumFunctionOnSet(normal, part)
        BY <3>2, <3>3, <3>4, SumRestricted
      <3> QED BY <3>1, <3>5 DEF part
    <2> QED BY <1>7, <1>11, <2>1
  <1>13. Total("otHrs") = SumFunctionOnSet(overtime, paid)
    <2>1. ASSUME NEW range \in Weeks
          PROVE  WeekRun(range)["otHrs"] = SumFunctionOnSet(overtime, Part(paid, week, range))
      <3> DEFINE part == Part(paid, week, range)
                 hrs  == [d \in part |-> PaidDay(input.day[d]).overtime]
      <3>1. WeekRun(range)["otHrs"] = SumFunction(hrs)
        BY <1>3, WeekRunIs
      <3>2. Summable(overtime, part) /\ part \subseteq paid
        BY <1>8, <1>11
      <3>3. DOMAIN hrs = part /\ \A d \in part : hrs[d] = PaidDay(input.day[d]).overtime
        OBVIOUS
      <3> HIDE DEF part, hrs
      <3>4. \A d \in part : hrs[d] = overtime[d]
        BY <1>10, <3>2, <3>3
      <3>5. SumFunction(hrs) = SumFunctionOnSet(overtime, part)
        BY <3>2, <3>3, <3>4, SumRestricted
      <3> QED BY <3>1, <3>5 DEF part
    <2> QED BY <1>7, <1>11, <2>1
  <1>14. Total("normalHrs") + Total("otHrs") = SumFunction(both)
    <2>1. SumFunctionOnSet(both, paid) = SumFunctionOnSet(normal, paid) + SumFunctionOnSet(overtime, paid)
      BY <1>10, <1>11, SumPlus
    <2>2. SumFunction(both) = SumFunctionOnSet(both, paid)
      BY <1>10 DEF SumFunction
    <2> QED BY <1>12, <1>13, <2>1, <2>2
  <1>15. Total("foodDays") = Cardinality(fed)
    <2> DEFINE meal == [d \in paid |-> IF PaidDay(input.day[d]).total >= FoodMinHours THEN 1 ELSE 0]
               ones == [d \in fed |-> 1]
    <2>1. fed \subseteq paid /\ fed = {d \in paid : PaidDay(input.day[d]).total >= FoodMinHours}
      BY DEF paid
    <2> HIDE DEF fed
    <2>2. /\ \A d \in paid : meal[d] \in Int
          /\ \A d \in paid : d \in fed => meal[d] = 1
          /\ \A d \in paid \ fed : meal[d] = 0
      BY <2>1
    <2> HIDE DEF meal
    <2>3. Summable(meal, paid)
      BY <1>1, <2>2 DEF Summable
    <2>4. ASSUME NEW range \in Weeks
          PROVE  WeekRun(range)["foodDays"] = SumFunctionOnSet(meal, Part(paid, week, range))
      <3> DEFINE part == Part(paid, week, range)
                 eats == {d \in part : PaidDay(input.day[d]).total >= FoodMinHours}
      <3>1. WeekRun(range)["foodDays"] = Cardinality(eats)
        BY <1>3, WeekRunIs
      <3>2. Summable(meal, part) /\ part \subseteq paid /\ IsFiniteSet(part)
        BY <1>8, <2>3
      <3>3. eats \subseteq part /\ eats = part \cap fed
        BY <2>1, <3>2
      <3> HIDE DEF eats
      <3>4. IsFiniteSet(eats)
        BY <3>2, <3>3, FS_Subset
      <3> HIDE DEF part
      <3>5. SumFunctionOnSet(meal, part) = SumFunctionOnSet(meal, eats)
        <4>1. \A d \in part \ eats : meal[d] = 0
          BY <2>2, <3>2, <3>3
        <4> QED BY <3>2, <3>3, <4>1, SumOfNothing
      <3>6. SumFunctionOnSet(meal, eats) = Cardinality(eats)
        <4>1. \A d \in eats : meal[d] = 1
          BY <2>2, <3>2, <3>3
        <4> QED BY <3>4, <4>1, SumOfOnes
      <3> QED BY <3>1, <3>5, <3>6 DEF part
    <2>5. SumFunctionOnSet(meal, paid) = SumFunctionOnSet(meal, fed)
      BY <2>1, <2>2, <2>3, SumOfNothing
    <2>6. SumFunctionOnSet(meal, fed) = Cardinality(fed)
      <3>1. \A d \in fed : meal[d] = 1
        BY <2>1, <2>2
      <3>2. IsFiniteSet(fed)
        BY <1>1 DEF fed
      <3> QED BY <3>1, <3>2, SumOfOnes
    <2> QED BY <1>7, <2>3, <2>4, <2>5, <2>6
  <1>16. Total("arrears") = SumFunctionOnSet(input.arrears, ArrearsDue)
    <2> DEFINE T == ArrearsDue
    <2>1. T \subseteq DOMAIN input.arrears /\ DOMAIN input.arrears \subseteq Weeks
          /\ \A range \in DOMAIN input.arrears : input.arrears[range] \in Int
      BY DEF AnyPayroll, ArrearsDue
    <2>2. \A range \in Weeks :
             Considered(input.day, range) # {} <=> \E d \in Dates : InRange(d, range) /\ OnTheBooks(d)
      <3> SUFFICES ASSUME NEW e \in Dates
                   PROVE  Considered(input.day, WeekBounds(e, 0)) # {}
                             <=> \E d \in Dates : InRange(d, WeekBounds(e, 0)) /\ OnTheBooks(d)
        BY DEF Weeks
      <3> DEFINE from == WeekBounds(e, 0).from
                 to   == WeekBounds(e, 0).to
      <3>1. from \in Int /\ to \in Int
        <4>1. PICK m \in 0 .. 6 : from = e - m /\ to = e - m + 6
          BY <1>1, Mondays
        <4> QED BY <1>1, <4>1
      <3>2. DOMAIN input.day = Dates
        BY DEF AnyPayroll
      <3> HIDE DEF from, to
      <3>3. \A d \in Dates : d \in from .. to <=> d >= from /\ d <= to
        BY <1>1, <3>1
      <3> QED BY <3>2, <3>3 DEF Considered, InRange, OnTheBooks, from, to
    <2>3. \A range \in Weeks : runs("arrears")[range] = IF range \in T THEN input.arrears[range] ELSE 0
      <3>1. \A range \in Weeks :
               runs("arrears")[range] = IF Considered(input.day, range) = {} THEN 0
                                        ELSE Arrears(input.arrears, range)
        BY <1>5, WeekRunIs
      <3> QED BY <2>2, <3>1 DEF Arrears, ArrearsDue
    <2>4. \A range \in Weeks : runs("arrears")[range] \in Int
      BY <2>1, <2>3
    <2>5. Summable(runs("arrears"), Weeks)
      BY <1>1, <2>4 DEF Summable
    <2> HIDE DEF T
    <2>6. SumFunctionOnSet(runs("arrears"), Weeks) = SumFunctionOnSet(runs("arrears"), T)
      BY <2>1, <2>3, <2>5, SumOfNothing
    <2>7. Summable(input.arrears, T) /\ \A range \in T : input.arrears[range] = runs("arrears")[range]
      <3>1. IsFiniteSet(T)
        BY <1>1, <2>1, FS_Subset
      <3> QED BY <2>1, <2>3, <3>1 DEF Summable
    <2>8. SumFunctionOnSet(input.arrears, T) = SumFunctionOnSet(runs("arrears"), T)
      BY <2>7, SumSame
    <2> QED BY <1>4, <2>6, <2>8 DEF T
  <1>17. \A d \in Dates : InRange(d, WeekBounds(d, 0)) /\ WeekBounds(d + 7, -1) = WeekBounds(d, 0)
    BY <1>1, WeeksPartition, Mondays
  <1> QED BY <1>9, <1>14, <1>15, <1>16, <1>17 DEF paid, both, fed

\* A day closed by a scan is reckoned, and so is what the office makes of it.
LEMMA DaysAreReckoned == \A r \in Days : IsOpen(r) \/ Reckoned(r)
  <1> DEFINE Fields == {"inTime", "outTime", "totalHours", "breakHours", "overtime", "attendanceStatus", "voided"}
             Kept(r) == /\ Fields \subseteq DOMAIN r
                        /\ {"status", "approvedHours"} \subseteq DOMAIN r.overtime
                        /\ r.overtime.computedHours \in Nat
                        /\ Reckoned(r)
  <1>1. ASSUME NEW h \in Nat
        PROVE  Kept(Closed(h))
    <2> DEFINE r == NewScan("site", "day", 0)
               w == WithHours(r, h, 1)
               t == ReckonHours(0, h, 1)
    <2>1. /\ Fields \union {"standardHours", "sessions"} \subseteq DOMAIN r
          /\ r.inTime = 0 /\ r.overtime = NoOvertime
      BY DEF NewScan
    <2>2. t.total = AtLeastZero(h - 0) /\ t.overtime \in Nat
      BY TimeAssumption DEF ReckonHours, AtLeastZero
    <2> HIDE DEF r, t
    <2>3. /\ DOMAIN w = DOMAIN r /\ w.inTime = 0 /\ w.outTime = h /\ w.breakHours = 1
          /\ w.totalHours = t.total
      BY <2>1 DEF WithHours, t
    <2>4. /\ DOMAIN w.overtime = {"computedHours", "status", "approvedHours"}
          /\ w.overtime.computedHours = t.overtime
      BY <2>1 DEF WithHours, t, NoOvertime
    <2> HIDE DEF w
    <2>5. Closed(h) = [w EXCEPT !.overtime.approvedHours = Null, !.sessions = ClosePunch(@)]
      BY DEF Closed, CloseSession, w, r
    <2>6. /\ DOMAIN Closed(h) = DOMAIN w /\ Closed(h).inTime = 0 /\ Closed(h).outTime = h
          /\ Closed(h).breakHours = 1 /\ Closed(h).totalHours = t.total
      BY <2>1, <2>3, <2>5
    <2>7. /\ DOMAIN Closed(h).overtime = DOMAIN w.overtime /\ Closed(h).overtime.approvedHours = Null
          /\ Closed(h).overtime.computedHours = t.overtime
      BY <2>1, <2>3, <2>4, <2>5
    <2> QED BY <2>1, <2>2, <2>3, <2>4, <2>6, <2>7 DEF Reckoned, Optional
  <1>2. ASSUME NEW r, Kept(r)
        PROVE  /\ Reckoned(ApproveOvertime(r, [kind |-> "hours", hours |-> 2]))
               /\ Reckoned(Reject(r))
               /\ Reckoned([r EXCEPT !.voided = TRUE])
    <2>1. Reckoned(Reject(r))
      BY <1>2 DEF Reject, Reckoned
    <2>2. Reckoned([r EXCEPT !.voided = TRUE])
      BY <1>2 DEF Reckoned
    <2>3. Reckoned(ApproveOvertime(r, [kind |-> "hours", hours |-> 2]))
      <3> DEFINE a == ApproveOvertime(r, [kind |-> "hours", hours |-> 2])
                 raw == IF 2 = Null THEN r.overtime.computedHours ELSE Lesser(2, r.overtime.computedHours)
      <3>1. raw \in Nat
        BY <1>2 DEF Lesser
      <3>2. a = [r EXCEPT !.overtime.status = "approved", !.overtime.approvedHours = raw]
        BY DEF ApproveOvertime, NumberOf
      <3> HIDE DEF a, raw
      <3>3. /\ a.inTime = r.inTime /\ a.outTime = r.outTime /\ a.breakHours = r.breakHours
            /\ a.totalHours = r.totalHours
        BY <1>2, <3>2
      <3>4. a.overtime.approvedHours = raw
        BY <1>2, <3>2
      <3> QED BY <1>2, <3>1, <3>3, <3>4 DEF Reckoned, Optional, a
    <2> QED BY <2>1, <2>2, <2>3
  <1>3. IsOpen(NewScan("site", "day", 0))
    BY DEF IsOpen, NewScan
  <1>4. Kept(Closed(4)) /\ Kept(Closed(12))
    BY <1>1
  <1> HIDE DEF Kept
  <1>5. Reckoned(Closed(4)) /\ Reckoned(Closed(12))
    BY <1>4 DEF Kept
  <1> QED BY <1>2, <1>3, <1>4, <1>5 DEF Days

LEMMA PayInputIsPayroll ==
    ASSUME PayInput
    PROVE  AnyPayroll
  <1>1. PICK d, e \in Dates, first, second \in Days, v, w \in {0, 7} :
            /\ d < e
            /\ input = [about |-> "payroll",
                        day |-> [x \in Dates |-> CASE x = d -> first [] x = e -> second [] OTHER -> Null],
                        arrears |-> SaveArrears(SaveArrears(<< >>, WeekBounds(v, 0), 5), WeekBounds(w, 0), 3)]
    BY DEF PayInput
  <1>2. DOMAIN input.day = Dates
    BY <1>1
  <1>3. \A x \in Dates : input.day[x] \in Days \/ input.day[x] = Null
    BY <1>1
  <1>4. \A x \in Dates : Payable(x) => Reckoned(input.day[x])
    BY <1>3, DaysAreReckoned DEF Payable, OnTheBooks
  <1>5. 0 \in Dates /\ 7 \in Dates
    BY FiguresAssumption DEF Dates
  <1>6. WeekBounds(v, 0) \in Weeks /\ WeekBounds(w, 0) \in Weeks
    BY <1>5 DEF Weeks
  <1> DEFINE one == SaveArrears(<< >>, WeekBounds(v, 0), 5)
  <1>7. DOMAIN one = {WeekBounds(v, 0)} /\ one[WeekBounds(v, 0)] = 5
    BY DEF SaveArrears
  <1> HIDE DEF one
  <1>8. /\ DOMAIN input.arrears = {WeekBounds(v, 0), WeekBounds(w, 0)}
        /\ \A range \in DOMAIN input.arrears : input.arrears[range] \in {3, 5}
    <2>1. input.arrears = SaveArrears(one, WeekBounds(w, 0), 3)
      BY <1>1 DEF one
    <2> QED BY <1>7, <2>1 DEF SaveArrears
  <1> QED BY <1>2, <1>4, <1>6, <1>8 DEF AnyPayroll

\* WeeklyRunsAddUp of every calendar the desk is asked about.
THEOREM PayrollOfTheRunAddsUp == MCSpec => []WeeklyRunsAddUp
  <1>1. MCInit => WeeklyRunsAddUp
    <2> SUFFICES ASSUME MCInit, input.about = "payroll"
                 PROVE  WeeklyRunsAddUp
      BY DEF WeeklyRunsAddUp
    <2>1. PayInput
      BY DEF MCInit, FiguresInit, AbsenceInput, PagesInput, FigureInput, FenceInput, FaceInput
    <2> QED BY <2>1, PayInputIsPayroll, PayrollAddsUp DEF WeeklyRunsAddUp
  <1>2. WeeklyRunsAddUp /\ [MCNext]_deskVars => WeeklyRunsAddUp'
    BY DEF MCNext, deskVars, WeeklyRunsAddUp, Total, WeekRun, Payable, OnTheBooks, ArrearsDue,
           InRange, Weeks, Dates
  <1> QED BY <1>1, <1>2, PTL DEF MCSpec

-----------------------------------------------------------------------------
(* The figures *)

\* A database with finitely many records, all of its employees and sites, each with the
\* name its site has.
Ledger(db) ==
    /\ IsFiniteSet(DOMAIN db.site) /\ IsFiniteSet(DOMAIN db.employee)
    /\ IsFiniteSet(DOMAIN db.day) /\ IsFiniteSet(DOMAIN db.flags)
    /\ Nowhere \notin DOMAIN db.site
    /\ \A k \in DOMAIN db.day : /\ db.day[k].site \in DOMAIN db.site \union {Nowhere}
                                /\ db.day[k].otHours \in Nat /\ db.day[k].typed \subseteq Nat
    /\ \A k \in Records(db) : db.day[k].siteName = db.site[db.day[k].site].name
    /\ \A e \in DOMAIN db.employee : db.employee[e].siteId \in DOMAIN db.site \cap db.employee[e].siteIds
    /\ \A i \in DOMAIN db.flags : db.flags[i] \in DOMAIN db.site

LEMMA LedgerIsFinite ==
    ASSUME NEW db, Ledger(db)
    PROVE  /\ IsFiniteSet(Records(db)) /\ \A rows \in SUBSET Records(db) : IsFiniteSet(rows)
           /\ \A k \in Records(db) : db.day[k].site \in DOMAIN db.site /\ db.day[k].site # Nowhere
           /\ \A s \in SUBSET DOMAIN db.site : IsFiniteSet(s)
  <1>1. Records(db) \subseteq DOMAIN db.day
    BY DEF Records
  <1>2. IsFiniteSet(DOMAIN db.day) /\ IsFiniteSet(DOMAIN db.site)
    BY DEF Ledger
  <1>3. \A k \in Records(db) : db.day[k].site \in DOMAIN db.site /\ db.day[k].site # Nowhere
    BY DEF Ledger, Records
  <1>4. IsFiniteSet(Records(db))
    BY <1>1, <1>2, FS_Subset
  <1>5. \A rows \in SUBSET Records(db) : IsFiniteSet(rows)
    BY <1>4, FS_Subset
  <1>6. \A s \in SUBSET DOMAIN db.site : IsFiniteSet(s)
    BY <1>2, FS_Subset
  <1> QED BY <1>3, <1>4, <1>5, <1>6

\* The hours and the hours that count of every record.
HoursOf(db)   == [k \in Records(db) |-> db.day[k].otHours]
CountedOf(db) == [k \in Records(db) |-> CountedHours(db.day[k])]

LEMMA HoursAreSums ==
    ASSUME NEW db, Ledger(db), NEW rows \in SUBSET Records(db)
    PROVE  /\ Summable(HoursOf(db), rows) /\ Summable(CountedOf(db), rows)
           /\ Hours(db, rows) = SumFunctionOnSet(HoursOf(db), rows)
           /\ Counted(db, rows) = SumFunctionOnSet(CountedOf(db), rows)
           /\ Hours(db, rows) \in Int /\ Counted(db, rows) \in Int
  <1>1. \A k \in rows : k \in Records(db) /\ k \in DOMAIN db.day
    BY DEF Records
  <1>2. \A k \in rows : HoursOf(db)[k] = db.day[k].otHours /\ CountedOf(db)[k] = CountedHours(db.day[k])
    BY <1>1 DEF HoursOf, CountedOf
  <1>3. ASSUME NEW k \in rows
        PROVE  db.day[k].otHours \in Nat /\ CountedHours(db.day[k]) \in Nat
    <2>1. db.day[k].otHours \in Nat /\ db.day[k].typed \subseteq Nat
      BY <1>1 DEF Ledger
    <2>2. db.day[k].typed # {} => (CHOOSE h \in db.day[k].typed : TRUE) \in db.day[k].typed
      OBVIOUS
    <2> QED BY <2>1, <2>2 DEF CountedHours
  <1>4. IsFiniteSet(rows)
    BY LedgerIsFinite
  <1>5. Summable(HoursOf(db), rows) /\ Summable(CountedOf(db), rows)
    BY <1>2, <1>3, <1>4 DEF Summable
  <1> DEFINE hrs == [k \in rows |-> db.day[k].otHours]
             cnt == [k \in rows |-> CountedHours(db.day[k])]
  <1>6. /\ DOMAIN hrs = rows /\ \A k \in rows : hrs[k] = HoursOf(db)[k]
        /\ DOMAIN cnt = rows /\ \A k \in rows : cnt[k] = CountedOf(db)[k]
    BY <1>2
  <1>7. Hours(db, rows) = SumFunction(hrs) /\ Counted(db, rows) = SumFunction(cnt)
    BY DEF Hours, Counted
  <1> HIDE DEF hrs, cnt
  <1>8. SumFunction(hrs) = SumFunctionOnSet(HoursOf(db), rows)
    BY <1>5, <1>6, SumRestricted
  <1>9. SumFunction(cnt) = SumFunctionOnSet(CountedOf(db), rows)
    BY <1>5, <1>6, SumRestricted
  <1> QED BY <1>5, <1>7, <1>8, <1>9, SumType

\* What waits counts in full.
LEMMA PendingCounts ==
    ASSUME NEW db, Ledger(db), NEW rows \in SUBSET Records(db),
           \A k \in rows : db.day[k].otStatus = "pending"
    PROVE  Counted(db, rows) = Hours(db, rows)
  <1>1. \A k \in rows : CountedOf(db)[k] = HoursOf(db)[k]
    BY DEF CountedOf, HoursOf, CountedHours
  <1>2. SumFunctionOnSet(CountedOf(db), rows) = SumFunctionOnSet(HoursOf(db), rows)
    BY <1>1, HoursAreSums, SumSame
  <1> QED BY <1>2, HoursAreSums

LEMMA NothingCounts ==
    ASSUME NEW db, Ledger(db)
    PROVE  Hours(db, {}) = 0 /\ Counted(db, {}) = 0
  <1>1. {} \in SUBSET Records(db)
    OBVIOUS
  <1> QED BY <1>1, HoursAreSums, SumEmpty

LEMMA PagesAreLines ==
    ASSUME NEW db, Ledger(db), NEW user
    PROVE  PagesAgree(db, user)
  <1> SUFFICES ASSUME NEW s \in ActiveSites(db, user),
                      Cardinality(RecordsAt(db, s)) <= PageRows, Cardinality(FlagsAt(db, s)) <= PageFlags
               PROVE  SitePage(db, s) = HierarchyRollup(db, user)[s]
    BY DEF PagesAgree, HierarchyRollup
  <1> DEFINE all == {k \in RecordsAt(db, s) : db.day[k].otStatus \in {"pending", "approved"}}
  <1>1. Cardinality(all) <= PageRows
    <2>1. RecordsAt(db, s) \subseteq Records(db) /\ all \subseteq RecordsAt(db, s)
      BY DEF RecordsAt
    <2>2. IsFiniteSet(RecordsAt(db, s))
      BY <2>1, LedgerIsFinite
    <2> HIDE DEF all
    <2>3. Cardinality(all) <= Cardinality(RecordsAt(db, s)) /\ IsFiniteSet(all)
      BY <2>1, <2>2, FS_Subset
    <2>4. Cardinality(all) \in Nat /\ Cardinality(RecordsAt(db, s)) \in Nat
      BY <2>2, <2>3, FS_CardinalityType
    <2> QED BY <2>3, <2>4, FiguresAssumption
  <1>2. PageOvertime(db, s) = all
    BY <1>1 DEF PageOvertime
  <1>3. {k \in PageOvertime(db, s) : db.day[k].otStatus = "pending"} = PendingAt(db, s)
    BY <1>2 DEF PendingAt
  <1>4. ~ (Cardinality(FlagsAt(db, s)) > PageFlags)
    <2>1. FlagsAt(db, s) \subseteq DOMAIN db.flags /\ IsFiniteSet(DOMAIN db.flags)
      BY DEF FlagsAt, Ledger
    <2>2. Cardinality(FlagsAt(db, s)) \in Nat
      BY <2>1, FS_Subset, FS_CardinalityType
    <2> QED BY <2>2, FiguresAssumption
  <1> QED BY <1>3, <1>4 DEF SitePage, SiteRollup, HierarchyRollup

LEMMA HeadlineIsSum ==
    ASSUME NEW db, Ledger(db), NEW user
    PROVE  HeadlineAgrees(db, user)
  <1> DEFINE B == ActiveSites(db, user)
             lines(x) == [s \in B |-> SiteRollup(db, s)[x]]
  <1> SUFFICES ASSUME AllActive(db)
               PROVE  \A x \in Figure : Headline(db, user)[x] = SumFunction(lines(x))
    BY DEF HeadlineAgrees, HierarchyRollup
  <1>1. B = {s \in DOMAIN db.site : CanUseSite(user, s)} /\ IsFiniteSet(B)
    BY LedgerIsFinite DEF ActiveSites, AllActive
  <1>2. \A x : DOMAIN lines(x) = B /\ \A s \in B : lines(x)[s] = SiteRollup(db, s)[x]
    OBVIOUS
  <1>8. IsFiniteSet(B)
    BY <1>1
  <1>9. \A x : DOMAIN lines(x) = B
    OBVIOUS
  <1> HIDE DEF B, lines
  <1> DEFINE place == [k \in Records(db) |-> db.day[k].site]
             home  == [e \in DOMAIN db.employee |-> db.employee[e].siteId]
             today == {k \in Records(db) : k[2] = db.today /\ CanUseSite(user, db.day[k].site)}
             force == {e \in DOMAIN db.employee :
                          db.employee[e].status = "active" /\ CanUseSite(user, db.employee[e].siteId)}
             waits == {k \in Records(db) : db.day[k].otStatus = "pending" /\ CanUseSite(user, db.day[k].site)}
             flags == {i \in DOMAIN db.flags : CanUseSite(user, db.flags[i])}
  <1>3. \A k \in Records(db) : db.day[k].site \in DOMAIN db.site
    BY LedgerIsFinite
  <1>4. Headline(db, user)["present"] = SumFunction(lines("present"))
    <2>1. \A k \in today : place[k] \in B
      BY <1>1, <1>3
    <2>2. \A s \in B : Part(today, place, s) = TodayAt(db, s)
      BY <1>1 DEF Part, TodayAt, RecordsAt
    <2>3. \A s \in B : lines("present")[s] = Cardinality(Part(today, place, s))
      BY <1>2, <2>2 DEF SiteRollup
    <2>4. IsFiniteSet(today)
      BY LedgerIsFinite
    <2>5. Headline(db, user)["present"] = Cardinality(today)
      BY DEF Headline
    <2> HIDE DEF today, place
    <2> DEFINE run == lines("present")
    <2>6. DOMAIN run = B
      BY <1>9
    <2> HIDE DEF run
    <2>7. SumFunction(run) = Cardinality(today)
      BY <1>8, <2>1, <2>3, <2>4, <2>6, CountsAddUp DEF run
    <2> QED BY <2>5, <2>7 DEF run
  <1>5. Headline(db, user)["active"] = SumFunction(lines("active"))
    <2>1. \A e \in force : home[e] \in B
      BY <1>1 DEF Ledger
    <2>2. \A s \in B : Part(force, home, s) = Workforce(db, s)
      BY <1>1 DEF Part, Workforce
    <2>3. \A s \in B : lines("active")[s] = Cardinality(Part(force, home, s))
      BY <1>2, <2>2 DEF SiteRollup
    <2>4. IsFiniteSet(force)
      <3>1. force \subseteq DOMAIN db.employee /\ IsFiniteSet(DOMAIN db.employee)
        BY DEF Ledger
      <3> QED BY <3>1, FS_Subset
    <2>5. Headline(db, user)["active"] = Cardinality(force)
      BY DEF Headline
    <2> HIDE DEF force, home
    <2> DEFINE run == lines("active")
    <2>6. DOMAIN run = B
      BY <1>9
    <2> HIDE DEF run
    <2>7. SumFunction(run) = Cardinality(force)
      BY <1>8, <2>1, <2>3, <2>4, <2>6, CountsAddUp DEF run
    <2> QED BY <2>5, <2>7 DEF run
  <1>6. Headline(db, user)["otPending"] = SumFunction(lines("otPending"))
    <2>1. \A k \in waits : place[k] \in B
      BY <1>1, <1>3
    <2>2. \A s \in B : Part(waits, place, s) = PendingAt(db, s)
      BY <1>1 DEF Part, PendingAt, RecordsAt
    <2>3. waits \in SUBSET Records(db) /\ \A s \in B : Part(waits, place, s) \in SUBSET Records(db)
      BY DEF Part
    <2>4. \A s \in B : lines("otPending")[s] = Hours(db, Part(waits, place, s))
      BY <1>2, <2>2 DEF SiteRollup
    <2>5. Headline(db, user)["otPending"] = Hours(db, waits)
      BY DEF Headline
    <2> HIDE DEF waits, place
    <2>6. \A s \in B : lines("otPending")[s] = SumFunctionOnSet(HoursOf(db), Part(waits, place, s))
      BY <2>3, <2>4, HoursAreSums
    <2>7. Summable(HoursOf(db), waits) /\ Hours(db, waits) = SumFunctionOnSet(HoursOf(db), waits)
      BY <2>3, HoursAreSums
    <2> DEFINE run == lines("otPending")
    <2>8. DOMAIN run = B
      BY <1>9
    <2> HIDE DEF run
    <2>9. SumFunction(run) = SumFunctionOnSet(HoursOf(db), waits)
      BY <1>8, <2>1, <2>6, <2>7, <2>8, SumsAddUp DEF run
    <2> QED BY <2>5, <2>7, <2>9 DEF run
  <1>7. Headline(db, user)["flags"] = SumFunction(lines("flags"))
    <2>1. \A i \in flags : db.flags[i] \in B
      BY <1>1 DEF Ledger
    <2>2. \A s \in B : Part(flags, db.flags, s) = FlagsAt(db, s)
      BY <1>1 DEF Part, FlagsAt
    <2>3. \A s \in B : lines("flags")[s] = Cardinality(Part(flags, db.flags, s))
      BY <1>2, <2>2 DEF SiteRollup
    <2>4. IsFiniteSet(flags)
      <3>1. flags \subseteq DOMAIN db.flags /\ IsFiniteSet(DOMAIN db.flags)
        BY DEF Ledger
      <3> QED BY <3>1, FS_Subset
    <2>5. Headline(db, user)["flags"] = Cardinality(flags)
      BY DEF Headline
    <2> HIDE DEF flags
    <2> DEFINE run == lines("flags")
    <2>6. DOMAIN run = B
      BY <1>9
    <2> HIDE DEF run
    <2>7. SumFunction(run) = Cardinality(flags)
      BY <1>8, <2>1, <2>3, <2>4, <2>6, CountsAddUp DEF run
    <2> QED BY <2>5, <2>7 DEF run
  <1> QED BY <1>4, <1>5, <1>6, <1>7 DEF Figure

\* The rows of the overtime report without a filter.
LEMMA RowsUnfiltered ==
    ASSUME NEW db, NEW user
    PROVE  /\ OvertimeRows(db, user, NoFilter)
                 = {k \in Records(db) : /\ db.day[k].otStatus \in {"pending", "approved"}
                                        /\ CanUseSite(user, db.day[k].site)}
           /\ EmployeeRows(db, user, NoFilter)
                 = {e \in DOMAIN db.employee : /\ CanUseWorker(user, db.employee[e])
                                               /\ db.employee[e].status \in {"active", "inactive"}}
           /\ EmployeeRows(db, user, [NoFilter EXCEPT !.status = "active"])
                 = {e \in DOMAIN db.employee : /\ CanUseWorker(user, db.employee[e])
                                               /\ db.employee[e].status = "active"}
           /\ EmployeeRows(db, user, [site |-> Nowhere, status |-> Nowhere])
                 = EmployeeRows(db, user, NoFilter)
  <1>1. /\ NoFilter.site = Nowhere /\ NoFilter.from = 0 /\ NoFilter.to = 0 /\ NoFilter.status = Nowhere
        /\ SiteFilter(user, NoFilter) = Nowhere
        /\ \A d : Within(NoFilter, d)
    BY DEF NoFilter, SiteFilter, Within
  <1> DEFINE g == [NoFilter EXCEPT !.status = "active"]
             h == [site |-> Nowhere, status |-> Nowhere]
  <1>2. g.site = Nowhere /\ g.status = "active" /\ SiteFilter(user, g) = Nowhere /\ "active" # Nowhere
    BY DEF NoFilter, SiteFilter, Nowhere
  <1>3. h.site = Nowhere /\ h.status = Nowhere /\ SiteFilter(user, h) = Nowhere
    BY DEF SiteFilter
  <1> HIDE DEF g, h
  <1>4. EmployeeRows(db, user, g) = {e \in DOMAIN db.employee :
              CanUseWorker(user, db.employee[e]) /\ db.employee[e].status = "active"}
    BY <1>2 DEF EmployeeRows
  <1>5. EmployeeRows(db, user, h) = EmployeeRows(db, user, NoFilter)
    BY <1>1, <1>3 DEF EmployeeRows
  <1> QED BY <1>1, <1>4, <1>5 DEF OvertimeRows, EmployeeRows, g, h

\* The overtime that waits at the sites of a name, and the rollup's lines of those sites.
WaitingUnder(db, user, n) ==
    {k \in Records(db) : /\ db.day[k].siteName = n
                         /\ db.day[k].otStatus = "pending"
                         /\ CanUseSite(user, db.day[k].site)}

OpenUnder(db, user, n) == {s \in DOMAIN db.site : db.site[s].name = n} \cap ActiveSites(db, user)

LinesUnder(db, user, n) ==
    [s \in OpenUnder(db, user, n) |-> HierarchyRollup(db, user)[s].otPending]

\* The lines of the sites of one name, all open, add up to what waits at any of them.
LEMMA LinesOfName ==
    ASSUME NEW db, Ledger(db), NEW user, NEW n,
           \A s \in DOMAIN db.site : db.site[s].name = n => db.site[s].status = "active"
    PROVE  SumFunction(LinesUnder(db, user, n)) = Hours(db, WaitingUnder(db, user, n))
  <1> DEFINE waits == WaitingUnder(db, user, n)
             open  == OpenUnder(db, user, n)
             lines == LinesUnder(db, user, n)
             place == [k \in Records(db) |-> db.day[k].site]
  <1>1. open \subseteq DOMAIN db.site /\ open \subseteq ActiveSites(db, user)
    BY DEF OpenUnder
  <1>2. IsFiniteSet(open)
    BY <1>1, LedgerIsFinite
  <1>3. \A k \in Records(db) : /\ db.day[k].site \in DOMAIN db.site
                               /\ db.day[k].siteName = db.site[db.day[k].site].name
    BY LedgerIsFinite DEF Ledger
  <1>4. \A k \in waits : place[k] \in open
    BY <1>3 DEF ActiveSites, WaitingUnder, OpenUnder
  <1>5. \A s \in open : Part(waits, place, s) = PendingAt(db, s)
    BY <1>3 DEF Part, PendingAt, RecordsAt, ActiveSites, WaitingUnder, OpenUnder
  <1>6. waits \in SUBSET Records(db) /\ \A s : Part(waits, place, s) \in SUBSET Records(db)
    BY DEF Part, WaitingUnder
  <1>7. DOMAIN lines = open /\ \A s \in open : lines[s] = Hours(db, PendingAt(db, s))
    BY <1>1 DEF HierarchyRollup, SiteRollup, LinesUnder
  <1> HIDE DEF waits, open, lines, place
  <1>8. \A s \in open : lines[s] = SumFunctionOnSet(HoursOf(db), Part(waits, place, s))
    BY <1>5, <1>6, <1>7, HoursAreSums
  <1>9. Summable(HoursOf(db), waits) /\ Hours(db, waits) = SumFunctionOnSet(HoursOf(db), waits)
    BY <1>6, HoursAreSums
  <1>10. SumFunction(lines) = SumFunctionOnSet(HoursOf(db), waits)
    BY <1>2, <1>4, <1>7, <1>8, <1>9, SumsAddUp
  <1> QED BY <1>9, <1>10 DEF waits, open, lines

\* The waiting hours of a line, and the hours of the totals, are those of the records.
LEMMA OvertimeIsOfRecords ==
    ASSUME NEW db, Ledger(db), NEW user
    PROVE  OvertimeAgrees(db, user)
  <1> DEFINE rows   == OvertimeRows(db, user, NoFilter)
             with(n, status) == {k \in rows : db.day[k].siteName = n /\ db.day[k].otStatus = status}
             report == OvertimeReport(db, user, NoFilter)
             B      == {db.day[k].siteName : k \in rows}
             place  == [k \in Records(db) |-> db.day[k].siteName]
             waits  == {k \in Records(db) : db.day[k].otStatus = "pending" /\ CanUseSite(user, db.day[k].site)}
             log    == ApprovedLog(db, user, NoFilter)
             named(n) == {s \in DOMAIN db.site : db.site[s].name = n}
             lines(n) == [s \in named(n) \cap ActiveSites(db, user) |-> HierarchyRollup(db, user)[s].otPending]
  <1>1. rows = {k \in Records(db) : /\ db.day[k].otStatus \in {"pending", "approved"}
                                    /\ CanUseSite(user, db.day[k].site)}
    BY RowsUnfiltered
  <1>2. /\ DOMAIN report = B
        /\ \A n \in B : /\ report[n].pending = Counted(db, with(n, "pending"))
                        /\ report[n].approved = Counted(db, with(n, "approved"))
    BY DEF OvertimeReport
  <1> HIDE DEF report
  <1>3. /\ waits = {k \in rows : db.day[k].otStatus = "pending"} /\ waits \in SUBSET Records(db)
        /\ log = {k \in rows : db.day[k].otStatus = "approved"} /\ log \in SUBSET Records(db)
        /\ \A n, status : with(n, status) \in SUBSET Records(db)
    BY <1>1 DEF ApprovedLog
  <1>4. \A n : /\ with(n, "pending") = Part(waits, place, n)
               /\ with(n, "approved") = Part(log, place, n)
    BY <1>3 DEF Part
  <1>5. \A k \in rows : place[k] \in B
    BY <1>1
  <1>6. IsFiniteSet(B)
    <2> DEFINE name == [k \in rows |-> db.day[k].siteName]
    <2>1. rows \in SUBSET Records(db)
      BY <1>1
    <2>2. IsFiniteSet(rows)
      BY <2>1, LedgerIsFinite
    <2>3. name \in [rows -> B] /\ B = {name[k] : k \in rows}
      OBVIOUS
    <2> HIDE DEF name, rows, B
    <2>4. name \in Surjection(rows, B)
      BY <2>3 DEF Surjection
    <2> QED BY <2>2, <2>4, FS_Surjection
  <1>7. ASSUME NEW n, \A s \in named(n) : db.site[s].status = "active"
        PROVE  SumFunction(lines(n)) = IF n \in DOMAIN report THEN report[n].pending ELSE 0
    <2>1. with(n, "pending") = WaitingUnder(db, user, n)
      BY <1>1 DEF WaitingUnder
    <2>2. \A s \in DOMAIN db.site : db.site[s].name = n => db.site[s].status = "active"
      BY <1>7
    <2>7. lines(n) = LinesUnder(db, user, n)
      BY DEF LinesUnder, OpenUnder
    <2>3. SumFunction(lines(n)) = Hours(db, with(n, "pending"))
      <3> HIDE DEF with, lines
      <3> QED BY <2>1, <2>2, <2>7, LinesOfName
    <2>4. \A k \in with(n, "pending") : db.day[k].otStatus = "pending"
      OBVIOUS
    <2>5. n \notin B => with(n, "pending") = {}
      OBVIOUS
    <2> HIDE DEF with, B, lines, rows
    <2>6. Counted(db, with(n, "pending")) = Hours(db, with(n, "pending"))
      BY <1>3, <2>4, PendingCounts
    <2> QED BY <1>2, <2>3, <2>5, <2>6, NothingCounts
  <1>8. waits \subseteq rows /\ log \subseteq rows
    BY <1>3
  <1>9. \A k \in waits : db.day[k].otStatus = "pending"
    OBVIOUS
  <1> DEFINE pending  == [n \in B |-> report[n].pending]
             approved == [n \in B |-> report[n].approved]
  <1>10. /\ DOMAIN pending = B /\ \A n \in B : pending[n] = report[n].pending
         /\ DOMAIN approved = B /\ \A n \in B : approved[n] = report[n].approved
    OBVIOUS
  <1>11. OvertimeTotals(db, user, NoFilter).pending = SumFunction(pending)
         /\ OvertimeTotals(db, user, NoFilter).approved = SumFunction(approved)
    BY <1>2 DEF OvertimeTotals, report
  <1>12. Headline(db, user).otPending = Hours(db, waits)
    BY DEF Headline
  <1> HIDE DEF rows, with, B, place, waits, log, pending, approved, named, lines
  <1>13. SumFunction(pending) = SumFunctionOnSet(CountedOf(db), waits)
    <2>1. \A n \in B : pending[n] = SumFunctionOnSet(CountedOf(db), Part(waits, place, n))
      BY <1>2, <1>3, <1>4, <1>10, HoursAreSums
    <2>2. Summable(CountedOf(db), waits)
      BY <1>3, HoursAreSums
    <2>3. DOMAIN pending = B /\ \A k \in waits : place[k] \in B
      BY <1>5, <1>8, <1>10
    <2> QED BY <1>6, <2>1, <2>2, <2>3, SumsAddUp
  <1>14. SumFunction(approved) = SumFunctionOnSet(CountedOf(db), log)
    <2>1. \A n \in B : approved[n] = SumFunctionOnSet(CountedOf(db), Part(log, place, n))
      BY <1>2, <1>3, <1>4, <1>10, HoursAreSums
    <2>2. Summable(CountedOf(db), log)
      BY <1>3, HoursAreSums
    <2>3. DOMAIN approved = B /\ \A k \in log : place[k] \in B
      BY <1>5, <1>8, <1>10
    <2> QED BY <1>6, <2>1, <2>2, <2>3, SumsAddUp
  <1>15. SumFunction(pending) = Hours(db, waits)
    BY <1>3, <1>9, <1>13, HoursAreSums, PendingCounts
  <1>16. SumFunction(approved) = Counted(db, log)
    BY <1>3, <1>14, HoursAreSums
  <1>17. /\ DOMAIN HierarchyRollup(db, user) = ActiveSites(db, user)
         /\ OvertimeReport(db, user, NoFilter) = report /\ ApprovedLog(db, user, NoFilter) = log
    BY DEF HierarchyRollup, report, log
  <1>18. /\ \A n \in {db.site[s].name : s \in DOMAIN db.site} :
               (\A s \in named(n) : db.site[s].status = "active") =>
                   SumFunction(lines(n)) = IF n \in DOMAIN report THEN report[n].pending ELSE 0
    BY <1>7
  <1> QED BY <1>11, <1>12, <1>15, <1>16, <1>17, <1>18 DEF OvertimeAgrees, named, lines

LEMMA EmployeesAreCounted ==
    ASSUME NEW db, Ledger(db), NEW user
    PROVE  EmployeesAgree(db, user)
  <1> DEFINE roster == EmployeeRows(db, user, NoFilter)
             active == {e \in roster : db.employee[e].status = "active"}
             here   == {e \in DOMAIN db.employee :
                           db.employee[e].status = "active" /\ CanUseSite(user, db.employee[e].siteId)}
  <1>1. EmployeeRows(db, user, [NoFilter EXCEPT !.status = "active"]) = active
        /\ EmployeeRows(db, user, [site |-> Nowhere, status |-> Nowhere]) = roster
    BY RowsUnfiltered
  <1>2. /\ EmployeeSummary(db, user, NoFilter).active = Cardinality(active)
        /\ EmployeeSummary(db, user, NoFilter).total = Cardinality(roster)
        /\ EmployeeSummary(db, user, NoFilter).faceRegistered = Cardinality({e \in roster : db.employee[e].face})
    BY <1>1 DEF EmployeeSummary
  <1>3. /\ Hub(db, user).active = Cardinality(active) /\ Hub(db, user).roster = Cardinality(roster)
        /\ Hub(db, user).faces = Cardinality({e \in roster : db.employee[e].face})
    BY <1>1 DEF Hub
  <1>4. Headline(db, user).active = Cardinality(here)
    BY DEF Headline
  <1>5. here \subseteq active /\ (user.all => here = active) /\ active \subseteq DOMAIN db.employee
    BY RowsUnfiltered DEF CanUseSite, CanUseWorker, Ledger
  <1>6. IsFiniteSet(active)
    BY <1>5, FS_Subset DEF Ledger
  <1>7. Headline(db, user).present = Hub(db, user).loggedToday
    <2>1. {k \in Records(db) : k[2] = db.today /\ CanUseSite(user, db.day[k].site)}
             = {k \in {j \in Records(db) : CanUseSite(user, db.day[j].site)} : k[2] = db.today}
      OBVIOUS
    <2> QED BY <2>1 DEF Headline, Hub
  <1>8. Headline(db, user).otPending = Hub(db, user).otHours
    <2>1. {k \in Records(db) : db.day[k].otStatus = "pending" /\ CanUseSite(user, db.day[k].site)}
             = {k \in {j \in Records(db) : CanUseSite(user, db.day[j].site)} : db.day[k].otStatus = "pending"}
      OBVIOUS
    <2> QED BY <2>1 DEF Headline, Hub
  <1> HIDE DEF roster, active, here
  <1>9. Cardinality(here) <= Cardinality(active)
    BY <1>5, <1>6, FS_Subset
  <1> QED BY <1>2, <1>3, <1>4, <1>5, <1>7, <1>8, <1>9 DEF EmployeesAgree

\* Every screen that shows a figure shows the same, of any database (hierarchy.ts:33,
\* dashboard.ts:47, reports.ts:32).
THEOREM FiguresAreOfOneSource ==
    ASSUME NEW db, Ledger(db), NEW user
    PROVE  /\ PagesAgree(db, user) /\ HeadlineAgrees(db, user)
           /\ OvertimeAgrees(db, user) /\ EmployeesAgree(db, user)
  BY PagesAreLines, HeadlineIsSum, OvertimeIsOfRecords, EmployeesAreCounted

-----------------------------------------------------------------------------
(* The pages *)

\* A ledger whose records, requests and manpower requests have the states of the code.
Books(db) ==
    /\ Ledger(db)
    /\ \A k \in Records(db) : db.day[k].status \in ChainTabs \union {"scanned"}
    /\ IsFiniteSet(DOMAIN db.request)
    /\ \A i \in DOMAIN db.manpower :
          /\ db.manpower[i].site \in DOMAIN db.site /\ db.manpower[i].filled \in Nat
          /\ db.manpower[i].status \in {"open", "partial", "fulfilled", "cancelled"}
    /\ IsFiniteSet(DOMAIN db.manpower)

LEMMA MineAreFinite ==
    ASSUME NEW db, Ledger(db), NEW user
    PROVE  /\ Mine(db, user) \subseteq Records(db)
           /\ \A rows \in SUBSET Mine(db, user) : rows \in SUBSET Records(db) /\ IsFiniteSet(rows)
           /\ \A k \in Mine(db, user) : db.day[k].site \in DOMAIN db.site
  <1>1. Mine(db, user) \subseteq Records(db)
    BY DEF Mine
  <1> QED BY <1>1, LedgerIsFinite

\* The site-days of a tab have all its records.
LEMMA DaysOfTab ==
    ASSUME NEW db, Ledger(db), NEW user, NEW tab
    PROVE  /\ SumFunction(RegularizationDays(db, user, tab)) = Cardinality(OnTab(db, user, tab))
           /\ Cardinality(OnTab(db, user, tab)) \in Nat
  <1> DEFINE rows == OnTab(db, user, tab)
             days == RegularizationDays(db, user, tab)
             B    == {SiteDayOf(db, k) : k \in rows}
             part == [k \in rows |-> SiteDayOf(db, k)]
  <1>1. IsFiniteSet(rows)
    BY MineAreFinite DEF OnTab
  <1>2. part \in Surjection(rows, B)
    <2>1. part \in [rows -> B]
      OBVIOUS
    <2>2. B = {part[k] : k \in rows}
      OBVIOUS
    <2> HIDE DEF part, B
    <2> QED BY <2>1, <2>2 DEF Surjection
  <1>3. DOMAIN days = B /\ \A sd \in B : days[sd] = Cardinality({k \in rows : SiteDayOf(db, k) = sd})
    BY DEF RegularizationDays
  <1>4. \A sd \in B : days[sd] = Cardinality(Part(rows, part, sd))
    <2>1. \A sd : Part(rows, part, sd) = {k \in rows : SiteDayOf(db, k) = sd}
      BY DEF Part
    <2> QED BY <1>3, <2>1
  <1>5. \A k \in rows : part[k] \in B
    OBVIOUS
  <1>6. DOMAIN days = B
    BY <1>3
  <1> HIDE DEF rows, days, B, part
  <1>7. IsFiniteSet(B)
    BY <1>1, <1>2, FS_Surjection
  <1>8. SumFunction(days) = Cardinality(rows)
    BY <1>1, <1>4, <1>5, <1>6, <1>7, CountsAddUp
  <1>9. Cardinality(rows) \in Nat
    BY <1>1, FS_CardinalityType
  <1> QED BY <1>8, <1>9 DEF rows, days

LEMMA CountersCount ==
    ASSUME NEW db, Books(db), NEW user
    PROVE  CountersAreQueues(db, user)
  <1> DEFINE submitted   == OnTab(db, user, "submitted")
             recommended == OnTab(db, user, "recommended")
             awaited     == {k \in Mine(db, user) : db.day[k].status \in AwaitingDecision}
             asked(tab)  == RequestList(db, user, tab)
             asking      == {i \in InScope(user, db.request) : db.request[i].status \in {"pending", "recommended"}}
             waiting     == {k \in Mine(db, user) : db.day[k].otStatus = "pending"}
             flags       == FlagList(db, user)
             needs       == NeedsYou(db, user)
             days(tab)   == SumFunction(RegularizationDays(db, user, tab))
  <1>1. Ledger(db)
    BY DEF Books
  <1>2. /\ needs.ot = Cardinality(waiting) /\ needs.days = Cardinality(awaited)
        /\ needs.requests = Cardinality(asking) /\ needs.flags = Cardinality(flags)
    BY DEF NeedsYou
  <1> HIDE DEF needs
  <1>3. needs.ot = Cardinality(OvertimeQueue(db, user, "pending"))
    <2>1. waiting = OvertimeQueue(db, user, "pending")
      BY DEF OvertimeQueue
    <2> QED BY <1>2, <2>1
  <1>4. Cardinality(awaited) = Cardinality(submitted) + Cardinality(recommended)
    <2>1. awaited = submitted \union recommended /\ submitted \cap recommended = {}
      BY DEF OnTab, AwaitingDecision
    <2>2. IsFiniteSet(submitted) /\ IsFiniteSet(recommended)
      BY <1>1, MineAreFinite DEF OnTab
    <2> HIDE DEF awaited, submitted, recommended
    <2> QED BY <2>1, <2>2, CountsOfBoth
  <1>5. needs.days = days("submitted") + days("recommended")
    BY <1>1, <1>2, <1>4, DaysOfTab
  <1>6. Cardinality(asking) = Cardinality(asked("pending")) + Cardinality(asked("recommended"))
    <2>1. asking = asked("pending") \union asked("recommended")
          /\ asked("pending") \cap asked("recommended") = {}
      BY DEF RequestList
    <2>2. asked("pending") \subseteq DOMAIN db.request /\ asked("recommended") \subseteq DOMAIN db.request
          /\ IsFiniteSet(DOMAIN db.request)
      BY DEF RequestList, InScope, Books
    <2> HIDE DEF asking, asked
    <2>3. IsFiniteSet(asked("pending")) /\ IsFiniteSet(asked("recommended"))
      BY <2>2, FS_Subset
    <2> QED BY <2>1, <2>3, CountsOfBoth
  <1>7. IsFiniteSet(waiting) /\ IsFiniteSet(awaited)
    BY <1>1, MineAreFinite
  <1>8. IsFiniteSet(asking) /\ IsFiniteSet(flags)
    <2>1. /\ asking \subseteq DOMAIN db.request /\ flags \subseteq DOMAIN db.flags
          /\ IsFiniteSet(DOMAIN db.request) /\ IsFiniteSet(DOMAIN db.flags)
      BY DEF InScope, FlagList, Books, Ledger
    <2> HIDE DEF asking, flags
    <2> QED BY <2>1, FS_Subset
  <1>9. ASSUME Verdict(db, user) = "success"
        PROVE  /\ \A tab \in {"submitted", "recommended"} : OnTab(db, user, tab) = {}
               /\ Exceptions(HierarchyRollup(db, user)) \subseteq Below(HierarchyRollup(db, user))
    <2>1. ~ (needs.flags > 0) /\ ~ (NeedsYouTotal(needs) > 0)
      BY <1>9 DEF Verdict, needs
    <2>2. needs.ot \in Nat /\ needs.days \in Nat /\ needs.requests \in Nat /\ needs.flags \in Nat
      <3> HIDE DEF waiting, awaited, asking, flags
      <3> QED BY <1>2, <1>7, <1>8, FS_CardinalityType
    <2>3. needs.ot = 0 /\ needs.days = 0 /\ needs.flags = 0
      BY <2>1, <2>2 DEF NeedsYouTotal
    <2>4. waiting = {} /\ awaited = {} /\ flags = {}
      <3> HIDE DEF waiting, awaited, asking, flags
      <3> QED BY <1>2, <1>7, <1>8, <2>3, FS_EmptySet
    <2>5. \A tab \in {"submitted", "recommended"} : OnTab(db, user, tab) = {}
      BY <2>4 DEF OnTab, AwaitingDecision
    <2>6. ASSUME NEW s \in ActiveSites(db, user)
          PROVE  ~ (HierarchyRollup(db, user)[s].flags > 0) /\ ~ (HierarchyRollup(db, user)[s].otPending > 0)
      <3>1. FlagsAt(db, s) = {} /\ PendingAt(db, s) = {}
        BY <2>4 DEF FlagsAt, FlagList, PendingAt, RecordsAt, ActiveSites, Mine
      <3>2. HierarchyRollup(db, user)[s].flags = 0 /\ HierarchyRollup(db, user)[s].otPending = 0
        BY <1>1, <3>1, FS_EmptySet, NothingCounts DEF HierarchyRollup, SiteRollup
      <3> QED BY <3>2
    <2>7. DOMAIN HierarchyRollup(db, user) = ActiveSites(db, user)
      BY DEF HierarchyRollup
    <2> QED BY <2>5, <2>6, <2>7 DEF Exceptions
  <1> QED BY <1>2, <1>3, <1>5, <1>6, <1>9 DEF CountersAreQueues, needs

\* The tabs have the records of a submitted day.
LEMMA TabsOfDay ==
    ASSUME NEW db, Books(db), NEW user, NEW k \in Mine(db, user), NEW rows,
           rows = {r \in RecordsAt(db, db.day[k].site) : r[2] = k[2]}
    PROVE  LET chain == SumFunction([tab \in ChainTabs |->
                            LET days == RegularizationDays(db, user, tab)
                            IN  IF SiteDayOf(db, k) \in DOMAIN days THEN days[SiteDayOf(db, k)] ELSE 0])
           IN  chain = Cardinality(rows) <=> \A r \in rows : db.day[r].status # "scanned"
  <1> DEFINE sd == SiteDayOf(db, k)
             count(tab) == LET days == RegularizationDays(db, user, tab)
                           IN  IF sd \in DOMAIN days THEN days[sd] ELSE 0
             run == [tab \in ChainTabs |-> count(tab)]
             seen == {r \in rows : db.day[r].status \in ChainTabs}
             part == [r \in seen |-> db.day[r].status]
  <1>1. Ledger(db)
    BY DEF Books
  <1>2. rows = {r \in Mine(db, user) : SiteDayOf(db, r) = sd}
    <2>1. \A r : SiteDayOf(db, r) = sd <=> db.day[r].site = db.day[k].site /\ r[2] = k[2]
      BY DEF SiteDayOf
    <2>2. CanUseSite(user, db.day[k].site)
      BY DEF Mine
    <2> HIDE DEF sd
    <2> QED BY <2>1, <2>2 DEF RecordsAt, Mine
  <1> HIDE DEF sd
  <1>3. ASSUME NEW tab \in ChainTabs
        PROVE  count(tab) = Cardinality(Part(seen, part, tab))
    <2> DEFINE days == RegularizationDays(db, user, tab)
               on   == {r \in OnTab(db, user, tab) : SiteDayOf(db, r) = sd}
    <2>1. Part(seen, part, tab) = on
      BY <1>2 DEF Part, OnTab
    <2>2. DOMAIN days = {SiteDayOf(db, r) : r \in OnTab(db, user, tab)}
          /\ \A x \in DOMAIN days : days[x] = Cardinality({r \in OnTab(db, user, tab) : SiteDayOf(db, r) = x})
      BY DEF RegularizationDays
    <2>3. sd \in DOMAIN days => days[sd] = Cardinality(on)
      BY <2>2
    <2>4. sd \notin DOMAIN days => on = {}
      BY <2>2
    <2> HIDE DEF on, days
    <2>5. Cardinality({}) = 0
      BY FS_EmptySet
    <2> QED BY <2>1, <2>3, <2>4, <2>5 DEF days
  <1>4. IsFiniteSet(rows)
    BY <1>1, <1>2, MineAreFinite
  <1>5. seen \subseteq rows /\ \A r \in seen : part[r] \in ChainTabs
    OBVIOUS
  <1>6. DOMAIN run = ChainTabs /\ \A tab \in ChainTabs : run[tab] = count(tab)
    OBVIOUS
  <1>7. \A r \in rows : db.day[r].status \in ChainTabs \union {"scanned"}
    BY <1>2 DEF Books, Mine
  <1>8. seen = rows <=> \A r \in rows : db.day[r].status # "scanned"
    BY <1>7 DEF ChainTabs
  <1>9. IsFiniteSet(ChainTabs)
    <2>1. IsFiniteSet({"submitted"})
      BY FS_Singleton
    <2>2. IsFiniteSet({"submitted", "recommended"})
      BY <2>1, FS_AddElement, {"submitted"} \union {"recommended"} = {"submitted", "recommended"}
    <2>3. IsFiniteSet({"submitted", "recommended", "approved"})
      <3>1. {"submitted", "recommended"} \union {"approved"} = {"submitted", "recommended", "approved"}
        OBVIOUS
      <3> QED BY <2>2, <3>1, FS_AddElement
    <2>4. {"submitted", "recommended", "approved"} \union {"rejected"} = ChainTabs
      BY DEF ChainTabs
    <2> QED BY <2>3, <2>4, FS_AddElement
  <1> HIDE DEF count, run, seen, part
  <1>10. SumFunction(run) = Cardinality(seen)
    <2>1. IsFiniteSet(seen)
      BY <1>4, <1>5, FS_Subset
    <2>2. \A tab \in ChainTabs : run[tab] = Cardinality(Part(seen, part, tab))
      BY <1>3, <1>6
    <2>3. DOMAIN run = ChainTabs
      BY <1>6
    <2>4. \A r \in seen : part[r] \in ChainTabs
      BY <1>5
    <2> QED BY <1>9, <2>1, <2>2, <2>3, <2>4, CountsAddUp
  <1>11. Cardinality(seen) = Cardinality(rows) <=> seen = rows
    BY <1>4, <1>5, FS_Subset
  <1> QED BY <1>8, <1>10, <1>11 DEF run, count, sd

LEMMA OnOneTab ==
    ASSUME NEW db, Books(db), NEW user, NEW k \in Mine(db, user)
    PROVE  Cardinality({tab \in ChainTabs : k \in OnTab(db, user, tab)})
              = IF db.day[k].status = "scanned" THEN 0 ELSE 1
  <1> DEFINE tabs == {tab \in ChainTabs : k \in OnTab(db, user, tab)}
  <1>1. db.day[k].status \in ChainTabs \union {"scanned"}
    BY DEF Books, Mine
  <1>2. tabs = {tab \in ChainTabs : tab = db.day[k].status}
    BY DEF OnTab
  <1>3. CASE db.day[k].status = "scanned"
    <2>1. tabs = {}
      BY <1>2, <1>3 DEF ChainTabs
    <2> QED BY <1>3, <2>1, FS_EmptySet
  <1>4. CASE db.day[k].status # "scanned"
    <2>1. tabs = {db.day[k].status}
      BY <1>1, <1>2, <1>4
    <2> QED BY <1>4, <2>1, FS_Singleton
  <1> QED BY <1>3, <1>4

LEMMA NoneIsBuried ==
    ASSUME NEW db, Books(db), NEW user
    PROVE  NothingIsBuried(db, user)
  <1> DEFINE chain(sd) == SumFunction([tab \in ChainTabs |->
                                     LET days == RegularizationDays(db, user, tab)
                                     IN  IF sd \in DOMAIN days THEN days[sd] ELSE 0])
             page(k) == SubmitPage(db, user, db.day[k].site, k[2])
  <1>1. ASSUME NEW k \in Mine(db, user)
        PROVE  k \in SiteDayPage(db, user, db.day[k].site, k[2]).rows
    BY <1>1 DEF SiteDayPage, RecordsAt, Mine
  <1>2. ASSUME NEW k \in Mine(db, user), db.site[db.day[k].site].status = "active"
        PROVE  /\ k \in page(k).rows
               /\ DailyGrid(db, user, db.day[k].site, k[2]) \subseteq page(k).rows
               /\ page(k).submitted <=> chain(SiteDayOf(db, k)) = Cardinality(page(k).rows)
               /\ k \in OnSiteNow(db, user) => k \in ScanLog(db, user)
    <2> DEFINE s == db.day[k].site
               rows == {r \in RecordsAt(db, s) : r[2] = k[2]}
    <2>1. s \in ActiveSites(db, user) /\ k \in Records(db)
      <3>1. k \in Records(db) /\ CanUseSite(user, s)
        BY DEF Mine
      <3>2. s \in DOMAIN db.site
        BY <3>1, LedgerIsFinite DEF Books
      <3> QED BY <1>2, <3>1, <3>2 DEF ActiveSites
    <2>2. page(k).rows = rows /\ (page(k).submitted <=> rows # {} /\ \A r \in rows : db.day[r].status # "scanned")
      BY <2>1 DEF SubmitPage
    <2>3. k \in rows
      BY <2>1 DEF RecordsAt
    <2>4. DailyGrid(db, user, s, k[2]) \subseteq rows
      <3>1. \A e \in DOMAIN db.employee : <<e, k[2]>> \in RecordsAt(db, s) => <<e, k[2]>> \in rows
        OBVIOUS
      <3> HIDE DEF rows
      <3> QED BY <3>1 DEF DailyGrid
    <2>5. chain(SiteDayOf(db, k)) = Cardinality(rows) <=> \A r \in rows : db.day[r].status # "scanned"
      BY TabsOfDay
    <2>6. k \in OnSiteNow(db, user) => k \in ScanLog(db, user)
      BY <2>1 DEF OnSiteNow, ScanLog, TodayAt, RecordsAt
    <2> HIDE DEF rows, chain, page
    <2>7. page(k).submitted <=> chain(SiteDayOf(db, k)) = Cardinality(page(k).rows)
      <3>1. page(k).rows = rows
        BY <2>2
      <3>2. page(k).submitted <=> \A r \in rows : db.day[r].status # "scanned"
        BY <2>2, <2>3
      <3> QED BY <3>1, <3>2, <2>5
    <2>8. k \in page(k).rows /\ DailyGrid(db, user, db.day[k].site, k[2]) \subseteq page(k).rows
      BY <2>2, <2>3, <2>4
    <2> QED BY <2>6, <2>7, <2>8
  <1> QED BY <1>1, <1>2, OnOneTab DEF NothingIsBuried

\* The hours of the sites of a tab are those of its rows.
LEMMA GroupsOfTab ==
    ASSUME NEW db, Ledger(db), NEW user, NEW tab
    PROVE  SumFunction(OvertimeGroups(db, user, tab)) = SumFunctionOnSet(HoursOf(db), OvertimeQueue(db, user, tab))
  <1> DEFINE rows   == OvertimeQueue(db, user, tab)
             groups == OvertimeGroups(db, user, tab)
             B      == {db.day[k].site : k \in rows}
             place  == [k \in rows |-> db.day[k].site]
  <1>1. rows \in SUBSET Records(db) /\ B \subseteq DOMAIN db.site
    BY MineAreFinite DEF OvertimeQueue
  <1>2. DOMAIN groups = B /\ \A s \in B : groups[s] = Hours(db, {k \in rows : db.day[k].site = s})
    BY DEF OvertimeGroups
  <1>3. \A s : Part(rows, place, s) = {k \in rows : db.day[k].site = s}
    BY DEF Part
  <1>4. \A k \in rows : place[k] \in B
    OBVIOUS
  <1>5. \A s : Part(rows, place, s) \in SUBSET Records(db)
    BY <1>1 DEF Part
  <1> HIDE DEF rows, groups, B, place
  <1>6. IsFiniteSet(B)
    BY <1>1, LedgerIsFinite
  <1>7. \A s \in B : groups[s] = SumFunctionOnSet(HoursOf(db), Part(rows, place, s))
    BY <1>2, <1>3, <1>5, HoursAreSums
  <1>8. Summable(HoursOf(db), rows) /\ DOMAIN groups = B
    BY <1>1, <1>2, HoursAreSums
  <1>9. SumFunction(groups) = SumFunctionOnSet(HoursOf(db), rows)
    BY <1>4, <1>6, <1>7, <1>8, SumsAddUp
  <1> QED BY <1>9 DEF groups, rows

LEMMA TabsAddUp ==
    ASSUME NEW db, Ledger(db), NEW user
    PROVE  OvertimeTabsAddUp(db, user)
  <1> DEFINE hours(tab) == SumFunction(OvertimeGroups(db, user, tab))
             queue(tab) == OvertimeQueue(db, user, tab)
             all  == queue("all")
             run  == [tab \in OvertimeTabs |-> hours(tab)]
             kind == [k \in Records(db) |-> db.day[k].otStatus]
  <1>1. /\ \A tab \in OvertimeTabs : Part(all, kind, tab) = queue(tab)
        /\ \A k \in all : kind[k] \in OvertimeTabs
        /\ all \in SUBSET Records(db)
    BY DEF Part, OvertimeQueue, OvertimeTabs, Mine
  <1>2. \A tab : hours(tab) = SumFunctionOnSet(HoursOf(db), queue(tab))
    BY GroupsOfTab
  <1>3. DOMAIN run = OvertimeTabs /\ \A tab \in OvertimeTabs : run[tab] = hours(tab)
    OBVIOUS
  <1>4. IsFiniteSet(OvertimeTabs)
    <2>1. IsFiniteSet({"pending"})
      BY FS_Singleton
    <2>2. IsFiniteSet({"pending"} \union {"recommended"})
      BY <2>1, FS_AddElement
    <2>3. IsFiniteSet(({"pending"} \union {"recommended"}) \union {"approved"})
      BY <2>2, FS_AddElement
    <2>4. IsFiniteSet((({"pending"} \union {"recommended"}) \union {"approved"}) \union {"rejected"})
      BY <2>3, FS_AddElement
    <2>5. (({"pending"} \union {"recommended"}) \union {"approved"}) \union {"rejected"} = OvertimeTabs
      BY DEF OvertimeTabs
    <2> QED BY <2>4, <2>5
  <1>5. OvertimeTotals(db, user, NoFilter).pending = hours("pending")
    <2> DEFINE waits == {k \in Records(db) : db.day[k].otStatus = "pending" /\ CanUseSite(user, db.day[k].site)}
    <2>1. OvertimeTotals(db, user, NoFilter).pending = Headline(db, user).otPending
      BY OvertimeIsOfRecords DEF OvertimeAgrees
    <2>2. Headline(db, user).otPending = Hours(db, waits)
      BY DEF Headline
    <2>3. waits = queue("pending") /\ waits \in SUBSET Records(db)
      BY DEF OvertimeQueue, Mine
    <2> HIDE DEF waits, queue, hours
    <2>4. Hours(db, waits) = SumFunctionOnSet(HoursOf(db), waits)
      BY <2>3, HoursAreSums
    <2> QED BY <1>2, <2>1, <2>2, <2>3, <2>4
  <1>6. \A k \in ApprovedLog(db, user, NoFilter) : k \in queue("approved")
    BY RowsUnfiltered DEF ApprovedLog, OvertimeQueue, Mine
  <1> HIDE DEF hours, queue, all, run, kind
  <1>7. hours("all") = SumFunction(run)
    <2>1. \A tab \in OvertimeTabs : run[tab] = SumFunctionOnSet(HoursOf(db), Part(all, kind, tab))
      BY <1>1, <1>2, <1>3
    <2>2. Summable(HoursOf(db), all)
      BY <1>1, HoursAreSums
    <2>3. DOMAIN run = OvertimeTabs /\ \A k \in all : kind[k] \in OvertimeTabs
      BY <1>1, <1>3
    <2>4. SumFunction(run) = SumFunctionOnSet(HoursOf(db), all)
      BY <1>4, <2>1, <2>2, <2>3, SumsAddUp
    <2> QED BY <1>2, <2>4 DEF all
  <1> QED BY <1>5, <1>6, <1>7 DEF OvertimeTabsAddUp, hours, queue, run

LEMMA HeadsAreCounted ==
    ASSUME NEW db, Ledger(db), NEW user
    PROVE  HeadcountsAgree(db, user)
  <1> DEFINE with(statuses) == EmployeesWith(db, user, statuses)
             active   == with({"active", "inactive"})
             pending  == with({"pending"})
             archived == with({"archived"})
             enrolled == {e \in active : db.employee[e].face}
             rest     == {e \in active : ~ db.employee[e].face}
             sites    == OrgList(db, user, "active")
             counts   == WorkerCounts(db, user)
  <1>1. /\ DOMAIN StatusTabs = {"active", "pending", "archived"}
        /\ StatusTabs.active = {"active", "inactive"} /\ StatusTabs.pending = {"pending"}
        /\ StatusTabs.archived = {"archived"} /\ StatusTabs["active"] = {"active", "inactive"}
    BY DEF StatusTabs
  <1>2. /\ counts.active = Cardinality(active) /\ counts.pending = Cardinality(pending)
        /\ counts.archived = Cardinality(archived) /\ counts.faceRegistered = Cardinality(enrolled)
        /\ counts.facePending = Cardinality(active) - Cardinality(enrolled)
    BY <1>1 DEF WorkerCounts
  <1>3. \A statuses : with(statuses) \subseteq DOMAIN db.employee /\ IsFiniteSet(with(statuses))
    <2> TAKE statuses
    <2>1. with(statuses) \subseteq DOMAIN db.employee /\ IsFiniteSet(DOMAIN db.employee)
      BY DEF EmployeesWith, Ledger
    <2> QED BY <2>1, FS_Subset
  <1>4. EmployeeRows(db, user, [site |-> Nowhere, status |-> Nowhere]) = active
    BY RowsUnfiltered DEF EmployeesWith
  <1>5. Hub(db, user).roster = Cardinality(active) /\ Hub(db, user).faces = Cardinality(enrolled)
    BY <1>4 DEF Hub
  <1>6. WorkerList(db, user, "active", Nowhere, TRUE) = rest
    BY <1>1 DEF WorkerList, ActiveSites, Ledger
  <1>7. Cardinality(active) = Cardinality(enrolled) + Cardinality(rest)
    <2>1. active = enrolled \union rest /\ enrolled \cap rest = {} /\ enrolled \subseteq active /\ rest \subseteq active
      OBVIOUS
    <2>2. IsFiniteSet(active)
      BY <1>3
    <2> HIDE DEF active, enrolled, rest
    <2>3. IsFiniteSet(enrolled) /\ IsFiniteSet(rest)
      BY <2>1, <2>2, FS_Subset
    <2> QED BY <2>1, <2>3, CountsOfBoth
  <1>8. Cardinality(active) \in Nat /\ Cardinality(enrolled) \in Nat /\ Cardinality(rest) \in Nat
    <2>1. IsFiniteSet(active) /\ enrolled \subseteq active /\ rest \subseteq active
      BY <1>3
    <2> HIDE DEF active, enrolled, rest
    <2> QED BY <2>1, FS_Subset, FS_CardinalityType
  <1>9. Cardinality(with(UNION {StatusTabs[t] : t \in DOMAIN StatusTabs}))
           = Cardinality(active) + Cardinality(pending) + Cardinality(archived)
    <2>1. UNION {StatusTabs[t] : t \in DOMAIN StatusTabs} = {"active", "inactive", "pending", "archived"}
      BY DEF StatusTabs
    <2>2. /\ with({"active", "inactive", "pending", "archived"}) = (active \union pending) \union archived
          /\ active \cap pending = {} /\ (active \union pending) \cap archived = {}
      BY DEF EmployeesWith
    <2>3. IsFiniteSet(active) /\ IsFiniteSet(pending) /\ IsFiniteSet(archived)
      BY <1>3
    <2> HIDE DEF with, active, pending, archived
    <2>4. IsFiniteSet(active \union pending)
      BY <2>3, FS_Union
    <2>5. Cardinality(active \union pending) = Cardinality(active) + Cardinality(pending)
      BY <2>2, <2>3, CountsOfBoth
    <2>6. Cardinality((active \union pending) \union archived)
             = Cardinality(active \union pending) + Cardinality(archived)
      BY <2>2, <2>3, <2>4, CountsOfBoth
    <2> QED BY <2>1, <2>2, <2>5, <2>6
  <1>10. DOMAIN sites = {s \in DOMAIN db.site : CanUseSite(user, s) /\ db.site[s].status = "active"}
         /\ \A s \in DOMAIN sites : sites[s] = SiteHeadcount(db, s)
    BY DEF OrgList
  <1>11. ASSUME NEW s \in DOMAIN sites
         PROVE  sites[s] = Cardinality(WorkerList(db, user, "active", s, FALSE))
    <2>1. s \in ActiveSites(db, user) /\ CanUseSite(user, s)
      BY <1>10 DEF ActiveSites
    <2>2. WorkerList(db, user, "active", s, FALSE)
             = {e \in DOMAIN db.employee : s \in db.employee[e].siteIds /\ db.employee[e].status \in StatusTabs.active}
      BY <1>1, <2>1 DEF WorkerList, EmployeesWith, CanUseSite, CanUseWorker
    <2> QED BY <1>10, <2>2 DEF SiteHeadcount
  <1>12. ~ user.all => VisibleBranches(db, user) = {db.site[s].branch : s \in DOMAIN sites}
    <2>1. ActiveSites(db, user) = DOMAIN sites /\ DOMAIN sites \subseteq DOMAIN db.site
      BY <1>10 DEF ActiveSites
    <2> HIDE DEF sites
    <2> QED BY <2>1 DEF VisibleBranches
  <1> HIDE DEF active, pending, archived, enrolled, rest, sites, counts
  <1>13. counts.facePending = Cardinality(rest)
    BY <1>2, <1>7, <1>8
  <1> QED BY <1>2, <1>5, <1>6, <1>9, <1>11, <1>12, <1>13 DEF HeadcountsAgree, sites, counts

LEMMA NumbersOfBoards ==
    ASSUME NEW db, Books(db), NEW user
    PROVE  BoardsAgree(db, user)
  <1> DEFINE standing == {i \in InScope(user, db.manpower) : db.manpower[i].status # "cancelled"}
             filled   == [i \in standing |-> db.manpower[i].filled]
             numbers(s) == [i \in Board(db, user, s) |-> db.manpower[i].filled]
             run      == [s \in DOMAIN db.site |-> SumFunction(numbers(s))]
             place    == [i \in standing |-> db.manpower[i].site]
  <1>1. /\ \A i \in standing : filled[i] = db.manpower[i].filled /\ filled[i] \in Int
        /\ \A i \in standing : place[i] \in DOMAIN db.site
        /\ \A s : Part(standing, place, s) = Board(db, user, s)
    BY DEF Books, InScope, Board, Part
  <1>2. IsFiniteSet(standing)
    <2>1. standing \subseteq DOMAIN db.manpower /\ IsFiniteSet(DOMAIN db.manpower)
      BY DEF InScope, Books
    <2> HIDE DEF standing
    <2> QED BY <2>1, FS_Subset
  <1>3. \A s : DOMAIN numbers(s) = Board(db, user, s)
               /\ \A i \in Board(db, user, s) : numbers(s)[i] = db.manpower[i].filled
    OBVIOUS
  <1>4. DOMAIN run = DOMAIN db.site /\ \A s \in DOMAIN db.site : run[s] = SumFunction(numbers(s))
    OBVIOUS
  <1>5. DOMAIN filled = standing
    OBVIOUS
  <1>6. AllocationRows(db, user) = SumFunction(filled)
    BY DEF AllocationRows
  <1>7. ManpowerList(db, user, "all")
          = UNION {ManpowerList(db, user, t) : t \in {"open", "partial", "fulfilled", "cancelled"}}
    BY DEF ManpowerList, InScope, Books
  <1> HIDE DEF standing, filled, numbers, run, place
  <1>8. Summable(filled, standing)
    BY <1>1, <1>2 DEF Summable
  <1>9. \A s \in DOMAIN db.site : run[s] = SumFunctionOnSet(filled, Part(standing, place, s))
    <2> TAKE s \in DOMAIN db.site
    <2>1. Part(standing, place, s) \subseteq standing
      BY DEF Part
    <2>2. Summable(filled, Part(standing, place, s))
      BY <1>8, <2>1, FS_Subset DEF Summable
    <2>3. DOMAIN numbers(s) = Part(standing, place, s)
          /\ \A i \in Part(standing, place, s) : numbers(s)[i] = filled[i]
      BY <1>1, <1>3, <2>1
    <2>4. SumFunction(numbers(s)) = SumFunctionOnSet(filled, Part(standing, place, s))
      BY <2>2, <2>3, SumRestricted
    <2> QED BY <1>4, <2>4
  <1>10. SumFunction(run) = SumFunctionOnSet(filled, standing)
    <2>1. IsFiniteSet(DOMAIN db.site)
      BY DEF Books, Ledger
    <2>2. DOMAIN run = DOMAIN db.site /\ \A i \in standing : place[i] \in DOMAIN db.site
      BY <1>1, <1>4
    <2> QED BY <1>8, <1>9, <2>1, <2>2, SumsAddUp
  <1>11. AllocationRows(db, user) = SumFunction(run)
    BY <1>5, <1>6, <1>10 DEF SumFunction
  <1> QED BY <1>7, <1>11 DEF BoardsAgree, run, numbers

\* Whoever looks, every record is accounted for once, in any database (dashboard.ts:131,
\* regularization.ts:30, attendance.ts:229, workers.ts:124).
THEOREM NothingGetsLost ==
    ASSUME NEW db, Books(db), NEW user
    PROVE  /\ CountersAreQueues(db, user) /\ NothingIsBuried(db, user)
           /\ OvertimeTabsAddUp(db, user) /\ HeadcountsAgree(db, user)
           /\ BoardsAgree(db, user)
  <1>1. Ledger(db)
    BY DEF Books
  <1> QED BY <1>1, CountersCount, NoneIsBuried, TabsAddUp, HeadsAreCounted, NumbersOfBoards

LEMMA PairsAreFinite ==
    /\ IsFiniteSet(Pair) /\ IsFiniteSet(Yards) /\ IsFiniteSet(Pair \X {1})
    /\ \A k \in Pair \X {1} : k[1] \in Pair
    /\ \A status, name : DOMAIN Yard(status, name) = Yards
  <1>1. Pair = {"k1"} \union {"k2"} /\ Yards = {"A"} \union {"B"}
    BY DEF Pair, Yards
  <1>2. IsFiniteSet({"k1"}) /\ IsFiniteSet({"A"}) /\ IsFiniteSet({1})
    BY FS_Singleton
  <1>3. IsFiniteSet(Pair) /\ IsFiniteSet(Yards)
    BY <1>1, <1>2, FS_AddElement
  <1>4. IsFiniteSet(Pair \X {1})
    BY <1>2, <1>3, FS_Product
  <1>5. \A k \in Pair \X {1} : k[1] \in Pair
    OBVIOUS
  <1>6. \A status, name : DOMAIN Yard(status, name) = Yards
    BY DEF Yard, Yards
  <1> QED BY <1>3, <1>4, <1>5, <1>6

LEMMA FlagsOfInput ==
    \A flags \in {<< >>, <<"A">>, <<"B">>, <<"A", "B">>, <<"B", "B">>} :
        IsFiniteSet(DOMAIN flags) /\ \A i \in DOMAIN flags : flags[i] \in Yards
  <1> TAKE flags \in {<< >>, <<"A">>, <<"B">>, <<"A", "B">>, <<"B", "B">>}
  <1>1. flags \in Seq(Yards)
    <2>1. "A" \in Yards /\ "B" \in Yards
      BY DEF Yards
    <2>2. << >> \in Seq(Yards)
      OBVIOUS
    <2>3. <<"A">> \in Seq(Yards) /\ <<"B">> \in Seq(Yards)
      BY <2>1
    <2>4. <<"A", "B">> \in Seq(Yards) /\ <<"B", "B">> \in Seq(Yards)
      BY <2>1
    <2> QED BY <2>2, <2>3, <2>4
  <1>2. DOMAIN flags = 1 .. Len(flags) /\ Len(flags) \in Nat
    BY <1>1
  <1>3. IsFiniteSet(1 .. Len(flags))
    BY <1>2, FS_Interval
  <1> QED BY <1>1, <1>2, <1>3

LEMMA FigureInputIsLedger ==
    ASSUME FigureInput
    PROVE  Ledger(input)
  <1>1. PICK closing \in {"active", "archived"}, status \in {"active", "inactive"}, a \in Placed,
             name \in {"yard", "works"}, there \in [Pair -> Attended],
             flags \in {<< >>, <<"A">>, <<"A", "B">>, <<"B", "B">>} :
        input = [about |-> "dashboard", today |-> 1, site |-> Yard(closing, name), flags |-> flags,
                 employee |-> [e \in Pair |->
                     IF e = "k1" THEN [status |-> status, siteIds |-> a.siteIds, siteId |-> a.siteId, joined |-> 1, face |-> TRUE]
                     ELSE [status |-> "active", siteIds |-> {"B"}, siteId |-> "B", joined |-> 1, face |-> FALSE]],
                 day |-> [k \in Pair \X {1} |-> Signed(Yard(closing, name), there[k[1]])]]
    BY DEF FigureInput
  <1> DEFINE site == Yard(closing, name)
  <1>2. /\ input.site = site /\ DOMAIN site = Yards /\ input.flags = flags
        /\ DOMAIN input.employee = Pair /\ DOMAIN input.day = Pair \X {1}
    BY <1>1, PairsAreFinite
  <1>3. \A r \in Attended : /\ r.site \in Yards \union {Nowhere} /\ r.otHours \in Nat
                            /\ r.typed \subseteq Nat
                            /\ "siteName" \in DOMAIN r
    <2> TAKE r \in Attended
    <2>1. CASE r = [site |-> Nowhere, branch |-> "", siteName |-> "", otStatus |-> "none", otHours |-> 0, typed |-> {}]
      BY <2>1
    <2>2. CASE r \in [site : Yards, branch : {"north"}, siteName : {""},
                     otStatus : {"pending"}, otHours : {2}, typed : {{}}]
      <3>1. r.site \in Yards /\ r.otHours \in {2}
        BY <2>2
      <3>2. r.typed \in {{}}
        BY <2>2
      <3>3. "siteName" \in DOMAIN r
        BY <2>2
      <3> QED BY <3>1, <3>2, <3>3
    <2>3. CASE r \in [site : Yards, branch : {"north"}, siteName : {""},
                     otStatus : {"approved"}, otHours : {2}, typed : {{}, {1}}]
      <3>1. r.site \in Yards /\ r.otHours \in {2}
        BY <2>3
      <3>2. r.typed \in {{}, {1}}
        BY <2>3
      <3>3. "siteName" \in DOMAIN r
        BY <2>3
      <3> QED BY <3>1, <3>2, <3>3
    <2> QED BY <2>1, <2>2, <2>3 DEF Attended
  <1>4. \A k \in DOMAIN input.day : \E r \in Attended : input.day[k] = Signed(site, r)
    BY <1>1, <1>2, PairsAreFinite
  <1> HIDE DEF site
  <1>5. \A r \in Attended : /\ Signed(site, r).site = r.site /\ Signed(site, r).otHours = r.otHours
                            /\ Signed(site, r).typed = r.typed
                            /\ r.site # Nowhere => Signed(site, r).siteName = site[r.site].name
    <2> TAKE r \in Attended
    <2> DEFINE copied == IF r.site = Nowhere THEN "" ELSE site[r.site].name
    <2>1. "siteName" \in DOMAIN r /\ Signed(site, r) = [r EXCEPT !.siteName = copied]
      BY <1>3 DEF Signed
    <2>2. r.site # Nowhere => copied = site[r.site].name
      OBVIOUS
    <2> HIDE DEF copied
    <2> QED BY <2>1, <2>2
  <1>6. /\ \A k \in DOMAIN input.day : /\ input.day[k].site \in Yards \union {Nowhere}
                                        /\ input.day[k].otHours \in Nat
                                        /\ input.day[k].typed \subseteq Nat
        /\ \A k \in Records(input) : input.day[k].siteName = site[input.day[k].site].name
    BY <1>3, <1>4, <1>5 DEF Records
  <1>7. a.siteId \in Yards \cap a.siteIds
    BY DEF Placed, Assignment
  <1>8. \A e \in Pair : input.employee[e].siteId \in Yards \cap input.employee[e].siteIds
    BY <1>1, <1>7 DEF Yards
  <1>9. Nowhere \notin Yards
    BY DEF Nowhere, Yards
  <1>10. IsFiniteSet(DOMAIN flags) /\ \A i \in DOMAIN flags : flags[i] \in Yards
    BY FlagsOfInput
  <1> QED BY <1>2, <1>6, <1>8, <1>9, <1>10, PairsAreFinite DEF Ledger

LEMMA PagesInputIsBooks ==
    ASSUME PagesInput
    PROVE  Books(input)
  <1>1. PICK closing \in {"active", "archived"}, status \in {"active", "inactive", "archived"}, a \in Placed,
             one \in Chained,
             other \in {r \in Chained : r.site = "A" /\ r.otStatus = "none"} \union {NoRecord},
             flags \in {<< >>, <<"B">>}, waiting \in {"recommended", "approved"} :
        input = [about |-> "pages", today |-> 1, site |-> Yard(closing, "yard"), flags |-> flags,
                 employee |-> [e \in Pair |->
                     IF e = "k1" THEN [status |-> status, siteIds |-> a.siteIds, siteId |-> a.siteId,
                                       joined |-> 1, face |-> TRUE]
                     ELSE [status |-> "active", siteIds |-> {"B"}, siteId |-> "B", joined |-> 1, face |-> FALSE]],
                 day |-> [k \in Pair \X {1} |-> IF k[1] = "k1" THEN one ELSE other],
                 request |-> <<[site |-> "B", status |-> waiting]>>,
                 manpower |-> <<[site |-> "A", status |-> "partial", filled |-> 1],
                                [site |-> "B", status |-> "cancelled", filled |-> 2]>>]
    BY DEF PagesInput
  <1>2. /\ DOMAIN input.site = Yards /\ input.flags = flags /\ DOMAIN input.employee = Pair
        /\ DOMAIN input.day = Pair \X {1}
    BY <1>1, PairsAreFinite
  <1>3. \A k \in DOMAIN input.day : input.day[k] \in Chained \union {NoRecord}
    BY <1>1, <1>2
  <1>4. \A r \in Chained : /\ r.site \in Yards /\ r.otHours \in Nat /\ r.typed \subseteq Nat
                           /\ r.status \in ChainTabs \union {"scanned"} /\ r.siteName = "yard"
    BY DEF Chained
  <1>5. NoRecord.site = Nowhere /\ NoRecord.otHours \in Nat /\ NoRecord.typed \subseteq Nat
    BY DEF NoRecord
  <1>6. a.siteId \in Yards \cap a.siteIds
    BY DEF Placed, Assignment
  <1>7. \A e \in Pair : input.employee[e].siteId \in Yards \cap input.employee[e].siteIds
    BY <1>1, <1>6 DEF Yards
  <1>8. Nowhere \notin Yards
    BY DEF Nowhere, Yards
  <1>9. IsFiniteSet(DOMAIN flags) /\ \A i \in DOMAIN flags : flags[i] \in Yards
    BY FlagsOfInput
  <1>10. Ledger(input)
    <2>1. input.site["A"].name = "yard" /\ input.site["B"].name = "yard"
      BY <1>1 DEF Yard
    <2>2. \A k \in Records(input) : input.day[k] \in Chained
      BY <1>3, <1>5 DEF Records
    <2>3. \A k \in Records(input) : input.day[k].siteName = input.site[input.day[k].site].name
      BY <1>4, <2>1, <2>2 DEF Yards
    <2> QED BY <1>2, <1>3, <1>4, <1>5, <1>7, <1>8, <1>9, <2>3, PairsAreFinite DEF Ledger
  <1>11. \A k \in Records(input) : input.day[k].status \in ChainTabs \union {"scanned"}
    BY <1>3, <1>4, <1>5 DEF Records
  <1>12. DOMAIN input.request = 1 .. 1 /\ DOMAIN input.manpower = 1 .. 2
    <2>1. input.request = <<[site |-> "B", status |-> waiting]>>
      BY <1>1
    <2>2. input.manpower = <<[site |-> "A", status |-> "partial", filled |-> 1],
                             [site |-> "B", status |-> "cancelled", filled |-> 2]>>
      BY <1>1
    <2>3. \A x, y : DOMAIN <<x>> = 1 .. 1 /\ DOMAIN <<x, y>> = 1 .. 2
      OBVIOUS
    <2> QED BY <2>1, <2>2, <2>3
  <1>13. IsFiniteSet(DOMAIN input.request) /\ IsFiniteSet(DOMAIN input.manpower)
    <2>1. IsFiniteSet(1 .. 1) /\ IsFiniteSet(1 .. 2)
      BY FS_Interval, 1 \in Int, 2 \in Int
    <2> QED BY <1>12, <2>1
  <1>14. \A i \in DOMAIN input.manpower :
            /\ input.manpower[i].site \in Yards /\ input.manpower[i].filled \in Nat
            /\ input.manpower[i].status \in {"open", "partial", "fulfilled", "cancelled"}
    <2>1. /\ input.manpower[1] = [site |-> "A", status |-> "partial", filled |-> 1]
          /\ input.manpower[2] = [site |-> "B", status |-> "cancelled", filled |-> 2]
      BY <1>1
    <2>2. \A i \in 1 .. 2 : i = 1 \/ i = 2
      OBVIOUS
    <2> QED BY <1>12, <2>1, <2>2 DEF Yards
  <1> QED BY <1>2, <1>10, <1>11, <1>13, <1>14 DEF Books

\* FiguresAgree of every database the desk is asked about.
THEOREM FiguresOfTheRunAgree == MCSpec => []FiguresAgree
  <1>1. MCInit => FiguresAgree
    <2> SUFFICES ASSUME MCInit, input.about = "dashboard"
                 PROVE  FiguresAgree
      BY DEF FiguresAgree
    <2>1. FigureInput
      BY DEF MCInit, FiguresInit, AbsenceInput, PagesInput, PayInput, FenceInput, FaceInput
    <2> QED BY <2>1, FigureInputIsLedger, FiguresAreOfOneSource DEF FiguresAgree
  <1>2. FiguresAgree /\ [MCNext]_deskVars => FiguresAgree'
    BY DEF MCNext, deskVars, FiguresAgree
  <1> QED BY <1>1, <1>2, PTL DEF MCSpec

\* PagesAccountForAll of every database the desk is asked about.
THEOREM PagesOfTheRunAccountForAll == MCSpec => []PagesAccountForAll
  <1>1. MCInit => PagesAccountForAll
    <2> SUFFICES ASSUME MCInit, input.about = "pages"
                 PROVE  PagesAccountForAll
      BY DEF PagesAccountForAll
    <2>1. PagesInput
      BY DEF MCInit, FiguresInit, AbsenceInput, FigureInput, PayInput, FenceInput, FaceInput
    <2> QED BY <2>1, PagesInputIsBooks, NothingGetsLost DEF PagesAccountForAll
  <1>2. PagesAccountForAll /\ [MCNext]_deskVars => PagesAccountForAll'
    BY DEF MCNext, deskVars, PagesAccountForAll
  <1> QED BY <1>1, <1>2, PTL DEF MCSpec

=============================================================================
