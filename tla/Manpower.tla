------------------------------ MODULE Manpower ------------------------------
(***************************************************************************)
(* Manpower requests of a site and the people allocated to their role      *)
(* lines (routes/manpower.ts, lib/manpower.ts).  A handler reads the       *)
(* request, awaits, and saves what it changed: a pushed allocation is      *)
(* added to whatever is stored, a filtered list replaces it and needs the  *)
(* version read, a status is written only when it differs from the copy's. *)
(* The order of the allocations is left out: how often each is there.      *)
(***************************************************************************)
EXTENDS Naturals, Sequences, FiniteSetsExt

CONSTANTS
    Null,
    Orders,     \* manpower requests
    Sites, Roles,
    Workers,    \* enrolled employees
    Outsiders,  \* outsource employees: plan-only
    Lines,      \* what a form can demand: sequences of [role, qty]
    Requests,   \* requests in flight
    MaxCodes    \* bound: codes minted

People == Workers \union Outsiders

Allocation == [ref : People, role : Roles]

Status == {"open", "partial", "fulfilled", "cancelled"}

Order == [code : Nat \ {0}, site : Sites, lines : Lines,
          allocations : [Allocation -> Nat],    \* how often each is on the list
          status : Status]

ASSUME ManpowerAssumption ==
    /\ Workers \cap Outsiders = {} /\ IsFiniteSet(People)
    /\ IsFiniteSet(Requests)
    /\ Lines \subseteq Seq([role : Roles, qty : Nat \ {0}])
    /\ Null \notin Order

VARIABLES
    order,    \* Null or the request
    sites,    \* the sites each employee may scan at
    active,   \* the outsource employees that are active
    counter,  \* the code counter
    req, stale

vars == <<order, sites, active, counter, req, stale>>

Idle == [op |-> "idle"]
NoAllocations == [a \in Allocation |-> 0]
NewOrder(code, s, lines) ==
    [code |-> code, site |-> s, lines |-> lines, allocations |-> NoAllocations, status |-> "open"]

\* A push adds one, a filter takes out every one.
Pushed(allocations, who)   == [allocations EXCEPT ![who] = @ + 1]
Filtered(allocations, who) == [allocations EXCEPT ![who] = 0]

Allocated(allocations, d) == SumFunction([p \in People |-> allocations[[ref |-> p, role |-> d]]])

ComputeStatus(status, lines, allocations) ==
    IF status = "cancelled" THEN "cancelled"
    ELSE IF allocations = NoAllocations THEN "open"
    ELSE IF \A i \in DOMAIN lines : Allocated(allocations, lines[i].role) >= lines[i].qty
         THEN "fulfilled" ELSE "partial"

Init ==
    /\ order = [o \in Orders |-> Null]
    /\ sites = [w \in Workers |-> {}]
    /\ active = Outsiders
    /\ counter = 0
    /\ req = [r \in Requests |-> Idle]
    /\ stale = {}

Start(r, request) == req[r] = Idle /\ req' = [req EXCEPT ![r] = request]
Continue(r, request) == req' = [req EXCEPT ![r] = request]
Finish(r) == req' = [req EXCEPT ![r] = Idle] /\ stale' = stale \ {r}

\* The version of order o moves: other requests' copies of it are stale.
Moved(r, o) ==
    stale' = (stale \ {r}) \union
             {q \in Requests \ {r} : req[q].op \in {"allocate", "deallocate", "cancel"} /\ req[q].order = o}

-----------------------------------------------------------------------------

\* Faulty variant: the code counts the requests instead of a counter of its own.
CountedCode(r) ==
    /\ counter' = counter
    /\ Continue(r, [req[r] EXCEPT !.code = 1 + Cardinality({o \in Orders : order[o] # Null})])

\* The code is minted by one atomic update.
MintCode(r) ==
    /\ counter' = counter + 1
    /\ Continue(r, [req[r] EXCEPT !.code = counter + 1])

CreateRead(r, o, s, lines) ==
    /\ order[o] = Null
    /\ \A q \in Requests : req[q].op = "create" => req[q].order # o
    /\ lines # << >>
    /\ Start(r, [op |-> "create", order |-> o, site |-> s, lines |-> lines, code |-> 0])
    /\ UNCHANGED <<order, sites, active, counter, stale>>

CreateCode(r) ==
    /\ req[r].op = "create" /\ req[r].code = 0 /\ counter < MaxCodes
    /\ MintCode(r)
    /\ UNCHANGED <<order, sites, active, stale>>

Create(r) ==
    LET q == req[r] IN
    /\ q.op = "create" /\ q.code # 0
    /\ order' = [order EXCEPT ![q.order] = NewOrder(q.code, q.site, q.lines)]
    /\ Finish(r)
    /\ UNCHANGED <<sites, active, counter>>

\* The first line of the role; nobody twice in one role; a cancelled request takes nobody.
AllocateRead(r, o, who) ==
    /\ order[o] # Null /\ order[o].status # "cancelled"
    /\ \E i \in DOMAIN order[o].lines : order[o].lines[i].role = who.role
    /\ order[o].allocations[who] = 0
    /\ Start(r, [op |-> "allocate", order |-> o, copy |-> order[o], who |-> who,
                 sited |-> who.ref \in Outsiders])
    /\ UNCHANGED <<order, sites, active, counter, stale>>

\* An employee may scan at the site from here on: before the request is saved.
AllocateSite(r) ==
    LET q == req[r] IN
    /\ q.op = "allocate" /\ ~q.sited
    /\ sites' = [sites EXCEPT ![q.who.ref] = @ \union {q.copy.site}]
    /\ Continue(r, [q EXCEPT !.sited = TRUE])
    /\ UNCHANGED <<order, active, counter, stale>>

\* What a save writes over the stored status.
SavedStatus(o, copy, status) == IF status = copy.status THEN order[o].status ELSE status

\* Faulty variant: the request is saved before the employee is given the site.
AllocateSaveFirst(r) ==
    LET q == req[r]
        pushed == Pushed(q.copy.allocations, q.who)
        status == ComputeStatus(q.copy.status, q.copy.lines, pushed) IN
    /\ q.op = "allocate"
    /\ order' = [order EXCEPT ![q.order].allocations = Pushed(@, q.who),
                              ![q.order].status = SavedStatus(q.order, q.copy, status)]
    /\ Continue(r, Idle)
    /\ Moved(r, q.order)
    /\ UNCHANGED <<sites, active, counter>>

AllocateSave(r) ==
    LET q == req[r]
        pushed == Pushed(q.copy.allocations, q.who)
        status == ComputeStatus(q.copy.status, q.copy.lines, pushed) IN
    /\ q.op = "allocate" /\ q.sited
    /\ order' = [order EXCEPT ![q.order].allocations = Pushed(@, q.who),
                              ![q.order].status = SavedStatus(q.order, q.copy, status)]
    /\ Continue(r, Idle)
    /\ Moved(r, q.order)
    /\ UNCHANGED <<sites, active, counter>>

DeallocateRead(r, o, who) ==
    /\ order[o] # Null
    /\ Start(r, [op |-> "deallocate", order |-> o, copy |-> order[o], who |-> who])
    /\ UNCHANGED <<order, sites, active, counter, stale>>

\* Faulty variant: the filtered list is saved over whatever is stored.
Unversioned(r) == TRUE
Versioned(r) == r \notin stale

\* Faulty variant: the status is left as it was.
StatusKept(status, lines, allocations) == status
StatusAfterRemoval(status, lines, allocations) == ComputeStatus(status, lines, allocations)

\* A filter that removed nothing writes no list, and then only the status can change.
DeallocateSave(r) ==
    LET q == req[r]
        rest == Filtered(q.copy.allocations, q.who)
        status == StatusAfterRemoval(q.copy.status, q.copy.lines, rest)
        saved == SavedStatus(q.order, q.copy, status) IN
    /\ q.op = "deallocate"
    /\ IF rest = q.copy.allocations
       THEN order' = [order EXCEPT ![q.order].status = saved] /\ Finish(r)
       ELSE IF Versioned(r)
       THEN /\ order' = [order EXCEPT ![q.order].allocations = rest, ![q.order].status = saved]
            /\ Continue(r, Idle)
            /\ Moved(r, q.order)
       ELSE UNCHANGED order /\ Finish(r)
    /\ UNCHANGED <<sites, active, counter>>

CancelRead(r, o) ==
    /\ order[o] # Null
    /\ Start(r, [op |-> "cancel", order |-> o, copy |-> order[o]])
    /\ UNCHANGED <<order, sites, active, counter, stale>>

CancelSave(r) ==
    /\ req[r].op = "cancel"
    /\ order' = [order EXCEPT ![req[r].order].status =
                    SavedStatus(req[r].order, req[r].copy, "cancelled")]
    /\ Finish(r)
    /\ UNCHANGED <<sites, active, counter>>

\* An outsource employee is toggled; an inactive one is no longer offered.
ToggleOutsider(p) ==
    /\ active' = IF p \in active THEN active \ {p} ELSE active \union {p}
    /\ UNCHANGED <<order, sites, counter, req, stale>>

Crash ==
    /\ \E r \in Requests : req[r] # Idle
    /\ req' = [r \in Requests |-> Idle]
    /\ stale' = {}
    /\ UNCHANGED <<order, sites, active, counter>>

Ordering == \E r \in Requests, o \in Orders :
    \/ \E s \in Sites, lines \in Lines : CreateRead(r, o, s, lines)
    \/ CreateCode(r) \/ Create(r)

Allocating == \E r \in Requests :
    \/ \E o \in Orders, who \in Allocation : AllocateRead(r, o, who)
    \/ AllocateSite(r) \/ AllocateSave(r)

Deallocating == \E r \in Requests :
    \/ \E o \in Orders, who \in Allocation : DeallocateRead(r, o, who)
    \/ DeallocateSave(r)

Cancelling == \E r \in Requests : (\E o \in Orders : CancelRead(r, o)) \/ CancelSave(r)

Next ==
    \/ Ordering \/ Allocating \/ Deallocating \/ Cancelling
    \/ \E p \in Outsiders : ToggleOutsider(p)
    \/ Crash

Spec == Init /\ [][Next]_vars

=============================================================================
