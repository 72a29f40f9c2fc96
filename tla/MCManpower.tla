----------------------------- MODULE MCManpower -----------------------------
(* The manpower requests: their correctness and the runs. *)
EXTENDS Manpower, TLC

CONSTANTS Role, OtherRole

VARIABLES
    serial,   \* whether this behaviour handles one request at a time
    crew      \* the people it is about

mcVars == <<vars, serial, crew>>
InFlight == Cardinality({r \in Requests : req[r] # Idle})

Line(d, n) == [role |-> d, qty |-> n]
DistinctLines == {<<Line(Role, 1), Line(OtherRole, 1)>>}

\* No form of the run demands a role on two lines (section 5 of the README).
ASSUME LinesAssumption ==
    \A lines \in Lines : \A i, j \in DOMAIN lines : lines[i].role = lines[j].role => i = j

Symmetry == Permutations(Workers) \union Permutations(Requests) \union Permutations(Orders)
Quiet == \A r \in Requests : req[r] = Idle
Live(o) == order[o] # Null /\ order[o].status # "cancelled"

\* Requests, counters and copies have the shape their schemas give them.
TypeOK ==
    /\ \A o \in Orders : order[o] = Null \/ order[o] \in Order
    /\ sites \in [Workers -> SUBSET Sites]
    /\ active \subseteq Outsiders
    /\ counter \in Nat
    /\ \A r \in Requests : req[r].op \in {"idle", "create", "allocate", "deallocate", "cancel"}
    /\ stale \subseteq Requests

\* Whoever is allocated to a request can scan at its site, also when the process dies in
\* the middle of an allocation and whatever else is in flight (manpower.ts:240).
AllocatedCanScan ==
    \A o \in Orders : order[o] # Null =>
        \A a \in Allocation :
            order[o].allocations[a] > 0 /\ a.ref \in Workers => order[o].site \in sites[a.ref]

\* No two requests carry one code (models/ManpowerRequest.ts:33).
CodesUnique ==
    \A o, p \in Orders : order[o] # Null /\ order[p] # Null /\ order[o].code = order[p].code => o = p

\* An allocation that was acknowledged goes only by a deallocation of that person from
\* that role: a save of another copy never takes it along (manpower.ts:256).
AllocationsAreNotLost ==
    [][\A o \in Orders :
          order[o] # Null =>
            \A a \in Allocation :
               order'[o].allocations[a] < order[o].allocations[a] =>
               \E r \in Requests : req[r].op = "deallocate" /\ req[r].order = o /\ req[r].who = a]_vars

\* How many people of a role a request demands in all.
Demand(o, d) ==
    SumFunction([i \in DOMAIN order[o].lines |->
                    IF order[o].lines[i].role = d THEN order[o].lines[i].qty ELSE 0])

\* Handled one at a time, and with no role on two lines, a request is fulfilled exactly
\* when every role has the people demanded, and open exactly when it has none
\* (lib/manpower.ts:15).
StatusFollowsAllocations ==
    serial /\ Quiet => \A o \in Orders : Live(o) =>
        /\ order[o].status = "open" <=> order[o].allocations = NoAllocations
        /\ order[o].status = "fulfilled" <=>
              \A d \in Roles : Allocated(order[o].allocations, d) >= Demand(o, d)

-----------------------------------------------------------------------------

\* One request at a time: every handler on one order.  Two at once: cancelling stays
\* out, it only widens the interleavings.
SerialNext ==
    /\ serial
    /\ Next
    /\ InFlight' <= 1
    /\ Cardinality({o \in Orders : order'[o] # Null}) <= 1

SideBySideNext ==
    /\ ~serial
    /\ Ordering \/ Allocating \/ Deallocating \/ Crash
    /\ UNCHANGED active

MCInit ==
    /\ Init
    /\ \/ serial = TRUE /\ crew = People
       \/ serial = FALSE /\ \E w \in Workers : crew = {w}

MCNext ==
    /\ SerialNext \/ SideBySideNext
    /\ \A r \in Requests : req'[r].op \in {"allocate", "deallocate"} => req'[r].who.ref \in crew
    /\ UNCHANGED <<serial, crew>>

MCSpec == MCInit /\ [][MCNext]_mcVars

=============================================================================
