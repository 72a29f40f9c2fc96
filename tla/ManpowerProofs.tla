--------------------------- MODULE ManpowerProofs ---------------------------
(***************************************************************************)
(* The invariants of the manpower requests, for every set of requests,     *)
(* people, roles and handlers in flight, and any crash.                    *)
(***************************************************************************)
EXTENDS MCManpower, FoldProofs, SequenceTheorems

\* What a handler in flight holds.
Creating     == [op : {"create"}, order : Orders, site : Sites, lines : Lines, code : Nat]
AllocatingTo == [op : {"allocate"}, order : Orders, copy : Order, who : Allocation, sited : BOOLEAN]
TakingFrom   == [op : {"deallocate"}, order : Orders, copy : Order, who : Allocation]
CancellingOf == [op : {"cancel"}, order : Orders, copy : Order]
Holding      == AllocatingTo \union TakingFrom \union CancellingOf

TypeInv ==
    /\ order \in [Orders -> Order \union {Null}]
    /\ sites \in [Workers -> SUBSET Sites]
    /\ active \subseteq Outsiders
    /\ counter \in Nat
    /\ req \in [Requests -> {Idle} \union Creating \union Holding]
    /\ stale \subseteq Requests

\* A copy is of a request that exists and of its site; unless the copy is stale, it has
\* the allocations that are stored.
CopiesOK ==
    \A r \in Requests : req[r] \in Holding =>
        LET o == req[r].order
        IN  /\ order[o] # Null /\ req[r].copy.site = order[o].site
            /\ r \notin stale => req[r].copy.allocations = order[o].allocations

\* An employee whose allocation is about to be saved has the site already.
SitedOK ==
    \A r \in Requests : req[r] \in AllocatingTo /\ req[r].sited /\ req[r].who.ref \in Workers =>
        req[r].copy.site \in sites[req[r].who.ref]

\* A request being created does not exist and is being created once.
CreatesOK ==
    \A r \in Requests : req[r] \in Creating =>
        /\ order[req[r].order] = Null
        /\ \A q \in Requests : req[q] \in Creating /\ req[q].order = req[r].order => q = r

\* The codes of the requests and of those being created were minted, each once.
CodesOK ==
    /\ \A o \in Orders : order[o] # Null => order[o].code <= counter
    /\ \A r \in Requests : req[r] \in Creating =>
          /\ req[r].code <= counter
          /\ \A o \in Orders : order[o] # Null => order[o].code # req[r].code
          /\ \A q \in Requests : req[q] \in Creating /\ req[r].code # 0 /\ req[q].code = req[r].code
                => q = r

\* The inductive invariant of the manpower requests.
ManpowerInv ==
    TypeInv /\ CopiesOK /\ SitedOK /\ CreatesOK /\ CodesOK /\ AllocatedCanScan /\ CodesUnique

-----------------------------------------------------------------------------
(* The shapes of the steps. *)

LEMMA IdleHoldsNothing ==
    Idle \notin Creating /\ Idle \notin Holding /\ Creating \cap Holding = {}
  BY DEF Idle, Creating, Holding, AllocatingTo, TakingFrom, CancellingOf

LEMMA StatusType ==
    ASSUME NEW status \in Status,
           NEW lines, NEW allocations
    PROVE  ComputeStatus(status, lines, allocations) \in Status
  BY DEF ComputeStatus, Status

\* A handler that starts holds no site, no code and a fresh copy.
Started(r, request) ==
    /\ req[r] = Idle /\ req' = [req EXCEPT ![r] = request]
    /\ UNCHANGED <<order, sites, active, counter, stale>>

LEMMA HoldingStarts ==
    ASSUME ManpowerInv, NEW r \in Requests, NEW request \in Holding, Started(r, request),
           order[request.order] # Null, request.copy = order[request.order],
           request \in AllocatingTo => request.sited = (request.who.ref \in Outsiders)
    PROVE  ManpowerInv'
  <1>1. TypeInv'
    BY DEF ManpowerInv, TypeInv, Started
  <1>2. \A q \in Requests : req'[q] = IF q = r THEN request ELSE req[q]
    BY DEF ManpowerInv, TypeInv, Started
  <1>3. CopiesOK' /\ CreatesOK' /\ CodesOK'
    BY <1>2, IdleHoldsNothing DEF ManpowerInv, CopiesOK, CreatesOK, CodesOK, Started
  <1>4. SitedOK'
    BY <1>2, ManpowerAssumption DEF ManpowerInv, SitedOK, Started
  <1>5. AllocatedCanScan' /\ CodesUnique'
    BY DEF ManpowerInv, AllocatedCanScan, CodesUnique, Started
  <1> QED BY <1>1, <1>3, <1>4, <1>5 DEF ManpowerInv

\* A save writes the order o of the handler r, whose site and code stay, and ends r.  If it
\* writes allocations, the copies of o that others hold are stale from then on.
Saved(r, o, n) ==
    /\ order' = [order EXCEPT ![o] = n]
    /\ req' = [req EXCEPT ![r] = Idle]
    /\ \/ n.allocations = order[o].allocations /\ stale' = stale \ {r}
       \/ stale' = (stale \ {r}) \union {q \in Requests \ {r} : req[q] \in Holding /\ req[q].order = o}
    /\ UNCHANGED <<sites, active, counter>>

LEMMA SavesKeepInv ==
    ASSUME ManpowerInv, NEW r \in Requests, NEW o \in Orders, NEW n \in Order, Saved(r, o, n),
           order[o] # Null, n.site = order[o].site, n.code = order[o].code,
           \A a \in Allocation : n.allocations[a] > 0 /\ a.ref \in Workers => n.site \in sites[a.ref]
    PROVE  ManpowerInv'
  <1>1. TypeInv'
    BY DEF ManpowerInv, TypeInv, Saved
  <1>2. /\ \A q \in Requests : req'[q] = IF q = r THEN Idle ELSE req[q]
        /\ \A p \in Orders : order'[p] = IF p = o THEN n ELSE order[p]
        /\ order'[o] = n
    BY DEF ManpowerInv, TypeInv, Saved
  <1>3. n # Null
    BY ManpowerAssumption
  <1>4. \A p \in Orders : /\ order'[p] = Null <=> order[p] = Null
                          /\ order[p] # Null => /\ order'[p].site = order[p].site
                                                /\ order'[p].code = order[p].code
    BY <1>2, <1>3
  <1>5. CopiesOK'
    <2> SUFFICES ASSUME NEW q \in Requests, req'[q] \in Holding
                 PROVE  /\ order'[req'[q].order] # Null
                        /\ req'[q].copy.site = order'[req'[q].order].site
                        /\ q \notin stale' => req'[q].copy.allocations = order'[req'[q].order].allocations
      BY DEF CopiesOK
    <2>1. q # r /\ req'[q] = req[q] /\ req[q].order \in Orders
      BY <1>2, IdleHoldsNothing DEF Holding, AllocatingTo, TakingFrom, CancellingOf
    <2>2. q \notin stale' => q \notin stale /\ (req[q].order = o => n.allocations = order[o].allocations)
      BY <2>1 DEF Saved
    <2> QED BY <1>2, <1>4, <2>1, <2>2 DEF ManpowerInv, CopiesOK
  <1>6. SitedOK'
    BY <1>2, IdleHoldsNothing DEF ManpowerInv, SitedOK, Saved, Holding
  <1>7. CreatesOK'
    <2>1. \A q \in Requests : req'[q] \in Creating => req'[q] = req[q] /\ req[q].order \in Orders
      BY <1>2, IdleHoldsNothing DEF Creating
    <2> QED BY <1>4, <2>1 DEF ManpowerInv, CreatesOK
  <1>8. CodesOK'
    <2>1. \A q \in Requests : req'[q] \in Creating => req'[q] = req[q]
      BY <1>2, IdleHoldsNothing
    <2> QED BY <1>4, <2>1 DEF ManpowerInv, CodesOK, Saved
  <1>9. AllocatedCanScan'
    BY <1>2, <1>4 DEF ManpowerInv, AllocatedCanScan, Saved
  <1>10. CodesUnique'
    BY <1>4 DEF ManpowerInv, CodesUnique
  <1> QED BY <1>1, <1>5, <1>6, <1>7, <1>8, <1>9, <1>10 DEF ManpowerInv

\* What a handler in flight is, by its operation.
LEMMA Operations ==
    ASSUME ManpowerInv, NEW r \in Requests
    PROVE  /\ req[r].op = "create" => req[r] \in Creating
           /\ req[r].op = "allocate" => req[r] \in AllocatingTo /\ req[r] \in Holding
           /\ req[r].op = "deallocate" => req[r] \in TakingFrom /\ req[r] \in Holding
           /\ req[r].op = "cancel" => req[r] \in CancellingOf /\ req[r] \in Holding
           /\ req[r] \in Holding <=> req[r].op \in {"allocate", "deallocate", "cancel"}
           /\ req[r] \in Holding => req[r].order \in Orders /\ req[r].copy \in Order
  BY DEF ManpowerInv, TypeInv, Idle, Creating, Holding, AllocatingTo, TakingFrom, CancellingOf

\* The stored request of a handler in flight.
LEMMA StoredRequest ==
    ASSUME ManpowerInv, NEW r \in Requests, req[r] \in Holding
    PROVE  /\ req[r].order \in Orders /\ order[req[r].order] \in Order
           /\ order[req[r].order] # Null
           /\ req[r].copy \in Order /\ req[r].copy.site = order[req[r].order].site
  BY Operations DEF ManpowerInv, TypeInv, CopiesOK

LEMMA AllocateSaveKeepsInv ==
    ASSUME ManpowerInv, NEW r \in Requests, AllocateSave(r)
    PROVE  ManpowerInv'
  <1> DEFINE q == req[r]
             o == q.order
             status == SavedStatus(o, q.copy, ComputeStatus(q.copy.status, q.copy.lines,
                                                            Pushed(q.copy.allocations, q.who)))
             allocations == Pushed(order[o].allocations, q.who)
             n == [order[o] EXCEPT !.allocations = allocations, !.status = status]
  <1>1. q \in AllocatingTo /\ q \in Holding /\ q.sited
    BY Operations DEF AllocateSave
  <1>2. order[o] \in Order /\ order[o] # Null /\ o \in Orders /\ q.copy \in Order
        /\ q.copy.site = order[o].site /\ q.who \in Allocation
    BY <1>1, StoredRequest DEF AllocatingTo
  <1>3. status \in Status
    BY <1>2, StatusType DEF SavedStatus, Order
  <1>4. /\ allocations \in [Allocation -> Nat]
        /\ \A a \in Allocation : a # q.who => allocations[a] = order[o].allocations[a]
    BY <1>2 DEF Order, Pushed
  <1>5. order' = [order EXCEPT ![o] = n]
    BY <1>2 DEF AllocateSave, ManpowerInv, TypeInv
  <1>6. req' = [req EXCEPT ![r] = Idle] /\ UNCHANGED <<sites, active, counter>>
        /\ stale' = (stale \ {r}) \union {p \in Requests \ {r} : req[p] \in Holding /\ req[p].order = o}
    BY Operations DEF AllocateSave, Continue, Moved
  <1> HIDE DEF status, allocations
  <1>7. n \in Order /\ n.allocations = allocations /\ n.site = order[o].site /\ n.code = order[o].code
    BY <1>2, <1>3, <1>4 DEF Order
  <1> HIDE DEF n
  <1>8. Saved(r, o, n)
    BY <1>5, <1>6 DEF Saved
  <1>9. ASSUME NEW a \in Allocation, n.allocations[a] > 0, a.ref \in Workers
        PROVE  n.site \in sites[a.ref]
    <2>1. CASE a = q.who
      BY <1>1, <1>2, <1>7, <1>9, <2>1 DEF ManpowerInv, SitedOK
    <2>2. CASE a # q.who
      BY <1>2, <1>4, <1>7, <1>9, <2>2 DEF ManpowerInv, AllocatedCanScan
    <2> QED BY <2>1, <2>2
  <1> HIDE DEF q, o
  <1> QED BY <1>2, <1>7, <1>8, <1>9, SavesKeepInv DEF o

LEMMA DeallocateSaveKeepsInv ==
    ASSUME ManpowerInv, NEW r \in Requests, DeallocateSave(r)
    PROVE  ManpowerInv'
  <1> DEFINE q == req[r]
             o == q.order
             rest == Filtered(q.copy.allocations, q.who)
             status == SavedStatus(o, q.copy, StatusAfterRemoval(q.copy.status, q.copy.lines, rest))
             with(allocations) == [order[o] EXCEPT !.allocations = allocations, !.status = status]
  <1>1. q \in TakingFrom /\ q \in Holding
    BY Operations DEF DeallocateSave
  <1>2. order[o] \in Order /\ order[o] # Null /\ o \in Orders /\ q.copy \in Order
        /\ q.copy.site = order[o].site /\ q.who \in Allocation
    BY <1>1, StoredRequest DEF TakingFrom
  <1>3. status \in Status
    BY <1>2, StatusType DEF SavedStatus, StatusAfterRemoval, Order
  <1>4. /\ rest \in [Allocation -> Nat]
        /\ \A a \in Allocation : rest[a] > 0 => rest[a] = q.copy.allocations[a]
    BY <1>2 DEF Order, Filtered
  <1>5. UNCHANGED <<sites, active, counter>> /\ req' = [req EXCEPT ![r] = Idle]
    BY DEF DeallocateSave, Continue, Finish
  <1>6. \A allocations \in [Allocation -> Nat] :
          /\ with(allocations) \in Order /\ with(allocations).allocations = allocations
          /\ with(allocations).site = order[o].site /\ with(allocations).code = order[o].code
    <2> HIDE DEF status
    <2> QED BY <1>2, <1>3 DEF Order
  <1>7. CASE rest = q.copy.allocations
    <2>1. order' = [order EXCEPT ![o].status = status] /\ stale' = stale \ {r}
      BY <1>7 DEF DeallocateSave, Finish
    <2>2. with(order[o].allocations) = [order[o] EXCEPT !.status = status]
          /\ order[o].allocations \in [Allocation -> Nat]
      <3> HIDE DEF status
      <3> QED BY <1>2 DEF Order
    <2>3. order' = [order EXCEPT ![o] = with(order[o].allocations)]
      <3> HIDE DEF status
      <3> QED BY <1>2, <2>1, <2>2 DEF ManpowerInv, TypeInv
    <2>4. \A a \in Allocation : order[o].allocations[a] > 0 /\ a.ref \in Workers =>
             order[o].site \in sites[a.ref]
      BY <1>2 DEF ManpowerInv, AllocatedCanScan
    <2> HIDE DEF with
    <2>5. Saved(r, o, with(order[o].allocations))
      BY <1>5, <1>6, <2>1, <2>2, <2>3 DEF Saved
    <2> HIDE DEF o
    <2> QED BY <1>2, <1>6, <2>2, <2>4, <2>5, SavesKeepInv
  <1>8. CASE rest # q.copy.allocations /\ Versioned(r)
    <2>1. order' = [order EXCEPT ![o].allocations = rest, ![o].status = status]
          /\ stale' = (stale \ {r}) \union {p \in Requests \ {r} : req[p] \in Holding /\ req[p].order = o}
      BY <1>8, Operations DEF DeallocateSave, Moved
    <2>2. order' = [order EXCEPT ![o] = with(rest)]
      <3> HIDE DEF status, rest
      <3> QED BY <1>2, <2>1 DEF ManpowerInv, TypeInv
    <2>3. q.copy.allocations = order[o].allocations
      BY <1>1, <1>8 DEF ManpowerInv, CopiesOK, Versioned
    <2>4. \A a \in Allocation : rest[a] > 0 /\ a.ref \in Workers => order[o].site \in sites[a.ref]
      BY <1>2, <1>4, <2>3 DEF ManpowerInv, AllocatedCanScan
    <2> HIDE DEF with, rest
    <2>5. Saved(r, o, with(rest))
      BY <1>5, <2>1, <2>2 DEF Saved
    <2> HIDE DEF o
    <2> QED BY <1>2, <1>4, <1>6, <2>4, <2>5, SavesKeepInv
  <1>9. CASE rest # q.copy.allocations /\ ~ Versioned(r)
    <2>1. UNCHANGED order /\ stale' = stale \ {r}
      BY <1>9 DEF DeallocateSave, Finish
    <2>2. order' = [order EXCEPT ![o] = order[o]]
      BY <1>2, <2>1 DEF ManpowerInv, TypeInv
    <2>3. Saved(r, o, order[o])
      BY <1>5, <2>1, <2>2 DEF Saved
    <2>4. \A a \in Allocation : order[o].allocations[a] > 0 /\ a.ref \in Workers =>
             order[o].site \in sites[a.ref]
      BY <1>2 DEF ManpowerInv, AllocatedCanScan
    <2> HIDE DEF o
    <2> QED BY <1>2, <2>3, <2>4, SavesKeepInv
  <1> QED BY <1>7, <1>8, <1>9

LEMMA CancelSaveKeepsInv ==
    ASSUME ManpowerInv, NEW r \in Requests, CancelSave(r)
    PROVE  ManpowerInv'
  <1> DEFINE o == req[r].order
             status == SavedStatus(o, req[r].copy, "cancelled")
             n == [order[o] EXCEPT !.status = status]
  <1>1. req[r] \in Holding
    BY Operations DEF CancelSave
  <1>2. order[o] \in Order /\ order[o] # Null /\ o \in Orders
    BY <1>1, StoredRequest
  <1>3. status \in Status
    BY <1>2 DEF SavedStatus, Order, Status
  <1>4. /\ order' = [order EXCEPT ![o] = n] /\ req' = [req EXCEPT ![r] = Idle]
        /\ stale' = stale \ {r} /\ UNCHANGED <<sites, active, counter>>
    BY <1>2 DEF CancelSave, Finish, ManpowerInv, TypeInv
  <1> HIDE DEF status
  <1>5. n \in Order /\ n.allocations = order[o].allocations /\ n.site = order[o].site
        /\ n.code = order[o].code
    BY <1>2, <1>3 DEF Order
  <1>6. Saved(r, o, n)
    BY <1>4, <1>5 DEF Saved
  <1>7. \A a \in Allocation : n.allocations[a] > 0 /\ a.ref \in Workers => n.site \in sites[a.ref]
    BY <1>2, <1>5 DEF ManpowerInv, AllocatedCanScan
  <1> HIDE DEF n, o
  <1> QED BY <1>2, <1>5, <1>6, <1>7, SavesKeepInv

-----------------------------------------------------------------------------
(* A request is created. *)

LEMMA CreateReadKeepsInv ==
    ASSUME ManpowerInv, NEW r \in Requests, NEW o \in Orders, NEW s \in Sites, NEW lines \in Lines,
           CreateRead(r, o, s, lines)
    PROVE  ManpowerInv'
  <1> DEFINE request == [op |-> "create", order |-> o, site |-> s, lines |-> lines, code |-> 0]
  <1>1. Started(r, request) /\ order[o] = Null
        /\ \A q \in Requests : req[q].op = "create" => req[q].order # o
    BY DEF CreateRead, Start, Started
  <1>2. request \in Creating /\ request.order = o /\ request.code = 0
    BY DEF Creating
  <1> HIDE DEF request
  <1>3. \A q \in Requests : req'[q] = IF q = r THEN request ELSE req[q]
    BY <1>1 DEF ManpowerInv, TypeInv, Started
  <1>4. TypeInv'
    BY <1>1, <1>2 DEF ManpowerInv, TypeInv, Started
  <1>5. CopiesOK' /\ SitedOK'
    BY <1>1, <1>2, <1>3, IdleHoldsNothing DEF ManpowerInv, CopiesOK, SitedOK, Started, Holding
  <1>6. CreatesOK'
    <2>1. \A q \in Requests : req[q] \in Creating => req[q].order # o
      BY <1>1 DEF Creating
    <2> QED BY <1>1, <1>2, <1>3, <2>1 DEF ManpowerInv, CreatesOK, Started
  <1>7. CodesOK'
    BY <1>1, <1>2, <1>3 DEF ManpowerInv, CodesOK, Started, TypeInv, Order
  <1>8. AllocatedCanScan' /\ CodesUnique'
    BY <1>1 DEF ManpowerInv, AllocatedCanScan, CodesUnique, Started
  <1> QED BY <1>4, <1>5, <1>6, <1>7, <1>8 DEF ManpowerInv

\* The counter is moved and read in one update: the new code is nobody's.
LEMMA CreateCodeKeepsInv ==
    ASSUME ManpowerInv, NEW r \in Requests, CreateCode(r)
    PROVE  ManpowerInv'
  <1> DEFINE request == [req[r] EXCEPT !.code = counter + 1]
  <1>1. req[r] \in Creating /\ counter' = counter + 1 /\ req' = [req EXCEPT ![r] = request]
        /\ UNCHANGED <<order, sites, active, stale>>
    BY Operations DEF CreateCode, MintCode, Continue
  <1>2. request \in Creating /\ request.order = req[r].order /\ request.code = counter + 1
        /\ counter \in Nat
    BY <1>1 DEF Creating, ManpowerInv, TypeInv
  <1> HIDE DEF request
  <1>3. \A q \in Requests : req'[q] = IF q = r THEN request ELSE req[q]
    BY <1>1 DEF ManpowerInv, TypeInv
  <1>4. TypeInv'
    BY <1>1, <1>2 DEF ManpowerInv, TypeInv
  <1>5. CopiesOK' /\ SitedOK' /\ CreatesOK'
    BY <1>1, <1>2, <1>3, IdleHoldsNothing
    DEF ManpowerInv, CopiesOK, SitedOK, CreatesOK, Holding
  <1>6. CodesOK'
    <2>1. \A q \in Requests : req[q] \in Creating => req[q].code \in Nat
      BY DEF Creating
    <2>2. \A o \in Orders : order[o] # Null => order[o].code \in Nat
      BY DEF ManpowerInv, TypeInv, Order
    <2> QED BY <1>1, <1>2, <1>3, <2>1, <2>2 DEF ManpowerInv, CodesOK
  <1>7. AllocatedCanScan' /\ CodesUnique'
    BY <1>1 DEF ManpowerInv, AllocatedCanScan, CodesUnique
  <1> QED BY <1>4, <1>5, <1>6, <1>7 DEF ManpowerInv

LEMMA CreateKeepsInv ==
    ASSUME ManpowerInv, NEW r \in Requests, Create(r)
    PROVE  ManpowerInv'
  <1> DEFINE q == req[r]
             o == q.order
             n == NewOrder(q.code, q.site, q.lines)
  <1>1. q \in Creating /\ q.code # 0 /\ order' = [order EXCEPT ![o] = n]
        /\ req' = [req EXCEPT ![r] = Idle] /\ stale' = stale \ {r}
        /\ UNCHANGED <<sites, active, counter>>
    BY Operations DEF Create, Finish
  <1>2. o \in Orders /\ order[o] = Null
    BY <1>1 DEF Creating, ManpowerInv, CreatesOK
  <1>3. n \in Order /\ n.code = q.code /\ \A a \in Allocation : n.allocations[a] = 0
    BY <1>1 DEF Creating, NewOrder, NoAllocations, Order, Status
  <1>4. n # Null
    BY <1>3, ManpowerAssumption
  <1> HIDE DEF n
  <1>5. /\ \A p \in Requests : req'[p] = IF p = r THEN Idle ELSE req[p]
        /\ \A p \in Orders : order'[p] = IF p = o THEN n ELSE order[p]
    BY <1>1 DEF ManpowerInv, TypeInv
  <1>6. TypeInv'
    BY <1>1, <1>3 DEF ManpowerInv, TypeInv
  <1>7. CopiesOK'
    <2> SUFFICES ASSUME NEW p \in Requests, req'[p] \in Holding
                 PROVE  /\ order'[req'[p].order] # Null
                        /\ req'[p].copy.site = order'[req'[p].order].site
                        /\ p \notin stale' => req'[p].copy.allocations = order'[req'[p].order].allocations
      BY DEF CopiesOK
    <2>1. p # r /\ req'[p] = req[p] /\ req[p].order \in Orders /\ order[req[p].order] # Null
      BY <1>5, IdleHoldsNothing, StoredRequest
    <2> QED BY <1>1, <1>2, <1>5, <2>1 DEF ManpowerInv, CopiesOK
  <1>8. SitedOK'
    BY <1>1, <1>5, IdleHoldsNothing DEF ManpowerInv, SitedOK, Holding
  <1>9. CreatesOK'
    <2>1. \A p \in Requests : req'[p] \in Creating => p # r /\ req'[p] = req[p] /\ req[p].order \in Orders
      BY <1>5, IdleHoldsNothing DEF Creating
    <2> QED BY <1>1, <1>5, <2>1 DEF ManpowerInv, CreatesOK
  <1>10. CodesOK'
    <2>1. \A p \in Requests : req'[p] \in Creating => p # r /\ req'[p] = req[p]
      BY <1>5, IdleHoldsNothing
    <2> QED BY <1>1, <1>3, <1>5, <2>1 DEF ManpowerInv, CodesOK
  <1>11. AllocatedCanScan'
    BY <1>1, <1>2, <1>3, <1>5 DEF ManpowerInv, AllocatedCanScan
  <1>12. CodesUnique'
    BY <1>1, <1>2, <1>3, <1>5 DEF ManpowerInv, CodesUnique, CodesOK
  <1> QED BY <1>6, <1>7, <1>8, <1>9, <1>10, <1>11, <1>12 DEF ManpowerInv

-----------------------------------------------------------------------------
(* The other steps. *)

LEMMA AllocateSiteKeepsInv ==
    ASSUME ManpowerInv, NEW r \in Requests, AllocateSite(r)
    PROVE  ManpowerInv'
  <1> DEFINE request == [req[r] EXCEPT !.sited = TRUE]
  <1>1. /\ req[r] \in AllocatingTo /\ req[r] \in Holding
        /\ sites' = [sites EXCEPT ![req[r].who.ref] = @ \union {req[r].copy.site}]
        /\ req' = [req EXCEPT ![r] = request]
        /\ UNCHANGED <<order, active, counter, stale>>
    BY Operations DEF AllocateSite, Continue
  <1>2. /\ request \in AllocatingTo /\ request \in Holding
        /\ request.order = req[r].order /\ request.copy = req[r].copy
        /\ request.who = req[r].who /\ req[r].copy.site \in Sites
    BY <1>1 DEF AllocatingTo, Holding, Order
  <1> HIDE DEF request
  <1>3. \A q \in Requests : req'[q] = IF q = r THEN request ELSE req[q]
    BY <1>1 DEF ManpowerInv, TypeInv
  <1>4. /\ sites' \in [Workers -> SUBSET Sites]
        /\ \A w \in Workers : sites[w] \subseteq sites'[w]
        /\ req[r].who.ref \in Workers => req[r].copy.site \in sites'[req[r].who.ref]
    BY <1>1, <1>2 DEF ManpowerInv, TypeInv
  <1>5. TypeInv'
    BY <1>1, <1>2, <1>4 DEF ManpowerInv, TypeInv
  <1>6. CopiesOK' /\ CreatesOK' /\ CodesOK'
    BY <1>1, <1>2, <1>3, IdleHoldsNothing DEF ManpowerInv, CopiesOK, CreatesOK, CodesOK
  <1>7. SitedOK'
    BY <1>2, <1>3, <1>4 DEF ManpowerInv, SitedOK
  <1>8. AllocatedCanScan' /\ CodesUnique'
    BY <1>1, <1>4 DEF ManpowerInv, AllocatedCanScan, CodesUnique
  <1> QED BY <1>5, <1>6, <1>7, <1>8 DEF ManpowerInv

LEMMA CrashKeepsInv ==
    ASSUME ManpowerInv, Crash
    PROVE  ManpowerInv'
  BY IdleHoldsNothing
  DEF Crash, ManpowerInv, TypeInv, CopiesOK, SitedOK, CreatesOK, CodesOK, AllocatedCanScan,
      CodesUnique, Holding

LEMMA ToggleKeepsInv ==
    ASSUME ManpowerInv, NEW p \in Outsiders, ToggleOutsider(p)
    PROVE  ManpowerInv'
  BY DEF ToggleOutsider, ManpowerInv, TypeInv, CopiesOK, SitedOK, CreatesOK, CodesOK,
         AllocatedCanScan, CodesUnique

LEMMA ReadsKeepInv ==
    ASSUME ManpowerInv, NEW r \in Requests, NEW o \in Orders,
           \/ \E who \in Allocation : AllocateRead(r, o, who) \/ DeallocateRead(r, o, who)
           \/ CancelRead(r, o)
    PROVE  ManpowerInv'
  <1>1. order[o] # Null /\ order[o] \in Order
    BY DEF AllocateRead, DeallocateRead, CancelRead, ManpowerInv, TypeInv
  <1>2. ASSUME NEW who \in Allocation, AllocateRead(r, o, who)
        PROVE  ManpowerInv'
    <2> DEFINE request == [op |-> "allocate", order |-> o, copy |-> order[o], who |-> who,
                           sited |-> who.ref \in Outsiders]
    <2>1. request \in Holding
      BY <1>1 DEF Holding, AllocatingTo
    <2>2. Started(r, request)
      BY <1>2 DEF AllocateRead, Start, Started
    <2> QED BY <1>1, <2>1, <2>2, HoldingStarts
  <1>3. ASSUME NEW who \in Allocation, DeallocateRead(r, o, who)
        PROVE  ManpowerInv'
    <2> DEFINE request == [op |-> "deallocate", order |-> o, copy |-> order[o], who |-> who]
    <2>1. request \in Holding /\ request \notin AllocatingTo
      BY <1>1 DEF Holding, TakingFrom, AllocatingTo
    <2>2. Started(r, request)
      BY <1>3 DEF DeallocateRead, Start, Started
    <2> QED BY <1>1, <2>1, <2>2, HoldingStarts
  <1>4. ASSUME CancelRead(r, o)
        PROVE  ManpowerInv'
    <2> DEFINE request == [op |-> "cancel", order |-> o, copy |-> order[o]]
    <2>1. request \in Holding /\ request \notin AllocatingTo
      BY <1>1 DEF Holding, CancellingOf, AllocatingTo
    <2>2. Started(r, request)
      BY <1>4 DEF CancelRead, Start, Started
    <2> QED BY <1>1, <2>1, <2>2, HoldingStarts
  <1> QED BY <1>2, <1>3, <1>4

LEMMA ManpowerInvStep ==
    ASSUME ManpowerInv, [Next]_vars
    PROVE  ManpowerInv'
  <1>1. CASE Ordering
    BY <1>1, CreateReadKeepsInv, CreateCodeKeepsInv, CreateKeepsInv DEF Ordering
  <1>2. CASE Allocating
    BY <1>2, ReadsKeepInv, AllocateSiteKeepsInv, AllocateSaveKeepsInv DEF Allocating
  <1>3. CASE Deallocating
    BY <1>3, ReadsKeepInv, DeallocateSaveKeepsInv DEF Deallocating
  <1>4. CASE Cancelling
    BY <1>4, ReadsKeepInv, CancelSaveKeepsInv DEF Cancelling
  <1>5. CASE UNCHANGED vars
    BY <1>5 DEF vars, ManpowerInv, TypeInv, CopiesOK, SitedOK, CreatesOK, CodesOK,
                AllocatedCanScan, CodesUnique
  <1> QED BY <1>1, <1>2, <1>3, <1>4, <1>5, CrashKeepsInv, ToggleKeepsInv DEF Next

LEMMA ManpowerInvariant == Spec => []ManpowerInv
  <1>1. Init => ManpowerInv
    BY IdleHoldsNothing
    DEF Init, ManpowerInv, TypeInv, CopiesOK, SitedOK, CreatesOK, CodesOK, AllocatedCanScan,
        CodesUnique, Holding
  <1>2. ManpowerInv /\ [Next]_vars => ManpowerInv'
    BY ManpowerInvStep
  <1> QED BY <1>1, <1>2, PTL DEF Spec

-----------------------------------------------------------------------------
(* The theorems. *)

\* Requests, counter and handlers keep their shape.
THEOREM ManpowerTypeCorrect == Spec => []TypeOK
  <1>1. ManpowerInv => TypeOK
    BY Operations
    DEF ManpowerInv, TypeInv, TypeOK, Idle, Creating, Holding, AllocatingTo, TakingFrom, CancellingOf
  <1> QED BY <1>1, ManpowerInvariant, PTL

\* The site is given before the allocation is saved and never taken back: whoever is
\* allocated can scan, also after a crash between the two (manpower.ts:240).
THEOREM AllocatedAlwaysCanScan == Spec => []AllocatedCanScan
  <1>1. ManpowerInv => AllocatedCanScan
    BY DEF ManpowerInv
  <1> QED BY <1>1, ManpowerInvariant, PTL

\* Codes minted by one atomic update of the counter are never given twice
\* (models/ManpowerRequest.ts:33).
THEOREM CodesNeverClash == Spec => []CodesUnique
  <1>1. ManpowerInv => CodesUnique
    BY DEF ManpowerInv
  <1> QED BY <1>1, ManpowerInvariant, PTL

\* What a save may take off the list of a request.
LEMMA OnlyDeallocationTakes ==
    ASSUME ManpowerInv, [Next]_vars, NEW o \in Orders, order[o] # Null, NEW a \in Allocation,
           order'[o].allocations[a] < order[o].allocations[a]
    PROVE  \E r \in Requests : req[r].op = "deallocate" /\ req[r].order = o /\ req[r].who = a
  <1>1. order[o] \in Order /\ order[o].allocations[a] \in Nat
    BY DEF ManpowerInv, TypeInv, Order
  <1>2. order'[o] # order[o]
    BY <1>1
  <1>3. PICK r \in Requests : Create(r) \/ AllocateSave(r) \/ DeallocateSave(r) \/ CancelSave(r)
    BY <1>2 DEF Next, vars, Ordering, Allocating, Deallocating, Cancelling, CreateRead, CreateCode,
                AllocateRead, AllocateSite, DeallocateRead, CancelRead, ToggleOutsider, Crash
  <1>4. CASE Create(r)
    <2>1. order[req[r].order] = Null /\ req[r].order \in Orders
      BY <1>4, Operations DEF Create, ManpowerInv, CreatesOK, Creating
    <2> QED BY <1>2, <1>4, <2>1 DEF Create, ManpowerInv, TypeInv
  <1>5. CASE CancelSave(r)
    BY <1>1, <1>5, StoredRequest, Operations DEF CancelSave, ManpowerInv, TypeInv, Order
  <1>6. CASE AllocateSave(r)
    <2>1. req[r].order \in Orders /\ req[r].who \in Allocation
      BY <1>6, Operations DEF AllocateSave, AllocatingTo
    <2>2. order'[o].allocations \in {order[o].allocations, Pushed(order[o].allocations, req[r].who)}
      BY <1>1, <1>6, <2>1 DEF AllocateSave, ManpowerInv, TypeInv, Order
    <2> QED BY <1>1, <2>1, <2>2 DEF Pushed, Order
  <1>7. CASE DeallocateSave(r)
    <2> DEFINE rest == Filtered(req[r].copy.allocations, req[r].who)
    <2>1. req[r] \in TakingFrom /\ req[r] \in Holding /\ req[r].op = "deallocate"
      BY <1>7, Operations DEF DeallocateSave
    <2>2. req[r].order = o /\ rest # req[r].copy.allocations /\ Versioned(r)
          /\ order'[o].allocations = rest
      BY <1>1, <1>7, <2>1 DEF DeallocateSave, ManpowerInv, TypeInv, Order
    <2>3. req[r].copy.allocations = order[o].allocations
      BY <2>1, <2>2 DEF ManpowerInv, CopiesOK, Versioned
    <2>4. a = req[r].who
      BY <1>1, <2>2, <2>3 DEF Filtered, Order
    <2> QED BY <2>1, <2>2, <2>4
  <1> QED BY <1>3, <1>4, <1>5, <1>6, <1>7

\* No save of an outdated copy takes an allocation along: what goes was deallocated
\* (manpower.ts:256).
THEOREM AllocationsOnlyDeallocated == Spec => AllocationsAreNotLost
  <1>1. ManpowerInv /\ [Next]_vars =>
          [\A o \in Orders :
             order[o] # Null =>
               \A a \in Allocation :
                  order'[o].allocations[a] < order[o].allocations[a] =>
                  \E r \in Requests : req[r].op = "deallocate" /\ req[r].order = o /\ req[r].who = a]_vars
    BY OnlyDeallocationTakes
  <1> QED BY <1>1, ManpowerInvariant, PTL DEF Spec, AllocationsAreNotLost

\* What the runs explore are behaviours of the manpower requests.
LEMMA RunsAreBehaviours == MCSpec => Spec
  <1>1. MCInit => Init
    BY DEF MCInit
  <1>2. [MCNext]_mcVars => [Next]_vars
    BY DEF MCNext, SerialNext, SideBySideNext, Next, mcVars, vars
  <1> QED BY <1>1, <1>2, PTL DEF MCSpec, Spec

-----------------------------------------------------------------------------
(* The status, one request at a time. *)

LEMMA LineShape ==
    ASSUME NEW lines \in Lines
    PROVE  /\ IsFiniteSet(DOMAIN lines)
           /\ \A i \in DOMAIN lines : lines[i].role \in Roles /\ lines[i].qty \in Nat /\ lines[i].qty > 0
           /\ lines # << >> => \E i \in DOMAIN lines : TRUE
  <1>1. PICK Shapes : Shapes = [role : Roles, qty : Nat \ {0}]
    OBVIOUS
  <1>2. lines \in Seq(Shapes)
    BY <1>1, ManpowerAssumption
  <1>3. DOMAIN lines = 1 .. Len(lines) /\ Len(lines) \in Nat /\ \A i \in DOMAIN lines : lines[i] \in Shapes
    BY <1>2
  <1>4. IsFiniteSet(DOMAIN lines)
    BY <1>3, FS_Interval
  <1>5. \A i \in DOMAIN lines : lines[i].role \in Roles /\ lines[i].qty \in Nat /\ lines[i].qty > 0
    BY <1>1, <1>3
  <1>6. lines # << >> => 1 \in DOMAIN lines
    BY <1>2, <1>3, EmptySeq
  <1> QED BY <1>4, <1>5, <1>6

\* What lines demand of a role.
DemandOf(lines, d) ==
    SumFunction([i \in DOMAIN lines |-> IF lines[i].role = d THEN lines[i].qty ELSE 0])

\* The role of a line is demanded by that line only, another role not at all.
LEMMA DemandIsOfOneLine ==
    ASSUME NEW lines \in Lines, NEW d
    PROVE  /\ \A i \in DOMAIN lines : lines[i].role = d => DemandOf(lines, d) = lines[i].qty
           /\ (\A i \in DOMAIN lines : lines[i].role # d) => DemandOf(lines, d) = 0
  <1> DEFINE f == [i \in DOMAIN lines |-> IF lines[i].role = d THEN lines[i].qty ELSE 0]
  <1>1. DOMAIN f = DOMAIN lines /\ Summable(f, DOMAIN lines)
    BY LineShape DEF Summable
  <1>2. \A i \in DOMAIN lines : f[i] = IF lines[i].role = d THEN lines[i].qty ELSE 0
    OBVIOUS
  <1>3. DemandOf(lines, d) = SumFunctionOnSet(f, DOMAIN lines)
    BY <1>1 DEF DemandOf, SumFunction
  <1> HIDE DEF f
  <1>4. ASSUME NEW i \in DOMAIN lines, lines[i].role = d
        PROVE  DemandOf(lines, d) = lines[i].qty
    <2>1. \A j \in (DOMAIN lines) \ {i} : f[j] = 0
      BY <1>2, <1>4, LinesAssumption
    <2>2. SumFunctionOnSet(f, DOMAIN lines) = SumFunctionOnSet(f, {i})
      BY <1>1, <2>1, SumOfNothing
    <2>3. f[i] = lines[i].qty /\ f[i] \in Int
      BY <1>2, <1>4, LineShape
    <2> QED BY <1>3, <2>2, <2>3, SumOfOne
  <1>5. ASSUME \A i \in DOMAIN lines : lines[i].role # d
        PROVE  DemandOf(lines, d) = 0
    <2>1. \A j \in (DOMAIN lines) \ {} : f[j] = 0
      BY <1>2, <1>5
    <2>2. SumFunctionOnSet(f, DOMAIN lines) = SumFunctionOnSet(f, {})
      BY <1>1, <2>1, SumOfNothing
    <2> QED BY <1>3, <2>2, SumEmpty
  <1> QED BY <1>4, <1>5

LEMMA AllocatedType ==
    ASSUME NEW allocations \in [Allocation -> Nat], NEW d \in Roles
    PROVE  /\ Allocated(allocations, d) \in Nat
           /\ allocations = NoAllocations => Allocated(allocations, d) = 0
  <1> DEFINE f == [p \in People |-> allocations[[ref |-> p, role |-> d]]]
  <1>1. \A p \in People : [ref |-> p, role |-> d] \in Allocation
    BY DEF Allocation
  <1>2. DOMAIN f = People /\ \A p \in People : f[p] = allocations[[ref |-> p, role |-> d]] /\ f[p] \in Nat
    BY <1>1
  <1>3. \A p \in People : f[p] \in Int
    BY <1>1
  <1>4. Allocated(allocations, d) = SumFunctionOnSet(f, People)
    BY <1>2 DEF Allocated, SumFunction
  <1> HIDE DEF f
  <1>5. Allocated(allocations, d) \in Nat
    BY <1>2, <1>4, SumOfNaturals, ManpowerAssumption
  <1>6. ASSUME allocations = NoAllocations
        PROVE  Allocated(allocations, d) = 0
    <2>1. \A p \in People \ {} : f[p] = 0
      BY <1>1, <1>2, <1>6 DEF NoAllocations
    <2>2. Summable(f, People)
      <3>1. IsFiniteSet(People)
        BY ManpowerAssumption
      <3> QED BY <1>3, <3>1, Zenon DEF Summable
    <2>3. SumFunctionOnSet(f, People) = SumFunctionOnSet(f, {})
      BY <2>1, <2>2, SumOfNothing
    <2> QED BY <1>4, <2>3, SumEmpty
  <1> QED BY <1>5, <1>6

\* The lines are filled when every role has the people demanded; no lines are filled by nobody.
LEMMA FilledByRole ==
    ASSUME NEW lines \in Lines, NEW allocations \in [Allocation -> Nat]
    PROVE  LET filled == \A i \in DOMAIN lines : Allocated(allocations, lines[i].role) >= lines[i].qty
           IN  /\ filled <=> \A d \in Roles : Allocated(allocations, d) >= DemandOf(lines, d)
               /\ allocations = NoAllocations /\ lines # << >> => ~ filled
  <1>1. ASSUME \A i \in DOMAIN lines : Allocated(allocations, lines[i].role) >= lines[i].qty,
               NEW d \in Roles
        PROVE  Allocated(allocations, d) >= DemandOf(lines, d)
    <2>1. CASE \E i \in DOMAIN lines : lines[i].role = d
      BY <1>1, <2>1, DemandIsOfOneLine
    <2>2. CASE \A i \in DOMAIN lines : lines[i].role # d
      <3>1. DemandOf(lines, d) = 0 /\ Allocated(allocations, d) \in Nat
        BY <2>2, DemandIsOfOneLine, AllocatedType
      <3> QED BY <3>1
    <2> QED BY <2>1, <2>2
  <1>2. ASSUME \A d \in Roles : Allocated(allocations, d) >= DemandOf(lines, d),
               NEW i \in DOMAIN lines
        PROVE  Allocated(allocations, lines[i].role) >= lines[i].qty
    BY <1>2, DemandIsOfOneLine, LineShape
  <1>3. ASSUME allocations = NoAllocations, lines # << >>
        PROVE  \E i \in DOMAIN lines : ~ (Allocated(allocations, lines[i].role) >= lines[i].qty)
    <2>1. PICK i \in DOMAIN lines : TRUE
      BY <1>3, LineShape
    <2>2. Allocated(allocations, lines[i].role) = 0 /\ lines[i].qty \in Nat /\ lines[i].qty > 0
      BY <1>3, AllocatedType, LineShape
    <2> QED BY <2>2
  <1> QED BY <1>1, <1>2, <1>3

\* A request that is not cancelled has the status its allocations give it.
Settled(n) == n.status # "cancelled" => n.status = ComputeStatus("open", n.lines, n.allocations)

\* What holds while requests are handled one at a time.
SerialInv ==
    /\ \A o \in Orders : order[o] # Null => Settled(order[o]) /\ order[o].lines # << >>
    /\ \A p, q \in Requests : req[p] # Idle /\ req[q] # Idle => p = q
    /\ \A r \in Requests : /\ req[r] \in Holding => req[r].copy = order[req[r].order]
                           /\ req[r] \in Creating => req[r].lines # << >>

LEMMA AtMostOne ==
    ASSUME NEW f, Cardinality({r \in Requests : f[r] # Idle}) <= 1
    PROVE  \A p, q \in Requests : f[p] # Idle /\ f[q] # Idle => p = q
  <1> DEFINE busy == {r \in Requests : f[r] # Idle}
  <1>1. IsFiniteSet(busy)
    <2>1. IsFiniteSet(Requests)
      BY ManpowerAssumption
    <2> QED BY <2>1, FS_Subset
  <1>2. ASSUME NEW p \in busy, NEW q \in busy, p # q
        PROVE  FALSE
    <2> HIDE DEF busy
    <2>1. IsFiniteSet(busy \ {p}) /\ Cardinality(busy \ {p}) = Cardinality(busy) - 1
      BY <1>1, FS_RemoveElement
    <2>2. Cardinality(busy) \in Nat /\ Cardinality(busy \ {p}) \in Nat
      BY <1>1, <2>1, FS_CardinalityType
    <2>3. Cardinality(busy \ {p}) # 0
      BY <1>2, <2>1, FS_EmptySet
    <2>4. Cardinality(busy) <= 1
      BY DEF busy
    <2> QED BY <2>1, <2>2, <2>3, <2>4
  <1> QED BY <1>2

LEMMA ComputedStatus ==
    ASSUME NEW status, NEW lines, NEW allocations
    PROVE  LET computed == ComputeStatus(status, lines, allocations)
           IN  /\ computed = "cancelled" <=> status = "cancelled"
               /\ computed # "cancelled" => computed = ComputeStatus("open", lines, allocations)
  BY DEF ComputeStatus

\* Whoever saves is the only one in flight: afterwards nobody is.
LEMMA SerialSaves ==
    ASSUME ManpowerInv, SerialInv, NEW r \in Requests, NEW o \in Orders, NEW n, req[r] # Idle,
           order' = [order EXCEPT ![o] = n], req' = [req EXCEPT ![r] = Idle],
           Settled(n), n.lines # << >>
    PROVE  SerialInv'
  <1>1. \A q \in Requests : req'[q] = Idle
    BY DEF ManpowerInv, TypeInv, SerialInv
  <1>2. \A p \in Orders : order'[p] = IF p = o THEN n ELSE order[p]
    BY DEF ManpowerInv, TypeInv
  <1>3. \A p \in Orders : order'[p] # Null => Settled(order'[p]) /\ order'[p].lines # << >>
    BY <1>2 DEF SerialInv
  <1> QED BY <1>1, <1>3, IdleHoldsNothing DEF SerialInv, Settled

\* A request that starts or goes on without saving.
LEMMA SerialGoesOn ==
    ASSUME ManpowerInv, SerialInv, NEW r \in Requests, NEW request, InFlight' <= 1,
           order' = order, req' = [req EXCEPT ![r] = request],
           request \in Holding => request.copy = order[request.order],
           request \in Creating => request.lines # << >>
    PROVE  SerialInv'
  <1>1. \A q \in Requests : req'[q] = IF q = r THEN request ELSE req[q]
    BY DEF ManpowerInv, TypeInv
  <1>2. \A p, q \in Requests : req'[p] # Idle /\ req'[q] # Idle => p = q
    BY AtMostOne DEF InFlight
  <1> QED BY <1>1, <1>2 DEF SerialInv, Settled

LEMMA AllocateSaveSettles ==
    ASSUME ManpowerInv, SerialInv, NEW r \in Requests, AllocateSave(r)
    PROVE  SerialInv'
  <1> DEFINE q == req[r]
             o == q.order
             allocations == Pushed(order[o].allocations, q.who)
             status == ComputeStatus(order[o].status, order[o].lines, allocations)
             n == [order[o] EXCEPT !.allocations = allocations, !.status = status]
  <1>1. /\ q \in Holding /\ q # Idle /\ o \in Orders /\ order[o] \in Order /\ order[o] # Null
        /\ q.copy = order[o]
    BY Operations, StoredRequest, IdleHoldsNothing DEF AllocateSave, SerialInv
  <1>2. order' = [order EXCEPT ![o] = n] /\ req' = [req EXCEPT ![r] = Idle]
    BY <1>1 DEF AllocateSave, Continue, SavedStatus, ManpowerInv, TypeInv
  <1>3. n.status = status /\ n.lines = order[o].lines /\ n.allocations = allocations
    BY <1>1 DEF Order
  <1>4. Settled(n) /\ n.lines # << >>
    <2>1. status # "cancelled" => status = ComputeStatus("open", order[o].lines, allocations)
      BY ComputedStatus
    <2> HIDE DEF n, status, allocations
    <2> QED BY <1>1, <1>3, <2>1 DEF Settled, SerialInv
  <1> HIDE DEF n, q, o
  <1> QED BY <1>1, <1>2, <1>4, SerialSaves DEF q

LEMMA DeallocateSaveSettles ==
    ASSUME ManpowerInv, SerialInv, NEW r \in Requests, DeallocateSave(r)
    PROVE  SerialInv'
  <1> DEFINE q == req[r]
             o == q.order
             rest == Filtered(order[o].allocations, q.who)
             status == ComputeStatus(order[o].status, order[o].lines, rest)
             n == [order[o] EXCEPT !.allocations = rest, !.status = status]
  <1>1. /\ q \in Holding /\ q # Idle /\ o \in Orders /\ order[o] \in Order /\ order[o] # Null
        /\ q.copy = order[o]
    BY Operations, StoredRequest, IdleHoldsNothing DEF DeallocateSave, SerialInv
  <1>2. req' = [req EXCEPT ![r] = Idle]
    BY DEF DeallocateSave, Continue, Finish
  <1>3. order' = [order EXCEPT ![o] = n] \/ order' = [order EXCEPT ![o] = order[o]]
    <2>1. CASE rest = order[o].allocations
      <3>1. order' = [order EXCEPT ![o].status = status]
        BY <1>1, <2>1 DEF DeallocateSave, SavedStatus, StatusAfterRemoval
      <3>2. n = [order[o] EXCEPT !.status = status]
        <4> HIDE DEF status, rest
        <4> QED BY <1>1, <2>1 DEF Order
      <3> HIDE DEF status, n, rest, o
      <3> QED BY <1>1, <3>1, <3>2 DEF ManpowerInv, TypeInv
    <2>2. CASE rest # order[o].allocations /\ Versioned(r)
      <3>1. order' = [order EXCEPT ![o].allocations = rest, ![o].status = status]
        BY <1>1, <2>2 DEF DeallocateSave, SavedStatus, StatusAfterRemoval
      <3> HIDE DEF status, rest
      <3> QED BY <1>1, <3>1 DEF ManpowerInv, TypeInv
    <2>3. CASE rest # order[o].allocations /\ ~ Versioned(r)
      <3>1. order' = order
        BY <1>1, <2>3 DEF DeallocateSave
      <3> QED BY <1>1, <3>1 DEF ManpowerInv, TypeInv
    <2> QED BY <2>1, <2>2, <2>3
  <1>4. n.status = status /\ n.lines = order[o].lines /\ n.allocations = rest
    BY <1>1 DEF Order
  <1>5. Settled(n) /\ n.lines # << >> /\ Settled(order[o]) /\ order[o].lines # << >>
    <2>1. status # "cancelled" => status = ComputeStatus("open", order[o].lines, rest)
      BY ComputedStatus
    <2> HIDE DEF n, status, rest
    <2> QED BY <1>1, <1>4, <2>1 DEF Settled, SerialInv
  <1> HIDE DEF n, q, o
  <1> QED BY <1>1, <1>2, <1>3, <1>5, SerialSaves DEF q

LEMMA CancelSaveSettles ==
    ASSUME ManpowerInv, SerialInv, NEW r \in Requests, CancelSave(r)
    PROVE  SerialInv'
  <1> DEFINE o == req[r].order
             n == [order[o] EXCEPT !.status = "cancelled"]
  <1>1. /\ req[r] # Idle /\ o \in Orders /\ order[o] \in Order /\ order[o] # Null
        /\ req[r].copy = order[o]
    BY Operations, StoredRequest, IdleHoldsNothing DEF CancelSave, SerialInv
  <1>2. order' = [order EXCEPT ![o] = n] /\ req' = [req EXCEPT ![r] = Idle]
    BY <1>1 DEF CancelSave, Finish, SavedStatus, ManpowerInv, TypeInv
  <1>3. Settled(n) /\ n.lines # << >>
    BY <1>1 DEF Settled, Order, SerialInv
  <1> HIDE DEF n, o
  <1> QED BY <1>1, <1>2, <1>3, SerialSaves

LEMMA CreateSettles ==
    ASSUME ManpowerInv, SerialInv, NEW r \in Requests, Create(r)
    PROVE  SerialInv'
  <1> DEFINE q == req[r]
             n == NewOrder(q.code, q.site, q.lines)
  <1>1. /\ q \in Creating /\ q # Idle /\ q.order \in Orders /\ q.lines # << >>
        /\ order' = [order EXCEPT ![q.order] = n] /\ req' = [req EXCEPT ![r] = Idle]
    BY Operations, IdleHoldsNothing DEF Create, Finish, Creating, SerialInv
  <1>2. Settled(n) /\ n.lines # << >>
    BY <1>1 DEF Settled, NewOrder, ComputeStatus
  <1> HIDE DEF n
  <1> QED BY <1>1, <1>2, SerialSaves

LEMMA SerialStep ==
    ASSUME ManpowerInv, SerialInv, Next, InFlight' <= 1
    PROVE  SerialInv'
  <1>1. ASSUME NEW r \in Requests, NEW o \in Orders, NEW s \in Sites, NEW lines \in Lines,
               CreateRead(r, o, s, lines)
        PROVE  SerialInv'
    <2> DEFINE request == [op |-> "create", order |-> o, site |-> s, lines |-> lines, code |-> 0]
    <2>1. request \notin Holding /\ request.lines # << >>
      BY <1>1 DEF CreateRead, Holding, AllocatingTo, TakingFrom, CancellingOf
    <2>2. order' = order /\ req' = [req EXCEPT ![r] = request]
      BY <1>1 DEF CreateRead, Start
    <2> HIDE DEF request
    <2> QED BY <2>1, <2>2, SerialGoesOn
  <1>2. ASSUME NEW r \in Requests, CreateCode(r)
        PROVE  SerialInv'
    <2> DEFINE request == [req[r] EXCEPT !.code = counter + 1]
    <2>1. req[r] \in Creating /\ order' = order /\ req' = [req EXCEPT ![r] = request]
      BY <1>2, Operations DEF CreateCode, MintCode, Continue
    <2>2. request \notin Holding /\ request.lines = req[r].lines
      BY <2>1 DEF Creating, Holding, AllocatingTo, TakingFrom, CancellingOf
    <2> HIDE DEF request
    <2> QED BY <2>1, <2>2, SerialGoesOn DEF SerialInv
  <1>3. ASSUME NEW r \in Requests, AllocateSite(r)
        PROVE  SerialInv'
    <2> DEFINE request == [req[r] EXCEPT !.sited = TRUE]
    <2>1. req[r] \in AllocatingTo /\ req[r] \in Holding /\ order' = order
          /\ req' = [req EXCEPT ![r] = request]
      BY <1>3, Operations DEF AllocateSite, Continue
    <2>2. request \notin Creating /\ request.copy = req[r].copy /\ request.order = req[r].order
      BY <2>1 DEF AllocatingTo, Creating
    <2> HIDE DEF request
    <2> QED BY <2>1, <2>2, SerialGoesOn DEF SerialInv
  <1>4. ASSUME NEW r \in Requests, NEW o \in Orders,
               \/ \E who \in Allocation : AllocateRead(r, o, who) \/ DeallocateRead(r, o, who)
               \/ CancelRead(r, o)
        PROVE  SerialInv'
    <2>1. PICK request : /\ request.op # "create" /\ request.copy = order[request.order]
                         /\ order' = order /\ req' = [req EXCEPT ![r] = request]
      <3>1. CASE \E who \in Allocation : AllocateRead(r, o, who)
        BY <3>1 DEF AllocateRead, Start
      <3>2. CASE \E who \in Allocation : DeallocateRead(r, o, who)
        BY <3>2 DEF DeallocateRead, Start
      <3>3. CASE CancelRead(r, o)
        BY <3>3 DEF CancelRead, Start
      <3> QED BY <1>4, <3>1, <3>2, <3>3
    <2>2. request \notin Creating
      BY <2>1 DEF Creating
    <2> QED BY <2>1, <2>2, SerialGoesOn
  <1>5. ASSUME \/ Crash
               \/ \E p \in Outsiders : ToggleOutsider(p)
        PROVE  SerialInv'
    BY <1>5, IdleHoldsNothing DEF Crash, ToggleOutsider, SerialInv, Settled
  <1>6. CASE Ordering
    BY <1>1, <1>2, <1>6, CreateSettles DEF Ordering
  <1>7. CASE Allocating
    BY <1>3, <1>4, <1>7, AllocateSaveSettles DEF Allocating
  <1>8. CASE Deallocating
    BY <1>4, <1>8, DeallocateSaveSettles DEF Deallocating
  <1>9. CASE Cancelling
    BY <1>4, <1>9, CancelSaveSettles DEF Cancelling
  <1> QED BY <1>5, <1>6, <1>7, <1>8, <1>9 DEF Next

\* With the lines of the run, a settled request says what its roles have.
LEMMA SettledIsRight ==
    ASSUME NEW n \in Order, Settled(n), n.lines # << >>, n.status # "cancelled"
    PROVE  /\ n.status = "open" <=> n.allocations = NoAllocations
           /\ n.status = "fulfilled" <=> \A d \in Roles : Allocated(n.allocations, d) >= DemandOf(n.lines, d)
  <1>1. n.lines \in Lines /\ n.allocations \in [Allocation -> Nat]
    BY DEF Order
  <1> QED BY <1>1, FilledByRole DEF Settled, ComputeStatus

\* Handled one at a time, with no role on two lines, a request is open exactly when nobody
\* is allocated and fulfilled exactly when every role has the people demanded
\* (lib/manpower.ts:15), for any number of people, roles and lines.
THEOREM StatusAlwaysFollows == MCSpec => []StatusFollowsAllocations
  <1>1. MCInit => (serial => SerialInv)
    BY IdleHoldsNothing DEF MCInit, Init, SerialInv
  <1>2. ManpowerInv /\ (serial => SerialInv) /\ [MCNext]_mcVars => (serial => SerialInv)'
    <2> SUFFICES ASSUME ManpowerInv, serial => SerialInv, [MCNext]_mcVars, serial'
                 PROVE  SerialInv'
      OBVIOUS
    <2>1. CASE UNCHANGED mcVars
      BY <2>1 DEF mcVars, vars, SerialInv, Settled
    <2>2. CASE MCNext
      <3>1. serial /\ Next /\ InFlight' <= 1
        BY <2>2 DEF MCNext, SerialNext, SideBySideNext
      <3> QED BY <3>1, SerialStep
    <2> QED BY <2>1, <2>2
  <1>3. ManpowerInv /\ (serial => SerialInv) => StatusFollowsAllocations
    <2> SUFFICES ASSUME ManpowerInv, SerialInv, NEW o \in Orders, Live(o)
                 PROVE  /\ order[o].status = "open" <=> order[o].allocations = NoAllocations
                        /\ order[o].status = "fulfilled" <=>
                              \A d \in Roles : Allocated(order[o].allocations, d) >= Demand(o, d)
      BY DEF StatusFollowsAllocations
    <2>1. order[o] \in Order /\ Settled(order[o]) /\ order[o].lines # << >> /\ order[o].status # "cancelled"
      BY DEF Live, ManpowerInv, TypeInv, SerialInv
    <2>2. \A d : Demand(o, d) = DemandOf(order[o].lines, d)
      BY DEF Demand, DemandOf
    <2> QED BY <2>1, <2>2, SettledIsRight
  <1>4. MCSpec => []ManpowerInv
    BY RunsAreBehaviours, ManpowerInvariant, PTL
  <1> QED BY <1>1, <1>2, <1>3, <1>4, PTL DEF MCSpec

=============================================================================
