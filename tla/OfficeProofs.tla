---------------------------- MODULE OfficeProofs ----------------------------
(***************************************************************************)
(* What the office keeps however many requests interleave: closings of     *)
(* sites side by side, which keep what one closing promises; decisions on  *)
(* requests about employees; the shapes of the records, in every handler.  *)
(* In the handlers that do not bear it, one request at a time: leaving     *)
(* dates and copied site names.                                            *)
(***************************************************************************)
EXTENDS MCOffice, FoldProofs, SequenceTheorems

-----------------------------------------------------------------------------
(* Lists of sites *)

\* An employee's list: sites, each once.
Lists == {ids \in Seq(Sites) : \A i, j \in DOMAIN ids : ids[i] = ids[j] => i = j}

\* Taking out a site leaves a list of the others, all of them.
LEMMA FilteredList ==
    ASSUME NEW ids \in Lists, NEW s \in Sites
    PROVE  /\ Without(ids, s) \in Lists
           /\ \A i \in DOMAIN Without(ids, s) :
                 /\ Without(ids, s)[i] # s
                 /\ \E j \in DOMAIN ids : ids[j] = Without(ids, s)[i]
           /\ \A j \in DOMAIN ids : ids[j] # s => \E i \in DOMAIN Without(ids, s) : Without(ids, s)[i] = ids[j]
  <1>1. /\ ids \in Seq(Sites) /\ Len(ids) \in Nat /\ DOMAIN ids = 1 .. Len(ids)
        /\ \A i, j \in 1 .. Len(ids) : ids[i] = ids[j] => i = j
    BY DEF Lists
  <1>2. CASE ~ \E i \in 1 .. Len(ids) : ids[i] = s
    BY <1>1, <1>2 DEF Without, RemoveFirst, Lists
  <1>3. CASE \E i \in 1 .. Len(ids) : ids[i] = s
    <2>1. PICK k \in 1 .. Len(ids) : ids[k] = s
      BY <1>3
    <2> DEFINE rest == SubSeq(ids, 1, k - 1) \o SubSeq(ids, k + 1, Len(ids))
    <2>2. Without(ids, s) = rest
      <3>1. {i \in 1 .. Len(ids) : ids[i] = s} = {k}
        BY <1>1, <2>1
      <3>2. SelectInSeq(ids, LAMBDA v : v = s) = k
        BY <1>1, <3>1 DEF SelectInSeq, Min
      <3> QED BY <1>3, <3>2 DEF Without, RemoveFirst, RemoveAt
    <2>3. /\ rest \in Seq(Sites) /\ Len(rest) = Len(ids) - 1
          /\ \A i \in 1 .. Len(rest) : rest[i] = IF i < k THEN ids[i] ELSE ids[i + 1]
      <3> DEFINE front == SubSeq(ids, 1, k - 1)
                 back  == SubSeq(ids, k + 1, Len(ids))
      <3>1. /\ front \in Seq(Sites) /\ Len(front) = k - 1
            /\ \A i \in 1 .. k - 1 : front[i] = ids[i]
        BY <1>1, SubSeqProperties
      <3>2. /\ back \in Seq(Sites) /\ Len(back) = Len(ids) - k
            /\ \A i \in 1 .. Len(ids) - k : back[i] = ids[i + k]
        <4>1. k + 1 \in Int /\ Len(ids) \in Int /\ \A i \in k + 1 .. Len(ids) : ids[i] \in Sites
          BY <1>1
        <4>2. /\ back \in Seq(Sites)
              /\ Len(back) = IF k + 1 <= Len(ids) THEN Len(ids) - (k + 1) + 1 ELSE 0
              /\ \A i \in 1 .. Len(ids) - (k + 1) + 1 : back[i] = ids[k + 1 + i - 1]
          BY <4>1, SubSeqProperties
        <4> HIDE DEF back
        <4>3. \A i \in 1 .. Len(ids) - k : k + 1 + i - 1 = i + k
          BY <1>1
        <4>4. /\ Len(ids) - (k + 1) + 1 = Len(ids) - k
              /\ (IF k + 1 <= Len(ids) THEN Len(ids) - (k + 1) + 1 ELSE 0) = Len(ids) - k
          <5>1. \A n \in Nat : \A m \in 1 .. n :
                  /\ n - (m + 1) + 1 = n - m
                  /\ (IF m + 1 <= n THEN n - (m + 1) + 1 ELSE 0) = n - m
            OBVIOUS
          <5>2. Len(ids) \in Nat /\ k \in 1 .. Len(ids)
            BY <1>1
          <5> QED BY <5>1, <5>2
        <4> QED BY <4>2, <4>3, <4>4
      <3>3. rest = front \o back
        OBVIOUS
      <3> HIDE DEF front, back, rest
      <3>4. /\ rest \in Seq(Sites) /\ Len(rest) = Len(front) + Len(back)
            /\ \A i \in 1 .. Len(front) + Len(back) :
                  rest[i] = IF i <= Len(front) THEN front[i] ELSE back[i - Len(front)]
        <4>1. /\ front \o back \in Seq(Sites) /\ Len(front \o back) = Len(front) + Len(back)
              /\ \A i \in 1 .. Len(front) + Len(back) :
                    (front \o back)[i] = IF i <= Len(front) THEN front[i] ELSE back[i - Len(front)]
          BY <3>1, <3>2, ConcatProperties
        <4> QED BY <3>3, <4>1
      <3> QED BY <1>1, <3>1, <3>2, <3>4
    <2> HIDE DEF rest
    <2>4. DOMAIN rest = 1 .. Len(ids) - 1
      BY <2>3
    <2>5. \A i \in DOMAIN rest : rest[i] # s /\ \E j \in DOMAIN ids : ids[j] = rest[i]
      <3>1. \A i \in 1 .. Len(ids) - 1 : i < k => rest[i] = ids[i] /\ i # k /\ i \in 1 .. Len(ids)
        BY <1>1, <2>3, <2>4
      <3>2. \A i \in 1 .. Len(ids) - 1 :
              ~ i < k => rest[i] = ids[i + 1] /\ i + 1 # k /\ i + 1 \in 1 .. Len(ids)
        BY <1>1, <2>3, <2>4
      <3> TAKE i \in DOMAIN rest
      <3>3. \E j \in 1 .. Len(ids) : j # k /\ ids[j] = rest[i]
        BY <2>4, <3>1, <3>2
      <3> QED BY <1>1, <2>1, <3>3
    <2>6. \A i, j \in DOMAIN rest : rest[i] = rest[j] => i = j
      BY <1>1, <2>1, <2>3, <2>4
    <2>7. \A j \in DOMAIN ids : ids[j] # s => \E i \in DOMAIN rest : rest[i] = ids[j]
      <3> SUFFICES ASSUME NEW j \in 1 .. Len(ids), j # k
                   PROVE  \E i \in 1 .. Len(ids) - 1 : rest[i] = ids[j]
        BY <1>1, <2>1, <2>4
      <3>1. j < k => j \in 1 .. Len(ids) - 1 /\ rest[j] = ids[j]
        BY <1>1, <2>3, <2>4
      <3>2. ~ j < k => j - 1 \in 1 .. Len(ids) - 1 /\ rest[j - 1] = ids[j]
        BY <1>1, <2>3, <2>4
      <3> QED BY <3>1, <3>2
    <2> QED BY <2>2, <2>3, <2>5, <2>6, <2>7 DEF Lists
  <1> QED BY <1>2, <1>3

-----------------------------------------------------------------------------
(* Sites that are closed and restored side by side. *)

SiteRecord == [status : {"active"} \union Gone, branch : Branches, name : Names]

Person == [status : Roster \union Gone, siteIds : Lists, siteName : Names, left : BOOLEAN]

LogEntry == [kind : {"worker", "site"}, id : Workers \union Sites, undone : BOOLEAN]

ToDo == UNION {[people -> Lists] : people \in SUBSET Workers}

RestoringOf == [op : {"restoreSite"}, site : Sites, saved : BOOLEAN]

ClosingOf ==
    [op : {"close"}, phase : {"read", "after"}, site : Sites, to : Kinds, fate : Kinds,
     seen : {"active", "archived"}, todo : ToDo, others : {Null} \union SUBSET Sites,
     logged : {Null} \union Workers, left : SUBSET {"workers", "sites", "stations", "scopes", "log"}]

InFlight == {Idle} \union RestoringOf \union ClosingOf

ClosingTypeOK ==
    /\ site \in [Sites -> SiteRecord \union {Null}]
    /\ worker \in [Workers -> Person \union {Null}]
    /\ log \in Seq(LogEntry)
    /\ req \in [Requests -> InFlight]
    /\ stale \in [Requests -> SUBSET Workers]

HasRead(q) == q.op = "close" /\ q.phase = "read" /\ "workers" \notin q.left

\* A closing that has read the employees of its site knows everybody who is on its roster...
RosterKnown(q) == \A w \in Workers : OnRoster(w) /\ At(w, q.site) => w \in DOMAIN q.todo

\* ... and, of those whose version has not moved since, the sites they have.
CopiesCurrent(q, moved) ==
    \A w \in DOMAIN q.todo :
        worker[w] \in Person /\ (w \notin moved => q.todo[w] = worker[w].siteIds)

ClosingsKnow ==
    \A r \in Requests : HasRead(req[r]) => RosterKnown(req[r]) /\ CopiesCurrent(req[r], stale[r])

\* The site a request is about is there.
SitesExist == \A r \in Requests : req[r] # Idle => site[req[r].site] \in SiteRecord

\* Who is to be deleted next is on the register.
LoggedFirst ==
    \A r \in Requests : req[r].op = "close" /\ req[r].logged \in Workers =>
        OnRegister("worker", req[r].logged)

RosterIsOpen == \A w \in Workers, s \in Sites : OnRoster(w) /\ At(w, s) => SiteIs(s, "active")

\* The inductive invariant of the closings.
ClosingInv ==
    /\ ClosingTypeOK
    /\ ClosingsKnow
    /\ SitesExist
    /\ LoggedFirst
    /\ RosterIsOpen
    /\ DeletedEmployeesAreOnRegister

\* The closings, restores and crashes, whatever the bounds of the run.
ClosingNext == Closing \/ RestoringSites \/ Crash

\* No step brings anybody back on a roster or to a site.
RostersShrink ==
    \A w \in Workers :
        /\ worker[w] \in Person => worker'[w] \in Person
        /\ OnRoster(w)' => OnRoster(w)
        /\ \A s \in Sites : At(w, s)' => At(w, s)

\* Whoever changed has moved for the closings other than r that know him.
OthersMoved(r) ==
    \A q \in Requests \ {r} : HasRead(req[q]) =>
        \A w \in DOMAIN req[q].todo :
            w \notin stale'[q] => w \notin stale[q] /\ worker'[w] = worker[w]

\* What the next request of r has to know.
Informed(q, r) ==
    /\ q # Idle => site[q.site] \in SiteRecord
    /\ q.op = "close" /\ q.logged \in Workers => OnRegister("worker", q.logged)
    /\ HasRead(q) => RosterKnown(q) /\ CopiesCurrent(q, stale[r])

LEMMA PersonIsThere == \A p \in Person : p # Null
  <1>1. Lists \subseteq Seq(Sites)
    BY DEF Lists
  <1>2. Person \subseteq [status : Roster \union Gone, siteIds : Seq(Sites), siteName : Names, left : BOOLEAN]
    BY <1>1 DEF Person
  <1> QED BY <1>2, OfficeAssumption

LEMMA SiteIsThere == \A s \in SiteRecord : s # Null
  BY OfficeAssumption DEF SiteRecord

LEMMA IdleIsNoClosing == Idle.op # "close" /\ \A q \in RestoringOf : q.op # "close"
  BY DEF Idle, RestoringOf

LEMMA ToDoType ==
    ASSUME NEW todo \in ToDo
    PROVE  /\ DOMAIN todo \subseteq Workers
           /\ \A w \in DOMAIN todo : todo[w] \in Lists
  BY DEF ToDo

\* One request goes on: what the others know stays true.
LEMMA OneGoesOn ==
    ASSUME ClosingInv, NEW r \in Requests, NEW nq \in InFlight,
           req' = [req EXCEPT ![r] = nq],
           site' \in [Sites -> SiteRecord \union {Null}],
           \A s \in Sites : site[s] \in SiteRecord => site'[s] \in SiteRecord,
           worker' \in [Workers -> Person \union {Null}],
           log' \in Seq(LogEntry), \A v \in Workers : OnRegister("worker", v) => OnRegister("worker", v)',
           stale' \in [Requests -> SUBSET Workers],
           RostersShrink, OthersMoved(r), Informed(nq, r)'
    PROVE  ClosingTypeOK' /\ ClosingsKnow' /\ SitesExist' /\ LoggedFirst'
  <1>1. ClosingTypeOK'
    BY DEF ClosingInv, ClosingTypeOK
  <1>2. req'[r] = nq /\ \A q \in Requests \ {r} : req'[q] = req[q]
    BY DEF ClosingInv, ClosingTypeOK
  <1>3. SitesExist'
    <2>1. \A q \in Requests \ {r} : req'[q] # Idle => site'[req'[q].site] \in SiteRecord
      <3> TAKE q \in Requests \ {r}
      <3>1. req'[q] # Idle => req'[q].site \in Sites
        BY <1>2 DEF ClosingInv, ClosingTypeOK, InFlight, RestoringOf, ClosingOf
      <3> QED BY <1>2, <3>1 DEF ClosingInv, SitesExist
    <2> QED BY <1>2, <2>1 DEF SitesExist, Informed
  <1>4. LoggedFirst'
    BY <1>2 DEF ClosingInv, LoggedFirst, Informed
  <1>5. ClosingsKnow'
    <2>1. ASSUME NEW q \in Requests \ {r}, HasRead(req[q])
          PROVE  RosterKnown(req[q])' /\ CopiesCurrent(req[q], stale[q])'
      <3>1. req[q] \in ClosingOf /\ req[q].site \in Sites /\ req[q].todo \in ToDo
        BY <2>1, IdleIsNoClosing DEF HasRead, ClosingInv, ClosingTypeOK, InFlight, ClosingOf
      <3>2. RosterKnown(req[q]) /\ CopiesCurrent(req[q], stale[q])
        BY <2>1 DEF ClosingInv, ClosingsKnow
      <3>3. req'[q] = req[q]
        BY <1>2
      <3>4. \A w \in Workers : OnRoster(w)' /\ At(w, req[q].site)' => w \in DOMAIN req[q].todo
        BY <3>1, <3>2, <3>3 DEF RosterKnown, RostersShrink
      <3>5. \A w \in DOMAIN req[q].todo :
              worker'[w] \in Person /\ (w \notin stale'[q] => req[q].todo[w] = worker'[w].siteIds)
        BY <2>1, <3>1, <3>2, ToDoType DEF CopiesCurrent, RostersShrink, OthersMoved
      <3> QED BY <3>3, <3>4, <3>5 DEF RosterKnown, CopiesCurrent
    <2> QED BY <1>2, <2>1 DEF ClosingsKnow, Informed, HasRead
  <1> QED BY <1>1, <1>3, <1>4, <1>5

\* A step of one request that writes nothing but its own place.
LEMMA OneLooks ==
    ASSUME ClosingInv, NEW r \in Requests, NEW nq \in InFlight,
           req' = [req EXCEPT ![r] = nq], UNCHANGED <<site, worker, log>>,
           stale' = stale \/ stale' = [stale EXCEPT ![r] = {}],
           Informed(nq, r)'
    PROVE  ClosingInv'
  <1>1. RostersShrink
    BY DEF RostersShrink, OnRoster, At
  <1>2. OthersMoved(r) /\ stale' \in [Requests -> SUBSET Workers]
    BY DEF OthersMoved, ClosingInv, ClosingTypeOK
  <1>3. ClosingTypeOK' /\ ClosingsKnow' /\ SitesExist' /\ LoggedFirst'
    BY <1>1, <1>2, OneGoesOn DEF ClosingInv, ClosingTypeOK, OnRegister
  <1>4. RosterIsOpen'
    BY DEF ClosingInv, RosterIsOpen, OnRoster, At, SiteIs
  <1>5. DeletedEmployeesAreOnRegister'
    BY DEF ClosingInv, DeletedEmployeesAreOnRegister, OnRegister
  <1> QED BY <1>3, <1>4, <1>5 DEF ClosingInv

LEMMA NothingToDo == << >> \in ToDo /\ DOMAIN << >> = {}
  <1>1. << >> \in [{} -> Lists] /\ DOMAIN << >> = {}
    OBVIOUS
  <1> QED BY <1>1 DEF ToDo

LEMMA ClosingRequest ==
    ASSUME ClosingInv, NEW r \in Requests, req[r].op = "close"
    PROVE  /\ req[r] \in ClosingOf /\ req[r] # Idle /\ req[r].site \in Sites
           /\ req[r].todo \in ToDo /\ site[req[r].site] \in SiteRecord
           /\ req[r].logged \in Workers => OnRegister("worker", req[r].logged)
  <1>1. req[r] \in ClosingOf /\ req[r] # Idle
    BY IdleIsNoClosing DEF ClosingInv, ClosingTypeOK, InFlight
  <1> QED BY <1>1 DEF ClosingOf, ClosingInv, SitesExist, LoggedFirst

LEMMA CloseSiteReadKeepsInv ==
    ASSUME ClosingInv, NEW r \in Requests, NEW s \in Sites, NEW to \in Kinds, NEW fate \in Kinds,
           CloseSiteRead(r, s, to, fate)
    PROVE  ClosingInv'
  <1> DEFINE q == [op |-> "close", phase |-> "read", site |-> s, to |-> to,
                   fate |-> IF to = "archived" THEN "archived" ELSE fate,
                   seen |-> site[s].status, todo |-> << >>, others |-> Null,
                   logged |-> Null, left |-> {"workers", "sites"}]
  <1>1. site[s] \in SiteRecord /\ site[s].status \in {"active", "archived"}
    BY DEF CloseSiteRead, SiteIs, ClosingInv, ClosingTypeOK
  <1>2. q \in ClosingOf
    BY <1>1, NothingToDo DEF ClosingOf, Kinds
  <1>3. ~ HasRead(q) /\ q.logged \notin Workers /\ q.site = s
    BY OfficeAssumption DEF HasRead
  <1>4. req' = [req EXCEPT ![r] = q] /\ UNCHANGED <<site, worker, log, stale>>
    BY DEF CloseSiteRead, Start
  <1> HIDE DEF q
  <1>5. PICK nq : nq = q
    OBVIOUS
  <1>6. Informed(nq, r)'
    BY <1>1, <1>3, <1>4, <1>5 DEF Informed, HasRead
  <1> QED BY <1>2, <1>4, <1>5, <1>6, OneLooks DEF InFlight

LEMMA CascadeFindWorkersKeepsInv ==
    ASSUME ClosingInv, NEW r \in Requests, CascadeFindWorkers(r)
    PROVE  ClosingInv'
  <1> DEFINE here == {w \in Workers : OnRoster(w) /\ At(w, req[r].site)}
             todo == [w \in here |-> worker[w].siteIds]
             q == [req[r] EXCEPT !.todo = todo, !.left = req[r].left \ {"workers"}]
  <1>1. req[r] \in ClosingOf /\ site[req[r].site] \in SiteRecord
        /\ (req[r].logged \in Workers => OnRegister("worker", req[r].logged))
    BY ClosingRequest DEF CascadeFindWorkers
  <1>2. \A w \in here : worker[w] \in Person /\ worker[w].siteIds \in Lists
    BY DEF OnRoster, ClosingInv, ClosingTypeOK, Person
  <1>3. todo \in ToDo /\ DOMAIN todo = here
    <2>1. todo \in [here -> Lists] /\ here \in SUBSET Workers
      BY <1>2
    <2> HIDE DEF here, todo
    <2> QED BY <2>1 DEF ToDo
  <1>4. q \in ClosingOf /\ q.site = req[r].site /\ q.logged = req[r].logged /\ q.todo = todo
    <2> HIDE DEF todo
    <2> QED BY <1>1, <1>3 DEF ClosingOf
  <1>5. req' = [req EXCEPT ![r] = q] /\ UNCHANGED <<site, worker, log, stale>>
    BY <1>1 DEF CascadeFindWorkers, Continue, ClosingOf
  <1> HIDE DEF q
  <1>6. PICK nq : nq = q
    OBVIOUS
  <1>7. RosterKnown(nq)' /\ CopiesCurrent(nq, stale[r])'
    <2>1. \A w \in Workers : OnRoster(w)' /\ At(w, nq.site)' => w \in DOMAIN nq.todo
      BY <1>3, <1>4, <1>5, <1>6 DEF OnRoster, At
    <2>2. \A w \in DOMAIN nq.todo : worker'[w] \in Person /\ nq.todo[w] = worker'[w].siteIds
      BY <1>2, <1>3, <1>4, <1>5, <1>6
    <2> QED BY <2>1, <2>2 DEF RosterKnown, CopiesCurrent
  <1>8. Informed(nq, r)'
    BY <1>1, <1>4, <1>5, <1>6, <1>7 DEF Informed, OnRegister
  <1> QED BY <1>4, <1>5, <1>6, <1>8, OneLooks DEF InFlight

LEMMA CascadeFindSitesKeepsInv ==
    ASSUME ClosingInv, NEW r \in Requests, CascadeFindSites(r)
    PROVE  ClosingInv'
  <1> DEFINE others == {s \in Sites \ {req[r].site} : SiteIs(s, "active")}
             q == [req[r] EXCEPT !.others = others, !.left = req[r].left \ {"sites"}]
  <1>1. req[r] \in ClosingOf /\ site[req[r].site] \in SiteRecord
        /\ (req[r].logged \in Workers => OnRegister("worker", req[r].logged))
    BY ClosingRequest DEF CascadeFindSites
  <1>2. others \in {Null} \union SUBSET Sites
    OBVIOUS
  <1>3. req' = [req EXCEPT ![r] = q] /\ UNCHANGED <<site, worker, log, stale>>
    BY <1>1 DEF CascadeFindSites, Continue, ClosingOf
  <1> HIDE DEF others
  <1>4. /\ q \in ClosingOf /\ q.site = req[r].site /\ q.logged = req[r].logged
        /\ q.todo = req[r].todo /\ (HasRead(q) => HasRead(req[r]))
    BY <1>1, <1>2 DEF ClosingOf, HasRead
  <1> HIDE DEF q
  <1>5. PICK nq : nq = q
    OBVIOUS
  <1>6. HasRead(nq) => RosterKnown(nq)' /\ CopiesCurrent(nq, stale[r])'
    BY <1>3, <1>4, <1>5 DEF ClosingInv, ClosingsKnow, RosterKnown, CopiesCurrent, OnRoster, At
  <1>7. Informed(nq, r)'
    BY <1>1, <1>3, <1>4, <1>5, <1>6 DEF Informed, OnRegister
  <1> QED BY <1>3, <1>4, <1>5, <1>7, OneLooks DEF InFlight

\* An employee is saved by a cascade that is done with him then.
LEMMA OneIsHandled ==
    ASSUME ClosingInv, NEW r \in Requests, Cascading(r), NEW w \in DOMAIN req[r].todo, NEW e \in Person,
           worker' = [worker EXCEPT ![w] = e],
           e.status \in Roster => worker[w].status \in Roster,
           \A i \in DOMAIN e.siteIds : \E j \in DOMAIN worker[w].siteIds : worker[w].siteIds[j] = e.siteIds[i],
           e.status \in Roster => \A i \in DOMAIN e.siteIds : e.siteIds[i] # req[r].site,
           e.status = "deleted" => OnRegister("worker", w),
           Moved(r, w), Continue(r, Done(req[r], w)), UNCHANGED <<site, log>>
    PROVE  ClosingInv'
  <1> DEFINE todo == [x \in DOMAIN req[r].todo \ {w} |-> req[r].todo[x]]
             q == [req[r] EXCEPT !.todo = todo, !.logged = Null]
  <1>1. /\ req[r] \in ClosingOf /\ site[req[r].site] \in SiteRecord
        /\ req[r].op = "close" /\ HasRead(req[r]) /\ req[r].todo \in ToDo
    BY ClosingRequest DEF Cascading, HasRead
  <1>2. /\ RosterKnown(req[r]) /\ CopiesCurrent(req[r], stale[r])
        /\ worker[w] \in Person /\ w \in Workers
    BY <1>1, ToDoType DEF ClosingInv, ClosingsKnow, CopiesCurrent
  <1>3. /\ worker' \in [Workers -> Person \union {Null}] /\ worker'[w] = e
        /\ \A v \in Workers \ {w} : worker'[v] = worker[v]
    BY <1>2 DEF ClosingInv, ClosingTypeOK
  <1>4. RostersShrink
    <2>1. ASSUME NEW v \in Workers \ {w}
          PROVE  /\ worker[v] \in Person => worker'[v] \in Person
                 /\ OnRoster(v)' => OnRoster(v)
                 /\ \A s \in Sites : At(v, s)' => At(v, s)
      BY <1>3 DEF OnRoster, At
    <2>2. worker[w] # Null
      BY <1>2, PersonIsThere
    <2>3. worker'[w] \in Person /\ (OnRoster(w)' => OnRoster(w))
      BY <1>2, <1>3, <2>2 DEF OnRoster
    <2>4. \A s \in Sites : At(w, s)' => At(w, s)
      BY <1>3, <2>2 DEF At
    <2> QED BY <2>1, <2>3, <2>4 DEF RostersShrink
  <1>5. stale' \in [Requests -> SUBSET Workers] /\ stale'[r] = stale[r] \ {w}
    BY <1>2 DEF Moved, ClosingInv, ClosingTypeOK
  <1>6. OthersMoved(r)
    <2> SUFFICES ASSUME NEW p \in Requests \ {r}, HasRead(req[p]), NEW v \in DOMAIN req[p].todo, v \notin stale'[p]
                 PROVE  v \notin stale[p] /\ worker'[v] = worker[v]
      BY DEF OthersMoved
    <2>1. CopiesOf(p) = DOMAIN req[p].todo
      BY DEF CopiesOf, HasRead
    <2>2. stale'[p] = IF w \in CopiesOf(p) THEN stale[p] \union {w} ELSE stale[p]
      BY DEF Moved
    <2>3. v # w /\ v \notin stale[p]
      BY <2>1, <2>2
    <2>4. v \in Workers
      <3>1. req[p].todo \in ToDo
        BY ClosingRequest DEF HasRead
      <3> QED BY <3>1, ToDoType
    <2> QED BY <1>3, <2>3, <2>4
  <1>7. todo \in ToDo /\ DOMAIN todo = DOMAIN req[r].todo \ {w}
    <2>1. todo \in [DOMAIN req[r].todo \ {w} -> Lists] /\ DOMAIN req[r].todo \ {w} \in SUBSET Workers
      BY <1>1, ToDoType
    <2> HIDE DEF todo
    <2> QED BY <2>1 DEF ToDo
  <1>8. \A x \in DOMAIN todo : todo[x] = req[r].todo[x]
    BY <1>7
  <1>9. req' = [req EXCEPT ![r] = q]
    BY DEF Continue, Done
  <1> HIDE DEF todo
  <1>10. /\ q \in ClosingOf /\ q.site = req[r].site /\ q.logged = Null /\ q.todo = todo
    BY <1>1, <1>7 DEF ClosingOf
  <1> HIDE DEF q
  <1>11. PICK nq : nq = q
    OBVIOUS
  <1>12. \A v \in Workers : OnRoster(v)' /\ At(v, nq.site)' => v \in DOMAIN nq.todo
    <2> SUFFICES ASSUME NEW v \in Workers, OnRoster(v)', At(v, nq.site)'
                 PROVE  v \in DOMAIN todo
      BY <1>10, <1>11
    <2>1. nq.site = req[r].site /\ req[r].site \in Sites
      BY <1>1, <1>10, <1>11 DEF ClosingOf
    <2>2. v # w
      BY <1>3, <2>1 DEF OnRoster, At
    <2>3. OnRoster(v) /\ At(v, req[r].site)
      BY <1>4, <2>1 DEF RostersShrink
    <2> QED BY <1>2, <1>7, <2>2, <2>3 DEF RosterKnown
  <1>13. \A v \in DOMAIN nq.todo :
           worker'[v] \in Person /\ (v \notin stale'[r] => nq.todo[v] = worker'[v].siteIds)
    <2> SUFFICES ASSUME NEW v \in DOMAIN todo
                 PROVE  worker'[v] \in Person /\ (v \notin stale'[r] => todo[v] = worker'[v].siteIds)
      BY <1>10, <1>11
    <2>1. v \in Workers /\ v # w /\ v \in DOMAIN req[r].todo
      BY <1>1, <1>7, ToDoType
    <2> QED BY <1>2, <1>3, <1>5, <1>8, <2>1 DEF CopiesCurrent
  <1>14. Informed(nq, r)'
    BY <1>1, <1>10, <1>11, <1>12, <1>13, OfficeAssumption
      DEF Informed, RosterKnown, CopiesCurrent
  <1>15. ClosingTypeOK' /\ ClosingsKnow' /\ SitesExist' /\ LoggedFirst'
    <2>1. nq \in InFlight /\ req' = [req EXCEPT ![r] = nq]
      BY <1>9, <1>10, <1>11 DEF InFlight
    <2> QED BY <1>3, <1>4, <1>5, <1>6, <1>14, <2>1, OneGoesOn DEF ClosingInv, ClosingTypeOK, OnRegister
  <1>16. RosterIsOpen'
    BY <1>4 DEF ClosingInv, RosterIsOpen, RostersShrink, SiteIs
  <1>17. DeletedEmployeesAreOnRegister'
    BY <1>2, <1>3 DEF ClosingInv, DeletedEmployeesAreOnRegister, OnRegister
  <1> QED BY <1>15, <1>16, <1>17 DEF ClosingInv

LEMMA CascadeDetachKeepsInv ==
    ASSUME ClosingInv, NEW r \in Requests, NEW w \in Workers, CascadeDetach(r, w)
    PROVE  ClosingInv'
  <1>1. /\ req[r].op = "close" /\ Cascading(r) /\ HasRead(req[r]) /\ w \in DOMAIN req[r].todo
        /\ UNCHANGED <<site, log>>
    BY DEF CascadeDetach, Cascading, HasRead
  <1>2. req[r] \in ClosingOf /\ req[r].site \in Sites /\ req[r].todo[w] \in Lists
    BY <1>1, ClosingRequest, ToDoType
  <1>3. CASE ~ Versioned(r, w)
    <2>1. UNCHANGED worker /\ Finish(r)
      BY <1>3 DEF CascadeDetach
    <2>2. Informed(Idle, r)'
      BY IdleIsNoClosing DEF Informed, HasRead
    <2> QED BY <1>1, <2>1, <2>2, OneLooks DEF Finish, InFlight
  <1>4. CASE Versioned(r, w)
    <2> DEFINE ids == Without(req[r].todo[w], req[r].site)
               e == [worker[w] EXCEPT !.siteIds = ids]
    <2>1. /\ worker' = [worker EXCEPT ![w].siteIds = ids]
          /\ Moved(r, w) /\ Continue(r, Done(req[r], w))
      BY <1>4 DEF CascadeDetach
    <2>2. worker[w] \in Person /\ req[r].todo[w] = worker[w].siteIds
      BY <1>1, <1>4 DEF ClosingInv, ClosingsKnow, CopiesCurrent, Versioned
    <2>3. /\ ids \in Lists
          /\ \A i \in DOMAIN ids : /\ ids[i] # req[r].site
                                   /\ \E j \in DOMAIN worker[w].siteIds : worker[w].siteIds[j] = ids[i]
      BY <1>2, <2>2, FilteredList
    <2> HIDE DEF ids
    <2>4. e \in Person /\ e.status = worker[w].status /\ e.siteIds = ids
      BY <2>2, <2>3 DEF Person
    <2>5. worker' = [worker EXCEPT ![w] = e]
      BY <2>1
    <2>6. e.status = "deleted" => OnRegister("worker", w)
      BY <2>2, <2>4, PersonIsThere DEF ClosingInv, DeletedEmployeesAreOnRegister
    <2> HIDE DEF e
    <2>7. PICK p : p = e
      OBVIOUS
    <2>8. /\ p \in Person /\ worker' = [worker EXCEPT ![w] = p] /\ p.status = worker[w].status
          /\ (p.status = "deleted" => OnRegister("worker", w))
          /\ \A i \in DOMAIN p.siteIds : /\ p.siteIds[i] # req[r].site
                                         /\ \E j \in DOMAIN worker[w].siteIds : worker[w].siteIds[j] = p.siteIds[i]
      BY <2>3, <2>4, <2>5, <2>6, <2>7
    <2> QED BY <1>1, <2>1, <2>8, OneIsHandled
  <1> QED BY <1>3, <1>4

LEMMA CascadeLeaveKeepsInv ==
    ASSUME ClosingInv, NEW r \in Requests, NEW w \in Workers, CascadeLeave(r, w)
    PROVE  ClosingInv'
  <1> DEFINE e == [worker[w] EXCEPT !.status = req[r].fate, !.left = TRUE]
  <1>1. /\ req[r].op = "close" /\ Cascading(r) /\ HasRead(req[r]) /\ w \in DOMAIN req[r].todo
        /\ (req[r].fate = "deleted" => req[r].logged = w)
        /\ Moved(r, w) /\ Continue(r, Done(req[r], w)) /\ UNCHANGED <<site, log>>
        /\ worker' = [worker EXCEPT ![w] = e]
    BY DEF CascadeLeave, Cascading, HasRead
  <1>2. req[r] \in ClosingOf /\ req[r].fate \in Kinds
        /\ (req[r].logged \in Workers => OnRegister("worker", req[r].logged))
    BY <1>1, ClosingRequest DEF ClosingOf
  <1>3. worker[w] \in Person
    BY <1>1 DEF ClosingInv, ClosingsKnow, CopiesCurrent
  <1>4. e \in Person /\ e.status = req[r].fate /\ e.siteIds = worker[w].siteIds
    BY <1>2, <1>3 DEF Person, Kinds, Gone
  <1> HIDE DEF e
  <1>5. PICK p : p = e
    OBVIOUS
  <1>6. /\ p \in Person /\ worker' = [worker EXCEPT ![w] = p] /\ p.status \notin Roster
        /\ (p.status = "deleted" => OnRegister("worker", w))
        /\ \A i \in DOMAIN p.siteIds : \E j \in DOMAIN worker[w].siteIds : worker[w].siteIds[j] = p.siteIds[i]
    BY <1>1, <1>2, <1>4, <1>5 DEF Kinds, Roster
  <1> QED BY <1>1, <1>6, OneIsHandled

\* Nothing on the register is taken off it by an entry added.
LEMMA RegisterGrows ==
    ASSUME log \in Seq(LogEntry), NEW entry \in LogEntry, log' = Append(log, entry)
    PROVE  /\ log' \in Seq(LogEntry)
           /\ \A kind, id : OnRegister(kind, id) => OnRegister(kind, id)'
           /\ \A kind, id : entry = Entry(kind, id) => OnRegister(kind, id)'
  <1>1. /\ Len(log') = Len(log) + 1 /\ Len(log) \in Nat /\ DOMAIN log = 1 .. Len(log)
        /\ log' \in Seq(LogEntry) /\ DOMAIN log' = 1 .. Len(log')
        /\ log'[Len(log')] = entry /\ \A i \in DOMAIN log : log'[i] = log[i]
    OBVIOUS
  <1>2. \A i \in DOMAIN log : i \in DOMAIN log'
    BY <1>1
  <1>3. Len(log') \in DOMAIN log'
    BY <1>1
  <1> QED BY <1>1, <1>2, <1>3 DEF OnRegister

LEMMA CascadeLogKeepsInv ==
    ASSUME ClosingInv, NEW r \in Requests, NEW w \in Workers, CascadeLog(r, w)
    PROVE  ClosingInv'
  <1> DEFINE q == [req[r] EXCEPT !.logged = w]
  <1>1. /\ req[r].op = "close" /\ HasRead(req[r])
        /\ log' = Append(log, Entry("worker", w))
        /\ req' = [req EXCEPT ![r] = q] /\ UNCHANGED <<site, worker, stale>>
    BY DEF CascadeLog, Cascading, HasRead, Append1, Continue
  <1>2. req[r] \in ClosingOf /\ site[req[r].site] \in SiteRecord
    BY <1>1, ClosingRequest
  <1>3. q \in ClosingOf /\ q.site = req[r].site /\ q.logged = w /\ q.todo = req[r].todo
    BY <1>2 DEF ClosingOf
  <1>4. /\ log' \in Seq(LogEntry)
        /\ \A v \in Workers : OnRegister("worker", v) => OnRegister("worker", v)'
        /\ OnRegister("worker", w)'
    <2>1. Entry("worker", w) \in LogEntry
      BY DEF Entry, LogEntry
    <2>2. log \in Seq(LogEntry)
      BY DEF ClosingInv, ClosingTypeOK
    <2> QED BY <1>1, <2>1, <2>2, RegisterGrows
  <1> HIDE DEF q
  <1>5. PICK nq : nq = q
    OBVIOUS
  <1>6. RosterKnown(nq)' /\ CopiesCurrent(nq, stale[r])'
    BY <1>1, <1>3, <1>5 DEF ClosingInv, ClosingsKnow, RosterKnown, CopiesCurrent, OnRoster, At
  <1>7. Informed(nq, r)'
    BY <1>1, <1>2, <1>3, <1>4, <1>5, <1>6 DEF Informed
  <1>8. RostersShrink
    BY <1>1 DEF RostersShrink, OnRoster, At
  <1>9. OthersMoved(r)
    BY <1>1 DEF OthersMoved
  <1>10. ClosingTypeOK' /\ ClosingsKnow' /\ SitesExist' /\ LoggedFirst'
    <2>1. nq \in InFlight /\ req' = [req EXCEPT ![r] = nq]
      BY <1>1, <1>3, <1>5 DEF InFlight
    <2> QED BY <1>1, <1>4, <1>7, <1>8, <1>9, <2>1, OneGoesOn DEF ClosingInv, ClosingTypeOK
  <1>11. RosterIsOpen'
    BY <1>1 DEF ClosingInv, RosterIsOpen, OnRoster, At, SiteIs
  <1>12. DeletedEmployeesAreOnRegister'
    BY <1>1, <1>4 DEF ClosingInv, DeletedEmployeesAreOnRegister
  <1> QED BY <1>10, <1>11, <1>12 DEF ClosingInv

\* A step that writes sites: they keep existing, and none closes that has a roster.
LEMMA SitesChange ==
    ASSUME ClosingInv, NEW r \in Requests, NEW nq \in InFlight, req' = [req EXCEPT ![r] = nq],
           UNCHANGED <<worker, log, stale>>, ~ HasRead(nq), nq # Idle, nq.site = req[r].site,
           nq.op = "close" => nq.logged = req[r].logged /\ req[r].op = "close",
           req[r] # Idle, NEW status \in {"active"} \union Gone,
           site' = [site EXCEPT ![req[r].site].status = status] \/ site' = site,
           site' # site /\ status # "active" =>
              \A w \in Workers : ~ (OnRoster(w) /\ At(w, req[r].site))
    PROVE  ClosingInv'
  <1>1. req[r].site \in Sites /\ site[req[r].site] \in SiteRecord
    BY IdleIsNoClosing DEF ClosingInv, ClosingTypeOK, InFlight, RestoringOf, ClosingOf, SitesExist
  <1>2. /\ site' \in [Sites -> SiteRecord \union {Null}]
        /\ \A s \in Sites : site[s] \in SiteRecord => site'[s] \in SiteRecord
    <2> DEFINE d == [site[req[r].site] EXCEPT !.status = status]
    <2>1. d \in SiteRecord
      BY <1>1 DEF SiteRecord
    <2>2. site' = [site EXCEPT ![req[r].site] = d] \/ site' = site
      OBVIOUS
    <2> HIDE DEF d
    <2> QED BY <1>1, <2>1, <2>2 DEF ClosingInv, ClosingTypeOK
  <1>3. Informed(nq, r)'
    BY <1>1, <1>2 DEF Informed, OnRegister, ClosingInv, LoggedFirst
  <1>4. RostersShrink /\ OthersMoved(r)
    BY DEF RostersShrink, OnRoster, At, OthersMoved
  <1>5. ClosingTypeOK' /\ ClosingsKnow' /\ SitesExist' /\ LoggedFirst'
    BY <1>2, <1>3, <1>4, OneGoesOn DEF ClosingInv, ClosingTypeOK, OnRegister
  <1>6. RosterIsOpen'
    <2> SUFFICES ASSUME NEW w \in Workers, NEW s \in Sites, OnRoster(w), At(w, s)
                 PROVE  SiteIs(s, "active")'
      BY DEF RosterIsOpen, OnRoster, At
    <2>1. SiteIs(s, "active") /\ site[s] \in SiteRecord
      BY DEF ClosingInv, RosterIsOpen, SiteIs, ClosingTypeOK
    <2>2. CASE site' = site \/ s # req[r].site
      BY <1>1, <2>1, <2>2 DEF SiteIs, ClosingInv, ClosingTypeOK
    <2>3. CASE site' # site /\ s = req[r].site
      <3>1. status = "active"
        BY <2>3
      <3>2. site' = site
        BY <1>1, <2>1, <2>3, <3>1 DEF SiteIs, ClosingInv, ClosingTypeOK, SiteRecord
      <3> QED BY <2>3, <3>2
    <2> QED BY <2>2, <2>3
  <1>7. DeletedEmployeesAreOnRegister'
    BY DEF ClosingInv, DeletedEmployeesAreOnRegister, OnRegister
  <1> QED BY <1>5, <1>6, <1>7 DEF ClosingInv

LEMMA CloseSiteKeepsInv ==
    ASSUME ClosingInv, NEW r \in Requests, CloseSite(r)
    PROVE  ClosingInv'
  <1> DEFINE left == IF req[r].to = "deleted" THEN {"stations", "scopes", "log"} ELSE {"stations"}
             q == [req[r] EXCEPT !.phase = "after", !.left = left]
  <1>1. /\ req[r].op = "close" /\ HasRead(req[r]) /\ DOMAIN req[r].todo = {}
        /\ req' = [req EXCEPT ![r] = q] /\ UNCHANGED <<worker, log, stale>>
        /\ site' = [site EXCEPT ![req[r].site].status = req[r].to] \/ site' = site
    BY DEF CloseSite, Cascading, HasRead, Continue
  <1>2. req[r] \in ClosingOf /\ req[r] # Idle /\ req[r].to \in {"active"} \union Gone
    BY <1>1, ClosingRequest DEF ClosingOf, Kinds, Gone
  <1>3. left \in SUBSET {"workers", "sites", "stations", "scopes", "log"}
    OBVIOUS
  <1> HIDE DEF left
  <1>4. /\ q \in ClosingOf /\ q.site = req[r].site /\ q.logged = req[r].logged /\ q.op = "close"
        /\ q.phase = "after"
    BY <1>2, <1>3 DEF ClosingOf
  <1> HIDE DEF q
  <1>5. PICK nq : nq = q
    OBVIOUS
  <1>6. \A w \in Workers : ~ (OnRoster(w) /\ At(w, req[r].site))
    BY <1>1 DEF ClosingInv, ClosingsKnow, RosterKnown
  <1>7. nq \in InFlight /\ ~ HasRead(nq) /\ nq # Idle
    BY <1>4, <1>5, IdleIsNoClosing DEF InFlight, HasRead
  <1> QED BY <1>1, <1>2, <1>4, <1>5, <1>6, <1>7, SitesChange

LEMMA RestoringRequest ==
    ASSUME ClosingInv, NEW r \in Requests, req[r].op = "restoreSite"
    PROVE  /\ req[r] \in RestoringOf /\ req[r] # Idle /\ req[r].site \in Sites
           /\ site[req[r].site] \in SiteRecord
  <1>1. req[r] \in RestoringOf /\ req[r] # Idle
    BY DEF ClosingInv, ClosingTypeOK, InFlight, Idle, ClosingOf
  <1> QED BY <1>1 DEF RestoringOf, ClosingInv, SitesExist

LEMMA RestoreSiteKeepsInv ==
    ASSUME ClosingInv, NEW r \in Requests, RestoreSite(r)
    PROVE  ClosingInv'
  <1> DEFINE q == [req[r] EXCEPT !.saved = TRUE]
  <1>1. /\ req[r].op = "restoreSite"
        /\ req' = [req EXCEPT ![r] = q] /\ UNCHANGED <<worker, log, stale>>
        /\ site' = [site EXCEPT ![req[r].site].status = "active"]
    BY DEF RestoreSite, Continue
  <1>2. req[r] \in RestoringOf /\ req[r] # Idle
    BY <1>1, RestoringRequest
  <1>3. q \in RestoringOf /\ q.site = req[r].site /\ q.op = "restoreSite" /\ q # Idle
    BY <1>2 DEF RestoringOf, Idle
  <1> HIDE DEF q
  <1>4. PICK nq : nq = q
    OBVIOUS
  <1>5. nq \in InFlight /\ ~ HasRead(nq)
    BY <1>3, <1>4 DEF InFlight, HasRead
  <1> QED BY <1>1, <1>2, <1>3, <1>4, <1>5, SitesChange

LEMMA EndsQuietly ==
    ASSUME ClosingInv, NEW r \in Requests, Finish(r), UNCHANGED <<site, worker, log>>
    PROVE  ClosingInv'
  <1>1. Informed(Idle, r)'
    BY IdleIsNoClosing DEF Informed, HasRead
  <1> QED BY <1>1, OneLooks DEF Finish, InFlight

LEMMA RestoringKeepsInv ==
    ASSUME ClosingInv, NEW r \in Requests,
           (\E s \in Sites : RestoreSiteRead(r, s)) \/ RestoreStations(r)
    PROVE  ClosingInv'
  <1>1. ASSUME NEW s \in Sites, RestoreSiteRead(r, s)
        PROVE  ClosingInv'
    <2> DEFINE q == [op |-> "restoreSite", site |-> s, saved |-> FALSE]
    <2>1. site[s] \in SiteRecord
      BY <1>1 DEF RestoreSiteRead, SiteIs, ClosingInv, ClosingTypeOK
    <2>2. q \in RestoringOf /\ Informed(q, r)' /\ q \in InFlight
      BY <1>1, <2>1 DEF RestoringOf, RestoreSiteRead, Informed, HasRead, InFlight
    <2> QED BY <1>1, <2>2, OneLooks DEF RestoreSiteRead, Start
  <1>2. CASE RestoreStations(r)
    BY <1>2, EndsQuietly DEF RestoreStations
  <1> QED BY <1>1, <1>2

\* What follows the site's save: stations, scopes and the register's entry of the site.
LEMMA AfterCloseKeepsInv ==
    ASSUME ClosingInv, NEW r \in Requests, NEW what, AfterClose(r, what)
    PROVE  ClosingInv'
  <1> DEFINE q == [req[r] EXCEPT !.left = req[r].left \ {what}]
  <1>1. req[r].op = "close" /\ req[r].phase = "after" /\ UNCHANGED <<site, worker>>
    BY DEF AfterClose
  <1>2. req[r] \in ClosingOf /\ req[r] # Idle /\ site[req[r].site] \in SiteRecord /\ req[r].site \in Sites
        /\ (req[r].logged \in Workers => OnRegister("worker", req[r].logged))
    BY <1>1, ClosingRequest
  <1>3. /\ q \in ClosingOf /\ q.site = req[r].site /\ q.logged = req[r].logged /\ q.phase = "after"
    BY <1>1, <1>2 DEF ClosingOf
  <1>4. \/ Finish(r)
        \/ req' = [req EXCEPT ![r] = q] /\ stale' = stale
    BY DEF AfterClose, Continue
  <1> HIDE DEF q
  <1>5. /\ log' \in Seq(LogEntry)
        /\ \A v \in Workers : OnRegister("worker", v) => OnRegister("worker", v)'
    <2>1. log \in Seq(LogEntry) /\ Entry("site", req[r].site) \in LogEntry
      BY <1>2 DEF ClosingInv, ClosingTypeOK, Entry, LogEntry
    <2>2. log' = log \/ log' = Append(log, Entry("site", req[r].site))
      BY DEF AfterClose, Append1
    <2> QED BY <2>1, <2>2, RegisterGrows DEF OnRegister
  <1>6. RostersShrink
    BY <1>1 DEF RostersShrink, OnRoster, At
  <1>7. OthersMoved(r) /\ stale' \in [Requests -> SUBSET Workers]
    BY <1>1, <1>4 DEF OthersMoved, Finish, ClosingInv, ClosingTypeOK
  <1>8. PICK nq : /\ nq \in InFlight /\ req' = [req EXCEPT ![r] = nq] /\ ~ HasRead(nq)
                  /\ nq # Idle => nq.site = req[r].site /\ nq.logged = req[r].logged
    BY <1>3, <1>4, IdleIsNoClosing DEF Finish, InFlight, HasRead
  <1>9. Informed(nq, r)'
    BY <1>1, <1>2, <1>5, <1>8, IdleIsNoClosing DEF Informed
  <1>10. ClosingTypeOK' /\ ClosingsKnow' /\ SitesExist' /\ LoggedFirst'
    BY <1>1, <1>5, <1>6, <1>7, <1>8, <1>9, OneGoesOn DEF ClosingInv, ClosingTypeOK
  <1>11. RosterIsOpen'
    BY <1>1 DEF ClosingInv, RosterIsOpen, OnRoster, At, SiteIs
  <1>12. DeletedEmployeesAreOnRegister'
    BY <1>1, <1>5 DEF ClosingInv, DeletedEmployeesAreOnRegister
  <1> QED BY <1>10, <1>11, <1>12 DEF ClosingInv

LEMMA CrashKeepsInv ==
    ASSUME ClosingInv, Crash
    PROVE  ClosingInv'
  <1>1. /\ req' = [r \in Requests |-> Idle] /\ stale' = [r \in Requests |-> {}]
        /\ UNCHANGED <<site, worker, log>>
    BY DEF Crash
  <1>2. ClosingTypeOK'
    BY <1>1 DEF ClosingInv, ClosingTypeOK, InFlight
  <1>3. ClosingsKnow' /\ SitesExist' /\ LoggedFirst'
    BY <1>1, IdleIsNoClosing DEF ClosingsKnow, HasRead, SitesExist, LoggedFirst
  <1>4. RosterIsOpen' /\ DeletedEmployeesAreOnRegister'
    BY <1>1 DEF ClosingInv, RosterIsOpen, OnRoster, At, SiteIs, DeletedEmployeesAreOnRegister, OnRegister
  <1> QED BY <1>2, <1>3, <1>4 DEF ClosingInv

LEMMA ClosingInvStep ==
    ASSUME ClosingInv, ClosingNext
    PROVE  ClosingInv'
  <1>1. ASSUME NEW r \in Requests, Cascade(r)
        PROVE  ClosingInv'
    BY <1>1, CascadeFindWorkersKeepsInv, CascadeFindSitesKeepsInv, CascadeDetachKeepsInv,
       CascadeLogKeepsInv, CascadeLeaveKeepsInv, CloseSiteKeepsInv, AfterCloseKeepsInv DEF Cascade
  <1>2. CASE Closing
    BY <1>1, <1>2, CloseSiteReadKeepsInv DEF Closing
  <1>3. CASE RestoringSites
    BY <1>3, RestoringKeepsInv, RestoreSiteKeepsInv DEF RestoringSites
  <1> QED BY <1>2, <1>3, CrashKeepsInv DEF ClosingNext

EverybodyHasASite == \A w \in Workers : worker[w] \in Person => SiteId(w) \in Sites

LEMMA PickedLists ==
    ASSUME NEW S \in SUBSET Sites, S # {}, NEW ids \in SetToSeqs(S) \union {<<s>> : s \in S}
    PROVE  ids \in Lists /\ ids[1] \in S /\ \A i \in DOMAIN ids : ids[i] \in S
  <1>1. Cardinality(S) \in Nat \ {0}
    <2>1. IsFiniteSet(S)
      BY OfficeAssumption, FS_Subset
    <2> QED BY <2>1, FS_CardinalityType, FS_EmptySet
  <1>2. CASE ids \in SetToSeqs(S)
    <2>1. /\ ids \in [1 .. Cardinality(S) -> S]
          /\ \A i, j \in 1 .. Cardinality(S) : i # j => ids[i] # ids[j]
      BY <1>2 DEF SetToSeqs
    <2>2. ids \in Seq(S) /\ DOMAIN ids = 1 .. Cardinality(S)
      BY <1>1, <2>1
    <2>3. ids \in Seq(Sites)
      BY <2>2
    <2>4. 1 \in 1 .. Cardinality(S)
      BY <1>1
    <2> QED BY <2>1, <2>2, <2>3, <2>4 DEF Lists
  <1>3. CASE \E s \in S : ids = <<s>>
    <2>1. PICK s \in S : ids = <<s>>
      BY <1>3
    <2>2. ids \in Seq(Sites) /\ DOMAIN ids = {1} /\ ids[1] = s
      BY <2>1
    <2> QED BY <2>2 DEF Lists
  <1> QED BY <1>2, <1>3

LEMMA OpenedIsSound ==
    ASSUME NEW B \in SUBSET Branches, NEW S \in SUBSET Sites, S # {}, NEW W \in SUBSET Workers,
           NEW N \in SUBSET Names, NEW A, Opened(B, S, W, N, A)
    PROVE  ClosingInv /\ EverybodyHasASite /\ \A w \in Workers : OnRoster(w) => ~ worker[w].left
  <1>1. PICK at \in [S -> B], name \in [S -> N] :
          site = [s \in Sites |-> IF s \in S THEN NewSite(at[s], name[s]) ELSE Null]
    BY DEF Opened
  <1>2. PICK ids \in [W -> SetToSeqs(S) \union {<<s>> : s \in S}] :
          worker = [w \in Workers |-> IF w \in W THEN NewWorker("active", ids[w], site[ids[w][1]].name)
                                      ELSE Null]
    BY DEF Opened
  <1>3. /\ log = << >> /\ req = [r \in Requests |-> Idle] /\ stale = [r \in Requests |-> {}]
    BY DEF Opened
  <1>4. \A s \in S : /\ site[s] \in SiteRecord /\ site[s].status = "active" /\ site[s].name \in Names
    BY <1>1 DEF NewSite, SiteRecord
  <1>5. site \in [Sites -> SiteRecord \union {Null}]
    <2>1. \A s \in Sites : site[s] \in SiteRecord \union {Null}
      BY <1>1, <1>4
    <2> QED BY <1>1, <2>1
  <1>6. \A w \in W : ids[w] \in Lists /\ ids[w][1] \in S /\ \A i \in DOMAIN ids[w] : ids[w][i] \in S
    BY PickedLists
  <1>7. \A w \in W : /\ worker[w] \in Person /\ worker[w].status = "active" /\ worker[w].siteIds = ids[w]
                   /\ ~ worker[w].left
    BY <1>2, <1>4, <1>6 DEF NewWorker, Person, Roster
  <1>8. \A w \in Workers \ W : worker[w] = Null
    BY <1>2
  <1>9. worker \in [Workers -> Person \union {Null}]
    <2>1. \A w \in Workers : worker[w] \in Person \union {Null}
      BY <1>7, <1>8
    <2> QED BY <1>2, <2>1
  <1>10. ClosingTypeOK
    BY <1>3, <1>5, <1>9 DEF ClosingTypeOK, InFlight
  <1>11. ClosingsKnow /\ SitesExist /\ LoggedFirst
    BY <1>3, IdleIsNoClosing DEF ClosingsKnow, HasRead, SitesExist, LoggedFirst
  <1>12. RosterIsOpen
    <2> SUFFICES ASSUME NEW w \in Workers, NEW s \in Sites, OnRoster(w), At(w, s)
                 PROVE  SiteIs(s, "active")
      BY DEF RosterIsOpen
    <2>1. w \in W
      BY <1>8 DEF OnRoster
    <2>2. s \in S
      BY <1>6, <1>7, <2>1 DEF At
    <2>3. NewSite(at[s], name[s]) # Null
      BY <1>1, <1>4, <2>2, SiteIsThere
    <2> QED BY <1>1, <1>4, <2>2, <2>3 DEF SiteIs
  <1>13. DeletedEmployeesAreOnRegister
    BY <1>7, <1>8 DEF DeletedEmployeesAreOnRegister
  <1>14. EverybodyHasASite
    BY <1>6, <1>7, <1>8, PersonIsThere DEF EverybodyHasASite, SiteId
  <1>15. \A w \in Workers : OnRoster(w) => ~ worker[w].left
    BY <1>7, <1>8 DEF OnRoster
  <1> QED BY <1>10, <1>11, <1>12, <1>13, <1>14, <1>15 DEF ClosingInv

\* Any office at all, with any number of sites, employees and requests, in which sites
\* are closed and restored and the process dies.
ClosingSpec ==
    /\ \E S \in SUBSET Sites, W \in SUBSET Workers :
          S # {} /\ Opened({FirstBranch}, S, W, Names, {})
    /\ [][ClosingNext]_vars

LEMMA ClosingInvStutters ==
    ASSUME ClosingInv, UNCHANGED vars
    PROVE  ClosingInv'
  BY DEF ClosingInv, ClosingTypeOK, ClosingsKnow, RosterKnown, CopiesCurrent, SitesExist, LoggedFirst,
         RosterIsOpen, DeletedEmployeesAreOnRegister, OnRegister, OnRoster, At, SiteIs, HasRead, vars

\* However many closings of however many sites share employees, and wherever the process
\* dies: nobody on the roster is left at a closed site, and every employee they delete can
\* be found on the register at every moment (org.ts:34-75, :472).
THEOREM ClosingsAreClean == ClosingSpec => [](RosterIsOpen /\ DeletedEmployeesAreOnRegister)
  <1>1. (\E S \in SUBSET Sites, W \in SUBSET Workers :
            S # {} /\ Opened({FirstBranch}, S, W, Names, {})) => ClosingInv
    BY OpenedIsSound, OfficeAssumption
  <1>2. ClosingInv /\ [ClosingNext]_vars => ClosingInv'
    BY ClosingInvStep, ClosingInvStutters
  <1>3. ClosingInv => RosterIsOpen /\ DeletedEmployeesAreOnRegister
    BY DEF ClosingInv
  <1> QED BY <1>1, <1>2, <1>3, PTL DEF ClosingSpec

LEMMA ClosingsInvariant == MCSpec => [](scenario = "closings" => ClosingInv)
  <1>1. MCInit => (scenario = "closings" => ClosingInv)
    <2> SUFFICES ASSUME MCInit, scenario = "closings" PROVE ClosingInv
      OBVIOUS
    <2>1. OpenedWith(2, 2, {DefaultName}, FALSE)
      BY DEF MCInit
    <2>2. PICK S \in kSubset(2, Sites), W \in kSubset(2, Workers) :
            Opened({FirstBranch}, S, W, {DefaultName}, {})
      BY <2>1 DEF OpenedWith
    <2>3. S \in SUBSET Sites /\ S # {} /\ W \in SUBSET Workers
      BY FS_EmptySet DEF kSubset
    <2> QED BY <2>2, <2>3, OpenedIsSound, OfficeAssumption
  <1>2. (scenario = "closings" => ClosingInv) /\ [MCNext]_mcVars => (scenario = "closings" => ClosingInv)'
    <2> SUFFICES ASSUME scenario = "closings" => ClosingInv, [MCNext]_mcVars, scenario' = "closings"
                 PROVE  ClosingInv'
      OBVIOUS
    <2>1. CASE UNCHANGED mcVars
      BY <2>1, ClosingInvStutters DEF mcVars, allVars
    <2>2. CASE MCNext
      BY <2>2, ClosingInvStep DEF MCNext, Closings, Deletions, Answers, Office, ClosingNext
    <2> QED BY <2>1, <2>2
  <1> QED BY <1>1, <1>2, PTL DEF MCSpec

\* Nobody on the roster is left at a closed site (org.ts:472).
THEOREM ClosedSitesAreEmpty == MCSpec => []ClosedSiteHasNoRoster
  <1>1. (scenario = "closings" => ClosingInv) => ClosedSiteHasNoRoster
    BY DEF ClosedSiteHasNoRoster, ClosingInv, RosterIsOpen
  <1> QED BY <1>1, ClosingsInvariant, PTL

-----------------------------------------------------------------------------
(* Closings side by side keep the promise of one *)

\* A closing knows the other sites of the people on its list: they are on the lists it has
\* read, and among the active sites it has read.
KnowsElsewhere(q) ==
    q.op = "close" /\ q.phase = "read" =>
        /\ "workers" \notin q.left =>
              \A w \in DOMAIN q.todo, s \in Sites :
                  OnRoster(w) /\ At(w, s) => \E i \in DOMAIN q.todo[w] : q.todo[w][i] = s
        /\ "sites" \notin q.left =>
              /\ q.site \notin q.others /\ q.others \in SUBSET Sites
              /\ \A w \in Workers, s \in Sites \ {q.site} : OnRoster(w) /\ At(w, s) => s \in q.others

PromiseInv == ClosingInv /\ \A r \in Requests : KnowsElsewhere(req[r])

\* What a request knew, it knows after a step that brings nobody to a site.
LEMMA KnowledgeLasts ==
    ASSUME RostersShrink, NEW p, KnowsElsewhere(p), p.op = "close" => p.todo \in ToDo, NEW q,
           q.op = "close" /\ q.phase = "read" =>
               /\ p.op = "close" /\ p.phase = "read" /\ q.left = p.left
               /\ q.site = p.site /\ q.others = p.others
               /\ DOMAIN q.todo \subseteq DOMAIN p.todo /\ \A w \in DOMAIN q.todo : q.todo[w] = p.todo[w]
    PROVE  KnowsElsewhere(q)'
  <1> SUFFICES ASSUME q.op = "close", q.phase = "read" PROVE KnowsElsewhere(q)'
    BY DEF KnowsElsewhere
  <1>1. \A w \in DOMAIN q.todo : w \in Workers
    BY ToDoType
  <1>2. \A w \in Workers, s \in Sites : OnRoster(w)' /\ At(w, s)' => OnRoster(w) /\ At(w, s)
    BY DEF RostersShrink
  <1>3. "workers" \notin q.left =>
            \A w \in DOMAIN q.todo, s \in Sites :
                OnRoster(w)' /\ At(w, s)' => \E i \in DOMAIN q.todo[w] : q.todo[w][i] = s
    BY <1>1, <1>2 DEF KnowsElsewhere
  <1>4. "sites" \notin q.left =>
            /\ q.site \notin q.others /\ q.others \in SUBSET Sites
            /\ \A w \in Workers, s \in Sites \ {q.site} : OnRoster(w)' /\ At(w, s)' => s \in q.others
    BY <1>2 DEF KnowsElsewhere
  <1> QED BY <1>3, <1>4 DEF KnowsElsewhere

\* The step of one request; what the others know lasts.
LEMMA OneKnows ==
    ASSUME PromiseInv, ClosingInv', RostersShrink, NEW r \in Requests, NEW q,
           req' = [req EXCEPT ![r] = q], KnowsElsewhere(q)'
    PROVE  PromiseInv'
  <1>1. req'[r] = q /\ \A p \in Requests \ {r} : req'[p] = req[p]
    BY DEF PromiseInv, ClosingInv, ClosingTypeOK
  <1>2. ASSUME NEW p \in Requests \ {r}
        PROVE  KnowsElsewhere(req[p])'
    <2>1. KnowsElsewhere(req[p]) /\ (req[p].op = "close" => req[p].todo \in ToDo)
      BY ClosingRequest DEF PromiseInv
    <2>2. PICK o : o = req[p]
      OBVIOUS
    <2>3. KnowsElsewhere(o)'
      BY <2>1, <2>2, KnowledgeLasts
    <2>4. req'[p] = o
      BY <1>1, <2>2
    <2> QED BY <2>3, <2>4 DEF KnowsElsewhere
  <1>3. KnowsElsewhere(req[r])'
    BY <1>1 DEF KnowsElsewhere
  <1>4. \A p \in Requests : KnowsElsewhere(req[p])'
    BY <1>2, <1>3 DEF KnowsElsewhere
  <1> QED BY <1>4 DEF PromiseInv

\* A detached employee has the sites he had, but this one.
LEMMA OneIsDetached ==
    ASSUME ClosingInv, NEW r \in Requests, NEW w \in Workers, CascadeDetach(r, w), Versioned(r, w)
    PROVE  \E e \in Person :
              /\ worker' = [worker EXCEPT ![w] = e]
              /\ worker[w] \in Person /\ e.status = worker[w].status
              /\ \A i \in DOMAIN e.siteIds : /\ e.siteIds[i] # req[r].site
                                             /\ \E j \in DOMAIN worker[w].siteIds : worker[w].siteIds[j] = e.siteIds[i]
              /\ \A j \in DOMAIN worker[w].siteIds : worker[w].siteIds[j] # req[r].site =>
                    \E i \in DOMAIN e.siteIds : e.siteIds[i] = worker[w].siteIds[j]
  <1>1. /\ req[r].op = "close" /\ HasRead(req[r]) /\ w \in DOMAIN req[r].todo
        /\ worker' = [worker EXCEPT ![w].siteIds = Without(req[r].todo[w], req[r].site)]
    BY DEF CascadeDetach, Cascading, HasRead
  <1>2. req[r].site \in Sites /\ req[r].todo[w] \in Lists
    BY <1>1, ClosingRequest, ToDoType
  <1>3. worker[w] \in Person /\ req[r].todo[w] = worker[w].siteIds
    BY <1>1 DEF ClosingInv, ClosingsKnow, CopiesCurrent, Versioned
  <1>4. PICK ids : ids = Without(req[r].todo[w], req[r].site)
    OBVIOUS
  <1>5. /\ ids \in Lists
        /\ \A i \in DOMAIN ids : /\ ids[i] # req[r].site
                                 /\ \E j \in DOMAIN worker[w].siteIds : worker[w].siteIds[j] = ids[i]
        /\ \A j \in DOMAIN worker[w].siteIds : worker[w].siteIds[j] # req[r].site =>
              \E i \in DOMAIN ids : ids[i] = worker[w].siteIds[j]
    BY <1>2, <1>3, <1>4, FilteredList
  <1>6. PICK e : e = [worker[w] EXCEPT !.siteIds = ids]
    OBVIOUS
  <1>7. e \in Person /\ e.status = worker[w].status /\ e.siteIds = ids
    BY <1>3, <1>5, <1>6 DEF Person
  <1>8. worker' = [worker EXCEPT ![w] = e]
    BY <1>1, <1>4, <1>6
  <1> QED BY <1>3, <1>5, <1>7, <1>8

LEMMA OneIsSentOff ==
    ASSUME ClosingInv, NEW r \in Requests, NEW w \in Workers, CascadeLeave(r, w)
    PROVE  \E e \in Person :
              /\ worker' = [worker EXCEPT ![w] = e]
              /\ worker[w] \in Person /\ e.status = req[r].fate /\ e.status \in Kinds
              /\ e.siteIds = worker[w].siteIds
  <1>1. /\ req[r].op = "close" /\ HasRead(req[r]) /\ w \in DOMAIN req[r].todo
        /\ worker' = [worker EXCEPT ![w].status = req[r].fate, ![w].left = TRUE]
    BY DEF CascadeLeave, Cascading, HasRead
  <1>2. req[r].fate \in Kinds
    BY <1>1, ClosingRequest DEF ClosingOf
  <1>3. worker[w] \in Person
    BY <1>1 DEF ClosingInv, ClosingsKnow, CopiesCurrent
  <1>4. PICK e : e = [worker[w] EXCEPT !.status = req[r].fate, !.left = TRUE]
    OBVIOUS
  <1>5. e \in Person /\ e.status = req[r].fate /\ e.siteIds = worker[w].siteIds
    BY <1>2, <1>3, <1>4 DEF Person, Kinds, Gone
  <1>6. worker' = [worker EXCEPT ![w] = e]
    BY <1>1, <1>4
  <1> QED BY <1>2, <1>3, <1>5, <1>6

-----------------------------------------------------------------------------
(* The rosters *)

LEMMA OneShrinks ==
    ASSUME ClosingInv, NEW w \in Workers, worker[w] \in Person, NEW e \in Person,
           worker' = [worker EXCEPT ![w] = e],
           e.status \in Roster => worker[w].status \in Roster,
           \A i \in DOMAIN e.siteIds : \E j \in DOMAIN worker[w].siteIds : worker[w].siteIds[j] = e.siteIds[i]
    PROVE  RostersShrink
  <1>1. worker'[w] = e /\ \A v \in Workers \ {w} : worker'[v] = worker[v]
    BY DEF ClosingInv, ClosingTypeOK
  <1>2. e # Null /\ worker[w] # Null
    BY PersonIsThere
  <1> SUFFICES ASSUME NEW v \in Workers
               PROVE  /\ worker[v] \in Person => worker'[v] \in Person
                      /\ OnRoster(v)' => OnRoster(v)
                      /\ \A s \in Sites : At(v, s)' => At(v, s)
    BY DEF RostersShrink
  <1>3. CASE v # w
    BY <1>1, <1>3 DEF OnRoster, At
  <1>4. CASE v = w
    BY <1>1, <1>2, <1>4 DEF OnRoster, At
  <1> QED BY <1>3, <1>4

LEMMA CascadesShrinkRosters ==
    ASSUME ClosingInv, NEW r \in Requests, NEW w \in Workers, CascadeDetach(r, w) \/ CascadeLeave(r, w)
    PROVE  RostersShrink
  <1>1. CASE CascadeDetach(r, w) /\ Versioned(r, w)
    BY <1>1, OneIsDetached, OneShrinks
  <1>2. CASE CascadeDetach(r, w) /\ ~ Versioned(r, w)
    BY <1>2 DEF CascadeDetach, RostersShrink, OnRoster, At
  <1>3. CASE CascadeLeave(r, w)
    BY <1>3, OneIsSentOff, OneShrinks DEF Kinds, Roster
  <1> QED BY <1>1, <1>2, <1>3

LEMMA NobodyShrinks ==
    ASSUME UNCHANGED worker
    PROVE  RostersShrink
  BY DEF RostersShrink, OnRoster, At

-----------------------------------------------------------------------------
(* What the closings know *)

LEMMA FindWorkersKeepsPromiseInv ==
    ASSUME PromiseInv, NEW r \in Requests, CascadeFindWorkers(r)
    PROVE  PromiseInv'
  <1>1. PICK todo : todo = [w \in {w \in Workers : OnRoster(w) /\ At(w, req[r].site)} |-> worker[w].siteIds]
    OBVIOUS
  <1>2. PICK q : q = [req[r] EXCEPT !.todo = todo, !.left = req[r].left \ {"workers"}]
    OBVIOUS
  <1>3. /\ req' = [req EXCEPT ![r] = q] /\ req[r].op = "close" /\ req[r].phase = "read" /\ UNCHANGED worker
    BY <1>1, <1>2 DEF CascadeFindWorkers, Continue
  <1>4. req[r] \in ClosingOf /\ KnowsElsewhere(req[r])
    BY <1>3, ClosingRequest DEF PromiseInv
  <1>5. /\ q.op = "close" /\ q.phase = "read" /\ q.todo = todo /\ q.site = req[r].site
        /\ q.others = req[r].others /\ ("sites" \notin q.left => "sites" \notin req[r].left)
    BY <1>2, <1>3, <1>4 DEF ClosingOf
  <1>6. \A w \in DOMAIN todo, s \in Sites : OnRoster(w) /\ At(w, s) => \E i \in DOMAIN todo[w] : todo[w][i] = s
    BY <1>1 DEF At
  <1>7. KnowsElsewhere(q)
    BY <1>3, <1>4, <1>5, <1>6 DEF KnowsElsewhere
  <1>8. KnowsElsewhere(q)'
    BY <1>3, <1>7 DEF KnowsElsewhere, OnRoster, At
  <1> QED BY <1>3, <1>8, OneKnows, NobodyShrinks, CascadeFindWorkersKeepsInv DEF PromiseInv

LEMMA FindSitesKeepsPromiseInv ==
    ASSUME PromiseInv, NEW r \in Requests, CascadeFindSites(r)
    PROVE  PromiseInv'
  <1>1. PICK others : others = {s \in Sites \ {req[r].site} : SiteIs(s, "active")}
    OBVIOUS
  <1>2. PICK q : q = [req[r] EXCEPT !.others = others, !.left = req[r].left \ {"sites"}]
    OBVIOUS
  <1>3. /\ req' = [req EXCEPT ![r] = q] /\ req[r].op = "close" /\ req[r].phase = "read" /\ UNCHANGED worker
    BY <1>1, <1>2 DEF CascadeFindSites, Continue
  <1>4. req[r] \in ClosingOf /\ KnowsElsewhere(req[r])
    BY <1>3, ClosingRequest DEF PromiseInv
  <1>5. /\ q.op = "close" /\ q.phase = "read" /\ q.others = others /\ q.site = req[r].site
        /\ q.todo = req[r].todo /\ ("workers" \notin q.left => "workers" \notin req[r].left)
    BY <1>2, <1>3, <1>4 DEF ClosingOf
  <1>6. /\ req[r].site \notin others /\ others \in SUBSET Sites
        /\ \A w \in Workers, s \in Sites \ {req[r].site} : OnRoster(w) /\ At(w, s) => s \in others
    BY <1>1 DEF PromiseInv, ClosingInv, RosterIsOpen
  <1>7. KnowsElsewhere(q)
    BY <1>3, <1>4, <1>5, <1>6 DEF KnowsElsewhere
  <1>8. KnowsElsewhere(q)'
    BY <1>3, <1>7 DEF KnowsElsewhere, OnRoster, At
  <1> QED BY <1>3, <1>8, OneKnows, NobodyShrinks, CascadeFindSitesKeepsInv DEF PromiseInv

\* The steps that read nothing: the next request of r, if it is in a cascade, has the same
\* lists, or some of them.
LEMMA CascadeStepKeepsPromiseInv ==
    ASSUME PromiseInv, ClosingInv', RostersShrink, NEW r \in Requests, NEW q,
           req' = [req EXCEPT ![r] = q],
           q.op = "close" /\ q.phase = "read" =>
               /\ req[r].op = "close" /\ req[r].phase = "read" /\ q.left = req[r].left
               /\ q.site = req[r].site /\ q.others = req[r].others
               /\ DOMAIN q.todo \subseteq DOMAIN req[r].todo
               /\ \A w \in DOMAIN q.todo : q.todo[w] = req[r].todo[w]
    PROVE  PromiseInv'
  <1>1. PICK p : p = req[r]
    OBVIOUS
  <1>2. KnowsElsewhere(p) /\ (p.op = "close" => p.todo \in ToDo)
    BY <1>1, ClosingRequest DEF PromiseInv
  <1>3. KnowsElsewhere(q)'
    BY <1>1, <1>2, KnowledgeLasts
  <1> QED BY <1>3, OneKnows

LEMMA PromiseInvStep ==
    ASSUME PromiseInv, ClosingNext
    PROVE  PromiseInv'
  <1>1. ClosingInv'
    BY ClosingInvStep DEF PromiseInv
  <1>2. ASSUME NEW r \in Requests, NEW s \in Sites, NEW to \in Kinds, NEW fate \in Kinds,
               CloseSiteRead(r, s, to, fate)
        PROVE  PromiseInv'
    <2>1. PICK q : q = [op |-> "close", phase |-> "read", site |-> s, to |-> to,
                        fate |-> IF to = "archived" THEN "archived" ELSE fate,
                        seen |-> site[s].status, todo |-> << >>, others |-> Null,
                        logged |-> Null, left |-> {"workers", "sites"}]
      OBVIOUS
    <2>2. req' = [req EXCEPT ![r] = q] /\ UNCHANGED worker
      BY <1>2, <2>1 DEF CloseSiteRead, Start
    <2>3. KnowsElsewhere(q)'
      BY <2>1 DEF KnowsElsewhere
    <2> QED BY <1>1, <2>2, <2>3, OneKnows, NobodyShrinks
  <1>3. ASSUME NEW r \in Requests, NEW w \in Workers, CascadeDetach(r, w) \/ CascadeLeave(r, w)
        PROVE  PromiseInv'
    <2>1. req[r] \in ClosingOf /\ req[r].op = "close"
      BY <1>3, ClosingRequest DEF CascadeDetach, CascadeLeave, Cascading, PromiseInv
    <2>2. PICK q : q = Done(req[r], w)
      OBVIOUS
    <2>3. /\ q.left = req[r].left /\ q.phase = req[r].phase /\ q.site = req[r].site /\ q.others = req[r].others
          /\ q.todo = [x \in DOMAIN req[r].todo \ {w} |-> req[r].todo[x]]
      BY <2>1, <2>2 DEF Done, ClosingOf
    <2>4. req' = [req EXCEPT ![r] = q] \/ req' = [req EXCEPT ![r] = Idle]
      BY <1>3, <2>2 DEF CascadeDetach, CascadeLeave, Continue, Finish
    <2>5. RostersShrink
      BY <1>3, CascadesShrinkRosters DEF PromiseInv
    <2> QED BY <1>1, <2>1, <2>3, <2>4, <2>5, CascadeStepKeepsPromiseInv, IdleIsNoClosing
  <1>4. ASSUME NEW r \in Requests, NEW w \in Workers, CascadeLog(r, w)
        PROVE  PromiseInv'
    <2>1. req[r] \in ClosingOf /\ req[r].op = "close"
      BY <1>4, ClosingRequest DEF CascadeLog, Cascading, PromiseInv
    <2>2. PICK q : q = [req[r] EXCEPT !.logged = w]
      OBVIOUS
    <2>3. /\ q.left = req[r].left /\ q.phase = req[r].phase /\ q.site = req[r].site /\ q.others = req[r].others
          /\ q.todo = req[r].todo
      BY <2>1, <2>2 DEF ClosingOf
    <2>4. req' = [req EXCEPT ![r] = q] /\ UNCHANGED worker
      BY <1>4, <2>2 DEF CascadeLog, Continue
    <2> QED BY <1>1, <2>1, <2>3, <2>4, NobodyShrinks, CascadeStepKeepsPromiseInv
  <1>5. ASSUME NEW r \in Requests, CloseSite(r)
        PROVE  PromiseInv'
    <2>1. PICK left : left = IF req[r].to = "deleted" THEN {"stations", "scopes", "log"} ELSE {"stations"}
      OBVIOUS
    <2>2. PICK q : q = [req[r] EXCEPT !.phase = "after", !.left = left]
      OBVIOUS
    <2>3. req[r] \in ClosingOf
      BY <1>5, ClosingRequest DEF CloseSite, Cascading, PromiseInv
    <2>4. q.phase = "after"
      BY <2>2, <2>3 DEF ClosingOf
    <2>5. req' = [req EXCEPT ![r] = q] /\ UNCHANGED worker
      BY <1>5, <2>1, <2>2 DEF CloseSite, Continue
    <2> QED BY <1>1, <2>4, <2>5, NobodyShrinks, CascadeStepKeepsPromiseInv
  <1>6. ASSUME NEW r \in Requests, NEW what \in {"stations", "scopes", "log"}, AfterClose(r, what)
        PROVE  PromiseInv'
    <2>1. PICK q : q = [req[r] EXCEPT !.left = req[r].left \ {what}]
      OBVIOUS
    <2>2. req[r] \in ClosingOf /\ req[r].phase = "after"
      BY <1>6, ClosingRequest DEF AfterClose, PromiseInv
    <2>3. q.phase = "after"
      BY <2>1, <2>2 DEF ClosingOf
    <2>4. (req' = [req EXCEPT ![r] = q] \/ req' = [req EXCEPT ![r] = Idle]) /\ UNCHANGED worker
      BY <1>6, <2>1 DEF AfterClose, Continue, Finish
    <2> QED BY <1>1, <2>3, <2>4, NobodyShrinks, CascadeStepKeepsPromiseInv, IdleIsNoClosing
  <1>7. CASE RestoringSites
    <2>1. PICK r \in Requests : (\E s \in Sites : RestoreSiteRead(r, s)) \/ RestoreSite(r) \/ RestoreStations(r)
      BY <1>7 DEF RestoringSites
    <2>2. PICK q : /\ req' = [req EXCEPT ![r] = q] /\ UNCHANGED worker
                   /\ q.op # "close"
      <3>1. CASE \E s \in Sites : RestoreSiteRead(r, s)
        <4>1. PICK s \in Sites : RestoreSiteRead(r, s)
          BY <3>1
        <4>2. PICK q : q = [op |-> "restoreSite", site |-> s, saved |-> FALSE]
          OBVIOUS
        <4>3. req' = [req EXCEPT ![r] = q] /\ UNCHANGED worker
          BY <4>1, <4>2 DEF RestoreSiteRead, Start
        <4>4. q.op # "close"
          BY <4>2
        <4> QED BY <4>3, <4>4
      <3>2. CASE RestoreSite(r)
        <4>1. PICK q : q = [req[r] EXCEPT !.saved = TRUE]
          OBVIOUS
        <4>2. req' = [req EXCEPT ![r] = q] /\ UNCHANGED worker /\ req[r].op = "restoreSite"
          BY <3>2, <4>1 DEF RestoreSite, Continue
        <4>3. q.op # "close"
          BY <4>1, <4>2, RestoringRequest DEF PromiseInv, RestoringOf
        <4> QED BY <4>2, <4>3
      <3>3. CASE RestoreStations(r)
        BY <3>3, IdleIsNoClosing DEF RestoreStations, Finish
      <3> QED BY <2>1, <3>1, <3>2, <3>3
    <2> QED BY <1>1, <2>2, NobodyShrinks, CascadeStepKeepsPromiseInv
  <1>8. CASE Crash
    <2>1. \A r \in Requests : req'[r].op # "close"
      BY <1>8, IdleIsNoClosing DEF Crash
    <2>2. \A r \in Requests : KnowsElsewhere(req[r])'
      BY <2>1 DEF KnowsElsewhere
    <2> QED BY <1>1, <2>2 DEF PromiseInv
  <1>9. ASSUME NEW r \in Requests, Cascade(r)
        PROVE  PromiseInv'
    BY <1>3, <1>4, <1>5, <1>6, <1>9, FindWorkersKeepsPromiseInv, FindSitesKeepsPromiseInv DEF Cascade
  <1> QED BY <1>2, <1>7, <1>8, <1>9 DEF ClosingNext, Closing

-----------------------------------------------------------------------------
(* What is seen of a step *)

SitesOf(p) == {s \in Sites : p.status \in Roster /\ \E i \in DOMAIN p.siteIds : p.siteIds[i] = s}

SeeingClosings == scenario = "closings" /\ scenario' = "closings"

LEMMA NobodyIsSeen ==
    ASSUME SeeingClosings, UNCHANGED worker
    PROVE  UNCHANGED <<Posts, DeletedPeople>>
  BY DEF SeeingClosings, Posts, DeletedPeople, Seen, OnRoster, At

LEMMA NoSiteIsSeen ==
    ASSUME SeeingClosings, UNCHANGED site
    PROVE  UNCHANGED OpenSites
  BY DEF SeeingClosings, OpenSites, Seen, SiteIs

LEMMA NoEntryIsSeen ==
    ASSUME SeeingClosings, UNCHANGED log
    PROVE  UNCHANGED RegisteredPeople
  BY DEF SeeingClosings, RegisteredPeople, Seen, OnRegister

LEMMA OneIsSeen ==
    ASSUME ClosingInv, SeeingClosings, NEW w \in Workers, worker[w] \in Person, NEW e \in Person,
           worker' = [worker EXCEPT ![w] = e]
    PROVE  /\ Posts[w] = SitesOf(worker[w])
           /\ Posts' = [Posts EXCEPT ![w] = SitesOf(e)]
           /\ DeletedPeople' = IF e.status = "deleted" THEN DeletedPeople \union {w} ELSE DeletedPeople \ {w}
  <1>1. /\ worker'[w] = e /\ \A v \in Workers \ {w} : worker'[v] = worker[v]
        /\ e # Null /\ worker[w] # Null
    BY PersonIsThere DEF ClosingInv, ClosingTypeOK
  <1>2. Posts[w] = SitesOf(worker[w])
    BY <1>1 DEF SeeingClosings, Posts, Seen, SitesOf, OnRoster, At
  <1>3. Posts' = [Posts EXCEPT ![w] = SitesOf(e)]
    <2>1. Posts'[w] = SitesOf(e)
      BY <1>1 DEF SeeingClosings, Posts, Seen, SitesOf, OnRoster, At
    <2>2. \A v \in Workers \ {w} : Posts'[v] = Posts[v]
      BY <1>1 DEF SeeingClosings, Posts, Seen, OnRoster, At
    <2>3. Posts = [v \in Workers |-> Posts[v]] /\ Posts' = [v \in Workers |-> Posts'[v]]
      BY DEF Posts
    <2> QED BY <2>1, <2>2, <2>3
  <1>4. DeletedPeople' = IF e.status = "deleted" THEN DeletedPeople \union {w} ELSE DeletedPeople \ {w}
    BY <1>1 DEF SeeingClosings, DeletedPeople, Seen
  <1> QED BY <1>2, <1>3, <1>4

-----------------------------------------------------------------------------
(* The steps of the promise *)

LEMMA NothingIsPromised ==
    ASSUME UNCHANGED <<OpenSites, Posts, DeletedPeople, RegisteredPeople>>
    PROVE  [Promise!Next]_(Promise!vars)
  BY DEF Promise!vars

LEMMA LookingKeepsPromise ==
    ASSUME SeeingClosings, UNCHANGED <<site, worker, log>>
    PROVE  [Promise!Next]_(Promise!vars)
  BY NobodyIsSeen, NoSiteIsSeen, NoEntryIsSeen, NothingIsPromised

LEMMA DetachKeepsPromise ==
    ASSUME PromiseInv, SeeingClosings, NEW r \in Requests, NEW w \in Workers, CascadeDetach(r, w)
    PROVE  [Promise!Next]_(Promise!vars)
  <1>1. /\ req[r].op = "close" /\ req[r].phase = "read" /\ req[r].left = {} /\ UNCHANGED <<site, log>>
        /\ w \in DOMAIN req[r].todo /\ StaysElsewhere(req[r], w)
    BY DEF CascadeDetach, Cascading
  <1>2. CASE ~ Versioned(r, w)
    BY <1>1, <1>2, LookingKeepsPromise DEF CascadeDetach
  <1>3. CASE Versioned(r, w)
    <2>1. PICK e \in Person :
            /\ worker' = [worker EXCEPT ![w] = e]
            /\ worker[w] \in Person /\ e.status = worker[w].status
            /\ \A i \in DOMAIN e.siteIds : /\ e.siteIds[i] # req[r].site
                                           /\ \E j \in DOMAIN worker[w].siteIds : worker[w].siteIds[j] = e.siteIds[i]
            /\ \A j \in DOMAIN worker[w].siteIds : worker[w].siteIds[j] # req[r].site =>
                  \E i \in DOMAIN e.siteIds : e.siteIds[i] = worker[w].siteIds[j]
      BY <1>3, OneIsDetached DEF PromiseInv
    <2>2. PICK s \in Sites : s = req[r].site
      BY <1>1, ClosingRequest DEF PromiseInv
    <2>3. SitesOf(e) = SitesOf(worker[w]) \ {s}
      BY <2>1, <2>2 DEF SitesOf
    <2>4. /\ Posts[w] = SitesOf(worker[w])
          /\ Posts' = [Posts EXCEPT ![w] = SitesOf(e)]
          /\ DeletedPeople' = IF e.status = "deleted" THEN DeletedPeople \union {w} ELSE DeletedPeople \ {w}
      BY <2>1, OneIsSeen DEF PromiseInv
    <2>5. UNCHANGED <<OpenSites, RegisteredPeople, DeletedPeople>>
      <3>1. w \in DeletedPeople <=> e.status = "deleted"
        BY <2>1, PersonIsThere DEF DeletedPeople, Seen, SeeingClosings
      <3> QED BY <1>1, <2>4, <3>1, NoSiteIsSeen, NoEntryIsSeen
    <2>6. CASE s \in Posts[w]
      <3>1. Posts[w] # {s}
        <4>1. PICK i \in DOMAIN req[r].todo[w] : req[r].todo[w][i] \in req[r].others
          BY <1>1 DEF StaysElsewhere
        <4>2. req[r].todo[w][i] \in Sites /\ req[r].todo[w][i] # s
          BY <1>1, <2>2, <4>1 DEF PromiseInv, KnowsElsewhere
        <4>3. req[r].todo[w] = worker[w].siteIds
          BY <1>1, <1>3 DEF PromiseInv, ClosingInv, ClosingsKnow, HasRead, CopiesCurrent, Versioned
        <4>4. worker[w].status \in Roster
          BY <2>4, <2>6 DEF SitesOf
        <4> QED BY <2>4, <4>1, <4>2, <4>3, <4>4 DEF SitesOf
      <3>2. Promise!Detach(w, s)
        BY <2>3, <2>4, <2>5, <2>6, <3>1 DEF Promise!Detach
      <3> QED BY <3>2 DEF Promise!Next
    <2>7. CASE s \notin Posts[w]
      <3>1. Posts' = Posts
        <4>1. SitesOf(e) = Posts[w]
          BY <2>3, <2>4, <2>7
        <4>2. Posts = [v \in Workers |-> Posts[v]]
          BY DEF Posts
        <4> QED BY <2>4, <4>1, <4>2
      <3> QED BY <2>5, <3>1, NothingIsPromised
    <2> QED BY <2>6, <2>7
  <1> QED BY <1>2, <1>3

LEMMA OneEntryMore ==
    ASSUME ClosingInv, NEW entry, log' = Append(log, entry)
    PROVE  \A kind, id : OnRegister(kind, id)' <=> OnRegister(kind, id) \/ entry = Entry(kind, id)
  <1>1. PICK n : n = Len(log) + 1
    OBVIOUS
  <1>2. /\ DOMAIN log' = DOMAIN log \union {n} /\ log'[n] = entry
        /\ \A i \in DOMAIN log : log'[i] = log[i]
    <2>1. Len(log) \in Nat /\ DOMAIN log = 1 .. Len(log) /\ DOMAIN log' = 1 .. n
      BY <1>1 DEF ClosingInv, ClosingTypeOK
    <2>2. log'[n] = entry /\ \A i \in DOMAIN log : log'[i] = log[i]
      BY <1>1 DEF ClosingInv, ClosingTypeOK
    <2>3. 1 .. n = 1 .. Len(log) \union {n}
      BY <1>1, <2>1
    <2> QED BY <2>1, <2>2, <2>3
  <1> QED BY <1>2 DEF OnRegister

LEMMA LogKeepsPromise ==
    ASSUME ClosingInv, SeeingClosings, NEW w \in Workers, log' = Append(log, Entry("worker", w)),
           UNCHANGED <<site, worker>>
    PROVE  [Promise!Next]_(Promise!vars)
  <1>1. UNCHANGED <<OpenSites, Posts, DeletedPeople>>
    BY NobodyIsSeen, NoSiteIsSeen
  <1>2. RegisteredPeople' = RegisteredPeople \union {w}
    <2>1. \A v \in Workers : Entry("worker", w) = Entry("worker", v) <=> v = w
      BY DEF Entry
    <2>2. \A v \in Workers : OnRegister("worker", v)' <=> OnRegister("worker", v) \/ v = w
      BY <2>1, OneEntryMore
    <2> QED BY <2>2 DEF RegisteredPeople, Seen, SeeingClosings
  <1>3. Promise!Register(w)
    BY <1>1, <1>2 DEF Promise!Register
  <1> QED BY <1>3 DEF Promise!Next

LEMMA LeaveKeepsPromise ==
    ASSUME PromiseInv, SeeingClosings, NEW r \in Requests, NEW w \in Workers, CascadeLeave(r, w)
    PROVE  [Promise!Next]_(Promise!vars)
  <1>1. /\ req[r].op = "close" /\ req[r].phase = "read" /\ req[r].left = {} /\ UNCHANGED <<site, log>>
        /\ w \in DOMAIN req[r].todo /\ ~ StaysElsewhere(req[r], w)
        /\ req[r].fate = "deleted" => req[r].logged = w
    BY DEF CascadeLeave, Cascading
  <1>2. PICK e \in Person :
          /\ worker' = [worker EXCEPT ![w] = e]
          /\ worker[w] \in Person /\ e.status = req[r].fate /\ e.status \in Kinds
      BY OneIsSentOff DEF PromiseInv
  <1>3. PICK s \in Sites : s = req[r].site
    BY <1>1, ClosingRequest DEF PromiseInv
  <1>4. /\ Posts[w] = SitesOf(worker[w])
        /\ Posts' = [Posts EXCEPT ![w] = SitesOf(e)]
        /\ DeletedPeople' = IF e.status = "deleted" THEN DeletedPeople \union {w} ELSE DeletedPeople \ {w}
    BY <1>2, OneIsSeen DEF PromiseInv
  <1>5. SitesOf(e) = {}
    BY <1>2 DEF SitesOf, Kinds, Roster
  <1>6. UNCHANGED <<OpenSites, RegisteredPeople>>
    BY <1>1, NoSiteIsSeen, NoEntryIsSeen
  <1>7. e.status = "deleted" => w \in RegisteredPeople
    BY <1>1, <1>2, ClosingRequest DEF PromiseInv, RegisteredPeople, Seen, SeeingClosings
  <1>8. Posts[w] \subseteq {s}
    <2> SUFFICES ASSUME NEW x \in Posts[w], x # s PROVE FALSE
      OBVIOUS
    <2>1. x \in Sites /\ OnRoster(w) /\ At(w, x)
      BY DEF Posts, Seen, SeeingClosings
    <2>2. x \in req[r].others /\ \E i \in DOMAIN req[r].todo[w] : req[r].todo[w][i] = x
      BY <1>1, <1>3, <2>1 DEF PromiseInv, KnowsElsewhere
    <2> QED BY <1>1, <2>2 DEF StaysElsewhere
  <1>9. Promise!SendOff(w, s)
    BY <1>4, <1>5, <1>6, <1>7, <1>8 DEF Promise!SendOff
  <1> QED BY <1>9 DEF Promise!Next

LEMMA SiteKeepsPromise ==
    ASSUME ClosingInv, SeeingClosings, NEW s \in Sites, site[s] \in SiteRecord,
           NEW status, site' = [site EXCEPT ![s].status = status], UNCHANGED <<worker, log>>,
           status # "active" => \A w \in Workers : ~ (OnRoster(w) /\ At(w, s))
    PROVE  [Promise!Next]_(Promise!vars)
  <1>1. UNCHANGED <<Posts, DeletedPeople, RegisteredPeople>>
    BY NobodyIsSeen, NoEntryIsSeen
  <1>2. PICK d : d = [site[s] EXCEPT !.status = status]
    OBVIOUS
  <1>3. site' = [site EXCEPT ![s] = d] /\ d.status = status
    BY <1>2 DEF SiteRecord
  <1>4. /\ site'[s] = d /\ \A x \in Sites \ {s} : site'[x] = site[x]
        /\ site[s] # Null
    BY <1>3, SiteIsThere DEF ClosingInv, ClosingTypeOK
  <1>5. CASE status = "active"
    <2>1. d \in SiteRecord
      BY <1>2, <1>5 DEF SiteRecord
    <2>2. d # Null
      BY <2>1, SiteIsThere
    <2>3. OpenSites' = OpenSites \union {s}
      BY <1>3, <1>4, <1>5, <2>2 DEF OpenSites, Seen, SeeingClosings, SiteIs
    <2>4. Promise!Reopen(s)
      BY <1>1, <2>3 DEF Promise!Reopen
    <2> QED BY <2>4 DEF Promise!Next
  <1>6. CASE status # "active"
    <2>1. OpenSites' = OpenSites \ {s}
      BY <1>3, <1>4, <1>6 DEF OpenSites, Seen, SeeingClosings, SiteIs
    <2>2. \A w \in Workers : s \notin Posts[w]
      BY <1>6 DEF Posts, Seen, SeeingClosings
    <2>3. Promise!Close(s)
      BY <1>1, <2>1, <2>2 DEF Promise!Close
    <2> QED BY <2>3 DEF Promise!Next
  <1> QED BY <1>5, <1>6

LEMMA CloseSiteKeepsPromise ==
    ASSUME PromiseInv, SeeingClosings, NEW r \in Requests, CloseSite(r)
    PROVE  [Promise!Next]_(Promise!vars)
  <1>1. /\ req[r].op = "close" /\ HasRead(req[r]) /\ DOMAIN req[r].todo = {} /\ UNCHANGED <<worker, log>>
        /\ site' = [site EXCEPT ![req[r].site].status = req[r].to] \/ site' = site
    BY DEF CloseSite, Cascading, HasRead
  <1>2. PICK s \in Sites : s = req[r].site /\ site[s] \in SiteRecord
    BY <1>1, ClosingRequest DEF PromiseInv
  <1>3. \A w \in Workers : ~ (OnRoster(w) /\ At(w, s))
    BY <1>1, <1>2 DEF PromiseInv, ClosingInv, ClosingsKnow, RosterKnown
  <1> QED BY <1>1, <1>2, <1>3, SiteKeepsPromise, LookingKeepsPromise DEF PromiseInv

LEMMA AfterCloseKeepsPromise ==
    ASSUME ClosingInv, SeeingClosings, NEW r \in Requests, NEW what, AfterClose(r, what)
    PROVE  [Promise!Next]_(Promise!vars)
  <1>1. /\ UNCHANGED <<site, worker>>
        /\ log' = log \/ \E s : log' = Append(log, Entry("site", s))
    BY DEF AfterClose, Append1
  <1>2. CASE log' = log
    BY <1>1, <1>2, LookingKeepsPromise
  <1>3. ASSUME NEW s, log' = Append(log, Entry("site", s))
        PROVE  UNCHANGED RegisteredPeople
    <2>1. \A v \in Workers : Entry("site", s) # Entry("worker", v)
      BY DEF Entry
    <2>2. \A v \in Workers : OnRegister("worker", v)' <=> OnRegister("worker", v)
      BY <1>3, <2>1, OneEntryMore
    <2> QED BY <2>2 DEF RegisteredPeople, Seen, SeeingClosings
  <1> QED BY <1>1, <1>2, <1>3, NobodyIsSeen, NoSiteIsSeen, NothingIsPromised

LEMMA ClosingsStepKeepsPromise ==
    ASSUME PromiseInv, SeeingClosings, ClosingNext
    PROVE  [Promise!Next]_(Promise!vars)
  <1>1. ASSUME NEW r \in Requests, Cascade(r)
        PROVE  [Promise!Next]_(Promise!vars)
    <2>1. CASE CascadeFindWorkers(r) \/ CascadeFindSites(r)
      BY <2>1, LookingKeepsPromise DEF CascadeFindWorkers, CascadeFindSites
    <2>2. ASSUME NEW w \in Workers, CascadeLog(r, w)
          PROVE  [Promise!Next]_(Promise!vars)
      BY <2>2, LogKeepsPromise DEF CascadeLog, Append1, PromiseInv
    <2> QED BY <1>1, <2>1, <2>2, DetachKeepsPromise, LeaveKeepsPromise, CloseSiteKeepsPromise,
               AfterCloseKeepsPromise DEF Cascade, PromiseInv
  <1>2. CASE Closing
    <2>1. ASSUME NEW r \in Requests, NEW s \in Sites, NEW to \in Kinds, NEW fate \in Kinds,
                 CloseSiteRead(r, s, to, fate)
          PROVE  [Promise!Next]_(Promise!vars)
      BY <2>1, LookingKeepsPromise DEF CloseSiteRead
    <2> QED BY <1>1, <1>2, <2>1 DEF Closing
  <1>3. CASE RestoringSites
    <2>1. PICK r \in Requests : (\E s \in Sites : RestoreSiteRead(r, s)) \/ RestoreSite(r) \/ RestoreStations(r)
      BY <1>3 DEF RestoringSites
    <2>2. CASE (\E s \in Sites : RestoreSiteRead(r, s)) \/ RestoreStations(r)
      BY <2>2, LookingKeepsPromise DEF RestoreSiteRead, RestoreStations
    <2>3. CASE RestoreSite(r)
      <3>1. /\ req[r].op = "restoreSite" /\ UNCHANGED <<worker, log>>
            /\ site' = [site EXCEPT ![req[r].site].status = "active"]
        BY <2>3 DEF RestoreSite
      <3>2. PICK s \in Sites : s = req[r].site /\ site[s] \in SiteRecord
        BY <3>1, RestoringRequest DEF PromiseInv
      <3> QED BY <3>1, <3>2, SiteKeepsPromise DEF PromiseInv
    <2> QED BY <2>1, <2>2, <2>3
  <1>4. CASE Crash
    BY <1>4, LookingKeepsPromise DEF Crash
  <1> QED BY <1>2, <1>3, <1>4 DEF ClosingNext

LEMMA OpenedKeepsPromise ==
    ASSUME NEW S \in SUBSET Sites, S # {}, NEW W \in SUBSET Workers, NEW N \in SUBSET Names, NEW A,
           Opened({FirstBranch}, S, W, N, A)
    PROVE  Promise!Init /\ \A r \in Requests : KnowsElsewhere(req[r])
  <1>1. ClosingInv
    BY OpenedIsSound, OfficeAssumption
  <1>2. log = << >> /\ req = [r \in Requests |-> Idle]
    BY DEF Opened
  <1>3. \A w \in Workers : worker[w] # Null => worker[w].status = "active"
    BY DEF Opened, NewWorker
  <1>4. OpenSites \in SUBSET Sites /\ Posts \in [Workers -> SUBSET OpenSites]
    <2>1. \A w \in Workers : Posts[w] \in SUBSET OpenSites
      BY <1>1 DEF Posts, OpenSites, Seen, ClosingInv, RosterIsOpen
    <2> QED BY <2>1 DEF Posts, OpenSites, Seen
  <1>5. DeletedPeople = {} /\ RegisteredPeople = {}
    BY <1>2, <1>3 DEF DeletedPeople, RegisteredPeople, Seen, OnRegister
  <1>6. \A r \in Requests : KnowsElsewhere(req[r])
    BY <1>2, IdleIsNoClosing DEF KnowsElsewhere
  <1> QED BY <1>4, <1>5, <1>6 DEF Promise!Init

LEMMA PromiseInvStutters ==
    ASSUME PromiseInv, UNCHANGED vars
    PROVE  PromiseInv'
  <1>1. ClosingInv'
    BY ClosingInvStutters DEF PromiseInv
  <1>2. \A r \in Requests : KnowsElsewhere(req[r])'
    BY DEF PromiseInv, KnowsElsewhere, OnRoster, At, vars
  <1> QED BY <1>1, <1>2 DEF PromiseInv

\* However many sites are closed side by side, restored, and wherever the process dies, the
\* closings keep what one of them promises: who has another active site is only detached, and
\* none but a sole-site employee is archived or deleted (org.ts:26-29).
THEOREM ClosingsDetachOrSendOff ==
    ClosingSpec /\ [](scenario = "closings") => ClosingsKeepPromise
  <1>1. (\E S \in SUBSET Sites, W \in SUBSET Workers :
            S # {} /\ Opened({FirstBranch}, S, W, Names, {})) => PromiseInv /\ Promise!Init
    BY OpenedIsSound, OpenedKeepsPromise, OfficeAssumption DEF PromiseInv
  <1>2. PromiseInv /\ [ClosingNext]_vars => PromiseInv'
    BY PromiseInvStep, PromiseInvStutters
  <1>3. PromiseInv /\ scenario = "closings" /\ (scenario = "closings")' /\ [ClosingNext]_vars
        => [Promise!Next]_(Promise!vars)
    BY ClosingsStepKeepsPromise, LookingKeepsPromise DEF SeeingClosings, vars
  <1> QED BY <1>1, <1>2, <1>3, PTL DEF ClosingSpec, ClosingsKeepPromise, Promise!Spec

\* The closings of the run implement SiteClosing.
THEOREM ClosingsOfTheRunKeepPromise == MCSpec => ClosingsKeepPromise
  <1>1. MCInit => (scenario = "closings" => PromiseInv) /\ Promise!Init
    <2> SUFFICES ASSUME MCInit PROVE (scenario = "closings" => PromiseInv) /\ Promise!Init
      OBVIOUS
    <2>1. CASE scenario = "closings"
      <3>1. OpenedWith(2, 2, {DefaultName}, FALSE)
        BY <2>1 DEF MCInit
      <3>2. PICK S \in kSubset(2, Sites), W \in kSubset(2, Workers) :
              Opened({FirstBranch}, S, W, {DefaultName}, {})
        BY <3>1 DEF OpenedWith
      <3>3. S \in SUBSET Sites /\ S # {} /\ W \in SUBSET Workers
        BY FS_EmptySet DEF kSubset
      <3> QED BY <3>2, <3>3, OpenedIsSound, OpenedKeepsPromise, OfficeAssumption DEF PromiseInv
    <2>2. CASE scenario # "closings"
      <3>1. OpenSites = {} /\ DeletedPeople = {} /\ RegisteredPeople = {} /\ Posts = [w \in Workers |-> {}]
        BY <2>2 DEF OpenSites, DeletedPeople, RegisteredPeople, Posts, Seen
      <3> QED BY <2>2, <3>1 DEF Promise!Init
    <2> QED BY <2>1, <2>2
  <1>2. (scenario = "closings" => PromiseInv) /\ [MCNext]_mcVars
        => (scenario = "closings" => PromiseInv)' /\ [Promise!Next]_(Promise!vars)
    <2> SUFFICES ASSUME scenario = "closings" => PromiseInv, [MCNext]_mcVars
                 PROVE  (scenario' = "closings" => PromiseInv') /\ [Promise!Next]_(Promise!vars)
      OBVIOUS
    <2>1. scenario' = scenario
      BY DEF MCNext, mcVars
    <2>2. CASE scenario = "closings"
      <3>1. CASE UNCHANGED mcVars
        BY <2>1, <2>2, <3>1, PromiseInvStutters, LookingKeepsPromise DEF SeeingClosings, mcVars, allVars, vars
      <3>2. CASE MCNext
        <4>1. ClosingNext
          BY <2>2, <3>2 DEF MCNext, Closings, Deletions, Answers, Office, ClosingNext
        <4> QED BY <2>1, <2>2, <4>1, PromiseInvStep, ClosingsStepKeepsPromise DEF SeeingClosings
      <3> QED BY <3>1, <3>2
    <2>3. CASE scenario # "closings"
      <3>1. UNCHANGED <<OpenSites, Posts, DeletedPeople, RegisteredPeople>>
        BY <2>1, <2>3 DEF OpenSites, DeletedPeople, RegisteredPeople, Posts, Seen
      <3> QED BY <2>1, <2>3, <3>1, NothingIsPromised
    <2> QED BY <2>2, <2>3
  <1> QED BY <1>1, <1>2, PTL DEF MCSpec, ClosingsKeepPromise, Promise!Spec

-----------------------------------------------------------------------------
(* Requests about employees *)

AskRecord ==
    [type : {"scheduled_ot", "offload"}, status : {"pending", "recommended"} \union Decided,
     worker : Workers, site : Sites, recommended : BOOLEAN]

RecommendingOf == [op : {"recommend"}, ask : Asks]
DecidingOf     == [op : {"decide"}, ask : Asks, outcome : Decided, saved : BOOLEAN]
StationingOf   == [op : {"station"}, station : Stations, site : Sites]

AsksTypeOK ==
    /\ worker \in [Workers -> Person \union {Null}]
    /\ ask \in [Asks -> AskRecord \union {Null}]
    /\ req \in [Requests -> {Idle} \union RecommendingOf \union DecidingOf \union StationingOf]

\* A request is about an employee, and whoever answers it has found it.
AsksAreAboutSomebody ==
    /\ \A a \in Asks : ask[a] \in AskRecord => worker[ask[a].worker] \in Person
    /\ \A r \in Requests : req[r].op \in {"recommend", "decide"} => ask[req[r].ask] \in AskRecord

\* The employee of an approved offload is not active, or somebody has saved the approval
\* and is about to see to it.
OffloadIsUnderWay ==
    \A a \in Asks : ask[a] \in AskRecord /\ ask[a].type = "offload" /\ ask[a].status = "approved" =>
        \/ worker[ask[a].worker].status # "active"
        \/ \E r \in Requests : req[r].op = "decide" /\ req[r].ask = a /\ req[r].saved

\* The inductive invariant of the requests about employees.
AsksInv == AsksTypeOK /\ EverybodyHasASite /\ AsksAreAboutSomebody /\ OffloadIsUnderWay

LEMMA AskRequests ==
    ASSUME AsksInv, NEW r \in Requests
    PROVE  /\ req[r].op = "recommend" => req[r] \in RecommendingOf
           /\ req[r].op = "decide" => req[r] \in DecidingOf
           /\ req[r].op \in {"recommend", "decide"} =>
                 req[r].ask \in Asks /\ ask[req[r].ask] \in AskRecord
           /\ Idle.op \notin {"recommend", "decide"}
  <1>1. req[r] \in {Idle} \union RecommendingOf \union DecidingOf \union StationingOf
    BY DEF AsksInv, AsksTypeOK
  <1> QED BY <1>1 DEF AsksInv, AsksAreAboutSomebody, Idle, RecommendingOf, DecidingOf, StationingOf

\* A step of one request that changes no employee and no request document.
LEMMA AskingOnlyLooks ==
    ASSUME AsksInv, NEW r \in Requests,
           NEW nq \in {Idle} \union RecommendingOf \union DecidingOf \union StationingOf,
           req' = [req EXCEPT ![r] = nq], UNCHANGED <<worker, ask>>,
           nq.op \in {"recommend", "decide"} => ask[nq.ask] \in AskRecord,
           ~ (req[r].op = "decide" /\ req[r].saved)
    PROVE  AsksInv'
  <1>1. req'[r] = nq /\ \A q \in Requests \ {r} : req'[q] = req[q]
    BY DEF AsksInv, AsksTypeOK
  <1>2. AsksTypeOK'
    BY DEF AsksInv, AsksTypeOK
  <1>3. EverybodyHasASite' /\ AsksAreAboutSomebody'
    BY <1>1 DEF AsksInv, EverybodyHasASite, AsksAreAboutSomebody, SiteId
  <1>4. OffloadIsUnderWay'
    BY <1>1 DEF AsksInv, OffloadIsUnderWay
  <1> QED BY <1>2, <1>3, <1>4 DEF AsksInv

LEMMA ReadingKeepsAsksInv ==
    ASSUME AsksInv, NEW r \in Requests,
           \/ \E u \in Actors, a \in Asks : RecommendRead(r, u, a)
           \/ \E a \in Asks, outcome \in Decided : DecideRead(r, a, outcome)
           \/ \E t \in Stations, s \in Sites : RegisterStationRead(r, t, s) /\ UNCHANGED ask
           \/ RegisterStation(r) /\ UNCHANGED ask
    PROVE  AsksInv'
  <1>1. ASSUME NEW u \in Actors, NEW a \in Asks, RecommendRead(r, u, a)
        PROVE  AsksInv'
    <2>1. ask[a] \in AskRecord
      BY <1>1 DEF RecommendRead, AsksInv, AsksTypeOK
    <2> QED BY <1>1, <2>1, AskRequests, AskingOnlyLooks DEF RecommendRead, Start, RecommendingOf
  <1>2. ASSUME NEW a \in Asks, NEW outcome \in Decided, DecideRead(r, a, outcome)
        PROVE  AsksInv'
    <2>1. ask[a] \in AskRecord
      BY <1>2 DEF DecideRead, AsksInv, AsksTypeOK
    <2> QED BY <1>2, <2>1, AskRequests, AskingOnlyLooks DEF DecideRead, Start, DecidingOf
  <1>3. ASSUME NEW t \in Stations, NEW s \in Sites, RegisterStationRead(r, t, s), UNCHANGED ask
        PROVE  AsksInv'
    BY <1>3, AskRequests, AskingOnlyLooks DEF RegisterStationRead, Start, StationingOf
  <1>4. ASSUME RegisterStation(r), UNCHANGED ask
        PROVE  AsksInv'
    BY <1>4, AskRequests, AskingOnlyLooks DEF RegisterStation, Finish
  <1> QED BY <1>1, <1>2, <1>3, <1>4

LEMMA CreateAskKeepsInv ==
    ASSUME AsksInv, NEW u \in Actors, NEW a \in Asks, NEW type \in {"scheduled_ot", "offload"},
           NEW w \in Workers, CreateAsk(u, a, type, w)
    PROVE  AsksInv'
  <1> DEFINE new == NewAsk(type, w)
  <1>1. /\ ask' = [ask EXCEPT ![a] = new] /\ UNCHANGED <<worker, req>>
        /\ worker[w] \in Person /\ ask[a] = Null
    BY DEF CreateAsk, CanUseWorker, vars, AsksInv, AsksTypeOK
  <1>2. new \in AskRecord /\ new.status = "pending" /\ new.worker = w
    BY <1>1 DEF NewAsk, AskRecord, AsksInv, EverybodyHasASite
  <1> HIDE DEF new
  <1>3. ask'[a] = new /\ \A b \in Asks \ {a} : ask'[b] = ask[b]
    BY <1>1 DEF AsksInv, AsksTypeOK
  <1>4. AsksTypeOK' /\ EverybodyHasASite'
    BY <1>1, <1>2 DEF AsksInv, AsksTypeOK, EverybodyHasASite, SiteId
  <1>5. AsksAreAboutSomebody'
    <2>1. \A b \in Asks : ask'[b] \in AskRecord => worker'[ask'[b].worker] \in Person
      BY <1>1, <1>2, <1>3 DEF AsksInv, AsksAreAboutSomebody
    <2>2. \A r \in Requests : req[r].op \in {"recommend", "decide"} =>
            req[r].ask \in Asks /\ ask[req[r].ask] \in AskRecord
      BY AskRequests
    <2>3. \A b \in Asks : ask[b] \in AskRecord => ask'[b] \in AskRecord
      BY <1>2, <1>3
    <2> QED BY <1>1, <2>1, <2>2, <2>3 DEF AsksAreAboutSomebody
  <1>6. OffloadIsUnderWay'
    BY <1>1, <1>2, <1>3 DEF AsksInv, OffloadIsUnderWay
  <1> QED BY <1>4, <1>5, <1>6 DEF AsksInv

\* An answer is saved: on its own, or as an approval that is still to take effect.
LEMMA AnswerKeepsInv ==
    ASSUME AsksInv, NEW r \in Requests, req[r].op \in {"recommend", "decide"},
           ~ (req[r].op = "decide" /\ req[r].saved),
           NEW d \in AskRecord, ask' = [ask EXCEPT ![req[r].ask] = d], worker' = worker,
           d.type = ask[req[r].ask].type, d.worker = ask[req[r].ask].worker,
           NEW nq \in {Idle} \union DecidingOf, req' = [req EXCEPT ![r] = nq],
           nq # Idle => nq.ask = req[r].ask /\ nq.saved,
           d.type = "offload" /\ d.status = "approved" => nq # Idle
    PROVE  AsksInv'
  <1>1. req[r].ask \in Asks /\ ask[req[r].ask] \in AskRecord
    BY AskRequests
  <1>2. /\ ask'[req[r].ask] = d /\ \A b \in Asks \ {req[r].ask} : ask'[b] = ask[b]
        /\ req'[r] = nq /\ \A q \in Requests \ {r} : req'[q] = req[q]
        /\ nq # Idle => nq.op = "decide"
    BY <1>1 DEF AsksInv, AsksTypeOK, DecidingOf
  <1>3. AsksTypeOK' /\ EverybodyHasASite'
    BY <1>1 DEF AsksInv, AsksTypeOK, EverybodyHasASite, SiteId
  <1>4. AsksAreAboutSomebody'
    <2>1. \A b \in Asks : ask'[b] \in AskRecord => worker'[ask'[b].worker] \in Person
      BY <1>1, <1>2 DEF AsksInv, AsksAreAboutSomebody
    <2>2. \A q \in Requests : req[q].op \in {"recommend", "decide"} =>
            req[q].ask \in Asks /\ ask[req[q].ask] \in AskRecord
      BY AskRequests
    <2>3. \A b \in Asks : ask[b] \in AskRecord => ask'[b] \in AskRecord
      BY <1>2
    <2>4. \A q \in Requests : req'[q].op \in {"recommend", "decide"} => ask'[req'[q].ask] \in AskRecord
      BY <1>1, <1>2, <2>2, <2>3 DEF Idle
    <2> QED BY <2>1, <2>4 DEF AsksAreAboutSomebody
  <1>5. OffloadIsUnderWay'
    <2> SUFFICES ASSUME NEW a \in Asks, ask'[a] \in AskRecord, ask'[a].type = "offload",
                        ask'[a].status = "approved"
                 PROVE  \/ worker'[ask'[a].worker].status # "active"
                        \/ \E q \in Requests : req'[q].op = "decide" /\ req'[q].ask = a /\ req'[q].saved
      BY DEF OffloadIsUnderWay
    <2>1. CASE a = req[r].ask
      BY <1>2, <2>1
    <2>2. CASE a # req[r].ask
      BY <1>2, <2>2 DEF AsksInv, OffloadIsUnderWay
    <2> QED BY <2>1, <2>2
  <1> QED BY <1>3, <1>4, <1>5 DEF AsksInv

LEMMA RecommendSaveKeepsInv ==
    ASSUME AsksInv, NEW r \in Requests, RecommendSave(r)
    PROVE  AsksInv'
  <1> DEFINE d == [ask[req[r].ask] EXCEPT !.status = "recommended", !.recommended = TRUE]
  <1>1. /\ req[r].op = "recommend" /\ ask' = [ask EXCEPT ![req[r].ask] = d]
        /\ worker' = worker /\ req' = [req EXCEPT ![r] = Idle]
    BY DEF RecommendSave, Finish
  <1>2. ask[req[r].ask] \in AskRecord
    BY <1>1, AskRequests
  <1>3. /\ d \in AskRecord /\ d.type = ask[req[r].ask].type /\ d.worker = ask[req[r].ask].worker
        /\ d.status = "recommended"
    BY <1>2 DEF AskRecord
  <1> HIDE DEF d
  <1>4. PICK new : new = d
    OBVIOUS
  <1> QED BY <1>1, <1>3, <1>4, AnswerKeepsInv

LEMMA DecideSaveKeepsInv ==
    ASSUME AsksInv, NEW r \in Requests, DecideSave(r)
    PROVE  AsksInv'
  <1> DEFINE d == [ask[req[r].ask] EXCEPT !.status = req[r].outcome]
             q == [req[r] EXCEPT !.saved = TRUE]
  <1>1. /\ req[r].op = "decide" /\ ~ req[r].saved /\ ask' = [ask EXCEPT ![req[r].ask] = d]
        /\ worker' = worker
        /\ \/ Deactivates(req[r].ask, req[r].outcome) /\ req' = [req EXCEPT ![r] = q]
           \/ ~ Deactivates(req[r].ask, req[r].outcome) /\ req' = [req EXCEPT ![r] = Idle]
    BY DEF DecideSave, Finish, Continue
  <1>2. ask[req[r].ask] \in AskRecord /\ req[r] \in DecidingOf
    BY <1>1, AskRequests
  <1>3. /\ d \in AskRecord /\ d.type = ask[req[r].ask].type /\ d.worker = ask[req[r].ask].worker
        /\ d.status = req[r].outcome
    BY <1>2 DEF AskRecord, DecidingOf
  <1>4. q \in DecidingOf /\ q.ask = req[r].ask /\ q.saved /\ q # Idle
    BY <1>2 DEF DecidingOf, Idle
  <1>5. d.type = "offload" /\ d.status = "approved" => Deactivates(req[r].ask, req[r].outcome)
    BY <1>3 DEF Deactivates
  <1> HIDE DEF d, q
  <1>6. PICK new, nq : new = d /\ nq = q
    OBVIOUS
  <1> QED BY <1>1, <1>3, <1>4, <1>5, <1>6, AnswerKeepsInv

LEMMA OffloadKeepsInv ==
    ASSUME AsksInv, NEW r \in Requests, Offload(r)
    PROVE  AsksInv'
  <1> DEFINE w == ask[req[r].ask].worker
             e == [worker[w] EXCEPT !.status = "inactive"]
  <1>1. /\ req[r].op = "decide" /\ worker' = [worker EXCEPT ![w] = e] /\ ask' = ask
        /\ req' = [req EXCEPT ![r] = Idle]
    BY DEF Offload, Finish
  <1>2. ask[req[r].ask] \in AskRecord /\ worker[w] \in Person /\ w \in Workers /\ req[r].ask \in Asks
    BY <1>1, AskRequests DEF AsksInv, AsksAreAboutSomebody, AskRecord
  <1>3. e \in Person /\ e.status = "inactive" /\ e.siteIds = worker[w].siteIds
    BY <1>2 DEF Person, Roster
  <1> HIDE DEF e
  <1>4. /\ worker' \in [Workers -> Person \union {Null}] /\ worker'[w] = e
        /\ \A v \in Workers \ {w} : worker'[v] = worker[v]
        /\ req'[r] = Idle /\ \A q \in Requests \ {r} : req'[q] = req[q]
    BY <1>1, <1>2, <1>3 DEF AsksInv, AsksTypeOK
  <1>5. AsksTypeOK'
    BY <1>1, <1>4 DEF AsksInv, AsksTypeOK
  <1>6. EverybodyHasASite'
    BY <1>2, <1>3, <1>4 DEF AsksInv, EverybodyHasASite, SiteId
  <1>7. AsksAreAboutSomebody'
    BY <1>1, <1>2, <1>3, <1>4 DEF AsksInv, AsksAreAboutSomebody, AskRecord, Idle
  <1>8. OffloadIsUnderWay'
    <2> SUFFICES ASSUME NEW a \in Asks, ask[a] \in AskRecord, ask[a].type = "offload",
                        ask[a].status = "approved", worker'[ask[a].worker].status = "active"
                 PROVE  \E q \in Requests : req'[q].op = "decide" /\ req'[q].ask = a /\ req'[q].saved
      BY <1>1 DEF OffloadIsUnderWay
    <2>1. ask[a].worker \in Workers \ {w}
      BY <1>3, <1>4 DEF AskRecord
    <2>2. PICK q \in Requests : req[q].op = "decide" /\ req[q].ask = a /\ req[q].saved
      BY <1>4, <2>1 DEF AsksInv, OffloadIsUnderWay
    <2>3. q # r
      BY <2>1, <2>2
    <2> QED BY <1>4, <2>2, <2>3
  <1> QED BY <1>5, <1>6, <1>7, <1>8 DEF AsksInv

\* What the run's scenario does, for any office: requests raised and answered by any
\* number of people at once, and stations registered, switched and taken down.
AskingNext == Asking \/ (\E r \in Requests : Answering(r)) \/ (Stationing /\ UNCHANGED ask)

LEMMA AsksInvStutters ==
    ASSUME AsksInv, UNCHANGED <<worker, ask, req>>
    PROVE  AsksInv'
  BY DEF AsksInv, AsksTypeOK, EverybodyHasASite, SiteId, AsksAreAboutSomebody, OffloadIsUnderWay

LEMMA AsksInvStep ==
    ASSUME AsksInv, AskingNext
    PROVE  AsksInv'
  <1>1. CASE Asking
    BY <1>1, CreateAskKeepsInv, ReadingKeepsAsksInv DEF Asking
  <1>2. CASE \E r \in Requests : Answering(r)
    BY <1>2, RecommendSaveKeepsInv, DecideSaveKeepsInv, OffloadKeepsInv DEF Answering
  <1>3. CASE Stationing /\ UNCHANGED ask
    <2>1. ASSUME NEW t \in Stations, ToggleStation(t) \/ DeleteStation(t), UNCHANGED ask
          PROVE  AsksInv'
      BY <2>1, AsksInvStutters DEF ToggleStation, DeleteStation
    <2> QED BY <1>3, <2>1, ReadingKeepsAsksInv DEF Stationing
  <1> QED BY <1>1, <1>2, <1>3 DEF AskingNext

LEMMA AsksInvInit ==
    ASSUME NEW S \in SUBSET Sites, S # {}, NEW W \in SUBSET Workers, NEW N \in SUBSET Names, NEW A,
           Opened({FirstBranch}, S, W, N, A), ask = [a \in Asks |-> Null]
    PROVE  AsksInv
  <1>1. ClosingInv /\ EverybodyHasASite
    BY OpenedIsSound, OfficeAssumption
  <1>2. req = [r \in Requests |-> Idle]
    BY DEF Opened
  <1>3. AsksTypeOK
    BY <1>1, <1>2 DEF ClosingInv, ClosingTypeOK, AsksTypeOK
  <1>4. \A a \in Asks : ask[a] \notin AskRecord
    BY OfficeAssumption DEF AskRecord, Decided
  <1> QED BY <1>1, <1>2, <1>3, <1>4 DEF AsksInv, AsksAreAboutSomebody, OffloadIsUnderWay, Idle

LEMMA OffloadsAreDone ==
    ASSUME AsksInv, Quiet, NEW a \in Asks, ask[a] # Null, ask[a].type = "offload",
           ask[a].status = "approved"
    PROVE  worker[ask[a].worker].status # "active"
  <1>1. ask[a] \in AskRecord
    BY DEF AsksInv, AsksTypeOK
  <1> QED BY <1>1 DEF AsksInv, OffloadIsUnderWay, Quiet, Idle

AskingSpec ==
    /\ \E S \in SUBSET Sites, W \in SUBSET Workers, A \in SUBSET Sites :
          S # {} /\ Opened({FirstBranch}, S, W, Names, A)
    /\ ask = [a \in Asks |-> Null]
    /\ [][AskingNext]_allVars

\* Whoever recommends, decides and decides again at the same time: once everybody is
\* done, no employee of an approved offload is active (requests.ts:195).
THEOREM OffloadsTakeEffect ==
    AskingSpec => [](Quiet => \A a \in Asks :
                        ask[a] # Null /\ ask[a].type = "offload" /\ ask[a].status = "approved"
                        => worker[ask[a].worker].status # "active")
  <1>1. (\E S \in SUBSET Sites, W \in SUBSET Workers, A \in SUBSET Sites :
            S # {} /\ Opened({FirstBranch}, S, W, Names, A)) /\ ask = [a \in Asks |-> Null] => AsksInv
    BY AsksInvInit
  <1>2. AsksInv /\ [AskingNext]_allVars => AsksInv'
    BY AsksInvStep, AsksInvStutters DEF allVars, vars
  <1>3. AsksInv => (Quiet => \A a \in Asks :
                        ask[a] # Null /\ ask[a].type = "offload" /\ ask[a].status = "approved"
                        => worker[ask[a].worker].status # "active")
    BY OffloadsAreDone
  <1> QED BY <1>1, <1>2, <1>3, PTL DEF AskingSpec

\* The offloads of the run take effect (requests.ts:195).
THEOREM OffloadsOfTheRunTakeEffect == MCSpec => []OffloadTakesEffect
  <1>1. MCInit => (scenario = "requests" => AsksInv)
    <2> SUFFICES ASSUME MCInit, scenario = "requests" PROVE AsksInv
      OBVIOUS
    <2>1. PICK S \in kSubset(1, Sites), W \in kSubset(2, Workers) :
            Opened({FirstBranch}, S, W, {DefaultName}, S)
      BY DEF MCInit, OpenedWith
    <2>2. S \in SUBSET Sites /\ S # {} /\ W \in SUBSET Workers
      BY FS_EmptySet DEF kSubset
    <2> QED BY <2>1, <2>2, AsksInvInit, OfficeAssumption DEF MCInit
  <1>2. (scenario = "requests" => AsksInv) /\ [MCNext]_mcVars => (scenario = "requests" => AsksInv)'
    <2> SUFFICES ASSUME scenario = "requests" => AsksInv, [MCNext]_mcVars, scenario' = "requests"
                 PROVE  AsksInv'
      OBVIOUS
    <2>1. CASE UNCHANGED mcVars
      BY <2>1, AsksInvStutters DEF mcVars, allVars, vars
    <2>2. CASE MCNext
      BY <2>2, AsksInvStep DEF MCNext, Closings, Deletions, Answers, Office, AskingNext
    <2> QED BY <2>1, <2>2
  <1>3. (scenario = "requests" => AsksInv) => OffloadTakesEffect
    BY OffloadsAreDone DEF OffloadTakesEffect
  <1> QED BY <1>1, <1>2, <1>3, PTL DEF MCSpec

-----------------------------------------------------------------------------
(* Leaving dates, while sites are closed, employees deleted and deletions undone *)

UndoingOf == [op : {"undo"}, entry : Nat, phase : {"entry", "record", "saved"}]
LeavingOf == [op : {"leave"}, worker : Workers, copy : Person, to : Gone, saved : BOOLEAN]

Registered == [kind : {"worker"}, id : Workers, undone : BOOLEAN]
              \union [kind : {"site"}, id : Sites, undone : BOOLEAN]

LeavingTypeOK ==
    /\ worker \in [Workers -> Person \union {Null}]
    /\ log \in Seq(Registered)
    /\ req \in [Requests -> InFlight \union UndoingOf \union LeavingOf]

\* What a request has to know: the employees it will save are there, one it read as gone
\* is gone, and the entry it undoes is on the register.
Knows(q) ==
    /\ q.op = "close" => \A w \in DOMAIN q.todo : worker[w] \in Person
    /\ q.op = "leave" => /\ worker[q.worker] \in Person
                         /\ q.copy.status \in Gone => worker[q.worker].status \in Gone
    /\ q.op = "undo" => q.entry \in DOMAIN log

EntriesNamePeople == \A e \in DOMAIN log : log[e].kind = "worker" => worker[log[e].id] \in Person

\* Who is on the roster has no leaving date.
RosterHasNotLeft == \A w \in Workers : OnRoster(w) => ~ worker[w].left

\* The inductive invariant of the leaving dates.
LeavingInv ==
    /\ LeavingTypeOK
    /\ \A r \in Requests : Knows(req[r])
    /\ EntriesNamePeople
    /\ RosterHasNotLeft

\* Nobody comes back on the roster, or is there with a leaving date.
NobodyReturns ==
    \A w \in Workers :
        /\ worker[w] \in Person => worker'[w] \in Person
        /\ worker[w] \in Person /\ worker[w].status \in Gone => worker'[w].status \in Gone
        /\ OnRoster(w)' => ~ worker'[w].left

\* The register loses no entry, and a new one is of somebody.
RegisterKept ==
    /\ log' \in Seq(Registered) /\ DOMAIN log \subseteq DOMAIN log'
    /\ \A e \in DOMAIN log : log'[e].kind = log[e].kind /\ log'[e].id = log[e].id
    /\ \A e \in DOMAIN log' \ DOMAIN log : log'[e].kind = "worker" => worker[log'[e].id] \in Person

LEMMA RequestKinds ==
    ASSUME LeavingInv, NEW r \in Requests
    PROVE  /\ req[r].op = "close" => req[r] \in ClosingOf
           /\ req[r].op = "leave" => req[r] \in LeavingOf
           /\ req[r].op = "undo" => req[r] \in UndoingOf
           /\ req[r].op = "restoreSite" => req[r] \in RestoringOf
           /\ Idle.op \notin {"close", "leave", "undo", "restoreSite"}
  <1>1. req[r] \in InFlight \union UndoingOf \union LeavingOf
    BY DEF LeavingInv, LeavingTypeOK
  <1> QED BY <1>1 DEF InFlight, Idle, RestoringOf, ClosingOf, UndoingOf, LeavingOf

LEMMA RegisterNames ==
    ASSUME LeavingInv, NEW e \in DOMAIN log
    PROVE  /\ log[e] \in Registered
           /\ log[e].kind = "worker" => log[e].id \in Workers /\ worker[log[e].id] \in Person
  <1>1. log[e] \in Registered
    BY DEF LeavingInv, LeavingTypeOK
  <1> QED BY <1>1 DEF LeavingInv, EntriesNamePeople, Registered

\* One request goes on.
LEMMA OneMovesOn ==
    ASSUME LeavingInv, NEW r \in Requests, NEW nq \in InFlight \union UndoingOf \union LeavingOf,
           req' = [req EXCEPT ![r] = nq], worker' \in [Workers -> Person \union {Null}],
           NobodyReturns, RegisterKept, Knows(nq)'
    PROVE  LeavingInv'
  <1>1. req'[r] = nq /\ \A q \in Requests \ {r} : req'[q] = req[q]
    BY DEF LeavingInv, LeavingTypeOK
  <1>2. LeavingTypeOK'
    BY DEF LeavingInv, LeavingTypeOK, RegisterKept
  <1>3. ASSUME NEW q \in Requests \ {r}
        PROVE  Knows(req[q])'
    <2>1. Knows(req[q]) /\ req'[q] = req[q]
      BY <1>1 DEF LeavingInv
    <2>2. req[q].op = "close" => \A w \in DOMAIN req[q].todo : w \in Workers
      <3>1. req[q].op = "close" => req[q].todo \in ToDo
        BY RequestKinds DEF ClosingOf
      <3> QED BY <3>1, ToDoType
    <2>3. req[q].op = "leave" => req[q].worker \in Workers
      BY RequestKinds DEF LeavingOf
    <2> QED BY <2>1, <2>2, <2>3 DEF Knows, NobodyReturns, RegisterKept
  <1>4. \A q \in Requests : Knows(req[q])'
    BY <1>1, <1>3
  <1>5. EntriesNamePeople'
    <2> SUFFICES ASSUME NEW e \in DOMAIN log', log'[e].kind = "worker"
                 PROVE  worker'[log'[e].id] \in Person
      BY DEF EntriesNamePeople
    <2>1. log'[e] \in Registered /\ log'[e].id \in Workers
      BY DEF RegisterKept, Registered
    <2>2. worker[log'[e].id] \in Person
      BY DEF RegisterKept, LeavingInv, EntriesNamePeople
    <2> QED BY <2>1, <2>2 DEF NobodyReturns
  <1>6. RosterHasNotLeft'
    BY DEF NobodyReturns, RosterHasNotLeft
  <1> QED BY <1>2, <1>4, <1>5, <1>6 DEF LeavingInv

\* A step that writes neither an employee nor the register.
LEMMA OneLooksOn ==
    ASSUME LeavingInv, NEW r \in Requests, NEW nq \in InFlight \union UndoingOf \union LeavingOf,
           req' = [req EXCEPT ![r] = nq], UNCHANGED <<worker, log>>, Knows(nq)'
    PROVE  LeavingInv'
  <1>1. NobodyReturns
    BY DEF LeavingInv, RosterHasNotLeft, NobodyReturns, OnRoster
  <1>2. RegisterKept
    BY DEF LeavingInv, LeavingTypeOK, RegisterKept
  <1> QED BY <1>1, <1>2, OneMovesOn DEF LeavingInv, LeavingTypeOK

LEMMA LeavingPerson ==
    ASSUME LeavingInv, NEW w \in Workers
    PROVE  /\ worker[w] # Null => worker[w] \in Person
           /\ OnRoster(w) => worker[w] \in Person /\ worker[w].status \in Roster /\ ~ worker[w].left
  <1>1. worker[w] \in Person \union {Null}
    BY DEF LeavingInv, LeavingTypeOK
  <1> QED BY <1>1 DEF LeavingInv, RosterHasNotLeft, OnRoster

\* One employee is saved with a leaving date or gone.
LEMMA OneLeaves ==
    ASSUME LeavingInv, NEW w \in Workers, worker[w] \in Person, NEW p \in Person,
           worker' = [worker EXCEPT ![w] = p],
           worker[w].status \in Gone => p.status \in Gone,
           p.status \in Roster => ~ p.left
    PROVE  worker' \in [Workers -> Person \union {Null}] /\ NobodyReturns
  <1>1. worker'[w] = p /\ \A v \in Workers \ {w} : worker'[v] = worker[v]
    BY DEF LeavingInv, LeavingTypeOK
  <1>2. \A v \in Workers \ {w} : OnRoster(v)' => ~ worker'[v].left
    BY <1>1 DEF LeavingInv, RosterHasNotLeft, OnRoster
  <1>3. OnRoster(w)' => ~ worker'[w].left
    BY <1>1 DEF OnRoster
  <1> QED BY <1>1, <1>2, <1>3 DEF LeavingInv, LeavingTypeOK, NobodyReturns

LEMMA NobodyMoves ==
    ASSUME LeavingInv, worker' = worker
    PROVE  worker' \in [Workers -> Person \union {Null}] /\ NobodyReturns
  BY DEF LeavingInv, LeavingTypeOK, RosterHasNotLeft, NobodyReturns, OnRoster

\* The register gets one more entry, or none.
LEMMA OneIsRegistered ==
    ASSUME LeavingInv, NEW kind \in {"worker", "site"}, NEW id,
           kind = "worker" => id \in Workers /\ worker[id] \in Person,
           kind = "site" => id \in Sites,
           Append1(Entry(kind, id))
    PROVE  RegisterKept
  <1> DEFINE e == Entry(kind, id)
  <1>1. e \in Registered /\ e.kind = kind /\ e.id = id
    BY DEF Entry, Registered
  <1>2. log \in Seq(Registered) /\ log' = Append(log, e)
    BY DEF Append1, LeavingInv, LeavingTypeOK
  <1> HIDE DEF e
  <1>3. /\ log' \in Seq(Registered) /\ DOMAIN log = 1 .. Len(log) /\ DOMAIN log' = 1 .. Len(log) + 1
        /\ \A i \in 1 .. Len(log) : log'[i] = log[i]
        /\ log'[Len(log) + 1] = e
    BY <1>1, <1>2
  <1>4. \A i \in DOMAIN log' \ DOMAIN log : log'[i] = e
    BY <1>3
  <1> QED BY <1>1, <1>3, <1>4 DEF RegisterKept

LEMMA RegisterUntouched ==
    ASSUME LeavingInv, log' = log
    PROVE  RegisterKept
  BY DEF LeavingInv, LeavingTypeOK, RegisterKept

LEMMA CloseReadKeepsLeaving ==
    ASSUME LeavingInv, NEW r \in Requests, NEW s \in Sites, NEW to \in Kinds, NEW fate \in Kinds,
           CloseSiteRead(r, s, to, fate)
    PROVE  LeavingInv'
  <1> DEFINE q == [op |-> "close", phase |-> "read", site |-> s, to |-> to,
                   fate |-> IF to = "archived" THEN "archived" ELSE fate,
                   seen |-> site[s].status, todo |-> << >>, others |-> Null,
                   logged |-> Null, left |-> {"workers", "sites"}]
  <1>1. site[s].status \in {"active", "archived"}
    BY DEF CloseSiteRead, SiteIs
  <1>2. q \in ClosingOf /\ q.op = "close" /\ DOMAIN q.todo = {}
    BY <1>1, NothingToDo DEF ClosingOf, Kinds
  <1>3. req' = [req EXCEPT ![r] = q] /\ UNCHANGED <<worker, log>>
    BY DEF CloseSiteRead, Start
  <1> HIDE DEF q
  <1>4. PICK nq : nq = q
    OBVIOUS
  <1>5. Knows(nq)'
    BY <1>2, <1>4 DEF Knows
  <1> QED BY <1>2, <1>3, <1>4, <1>5, OneLooksOn DEF InFlight

LEMMA FindWorkersKeepsLeaving ==
    ASSUME LeavingInv, NEW r \in Requests, CascadeFindWorkers(r)
    PROVE  LeavingInv'
  <1> DEFINE here == {w \in Workers : OnRoster(w) /\ At(w, req[r].site)}
             todo == [w \in here |-> worker[w].siteIds]
             q == [req[r] EXCEPT !.todo = todo, !.left = req[r].left \ {"workers"}]
  <1>1. req[r] \in ClosingOf
    BY RequestKinds DEF CascadeFindWorkers
  <1>2. \A w \in here : worker[w] \in Person /\ worker[w].siteIds \in Lists
    BY LeavingPerson DEF Person
  <1>3. todo \in ToDo /\ DOMAIN todo = here
    <2>1. todo \in [here -> Lists] /\ here \in SUBSET Workers
      BY <1>2
    <2> HIDE DEF here, todo
    <2> QED BY <2>1 DEF ToDo
  <1>4. q \in ClosingOf /\ q.todo = todo /\ q.op = "close"
    <2> HIDE DEF todo
    <2> QED BY <1>1, <1>3 DEF ClosingOf
  <1>5. req' = [req EXCEPT ![r] = q] /\ UNCHANGED <<worker, log>>
    BY <1>1 DEF CascadeFindWorkers, Continue, ClosingOf
  <1> HIDE DEF q, todo
  <1>6. PICK nq : nq = q
    OBVIOUS
  <1>7. Knows(nq)'
    BY <1>2, <1>3, <1>4, <1>5, <1>6 DEF Knows
  <1> QED BY <1>4, <1>5, <1>6, <1>7, OneLooksOn DEF InFlight

\* A closing that goes on knows the employees it knew, or fewer.
LEMMA ClosingStillKnows ==
    ASSUME LeavingInv, NobodyReturns, NEW r \in Requests, req[r].op = "close",
           NEW q \in ClosingOf, DOMAIN q.todo \subseteq DOMAIN req[r].todo
    PROVE  Knows(q)'
  <1>1. req[r].todo \in ToDo /\ q.op = "close"
    BY RequestKinds DEF ClosingOf
  <1>2. \A w \in DOMAIN req[r].todo : w \in Workers /\ worker[w] \in Person
    BY <1>1, ToDoType DEF LeavingInv, Knows
  <1> QED BY <1>1, <1>2 DEF Knows, NobodyReturns

LEMMA FindSitesKeepsLeaving ==
    ASSUME LeavingInv, NEW r \in Requests, CascadeFindSites(r)
    PROVE  LeavingInv'
  <1> DEFINE others == {s \in Sites \ {req[r].site} : SiteIs(s, "active")}
             q == [req[r] EXCEPT !.others = others, !.left = req[r].left \ {"sites"}]
  <1>1. req[r] \in ClosingOf /\ req[r].op = "close"
    BY RequestKinds DEF CascadeFindSites
  <1>2. q \in ClosingOf /\ q.todo = req[r].todo
    BY <1>1 DEF ClosingOf
  <1>3. req' = [req EXCEPT ![r] = q] /\ UNCHANGED <<worker, log>>
    BY <1>1 DEF CascadeFindSites, Continue, ClosingOf
  <1> HIDE DEF q
  <1>4. PICK nq : nq = q
    OBVIOUS
  <1>5. Knows(nq)'
    BY <1>1, <1>2, <1>3, <1>4, NobodyMoves, ClosingStillKnows
  <1> QED BY <1>2, <1>3, <1>4, <1>5, OneLooksOn DEF InFlight

\* What a cascade has left to do.
LEMMA DoneType ==
    ASSUME NEW q \in ClosingOf, NEW w
    PROVE  Done(q, w) \in ClosingOf /\ DOMAIN Done(q, w).todo \subseteq DOMAIN q.todo
  <1> DEFINE rest == [x \in DOMAIN q.todo \ {w} |-> q.todo[x]]
  <1>1. q.todo \in ToDo
    BY DEF ClosingOf
  <1>2. rest \in [DOMAIN q.todo \ {w} -> Lists] /\ DOMAIN q.todo \ {w} \in SUBSET Workers
    BY <1>1, ToDoType
  <1>3. rest \in ToDo /\ DOMAIN rest \subseteq DOMAIN q.todo
    <2> HIDE DEF rest
    <2> QED BY <1>2 DEF ToDo
  <1>4. Done(q, w) = [q EXCEPT !.todo = rest, !.logged = Null]
    BY DEF Done
  <1> HIDE DEF rest
  <1> QED BY <1>3, <1>4 DEF ClosingOf

LEMMA CascadingEmployee ==
    ASSUME LeavingInv, NEW r \in Requests, req[r].op = "close", NEW w, w \in DOMAIN req[r].todo
    PROVE  /\ w \in Workers /\ worker[w] \in Person /\ req[r] \in ClosingOf
           /\ req[r].site \in Sites /\ req[r].todo[w] \in Lists
  <1>1. req[r] \in ClosingOf /\ req[r].todo \in ToDo /\ req[r].site \in Sites
    BY RequestKinds DEF ClosingOf
  <1> QED BY <1>1, ToDoType DEF LeavingInv, Knows

LEMMA DetachKeepsLeaving ==
    ASSUME LeavingInv, NEW r \in Requests, NEW w \in Workers, CascadeDetach(r, w)
    PROVE  LeavingInv'
  <1> DEFINE ids == Without(req[r].todo[w], req[r].site)
             p == [worker[w] EXCEPT !.siteIds = ids]
             q == Done(req[r], w)
  <1>1. /\ req[r].op = "close" /\ w \in DOMAIN req[r].todo /\ log' = log
        /\ \/ worker' = [worker EXCEPT ![w] = p] /\ req' = [req EXCEPT ![r] = q]
           \/ worker' = worker /\ req' = [req EXCEPT ![r] = Idle]
    BY DEF CascadeDetach, Cascading, Continue, Finish
  <1>2. worker[w] \in Person /\ req[r] \in ClosingOf /\ ids \in Lists
    BY <1>1, CascadingEmployee, FilteredList
  <1>3. p \in Person /\ p.status = worker[w].status /\ p.left = worker[w].left
    <2> HIDE DEF ids
    <2> QED BY <1>2 DEF Person
  <1>4. worker[w].status \in Roster => ~ worker[w].left
    BY <1>2, PersonIsThere DEF LeavingInv, RosterHasNotLeft, OnRoster
  <1>5. q \in ClosingOf /\ DOMAIN q.todo \subseteq DOMAIN req[r].todo
    BY <1>2, DoneType
  <1> HIDE DEF p, q
  <1>6. PICK nq : nq = q
    OBVIOUS
  <1>7. CASE worker' = [worker EXCEPT ![w] = p] /\ req' = [req EXCEPT ![r] = q]
    <2>1. worker' \in [Workers -> Person \union {Null}] /\ NobodyReturns
      BY <1>2, <1>3, <1>4, <1>7, OneLeaves
    <2>2. Knows(nq)'
      BY <1>1, <1>5, <1>6, <2>1, ClosingStillKnows
    <2> QED BY <1>1, <1>5, <1>6, <1>7, <2>1, <2>2, RegisterUntouched, OneMovesOn DEF InFlight
  <1>8. CASE worker' = worker /\ req' = [req EXCEPT ![r] = Idle]
    <2>1. Knows(Idle)'
      BY DEF Knows, Idle
    <2> QED BY <1>1, <1>8, <2>1, OneLooksOn DEF InFlight
  <1> QED BY <1>1, <1>7, <1>8

LEMMA LogKeepsLeaving ==
    ASSUME LeavingInv, NEW r \in Requests, NEW w \in Workers, CascadeLog(r, w)
    PROVE  LeavingInv'
  <1> DEFINE q == [req[r] EXCEPT !.logged = w]
  <1>1. /\ req[r].op = "close" /\ w \in DOMAIN req[r].todo /\ worker' = worker
        /\ Append1(Entry("worker", w)) /\ req' = [req EXCEPT ![r] = q]
    BY DEF CascadeLog, Cascading, Continue
  <1>2. worker[w] \in Person /\ req[r] \in ClosingOf
    BY <1>1, CascadingEmployee
  <1>3. q \in ClosingOf /\ DOMAIN q.todo \subseteq DOMAIN req[r].todo
    BY <1>2 DEF ClosingOf
  <1> HIDE DEF q
  <1>4. PICK nq : nq = q
    OBVIOUS
  <1>5. worker' \in [Workers -> Person \union {Null}] /\ NobodyReturns
    BY <1>1, NobodyMoves
  <1>6. RegisterKept
    BY <1>1, <1>2, OneIsRegistered
  <1>7. Knows(nq)'
    BY <1>1, <1>3, <1>4, <1>5, ClosingStillKnows
  <1> QED BY <1>1, <1>3, <1>4, <1>5, <1>6, <1>7, OneMovesOn DEF InFlight

LEMMA LeaveKeepsLeaving ==
    ASSUME LeavingInv, NEW r \in Requests, NEW w \in Workers, CascadeLeave(r, w)
    PROVE  LeavingInv'
  <1> DEFINE p == [worker[w] EXCEPT !.status = req[r].fate, !.left = TRUE]
             q == Done(req[r], w)
  <1>1. /\ req[r].op = "close" /\ w \in DOMAIN req[r].todo /\ log' = log
        /\ worker' = [worker EXCEPT ![w] = p] /\ req' = [req EXCEPT ![r] = q]
    BY DEF CascadeLeave, Cascading, Continue
  <1>2. worker[w] \in Person /\ req[r] \in ClosingOf /\ req[r].fate \in Gone
    BY <1>1, CascadingEmployee DEF ClosingOf, Kinds, Gone
  <1>3. p \in Person /\ p.status \in Gone /\ p.status \notin Roster
    BY <1>2 DEF Person, Roster, Gone
  <1>4. q \in ClosingOf /\ DOMAIN q.todo \subseteq DOMAIN req[r].todo
    BY <1>2, DoneType
  <1> HIDE DEF p, q
  <1>5. PICK nq : nq = q
    OBVIOUS
  <1>6. worker' \in [Workers -> Person \union {Null}] /\ NobodyReturns
    BY <1>1, <1>2, <1>3, OneLeaves
  <1>7. Knows(nq)'
    BY <1>1, <1>4, <1>5, <1>6, ClosingStillKnows
  <1> QED BY <1>1, <1>4, <1>5, <1>6, <1>7, RegisterUntouched, OneMovesOn DEF InFlight

LEMMA CloseKeepsLeaving ==
    ASSUME LeavingInv, NEW r \in Requests, CloseSite(r)
    PROVE  LeavingInv'
  <1> DEFINE left == IF req[r].to = "deleted" THEN {"stations", "scopes", "log"} ELSE {"stations"}
             q == [req[r] EXCEPT !.phase = "after", !.left = left]
  <1>1. /\ req[r].op = "close" /\ UNCHANGED <<worker, log>> /\ req' = [req EXCEPT ![r] = q]
    BY DEF CloseSite, Cascading, Continue
  <1>2. req[r] \in ClosingOf
    BY <1>1, RequestKinds
  <1>3. q \in ClosingOf /\ DOMAIN q.todo \subseteq DOMAIN req[r].todo
    BY <1>2 DEF ClosingOf
  <1> HIDE DEF q
  <1>4. PICK nq : nq = q
    OBVIOUS
  <1>5. Knows(nq)'
    BY <1>1, <1>3, <1>4, NobodyMoves, ClosingStillKnows
  <1> QED BY <1>1, <1>3, <1>4, <1>5, OneLooksOn DEF InFlight

LEMMA AfterKeepsLeaving ==
    ASSUME LeavingInv, NEW r \in Requests, NEW what \in {"stations", "scopes", "log"}, AfterClose(r, what)
    PROVE  LeavingInv'
  <1> DEFINE q == [req[r] EXCEPT !.left = req[r].left \ {what}]
  <1>1. req[r].op = "close" /\ worker' = worker /\ req[r] \in ClosingOf /\ req[r].site \in Sites
    BY RequestKinds DEF AfterClose, ClosingOf
  <1>2. req' = [req EXCEPT ![r] = Idle] \/ req' = [req EXCEPT ![r] = q]
    BY <1>1 DEF AfterClose, Continue, Finish, ClosingOf
  <1>3. q \in ClosingOf /\ DOMAIN q.todo \subseteq DOMAIN req[r].todo
    BY <1>1 DEF ClosingOf
  <1>4. RegisterKept
    BY <1>1, OneIsRegistered, RegisterUntouched DEF AfterClose
  <1>5. worker' \in [Workers -> Person \union {Null}] /\ NobodyReturns
    BY <1>1, NobodyMoves
  <1> HIDE DEF q
  <1>6. PICK nq : nq = q
    OBVIOUS
  <1>7. Knows(nq)' /\ Knows(Idle)'
    BY <1>1, <1>3, <1>5, <1>6, ClosingStillKnows DEF Knows, Idle
  <1> QED BY <1>2, <1>3, <1>4, <1>5, <1>6, <1>7, OneMovesOn DEF InFlight

LEMMA RestoringKeepsLeaving ==
    ASSUME LeavingInv, NEW r \in Requests,
           (\E s \in Sites : RestoreSiteRead(r, s)) \/ RestoreSite(r) \/ RestoreStations(r)
    PROVE  LeavingInv'
  <1>1. \A q \in RestoringOf \union {Idle} : Knows(q)'
    BY DEF Knows, RestoringOf, Idle
  <1>2. ASSUME NEW s \in Sites, RestoreSiteRead(r, s)
        PROVE  LeavingInv'
    <2> DEFINE q == [op |-> "restoreSite", site |-> s, saved |-> FALSE]
    <2>1. q \in RestoringOf
      BY DEF RestoringOf
    <2>2. req' = [req EXCEPT ![r] = q] /\ UNCHANGED <<worker, log>>
      BY <1>2 DEF RestoreSiteRead, Start
    <2> HIDE DEF q
    <2>3. PICK nq : nq = q
      OBVIOUS
    <2> QED BY <1>1, <2>1, <2>2, <2>3, OneLooksOn DEF InFlight
  <1>3. ASSUME RestoreSite(r)
        PROVE  LeavingInv'
    <2> DEFINE q == [req[r] EXCEPT !.saved = TRUE]
    <2>1. q \in RestoringOf
      BY <1>3, RequestKinds DEF RestoreSite, RestoringOf
    <2>2. req' = [req EXCEPT ![r] = q] /\ UNCHANGED <<worker, log>>
      BY <1>3 DEF RestoreSite, Continue
    <2> HIDE DEF q
    <2>3. PICK nq : nq = q
      OBVIOUS
    <2> QED BY <1>1, <2>1, <2>2, <2>3, OneLooksOn DEF InFlight
  <1>4. ASSUME RestoreStations(r)
        PROVE  LeavingInv'
    BY <1>1, <1>4, OneLooksOn DEF RestoreStations, Finish, InFlight
  <1> QED BY <1>2, <1>3, <1>4

LEMMA CrashKeepsLeaving ==
    ASSUME LeavingInv, Crash
    PROVE  LeavingInv'
  BY DEF LeavingInv, LeavingTypeOK, Crash, Knows, Idle, InFlight, EntriesNamePeople, RosterHasNotLeft,
         OnRoster

LEMMA LeaveReadKeepsLeaving ==
    ASSUME LeavingInv, NEW r \in Requests, NEW u, NEW w \in Workers, NEW to \in Gone,
           LeaveRead(r, u, w, to)
    PROVE  LeavingInv'
  <1> DEFINE q == [op |-> "leave", worker |-> w, copy |-> worker[w], to |-> to, saved |-> FALSE]
  <1>1. worker[w] \in Person
    BY LeavingPerson DEF LeaveRead, CanUseWorker
  <1>2. q \in LeavingOf /\ q.op = "leave" /\ q.worker = w /\ q.copy = worker[w]
    BY <1>1 DEF LeavingOf
  <1>3. req' = [req EXCEPT ![r] = q] /\ UNCHANGED <<worker, log>>
    BY DEF LeaveRead, Start
  <1> HIDE DEF q
  <1>4. PICK nq : nq = q
    OBVIOUS
  <1>5. Knows(nq)'
    BY <1>1, <1>2, <1>3, <1>4 DEF Knows
  <1> QED BY <1>2, <1>3, <1>4, <1>5, OneLooksOn

\* Leaving is saved over what is stored: the status that was read does not come back.
LEMMA LeftForGood ==
    ASSUME NEW stored \in Person, NEW copy \in Person, NEW to \in Gone,
           copy.status \in Gone => stored.status \in Gone
    PROVE  LET p == [Written(stored, copy, [copy EXCEPT !.status = to]) EXCEPT !.left = TRUE]
           IN  p \in Person /\ p.status \in Gone
  <1> DEFINE target == [copy EXCEPT !.status = to]
             saved == Written(stored, copy, target)
  <1>1. /\ target \in Person /\ target.status = to /\ target.siteIds = copy.siteIds
        /\ target.siteName = copy.siteName /\ target.left = copy.left
    BY DEF Person, Gone
  <1>2. DOMAIN stored = {"status", "siteIds", "siteName", "left"}
    BY DEF Person
  <1> HIDE DEF target
  <1>3. /\ saved.status = (IF target.status # copy.status THEN target.status ELSE stored.status)
        /\ saved.siteIds = stored.siteIds /\ saved.siteName = stored.siteName
        /\ saved.left = stored.left
        /\ saved = [status |-> saved.status, siteIds |-> saved.siteIds,
                    siteName |-> saved.siteName, left |-> saved.left]
    BY <1>1, <1>2 DEF Written
  <1>4. saved.status \in Gone
    BY <1>1, <1>3
  <1>5. /\ stored.siteIds \in Lists /\ stored.siteName \in Names /\ stored.left \in BOOLEAN
    BY DEF Person
  <1> HIDE DEF saved
  <1>6. saved \in Person
    BY <1>3, <1>4, <1>5 DEF Person
  <1>7. [saved EXCEPT !.left = TRUE] \in Person /\ [saved EXCEPT !.left = TRUE].status = saved.status
    BY <1>6 DEF Person
  <1> QED BY <1>4, <1>7 DEF saved, target

LEMMA LeaveSaveKeepsLeaving ==
    ASSUME LeavingInv, NEW r \in Requests, LeaveSave(r)
    PROVE  LeavingInv'
  <1> DEFINE w == req[r].worker
             p == [Written(worker[w], req[r].copy, [req[r].copy EXCEPT !.status = req[r].to])
                       EXCEPT !.left = TRUE]
             q == [req[r] EXCEPT !.saved = TRUE]
  <1>1. /\ req[r].op = "leave" /\ log' = log
        /\ worker' = [worker EXCEPT ![w] = p]
        /\ req' = [req EXCEPT ![r] = q] \/ req' = [req EXCEPT ![r] = Idle]
    BY DEF LeaveSave, Continue
  <1>2. req[r] \in LeavingOf /\ w \in Workers /\ worker[w] \in Person
    BY <1>1, RequestKinds DEF LeavingOf, LeavingInv, Knows
  <1>3. p \in Person /\ p.status \in Gone /\ p.status \notin Roster
    <2>1. /\ req[r].copy \in Person /\ req[r].to \in Gone
          /\ req[r].copy.status \in Gone => worker[w].status \in Gone
      BY <1>1, <1>2 DEF LeavingOf, LeavingInv, Knows
    <2>2. p \in Person /\ p.status \in Gone
      BY <1>2, <2>1, LeftForGood
    <2> QED BY <2>2 DEF Roster, Gone
  <1>4. /\ q \in LeavingOf /\ q.op = "leave" /\ q.worker = w
        /\ q.copy = req[r].copy
    BY <1>2 DEF LeavingOf
  <1> HIDE DEF p, q
  <1>5. PICK nq : nq = q
    OBVIOUS
  <1>6. worker' \in [Workers -> Person \union {Null}] /\ NobodyReturns
    BY <1>1, <1>2, <1>3, OneLeaves
  <1>7. Knows(nq)' /\ Knows(Idle)'
    <2>1. worker'[w] = p
      BY <1>1, <1>2 DEF LeavingInv, LeavingTypeOK
    <2>2. nq.op = "leave" /\ worker'[nq.worker] = p
      BY <1>4, <1>5, <2>1
    <2> QED BY <1>3, <2>2 DEF Knows, Idle
  <1> QED BY <1>1, <1>4, <1>5, <1>6, <1>7, RegisterUntouched, OneMovesOn DEF InFlight

LEMMA LeaveLogKeepsLeaving ==
    ASSUME LeavingInv, NEW r \in Requests, LeaveLog(r)
    PROVE  LeavingInv'
  <1>1. /\ req[r].op = "leave" /\ worker' = worker /\ req' = [req EXCEPT ![r] = Idle]
        /\ Append1(Entry("worker", req[r].worker))
    BY DEF LeaveLog, Finish
  <1>2. req[r].worker \in Workers /\ worker[req[r].worker] \in Person
    BY <1>1, RequestKinds DEF LeavingOf, LeavingInv, Knows
  <1>3. RegisterKept
    BY <1>1, <1>2, OneIsRegistered
  <1>4. worker' \in [Workers -> Person \union {Null}] /\ NobodyReturns
    BY <1>1, NobodyMoves
  <1>5. Knows(Idle)'
    BY DEF Knows, Idle
  <1> QED BY <1>1, <1>3, <1>4, <1>5, OneMovesOn DEF InFlight

LEMMA UndoRequest ==
    ASSUME LeavingInv, NEW r \in Requests, req[r].op = "undo"
    PROVE  req[r] \in UndoingOf /\ req[r].entry \in DOMAIN log /\ log[req[r].entry] \in Registered
  <1>1. req[r] \in UndoingOf /\ req[r].entry \in DOMAIN log
    BY RequestKinds DEF LeavingInv, Knows
  <1> QED BY <1>1, RegisterNames

LEMMA UndoReadsKeepLeaving ==
    ASSUME LeavingInv, NEW r \in Requests,
           (\E e \in DOMAIN log : UndoReadEntry(r, e)) \/ UndoReadRecord(r)
    PROVE  LeavingInv'
  <1>1. ASSUME NEW e \in DOMAIN log, UndoReadEntry(r, e)
        PROVE  LeavingInv'
    <2> DEFINE q == [op |-> "undo", entry |-> e, phase |-> "entry"]
    <2>1. e \in Nat
      BY DEF LeavingInv, LeavingTypeOK
    <2>2. q \in UndoingOf /\ q.op = "undo" /\ q.entry = e
      BY <2>1 DEF UndoingOf
    <2>3. req' = [req EXCEPT ![r] = q] /\ UNCHANGED <<worker, log>>
      BY <1>1 DEF UndoReadEntry, Start
    <2> HIDE DEF q
    <2>4. PICK nq : nq = q
      OBVIOUS
    <2>5. Knows(nq)'
      BY <2>2, <2>3, <2>4 DEF Knows
    <2> QED BY <2>2, <2>3, <2>4, <2>5, OneLooksOn
  <1>2. ASSUME UndoReadRecord(r)
        PROVE  LeavingInv'
    <2> DEFINE q == [req[r] EXCEPT !.phase = "record"]
    <2>1. /\ req[r].op = "undo" /\ UNCHANGED <<worker, log>>
          /\ req' = [req EXCEPT ![r] = q] \/ req' = [req EXCEPT ![r] = Idle]
      BY <1>2 DEF UndoReadRecord, Continue, Finish
    <2>2. q \in UndoingOf /\ q.op = "undo" /\ q.entry \in DOMAIN log
      BY <2>1, UndoRequest DEF UndoingOf
    <2> HIDE DEF q
    <2>3. PICK nq : nq = q
      OBVIOUS
    <2>4. Knows(nq)' /\ Knows(Idle)'
      BY <2>1, <2>2, <2>3 DEF Knows, Idle
    <2> QED BY <2>1, <2>2, <2>3, <2>4, OneLooksOn DEF InFlight
  <1> QED BY <1>1, <1>2

LEMMA UndoSaveRecordKeepsLeaving ==
    ASSUME LeavingInv, NEW r \in Requests, UndoSaveRecord(r)
    PROVE  LeavingInv'
  <1> DEFINE w == log[req[r].entry].id
             p == [worker[w] EXCEPT !.status = "archived"]
             q == [req[r] EXCEPT !.phase = "saved"]
  <1>1. /\ req[r].op = "undo" /\ log' = log /\ req' = [req EXCEPT ![r] = q]
        /\ IF log[req[r].entry].kind = "worker" THEN worker' = [worker EXCEPT ![w] = p]
                                                ELSE worker' = worker
    BY DEF UndoSaveRecord, Continue
  <1>2. q \in UndoingOf /\ q.op = "undo" /\ q.entry \in DOMAIN log /\ req[r].entry \in DOMAIN log
    BY <1>1, UndoRequest DEF UndoingOf
  <1>3. worker' \in [Workers -> Person \union {Null}] /\ NobodyReturns
    <2>1. CASE log[req[r].entry].kind = "worker"
      <3>1. w \in Workers /\ worker[w] \in Person
        BY <1>2, <2>1, RegisterNames
      <3>2. p \in Person /\ p.status \in Gone /\ p.status \notin Roster
        BY <3>1 DEF Person, Gone, Roster
      <3> QED BY <1>1, <2>1, <3>1, <3>2, OneLeaves
    <2>2. CASE log[req[r].entry].kind # "worker"
      BY <1>1, <2>2, NobodyMoves
    <2> QED BY <2>1, <2>2
  <1> HIDE DEF q
  <1>4. PICK nq : nq = q
    OBVIOUS
  <1>5. Knows(nq)'
    BY <1>1, <1>2, <1>4 DEF Knows
  <1> QED BY <1>1, <1>2, <1>3, <1>4, <1>5, RegisterUntouched, OneMovesOn

LEMMA UndoSaveEntryKeepsLeaving ==
    ASSUME LeavingInv, NEW r \in Requests, UndoSaveEntry(r)
    PROVE  LeavingInv'
  <1> DEFINE n == req[r].entry
             e == [log[n] EXCEPT !.undone = TRUE]
  <1>1. /\ req[r].op = "undo" /\ worker' = worker /\ req' = [req EXCEPT ![r] = Idle]
        /\ log' = [log EXCEPT ![n] = e]
    BY DEF UndoSaveEntry, Finish
  <1>2. n \in DOMAIN log /\ log[n] \in Registered
    BY <1>1, UndoRequest
  <1>3. e \in Registered /\ e.kind = log[n].kind /\ e.id = log[n].id
    BY <1>2 DEF Registered
  <1>4. RegisterKept
    <2>1. log \in Seq(Registered)
      BY DEF LeavingInv, LeavingTypeOK
    <2> HIDE DEF e
    <2>2. /\ log' \in Seq(Registered) /\ DOMAIN log' = DOMAIN log
          /\ \A i \in DOMAIN log : log'[i] = IF i = n THEN e ELSE log[i]
      BY <1>1, <1>2, <1>3, <2>1
    <2> QED BY <1>3, <2>2 DEF RegisterKept
  <1>5. worker' \in [Workers -> Person \union {Null}] /\ NobodyReturns
    BY <1>1, NobodyMoves
  <1>6. Knows(Idle)'
    BY DEF Knows, Idle
  <1> QED BY <1>1, <1>4, <1>5, <1>6, OneMovesOn DEF InFlight

LEMMA LeavingInvStutters ==
    ASSUME LeavingInv, UNCHANGED <<worker, log, req>>
    PROVE  LeavingInv'
  BY DEF LeavingInv, LeavingTypeOK, Knows, EntriesNamePeople, RosterHasNotLeft, OnRoster

\* Whatever closes, restores, deletes or undoes, in any number of requests at once.
LEMMA LeavingInvStep ==
    ASSUME LeavingInv, Closing \/ RestoringSites \/ Crash \/ Leaving \/ Undoing
    PROVE  LeavingInv'
  <1>1. ASSUME NEW r \in Requests, Cascade(r)
        PROVE  LeavingInv'
    BY <1>1, FindWorkersKeepsLeaving, FindSitesKeepsLeaving, DetachKeepsLeaving, LogKeepsLeaving,
       LeaveKeepsLeaving, CloseKeepsLeaving, AfterKeepsLeaving DEF Cascade
  <1>2. CASE Closing
    BY <1>1, <1>2, CloseReadKeepsLeaving DEF Closing
  <1>3. CASE RestoringSites
    BY <1>3, RestoringKeepsLeaving DEF RestoringSites
  <1>4. CASE Crash
    BY <1>4, CrashKeepsLeaving
  <1>5. CASE Leaving
    BY <1>5, LeaveReadKeepsLeaving, LeaveSaveKeepsLeaving, LeaveLogKeepsLeaving DEF Leaving
  <1>6. CASE Undoing
    BY <1>6, UndoReadsKeepLeaving, UndoSaveRecordKeepsLeaving, UndoSaveEntryKeepsLeaving
       DEF Undoing, Undo
  <1> QED BY <1>2, <1>3, <1>4, <1>5, <1>6

LEMMA LeavingInvInit ==
    ASSUME NEW S \in SUBSET Sites, S # {}, NEW W \in SUBSET Workers, NEW N \in SUBSET Names, NEW A,
           Opened({FirstBranch}, S, W, N, A)
    PROVE  LeavingInv
  <1>1. ClosingInv /\ \A w \in Workers : OnRoster(w) => ~ worker[w].left
    BY OpenedIsSound, OfficeAssumption
  <1>2. req = [r \in Requests |-> Idle] /\ log = << >>
    BY DEF Opened
  <1>3. log \in Seq(Registered) /\ DOMAIN log = {}
    BY <1>2
  <1>4. LeavingTypeOK
    BY <1>1, <1>2, <1>3 DEF ClosingInv, ClosingTypeOK, LeavingTypeOK, InFlight
  <1> QED BY <1>1, <1>2, <1>3, <1>4 DEF LeavingInv, Knows, Idle, EntriesNamePeople, RosterHasNotLeft

-----------------------------------------------------------------------------
(* Leaving dates, while employees are enrolled, edited, moved, restored and deleted, *)
(* one request at a time                                                             *)

\* An employee's record, whatever the sites it lists.
EmployeeOf(ids, name) == [status : Roster \union Gone, siteIds : {ids}, siteName : {name}, left : BOOLEAN]
IsEmployee(p) == \E ids, name : p \in EmployeeOf(ids, name)

OfficeTypeOK ==
    /\ worker = [w \in Workers |-> worker[w]]
    /\ \A w \in Workers : worker[w] = Null \/ IsEmployee(worker[w])
    /\ log \in Seq(Registered)
    /\ req = [r \in Requests |-> req[r]]

LeaveOf(copy) == [op : {"leave"}, worker : Workers, copy : {copy}, to : Gone, saved : BOOLEAN]
EditSiteOf(before) == [op : {"editSite"}, site : Sites, branch : Branches, name : Names,
                       before : {before}, saved : BOOLEAN]

\* What the request in flight holds: a copy that is still the stored record, and a record
\* to save that changes neither the leaving date nor who is on the roster.
Holds(q) ==
    /\ q.op \in {"enrol", "edit", "leave", "restore"} => q.worker \in Workers
    /\ q.op \in {"edit", "leave", "restore"} => IsEmployee(worker[q.worker])
    /\ q.op = "edit" => /\ q.copy = worker[q.worker] /\ IsEmployee(q.to)
                        /\ q.copy.status \in Roster /\ q.to.status \in Roster
                        /\ ~ q.copy.left /\ ~ q.to.left
    /\ q.op = "leave" => /\ \E copy : q \in LeaveOf(copy)
                         /\ ~ q.saved => q.copy = worker[q.worker]
    /\ q.op = "editSite" => \E before : q \in EditSiteOf(before)
    /\ q.op = "undo" => q \in UndoingOf /\ q.entry \in DOMAIN log

EntriesNameEmployees ==
    \A e \in DOMAIN log : log[e].kind = "worker" => IsEmployee(worker[log[e].id])

OneAtATime == \A r, q \in Requests : req[r] # Idle /\ req[q] # Idle => r = q

\* The inductive invariant of the leaving dates with one request at a time.
OfficeInv ==
    /\ OfficeTypeOK
    /\ \A r \in Requests : Holds(req[r])
    /\ EntriesNameEmployees
    /\ OneAtATime
    /\ RosterHasNotLeft

\* The staff after a step: nobody lost, nobody on the roster with a leaving date.
StaffKept ==
    /\ worker' = [w \in Workers |-> worker'[w]]
    /\ \A w \in Workers :
          /\ worker'[w] = Null \/ IsEmployee(worker'[w])
          /\ IsEmployee(worker[w]) => IsEmployee(worker'[w])
          /\ OnRoster(w)' => ~ worker'[w].left

EntriesKept ==
    /\ log' \in Seq(Registered)
    /\ \A e \in DOMAIN log' : log'[e].kind = "worker" => IsEmployee(worker[log'[e].id])

LEMMA EmployeeFields ==
    ASSUME NEW p, IsEmployee(p), NEW status \in Roster \union Gone, NEW ids, NEW name,
           NEW left \in BOOLEAN
    PROVE  /\ DOMAIN p = {"status", "siteIds", "siteName", "left"}
           /\ LET q == [p EXCEPT !.status = status]
              IN  IsEmployee(q) /\ q.status = status /\ q.left = p.left
           /\ LET q == [p EXCEPT !.siteName = name]
              IN  IsEmployee(q) /\ q.status = p.status /\ q.left = p.left
           /\ LET q == [p EXCEPT !.siteIds = ids, !.siteName = name]
              IN  IsEmployee(q) /\ q.status = p.status /\ q.left = p.left
           /\ LET q == [p EXCEPT !.status = status, !.siteIds = ids, !.siteName = name]
              IN  IsEmployee(q) /\ q.status = status /\ q.left = p.left
           /\ LET q == [p EXCEPT !.status = status, !.left = left]
              IN  IsEmployee(q) /\ q.status = status /\ q.left = left
  <1>1. PICK i, n : p \in EmployeeOf(i, n)
    BY DEF IsEmployee
  <1>2. DOMAIN p = {"status", "siteIds", "siteName", "left"}
    BY <1>1 DEF EmployeeOf
  <1>3. LET q == [p EXCEPT !.status = status]
        IN  q \in EmployeeOf(i, n) /\ q.status = status /\ q.left = p.left
    BY <1>1 DEF EmployeeOf
  <1>4. LET q == [p EXCEPT !.siteName = name]
        IN  q \in EmployeeOf(i, name) /\ q.status = p.status /\ q.left = p.left
    BY <1>1 DEF EmployeeOf
  <1>5. LET q == [p EXCEPT !.siteIds = ids, !.siteName = name]
        IN  q \in EmployeeOf(ids, name) /\ q.status = p.status /\ q.left = p.left
    BY <1>1 DEF EmployeeOf
  <1>6. LET q == [p EXCEPT !.status = status, !.siteIds = ids, !.siteName = name]
        IN  q \in EmployeeOf(ids, name) /\ q.status = status /\ q.left = p.left
    BY <1>1 DEF EmployeeOf
  <1>7. LET q == [p EXCEPT !.status = status, !.left = left]
        IN  q \in EmployeeOf(i, n) /\ q.status = status /\ q.left = left
    BY <1>1 DEF EmployeeOf
  <1> QED BY <1>2, <1>3, <1>4, <1>5, <1>6, <1>7 DEF IsEmployee

\* A save writes the status and the date of the copy's target or leaves them.
LEMMA WrittenIsEmployee ==
    ASSUME NEW stored, NEW copy, NEW to, IsEmployee(stored), IsEmployee(to)
    PROVE  LET p == Written(stored, copy, to)
           IN  /\ IsEmployee(p)
               /\ p.status = IF to.status # copy.status THEN to.status ELSE stored.status
               /\ p.left = IF to.left # copy.left THEN to.left ELSE stored.left
  <1> DEFINE p == Written(stored, copy, to)
  <1>1. DOMAIN stored = {"status", "siteIds", "siteName", "left"}
    BY DEF IsEmployee, EmployeeOf
  <1>2. /\ stored.status \in Roster \union Gone /\ stored.left \in BOOLEAN
        /\ to.status \in Roster \union Gone /\ to.left \in BOOLEAN
    BY DEF IsEmployee, EmployeeOf
  <1>3. /\ p.status = IF to.status # copy.status THEN to.status ELSE stored.status
        /\ p.left = IF to.left # copy.left THEN to.left ELSE stored.left
    BY <1>1 DEF Written
  <1>4. p \in EmployeeOf(p.siteIds, p.siteName)
    BY <1>1, <1>2 DEF Written, EmployeeOf
  <1> QED BY <1>3, <1>4 DEF IsEmployee

LEMMA OfficeMovesOn ==
    ASSUME OfficeInv, NEW r \in Requests, NEW nq, req' = [req EXCEPT ![r] = nq],
           nq # Idle \/ req[r] # Idle, OneAtATime', StaffKept, EntriesKept, Holds(nq)'
    PROVE  OfficeInv'
  <1>1. req'[r] = nq /\ \A q \in Requests \ {r} : req'[q] = req[q]
    BY DEF OfficeInv, OfficeTypeOK
  <1>2. OfficeTypeOK'
    <2>1. req' = [q \in Requests |-> req'[q]]
      BY DEF OfficeInv, OfficeTypeOK
    <2> QED BY <2>1 DEF OfficeTypeOK, StaffKept, EntriesKept
  <1>3. \A q \in Requests \ {r} : req'[q] = Idle
    BY <1>1 DEF OfficeInv, OneAtATime
  <1>4. \A q \in Requests : Holds(req[q])'
    BY <1>1, <1>3 DEF Holds, Idle
  <1>5. EntriesNameEmployees'
    <2> SUFFICES ASSUME NEW e \in DOMAIN log', log'[e].kind = "worker"
                 PROVE  IsEmployee(worker'[log'[e].id])
      BY DEF EntriesNameEmployees
    <2>1. log'[e].id \in Workers
      BY DEF EntriesKept, Registered
    <2> QED BY <2>1 DEF EntriesKept, StaffKept
  <1>6. RosterHasNotLeft'
    BY DEF StaffKept, RosterHasNotLeft
  <1> QED BY <1>2, <1>4, <1>5, <1>6 DEF OfficeInv

LEMMA StaffUntouched ==
    ASSUME OfficeInv, worker' = worker
    PROVE  StaffKept
  BY DEF OfficeInv, OfficeTypeOK, RosterHasNotLeft, StaffKept, OnRoster

LEMMA EntriesUntouched ==
    ASSUME OfficeInv, log' = log
    PROVE  EntriesKept
  BY DEF OfficeInv, OfficeTypeOK, EntriesNameEmployees, EntriesKept

\* A step that writes neither an employee nor the register.
LEMMA OfficeLooksOn ==
    ASSUME OfficeInv, NEW r \in Requests, NEW nq, req' = [req EXCEPT ![r] = nq],
           nq # Idle \/ req[r] # Idle, OneAtATime', UNCHANGED <<worker, log>>, Holds(nq)'
    PROVE  OfficeInv'
  BY StaffUntouched, EntriesUntouched, OfficeMovesOn

\* One employee is saved.
LEMMA OneIsSaved ==
    ASSUME OfficeInv, NEW w \in Workers, NEW p, IsEmployee(p), worker' = [worker EXCEPT ![w] = p],
           p.status \in Roster => ~ p.left
    PROVE  StaffKept
  <1>1. worker'[w] = p /\ \A v \in Workers \ {w} : worker'[v] = worker[v]
    BY DEF OfficeInv, OfficeTypeOK
  <1>2. worker' = [v \in Workers |-> worker'[v]]
    BY DEF OfficeInv, OfficeTypeOK
  <1>3. \A v \in Workers \ {w} : OnRoster(v)' => ~ worker'[v].left
    BY <1>1 DEF OfficeInv, RosterHasNotLeft, OnRoster
  <1> QED BY <1>1, <1>2, <1>3 DEF OfficeInv, OfficeTypeOK, StaffKept, OnRoster

LEMMA EmployeeThere ==
    ASSUME OfficeInv, NEW w \in Workers, worker[w] # Null
    PROVE  /\ IsEmployee(worker[w])
           /\ worker[w].status \in Roster => ~ worker[w].left
           /\ worker[w].status \notin Gone => worker[w].status \in Roster
  <1>1. IsEmployee(worker[w])
    BY DEF OfficeInv, OfficeTypeOK
  <1>2. worker[w].status \notin Gone => worker[w].status \in Roster
    BY <1>1 DEF IsEmployee, EmployeeOf
  <1>3. worker[w].status \in Roster => ~ worker[w].left
    BY DEF OfficeInv, RosterHasNotLeft, OnRoster
  <1> QED BY <1>1, <1>2, <1>3

LEMMA EmptyHands ==
    ASSUME NEW q, q.op \notin {"enrol", "edit", "leave", "restore", "editSite", "undo"}
    PROVE  Holds(q)'
  BY DEF Holds

LEMMA IdleHolds == Holds(Idle)' /\ Idle.op = "idle"
  BY EmptyHands DEF Idle

\* Branches, sites and the choice of a site to move to.
LEMMA SitesKeepOffice ==
    ASSUME OfficeInv, OneAtATime', NEW r \in Requests,
           \/ \E b \in Branches : DeleteBranchCount(r, b)
           \/ DeleteBranch(r)
           \/ \E s \in Sites, b \in Branches, n \in Names : CreateSiteRead(r, s, b, n)
           \/ CreateSite(r)
           \/ \E u \in Actors, s \in Sites : BulkMoveSite(r, u, s)
    PROVE  OfficeInv'
  <1>1. ASSUME NEW q, req' = [req EXCEPT ![r] = q], UNCHANGED <<worker, log>>,
               q.op \in {"deleteBranch", "createSite", "moveTo"}
        PROVE  OfficeInv'
    BY <1>1, EmptyHands, IdleHolds, OfficeLooksOn
  <1>2. ASSUME req' = [req EXCEPT ![r] = Idle], UNCHANGED <<worker, log>>, req[r] # Idle
        PROVE  OfficeInv'
    BY <1>2, IdleHolds, OfficeLooksOn
  <1>3. ASSUME NEW b \in Branches, DeleteBranchCount(r, b)
        PROVE  OfficeInv'
    BY <1>1, <1>3 DEF DeleteBranchCount, Start
  <1>4. ASSUME NEW s \in Sites, NEW b \in Branches, NEW n \in Names, CreateSiteRead(r, s, b, n)
        PROVE  OfficeInv'
    BY <1>1, <1>4 DEF CreateSiteRead, Start
  <1>5. ASSUME NEW u \in Actors, NEW s \in Sites, BulkMoveSite(r, u, s)
        PROVE  OfficeInv'
    BY <1>1, <1>5 DEF BulkMoveSite, Start
  <1>6. ASSUME DeleteBranch(r) \/ CreateSite(r)
        PROVE  OfficeInv'
    BY <1>2, <1>6, IdleHolds DEF DeleteBranch, CreateSite, Finish
  <1> QED BY <1>3, <1>4, <1>5, <1>6

LEMMA EditSiteKeepsOffice ==
    ASSUME OfficeInv, OneAtATime', NEW r \in Requests,
           \/ \E s \in Sites, b \in Branches, n \in Names : EditSiteRead(r, s, b, n)
           \/ EditSite(r)
    PROVE  OfficeInv'
  <1>1. ASSUME NEW s \in Sites, NEW b \in Branches, NEW n \in Names, EditSiteRead(r, s, b, n)
        PROVE  OfficeInv'
    <2> DEFINE q == [op |-> "editSite", site |-> s, branch |-> b, name |-> n,
                     before |-> site[s].name, saved |-> FALSE]
    <2>1. req' = [req EXCEPT ![r] = q] /\ UNCHANGED <<worker, log>>
      BY <1>1 DEF EditSiteRead, Start
    <2>2. q.op = "editSite" /\ q \in EditSiteOf(site[s].name)
      BY DEF EditSiteOf
    <2> HIDE DEF q
    <2>3. PICK nq : nq = q
      OBVIOUS
    <2>4. Holds(nq)' /\ nq # Idle
      BY <2>2, <2>3, IdleHolds DEF Holds
    <2> QED BY <2>1, <2>3, <2>4, OfficeLooksOn
  <1>2. ASSUME EditSite(r)
        PROVE  OfficeInv'
    <2> DEFINE q == [req[r] EXCEPT !.saved = TRUE]
    <2>1. /\ req[r].op = "editSite" /\ UNCHANGED <<worker, log>>
          /\ req' = [req EXCEPT ![r] = Idle] \/ req' = [req EXCEPT ![r] = q]
      BY <1>2 DEF EditSite, Finish, Continue
    <2>2. PICK before : req[r] \in EditSiteOf(before)
      BY <2>1 DEF OfficeInv, Holds
    <2>3. q.op = "editSite" /\ q \in EditSiteOf(before)
      BY <2>2 DEF EditSiteOf
    <2> HIDE DEF q
    <2>4. PICK nq : nq = q
      OBVIOUS
    <2>5. Holds(nq)'
      BY <2>3, <2>4 DEF Holds
    <2> QED BY <2>1, <2>4, <2>5, IdleHolds, OfficeLooksOn
  <1> QED BY <1>1, <1>2

LEMMA RenameKeepsOffice ==
    ASSUME OfficeInv, OneAtATime', NEW r \in Requests, RenameOnWorkers(r)
    PROVE  OfficeInv'
  <1>1. /\ req[r].op = "editSite" /\ req' = [req EXCEPT ![r] = Idle] /\ log' = log
        /\ worker' = [w \in Workers |-> IF worker[w] # Null /\ SiteId(w) = req[r].site
                                        THEN [worker[w] EXCEPT !.siteName = req[r].name]
                                        ELSE worker[w]]
    BY DEF RenameOnWorkers, Finish
  <1>2. StaffKept
    <2>1. ASSUME NEW w \in Workers
          PROVE  /\ worker'[w] = Null \/ IsEmployee(worker'[w])
                 /\ IsEmployee(worker[w]) => IsEmployee(worker'[w])
                 /\ OnRoster(w)' => ~ worker'[w].left
      <3> DEFINE p == [worker[w] EXCEPT !.siteName = req[r].name]
      <3>1. (worker'[w] = p /\ worker[w] # Null) \/ worker'[w] = worker[w]
        BY <1>1
      <3>2. worker[w] # Null => IsEmployee(p) /\ p.status = worker[w].status /\ p.left = worker[w].left
        <4> SUFFICES ASSUME worker[w] # Null
                     PROVE  IsEmployee(p) /\ p.status = worker[w].status /\ p.left = worker[w].left
          OBVIOUS
        <4>1. IsEmployee(worker[w]) /\ "active" \in Roster \union Gone /\ TRUE \in BOOLEAN
          BY EmployeeThere DEF Roster
        <4> QED BY <4>1, EmployeeFields
      <3> HIDE DEF p
      <3>3. worker[w] # Null /\ worker[w].status \in Roster => ~ worker[w].left
        BY EmployeeThere
      <3> QED BY <3>1, <3>2, <3>3 DEF OfficeInv, OfficeTypeOK, OnRoster
    <2>2. worker' = [w \in Workers |-> worker'[w]]
      BY <1>1
    <2> QED BY <2>1, <2>2 DEF StaffKept
  <1> QED BY <1>1, <1>2, IdleHolds, EntriesUntouched, OfficeMovesOn

LEMMA EnrolKeepsOffice ==
    ASSUME OfficeInv, OneAtATime', NEW r \in Requests,
           \/ \E u \in Actors, w \in Workers, ids \in Picks : EnrolRead(r, u, w, ids)
           \/ Enrol(r)
    PROVE  OfficeInv'
  <1>1. ASSUME NEW u \in Actors, NEW w \in Workers, NEW ids \in Picks, EnrolRead(r, u, w, ids)
        PROVE  OfficeInv'
    <2> DEFINE q == [op |-> "enrol", worker |-> w, ids |-> ids, name |-> site[ids[1]].name]
    <2>1. req' = [req EXCEPT ![r] = q] /\ UNCHANGED <<worker, log>>
      BY <1>1 DEF EnrolRead, Start
    <2>2. q.op = "enrol" /\ q.worker = w
      OBVIOUS
    <2> HIDE DEF q
    <2>3. PICK nq : nq = q
      OBVIOUS
    <2>4. Holds(nq)' /\ nq # Idle
      BY <2>2, <2>3, IdleHolds DEF Holds
    <2> QED BY <2>1, <2>3, <2>4, OfficeLooksOn
  <1>2. ASSUME Enrol(r)
        PROVE  OfficeInv'
    <2> DEFINE w == req[r].worker
               p == NewWorker("active", req[r].ids, req[r].name)
    <2>1. /\ req[r].op = "enrol" /\ req' = [req EXCEPT ![r] = Idle] /\ log' = log
          /\ worker' = [worker EXCEPT ![w] = p] \/ worker' = worker
      BY <1>2 DEF Enrol, Finish
    <2>2. w \in Workers
      BY <2>1 DEF OfficeInv, Holds
    <2>3. IsEmployee(p) /\ ~ p.left
      BY DEF NewWorker, IsEmployee, EmployeeOf, Roster
    <2> HIDE DEF p
    <2>4. StaffKept
      BY <2>1, <2>2, <2>3, OneIsSaved, StaffUntouched
    <2> QED BY <2>1, <2>4, IdleHolds, EntriesUntouched, OfficeMovesOn
  <1> QED BY <1>1, <1>2

LEMMA EditReadsKeepOffice ==
    ASSUME OfficeInv, OneAtATime', NEW r \in Requests, NEW w \in Workers,
           \/ \E u \in Actors, ids \in Picks, status \in {"active", "inactive"} :
                 EditRead(r, u, w, ids, status)
           \/ \E u \in Actors, status \in {"active", "inactive"} : BulkStatusRead(r, u, w, status)
           \/ BulkMoveRead(r, w)
    PROVE  OfficeInv'
  <1>1. ASSUME NEW q, req' = [req EXCEPT ![r] = q], UNCHANGED <<worker, log>>,
               q.op = "edit", q.worker = w, q.copy = worker[w], IsEmployee(q.to),
               worker[w] # Null, worker[w].status \notin Gone,
               q.to.status \in Roster, q.to.left = worker[w].left
        PROVE  OfficeInv'
    <2>1. IsEmployee(worker[w]) /\ worker[w].status \in Roster /\ ~ worker[w].left
      BY <1>1, EmployeeThere
    <2>2. Holds(q)' /\ q # Idle
      BY <1>1, <2>1, IdleHolds DEF Holds
    <2> QED BY <1>1, <2>2, OfficeLooksOn
  <1>2. {"active", "inactive"} \subseteq Roster /\ TRUE \in BOOLEAN
    BY DEF Roster
  <1>3. ASSUME NEW u \in Actors, NEW ids \in Picks, NEW status \in {"active", "inactive"},
               EditRead(r, u, w, ids, status)
        PROVE  OfficeInv'
    <2> DEFINE all == ids \o Retained(u, w, ids)
               to == [worker[w] EXCEPT !.status = status, !.siteIds = all, !.siteName = site[all[1]].name]
               q == [op |-> "edit", worker |-> w, copy |-> worker[w], remark |-> FALSE, to |-> to]
    <2>1. /\ req' = [req EXCEPT ![r] = q] /\ UNCHANGED <<worker, log>>
          /\ worker[w] # Null /\ worker[w].status \notin Gone
      BY <1>3 DEF EditRead, Start, CanUseWorker
    <2>2. IsEmployee(to) /\ to.status = status /\ to.left = worker[w].left
      <3>1. IsEmployee(worker[w])
        BY <2>1, EmployeeThere
      <3>2. PICK i, n : i = all /\ n = site[all[1]].name
        OBVIOUS
      <3>3. to = [worker[w] EXCEPT !.status = status, !.siteIds = i, !.siteName = n]
        BY <3>2
      <3>4. status \in Roster \union Gone
        BY <1>2
      <3> HIDE DEF to
      <3> QED BY <1>2, <3>1, <3>3, <3>4, EmployeeFields
    <2> HIDE DEF to
    <2>3. q.op = "edit" /\ q.worker = w /\ q.copy = worker[w] /\ q.to = to
      OBVIOUS
    <2> HIDE DEF q
    <2> QED BY <1>1, <1>2, <2>1, <2>2, <2>3
  <1>4. ASSUME NEW u \in Actors, NEW status \in {"active", "inactive"}, BulkStatusRead(r, u, w, status)
        PROVE  OfficeInv'
    <2> DEFINE to == [worker[w] EXCEPT !.status = status]
               q == [op |-> "edit", worker |-> w, copy |-> worker[w], remark |-> FALSE, to |-> to]
    <2>1. /\ req' = [req EXCEPT ![r] = q] /\ UNCHANGED <<worker, log>>
          /\ worker[w] # Null /\ worker[w].status \notin Gone
      BY <1>4 DEF BulkStatusRead, Start, CanUseWorker
    <2>2. IsEmployee(to) /\ to.status = status /\ to.left = worker[w].left
      <3>1. IsEmployee(worker[w])
        BY <2>1, EmployeeThere
      <3> QED BY <1>2, <3>1, EmployeeFields
    <2> HIDE DEF to
    <2>3. q.op = "edit" /\ q.worker = w /\ q.copy = worker[w] /\ q.to = to
      OBVIOUS
    <2> HIDE DEF q
    <2> QED BY <1>1, <1>2, <2>1, <2>2, <2>3
  <1>5. ASSUME BulkMoveRead(r, w)
        PROVE  OfficeInv'
    <2> DEFINE all == <<req[r].site>> \o Retained(req[r].actor, w, <<req[r].site>>)
               to == [worker[w] EXCEPT !.siteIds = all, !.siteName = req[r].name]
               q == [op |-> "edit", worker |-> w, copy |-> worker[w], remark |-> TRUE, to |-> to]
    <2>1. /\ req' = [req EXCEPT ![r] = q] /\ UNCHANGED <<worker, log>>
          /\ worker[w] # Null /\ worker[w].status \notin Gone
      BY <1>5 DEF BulkMoveRead, Continue, CanUseWorker
    <2>2. IsEmployee(to) /\ to.status \in Roster /\ to.left = worker[w].left
      <3>1. IsEmployee(worker[w]) /\ worker[w].status \in Roster
        BY <2>1, EmployeeThere
      <3>2. PICK i, n : i = all /\ n = req[r].name
        OBVIOUS
      <3>3. to = [worker[w] EXCEPT !.siteIds = i, !.siteName = n]
        BY <3>2
      <3> HIDE DEF to
      <3>4. IsEmployee(to) /\ to.status = worker[w].status /\ to.left = worker[w].left
        BY <1>2, <3>1, <3>3, EmployeeFields
      <3> QED BY <3>1, <3>4
    <2> HIDE DEF to
    <2>3. q.op = "edit" /\ q.worker = w /\ q.copy = worker[w] /\ q.to = to
      OBVIOUS
    <2> HIDE DEF q
    <2> QED BY <1>1, <2>1, <2>2, <2>3
  <1> QED BY <1>3, <1>4, <1>5

LEMMA EditSaveKeepsOffice ==
    ASSUME OfficeInv, OneAtATime', NEW r \in Requests, EditSave(r)
    PROVE  OfficeInv'
  <1> DEFINE w == req[r].worker
             p == Written(worker[w], req[r].copy, req[r].to)
  <1>1. /\ req[r].op = "edit" /\ req' = [req EXCEPT ![r] = Idle] /\ log' = log
        /\ worker' = [worker EXCEPT ![w] = p] \/ worker' = worker
    BY DEF EditSave, Finish, Continue
  <1>2. /\ w \in Workers /\ IsEmployee(worker[w]) /\ req[r].copy = worker[w] /\ IsEmployee(req[r].to)
        /\ worker[w].status \in Roster /\ req[r].to.status \in Roster
        /\ ~ worker[w].left /\ ~ req[r].to.left
    BY <1>1 DEF OfficeInv, Holds
  <1>3. IsEmployee(p) /\ ~ p.left
    BY <1>2, WrittenIsEmployee
  <1> HIDE DEF p
  <1>4. StaffKept
    BY <1>1, <1>2, <1>3, OneIsSaved, StaffUntouched
  <1> QED BY <1>1, <1>4, IdleHolds, EntriesUntouched, OfficeMovesOn

LEMMA RestoreKeepsOffice ==
    ASSUME OfficeInv, OneAtATime', NEW r \in Requests,
           (\E u \in Actors, w \in Workers : RestoreRead(r, u, w)) \/ Restore(r)
    PROVE  OfficeInv'
  <1>1. ASSUME NEW u \in Actors, NEW w \in Workers, RestoreRead(r, u, w)
        PROVE  OfficeInv'
    <2> DEFINE q == [op |-> "restore", worker |-> w]
    <2>1. req' = [req EXCEPT ![r] = q] /\ UNCHANGED <<worker, log>> /\ worker[w] # Null
      BY <1>1 DEF RestoreRead, Start, CanUseWorker
    <2>2. q.op = "restore" /\ q.worker = w
      OBVIOUS
    <2> HIDE DEF q
    <2>3. PICK nq : nq = q
      OBVIOUS
    <2>4. Holds(nq)' /\ nq # Idle
      BY <2>1, <2>2, <2>3, EmployeeThere, IdleHolds DEF Holds
    <2> QED BY <2>1, <2>3, <2>4, OfficeLooksOn
  <1>2. ASSUME Restore(r)
        PROVE  OfficeInv'
    <2> DEFINE w == req[r].worker
               p == [worker[w] EXCEPT !.status = "active", !.left = FALSE]
    <2>1. /\ req[r].op = "restore" /\ req' = [req EXCEPT ![r] = Idle] /\ log' = log
          /\ worker' = [worker EXCEPT ![w] = p]
      BY <1>2 DEF Restore, Continue
    <2>2. w \in Workers /\ IsEmployee(worker[w])
      BY <2>1 DEF OfficeInv, Holds
    <2>3. IsEmployee(p) /\ ~ p.left
      <3>1. "active" \in Roster \union Gone /\ FALSE \in BOOLEAN
        BY DEF Roster
      <3> QED BY <2>2, <3>1, EmployeeFields
    <2> HIDE DEF p
    <2>4. StaffKept
      BY <2>1, <2>2, <2>3, OneIsSaved
    <2> QED BY <2>1, <2>4, IdleHolds, EntriesUntouched, OfficeMovesOn
  <1> QED BY <1>1, <1>2

LEMMA LeaveKeepsOffice ==
    ASSUME OfficeInv, OneAtATime', NEW r \in Requests,
           \/ \E w \in Workers, to \in Gone : LeaveRead(r, TopUser, w, to)
           \/ LeaveSave(r)
    PROVE  OfficeInv'
  <1>1. ASSUME NEW w \in Workers, NEW to \in Gone, LeaveRead(r, TopUser, w, to)
        PROVE  OfficeInv'
    <2> DEFINE q == [op |-> "leave", worker |-> w, copy |-> worker[w], to |-> to, saved |-> FALSE]
    <2>1. req' = [req EXCEPT ![r] = q] /\ UNCHANGED <<worker, log>> /\ worker[w] # Null
      BY <1>1 DEF LeaveRead, Start, CanUseWorker
    <2>2. q \in LeaveOf(worker[w]) /\ q.op = "leave" /\ q.worker = w /\ q.copy = worker[w]
      BY DEF LeaveOf
    <2> HIDE DEF q
    <2>3. PICK nq : nq = q
      OBVIOUS
    <2>4. Holds(nq)' /\ nq # Idle
      BY <2>1, <2>2, <2>3, EmployeeThere, IdleHolds DEF Holds
    <2> QED BY <2>1, <2>3, <2>4, OfficeLooksOn
  <1>2. ASSUME LeaveSave(r)
        PROVE  OfficeInv'
    <2> DEFINE w == req[r].worker
               to == [req[r].copy EXCEPT !.status = req[r].to]
               s == Written(worker[w], req[r].copy, to)
               p == [s EXCEPT !.left = TRUE]
               q == [req[r] EXCEPT !.saved = TRUE]
    <2>1. /\ req[r].op = "leave" /\ ~ req[r].saved /\ log' = log
          /\ worker' = [worker EXCEPT ![w] = p]
          /\ req' = [req EXCEPT ![r] = q] \/ req' = [req EXCEPT ![r] = Idle]
      BY <1>2 DEF LeaveSave, Continue
    <2>2. /\ w \in Workers /\ IsEmployee(worker[w]) /\ req[r].copy = worker[w]
          /\ \E copy : req[r] \in LeaveOf(copy)
      BY <2>1 DEF OfficeInv, Holds
    <2>3. req[r].to \in Gone /\ TRUE \in BOOLEAN
      BY <2>2 DEF LeaveOf
    <2>4. IsEmployee(to) /\ to.status = req[r].to
      <3>1. req[r].to \in Roster \union Gone /\ TRUE \in BOOLEAN
        BY <2>3
      <3> QED BY <2>2, <3>1, EmployeeFields
    <2> HIDE DEF to
    <2>5. IsEmployee(s) /\ s.status \in Gone
      BY <2>2, <2>3, <2>4, WrittenIsEmployee
    <2> HIDE DEF s
    <2>6. IsEmployee(p) /\ p.status = s.status
      <3>1. PICK i, n : s \in EmployeeOf(i, n)
        BY <2>5 DEF IsEmployee
      <3>2. p \in EmployeeOf(i, n) /\ p.status = s.status
        BY <3>1 DEF EmployeeOf
      <3> QED BY <3>2 DEF IsEmployee
    <2> HIDE DEF p
    <2>7. p.status \notin Roster
      BY <2>5, <2>6 DEF Gone, Roster
    <2>8. StaffKept
      BY <2>1, <2>2, <2>6, <2>7, OneIsSaved
    <2>9. q.op = "leave" /\ q.worker = w /\ q.saved /\ \E copy : q \in LeaveOf(copy)
      BY <2>2 DEF LeaveOf
    <2> HIDE DEF q
    <2>10. PICK nq : nq = q
      OBVIOUS
    <2>11. Holds(nq)'
      <3>1. IsEmployee(worker'[nq.worker])
        BY <2>2, <2>8, <2>9, <2>10 DEF StaffKept
      <3> QED BY <2>2, <2>9, <2>10, <3>1 DEF Holds
    <2> QED BY <2>1, <2>8, <2>10, <2>11, IdleHolds, EntriesUntouched, OfficeMovesOn
  <1> QED BY <1>1, <1>2

LEMMA LeaveLogKeepsOffice ==
    ASSUME OfficeInv, OneAtATime', NEW r \in Requests, LeaveLog(r)
    PROVE  OfficeInv'
  <1> DEFINE e == Entry("worker", req[r].worker)
  <1>1. /\ req[r].op = "leave" /\ worker' = worker /\ req' = [req EXCEPT ![r] = Idle]
        /\ log' = Append(log, e)
    BY DEF LeaveLog, Finish, Append1
  <1>2. req[r].worker \in Workers /\ IsEmployee(worker[req[r].worker])
    BY <1>1 DEF OfficeInv, Holds
  <1>3. e \in Registered /\ e.id = req[r].worker
    BY <1>2 DEF Entry, Registered
  <1> HIDE DEF e
  <1>4. EntriesKept
    <2>1. log \in Seq(Registered)
      BY DEF OfficeInv, OfficeTypeOK
    <2>2. /\ log' \in Seq(Registered) /\ DOMAIN log' = 1 .. Len(log) + 1 /\ DOMAIN log = 1 .. Len(log)
          /\ \A i \in 1 .. Len(log) : log'[i] = log[i]
          /\ log'[Len(log) + 1] = e
      BY <1>1, <1>3, <2>1
    <2>3. \A i \in DOMAIN log' : (i \in DOMAIN log /\ log'[i] = log[i]) \/ log'[i] = e
      BY <2>2
    <2>4. \A i \in DOMAIN log : log[i].kind = "worker" => IsEmployee(worker[log[i].id])
      BY DEF OfficeInv, EntriesNameEmployees
    <2> QED BY <1>2, <1>3, <2>2, <2>3, <2>4 DEF EntriesKept
  <1> QED BY <1>1, <1>4, StaffUntouched, IdleHolds, OfficeMovesOn

LEMMA UndoReadsKeepOffice ==
    ASSUME OfficeInv, OneAtATime', NEW r \in Requests,
           (\E e \in DOMAIN log : UndoReadEntry(r, e)) \/ UndoReadRecord(r)
    PROVE  OfficeInv'
  <1>1. ASSUME NEW e \in DOMAIN log, UndoReadEntry(r, e)
        PROVE  OfficeInv'
    <2> DEFINE q == [op |-> "undo", entry |-> e, phase |-> "entry"]
    <2>1. e \in Nat
      BY DEF OfficeInv, OfficeTypeOK
    <2>2. q \in UndoingOf /\ q.op = "undo" /\ q.entry = e
      BY <2>1 DEF UndoingOf
    <2>3. req' = [req EXCEPT ![r] = q] /\ UNCHANGED <<worker, log>>
      BY <1>1 DEF UndoReadEntry, Start
    <2> HIDE DEF q
    <2>4. PICK nq : nq = q
      OBVIOUS
    <2>5. Holds(nq)' /\ nq # Idle
      BY <2>2, <2>3, <2>4, IdleHolds DEF Holds
    <2> QED BY <2>3, <2>4, <2>5, OfficeLooksOn
  <1>2. ASSUME UndoReadRecord(r)
        PROVE  OfficeInv'
    <2> DEFINE q == [req[r] EXCEPT !.phase = "record"]
    <2>1. /\ req[r].op = "undo" /\ UNCHANGED <<worker, log>>
          /\ req' = [req EXCEPT ![r] = q] \/ req' = [req EXCEPT ![r] = Idle]
      BY <1>2 DEF UndoReadRecord, Continue, Finish
    <2>2. req[r] \in UndoingOf /\ req[r].entry \in DOMAIN log
      BY <2>1 DEF OfficeInv, Holds
    <2>3. q \in UndoingOf /\ q.op = "undo" /\ q.entry \in DOMAIN log
      BY <2>2 DEF UndoingOf
    <2> HIDE DEF q
    <2>4. PICK nq : nq = q
      OBVIOUS
    <2>5. Holds(nq)'
      BY <2>1, <2>3, <2>4 DEF Holds
    <2> QED BY <2>1, <2>4, <2>5, IdleHolds, OfficeLooksOn
  <1> QED BY <1>1, <1>2

LEMMA UndoSavesKeepOffice ==
    ASSUME OfficeInv, OneAtATime', NEW r \in Requests, UndoSaveRecord(r) \/ UndoSaveEntry(r)
    PROVE  OfficeInv'
  <1> DEFINE n == req[r].entry
  <1>1. req[r].op = "undo"
    BY DEF UndoSaveRecord, UndoSaveEntry
  <1>2. req[r] \in UndoingOf /\ n \in DOMAIN log /\ log \in Seq(Registered) /\ log[n] \in Registered
    BY <1>1 DEF OfficeInv, OfficeTypeOK, Holds
  <1>3. CASE UndoSaveRecord(r)
    <2> DEFINE w == log[n].id
               p == [worker[w] EXCEPT !.status = "archived"]
               q == [req[r] EXCEPT !.phase = "saved"]
    <2>1. /\ log' = log /\ req' = [req EXCEPT ![r] = q]
          /\ IF log[n].kind = "worker" THEN worker' = [worker EXCEPT ![w] = p] ELSE worker' = worker
      BY <1>3 DEF UndoSaveRecord, Continue
    <2>2. q \in UndoingOf /\ q.op = "undo" /\ q.entry = n
      BY <1>2 DEF UndoingOf
    <2> HIDE DEF q
    <2>3. StaffKept
      <3>1. CASE log[n].kind = "worker"
        <4>1. w \in Workers /\ IsEmployee(worker[w])
          BY <1>2, <3>1 DEF Registered, OfficeInv, EntriesNameEmployees
        <4>2. IsEmployee(p) /\ p.status = "archived"
          <5>1. "archived" \in Roster \union Gone /\ TRUE \in BOOLEAN
            BY DEF Gone
          <5> QED BY <4>1, <5>1, EmployeeFields
        <4>3. p.status \notin Roster
          BY <4>2 DEF Roster
        <4> QED BY <2>1, <3>1, <4>1, <4>2, <4>3, OneIsSaved
      <3>2. CASE log[n].kind # "worker"
        BY <2>1, <3>2, StaffUntouched
      <3> QED BY <3>1, <3>2
    <2>4. PICK nq : nq = q
      OBVIOUS
    <2>5. Holds(nq)'
      BY <1>2, <2>1, <2>2, <2>4 DEF Holds
    <2> QED BY <1>1, <2>1, <2>3, <2>4, <2>5, IdleHolds, EntriesUntouched, OfficeMovesOn
  <1>4. CASE UndoSaveEntry(r)
    <2> DEFINE e == [log[n] EXCEPT !.undone = TRUE]
    <2>1. /\ worker' = worker /\ req' = [req EXCEPT ![r] = Idle] /\ log' = [log EXCEPT ![n] = e]
      BY <1>4 DEF UndoSaveEntry, Finish
    <2>2. e \in Registered /\ e.kind = log[n].kind /\ e.id = log[n].id
      BY <1>2 DEF Registered
    <2> HIDE DEF e
    <2>3. /\ log' \in Seq(Registered) /\ DOMAIN log' = DOMAIN log
          /\ \A i \in DOMAIN log : log'[i] = IF i = n THEN e ELSE log[i]
      BY <1>2, <2>1, <2>2
    <2>4. EntriesKept
      BY <2>2, <2>3 DEF EntriesKept, OfficeInv, EntriesNameEmployees
    <2> QED BY <1>1, <2>1, <2>4, StaffUntouched, IdleHolds, OfficeMovesOn
  <1> QED BY <1>3, <1>4

LEMMA OfficeInvStutters ==
    ASSUME OfficeInv, UNCHANGED <<worker, log, req>>
    PROVE  OfficeInv'
  BY DEF OfficeInv, OfficeTypeOK, Holds, EntriesNameEmployees, OneAtATime, RosterHasNotLeft, OnRoster

LEMMA AtMostOneRequest ==
    ASSUME Cardinality({r \in Requests : req'[r] # Idle}) <= 1
    PROVE  OneAtATime'
  <1> SUFFICES ASSUME NEW r \in Requests, NEW q \in Requests, req'[r] # Idle, req'[q] # Idle, r # q
               PROVE  FALSE
    BY DEF OneAtATime, Idle
  <1> DEFINE busy == {v \in Requests : req'[v] # Idle}
  <1>1. {r, q} \subseteq busy /\ busy \subseteq Requests
    OBVIOUS
  <1>2. IsFiniteSet(busy)
    BY <1>1, FS_Subset, OfficeAssumption
  <1>3. Cardinality({r, q}) <= Cardinality(busy) /\ Cardinality(busy) \in Nat
    BY <1>1, <1>2, FS_Subset, FS_CardinalityType
  <1>4. Cardinality({r, q}) = 2
    <2>1. IsFiniteSet({r}) /\ Cardinality({r}) = 1
      BY FS_Singleton
    <2>2. {r, q} = {r} \union {q} /\ q \notin {r}
      OBVIOUS
    <2> QED BY <2>1, <2>2, FS_AddElement
  <1> QED BY <1>3, <1>4

\* What the run's scenario does, for any office and any number of employees.
OfficeNext ==
    /\ Branching \/ Siting \/ Enrolling \/ Editing \/ Leaving \/ Undoing
    /\ Cardinality({r \in Requests : req'[r] # Idle}) <= 1

LEMMA OfficeInvStep ==
    ASSUME OfficeInv, OfficeNext
    PROVE  OfficeInv'
  <1>1. OneAtATime'
    BY AtMostOneRequest DEF OfficeNext
  <1>2. CASE Branching
    <2>1. ASSUME NEW b \in Branches, CreateBranch(b)
          PROVE  OfficeInv'
      BY <2>1, OfficeInvStutters DEF CreateBranch
    <2> QED BY <1>1, <1>2, <2>1, SitesKeepOffice DEF Branching
  <1>3. CASE Siting
    BY <1>1, <1>3, SitesKeepOffice, EditSiteKeepsOffice, RenameKeepsOffice DEF Siting
  <1>4. CASE Enrolling
    BY <1>1, <1>4, EnrolKeepsOffice DEF Enrolling
  <1>5. CASE Editing
    <2>1. ASSUME NEW u \in Actors, NEW w \in Workers, AddRemark(u, w)
          PROVE  OfficeInv'
      BY <2>1, OfficeInvStutters DEF AddRemark
    <2>2. PICK r \in Requests :
            \/ \E u \in Actors, w \in Workers :
                  \/ \E ids \in Picks, status \in {"active", "inactive"} : EditRead(r, u, w, ids, status)
                  \/ \E status \in {"active", "inactive"} : BulkStatusRead(r, u, w, status)
                  \/ RestoreRead(r, u, w)
                  \/ AddRemark(u, w)
            \/ \E u \in Actors, s \in Sites : BulkMoveSite(r, u, s)
            \/ \E w \in Workers : BulkMoveRead(r, w)
            \/ EditSave(r) \/ Restore(r)
      BY <1>5 DEF Editing
    <2>3. ASSUME NEW u \in Actors, NEW w \in Workers,
                 \/ \E ids \in Picks, status \in {"active", "inactive"} : EditRead(r, u, w, ids, status)
                 \/ \E status \in {"active", "inactive"} : BulkStatusRead(r, u, w, status)
                 \/ RestoreRead(r, u, w)
          PROVE  OfficeInv'
      BY <1>1, <2>3, EditReadsKeepOffice, RestoreKeepsOffice
    <2>4. ASSUME NEW w \in Workers, BulkMoveRead(r, w)
          PROVE  OfficeInv'
      BY <1>1, <2>4, EditReadsKeepOffice
    <2> QED BY <1>1, <2>1, <2>2, <2>3, <2>4, SitesKeepOffice, EditSaveKeepsOffice, RestoreKeepsOffice
  <1>6. CASE Leaving
    BY <1>1, <1>6, LeaveKeepsOffice, LeaveLogKeepsOffice DEF Leaving
  <1>7. CASE Undoing
    BY <1>1, <1>7, UndoReadsKeepOffice, UndoSavesKeepOffice DEF Undoing, Undo
  <1> QED BY <1>2, <1>3, <1>4, <1>5, <1>6, <1>7 DEF OfficeNext

LEMMA OfficeInvInit ==
    ASSUME NEW S \in SUBSET Sites, S # {}, NEW W \in SUBSET Workers, NEW N \in SUBSET Names, NEW A,
           Opened({FirstBranch}, S, W, N, A)
    PROVE  OfficeInv
  <1>1. ClosingInv /\ \A w \in Workers : OnRoster(w) => ~ worker[w].left
    BY OpenedIsSound, OfficeAssumption
  <1>2. req = [r \in Requests |-> Idle] /\ log = << >>
    BY DEF Opened
  <1>3. log \in Seq(Registered) /\ DOMAIN log = {}
    BY <1>2
  <1>4. \A p \in Person : IsEmployee(p)
    <2> TAKE p \in Person
    <2>1. p \in EmployeeOf(p.siteIds, p.siteName)
      BY DEF Person, EmployeeOf
    <2> QED BY <2>1 DEF IsEmployee
  <1>5. OfficeTypeOK
    BY <1>1, <1>2, <1>3, <1>4 DEF ClosingInv, ClosingTypeOK, OfficeTypeOK
  <1>6. \A r \in Requests : Holds(req[r])
    BY <1>2 DEF Holds, Idle
  <1>7. EntriesNameEmployees /\ OneAtATime
    BY <1>2, <1>3 DEF EntriesNameEmployees, OneAtATime
  <1> QED BY <1>1, <1>5, <1>6, <1>7 DEF OfficeInv, RosterHasNotLeft

\* Who left comes back on the roster only by a restore, which clears the leaving date: in
\* the closings and the deletions however many requests interleave, in the other handlers
\* one request at a time (workers.ts:489).
THEOREM ReturnsAreRestores == MCSpec => []OnRosterHasNotLeft
  <1> DEFINE Inv == /\ scenario \in {"closings", "deletions"} => LeavingInv
                    /\ scenario = "office" => OfficeInv
                    /\ scenario \in {"closings", "deletions", "requests", "office"}
  <1>1. MCInit => Inv
    <2> SUFFICES ASSUME MCInit PROVE Inv
      OBVIOUS
    <2>1. scenario \in {"closings", "deletions", "requests", "office"}
      BY DEF MCInit
    <2>2. PICK n, m, N, managed : OpenedWith(n, m, N, managed) /\ n \in {1, 2} /\ N \in {{DefaultName}, Names}
      BY DEF MCInit
    <2>3. PICK S \in kSubset(n, Sites), W \in kSubset(m, Workers) :
            Opened({FirstBranch}, S, W, N, IF managed THEN S ELSE {})
      BY <2>2 DEF OpenedWith
    <2>4. S \in SUBSET Sites /\ S # {} /\ W \in SUBSET Workers
      <3>1. S \in SUBSET Sites /\ Cardinality(S) = n /\ W \in SUBSET Workers
        BY <2>3 DEF kSubset
      <3> QED BY <2>2, <3>1, FS_EmptySet
    <2>5. N \in SUBSET Names
      BY <2>2, OfficeAssumption
    <2> QED BY <2>1, <2>3, <2>4, <2>5, LeavingInvInit, OfficeInvInit
  <1>2. Inv /\ [MCNext]_mcVars => Inv'
    <2> SUFFICES ASSUME Inv, [MCNext]_mcVars PROVE Inv'
      OBVIOUS
    <2>1. CASE UNCHANGED mcVars
      BY <2>1, LeavingInvStutters, OfficeInvStutters DEF mcVars, allVars, vars
    <2>2. CASE MCNext
      <3>1. CASE Closings
        BY <2>2, <3>1, LeavingInvStep DEF MCNext, Closings
      <3>2. CASE Deletions
        BY <2>2, <3>2, LeavingInvStep DEF MCNext, Deletions
      <3>3. CASE Answers
        BY <2>2, <3>3 DEF MCNext, Answers
      <3>4. CASE Office
        BY <2>2, <3>4, OfficeInvStep DEF MCNext, Office, OfficeNext
      <3> QED BY <2>2, <3>1, <3>2, <3>3, <3>4 DEF MCNext
    <2> QED BY <2>1, <2>2
  <1>3. Inv => OnRosterHasNotLeft
    BY DEF OnRosterHasNotLeft, LeavingInv, OfficeInv, RosterHasNotLeft
  <1> QED BY <1>1, <1>2, <1>3, PTL DEF MCSpec

-----------------------------------------------------------------------------
(* The site name copied onto an employee, while sites are renamed and employees are  *)
(* enrolled, edited and moved, one request at a time                                 *)

\* How Retained goes through an employee's list.
Sifts(iter, u, w, picked) ==
    iter = [s \in SUBSET DOMAIN worker[w].siteIds |->
               IF s = {} THEN << >>
               ELSE LET x  == Max(s)
                        at == worker[w].siteIds[x]
                    IN  IF CanUseSite(u, at) \/ at \in ToSet(picked)
                        THEN iter[s \ {x}] ELSE Append(iter[s \ {x}], at)]

LEMMA SiftsThrough ==
    ASSUME NEW u, NEW w, NEW picked
    PROVE  Retained(u, w, picked)
              = (CHOOSE iter : Sifts(iter, u, w, picked))[DOMAIN worker[w].siteIds]
  BY DEF Retained, FoldLeft, MapThenFoldSet, Sifts

\* Retained builds its list over growing parts of the employee's.
BuildsUp(iter, u, w, picked) ==
    LET ids == worker[w].siteIds IN
    /\ iter[{}] = << >>
    /\ \A s \in SUBSET (1 .. Len(ids)) : s # {} =>
          /\ Max(s) \in s
          /\ iter[s] = IF CanUseSite(u, ids[Max(s)]) \/ ids[Max(s)] \in ToSet(picked)
                       THEN iter[s \ {Max(s)}]
                       ELSE Append(iter[s \ {Max(s)}], ids[Max(s)])
    /\ Retained(u, w, picked) = iter[1 .. Len(ids)]

LEMMA RetainedBuildsUp ==
    ASSUME NEW u, NEW w, NEW picked, worker[w].siteIds \in Seq(Sites)
    PROVE  \E iter : BuildsUp(iter, u, w, picked)
  <1> DEFINE ids  == worker[w].siteIds
             S    == 1 .. Len(ids)
             out(i) == CanUseSite(u, ids[i]) \/ ids[i] \in ToSet(picked)
             pick == [s \in (SUBSET S) \ {{}} |-> Max(s)]
             h    == [p \in S \X Seq(Sites) |-> IF out(p[1]) THEN p[2] ELSE Append(p[2], ids[p[1]])]
  <1>1. Len(ids) \in Nat /\ DOMAIN ids = S /\ IsFiniteSet(S) /\ \A i \in S : ids[i] \in Sites
    <2>1. PICK l \in Seq(Sites) : l = ids
      OBVIOUS
    <2>2. Len(l) \in Nat /\ DOMAIN l = 1 .. Len(l) /\ \A i \in 1 .. Len(l) : l[i] \in Sites
      OBVIOUS
    <2>3. IsFiniteSet(1 .. Len(l))
      BY <2>2, FS_Interval
    <2> QED BY <2>1, <2>2, <2>3
  <1> HIDE DEF ids
  <1>2. pick \in Picking(S) /\ \A s \in (SUBSET S) \ {{}} : pick[s] = Max(s)
    BY <1>1, MaxOfSome DEF Picking
  <1>3. /\ h \in [S \X Seq(Sites) -> Seq(Sites)]
        /\ \A i \in S, l \in Seq(Sites) : h[<<i, l>>] = IF out(i) THEN l ELSE Append(l, ids[i])
    <2> HIDE DEF out
    <2>1. \A i \in S, l \in Seq(Sites) : Append(l, ids[i]) \in Seq(Sites)
      BY <1>1
    <2> QED BY <2>1
  <1> HIDE DEF pick, h
  <1>4. \E iter : Sifts(iter, u, w, picked)
    <2>1. PICK A : A = Seq(Sites)
      OBVIOUS
    <2>2. << >> \in A
      BY <2>1
    <2>3. PICK iter : IsFold(iter, S, A, << >>, h, pick)
      BY <1>1, <1>2, <1>3, <2>1, <2>2, FoldExists
    <2>4. ASSUME NEW s \in SUBSET S, s # {}
          PROVE  iter[s] = IF out(Max(s)) THEN iter[s \ {Max(s)}] ELSE Append(iter[s \ {Max(s)}], ids[Max(s)])
      <3> HIDE DEF out
      <3>1. pick[s] = Max(s) /\ Max(s) \in S /\ s \ {Max(s)} \in SUBSET S
        BY <1>1, <1>2, <2>4, MaxOfSome
      <3>2. iter[s] = h[<<pick[s], iter[s \ {pick[s]}]>>]
        BY <2>3, <2>4 DEF IsFold, Folding
      <3>3. iter[s \ {Max(s)}] \in Seq(Sites)
        BY <2>1, <2>3, <3>1 DEF IsFold
      <3> QED BY <1>3, <3>1, <3>2, <3>3
    <2>5. iter[{}] = << >> /\ iter = [s \in SUBSET S |-> iter[s]]
      BY <2>3 DEF IsFold, Folding
    <2>6. iter = [s \in SUBSET S |->
                     IF s = {} THEN << >>
                     ELSE IF out(Max(s)) THEN iter[s \ {Max(s)}]
                                         ELSE Append(iter[s \ {Max(s)}], ids[Max(s)])]
      <3> HIDE DEF out
      <3> QED BY <2>4, <2>5
    <2> QED BY <1>1, <2>6 DEF Sifts, ids
  <1> DEFINE iter == CHOOSE iter : Sifts(iter, u, w, picked)
  <1>5. /\ iter[{}] = << >>
        /\ \A s \in SUBSET S : s # {} =>
              iter[s] = IF out(Max(s)) THEN iter[s \ {Max(s)}] ELSE Append(iter[s \ {Max(s)}], ids[Max(s)])
    <2>1. Sifts(iter, u, w, picked)
      BY <1>4
    <2> HIDE DEF iter
    <2> QED BY <1>1, <2>1 DEF Sifts, ids
  <1> HIDE DEF iter, out
  <1>6. \A s \in SUBSET S : s # {} => Max(s) \in s
    BY <1>1, MaxOfSome
  <1>7. Retained(u, w, picked) = iter[S]
    BY <1>1, SiftsThrough DEF iter, ids
  <1>8. BuildsUp(iter, u, w, picked)
    BY <1>5, <1>6, <1>7 DEF BuildsUp, ids, out
  <1> QED BY <1>8

\* What stays of an employee's sites is a list of sites.
LEMMA RetainedIsList ==
    ASSUME NEW u, NEW w, NEW picked, worker[w].siteIds \in Seq(Sites)
    PROVE  Retained(u, w, picked) \in Seq(Sites)
  <1> DEFINE ids == worker[w].siteIds
             S   == 1 .. Len(ids)
  <1>1. Len(ids) \in Nat /\ IsFiniteSet(S) /\ \A i \in S : ids[i] \in Sites
    <2>1. PICK l \in Seq(Sites) : l = ids
      OBVIOUS
    <2>2. Len(l) \in Nat /\ \A i \in 1 .. Len(l) : l[i] \in Sites
      OBVIOUS
    <2>3. IsFiniteSet(1 .. Len(l))
      BY <2>2, FS_Interval
    <2> QED BY <2>1, <2>2, <2>3
  <1>2. PICK iter : BuildsUp(iter, u, w, picked)
    BY RetainedBuildsUp
  <1> DEFINE out(i) == CanUseSite(u, ids[i]) \/ ids[i] \in ToSet(picked)
             Bad    == {s \in SUBSET S : iter[s] \notin Seq(Sites)}
  <1>3. /\ iter[{}] = << >>
        /\ \A s \in SUBSET S : s # {} =>
              /\ Max(s) \in s
              /\ iter[s] = IF out(Max(s)) THEN iter[s \ {Max(s)}] ELSE Append(iter[s \ {Max(s)}], ids[Max(s)])
        /\ Retained(u, w, picked) = iter[S]
    BY <1>2 DEF BuildsUp
  <1> HIDE DEF ids, out
  <1>4. ASSUME NEW s \in Bad, \A x \in s : s \ {x} \notin Bad
        PROVE  FALSE
    <2>1. s # {}
      <3>1. << >> \in Seq(Sites) /\ iter[s] \notin Seq(Sites)
        BY <1>4
      <3> QED BY <1>3, <3>1
    <2>2. Max(s) \in s /\ Max(s) \in S /\ s \ {Max(s)} \in SUBSET S
      BY <1>3, <2>1
    <2>3. iter[s \ {Max(s)}] \in Seq(Sites)
      BY <1>4, <2>2
    <2>4. Append(iter[s \ {Max(s)}], ids[Max(s)]) \in Seq(Sites)
      BY <1>1, <2>2, <2>3
    <2> QED BY <1>3, <1>4, <2>1, <2>3, <2>4
  <1>5. Bad = {}
    <2> HIDE DEF Bad
    <2>1. Bad \in SUBSET SUBSET S
      BY DEF Bad
    <2> QED BY <1>1, <1>4, <2>1, SmallestSet
  <1> QED BY <1>3, <1>5

\* A list of sites, with the name of the first.
WellNamed(ids, name) ==
    ids \in Seq(Sites) /\ ids # << >> /\ site[ids[1]] \in SiteRecord /\ name = site[ids[1]].name

\* An employee's sites are there; the copied name is the primary's, or the renaming of that
\* site is still on its way.
Renames(q, s) == q.op = "editSite" /\ q.saved /\ q.site = s

Housed(p, q) ==
    LET s == p.siteIds[1]
    IN  /\ p.siteIds \in Seq(Sites) /\ p.siteIds # << >> /\ site[s] \in SiteRecord
        /\ p.siteName = site[s].name \/ Renames(q, s)

CreateSiteOf == [op : {"createSite"}, site : Sites, branch : Branches, name : Names]

\* What the request in flight knows of the names it will write.
NamesKnown(q) ==
    /\ q.op = "createSite" => q \in CreateSiteOf
    /\ q.op = "editSite" => /\ site[q.site] \in SiteRecord
                            /\ (IF q.saved THEN q.name ELSE q.before) = site[q.site].name
    /\ q.op = "enrol" => WellNamed(q.ids, q.name)
    /\ q.op = "moveTo" => WellNamed(<<q.site>>, q.name)
    /\ q.op = "edit" => WellNamed(q.to.siteIds, q.to.siteName)
    /\ q.op \in {"leave", "restore"} => q.worker \in Workers /\ worker[q.worker] # Null

\* Only employees are deleted, and they stay there.
EntriesNameStaff ==
    \A e \in DOMAIN log :
        log[e].kind = "worker" /\ log[e].id \in Workers /\ worker[log[e].id] # Null

\* The inductive invariant of the copied names, on top of the leaving dates'.
NamesInv ==
    /\ site \in [Sites -> SiteRecord \union {Null}]
    /\ EntriesNameStaff
    /\ \A r \in Requests : NamesKnown(req[r])
    /\ \A w \in Workers : worker[w] # Null =>
          \/ WellNamed(worker[w].siteIds, worker[w].siteName)
          \/ \E r \in Requests : Housed(worker[w], req[r])

LEMMA EmptyNames ==
    ASSUME NEW q, q.op \notin {"createSite", "editSite", "enrol", "moveTo", "edit", "leave", "restore"}
    PROVE  NamesKnown(q)' /\ NamesKnown(q)
  BY DEF NamesKnown

LEMMA BusyIsNotIdle == \A q : q.op # "idle" => q # Idle
  BY DEF Idle

\* What a request holds and knows.
LEMMA InHand ==
    ASSUME OfficeInv, NamesInv, NEW r \in Requests
    PROVE  Holds(req[r]) /\ NamesKnown(req[r])
  BY DEF OfficeInv, NamesInv

LEMMA WellNamedIsHoused ==
    ASSUME NEW p, NEW q, WellNamed(p.siteIds, p.siteName)
    PROVE  Housed(p, q)
  BY DEF WellNamed, Housed

LEMMA HousedIsWellNamed ==
    ASSUME NEW p, NEW q, Housed(p, q), q.op # "editSite" \/ ~ q.saved
    PROVE  WellNamed(p.siteIds, p.siteName)
  BY DEF WellNamed, Housed, Renames

\* The employees when r is the only request, or there is none.
LEMMA OnlyOneRenames ==
    ASSUME NamesInv, NEW r \in Requests, \A q \in Requests \ {r} : req[q] = Idle,
           NEW w \in Workers, worker[w] # Null
    PROVE  Housed(worker[w], req[r])
  <1>1. CASE WellNamed(worker[w].siteIds, worker[w].siteName)
    BY <1>1, WellNamedIsHoused
  <1>2. ASSUME NEW q \in Requests, Housed(worker[w], req[q])
        PROVE  Housed(worker[w], req[r])
    <2>1. CASE q # r
      <3>1. req[q].op # "editSite"
        BY <2>1 DEF Idle
      <3> QED BY <1>2, <3>1, HousedIsWellNamed, WellNamedIsHoused
    <2> QED BY <1>2, <2>1
  <1> QED BY <1>1, <1>2 DEF NamesInv

\* Whoever else is at work has nothing in hand.
LEMMA OthersAreIdle ==
    ASSUME OfficeInv, NEW r \in Requests, NEW nq, req' = [req EXCEPT ![r] = nq],
           nq # Idle \/ req[r] # Idle, OneAtATime'
    PROVE  /\ req'[r] = nq
           /\ \A q \in Requests \ {r} : req[q] = Idle /\ req'[q] = Idle
  <1>1. req'[r] = nq /\ \A q \in Requests \ {r} : req'[q] = req[q]
    BY DEF OfficeInv, OfficeTypeOK
  <1> QED BY <1>1 DEF OfficeInv, OneAtATime

\* The next request of r knows its names, and the employees are housed with it.
LEMMA NamesMoveOn ==
    ASSUME OfficeInv, NamesInv, NEW r \in Requests, NEW nq, req' = [req EXCEPT ![r] = nq],
           nq # Idle \/ req[r] # Idle, OneAtATime',
           site' \in [Sites -> SiteRecord \union {Null}],
           EntriesNameStaff', NamesKnown(nq)',
           \A w \in Workers : worker'[w] # Null => Housed(worker[w], nq)'
    PROVE  NamesInv'
  <1>1. req'[r] = nq /\ \A q \in Requests \ {r} : req'[q] = Idle
    BY OthersAreIdle
  <1>2. NamesKnown(Idle)' /\ Idle.op = "idle"
    BY EmptyNames DEF Idle
  <1>3. \A q \in Requests : NamesKnown(req[q])'
    BY <1>1, <1>2 DEF NamesKnown
  <1>4. \A w \in Workers : worker'[w] # Null => Housed(worker[w], req[r])'
    BY <1>1 DEF Housed, Renames
  <1> QED BY <1>3, <1>4 DEF NamesInv

\* A step that writes no site, no employee and no entry.
LEMMA NamesLookOn ==
    ASSUME OfficeInv, NamesInv, NEW r \in Requests, NEW nq, req' = [req EXCEPT ![r] = nq],
           nq # Idle \/ req[r] # Idle, OneAtATime', UNCHANGED <<site, worker, log>>,
           req[r].op # "editSite" \/ ~ req[r].saved, NamesKnown(nq)
    PROVE  NamesInv'
  <1>1. \A q \in Requests \ {r} : req[q] = Idle
    BY OthersAreIdle
  <1>2. \A w \in Workers : worker'[w] # Null => Housed(worker[w], nq)'
    <2> SUFFICES ASSUME NEW w \in Workers, worker[w] # Null
                 PROVE  Housed(worker[w], nq)'
      OBVIOUS
    <2>1. WellNamed(worker[w].siteIds, worker[w].siteName)
      BY <1>1, OnlyOneRenames, HousedIsWellNamed
    <2>2. Housed(worker[w], nq)
      BY <2>1, WellNamedIsHoused
    <2> QED BY <2>2 DEF Housed
  <1>3. NamesKnown(nq)'
    BY DEF NamesKnown, WellNamed
  <1> QED BY <1>2, <1>3, NamesMoveOn DEF NamesInv, EntriesNameStaff

LEMMA EmployeeIsThere ==
    ASSUME NEW p, IsEmployee(p), WellNamed(p.siteIds, p.siteName)
    PROVE  p # Null
  <1>1. p.siteIds \in Seq(Sites) /\ p.siteName \in Names
    BY DEF WellNamed, SiteRecord
  <1>2. p \in [status : Roster \union Gone, siteIds : Seq(Sites), siteName : Names, left : BOOLEAN]
    BY <1>1 DEF IsEmployee, EmployeeOf
  <1> QED BY <1>2, OfficeAssumption

\* One employee is saved, with the name of his primary site.
LEMMA NamesAreSaved ==
    ASSUME OfficeInv, NamesInv, NEW r \in Requests, NEW nq, req' = [req EXCEPT ![r] = nq],
           nq # Idle \/ req[r] # Idle, OneAtATime', UNCHANGED <<site, log>>,
           req[r].op # "editSite", NamesKnown(nq),
           NEW w \in Workers, NEW p, worker' = [worker EXCEPT ![w] = p] \/ worker' = worker,
           IsEmployee(p), WellNamed(p.siteIds, p.siteName)
    PROVE  NamesInv'
  <1>1. \A q \in Requests \ {r} : req[q] = Idle
    BY OthersAreIdle
  <1>2. \A v \in Workers : worker'[v] = worker[v] \/ worker'[v] = p
    BY DEF OfficeInv, OfficeTypeOK
  <1>3. \A v \in Workers : worker'[v] # Null => Housed(worker[v], nq)'
    <2> SUFFICES ASSUME NEW v \in Workers, worker'[v] # Null
                 PROVE  Housed(worker[v], nq)'
      OBVIOUS
    <2>1. worker[v] # Null => WellNamed(worker[v].siteIds, worker[v].siteName)
      BY <1>1, OnlyOneRenames, HousedIsWellNamed
    <2>2. WellNamed(worker'[v].siteIds, worker'[v].siteName)
      BY <1>2, <2>1
    <2> QED BY <2>2 DEF Housed, WellNamed
  <1>4. \A v \in Workers : worker[v] # Null => worker'[v] # Null
    BY <1>2, EmployeeIsThere
  <1>5. NamesKnown(nq)' /\ EntriesNameStaff'
    BY <1>4 DEF NamesKnown, WellNamed, NamesInv, EntriesNameStaff
  <1> QED BY <1>3, <1>5, NamesMoveOn DEF NamesInv

LEMMA SiteThere ==
    ASSUME NamesInv, NEW s \in Sites, site[s] # Null
    PROVE  site[s] \in SiteRecord /\ WellNamed(<<s>>, site[s].name)
  <1>1. site[s] \in SiteRecord
    BY DEF NamesInv
  <1>2. <<s>> \in Seq(Sites) /\ <<s>> # << >> /\ <<s>>[1] = s
    OBVIOUS
  <1> QED BY <1>1, <1>2 DEF WellNamed

LEMMA SitesKeepNames ==
    ASSUME OfficeInv, NamesInv, OneAtATime', NEW r \in Requests,
           \/ \E b \in Branches : DeleteBranchCount(r, b)
           \/ DeleteBranch(r)
           \/ \E s \in Sites, b \in Branches, n \in Names : CreateSiteRead(r, s, b, n)
           \/ \E u \in Actors, s \in Sites : BulkMoveSite(r, u, s)
    PROVE  NamesInv'
  <1>1. ASSUME NEW q, req' = [req EXCEPT ![r] = q], UNCHANGED <<site, worker, log>>, req[r] = Idle,
               q.op \in {"deleteBranch", "createSite", "moveTo"}, NamesKnown(q)
        PROVE  NamesInv'
    <2>1. q # Idle /\ req[r].op # "editSite"
      BY <1>1 DEF Idle
    <2> QED BY <1>1, <2>1, NamesLookOn
  <1>2. ASSUME NEW b \in Branches, DeleteBranchCount(r, b)
        PROVE  NamesInv'
    <2>1. PICK q : q = [op |-> "deleteBranch", branch |-> b]
      OBVIOUS
    <2>2. req' = [req EXCEPT ![r] = q] /\ UNCHANGED <<site, worker, log>> /\ req[r] = Idle
      BY <1>2, <2>1 DEF DeleteBranchCount, Start
    <2>3. q.op = "deleteBranch"
      BY <2>1
    <2> QED BY <1>1, <2>2, <2>3, EmptyNames
  <1>3. ASSUME NEW s \in Sites, NEW b \in Branches, NEW n \in Names, CreateSiteRead(r, s, b, n)
        PROVE  NamesInv'
    <2>1. PICK q : q = [op |-> "createSite", site |-> s, branch |-> b, name |-> n]
      OBVIOUS
    <2>2. req' = [req EXCEPT ![r] = q] /\ UNCHANGED <<site, worker, log>> /\ req[r] = Idle
      BY <1>3, <2>1 DEF CreateSiteRead, Start
    <2>3. q.op = "createSite" /\ q \in CreateSiteOf
      BY <2>1 DEF CreateSiteOf
    <2> QED BY <1>1, <2>2, <2>3 DEF NamesKnown
  <1>4. ASSUME NEW u \in Actors, NEW s \in Sites, BulkMoveSite(r, u, s)
        PROVE  NamesInv'
    <2>1. PICK q : q = [op |-> "moveTo", actor |-> u, site |-> s, name |-> site[s].name]
      OBVIOUS
    <2>2. req' = [req EXCEPT ![r] = q] /\ UNCHANGED <<site, worker, log>> /\ req[r] = Idle /\ site[s] # Null
      BY <1>4, <2>1 DEF BulkMoveSite, Start, SiteIs
    <2>3. q.op = "moveTo" /\ q.site = s /\ q.name = site[s].name
      BY <2>1
    <2>4. NamesKnown(q)
      BY <2>2, <2>3, SiteThere DEF NamesKnown
    <2> QED BY <1>1, <2>2, <2>3, <2>4
  <1>5. ASSUME DeleteBranch(r)
        PROVE  NamesInv'
    <2>1. /\ req' = [req EXCEPT ![r] = Idle] /\ UNCHANGED <<site, worker, log>>
          /\ req[r].op = "deleteBranch" /\ req[r] # Idle
      BY <1>5 DEF DeleteBranch, Finish, Idle
    <2>2. NamesKnown(Idle)
      BY EmptyNames DEF Idle
    <2> QED BY <2>1, <2>2, NamesLookOn
  <1> QED BY <1>2, <1>3, <1>4, <1>5

\* The sites after a step that keeps those that are there, and the name of every site but
\* the one being renamed.
LEMMA SitesAreKept ==
    ASSUME OfficeInv, NamesInv, NEW r \in Requests, NEW nq, req' = [req EXCEPT ![r] = nq],
           nq # Idle \/ req[r] # Idle, OneAtATime', UNCHANGED <<worker, log>>,
           req[r].op # "editSite" \/ ~ req[r].saved,
           site' \in [Sites -> SiteRecord \union {Null}], NamesKnown(nq)',
           \A s \in Sites : site[s] \in SiteRecord =>
              site'[s] \in SiteRecord /\ (site'[s].name = site[s].name \/ Renames(nq, s))
    PROVE  NamesInv'
  <1>1. \A q \in Requests \ {r} : req[q] = Idle
    BY OthersAreIdle
  <1>2. \A w \in Workers : worker'[w] # Null => Housed(worker[w], nq)'
    <2> SUFFICES ASSUME NEW w \in Workers, worker[w] # Null
                 PROVE  Housed(worker[w], nq)'
      OBVIOUS
    <2> DEFINE ids == worker[w].siteIds
    <2>1. WellNamed(ids, worker[w].siteName)
      BY <1>1, OnlyOneRenames, HousedIsWellNamed
    <2>2. ids[1] \in Sites
      BY <2>1 DEF WellNamed
    <2> QED BY <2>1, <2>2 DEF WellNamed, Housed, Renames
  <1> QED BY <1>2, NamesMoveOn DEF NamesInv, EntriesNameStaff

LEMMA CreateSiteKeepsNames ==
    ASSUME OfficeInv, NamesInv, OneAtATime', NEW r \in Requests, CreateSite(r)
    PROVE  NamesInv'
  <1> DEFINE s == req[r].site
             new == NewSite(req[r].branch, req[r].name)
  <1>1. /\ req[r].op = "createSite" /\ req' = [req EXCEPT ![r] = Idle] /\ UNCHANGED <<worker, log>>
        /\ site' = IF site[s] = Null THEN [site EXCEPT ![s] = new] ELSE site
    BY DEF CreateSite, Finish
  <1>2. s \in Sites /\ new \in SiteRecord
    <2>1. req[r] \in CreateSiteOf
      BY <1>1 DEF NamesInv, NamesKnown
    <2> QED BY <2>1 DEF CreateSiteOf, NewSite, SiteRecord
  <1> HIDE DEF new
  <1>3. site \in [Sites -> SiteRecord \union {Null}]
    BY DEF NamesInv
  <1>4. site' \in [Sites -> SiteRecord \union {Null}]
    BY <1>1, <1>2, <1>3
  <1>5. \A v \in Sites : site[v] \in SiteRecord => site'[v] = site[v]
    BY <1>1, <1>2, <1>3, SiteIsThere
  <1>6. NamesKnown(Idle)' /\ req[r] # Idle
    BY <1>1, EmptyNames DEF Idle
  <1> QED BY <1>1, <1>4, <1>5, <1>6, SitesAreKept

LEMMA EditSiteKeepsNames ==
    ASSUME OfficeInv, NamesInv, OneAtATime', NEW r \in Requests,
           \/ \E s \in Sites, b \in Branches, n \in Names : EditSiteRead(r, s, b, n)
           \/ EditSite(r)
    PROVE  NamesInv'
  <1>1. ASSUME NEW s \in Sites, NEW b \in Branches, NEW n \in Names, EditSiteRead(r, s, b, n)
        PROVE  NamesInv'
    <2>1. PICK q : q = [op |-> "editSite", site |-> s, branch |-> b, name |-> n,
                        before |-> site[s].name, saved |-> FALSE]
      OBVIOUS
    <2>2. req' = [req EXCEPT ![r] = q] /\ UNCHANGED <<site, worker, log>> /\ req[r] = Idle /\ site[s] # Null
      BY <1>1, <2>1 DEF EditSiteRead, Start
    <2>3. q.op = "editSite" /\ q.site = s /\ q.before = site[s].name /\ ~ q.saved
      BY <2>1
    <2>4. NamesKnown(q)
      BY <2>2, <2>3, SiteThere DEF NamesKnown
    <2>5. q # Idle /\ req[r].op # "editSite"
      BY <2>2, <2>3 DEF Idle
    <2> QED BY <2>2, <2>4, <2>5, NamesLookOn
  <1>2. ASSUME EditSite(r)
        PROVE  NamesInv'
    <2> DEFINE q == req[r]
               s == q.site
               new == [site[s] EXCEPT !.branch = q.branch, !.name = q.name]
    <2>1. PICK nq : nq = IF q.before = q.name THEN Idle ELSE [q EXCEPT !.saved = TRUE]
      OBVIOUS
    <2>2. /\ q.op = "editSite" /\ ~ q.saved /\ UNCHANGED <<worker, log>>
          /\ site' = [site EXCEPT ![s].branch = q.branch, ![s].name = q.name]
          /\ req' = [req EXCEPT ![r] = nq]
      BY <1>2, <2>1 DEF EditSite, Finish, Continue
    <2>3. PICK before : q \in EditSiteOf(before)
      BY <2>2 DEF OfficeInv, Holds
    <2>4. s \in Sites /\ site[s] \in SiteRecord /\ q.before = site[s].name /\ q # Idle
      BY <2>2, <2>3, InHand, BusyIsNotIdle DEF NamesKnown, EditSiteOf
    <2>5. new \in SiteRecord /\ new.name = q.name
      BY <2>3, <2>4 DEF SiteRecord, EditSiteOf
    <2>6. site' \in [Sites -> SiteRecord \union {Null}] /\ site' = [site EXCEPT ![s] = new]
      <3>1. site \in [Sites -> SiteRecord \union {Null}]
        BY DEF NamesInv
      <3>2. site' = [site EXCEPT ![s] = new]
        BY <2>2, <2>4, <3>1
      <3> HIDE DEF new
      <3> QED BY <2>4, <2>5, <3>1, <3>2
    <2>7. site'[s] = new /\ \A v \in Sites \ {s} : site'[v] = site[v]
      <3>1. site \in [Sites -> SiteRecord \union {Null}]
        BY DEF NamesInv
      <3> HIDE DEF new
      <3> QED BY <2>4, <2>6, <3>1
    <2> HIDE DEF new
    <2>8. NamesKnown(nq)' /\ (q.name = site[s].name \/ Renames(nq, s))
      <3>1. CASE q.before = q.name
        BY <2>1, <2>4, <3>1, EmptyNames DEF Idle
      <3>2. CASE q.before # q.name
        <4>1. nq.op = "editSite" /\ nq.site = s /\ nq.name = q.name /\ nq.saved
          BY <2>1, <2>3, <3>2 DEF EditSiteOf
        <4> QED BY <2>5, <2>7, <4>1 DEF NamesKnown, Renames
      <3> QED BY <3>1, <3>2
    <2>9. \A v \in Sites : site[v] \in SiteRecord =>
             site'[v] \in SiteRecord /\ (site'[v].name = site[v].name \/ Renames(nq, v))
      BY <2>5, <2>7, <2>8
    <2> QED BY <2>2, <2>4, <2>6, <2>8, <2>9, SitesAreKept
  <1> QED BY <1>1, <1>2

LEMMA RenameKeepsNames ==
    ASSUME OfficeInv, NamesInv, OneAtATime', NEW r \in Requests, RenameOnWorkers(r)
    PROVE  NamesInv'
  <1> DEFINE q == req[r]
  <1>1. /\ q.op = "editSite" /\ q.saved /\ req' = [req EXCEPT ![r] = Idle] /\ UNCHANGED <<site, log>>
        /\ worker' = [w \in Workers |-> IF worker[w] # Null /\ SiteId(w) = q.site
                                        THEN [worker[w] EXCEPT !.siteName = q.name]
                                        ELSE worker[w]]
    BY DEF RenameOnWorkers, Finish
  <1>2. q.name = site[q.site].name /\ q # Idle
    BY <1>1, InHand, BusyIsNotIdle DEF NamesKnown
  <1>3. \A v \in Requests \ {r} : req[v] = Idle
    BY <1>1, <1>2, OthersAreIdle
  <1>4. \A w \in Workers : worker'[w] # Null => Housed(worker[w], Idle)'
    <2> SUFFICES ASSUME NEW w \in Workers, worker'[w] # Null
                 PROVE  Housed(worker[w], Idle)'
      OBVIOUS
    <2>1. worker[w] # Null
      BY <1>1
    <2>2. Housed(worker[w], q) /\ IsEmployee(worker[w])
      BY <1>3, <2>1, OnlyOneRenames, EmployeeThere
    <2>3. CASE SiteId(w) = q.site
      <3>1. worker'[w] = [worker[w] EXCEPT !.siteName = q.name]
        BY <1>1, <2>1, <2>3
      <3>2. worker'[w].siteIds = worker[w].siteIds /\ worker'[w].siteName = q.name
        BY <2>2, <3>1 DEF IsEmployee, EmployeeOf
      <3> QED BY <1>1, <1>2, <2>2, <2>3, <3>2 DEF Housed, SiteId
    <2>4. CASE SiteId(w) # q.site
      <3>1. worker'[w] = worker[w]
        BY <1>1, <2>1, <2>4
      <3> QED BY <1>1, <2>2, <2>4, <3>1 DEF Housed, Renames, SiteId
    <2> QED BY <2>3, <2>4
  <1>5. NamesKnown(Idle)'
    BY EmptyNames DEF Idle
  <1>6. \A w \in Workers : worker[w] # Null => worker'[w] # Null
    <2> SUFFICES ASSUME NEW w \in Workers, worker[w] # Null
                 PROVE  worker'[w] # Null
      OBVIOUS
    <2> DEFINE p == [worker[w] EXCEPT !.siteName = q.name]
    <2>1. Housed(worker[w], q) /\ IsEmployee(worker[w])
      BY <1>3, OnlyOneRenames, EmployeeThere
    <2>2. ASSUME SiteId(w) = q.site
          PROVE  p # Null
      <3>1. p.siteIds = worker[w].siteIds /\ p.siteName = q.name /\ p \in EmployeeOf(p.siteIds, p.siteName)
        BY <2>1 DEF IsEmployee, EmployeeOf
      <3> HIDE DEF p
      <3>2. IsEmployee(p)
        BY <3>1 DEF IsEmployee
      <3>3. WellNamed(p.siteIds, p.siteName)
        BY <1>2, <2>1, <2>2, <3>1 DEF Housed, WellNamed, SiteId
      <3> QED BY <3>2, <3>3, EmployeeIsThere
    <2>3. worker'[w] = IF SiteId(w) = q.site THEN p ELSE worker[w]
      BY <1>1
    <2> HIDE DEF p
    <2> QED BY <2>2, <2>3
  <1>7. site' \in [Sites -> SiteRecord \union {Null}] /\ EntriesNameStaff'
    BY <1>1, <1>6 DEF NamesInv, EntriesNameStaff
  <1> QED BY <1>1, <1>2, <1>4, <1>5, <1>7, NamesMoveOn

\* What a form can name are the lists that are not empty.
LEMMA PicksAreNonemptyLists == Picks = Lists \ {<< >>}
  <1>1. ASSUME NEW ids \in Picks
        PROVE  ids \in Lists \ {<< >>}
    <2>1. PICK S \in SUBSET Sites : ids \in SetToSeqs(S)
      BY DEF Picks, SetToAllKPermutations
    <2>2. S # {}
      <3> SUFFICES ASSUME S = {} PROVE FALSE
        OBVIOUS
      <3>1. ids \in [1 .. 0 -> {}]
        BY <2>1, FS_EmptySet DEF SetToSeqs
      <3>2. ids = << >>
        BY <3>1
      <3> QED BY <3>2 DEF Picks
    <2> QED BY <2>1, <2>2, PickedLists DEF Picks
  <1>2. ASSUME NEW ids \in Lists \ {<< >>}
        PROVE  ids \in Picks
    <2> DEFINE S == {ids[i] : i \in 1 .. Len(ids)}
    <2>1. /\ ids \in Seq(Sites) /\ Len(ids) \in Nat /\ DOMAIN ids = 1 .. Len(ids)
          /\ \A i, j \in 1 .. Len(ids) : ids[i] = ids[j] => i = j
      BY DEF Lists
    <2>2. ids \in [1 .. Len(ids) -> S] /\ S \in SUBSET Sites
      BY <2>1
    <2>3. Cardinality(S) = Len(ids)
      <3>1. \A v \in S : \E i \in 1 .. Len(ids) : ids[i] = v
        OBVIOUS
      <3> HIDE DEF S
      <3>2. ids \in Bijection(1 .. Len(ids), S)
        BY <2>1, <2>2, <3>1 DEF Bijection, Injection, Surjection, IsInjective
      <3> QED BY <2>1, <3>2, FS_CountingElements DEF ExistsBijection
    <2> HIDE DEF S
    <2>4. ids \in SetToSeqs(S)
      BY <2>1, <2>2, <2>3 DEF SetToSeqs
    <2> QED BY <2>2, <2>4 DEF Picks, SetToAllKPermutations
  <1> QED BY <1>1, <1>2

LEMMA PicksAreLists ==
    ASSUME NEW ids \in Picks
    PROVE  ids \in Seq(Sites) /\ ids # << >> /\ 1 \in DOMAIN ids
  BY PicksAreNonemptyLists DEF Lists

\* An employee who is there while nothing is renamed.
LEMMA StaffIsWellNamed ==
    ASSUME OfficeInv, NamesInv, NEW r \in Requests, NEW nq, req' = [req EXCEPT ![r] = nq],
           nq # Idle \/ req[r] # Idle, OneAtATime', req[r].op # "editSite",
           NEW w \in Workers, worker[w] # Null
    PROVE  IsEmployee(worker[w]) /\ WellNamed(worker[w].siteIds, worker[w].siteName)
  <1>1. \A q \in Requests \ {r} : req[q] = Idle
    BY OthersAreIdle
  <1> QED BY <1>1, OnlyOneRenames, HousedIsWellNamed, EmployeeThere

LEMMA EnrolKeepsNames ==
    ASSUME OfficeInv, NamesInv, OneAtATime', NEW r \in Requests,
           \/ \E u \in Actors, w \in Workers, ids \in Picks : EnrolRead(r, u, w, ids)
           \/ Enrol(r)
    PROVE  NamesInv'
  <1>1. ASSUME NEW u \in Actors, NEW w \in Workers, NEW ids \in Picks, EnrolRead(r, u, w, ids)
        PROVE  NamesInv'
    <2>1. PICK q : q = [op |-> "enrol", worker |-> w, ids |-> ids, name |-> site[ids[1]].name]
      OBVIOUS
    <2>2. /\ req' = [req EXCEPT ![r] = q] /\ UNCHANGED <<site, worker, log>> /\ req[r] = Idle
          /\ \A s \in ToSet(ids) : site[s] # Null
      BY <1>1, <2>1 DEF EnrolRead, Start
    <2>3. q.op = "enrol" /\ q.ids = ids /\ q.name = site[ids[1]].name
      BY <2>1
    <2>4. ids \in Seq(Sites) /\ ids # << >> /\ 1 \in DOMAIN ids
      BY PicksAreLists
    <2>5. ids[1] \in Sites /\ site[ids[1]] # Null
      BY <2>2, <2>4 DEF ToSet
    <2>6. NamesKnown(q)
      BY <2>3, <2>4, <2>5, SiteThere DEF NamesKnown, WellNamed
    <2>7. q # Idle /\ req[r].op # "editSite"
      BY <2>2, <2>3 DEF Idle
    <2> QED BY <2>2, <2>6, <2>7, NamesLookOn
  <1>2. ASSUME Enrol(r)
        PROVE  NamesInv'
    <2>1. PICK p : p = NewWorker("active", req[r].ids, req[r].name)
      OBVIOUS
    <2>2. /\ req[r].op = "enrol" /\ req' = [req EXCEPT ![r] = Idle] /\ UNCHANGED <<site, log>>
          /\ worker' = [worker EXCEPT ![req[r].worker] = p] \/ worker' = worker
      BY <1>2, <2>1 DEF Enrol, Finish
    <2>3. req[r].worker \in Workers /\ WellNamed(req[r].ids, req[r].name) /\ req[r] # Idle
      BY <2>2, InHand, BusyIsNotIdle DEF Holds, NamesKnown
    <2>4. IsEmployee(p) /\ WellNamed(p.siteIds, p.siteName)
      <3>1. p.siteIds = req[r].ids /\ p.siteName = req[r].name
        BY <2>1 DEF NewWorker
      <3>2. IsEmployee(p)
        BY <2>1 DEF NewWorker, IsEmployee, EmployeeOf, Roster
      <3> QED BY <2>3, <3>1, <3>2
    <2>5. NamesKnown(Idle)
      BY EmptyNames DEF Idle
    <2> QED BY <2>2, <2>3, <2>4, <2>5, NamesAreSaved
  <1> QED BY <1>1, <1>2

LEMMA EditReadsKeepNames ==
    ASSUME OfficeInv, NamesInv, OneAtATime', NEW r \in Requests, NEW w \in Workers,
           \/ \E u \in Actors, ids \in Picks, status \in {"active", "inactive"} :
                 EditRead(r, u, w, ids, status)
           \/ \E u \in Actors, status \in {"active", "inactive"} : BulkStatusRead(r, u, w, status)
           \/ BulkMoveRead(r, w)
    PROVE  NamesInv'
  <1>1. ASSUME NEW q, req' = [req EXCEPT ![r] = q], UNCHANGED <<site, worker, log>>,
               req[r] = Idle \/ req[r].op = "moveTo", q.op = "edit", WellNamed(q.to.siteIds, q.to.siteName)
        PROVE  NamesInv'
    <2>1. q # Idle /\ req[r].op # "editSite"
      BY <1>1 DEF Idle
    <2>2. NamesKnown(q)
      BY <1>1 DEF NamesKnown
    <2> QED BY <1>1, <2>1, <2>2, NamesLookOn
  <1>2. ASSUME NEW q, req' = [req EXCEPT ![r] = q], req[r] = Idle \/ req[r].op = "moveTo", q.op = "edit",
               worker[w] # Null
        PROVE  IsEmployee(worker[w]) /\ WellNamed(worker[w].siteIds, worker[w].siteName)
    <2>1. q # Idle /\ req[r].op # "editSite"
      BY <1>2 DEF Idle
    <2> QED BY <1>2, <2>1, StaffIsWellNamed
  <1>3. ASSUME NEW u \in Actors, NEW ids \in Picks, NEW status \in {"active", "inactive"},
               EditRead(r, u, w, ids, status)
        PROVE  NamesInv'
    <2> DEFINE all == ids \o Retained(u, w, ids)
               to == [worker[w] EXCEPT !.status = status, !.siteIds = all, !.siteName = site[all[1]].name]
    <2>1. PICK q : q = [op |-> "edit", worker |-> w, copy |-> worker[w], remark |-> FALSE, to |-> to]
      OBVIOUS
    <2>2. /\ req' = [req EXCEPT ![r] = q] /\ UNCHANGED <<site, worker, log>> /\ req[r] = Idle
          /\ worker[w] # Null /\ \A s \in ToSet(all) : site[s] # Null
      BY <1>3, <2>1 DEF EditRead, Start, CanUseWorker
    <2>3. q.op = "edit" /\ q.to = to
      BY <2>1
    <2>4. IsEmployee(worker[w]) /\ worker[w].siteIds \in Seq(Sites)
      BY <1>2, <2>2, <2>3 DEF WellNamed
    <2>5. all \in Seq(Sites) /\ all # << >> /\ 1 \in DOMAIN all
      <3>1. ids \in Seq(Sites) /\ ids # << >> /\ Retained(u, w, ids) \in Seq(Sites)
        BY <2>4, PicksAreLists, RetainedIsList
      <3>2. all \in Seq(Sites) /\ Len(all) = Len(ids) + Len(Retained(u, w, ids))
        BY <3>1
      <3>3. Len(ids) > 0 /\ Len(Retained(u, w, ids)) \in Nat
        BY <3>1
      <3> QED BY <3>2, <3>3
    <2> HIDE DEF all
    <2>6. all[1] \in Sites /\ site[all[1]] # Null
      BY <2>2, <2>5 DEF ToSet
    <2>7. to.siteIds = all /\ to.siteName = site[all[1]].name
      BY <2>4 DEF IsEmployee, EmployeeOf
    <2>8. WellNamed(to.siteIds, to.siteName)
      BY <2>5, <2>6, <2>7, SiteThere DEF WellNamed
    <2> HIDE DEF to
    <2> QED BY <1>1, <2>2, <2>3, <2>8
  <1>4. ASSUME NEW u \in Actors, NEW status \in {"active", "inactive"}, BulkStatusRead(r, u, w, status)
        PROVE  NamesInv'
    <2> DEFINE to == [worker[w] EXCEPT !.status = status]
    <2>1. PICK q : q = [op |-> "edit", worker |-> w, copy |-> worker[w], remark |-> FALSE, to |-> to]
      OBVIOUS
    <2>2. /\ req' = [req EXCEPT ![r] = q] /\ UNCHANGED <<site, worker, log>> /\ req[r] = Idle
          /\ worker[w] # Null
      BY <1>4, <2>1 DEF BulkStatusRead, Start, CanUseWorker
    <2>3. q.op = "edit" /\ q.to = to
      BY <2>1
    <2>4. IsEmployee(worker[w]) /\ WellNamed(worker[w].siteIds, worker[w].siteName)
      BY <1>2, <2>2, <2>3
    <2>5. to.siteIds = worker[w].siteIds /\ to.siteName = worker[w].siteName
      BY <2>4 DEF IsEmployee, EmployeeOf
    <2> HIDE DEF to
    <2> QED BY <1>1, <2>2, <2>3, <2>4, <2>5
  <1>5. ASSUME BulkMoveRead(r, w)
        PROVE  NamesInv'
    <2> DEFINE s == req[r].site
               rest == Retained(req[r].actor, w, <<s>>)
               all == <<s>> \o rest
               to == [worker[w] EXCEPT !.siteIds = all, !.siteName = req[r].name]
    <2>1. PICK q : q = [op |-> "edit", worker |-> w, copy |-> worker[w], remark |-> TRUE, to |-> to]
      OBVIOUS
    <2>2. /\ req' = [req EXCEPT ![r] = q] /\ UNCHANGED <<site, worker, log>> /\ req[r].op = "moveTo"
          /\ worker[w] # Null
      BY <1>5, <2>1 DEF BulkMoveRead, Continue, CanUseWorker
    <2>3. q.op = "edit" /\ q.to = to
      BY <2>1
    <2>4. IsEmployee(worker[w]) /\ worker[w].siteIds \in Seq(Sites)
      BY <1>2, <2>2, <2>3 DEF WellNamed
    <2>5. WellNamed(<<s>>, req[r].name)
      BY <2>2 DEF NamesInv, NamesKnown
    <2>6. all \in Seq(Sites) /\ all # << >> /\ all[1] = s
      <3>1. <<s>> \in Seq(Sites) /\ Len(<<s>>) = 1 /\ <<s>>[1] = s
        BY <2>5 DEF WellNamed
      <3>2. rest \in Seq(Sites) /\ Len(rest) \in Nat
        BY <2>4, RetainedIsList
      <3> HIDE DEF rest
      <3>3. all \in Seq(Sites) /\ Len(all) = 1 + Len(rest) /\ all[1] = s
        BY <3>1, <3>2
      <3> QED BY <3>2, <3>3
    <2> HIDE DEF all
    <2>7. to.siteIds = all /\ to.siteName = req[r].name
      BY <2>4 DEF IsEmployee, EmployeeOf
    <2>8. WellNamed(to.siteIds, to.siteName)
      BY <2>5, <2>6, <2>7 DEF WellNamed
    <2> HIDE DEF to
    <2> QED BY <1>1, <2>2, <2>3, <2>8
  <1> QED BY <1>3, <1>4, <1>5

LEMMA EditSaveKeepsNames ==
    ASSUME OfficeInv, NamesInv, OneAtATime', NEW r \in Requests, EditSave(r)
    PROVE  NamesInv'
  <1> DEFINE w == req[r].worker
  <1>1. PICK p : p = Written(worker[w], req[r].copy, req[r].to)
    OBVIOUS
  <1>2. /\ req[r].op = "edit" /\ req' = [req EXCEPT ![r] = Idle] /\ UNCHANGED <<site, log>>
        /\ worker' = [worker EXCEPT ![w] = p] \/ worker' = worker
    BY <1>1 DEF EditSave, Finish, Continue
  <1>3. /\ w \in Workers /\ IsEmployee(worker[w]) /\ req[r].copy = worker[w]
        /\ IsEmployee(req[r].to) /\ WellNamed(req[r].to.siteIds, req[r].to.siteName) /\ req[r] # Idle
    BY <1>2, InHand, BusyIsNotIdle DEF Holds, NamesKnown
  <1>4. p.siteIds = req[r].to.siteIds /\ p.siteName = req[r].to.siteName
    BY <1>1, <1>3 DEF Written, IsEmployee, EmployeeOf
  <1>5. IsEmployee(p) /\ WellNamed(p.siteIds, p.siteName)
    BY <1>1, <1>3, <1>4, WrittenIsEmployee
  <1>6. NamesKnown(Idle)
    BY EmptyNames DEF Idle
  <1> QED BY <1>2, <1>3, <1>5, <1>6, NamesAreSaved

LEMMA RestoreKeepsNames ==
    ASSUME OfficeInv, NamesInv, OneAtATime', NEW r \in Requests,
           (\E u \in Actors, w \in Workers : RestoreRead(r, u, w)) \/ Restore(r)
    PROVE  NamesInv'
  <1>1. ASSUME NEW u \in Actors, NEW w \in Workers, RestoreRead(r, u, w)
        PROVE  NamesInv'
    <2>1. PICK q : q = [op |-> "restore", worker |-> w]
      OBVIOUS
    <2>2. /\ req' = [req EXCEPT ![r] = q] /\ UNCHANGED <<site, worker, log>> /\ req[r] = Idle
          /\ worker[w] # Null
      BY <1>1, <2>1 DEF RestoreRead, Start, CanUseWorker
    <2>3. q.op = "restore" /\ q.worker = w
      BY <2>1
    <2>4. q # Idle /\ req[r].op # "editSite" /\ NamesKnown(q)
      BY <2>2, <2>3 DEF Idle, NamesKnown
    <2> QED BY <2>2, <2>4, NamesLookOn
  <1>2. ASSUME Restore(r)
        PROVE  NamesInv'
    <2> DEFINE w == req[r].worker
    <2>1. PICK p : p = [worker[w] EXCEPT !.status = "active", !.left = FALSE]
      OBVIOUS
    <2>2. /\ req[r].op = "restore" /\ req' = [req EXCEPT ![r] = Idle] /\ UNCHANGED <<site, log>>
          /\ worker' = [worker EXCEPT ![w] = p]
      BY <1>2, <2>1 DEF Restore, Continue
    <2>3. w \in Workers /\ IsEmployee(worker[w]) /\ worker[w] # Null /\ req[r] # Idle
      BY <2>2, InHand, BusyIsNotIdle DEF Holds, NamesKnown
    <2>4. WellNamed(worker[w].siteIds, worker[w].siteName)
      BY <2>2, <2>3, StaffIsWellNamed
    <2>5. IsEmployee(p) /\ p.siteIds = worker[w].siteIds /\ p.siteName = worker[w].siteName
      <3>1. PICK i, n : worker[w] \in EmployeeOf(i, n)
        BY <2>3 DEF IsEmployee
      <3>2. p \in EmployeeOf(i, n) /\ p.siteIds = i /\ p.siteName = n
        BY <2>1, <3>1 DEF EmployeeOf, Roster
      <3> QED BY <3>1, <3>2 DEF IsEmployee, EmployeeOf
    <2>6. NamesKnown(Idle)
      BY EmptyNames DEF Idle
    <2> QED BY <2>2, <2>3, <2>4, <2>5, <2>6, NamesAreSaved
  <1> QED BY <1>1, <1>2

LEMMA LeaveKeepsNames ==
    ASSUME OfficeInv, NamesInv, OneAtATime', NEW r \in Requests,
           \/ \E w \in Workers, to \in Gone : LeaveRead(r, TopUser, w, to)
           \/ LeaveSave(r)
    PROVE  NamesInv'
  <1>1. ASSUME NEW w \in Workers, NEW to \in Gone, LeaveRead(r, TopUser, w, to)
        PROVE  NamesInv'
    <2>1. PICK q : q = [op |-> "leave", worker |-> w, copy |-> worker[w], to |-> to, saved |-> FALSE]
      OBVIOUS
    <2>2. /\ req' = [req EXCEPT ![r] = q] /\ UNCHANGED <<site, worker, log>> /\ req[r] = Idle
          /\ worker[w] # Null
      BY <1>1, <2>1 DEF LeaveRead, Start, CanUseWorker
    <2>3. q.op = "leave" /\ q.worker = w
      BY <2>1
    <2>4. q # Idle /\ req[r].op # "editSite" /\ NamesKnown(q)
      BY <2>2, <2>3 DEF Idle, NamesKnown
    <2> QED BY <2>2, <2>4, NamesLookOn
  <1>2. ASSUME LeaveSave(r)
        PROVE  NamesInv'
    <2> DEFINE w == req[r].worker
    <2>1. PICK to : to = [req[r].copy EXCEPT !.status = req[r].to]
      OBVIOUS
    <2>2. PICK p : p = [Written(worker[w], req[r].copy, to) EXCEPT !.left = TRUE]
      OBVIOUS
    <2>3. PICK nq : nq = IF req[r].to = "deleted" THEN [req[r] EXCEPT !.saved = TRUE] ELSE Idle
      OBVIOUS
    <2>4. /\ req[r].op = "leave" /\ ~ req[r].saved /\ UNCHANGED <<site, log>>
          /\ worker' = [worker EXCEPT ![w] = p] /\ req' = [req EXCEPT ![r] = nq]
      BY <1>2, <2>1, <2>2, <2>3 DEF LeaveSave, Continue
    <2>5. /\ w \in Workers /\ IsEmployee(worker[w]) /\ worker[w] # Null /\ req[r].copy = worker[w]
          /\ req[r] # Idle /\ \E copy : req[r] \in LeaveOf(copy)
      BY <2>4, InHand, BusyIsNotIdle DEF Holds, NamesKnown
    <2>6. WellNamed(worker[w].siteIds, worker[w].siteName)
      BY <2>4, <2>5, StaffIsWellNamed
    <2>7. to = [worker[w] EXCEPT !.status = req[r].to] /\ req[r].to \in Gone
      BY <2>1, <2>5 DEF LeaveOf
    <2>8. PICK i, n : worker[w] \in EmployeeOf(i, n)
      BY <2>5 DEF IsEmployee
    <2>9. to \in EmployeeOf(i, n)
      BY <2>7, <2>8 DEF EmployeeOf
    <2>10. Written(worker[w], req[r].copy, to) \in EmployeeOf(i, n)
      BY <2>8, <2>9 DEF Written, EmployeeOf
    <2>11. p \in EmployeeOf(i, n)
      BY <2>2, <2>10 DEF EmployeeOf
    <2>12. IsEmployee(p) /\ p.siteIds = worker[w].siteIds /\ p.siteName = worker[w].siteName
      BY <2>8, <2>11 DEF IsEmployee, EmployeeOf
    <2>13. NamesKnown(nq)
      <3>1. CASE req[r].to = "deleted"
        <4>1. nq.op = "leave" /\ nq.worker = w
          BY <2>3, <2>5, <3>1 DEF LeaveOf
        <4> QED BY <2>5, <4>1 DEF NamesKnown
      <3>2. CASE req[r].to # "deleted"
        BY <2>3, <3>2, EmptyNames DEF Idle
      <3> QED BY <3>1, <3>2
    <2> QED BY <2>4, <2>5, <2>6, <2>12, <2>13, NamesAreSaved
  <1> QED BY <1>1, <1>2

\* A step that only writes the register.
LEMMA EntriesKeepNames ==
    ASSUME OfficeInv, NamesInv, OneAtATime', NEW r \in Requests, req' = [req EXCEPT ![r] = Idle],
           req[r].op \in {"leave", "undo"}, UNCHANGED <<site, worker>>, EntriesNameStaff'
    PROVE  NamesInv'
  <1>1. req[r] # Idle /\ req[r].op # "editSite" /\ NamesKnown(Idle)'
    BY EmptyNames DEF Idle
  <1>2. \A w \in Workers : worker'[w] # Null => Housed(worker[w], Idle)'
    <2> SUFFICES ASSUME NEW w \in Workers, worker[w] # Null
                 PROVE  Housed(worker[w], Idle)'
      OBVIOUS
    <2>1. WellNamed(worker[w].siteIds, worker[w].siteName)
      BY <1>1, StaffIsWellNamed
    <2> QED BY <2>1 DEF Housed, WellNamed
  <1> QED BY <1>1, <1>2, NamesMoveOn DEF NamesInv

LEMMA LeaveLogKeepsNames ==
    ASSUME OfficeInv, NamesInv, OneAtATime', NEW r \in Requests, LeaveLog(r)
    PROVE  NamesInv'
  <1> DEFINE e == Entry("worker", req[r].worker)
  <1>1. /\ req[r].op = "leave" /\ UNCHANGED <<site, worker>> /\ req' = [req EXCEPT ![r] = Idle]
        /\ log' = Append(log, e)
    BY DEF LeaveLog, Finish, Append1
  <1>2. req[r].worker \in Workers /\ worker[req[r].worker] # Null
    BY <1>1 DEF NamesInv, NamesKnown
  <1>3. e \in Registered /\ e.kind = "worker" /\ e.id = req[r].worker
    BY <1>2 DEF Entry, Registered
  <1> HIDE DEF e
  <1>4. log \in Seq(Registered)
    BY DEF OfficeInv, OfficeTypeOK
  <1>5. \A i \in DOMAIN log' : (i \in DOMAIN log /\ log'[i] = log[i]) \/ log'[i] = e
    BY <1>1, <1>3, <1>4
  <1>6. EntriesNameStaff'
    BY <1>1, <1>2, <1>3, <1>5 DEF NamesInv, EntriesNameStaff
  <1> QED BY <1>1, <1>6, EntriesKeepNames

LEMMA UndoKeepsNames ==
    ASSUME OfficeInv, NamesInv, OneAtATime', NEW r \in Requests,
           \/ \E e \in DOMAIN log : UndoReadEntry(r, e)
           \/ UndoReadRecord(r)
           \/ UndoSaveRecord(r)
           \/ UndoSaveEntry(r)
    PROVE  NamesInv'
  <1>1. ASSUME NEW e \in DOMAIN log, UndoReadEntry(r, e)
        PROVE  NamesInv'
    <2>1. PICK q : q = [op |-> "undo", entry |-> e, phase |-> "entry"]
      OBVIOUS
    <2>2. req' = [req EXCEPT ![r] = q] /\ UNCHANGED <<site, worker, log>> /\ req[r] = Idle
      BY <1>1, <2>1 DEF UndoReadEntry, Start
    <2>3. q.op = "undo"
      BY <2>1
    <2>4. q # Idle /\ req[r].op # "editSite" /\ NamesKnown(q)
      BY <2>2, <2>3, EmptyNames DEF Idle
    <2> QED BY <2>2, <2>4, NamesLookOn
  <1> DEFINE n == req[r].entry
  <1>2. req[r].op = "undo" => req[r] \in UndoingOf /\ n \in DOMAIN log /\ req[r] # Idle
    BY DEF OfficeInv, Holds, Idle
  <1>3. ASSUME UndoReadRecord(r)
        PROVE  NamesInv'
    <2>1. PICK q : q = IF IsDeleted(log[n]) THEN [req[r] EXCEPT !.phase = "record"] ELSE Idle
      OBVIOUS
    <2>2. req[r].op = "undo" /\ req' = [req EXCEPT ![r] = q] /\ UNCHANGED <<site, worker, log>>
      BY <1>3, <2>1 DEF UndoReadRecord, Continue, Finish
    <2>3. q.op \in {"undo", "idle"}
      BY <1>2, <2>1, <2>2 DEF UndoingOf, Idle
    <2> QED BY <1>2, <2>2, <2>3, EmptyNames, NamesLookOn
  <1>4. ASSUME UndoSaveRecord(r)
        PROVE  NamesInv'
    <2> DEFINE w == log[n].id
    <2>1. PICK q : q = [req[r] EXCEPT !.phase = "saved"]
      OBVIOUS
    <2>2. PICK p : p = [worker[w] EXCEPT !.status = "archived"]
      OBVIOUS
    <2>3. req[r].op = "undo"
      BY <1>4 DEF UndoSaveRecord
    <2>4. log[n].kind = "worker" /\ w \in Workers /\ worker[w] # Null
      BY <1>2, <2>3 DEF NamesInv, EntriesNameStaff
    <2>5. /\ req' = [req EXCEPT ![r] = q] /\ UNCHANGED <<site, log>>
          /\ worker' = [worker EXCEPT ![w] = p]
      BY <1>4, <2>1, <2>2, <2>4 DEF UndoSaveRecord, Continue
    <2>6. q.op = "undo"
      BY <1>2, <2>1, <2>3 DEF UndoingOf
    <2>7. IsEmployee(worker[w]) /\ WellNamed(worker[w].siteIds, worker[w].siteName)
      BY <1>2, <2>3, <2>4, <2>5, StaffIsWellNamed
    <2>8. IsEmployee(p) /\ p.siteIds = worker[w].siteIds /\ p.siteName = worker[w].siteName
      <3>1. PICK i, name : worker[w] \in EmployeeOf(i, name)
        BY <2>7 DEF IsEmployee
      <3>2. p \in EmployeeOf(i, name) /\ p.siteIds = i /\ p.siteName = name
        BY <2>2, <3>1 DEF EmployeeOf, Gone
      <3> QED BY <3>1, <3>2 DEF IsEmployee, EmployeeOf
    <2>9. NamesKnown(q)
      BY <2>6, EmptyNames
    <2> QED BY <1>2, <2>3, <2>4, <2>5, <2>7, <2>8, <2>9, NamesAreSaved
  <1>5. ASSUME UndoSaveEntry(r)
        PROVE  NamesInv'
    <2>1. /\ req[r].op = "undo" /\ UNCHANGED <<site, worker>> /\ req' = [req EXCEPT ![r] = Idle]
          /\ log' = [log EXCEPT ![n].undone = TRUE]
      BY <1>5 DEF UndoSaveEntry, Finish
    <2>2. log \in Seq(Registered) /\ log[n] \in Registered
      BY <1>2, <2>1 DEF OfficeInv, OfficeTypeOK
    <2>3. PICK e : e = [log[n] EXCEPT !.undone = TRUE]
      OBVIOUS
    <2>4. e.kind = log[n].kind /\ e.id = log[n].id
      BY <2>2, <2>3 DEF Registered
    <2>5. DOMAIN log' = DOMAIN log /\ \A i \in DOMAIN log : log'[i] = IF i = n THEN e ELSE log[i]
      BY <1>2, <2>1, <2>2, <2>3
    <2>6. EntriesNameStaff'
      BY <2>1, <2>4, <2>5 DEF NamesInv, EntriesNameStaff
    <2> QED BY <2>1, <2>6, EntriesKeepNames
  <1> QED BY <1>1, <1>3, <1>4, <1>5

LEMMA NamesInvStutters ==
    ASSUME NamesInv, UNCHANGED <<site, worker, log, req>>
    PROVE  NamesInv'
  BY DEF NamesInv, EntriesNameStaff, NamesKnown, WellNamed, Housed, Renames

LEMMA NamesInvStep ==
    ASSUME OfficeInv, NamesInv, OfficeNext
    PROVE  NamesInv'
  <1>1. OneAtATime'
    BY AtMostOneRequest DEF OfficeNext
  <1>2. CASE Branching
    <2>1. ASSUME NEW b \in Branches, CreateBranch(b)
          PROVE  NamesInv'
      BY <2>1, NamesInvStutters DEF CreateBranch
    <2> QED BY <1>1, <1>2, <2>1, SitesKeepNames DEF Branching
  <1>3. CASE Siting
    BY <1>1, <1>3, SitesKeepNames, CreateSiteKeepsNames, EditSiteKeepsNames, RenameKeepsNames DEF Siting
  <1>4. CASE Enrolling
    BY <1>1, <1>4, EnrolKeepsNames DEF Enrolling
  <1>5. CASE Editing
    <2>1. ASSUME NEW u \in Actors, NEW w \in Workers, AddRemark(u, w)
          PROVE  NamesInv'
      BY <2>1, NamesInvStutters DEF AddRemark
    <2>2. PICK r \in Requests :
            \/ \E u \in Actors, w \in Workers :
                  \/ \E ids \in Picks, status \in {"active", "inactive"} : EditRead(r, u, w, ids, status)
                  \/ \E status \in {"active", "inactive"} : BulkStatusRead(r, u, w, status)
                  \/ RestoreRead(r, u, w)
                  \/ AddRemark(u, w)
            \/ \E u \in Actors, s \in Sites : BulkMoveSite(r, u, s)
            \/ \E w \in Workers : BulkMoveRead(r, w)
            \/ EditSave(r) \/ Restore(r)
      BY <1>5 DEF Editing
    <2>3. ASSUME NEW u \in Actors, NEW w \in Workers,
                 \/ \E ids \in Picks, status \in {"active", "inactive"} : EditRead(r, u, w, ids, status)
                 \/ \E status \in {"active", "inactive"} : BulkStatusRead(r, u, w, status)
                 \/ RestoreRead(r, u, w)
          PROVE  NamesInv'
      BY <1>1, <2>3, EditReadsKeepNames, RestoreKeepsNames
    <2>4. ASSUME NEW w \in Workers, BulkMoveRead(r, w)
          PROVE  NamesInv'
      BY <1>1, <2>4, EditReadsKeepNames
    <2> QED BY <1>1, <2>1, <2>2, <2>3, <2>4, SitesKeepNames, EditSaveKeepsNames, RestoreKeepsNames
  <1>6. CASE Leaving
    BY <1>1, <1>6, LeaveKeepsNames, LeaveLogKeepsNames DEF Leaving
  <1>7. CASE Undoing
    BY <1>1, <1>7, UndoKeepsNames DEF Undoing, Undo
  <1> QED BY <1>2, <1>3, <1>4, <1>5, <1>6, <1>7 DEF OfficeNext

LEMMA NamesInvInit ==
    ASSUME NEW S \in SUBSET Sites, S # {}, NEW W \in SUBSET Workers, NEW N \in SUBSET Names, NEW A,
           Opened({FirstBranch}, S, W, N, A)
    PROVE  NamesInv
  <1>1. PICK at \in [S -> {FirstBranch}], name \in [S -> N] :
          site = [s \in Sites |-> IF s \in S THEN NewSite(at[s], name[s]) ELSE Null]
    BY DEF Opened
  <1>2. PICK ids \in [W -> SetToSeqs(S) \union {<<s>> : s \in S}] :
          worker = [w \in Workers |-> IF w \in W THEN NewWorker("active", ids[w], site[ids[w][1]].name)
                                      ELSE Null]
    BY DEF Opened
  <1>3. log = << >> /\ req = [r \in Requests |-> Idle]
    BY DEF Opened
  <1>4. \A s \in S : site[s] \in SiteRecord
    BY <1>1, OfficeAssumption DEF NewSite, SiteRecord
  <1>5. site \in [Sites -> SiteRecord \union {Null}]
    <2>1. \A s \in Sites : site[s] \in SiteRecord \union {Null}
      BY <1>1, <1>4
    <2> QED BY <1>1, <2>1
  <1>6. \A w \in Workers : worker[w] # Null => WellNamed(worker[w].siteIds, worker[w].siteName)
    <2> SUFFICES ASSUME NEW w \in W
                 PROVE  WellNamed(worker[w].siteIds, worker[w].siteName)
      BY <1>2
    <2>1. ids[w] \in Lists /\ ids[w][1] \in S
      BY PickedLists
    <2>2. ids[w] \in Seq(Sites) /\ ids[w] # << >>
      <3>1. ids[w] \in SetToSeqs(S) \union {<<s>> : s \in S}
        OBVIOUS
      <3>2. << >> \notin SetToSeqs(S)
        <4>1. IsFiniteSet(S)
          BY OfficeAssumption, FS_Subset
        <4>2. Cardinality(S) \in Nat \ {0}
          BY <4>1, FS_CardinalityType, FS_EmptySet
        <4>3. DOMAIN << >> # 1 .. Cardinality(S)
          BY <4>2
        <4> QED BY <4>3 DEF SetToSeqs
      <3> QED BY <2>1, <3>1, <3>2 DEF Lists
    <2>3. worker[w].siteIds = ids[w] /\ worker[w].siteName = site[ids[w][1]].name
      BY <1>2 DEF NewWorker
    <2> QED BY <1>4, <2>1, <2>2, <2>3 DEF WellNamed
  <1>7. \A r \in Requests : NamesKnown(req[r])
    BY <1>3, EmptyNames DEF Idle
  <1>8. EntriesNameStaff
    BY <1>3 DEF EntriesNameStaff
  <1> QED BY <1>5, <1>6, <1>7, <1>8 DEF NamesInv

\* One request at a time, with any number of sites and employees: when none is in flight,
\* the site name copied onto an employee is the name of his primary site (org.ts:456).
THEOREM NamesFollow == MCSpec => []SiteNameFollowsPrimary
  <1> DEFINE Inv == /\ scenario = "office" => OfficeInv /\ NamesInv
                    /\ scenario \in {"closings", "deletions", "requests", "office"}
  <1>1. MCInit => Inv
    <2> SUFFICES ASSUME MCInit PROVE Inv
      OBVIOUS
    <2>1. scenario \in {"closings", "deletions", "requests", "office"}
      BY DEF MCInit
    <2>2. PICK n, m, N, managed : OpenedWith(n, m, N, managed) /\ n \in {1, 2} /\ N \in {{DefaultName}, Names}
      BY DEF MCInit
    <2>3. PICK S \in kSubset(n, Sites), W \in kSubset(m, Workers) :
            Opened({FirstBranch}, S, W, N, IF managed THEN S ELSE {})
      BY <2>2 DEF OpenedWith
    <2>4. S \in SUBSET Sites /\ S # {} /\ W \in SUBSET Workers
      <3>1. S \in SUBSET Sites /\ Cardinality(S) = n /\ W \in SUBSET Workers
        BY <2>3 DEF kSubset
      <3> QED BY <2>2, <3>1, FS_EmptySet
    <2>5. N \in SUBSET Names
      BY <2>2, OfficeAssumption
    <2> QED BY <2>1, <2>3, <2>4, <2>5, OfficeInvInit, NamesInvInit
  <1>2. Inv /\ [MCNext]_mcVars => Inv'
    <2> SUFFICES ASSUME Inv, [MCNext]_mcVars PROVE Inv'
      OBVIOUS
    <2>1. CASE UNCHANGED mcVars
      BY <2>1, OfficeInvStutters, NamesInvStutters DEF mcVars, allVars, vars
    <2>2. CASE MCNext
      <3>1. CASE scenario # "office"
        BY <2>2, <3>1 DEF MCNext
      <3>2. CASE scenario = "office"
        <4>1. OfficeNext /\ scenario' = scenario
          BY <2>2, <3>2 DEF MCNext, Closings, Deletions, Answers, Office, OfficeNext
        <4> QED BY <3>2, <4>1, OfficeInvStep, NamesInvStep
      <3> QED BY <3>1, <3>2
    <2> QED BY <2>1, <2>2
  <1>3. Inv => SiteNameFollowsPrimary
    <2> SUFFICES ASSUME Inv, scenario = "office", Quiet, NEW w \in Workers, worker[w] # Null
                 PROVE  worker[w].siteName = site[SiteId(w)].name
      BY DEF SiteNameFollowsPrimary
    <2>1. \A r \in Requests : req[r].op # "editSite"
      BY DEF Quiet, Idle
    <2>2. WellNamed(worker[w].siteIds, worker[w].siteName)
      BY <2>1, HousedIsWellNamed DEF NamesInv
    <2> QED BY <2>2 DEF WellNamed, SiteId
  <1> QED BY <1>1, <1>2, <1>3, PTL DEF MCSpec

-----------------------------------------------------------------------------
(* The shape of every record, while every handler runs beside every other *)

\* What stays of an employee's sites is there once each, and none of it was picked.
LEMMA RetainedIsEachOnce ==
    ASSUME NEW u, NEW w, NEW picked, worker[w].siteIds \in Lists
    PROVE  /\ Retained(u, w, picked) \in Lists
           /\ \A i \in DOMAIN Retained(u, w, picked) : Retained(u, w, picked)[i] \notin ToSet(picked)
  <1> DEFINE ids  == worker[w].siteIds
             S    == 1 .. Len(ids)
             out(i) == CanUseSite(u, ids[i]) \/ ids[i] \in ToSet(picked)
  <1>1. /\ Len(ids) \in Nat /\ IsFiniteSet(S) /\ \A i \in S : ids[i] \in Sites
        /\ \A i, j \in S : ids[i] = ids[j] => i = j
    <2>1. PICK l \in Lists : l = ids
      OBVIOUS
    <2>2. /\ Len(l) \in Nat /\ \A i \in 1 .. Len(l) : l[i] \in Sites
          /\ \A i, j \in 1 .. Len(l) : l[i] = l[j] => i = j
      BY DEF Lists
    <2>3. IsFiniteSet(1 .. Len(l))
      BY <2>2, FS_Interval
    <2> QED BY <2>1, <2>2, <2>3
  <1>2. PICK iter : /\ iter[{}] = << >>
                    /\ \A s \in SUBSET S : s # {} =>
                         /\ Max(s) \in s
                         /\ iter[s] = IF out(Max(s)) THEN iter[s \ {Max(s)}]
                                      ELSE Append(iter[s \ {Max(s)}], ids[Max(s)])
                    /\ Retained(u, w, picked) = iter[S]
    <2>1. worker[w].siteIds \in Seq(Sites)
      BY DEF Lists
    <2>2. PICK iter : BuildsUp(iter, u, w, picked)
      BY <2>1, RetainedBuildsUp
    <2> QED BY <2>2 DEF BuildsUp
  <1>3. \A i \in S : ~ out(i) => ids[i] \notin ToSet(picked)
    OBVIOUS
  <1> HIDE DEF ids, out
  <1> DEFINE Sifted(s) == /\ iter[s] \in Seq(Sites)
                          /\ \A i, j \in DOMAIN iter[s] : iter[s][i] = iter[s][j] => i = j
                          /\ \A i \in DOMAIN iter[s] : /\ iter[s][i] \notin ToSet(picked)
                                                       /\ \E k \in s : ids[k] = iter[s][i]
             Bad == {s \in SUBSET S : ~ Sifted(s)}
  <1>4. ASSUME NEW s \in SUBSET S, s # {}, Sifted(s \ {Max(s)})
        PROVE  Sifted(s)
    <2>1. PICK m \in S : m = Max(s) /\ m \in s
      BY <1>2, <1>4
    <2>2. PICK l : l = iter[s \ {m}]
      OBVIOUS
    <2>3. /\ l \in Seq(Sites) /\ \A i, j \in DOMAIN l : l[i] = l[j] => i = j
          /\ \A i \in DOMAIN l : l[i] \notin ToSet(picked) /\ \E k \in s \ {m} : ids[k] = l[i]
      BY <1>4, <2>1, <2>2
    <2>4. CASE out(m)
      <3>1. iter[s] = l
        BY <1>2, <1>4, <2>1, <2>2, <2>4
      <3> QED BY <2>3, <3>1
    <2>5. CASE ~ out(m)
      <3>1. PICK n \in Nat : n = Len(l) /\ DOMAIN l = 1 .. n
        BY <2>3
      <3>2. PICK a : a = Append(l, ids[m])
        OBVIOUS
      <3>3. /\ a \in Seq(Sites) /\ DOMAIN a = 1 .. n + 1 /\ a[n + 1] = ids[m]
            /\ \A i \in 1 .. n : a[i] = l[i]
        BY <1>1, <2>3, <3>1, <3>2
      <3>4. \A i \in 1 .. n : a[i] # ids[m]
        BY <1>1, <2>1, <2>3, <3>1, <3>3
      <3>5. \A i \in 1 .. n + 1 : i \in 1 .. n \/ i = n + 1
        OBVIOUS
      <3>6. \A i, j \in DOMAIN a : a[i] = a[j] => i = j
        BY <2>3, <3>1, <3>3, <3>4, <3>5
      <3>7. \A i \in DOMAIN a : a[i] \notin ToSet(picked) /\ \E k \in s : ids[k] = a[i]
        BY <1>3, <2>1, <2>3, <2>5, <3>1, <3>3, <3>5
      <3>8. iter[s] = a
        BY <1>2, <1>4, <2>1, <2>2, <2>5, <3>2
      <3> QED BY <3>3, <3>6, <3>7, <3>8
    <2> QED BY <2>4, <2>5
  <1>5. Sifted({})
    BY <1>2
  <1>6. ASSUME NEW s \in Bad, \A x \in s : s \ {x} \notin Bad
        PROVE  FALSE
    <2> HIDE DEF Sifted
    <2>1. s # {}
      BY <1>5, <1>6
    <2>2. Max(s) \in s /\ s \ {Max(s)} \in SUBSET S
      BY <1>2, <2>1
    <2> QED BY <1>4, <1>6, <2>1, <2>2
  <1>7. Bad = {}
    <2> HIDE DEF Bad
    <2>1. Bad \in SUBSET SUBSET S
      BY DEF Bad
    <2> QED BY <1>1, <1>6, <2>1, SmallestSet
  <1>8. Sifted(S)
    BY <1>7
  <1> QED BY <1>2, <1>8 DEF Lists

\* The sites a form picks, with those that stay: again a list that a form could name.
LEMMA PickedAndRetained ==
    ASSUME NEW u, NEW w, NEW picked \in Picks, worker[w].siteIds \in Lists
    PROVE  picked \o Retained(u, w, picked) \in Picks
  <1>1. PICK l \in Lists : /\ l = Retained(u, w, picked)
                           /\ \A i \in DOMAIN l : l[i] \notin ToSet(picked)
    BY RetainedIsEachOnce
  <1>2. picked \in Lists /\ picked # << >>
    BY PicksAreNonemptyLists
  <1>3. PICK n \in Nat, m \in Nat : Len(picked) = n /\ Len(l) = m /\ n > 0
    BY <1>2 DEF Lists
  <1>4. /\ picked \in Seq(Sites) /\ DOMAIN picked = 1 .. n /\ l \in Seq(Sites) /\ DOMAIN l = 1 .. m
        /\ \A i, j \in 1 .. n : picked[i] = picked[j] => i = j
        /\ \A i, j \in 1 .. m : l[i] = l[j] => i = j
    <2>1. \A k \in Lists : /\ k \in Seq(Sites) /\ DOMAIN k = 1 .. Len(k)
                           /\ \A i, j \in 1 .. Len(k) : k[i] = k[j] => i = j
      BY DEF Lists
    <2> QED BY <1>2, <1>3, <2>1
  <1>5. PICK all : all = picked \o l
    OBVIOUS
  <1>6. /\ all \in Seq(Sites) /\ DOMAIN all = 1 .. n + m
        /\ \A i \in 1 .. n + m : all[i] = IF i <= n THEN picked[i] ELSE l[i - n]
    <2>1. /\ all \in Seq(Sites) /\ Len(all) = n + m
          /\ \A i \in 1 .. n + m : all[i] = IF i <= n THEN picked[i] ELSE l[i - n]
      <3>1. /\ picked \o l \in Seq(Sites) /\ Len(picked \o l) = Len(picked) + Len(l)
            /\ \A i \in 1 .. Len(picked) + Len(l) :
                  (picked \o l)[i] = IF i <= Len(picked) THEN picked[i] ELSE l[i - Len(picked)]
        BY <1>4, ConcatProperties
      <3> QED BY <1>3, <1>5, <3>1
    <2>2. DOMAIN all = 1 .. Len(all)
      BY <2>1
    <2> QED BY <2>1, <2>2
  <1>7. \A i \in 1 .. n, j \in 1 .. m : picked[i] # l[j]
    BY <1>1, <1>4 DEF ToSet
  <1>8. \A i, j \in 1 .. n + m : all[i] = all[j] => i = j
    <2> SUFFICES ASSUME NEW i \in 1 .. n + m, NEW j \in 1 .. n + m, all[i] = all[j]
                 PROVE  i = j
      OBVIOUS
    <2>1. (i <= n => i \in 1 .. n) /\ (~ i <= n => i - n \in 1 .. m)
      BY <1>3
    <2>2. (j <= n => j \in 1 .. n) /\ (~ j <= n => j - n \in 1 .. m)
      BY <1>3
    <2>3. i - n = j - n => i = j
      BY <1>3
    <2> QED BY <1>4, <1>6, <1>7, <2>1, <2>2, <2>3
  <1>9. all # << >>
    BY <1>3, <1>6
  <1> QED BY <1>1, <1>5, <1>6, <1>8, <1>9, PicksAreNonemptyLists DEF Lists

StationRecord == [site : Sites, active : BOOLEAN]

RegisterEntry ==
    [kind : {"worker"}, id : Workers, undone : BOOLEAN]
    \union [kind : {"site"}, id : Sites, undone : BOOLEAN]

Copies == UNION {[people -> Picks] : people \in SUBSET Workers}

ClosesOf ==
    [op : {"close"}, phase : {"read", "after"}, site : Sites, to : Kinds, fate : Kinds,
     seen : {"active", "archived"}, todo : Copies,
     others : {Null} \union SUBSET Sites, logged : {Null} \union Workers,
     left : SUBSET {"workers", "sites", "stations", "scopes", "log"}]
EditsOf  == [op : {"edit"}, worker : Workers, copy : Employee, remark : BOOLEAN, to : Employee]
LeavesOf == [op : {"leave"}, worker : Workers, copy : Employee, to : Gone, saved : BOOLEAN]

AnyRequest == Request \union ClosesOf \union EditsOf \union LeavesOf

\* Whatever a request names is there...
Finds(q) ==
    /\ q.op \in {"edit", "leave", "restore"} => worker[q.worker] \in Employee
    /\ q.op \in {"editSite", "restoreSite", "close"} => site[q.site] \in SiteRecord
    /\ q.op = "close" => \A w \in DOMAIN q.todo : worker[w] \in Employee
    /\ q.op \in {"recommend", "decide"} => ask[q.ask] \in AskRecord
    /\ q.op = "undo" => q.entry \in DOMAIN log

\* ... and the sites an employee may stay at do not hold the one that closes.
Surveyed(q) ==
    q.op = "close" /\ q.phase = "read" /\ "sites" \notin q.left => q.others \subseteq Sites \ {q.site}

\* So is what a register entry or an overtime or offload request names.
EntriesFind == \A e \in DOMAIN log : IF log[e].kind = "worker" THEN worker[log[e].id] \in Employee
                                                              ELSE site[log[e].id] \in SiteRecord
AsksFind == \A a \in Asks : ask[a] \in AskRecord => worker[ask[a].worker] \in Employee

RecordsOK ==
    /\ branch \in [Branches -> {"unborn", "open", "gone"}]
    /\ site \in [Sites -> SiteRecord \union {Null}]
    /\ worker \in [Workers -> Employee \union {Null}]
    /\ station \in [Stations -> StationRecord \union {Null}]
    /\ scope \in [Users -> SUBSET Sites]
    /\ log \in Seq(RegisterEntry) /\ Len(log) <= MaxEntries
    /\ ask \in [Asks -> AskRecord \union {Null}]
    /\ EntriesFind
    /\ AsksFind

RequestsOK ==
    /\ req \in [Requests -> AnyRequest]
    /\ stale \in [Requests -> SUBSET Workers]
    /\ \A r \in Requests : Finds(req[r]) /\ Surveyed(req[r])

\* The inductive invariant of the shapes.
ShapesInv == RecordsOK /\ RequestsOK

\* Nothing that is there goes.
NothingGoes ==
    /\ \A w \in Workers : worker[w] \in Employee => worker'[w] \in Employee
    /\ \A s \in Sites : site[s] \in SiteRecord => site'[s] \in SiteRecord
    /\ \A a \in Asks : ask[a] \in AskRecord => ask'[a] \in AskRecord
    /\ DOMAIN log \subseteq DOMAIN log'

LEMMA ShapesMeanTypeOK == ShapesInv => TypeOK
  <1> SUFFICES ASSUME ShapesInv PROVE TypeOK
    OBVIOUS
  <1>1. \A r \in Requests : req[r].op \in {"close", "edit", "leave"} \/ req[r] \in Request
    BY DEF ShapesInv, RequestsOK, AnyRequest, ClosesOf, EditsOf, LeavesOf
  <1>2. \A e \in DOMAIN log : log[e] \in RegisterEntry
    <2>1. log \in Seq(RegisterEntry)
      BY DEF ShapesInv, RecordsOK
    <2> QED BY <2>1
  <1>3. \A s \in Sites : site[s] = Null \/ site[s] \in SiteRecord
    BY DEF ShapesInv, RecordsOK
  <1>4. \A w \in Workers : worker[w] = Null \/ worker[w] \in Employee
    BY DEF ShapesInv, RecordsOK
  <1>5. \A t \in Stations : station[t] = Null \/ station[t] \in StationRecord
    BY DEF ShapesInv, RecordsOK
  <1>6. /\ branch \in [Branches -> {"unborn", "open", "gone"}] /\ scope \in [Users -> SUBSET Sites]
        /\ stale \in [Requests -> SUBSET Workers]
    BY DEF ShapesInv, RecordsOK, RequestsOK
  <1> QED BY <1>1, <1>2, <1>3, <1>4, <1>5, <1>6 DEF TypeOK, SiteRecord, StationRecord, RegisterEntry

\* What a request of each kind holds.
LEMMA ClosesFields ==
    ASSUME NEW q \in AnyRequest
    PROVE  /\ q.op = "close" => q \in ClosesOf
           /\ q.op = "edit" => q \in EditsOf
           /\ q.op = "leave" => q \in LeavesOf
           /\ q.op \notin {"close", "edit", "leave"} => q \in Request
  <1>1. q \in Request => q.op \notin {"close", "edit", "leave"}
    BY DEF Request
  <1> QED BY <1>1 DEF AnyRequest, ClosesOf, EditsOf, LeavesOf

LEMMA SimpleFields ==
    ASSUME NEW q \in AnyRequest
    PROVE  /\ q.op = "deleteBranch" => q.branch \in Branches
           /\ q.op = "createSite" => q.site \in Sites /\ q.branch \in Branches /\ q.name \in Names
           /\ q.op = "station" => q.station \in Stations /\ q.site \in Sites
           /\ q.op = "enrol" => q.worker \in Workers /\ q.ids \in Picks /\ q.name \in Names
           /\ q.op = "moveTo" => q.actor \in Actors /\ q.site \in Sites /\ q.name \in Names
           /\ q.op = "restore" => q.worker \in Workers
           /\ q.op = "recommend" => q.ask \in Asks
  BY DEF AnyRequest, Request, ClosesOf, EditsOf, LeavesOf

\* Those that go through several steps stay of their kind.
LEMMA EditSiteFields ==
    ASSUME NEW q \in AnyRequest, q.op = "editSite"
    PROVE  /\ q.site \in Sites /\ q.branch \in Branches /\ q.name \in Names
           /\ LET n == [q EXCEPT !.saved = TRUE] IN
                 n \in AnyRequest /\ n.op = "editSite" /\ n.site = q.site
  <1>1. q \in [op : {"editSite"}, site : Sites, branch : Branches, name : Names, before : Names,
               saved : BOOLEAN]
    BY DEF AnyRequest, Request, ClosesOf, EditsOf, LeavesOf
  <1> QED BY <1>1 DEF AnyRequest, Request

LEMMA RestoreSiteFields ==
    ASSUME NEW q \in AnyRequest, q.op = "restoreSite"
    PROVE  /\ q.site \in Sites
           /\ LET n == [q EXCEPT !.saved = TRUE] IN
                 n \in AnyRequest /\ n.op = "restoreSite" /\ n.site = q.site
  <1>1. q \in [op : {"restoreSite"}, site : Sites, saved : BOOLEAN]
    BY DEF AnyRequest, Request, ClosesOf, EditsOf, LeavesOf
  <1> QED BY <1>1 DEF AnyRequest, Request

LEMMA DecideFields ==
    ASSUME NEW q \in AnyRequest, q.op = "decide"
    PROVE  /\ q.ask \in Asks /\ q.outcome \in Decided
           /\ LET n == [q EXCEPT !.saved = TRUE] IN
                 n \in AnyRequest /\ n.op = "decide" /\ n.ask = q.ask
  <1>1. q \in [op : {"decide"}, ask : Asks, outcome : Decided, saved : BOOLEAN]
    BY DEF AnyRequest, Request, ClosesOf, EditsOf, LeavesOf
  <1> QED BY <1>1 DEF AnyRequest, Request

LEMMA UndoFields ==
    ASSUME NEW q \in AnyRequest, q.op = "undo", NEW phase \in {"record", "saved"}
    PROVE  LET n == [q EXCEPT !.phase = phase] IN
             n \in AnyRequest /\ n.op = "undo" /\ n.entry = q.entry
  <1>1. q \in [op : {"undo"}, entry : 1 .. MaxEntries, phase : {"entry", "record", "saved"}]
    BY DEF AnyRequest, Request, ClosesOf, EditsOf, LeavesOf
  <1> QED BY <1>1 DEF AnyRequest, Request

LEMMA IdleFields == Idle \in AnyRequest /\ Finds(Idle)' /\ Surveyed(Idle) /\ Idle.op = "idle"
  BY DEF Idle, AnyRequest, Request, Finds, Surveyed

-----------------------------------------------------------------------------
(* A step of one request *)

LEMMA RequestMovesOn ==
    ASSUME RequestsOK, NEW r \in Requests, NEW nq \in AnyRequest, req' = [req EXCEPT ![r] = nq],
           stale' \in [Requests -> SUBSET Workers], NothingGoes, Finds(nq)', Surveyed(nq)
    PROVE  RequestsOK'
  <1>1. req' \in [Requests -> AnyRequest] /\ req'[r] = nq /\ \A p \in Requests \ {r} : req'[p] = req[p]
    BY DEF RequestsOK
  <1>2. ASSUME NEW p \in Requests \ {r}
        PROVE  Finds(req[p])' /\ Surveyed(req[p])'
    <2>1. PICK q \in AnyRequest : q = req[p] /\ q = req'[p]
      BY <1>1 DEF RequestsOK
    <2>2. Finds(q) /\ Surveyed(q)
      BY <2>1 DEF RequestsOK
    <2>3. q.op \in {"edit", "leave", "restore"} => q.worker \in Workers
      BY ClosesFields, SimpleFields DEF EditsOf, LeavesOf
    <2>4. q.op \in {"editSite", "restoreSite", "close"} => q.site \in Sites
      BY ClosesFields, EditSiteFields, RestoreSiteFields DEF ClosesOf
    <2>5. q.op = "close" => DOMAIN q.todo \subseteq Workers
      BY ClosesFields DEF ClosesOf, Copies
    <2>6. q.op \in {"recommend", "decide"} => q.ask \in Asks
      BY SimpleFields, DecideFields
    <2>7. Finds(q)'
      BY <2>2, <2>3, <2>4, <2>5, <2>6 DEF Finds, NothingGoes
    <2> QED BY <2>1, <2>2, <2>7 DEF Surveyed
  <1>3. Finds(req[r])' /\ Surveyed(req[r])'
    BY <1>1 DEF Surveyed
  <1> QED BY <1>1, <1>2, <1>3 DEF RequestsOK

\* What is saved, one lemma per document.
LEMMA NothingIsSaved ==
    ASSUME RecordsOK, UNCHANGED <<site, worker, log, ask>>,
           branch' \in [Branches -> {"unborn", "open", "gone"}],
           station' \in [Stations -> StationRecord \union {Null}], scope' \in [Users -> SUBSET Sites]
    PROVE  RecordsOK' /\ NothingGoes
  BY DEF RecordsOK, NothingGoes, EntriesFind, AsksFind

\* Employees and sites that are written keep their shape.
LEMMA StaffAreSaved ==
    ASSUME RecordsOK, UNCHANGED <<branch, station, scope, log, ask>>,
           site' \in [Sites -> SiteRecord \union {Null}], worker' \in [Workers -> Employee \union {Null}],
           \A w \in Workers : worker[w] \in Employee => worker'[w] \in Employee,
           \A s \in Sites : site[s] \in SiteRecord => site'[s] \in SiteRecord
    PROVE  RecordsOK' /\ NothingGoes
  <1>1. \A e \in DOMAIN log : log[e] \in RegisterEntry
    <2>1. log \in Seq(RegisterEntry)
      BY DEF RecordsOK
    <2> QED BY <2>1
  <1>2. EntriesFind'
    BY <1>1 DEF EntriesFind, RecordsOK, RegisterEntry
  <1>3. AsksFind'
    BY DEF AsksFind, RecordsOK, AskRecord
  <1> QED BY <1>2, <1>3 DEF RecordsOK, NothingGoes

LEMMA PersonIsSaved ==
    ASSUME RecordsOK, UNCHANGED <<branch, site, station, scope, log, ask>>,
           NEW w \in Workers, NEW p \in Employee, worker' = [worker EXCEPT ![w] = p]
    PROVE  RecordsOK' /\ NothingGoes
  <1>1. /\ worker' \in [Workers -> Employee \union {Null}]
        /\ \A v \in Workers : worker[v] \in Employee => worker'[v] \in Employee
        /\ site \in [Sites -> SiteRecord \union {Null}]
    BY DEF RecordsOK
  <1> QED BY <1>1, StaffAreSaved

LEMMA SiteIsSaved ==
    ASSUME RecordsOK, UNCHANGED <<branch, worker, station, scope, log, ask>>,
           NEW s \in Sites, NEW d \in SiteRecord, site' = [site EXCEPT ![s] = d]
    PROVE  RecordsOK' /\ NothingGoes
  <1>1. /\ site' \in [Sites -> SiteRecord \union {Null}]
        /\ \A v \in Sites : site[v] \in SiteRecord => site'[v] \in SiteRecord
        /\ worker \in [Workers -> Employee \union {Null}]
    BY DEF RecordsOK
  <1> QED BY <1>1, StaffAreSaved

LEMMA EntriesAreTyped ==
    /\ \A w \in Workers : LET e == Entry("worker", w) IN e \in RegisterEntry /\ e.kind = "worker" /\ e.id = w
    /\ \A s \in Sites : LET e == Entry("site", s) IN e \in RegisterEntry /\ e.kind = "site" /\ e.id = s
  BY DEF Entry, RegisterEntry

LEMMA EntryIsAdded ==
    ASSUME RecordsOK, UNCHANGED <<branch, site, worker, ask>>, NEW e \in RegisterEntry, Append1(e),
           IF e.kind = "worker" THEN worker[e.id] \in Employee ELSE site[e.id] \in SiteRecord,
           station' \in [Stations -> StationRecord \union {Null}], scope' \in [Users -> SUBSET Sites]
    PROVE  RecordsOK' /\ NothingGoes
  <1>1. log \in Seq(RegisterEntry) /\ Len(log) \in Nat /\ Len(log) < MaxEntries
        /\ log' = Append(log, e)
    <2>1. log \in Seq(RegisterEntry)
      BY DEF RecordsOK
    <2> QED BY <2>1 DEF Append1
  <1>2. /\ log' \in Seq(RegisterEntry) /\ Len(log') = Len(log) + 1
        /\ DOMAIN log' = 1 .. Len(log) + 1 /\ DOMAIN log = 1 .. Len(log)
        /\ log'[Len(log) + 1] = e /\ \A i \in DOMAIN log : log'[i] = log[i]
    BY <1>1
  <1>3. Len(log') <= MaxEntries
    BY <1>1, <1>2, OfficeAssumption
  <1>4. \A i \in DOMAIN log' : i \in DOMAIN log \/ i = Len(log) + 1
    BY <1>1, <1>2
  <1>5. EntriesFind'
    BY <1>2, <1>4 DEF EntriesFind, RecordsOK
  <1>6. DOMAIN log \subseteq DOMAIN log'
    BY <1>1, <1>2
  <1>7. AsksFind'
    BY DEF AsksFind, RecordsOK
  <1> QED BY <1>2, <1>3, <1>5, <1>6, <1>7 DEF RecordsOK, NothingGoes

LEMMA EntryIsUndone ==
    ASSUME RecordsOK, UNCHANGED <<branch, site, worker, station, scope, ask>>,
           NEW e \in DOMAIN log, log' = [log EXCEPT ![e].undone = TRUE]
    PROVE  RecordsOK' /\ NothingGoes
  <1>1. /\ log \in Seq(RegisterEntry) /\ Len(log) \in Nat /\ DOMAIN log = 1 .. Len(log)
        /\ \A i \in DOMAIN log : log[i] \in RegisterEntry
    <2>1. log \in Seq(RegisterEntry)
      BY DEF RecordsOK
    <2> QED BY <2>1
  <1>2. PICK d : d = [log[e] EXCEPT !.undone = TRUE]
    OBVIOUS
  <1>3. d \in RegisterEntry /\ d.kind = log[e].kind /\ d.id = log[e].id
    <2>1. log[e] \in RegisterEntry
      BY <1>1
    <2> QED BY <1>2, <2>1 DEF RegisterEntry
  <1>4. log' = [log EXCEPT ![e] = d]
    BY <1>2
  <1>5. /\ log' \in Seq(RegisterEntry) /\ Len(log') = Len(log) /\ DOMAIN log' = DOMAIN log
        /\ log'[e] = d /\ \A i \in DOMAIN log \ {e} : log'[i] = log[i]
    <2>1. e \in 1 .. Len(log)
      BY <1>1
    <2>2. /\ [log EXCEPT ![e] = d] \in Seq(RegisterEntry)
          /\ Len([log EXCEPT ![e] = d]) = Len(log)
          /\ \A i \in 1 .. Len(log) : [log EXCEPT ![e] = d][i] = IF i = e THEN d ELSE log[i]
      BY <1>1, <1>3, <2>1, ExceptSeq
    <2> QED BY <1>1, <1>4, <2>2
  <1>6. EntriesFind'
    BY <1>3, <1>5 DEF EntriesFind, RecordsOK
  <1>7. AsksFind'
    BY DEF AsksFind, RecordsOK
  <1> QED BY <1>5, <1>6, <1>7 DEF RecordsOK, NothingGoes

LEMMA AskIsSaved ==
    ASSUME RecordsOK, UNCHANGED <<branch, site, worker, station, scope, log>>,
           NEW a \in Asks, NEW d \in AskRecord, worker[d.worker] \in Employee, ask' = [ask EXCEPT ![a] = d]
    PROVE  RecordsOK' /\ NothingGoes
  <1>1. ask' \in [Asks -> AskRecord \union {Null}] /\ ask'[a] = d /\ \A b \in Asks \ {a} : ask'[b] = ask[b]
    BY DEF RecordsOK
  <1>2. AsksFind'
    BY <1>1 DEF AsksFind, RecordsOK
  <1> QED BY <1>1, <1>2 DEF RecordsOK, NothingGoes, EntriesFind

\* A step that saves nothing but its request's own place.
LEMMA RequestLooks ==
    ASSUME ShapesInv, NEW r \in Requests, NEW nq \in AnyRequest, req' = [req EXCEPT ![r] = nq],
           UNCHANGED <<branch, site, worker, station, scope, log, ask>>,
           stale' = stale \/ stale' = [stale EXCEPT ![r] = {}], Finds(nq), Surveyed(nq)
    PROVE  ShapesInv'
  <1>1. RecordsOK' /\ NothingGoes
    <2>1. /\ branch' \in [Branches -> {"unborn", "open", "gone"}]
          /\ station' \in [Stations -> StationRecord \union {Null}] /\ scope' \in [Users -> SUBSET Sites]
      BY DEF ShapesInv, RecordsOK
    <2> QED BY <2>1, NothingIsSaved DEF ShapesInv
  <1>2. stale' \in [Requests -> SUBSET Workers]
    BY DEF ShapesInv, RequestsOK
  <1>3. Finds(nq)'
    BY DEF Finds
  <1> QED BY <1>1, <1>2, <1>3, RequestMovesOn DEF ShapesInv

LEMMA MovedIsTyped ==
    ASSUME ShapesInv, NEW r \in Requests, NEW w \in Workers, Moved(r, w)
    PROVE  stale' \in [Requests -> SUBSET Workers]
  BY DEF Moved, ShapesInv, RequestsOK

-----------------------------------------------------------------------------
(* Closing sites *)

LEMMA CopiesFields ==
    ASSUME NEW todo \in Copies
    PROVE  /\ DOMAIN todo \subseteq Workers /\ \A w \in DOMAIN todo : todo[w] \in Picks
           /\ \A w : [x \in DOMAIN todo \ {w} |-> todo[x]] \in Copies
  <1>1. DOMAIN todo \subseteq Workers /\ \A w \in DOMAIN todo : todo[w] \in Picks
    BY DEF Copies
  <1>2. ASSUME NEW w
        PROVE  [x \in DOMAIN todo \ {w} |-> todo[x]] \in Copies
    <2>1. PICK people \in SUBSET Workers : people = DOMAIN todo \ {w}
      BY <1>1
    <2>2. [x \in people |-> todo[x]] \in [people -> Picks]
      BY <1>1, <2>1
    <2>3. \A f \in [people -> Picks] : f \in Copies
      BY DEF Copies
    <2> QED BY <2>1, <2>2, <2>3
  <1> QED BY <1>1, <1>2

LEMMA ClosesRequest ==
    ASSUME ShapesInv, NEW r \in Requests, req[r].op = "close"
    PROVE  /\ req[r] \in ClosesOf /\ req[r].site \in Sites /\ req[r].todo \in Copies
           /\ site[req[r].site] \in SiteRecord /\ Finds(req[r]) /\ Surveyed(req[r])
           /\ \A w \in DOMAIN req[r].todo : w \in Workers /\ worker[w] \in Employee
  <1>1. req[r] \in ClosesOf /\ Finds(req[r]) /\ Surveyed(req[r])
    BY ClosesFields DEF ShapesInv, RequestsOK
  <1>2. req[r].site \in Sites /\ req[r].todo \in Copies
    BY <1>1 DEF ClosesOf
  <1>3. DOMAIN req[r].todo \subseteq Workers
    BY <1>2, CopiesFields
  <1> QED BY <1>1, <1>2, <1>3 DEF Finds

LEMMA CloseReadKeepsShapes ==
    ASSUME ShapesInv, UNCHANGED ask, NEW r \in Requests, NEW s \in Sites, NEW to \in Kinds, NEW fate \in Kinds,
           CloseSiteRead(r, s, to, fate)
    PROVE  ShapesInv'
  <1>1. PICK q : q = [op |-> "close", phase |-> "read", site |-> s, to |-> to,
                      fate |-> IF to = "archived" THEN "archived" ELSE fate,
                      seen |-> site[s].status, todo |-> << >>, others |-> Null,
                      logged |-> Null, left |-> {"workers", "sites"}]
    OBVIOUS
  <1>2. /\ req' = [req EXCEPT ![r] = q]
        /\ UNCHANGED <<branch, site, worker, station, scope, log, stale>>
        /\ site[s] # Null /\ site[s].status \in {"active", "archived"}
    BY <1>1 DEF CloseSiteRead, Start, SiteIs
  <1>3. site[s] \in SiteRecord
    BY <1>2 DEF ShapesInv, RecordsOK
  <1>4. << >> \in Copies /\ DOMAIN << >> = {}
    <2>1. << >> \in [{} -> Picks] /\ DOMAIN << >> = {}
      OBVIOUS
    <2> QED BY <2>1 DEF Copies
  <1>5. q \in ClosesOf
    BY <1>1, <1>2, <1>4 DEF ClosesOf, Kinds
  <1>6. Finds(q) /\ Surveyed(q)
    BY <1>1, <1>3, <1>4 DEF Finds, Surveyed
  <1> QED BY <1>2, <1>5, <1>6, RequestLooks DEF AnyRequest

LEMMA CascadeReadsKeepShapes ==
    ASSUME ShapesInv, UNCHANGED ask, NEW r \in Requests, CascadeFindWorkers(r) \/ CascadeFindSites(r)
    PROVE  ShapesInv'
  <1>1. req[r].op = "close" /\ UNCHANGED <<branch, site, worker, station, scope, log, stale>>
    BY DEF CascadeFindWorkers, CascadeFindSites
  <1>2. /\ req[r] \in ClosesOf /\ req[r].site \in Sites /\ site[req[r].site] \in SiteRecord
        /\ Finds(req[r]) /\ Surveyed(req[r])
    BY <1>1, ClosesRequest
  <1>3. CASE CascadeFindWorkers(r)
    <2> DEFINE here == {w \in Workers : OnRoster(w) /\ At(w, req[r].site)}
    <2>1. PICK todo : todo = [w \in here |-> worker[w].siteIds]
      OBVIOUS
    <2>2. PICK q : q = [req[r] EXCEPT !.todo = todo, !.left = req[r].left \ {"workers"}]
      OBVIOUS
    <2>3. \A w \in here : worker[w] \in Employee /\ worker[w].siteIds \in Picks
      BY DEF OnRoster, ShapesInv, RecordsOK, Employee
    <2>4. todo \in Copies /\ DOMAIN todo = here
      <3>1. todo \in [here -> Picks] /\ here \in SUBSET Workers
        BY <2>1, <2>3
      <3> HIDE DEF here
      <3> QED BY <3>1 DEF Copies
    <2> HIDE DEF here
    <2>5. req' = [req EXCEPT ![r] = q]
      BY <1>2, <1>3, <2>1, <2>2 DEF CascadeFindWorkers, Continue, here, ClosesOf
    <2>6. /\ q \in ClosesOf /\ q.site = req[r].site /\ q.todo = todo /\ q.op = "close"
          /\ q.phase = req[r].phase /\ q.others = req[r].others /\ q.left = req[r].left \ {"workers"}
      BY <1>2, <2>2, <2>4 DEF ClosesOf
    <2>7. Finds(q) /\ Surveyed(q)
      <3>1. req[r].op = "close"
        BY <1>1
      <3> QED BY <1>2, <2>3, <2>4, <2>6, <3>1 DEF Finds, Surveyed
    <2> QED BY <1>1, <2>5, <2>6, <2>7, RequestLooks DEF AnyRequest
  <1>4. CASE CascadeFindSites(r)
    <2>1. PICK others : others = {s \in Sites \ {req[r].site} : SiteIs(s, "active")}
      OBVIOUS
    <2>2. PICK q : q = [req[r] EXCEPT !.others = others, !.left = req[r].left \ {"sites"}]
      OBVIOUS
    <2>3. req' = [req EXCEPT ![r] = q]
      BY <1>2, <1>4, <2>1, <2>2 DEF CascadeFindSites, Continue, ClosesOf
    <2>4. /\ q \in ClosesOf /\ q.site = req[r].site /\ q.todo = req[r].todo /\ q.op = "close"
          /\ q.others = others
      BY <1>2, <2>1, <2>2 DEF ClosesOf
    <2>5. Finds(q) /\ Surveyed(q)
      BY <1>1, <1>2, <2>1, <2>4 DEF Finds, Surveyed
    <2> QED BY <1>1, <2>3, <2>4, <2>5, RequestLooks DEF AnyRequest
  <1> QED BY <1>3, <1>4

LEMMA FinishKeepsShapes ==
    ASSUME ShapesInv, NEW r \in Requests, Finish(r), RecordsOK', NothingGoes
    PROVE  ShapesInv'
  <1>1. stale' \in [Requests -> SUBSET Workers]
    BY DEF Finish, ShapesInv, RequestsOK
  <1> QED BY <1>1, IdleFields, RequestMovesOn DEF Finish, ShapesInv

\* An employee is saved by the cascade, which is done with him.
LEMMA HandledKeepsShapes ==
    ASSUME ShapesInv, UNCHANGED ask, NEW r \in Requests, NEW w \in Workers, req[r].op = "close",
           NEW p \in Employee, worker' = [worker EXCEPT ![w] = p],
           Moved(r, w), Continue(r, Done(req[r], w)), UNCHANGED <<branch, site, station, scope, log>>
    PROVE  ShapesInv'
  <1>1. /\ req[r] \in ClosesOf /\ req[r].todo \in Copies /\ Finds(req[r]) /\ Surveyed(req[r])
    BY ClosesRequest
  <1>2. PICK todo : todo = [x \in DOMAIN req[r].todo \ {w} |-> req[r].todo[x]]
    OBVIOUS
  <1>3. PICK q : q = Done(req[r], w)
    OBVIOUS
  <1>4. todo \in Copies /\ DOMAIN todo \subseteq DOMAIN req[r].todo
    BY <1>1, <1>2, CopiesFields
  <1>5. /\ q \in ClosesOf /\ q.site = req[r].site /\ q.todo = todo /\ q.op = "close"
        /\ q.phase = req[r].phase /\ q.others = req[r].others /\ q.left = req[r].left
    BY <1>1, <1>2, <1>3, <1>4 DEF ClosesOf, Done
  <1>6. RecordsOK' /\ NothingGoes
    BY PersonIsSaved DEF ShapesInv
  <1>7. DOMAIN todo \subseteq Workers /\ req[r].site \in Sites
    BY <1>1, <1>4, CopiesFields DEF ClosesOf
  <1>8. Finds(q)' /\ Surveyed(q)
    BY <1>1, <1>4, <1>5, <1>6, <1>7 DEF Finds, Surveyed, NothingGoes
  <1>9. req' = [req EXCEPT ![r] = q] /\ stale' \in [Requests -> SUBSET Workers]
    BY <1>3, MovedIsTyped DEF Continue
  <1> QED BY <1>5, <1>6, <1>8, <1>9, RequestMovesOn DEF ShapesInv, AnyRequest

LEMMA CascadeSavesKeepShapes ==
    ASSUME ShapesInv, UNCHANGED ask, NEW r \in Requests, NEW w \in Workers,
           CascadeDetach(r, w) \/ CascadeLeave(r, w)
    PROVE  ShapesInv'
  <1>1. /\ Cascading(r) /\ req[r].op = "close" /\ w \in DOMAIN req[r].todo
        /\ UNCHANGED <<branch, site, station, scope, log>>
    BY DEF CascadeDetach, CascadeLeave, Cascading
  <1>2. /\ req[r] \in ClosesOf /\ req[r].site \in Sites /\ req[r].todo \in Copies
        /\ Surveyed(req[r]) /\ worker[w] \in Employee
    BY <1>1, ClosesRequest
  <1>3. CASE CascadeDetach(r, w) /\ ~ Versioned(r, w)
    <2>1. UNCHANGED worker /\ Finish(r)
      BY <1>3 DEF CascadeDetach
    <2>2. RecordsOK' /\ NothingGoes
      <3>1. /\ branch' \in [Branches -> {"unborn", "open", "gone"}]
            /\ station' \in [Stations -> StationRecord \union {Null}] /\ scope' \in [Users -> SUBSET Sites]
        BY <1>1 DEF ShapesInv, RecordsOK
      <3> QED BY <1>1, <2>1, <3>1, NothingIsSaved DEF ShapesInv
    <2> QED BY <2>1, <2>2, FinishKeepsShapes
  <1>4. CASE CascadeDetach(r, w) /\ Versioned(r, w)
    <2>1. PICK ids : ids = Without(req[r].todo[w], req[r].site)
      OBVIOUS
    <2>2. PICK old \in Picks : old = req[r].todo[w]
      BY <1>1, <1>2, CopiesFields
    <2>3. PICK i \in DOMAIN old : old[i] # req[r].site
      <3>1. StaysElsewhere(req[r], w)
        BY <1>4 DEF CascadeDetach
      <3>2. PICK i \in DOMAIN old : old[i] \in req[r].others
        BY <2>2, <3>1 DEF StaysElsewhere
      <3>3. req[r].others \subseteq Sites \ {req[r].site}
        BY <1>1, <1>2 DEF Surveyed, Cascading
      <3> QED BY <3>2, <3>3
    <2>4. ids \in Picks
      <3>1. old \in Lists
        BY PicksAreNonemptyLists
      <3>2. ids \in Lists /\ \E j \in DOMAIN ids : ids[j] = old[i]
        BY <1>2, <2>1, <2>2, <2>3, <3>1, FilteredList
      <3>3. ids # << >>
        BY <3>2
      <3> QED BY <3>2, <3>3, PicksAreNonemptyLists
    <2>5. PICK p : p = [worker[w] EXCEPT !.siteIds = ids]
      OBVIOUS
    <2>6. p \in Employee
      BY <1>2, <2>4, <2>5 DEF Employee
    <2>7. worker' = [worker EXCEPT ![w] = p] /\ Moved(r, w) /\ Continue(r, Done(req[r], w))
      BY <1>4, <2>1, <2>5 DEF CascadeDetach
    <2> QED BY <1>1, <2>6, <2>7, HandledKeepsShapes
  <1>5. CASE CascadeLeave(r, w)
    <2>1. PICK p : p = [worker[w] EXCEPT !.status = req[r].fate, !.left = TRUE]
      OBVIOUS
    <2>2. p \in Employee
      BY <1>2, <2>1 DEF Employee, ClosesOf, Kinds, Gone
    <2>3. worker' = [worker EXCEPT ![w] = p] /\ Moved(r, w) /\ Continue(r, Done(req[r], w))
      BY <1>5, <2>1 DEF CascadeLeave
    <2> QED BY <1>1, <2>2, <2>3, HandledKeepsShapes
  <1> QED BY <1>3, <1>4, <1>5

LEMMA CascadeLogKeepsShapes ==
    ASSUME ShapesInv, UNCHANGED ask, NEW r \in Requests, NEW w \in Workers, CascadeLog(r, w)
    PROVE  ShapesInv'
  <1>1. PICK q : q = [req[r] EXCEPT !.logged = w]
    OBVIOUS
  <1>2. /\ req[r].op = "close" /\ w \in DOMAIN req[r].todo /\ Append1(Entry("worker", w))
        /\ req' = [req EXCEPT ![r] = q] /\ UNCHANGED <<branch, site, worker, station, scope, stale>>
    BY <1>1 DEF CascadeLog, Cascading, Continue
  <1>3. /\ req[r] \in ClosesOf /\ Finds(req[r]) /\ Surveyed(req[r]) /\ worker[w] \in Employee
        /\ req[r].site \in Sites /\ DOMAIN req[r].todo \subseteq Workers
    BY <1>2, ClosesRequest
  <1>4. /\ q \in ClosesOf /\ q.site = req[r].site /\ q.todo = req[r].todo /\ q.op = "close"
        /\ q.phase = req[r].phase /\ q.others = req[r].others /\ q.left = req[r].left
    BY <1>1, <1>3 DEF ClosesOf
  <1>5. PICK e \in RegisterEntry : e = Entry("worker", w) /\ e.kind = "worker" /\ e.id = w
    BY EntriesAreTyped
  <1>6. RecordsOK' /\ NothingGoes
    <2>1. station' \in [Stations -> StationRecord \union {Null}] /\ scope' \in [Users -> SUBSET Sites]
      BY <1>2 DEF ShapesInv, RecordsOK
    <2> QED BY <1>2, <1>3, <1>5, <2>1, EntryIsAdded DEF ShapesInv
  <1>7. Finds(q)' /\ Surveyed(q)
    BY <1>2, <1>3, <1>4 DEF Finds, Surveyed
  <1>8. stale' \in [Requests -> SUBSET Workers]
    BY <1>2 DEF ShapesInv, RequestsOK
  <1> QED BY <1>2, <1>4, <1>6, <1>7, <1>8, RequestMovesOn DEF ShapesInv, AnyRequest

LEMMA CloseSiteKeepsShapes ==
    ASSUME ShapesInv, UNCHANGED ask, NEW r \in Requests, CloseSite(r)
    PROVE  ShapesInv'
  <1>1. PICK left \in SUBSET {"stations", "scopes", "log"} :
          left = IF req[r].to = "deleted" THEN {"stations", "scopes", "log"} ELSE {"stations"}
    OBVIOUS
  <1>2. PICK q : q = [req[r] EXCEPT !.phase = "after", !.left = left]
    OBVIOUS
  <1>3. PICK d : d = [site[req[r].site] EXCEPT !.status = req[r].to]
    OBVIOUS
  <1>4. /\ req[r].op = "close" /\ req' = [req EXCEPT ![r] = q]
        /\ site' = site \/ site' = [site EXCEPT ![req[r].site] = d]
        /\ UNCHANGED <<branch, worker, station, scope, log, stale>>
    BY <1>1, <1>2, <1>3 DEF CloseSite, Cascading, Continue
  <1>5. /\ req[r] \in ClosesOf /\ Finds(req[r]) /\ site[req[r].site] \in SiteRecord
        /\ req[r].site \in Sites /\ DOMAIN req[r].todo \subseteq Workers
    BY <1>4, ClosesRequest
  <1>6. /\ q \in ClosesOf /\ q.site = req[r].site /\ q.todo = req[r].todo /\ q.op = "close"
        /\ q.phase = "after"
    BY <1>2, <1>5 DEF ClosesOf
  <1>7. d \in SiteRecord
    BY <1>3, <1>5 DEF SiteRecord, ClosesOf, Kinds, Gone
  <1>8. RecordsOK' /\ NothingGoes
    <2>1. CASE site' = site
      <3>1. /\ branch' \in [Branches -> {"unborn", "open", "gone"}]
            /\ station' \in [Stations -> StationRecord \union {Null}] /\ scope' \in [Users -> SUBSET Sites]
        BY <1>4 DEF ShapesInv, RecordsOK
      <3> QED BY <1>4, <2>1, <3>1, NothingIsSaved DEF ShapesInv
    <2>2. CASE site' = [site EXCEPT ![req[r].site] = d]
      BY <1>4, <1>5, <1>7, <2>2, SiteIsSaved DEF ShapesInv
    <2> QED BY <1>4, <2>1, <2>2
  <1>9. Finds(q)' /\ Surveyed(q)
    BY <1>4, <1>5, <1>6, <1>8 DEF Finds, Surveyed, NothingGoes
  <1>10. stale' \in [Requests -> SUBSET Workers]
    BY <1>4 DEF ShapesInv, RequestsOK
  <1> QED BY <1>4, <1>6, <1>8, <1>9, <1>10, RequestMovesOn DEF ShapesInv, AnyRequest

LEMMA AfterCloseKeepsShapes ==
    ASSUME ShapesInv, UNCHANGED ask, NEW r \in Requests, NEW what \in {"stations", "scopes", "log"},
           AfterClose(r, what)
    PROVE  ShapesInv'
  <1>1. /\ req[r].op = "close" /\ req[r].phase = "after" /\ UNCHANGED <<branch, site, worker>>
        /\ IF what = "log" THEN Append1(Entry("site", req[r].site)) ELSE UNCHANGED log
    BY DEF AfterClose
  <1>2. /\ req[r] \in ClosesOf /\ Finds(req[r]) /\ site[req[r].site] \in SiteRecord
        /\ req[r].site \in Sites /\ DOMAIN req[r].todo \subseteq Workers
    BY <1>1, ClosesRequest
  <1>3. station' \in [Stations -> StationRecord \union {Null}]
    <2>1. \A d \in StationRecord : [d EXCEPT !.active = FALSE] \in StationRecord
      BY DEF StationRecord
    <2>2. \A t \in Stations : station[t] \in StationRecord \union {Null}
      BY DEF ShapesInv, RecordsOK
    <2>3. \/ station' = station
          \/ station' = [t \in Stations |-> IF station[t] # Null /\ station[t].site = req[r].site
                                           THEN [station[t] EXCEPT !.active = FALSE] ELSE station[t]]
      BY DEF AfterClose
    <2>4. station \in [Stations -> StationRecord \union {Null}]
      BY DEF ShapesInv, RecordsOK
    <2> QED BY <2>1, <2>2, <2>3, <2>4
  <1>4. scope' \in [Users -> SUBSET Sites]
    <2>1. scope \in [Users -> SUBSET Sites]
      BY DEF ShapesInv, RecordsOK
    <2>2. scope' = scope \/ scope' = [u \in Users |-> scope[u] \ {req[r].site}]
      BY DEF AfterClose
    <2> QED BY <2>1, <2>2
  <1>5. RecordsOK' /\ NothingGoes
    <2>1. CASE what = "log"
      <3>1. PICK e \in RegisterEntry : e = Entry("site", req[r].site) /\ e.kind = "site" /\ e.id = req[r].site
        BY <1>2, EntriesAreTyped
      <3> QED BY <1>1, <1>2, <1>3, <1>4, <2>1, <3>1, EntryIsAdded DEF ShapesInv
    <2>2. CASE what # "log"
      <3>1. branch' \in [Branches -> {"unborn", "open", "gone"}]
        BY <1>1 DEF ShapesInv, RecordsOK
      <3> QED BY <1>1, <1>3, <1>4, <2>2, <3>1, NothingIsSaved DEF ShapesInv
    <2> QED BY <2>1, <2>2
  <1>6. CASE Finish(r)
    BY <1>5, <1>6, FinishKeepsShapes
  <1>7. CASE Continue(r, [req[r] EXCEPT !.left = @ \ {what}]) /\ UNCHANGED stale
    <2>1. PICK q : q = [req[r] EXCEPT !.left = req[r].left \ {what}]
      OBVIOUS
    <2>2. /\ q \in ClosesOf /\ q.site = req[r].site /\ q.todo = req[r].todo /\ q.op = "close"
          /\ q.phase = "after"
      BY <1>1, <1>2, <2>1 DEF ClosesOf
    <2>3. req' = [req EXCEPT ![r] = q] /\ stale' \in [Requests -> SUBSET Workers]
      BY <1>2, <1>7, <2>1 DEF Continue, ClosesOf, ShapesInv, RequestsOK
    <2>4. Finds(q)' /\ Surveyed(q)
      BY <1>1, <1>2, <2>2 DEF Finds, Surveyed
    <2> QED BY <1>5, <2>2, <2>3, <2>4, RequestMovesOn DEF ShapesInv, AnyRequest
  <1>8. Finish(r) \/ (Continue(r, [req[r] EXCEPT !.left = @ \ {what}]) /\ UNCHANGED stale)
    BY DEF AfterClose
  <1> QED BY <1>6, <1>7, <1>8

-----------------------------------------------------------------------------
(* Branches, sites and stations *)

LEMMA TakesUp ==
    ASSUME ShapesInv, UNCHANGED ask, NEW r \in Requests, NEW q \in AnyRequest, Start(r, q),
           UNCHANGED <<branch, site, worker, station, scope, log, stale>>, Finds(q), Surveyed(q)
    PROVE  ShapesInv'
  BY RequestLooks DEF Start

LEMMA RestoringKeepsShapes ==
    ASSUME ShapesInv, UNCHANGED ask, NEW r \in Requests,
           (\E s \in Sites : RestoreSiteRead(r, s)) \/ RestoreSite(r) \/ RestoreStations(r)
    PROVE  ShapesInv'
  <1>1. ASSUME NEW s \in Sites, RestoreSiteRead(r, s)
        PROVE  ShapesInv'
    <2>1. PICK q : q = [op |-> "restoreSite", site |-> s, saved |-> FALSE]
      OBVIOUS
    <2>2. q \in AnyRequest /\ q.op = "restoreSite" /\ q.site = s
      BY <2>1 DEF AnyRequest, Request
    <2>3. site[s] \in SiteRecord
      BY <1>1 DEF RestoreSiteRead, SiteIs, ShapesInv, RecordsOK
    <2>4. Finds(q) /\ Surveyed(q)
      BY <2>2, <2>3 DEF Finds, Surveyed
    <2> QED BY <1>1, <2>1, <2>2, <2>4, TakesUp DEF RestoreSiteRead
  <1>2. ASSUME RestoreSite(r)
        PROVE  ShapesInv'
    <2>1. PICK q : q = [req[r] EXCEPT !.saved = TRUE]
      OBVIOUS
    <2>2. PICK d : d = [site[req[r].site] EXCEPT !.status = "active"]
      OBVIOUS
    <2>3. /\ req[r].op = "restoreSite" /\ req' = [req EXCEPT ![r] = q]
          /\ site' = [site EXCEPT ![req[r].site] = d]
          /\ UNCHANGED <<branch, worker, station, scope, log, stale>>
      BY <1>2, <2>1, <2>2 DEF RestoreSite, Continue
    <2>4. /\ req[r] \in AnyRequest /\ Finds(req[r]) /\ stale' \in [Requests -> SUBSET Workers]
      BY <2>3 DEF ShapesInv, RequestsOK
    <2>5. q \in AnyRequest /\ q.op = "restoreSite" /\ q.site = req[r].site /\ q.site \in Sites
      BY <2>1, <2>3, <2>4, RestoreSiteFields
    <2>6. site[q.site] \in SiteRecord
      BY <2>3, <2>4, <2>5 DEF Finds
    <2>7. d \in SiteRecord
      BY <2>2, <2>5, <2>6 DEF SiteRecord
    <2>8. RecordsOK' /\ NothingGoes
      BY <2>3, <2>5, <2>7, SiteIsSaved DEF ShapesInv
    <2>9. Finds(q)' /\ Surveyed(q)
      BY <2>5, <2>6, <2>8 DEF Finds, Surveyed, NothingGoes
    <2> QED BY <2>3, <2>4, <2>5, <2>8, <2>9, RequestMovesOn DEF ShapesInv
  <1>3. ASSUME RestoreStations(r)
        PROVE  ShapesInv'
    <2>1. /\ Finish(r) /\ UNCHANGED <<branch, site, worker, scope, log>>
          /\ station' = [t \in Stations |-> IF station[t] # Null /\ station[t].site = req[r].site
                                           THEN [station[t] EXCEPT !.active = TRUE] ELSE station[t]]
      BY <1>3 DEF RestoreStations
    <2>2. \A d \in StationRecord : [d EXCEPT !.active = TRUE] \in StationRecord
      BY DEF StationRecord
    <2>3. \A t \in Stations : station[t] \in StationRecord \union {Null}
      BY DEF ShapesInv, RecordsOK
    <2>4. station' \in [Stations -> StationRecord \union {Null}]
      BY <2>1, <2>2, <2>3
    <2>5. branch' \in [Branches -> {"unborn", "open", "gone"}] /\ scope' \in [Users -> SUBSET Sites]
      BY <2>1 DEF ShapesInv, RecordsOK
    <2>6. RecordsOK' /\ NothingGoes
      BY <2>1, <2>4, <2>5, NothingIsSaved DEF ShapesInv
    <2> QED BY <2>1, <2>6, FinishKeepsShapes
  <1> QED BY <1>1, <1>2, <1>3

LEMMA BranchingKeepsShapes ==
    ASSUME ShapesInv, UNCHANGED ask, Branching
    PROVE  ShapesInv'
  <1>1. PICK r \in Requests : (\E b \in Branches : CreateBranch(b) \/ DeleteBranchCount(r, b)) \/ DeleteBranch(r)
    BY DEF Branching
  <1>2. ASSUME NEW b \in Branches, CreateBranch(b)
        PROVE  ShapesInv'
    <2>1. /\ branch' \in [Branches -> {"unborn", "open", "gone"}]
          /\ UNCHANGED <<site, worker, station, scope, log, req, stale>>
      BY <1>2 DEF CreateBranch, ShapesInv, RecordsOK
    <2>2. station' \in [Stations -> StationRecord \union {Null}] /\ scope' \in [Users -> SUBSET Sites]
      BY <2>1 DEF ShapesInv, RecordsOK
    <2>3. RecordsOK'
      BY <2>1, <2>2, NothingIsSaved DEF ShapesInv
    <2> QED BY <2>1, <2>3 DEF ShapesInv, RequestsOK, Finds, Surveyed
  <1>3. ASSUME NEW b \in Branches, DeleteBranchCount(r, b)
        PROVE  ShapesInv'
    <2>1. PICK q : q = [op |-> "deleteBranch", branch |-> b]
      OBVIOUS
    <2>2. q \in AnyRequest /\ q.op = "deleteBranch"
      BY <2>1 DEF AnyRequest, Request
    <2>3. Finds(q) /\ Surveyed(q)
      BY <2>2 DEF Finds, Surveyed
    <2> QED BY <1>3, <2>1, <2>2, <2>3, TakesUp DEF DeleteBranchCount
  <1>4. ASSUME DeleteBranch(r)
        PROVE  ShapesInv'
    <2>1. /\ branch' = [branch EXCEPT ![req[r].branch] = "gone"] /\ Finish(r)
          /\ UNCHANGED <<site, worker, station, scope, log>>
      BY <1>4 DEF DeleteBranch
    <2>2. /\ branch' \in [Branches -> {"unborn", "open", "gone"}]
          /\ station' \in [Stations -> StationRecord \union {Null}] /\ scope' \in [Users -> SUBSET Sites]
      BY <2>1 DEF ShapesInv, RecordsOK
    <2>3. RecordsOK' /\ NothingGoes
      BY <2>1, <2>2, NothingIsSaved DEF ShapesInv
    <2> QED BY <2>1, <2>3, FinishKeepsShapes
  <1> QED BY <1>1, <1>2, <1>3, <1>4

LEMMA CreateSiteKeepsShapes ==
    ASSUME ShapesInv, UNCHANGED ask, NEW r \in Requests,
           \/ \E s \in Sites, b \in Branches, n \in Names : CreateSiteRead(r, s, b, n)
           \/ CreateSite(r)
    PROVE  ShapesInv'
  <1>1. ASSUME NEW s \in Sites, NEW b \in Branches, NEW n \in Names, CreateSiteRead(r, s, b, n)
        PROVE  ShapesInv'
    <2>1. PICK q : q = [op |-> "createSite", site |-> s, branch |-> b, name |-> n]
      OBVIOUS
    <2>2. q \in AnyRequest /\ q.op = "createSite"
      BY <2>1 DEF AnyRequest, Request
    <2>3. Finds(q) /\ Surveyed(q)
      BY <2>2 DEF Finds, Surveyed
    <2> QED BY <1>1, <2>1, <2>2, <2>3, TakesUp DEF CreateSiteRead
  <1>2. ASSUME CreateSite(r)
        PROVE  ShapesInv'
    <2>1. PICK d : d = NewSite(req[r].branch, req[r].name)
      OBVIOUS
    <2>2. /\ req[r].op = "createSite" /\ Finish(r) /\ UNCHANGED <<branch, worker, station, scope, log>>
          /\ site' = site \/ site' = [site EXCEPT ![req[r].site] = d]
      BY <1>2, <2>1 DEF CreateSite
    <2>3. req[r] \in AnyRequest
      BY DEF ShapesInv, RequestsOK
    <2>4. req[r].site \in Sites /\ req[r].branch \in Branches /\ req[r].name \in Names
      BY <2>2, <2>3, SimpleFields
    <2>5. d \in SiteRecord
      BY <2>1, <2>4 DEF NewSite, SiteRecord
    <2>6. RecordsOK' /\ NothingGoes
      <3>1. CASE site' = site
        <4>1. /\ branch' \in [Branches -> {"unborn", "open", "gone"}]
              /\ station' \in [Stations -> StationRecord \union {Null}] /\ scope' \in [Users -> SUBSET Sites]
          BY <2>2 DEF ShapesInv, RecordsOK
        <4> QED BY <2>2, <3>1, <4>1, NothingIsSaved DEF ShapesInv
      <3>2. CASE site' = [site EXCEPT ![req[r].site] = d]
        BY <2>2, <2>4, <2>5, <3>2, SiteIsSaved DEF ShapesInv
      <3> QED BY <2>2, <3>1, <3>2
    <2> QED BY <2>2, <2>6, FinishKeepsShapes
  <1> QED BY <1>1, <1>2

LEMMA EditSiteKeepsShapes ==
    ASSUME ShapesInv, UNCHANGED ask, NEW r \in Requests,
           \/ \E s \in Sites, b \in Branches, n \in Names : EditSiteRead(r, s, b, n)
           \/ EditSite(r) \/ RenameOnWorkers(r)
    PROVE  ShapesInv'
  <1>1. ASSUME NEW s \in Sites, NEW b \in Branches, NEW n \in Names, EditSiteRead(r, s, b, n)
        PROVE  ShapesInv'
    <2>1. PICK q : q = [op |-> "editSite", site |-> s, branch |-> b, name |-> n,
                        before |-> site[s].name, saved |-> FALSE]
      OBVIOUS
    <2>2. site[s] \in SiteRecord
      BY <1>1 DEF EditSiteRead, ShapesInv, RecordsOK
    <2>3. q \in AnyRequest /\ q.op = "editSite" /\ q.site = s
      <3>1. site[s].name \in Names
        BY <2>2 DEF SiteRecord
      <3> QED BY <2>1, <3>1 DEF AnyRequest, Request
    <2>4. Finds(q) /\ Surveyed(q)
      BY <2>2, <2>3 DEF Finds, Surveyed
    <2> QED BY <1>1, <2>1, <2>3, <2>4, TakesUp DEF EditSiteRead
  <1>2. ASSUME req[r].op = "editSite"
        PROVE  /\ req[r] \in AnyRequest /\ site[req[r].site] \in SiteRecord
               /\ req[r].site \in Sites /\ req[r].branch \in Branches /\ req[r].name \in Names
    <2>1. req[r] \in AnyRequest /\ Finds(req[r])
      BY DEF ShapesInv, RequestsOK
    <2> QED BY <1>2, <2>1, EditSiteFields DEF Finds
  <1>3. ASSUME EditSite(r)
        PROVE  ShapesInv'
    <2>1. PICK q : q = [req[r] EXCEPT !.saved = TRUE]
      OBVIOUS
    <2>2. PICK d : d = [site[req[r].site] EXCEPT !.branch = req[r].branch, !.name = req[r].name]
      OBVIOUS
    <2>3. /\ req[r].op = "editSite" /\ UNCHANGED <<branch, worker, station, scope, log>>
          /\ site' = [site EXCEPT ![req[r].site].branch = req[r].branch, ![req[r].site].name = req[r].name]
          /\ Finish(r) \/ (Continue(r, q) /\ UNCHANGED stale)
      BY <1>3, <2>1 DEF EditSite
    <2>4. /\ site' = [site EXCEPT ![req[r].site] = d] /\ d \in SiteRecord
      <3>1. site \in [Sites -> SiteRecord \union {Null}]
        BY DEF ShapesInv, RecordsOK
      <3>2. PICK s \in Sites : s = req[r].site
        BY <1>2, <2>3
      <3>3. site' = [site EXCEPT ![s] = d]
        BY <2>2, <2>3, <3>1, <3>2
      <3> QED BY <1>2, <2>2, <2>3, <3>2, <3>3 DEF SiteRecord
    <2>5. RecordsOK' /\ NothingGoes
      BY <1>2, <2>3, <2>4, SiteIsSaved DEF ShapesInv
    <2>6. CASE Finish(r)
      BY <2>5, <2>6, FinishKeepsShapes
    <2>7. CASE Continue(r, q) /\ UNCHANGED stale
      <3>1. q \in AnyRequest /\ q.op = "editSite" /\ q.site = req[r].site
        BY <1>2, <2>1, <2>3, EditSiteFields
      <3>2. Finds(q)' /\ Surveyed(q)
        BY <1>2, <2>3, <2>5, <3>1 DEF Finds, Surveyed, NothingGoes
      <3>3. req' = [req EXCEPT ![r] = q] /\ stale' \in [Requests -> SUBSET Workers]
        BY <2>7 DEF Continue, ShapesInv, RequestsOK
      <3> QED BY <2>5, <3>1, <3>2, <3>3, RequestMovesOn DEF ShapesInv
    <2> QED BY <2>3, <2>6, <2>7
  <1>4. ASSUME RenameOnWorkers(r)
        PROVE  ShapesInv'
    <2>1. /\ req[r].op = "editSite" /\ Finish(r) /\ UNCHANGED <<branch, site, station, scope, log>>
          /\ worker' = [w \in Workers |-> IF worker[w] # Null /\ SiteId(w) = req[r].site
                                         THEN [worker[w] EXCEPT !.siteName = req[r].name]
                                         ELSE worker[w]]
      BY <1>4 DEF RenameOnWorkers
    <2>2. \A p \in Employee : [p EXCEPT !.siteName = req[r].name] \in Employee
      BY <1>2, <2>1 DEF Employee
    <2>3. worker \in [Workers -> Employee \union {Null}] /\ site \in [Sites -> SiteRecord \union {Null}]
      BY DEF ShapesInv, RecordsOK
    <2>4. /\ worker' \in [Workers -> Employee \union {Null}]
          /\ \A w \in Workers : worker[w] \in Employee => worker'[w] \in Employee
      BY <2>1, <2>2, <2>3
    <2>5. RecordsOK' /\ NothingGoes
      BY <2>1, <2>3, <2>4, StaffAreSaved DEF ShapesInv
    <2> QED BY <2>1, <2>5, FinishKeepsShapes
  <1> QED BY <1>1, <1>3, <1>4

LEMMA StationingKeepsShapes ==
    ASSUME ShapesInv, UNCHANGED ask, Stationing
    PROVE  ShapesInv'
  <1>1. PICK r \in Requests, t \in Stations :
          (\E s \in Sites : RegisterStationRead(r, t, s)) \/ RegisterStation(r) \/ ToggleStation(t) \/ DeleteStation(t)
    BY DEF Stationing
  <1>2. ASSUME NEW s \in Sites, RegisterStationRead(r, t, s)
        PROVE  ShapesInv'
    <2>1. PICK q : q = [op |-> "station", station |-> t, site |-> s]
      OBVIOUS
    <2>2. q \in AnyRequest /\ q.op = "station"
      BY <2>1 DEF AnyRequest, Request
    <2>3. Finds(q) /\ Surveyed(q)
      BY <2>2 DEF Finds, Surveyed
    <2> QED BY <1>2, <2>1, <2>2, <2>3, TakesUp DEF RegisterStationRead
  <1>3. station \in [Stations -> StationRecord \union {Null}]
    BY DEF ShapesInv, RecordsOK
  <1>4. ASSUME station' \in [Stations -> StationRecord \union {Null}], UNCHANGED <<branch, site, worker, scope, log>>
        PROVE  RecordsOK' /\ NothingGoes
    <2>1. branch' \in [Branches -> {"unborn", "open", "gone"}] /\ scope' \in [Users -> SUBSET Sites]
      BY <1>4 DEF ShapesInv, RecordsOK
    <2> QED BY <1>4, <2>1, NothingIsSaved DEF ShapesInv
  <1>5. ASSUME RegisterStation(r)
        PROVE  ShapesInv'
    <2>1. PICK d : d = NewStation(req[r].site)
      OBVIOUS
    <2>2. /\ req[r].op = "station" /\ Finish(r) /\ UNCHANGED <<branch, site, worker, scope, log>>
          /\ station' = station \/ station' = [station EXCEPT ![req[r].station] = d]
      BY <1>5, <2>1 DEF RegisterStation
    <2>3. req[r] \in AnyRequest
      BY DEF ShapesInv, RequestsOK
    <2>4. d \in StationRecord
      BY <2>1, <2>2, <2>3, SimpleFields DEF NewStation, StationRecord
    <2>5. station' \in [Stations -> StationRecord \union {Null}]
      BY <1>3, <2>2, <2>4
    <2> QED BY <1>4, <2>2, <2>5, FinishKeepsShapes
  <1>6. ASSUME ToggleStation(t) \/ DeleteStation(t)
        PROVE  ShapesInv'
    <2>1. UNCHANGED <<branch, site, worker, scope, log, req, stale>>
      BY <1>6 DEF ToggleStation, DeleteStation
    <2>2. station' \in [Stations -> StationRecord \union {Null}]
      <3>1. CASE DeleteStation(t)
        BY <1>3, <3>1 DEF DeleteStation
      <3>2. CASE ToggleStation(t)
        <4>1. PICK d : d = [station[t] EXCEPT !.active = ~ station[t].active]
          OBVIOUS
        <4>2. station[t] \in StationRecord
          BY <1>3, <3>2 DEF ToggleStation
        <4>3. d \in StationRecord
          BY <4>1, <4>2 DEF StationRecord
        <4>4. station' = [station EXCEPT ![t] = d]
          BY <3>2, <4>1, <4>2 DEF ToggleStation, StationRecord
        <4> QED BY <1>3, <4>3, <4>4
      <3> QED BY <1>6, <3>1, <3>2
    <2>3. RecordsOK'
      BY <1>4, <2>1, <2>2
    <2> QED BY <2>1, <2>3 DEF ShapesInv, RequestsOK, Finds, Surveyed
  <1> QED BY <1>1, <1>2, <1>5, <1>6

-----------------------------------------------------------------------------
(* Employees *)

\* A site that is read is there.
LEMMA SiteIsRead ==
    ASSUME RecordsOK, NEW s \in Sites, site[s] # Null
    PROVE  site[s] \in SiteRecord /\ site[s].name \in Names
  BY DEF RecordsOK, SiteRecord

LEMMA EmployeeIsRead ==
    ASSUME RecordsOK, NEW w \in Workers, worker[w] # Null
    PROVE  worker[w] \in Employee /\ worker[w].siteIds \in Lists
  <1>1. worker[w] \in Employee
    BY DEF RecordsOK
  <1> QED BY <1>1, PicksAreNonemptyLists DEF Employee

LEMMA FirstOfPicks ==
    ASSUME NEW ids \in Picks
    PROVE  ids[1] \in Sites /\ ids[1] \in ToSet(ids)
  <1>1. ids \in Seq(Sites) /\ 1 \in DOMAIN ids
    BY PicksAreLists
  <1> QED BY <1>1 DEF ToSet

LEMMA EnrolKeepsShapes ==
    ASSUME ShapesInv, UNCHANGED ask, NEW r \in Requests,
           \/ \E u \in Actors, w \in Workers, ids \in Picks : EnrolRead(r, u, w, ids)
           \/ Enrol(r)
    PROVE  ShapesInv'
  <1>1. ASSUME NEW u \in Actors, NEW w \in Workers, NEW ids \in Picks, EnrolRead(r, u, w, ids)
        PROVE  ShapesInv'
    <2>1. PICK q : q = [op |-> "enrol", worker |-> w, ids |-> ids, name |-> site[ids[1]].name]
      OBVIOUS
    <2>2. site[ids[1]].name \in Names
      BY <1>1, FirstOfPicks, SiteIsRead DEF EnrolRead, ShapesInv
    <2>3. q \in AnyRequest /\ q.op = "enrol"
      BY <2>1, <2>2 DEF AnyRequest, Request
    <2>4. Finds(q) /\ Surveyed(q)
      BY <2>3 DEF Finds, Surveyed
    <2> QED BY <1>1, <2>1, <2>3, <2>4, TakesUp DEF EnrolRead
  <1>2. ASSUME Enrol(r)
        PROVE  ShapesInv'
    <2>1. PICK p : p = NewWorker("active", req[r].ids, req[r].name)
      OBVIOUS
    <2>2. /\ req[r].op = "enrol" /\ Finish(r) /\ UNCHANGED <<branch, site, station, scope, log>>
          /\ worker' = worker \/ worker' = [worker EXCEPT ![req[r].worker] = p]
      BY <1>2, <2>1 DEF Enrol
    <2>3. req[r] \in AnyRequest
      BY DEF ShapesInv, RequestsOK
    <2>4. req[r].worker \in Workers /\ req[r].ids \in Picks /\ req[r].name \in Names
      BY <2>2, <2>3, SimpleFields
    <2>5. p \in Employee
      BY <2>1, <2>4 DEF NewWorker, Employee, Roster
    <2>6. RecordsOK' /\ NothingGoes
      <3>1. CASE worker' = worker
        <4>1. /\ branch' \in [Branches -> {"unborn", "open", "gone"}]
              /\ station' \in [Stations -> StationRecord \union {Null}] /\ scope' \in [Users -> SUBSET Sites]
          BY <2>2 DEF ShapesInv, RecordsOK
        <4> QED BY <2>2, <3>1, <4>1, NothingIsSaved DEF ShapesInv
      <3>2. CASE worker' = [worker EXCEPT ![req[r].worker] = p]
        BY <2>2, <2>4, <2>5, <3>2, PersonIsSaved DEF ShapesInv
      <3> QED BY <2>2, <3>1, <3>2
    <2> QED BY <2>2, <2>6, FinishKeepsShapes
  <1> QED BY <1>1, <1>2

\* A form is filled in from the employee it shows.
LEMMA EditIsTakenUp ==
    ASSUME ShapesInv, UNCHANGED ask, NEW r \in Requests, NEW w \in Workers, worker[w] \in Employee,
           NEW to \in Employee, NEW remark \in BOOLEAN,
           NEW q, q = [op |-> "edit", worker |-> w, copy |-> worker[w], remark |-> remark, to |-> to],
           req' = [req EXCEPT ![r] = q], UNCHANGED <<branch, site, worker, station, scope, log, stale>>
    PROVE  ShapesInv'
  <1>1. q \in AnyRequest /\ q.op = "edit" /\ q.worker = w
    BY DEF AnyRequest, EditsOf
  <1>2. Finds(q) /\ Surveyed(q)
    BY <1>1 DEF Finds, Surveyed
  <1> QED BY <1>1, <1>2, RequestLooks

LEMMA EditReadsKeepShapes ==
    ASSUME ShapesInv, UNCHANGED ask, NEW r \in Requests, NEW w \in Workers,
           \/ \E u \in Actors, ids \in Picks, status \in {"active", "inactive"} :
                 EditRead(r, u, w, ids, status)
           \/ \E u \in Actors, status \in {"active", "inactive"} : BulkStatusRead(r, u, w, status)
           \/ BulkMoveRead(r, w)
    PROVE  ShapesInv'
  <1>1. worker[w] # Null
    BY DEF EditRead, BulkStatusRead, BulkMoveRead, CanUseWorker
  <1>2. worker[w] \in Employee /\ worker[w].siteIds \in Lists
    BY <1>1, EmployeeIsRead DEF ShapesInv
  <1>3. ASSUME NEW u \in Actors, NEW ids \in Picks, NEW status \in {"active", "inactive"},
               EditRead(r, u, w, ids, status)
        PROVE  ShapesInv'
    <2>1. PICK all : all = ids \o Retained(u, w, ids)
      OBVIOUS
    <2>2. PICK to : to = [worker[w] EXCEPT !.status = status, !.siteIds = all, !.siteName = site[all[1]].name]
      OBVIOUS
    <2>3. PICK q : q = [op |-> "edit", worker |-> w, copy |-> worker[w], remark |-> FALSE, to |-> to]
      OBVIOUS
    <2>4. /\ req' = [req EXCEPT ![r] = q] /\ UNCHANGED <<branch, site, worker, station, scope, log, stale>>
          /\ \A s \in ToSet(all) : site[s] # Null
      BY <1>3, <2>1, <2>2, <2>3 DEF EditRead, Start
    <2>5. all \in Picks
      BY <1>2, <2>1, PickedAndRetained
    <2>6. site[all[1]].name \in Names
      BY <2>4, <2>5, FirstOfPicks, SiteIsRead DEF ShapesInv
    <2>7. to \in Employee
      BY <1>2, <2>2, <2>5, <2>6 DEF Employee, Roster
    <2> QED BY <1>2, <2>3, <2>4, <2>7, EditIsTakenUp
  <1>4. ASSUME NEW u \in Actors, NEW status \in {"active", "inactive"}, BulkStatusRead(r, u, w, status)
        PROVE  ShapesInv'
    <2>1. PICK to : to = [worker[w] EXCEPT !.status = status]
      OBVIOUS
    <2>2. PICK q : q = [op |-> "edit", worker |-> w, copy |-> worker[w], remark |-> FALSE, to |-> to]
      OBVIOUS
    <2>3. /\ req' = [req EXCEPT ![r] = q] /\ UNCHANGED <<branch, site, worker, station, scope, log, stale>>
      BY <1>4, <2>1, <2>2 DEF BulkStatusRead, Start
    <2>4. to \in Employee
      BY <1>2, <2>1 DEF Employee, Roster
    <2> QED BY <1>2, <2>2, <2>3, <2>4, EditIsTakenUp
  <1>5. ASSUME BulkMoveRead(r, w)
        PROVE  ShapesInv'
    <2>1. PICK ids : ids = <<req[r].site>>
      OBVIOUS
    <2>2. PICK all : all = ids \o Retained(req[r].actor, w, ids)
      OBVIOUS
    <2>3. PICK to : to = [worker[w] EXCEPT !.siteIds = all, !.siteName = req[r].name]
      OBVIOUS
    <2>4. PICK q : q = [op |-> "edit", worker |-> w, copy |-> worker[w], remark |-> TRUE, to |-> to]
      OBVIOUS
    <2>5. /\ req[r].op = "moveTo" /\ req' = [req EXCEPT ![r] = q]
          /\ UNCHANGED <<branch, site, worker, station, scope, log, stale>>
      BY <1>5, <2>1, <2>2, <2>3, <2>4 DEF BulkMoveRead, Continue
    <2>6. req[r] \in AnyRequest
      BY DEF ShapesInv, RequestsOK
    <2>7. req[r].site \in Sites /\ req[r].name \in Names
      BY <2>5, <2>6, SimpleFields
    <2>8. ids \in Picks
      <3>1. ids \in Seq(Sites) /\ ids # << >> /\ DOMAIN ids = {1}
        BY <2>1, <2>7
      <3> QED BY <3>1, PicksAreNonemptyLists DEF Lists
    <2>9. all \in Picks
      BY <1>2, <2>2, <2>8, PickedAndRetained
    <2>10. to \in Employee
      BY <1>2, <2>3, <2>7, <2>9 DEF Employee
    <2> QED BY <1>2, <2>4, <2>5, <2>10, EditIsTakenUp
  <1> QED BY <1>3, <1>4, <1>5

LEMMA MoveReadKeepsShapes ==
    ASSUME ShapesInv, UNCHANGED ask, NEW r \in Requests, NEW u \in Actors, NEW s \in Sites, BulkMoveSite(r, u, s)
    PROVE  ShapesInv'
  <1>1. PICK q : q = [op |-> "moveTo", actor |-> u, site |-> s, name |-> site[s].name]
    OBVIOUS
  <1>2. site[s].name \in Names
    BY SiteIsRead DEF BulkMoveSite, SiteIs, ShapesInv
  <1>3. q \in AnyRequest /\ q.op = "moveTo"
    BY <1>1, <1>2 DEF AnyRequest, Request
  <1>4. Finds(q) /\ Surveyed(q)
    BY <1>3 DEF Finds, Surveyed
  <1> QED BY <1>1, <1>3, <1>4, TakesUp DEF BulkMoveSite

LEMMA WrittenIsTyped ==
    ASSUME NEW stored \in Employee, NEW copy \in Employee, NEW to \in Employee
    PROVE  Written(stored, copy, to) \in Employee
  BY DEF Written, Employee

\* Who is saved without a place of his own for what is left to do.
LEMMA SavedAndDone ==
    ASSUME ShapesInv, UNCHANGED ask, NEW r \in Requests, NEW w \in Workers, NEW p \in Employee,
           worker' = [worker EXCEPT ![w] = p], UNCHANGED <<branch, site, station, scope, log>>,
           req' = [req EXCEPT ![r] = Idle], Moved(r, w) \/ stale' = [stale EXCEPT ![r] = {}]
    PROVE  ShapesInv'
  <1>1. stale' \in [Requests -> SUBSET Workers]
    BY MovedIsTyped DEF ShapesInv, RequestsOK
  <1>2. RecordsOK' /\ NothingGoes
    BY PersonIsSaved DEF ShapesInv
  <1> QED BY <1>1, <1>2, IdleFields, RequestMovesOn DEF ShapesInv

LEMMA EditSaveKeepsShapes ==
    ASSUME ShapesInv, UNCHANGED ask, NEW r \in Requests, EditSave(r)
    PROVE  ShapesInv'
  <1>1. PICK p : p = Written(worker[req[r].worker], req[r].copy, req[r].to)
    OBVIOUS
  <1>2. /\ req[r].op = "edit" /\ UNCHANGED <<branch, site, station, scope, log>>
        /\ \/ UNCHANGED worker /\ Finish(r)
           \/ /\ worker' = [worker EXCEPT ![req[r].worker] = p] /\ req' = [req EXCEPT ![r] = Idle]
              /\ Moved(r, req[r].worker) \/ stale' = [stale EXCEPT ![r] = {}]
    BY <1>1 DEF EditSave, Continue
  <1>3. req[r] \in EditsOf /\ Finds(req[r])
    BY <1>2, ClosesFields DEF ShapesInv, RequestsOK
  <1>4. req[r].worker \in Workers /\ p \in Employee
    <2>1. /\ req[r].worker \in Workers /\ req[r].copy \in Employee /\ req[r].to \in Employee
      BY <1>3 DEF EditsOf
    <2> QED BY <1>1, <1>2, <1>3, <2>1, WrittenIsTyped DEF Finds
  <1>5. CASE UNCHANGED worker /\ Finish(r)
    <2>1. /\ branch' \in [Branches -> {"unborn", "open", "gone"}]
          /\ station' \in [Stations -> StationRecord \union {Null}] /\ scope' \in [Users -> SUBSET Sites]
      BY <1>2 DEF ShapesInv, RecordsOK
    <2>2. RecordsOK' /\ NothingGoes
      BY <1>2, <1>5, <2>1, NothingIsSaved DEF ShapesInv
    <2> QED BY <1>5, <2>2, FinishKeepsShapes
  <1> QED BY <1>2, <1>4, <1>5, SavedAndDone

LEMMA RestoreKeepsShapes ==
    ASSUME ShapesInv, UNCHANGED ask, NEW r \in Requests,
           (\E u \in Actors, w \in Workers : RestoreRead(r, u, w)) \/ Restore(r)
    PROVE  ShapesInv'
  <1>1. ASSUME NEW u \in Actors, NEW w \in Workers, RestoreRead(r, u, w)
        PROVE  ShapesInv'
    <2>1. PICK q : q = [op |-> "restore", worker |-> w]
      OBVIOUS
    <2>2. q \in AnyRequest /\ q.op = "restore" /\ q.worker = w
      BY <2>1 DEF AnyRequest, Request
    <2>3. worker[w] \in Employee
      BY <1>1, EmployeeIsRead DEF RestoreRead, CanUseWorker, ShapesInv
    <2>4. Finds(q) /\ Surveyed(q)
      BY <2>2, <2>3 DEF Finds, Surveyed
    <2> QED BY <1>1, <2>1, <2>2, <2>4, TakesUp DEF RestoreRead
  <1>2. ASSUME Restore(r)
        PROVE  ShapesInv'
    <2>1. PICK p : p = [worker[req[r].worker] EXCEPT !.status = "active", !.left = FALSE]
      OBVIOUS
    <2>2. /\ req[r].op = "restore" /\ worker' = [worker EXCEPT ![req[r].worker] = p]
          /\ Moved(r, req[r].worker) /\ req' = [req EXCEPT ![r] = Idle]
          /\ UNCHANGED <<branch, site, station, scope, log>>
      BY <1>2, <2>1 DEF Restore, Continue
    <2>3. req[r] \in AnyRequest /\ Finds(req[r])
      BY DEF ShapesInv, RequestsOK
    <2>4. req[r].worker \in Workers /\ worker[req[r].worker] \in Employee
      BY <2>2, <2>3, SimpleFields DEF Finds
    <2>5. p \in Employee
      BY <2>1, <2>4 DEF Employee, Roster
    <2> QED BY <2>2, <2>4, <2>5, SavedAndDone
  <1> QED BY <1>1, <1>2

LEMMA AddRemarkKeepsShapes ==
    ASSUME ShapesInv, UNCHANGED ask, NEW u \in Actors, NEW w \in Workers, AddRemark(u, w)
    PROVE  ShapesInv'
  <1>1. /\ UNCHANGED <<branch, site, worker, station, scope, log, req>>
        /\ stale' \in [Requests -> SUBSET Workers]
    BY DEF AddRemark, ShapesInv, RequestsOK
  <1>2. RecordsOK'
    BY <1>1 DEF ShapesInv, RecordsOK, EntriesFind, AsksFind
  <1> QED BY <1>1, <1>2 DEF ShapesInv, RequestsOK, Finds, Surveyed

LEMMA LeaveKeepsShapes ==
    ASSUME ShapesInv, UNCHANGED ask, NEW r \in Requests,
           (\E w \in Workers, to \in Gone : LeaveRead(r, TopUser, w, to)) \/ LeaveSave(r)
    PROVE  ShapesInv'
  <1>1. ASSUME NEW w \in Workers, NEW to \in Gone, LeaveRead(r, TopUser, w, to)
        PROVE  ShapesInv'
    <2>1. PICK q : q = [op |-> "leave", worker |-> w, copy |-> worker[w], to |-> to, saved |-> FALSE]
      OBVIOUS
    <2>2. worker[w] \in Employee
      BY <1>1, EmployeeIsRead DEF LeaveRead, CanUseWorker, ShapesInv
    <2>3. q \in AnyRequest /\ q.op = "leave" /\ q.worker = w
      BY <2>1, <2>2 DEF AnyRequest, LeavesOf
    <2>4. Finds(q) /\ Surveyed(q)
      BY <2>2, <2>3 DEF Finds, Surveyed
    <2> QED BY <1>1, <2>1, <2>3, <2>4, TakesUp DEF LeaveRead
  <1>2. ASSUME LeaveSave(r)
        PROVE  ShapesInv'
    <2>1. PICK to : to = [req[r].copy EXCEPT !.status = req[r].to]
      OBVIOUS
    <2>2. PICK p : p = [Written(worker[req[r].worker], req[r].copy, to) EXCEPT !.left = TRUE]
      OBVIOUS
    <2>3. PICK q : q = [req[r] EXCEPT !.saved = TRUE]
      OBVIOUS
    <2>4. /\ req[r].op = "leave" /\ worker' = [worker EXCEPT ![req[r].worker] = p]
          /\ Moved(r, req[r].worker) /\ UNCHANGED <<branch, site, station, scope, log>>
          /\ req' = [req EXCEPT ![r] = q] \/ req' = [req EXCEPT ![r] = Idle]
      BY <1>2, <2>1, <2>2, <2>3 DEF LeaveSave, Continue
    <2>5. req[r] \in LeavesOf /\ Finds(req[r])
      BY <2>4, ClosesFields DEF ShapesInv, RequestsOK
    <2>6. /\ req[r].worker \in Workers /\ req[r].copy \in Employee /\ to \in Employee
          /\ worker[req[r].worker] \in Employee
      BY <2>1, <2>4, <2>5 DEF LeavesOf, Employee, Finds
    <2>7. p \in Employee
      <3>1. PICK x \in Employee : x = Written(worker[req[r].worker], req[r].copy, to)
        BY <2>6, WrittenIsTyped
      <3> QED BY <2>2, <3>1 DEF Employee
    <2>8. CASE req' = [req EXCEPT ![r] = Idle]
      BY <2>4, <2>6, <2>7, <2>8, SavedAndDone
    <2>9. CASE req' = [req EXCEPT ![r] = q]
      <3>1. q \in AnyRequest /\ q.op = "leave" /\ q.worker = req[r].worker
        BY <2>3, <2>5 DEF AnyRequest, LeavesOf
      <3>2. RecordsOK' /\ NothingGoes
        BY <2>4, <2>6, <2>7, PersonIsSaved DEF ShapesInv
      <3>3. Finds(q)' /\ Surveyed(q)
        BY <2>6, <3>1, <3>2 DEF Finds, Surveyed, NothingGoes
      <3>4. stale' \in [Requests -> SUBSET Workers]
        BY <2>4, <2>6, MovedIsTyped
      <3> QED BY <2>9, <3>1, <3>2, <3>3, <3>4, RequestMovesOn DEF ShapesInv
    <2> QED BY <2>4, <2>8, <2>9
  <1> QED BY <1>1, <1>2

LEMMA LeaveLogKeepsShapes ==
    ASSUME ShapesInv, UNCHANGED ask, NEW r \in Requests, LeaveLog(r)
    PROVE  ShapesInv'
  <1>1. /\ req[r].op = "leave" /\ Append1(Entry("worker", req[r].worker)) /\ Finish(r)
        /\ UNCHANGED <<branch, site, worker, station, scope>>
    BY DEF LeaveLog
  <1>2. req[r].worker \in Workers /\ worker[req[r].worker] \in Employee
    <2>1. req[r] \in LeavesOf /\ Finds(req[r])
      BY <1>1, ClosesFields DEF ShapesInv, RequestsOK
    <2> QED BY <1>1, <2>1 DEF LeavesOf, Finds
  <1>3. PICK e \in RegisterEntry :
          e = Entry("worker", req[r].worker) /\ e.kind = "worker" /\ e.id = req[r].worker
    BY <1>2, EntriesAreTyped
  <1>4. station' \in [Stations -> StationRecord \union {Null}] /\ scope' \in [Users -> SUBSET Sites]
    BY <1>1 DEF ShapesInv, RecordsOK
  <1>5. RecordsOK' /\ NothingGoes
    BY <1>1, <1>2, <1>3, <1>4, EntryIsAdded DEF ShapesInv
  <1> QED BY <1>1, <1>5, FinishKeepsShapes

-----------------------------------------------------------------------------
(* The register and the requests about employees *)

LEMMA UndoKeepsShapes ==
    ASSUME ShapesInv, UNCHANGED ask, NEW r \in Requests,
           (\E e \in DOMAIN log : UndoReadEntry(r, e)) \/ Undo(r)
    PROVE  ShapesInv'
  <1>1. /\ log \in Seq(RegisterEntry) /\ Len(log) \in Nat /\ Len(log) <= MaxEntries
        /\ DOMAIN log = 1 .. Len(log) /\ \A e \in DOMAIN log : log[e] \in RegisterEntry
    <2>1. log \in Seq(RegisterEntry) /\ Len(log) <= MaxEntries
      BY DEF ShapesInv, RecordsOK
    <2> QED BY <2>1
  <1>2. ASSUME NEW e \in DOMAIN log, UndoReadEntry(r, e)
        PROVE  ShapesInv'
    <2>1. PICK q : q = [op |-> "undo", entry |-> e, phase |-> "entry"]
      OBVIOUS
    <2>2. e \in 1 .. MaxEntries
      BY <1>1, OfficeAssumption
    <2>3. q \in AnyRequest /\ q.op = "undo" /\ q.entry = e
      BY <2>1, <2>2 DEF AnyRequest, Request
    <2>4. Finds(q) /\ Surveyed(q)
      BY <2>3 DEF Finds, Surveyed
    <2> QED BY <1>2, <2>1, <2>3, <2>4, TakesUp DEF UndoReadEntry
  <1>3. ASSUME req[r].op = "undo"
        PROVE  req[r] \in AnyRequest /\ req[r].entry \in DOMAIN log
    BY <1>3 DEF ShapesInv, RequestsOK, Finds
  <1>4. ASSUME UndoReadRecord(r)
        PROVE  ShapesInv'
    <2>1. PICK q : q = [req[r] EXCEPT !.phase = "record"]
      OBVIOUS
    <2>2. /\ req[r].op = "undo" /\ UNCHANGED <<branch, site, worker, station, scope, log>>
          /\ Finish(r) \/ (req' = [req EXCEPT ![r] = q] /\ UNCHANGED stale)
      BY <1>4, <2>1 DEF UndoReadRecord, Continue
    <2>3. q \in AnyRequest /\ q.op = "undo" /\ q.entry = req[r].entry
      BY <1>3, <2>1, <2>2, UndoFields
    <2>4. Finds(q) /\ Surveyed(q)
      BY <1>3, <2>2, <2>3 DEF Finds, Surveyed
    <2>5. Idle \in AnyRequest /\ Finds(Idle) /\ Surveyed(Idle)
      BY IdleFields DEF Finds, Idle
    <2> QED BY <2>2, <2>3, <2>4, <2>5, RequestLooks DEF Finish
  <1>5. ASSUME UndoSaveRecord(r)
        PROVE  ShapesInv'
    <2>1. PICK q : q = [req[r] EXCEPT !.phase = "saved"]
      OBVIOUS
    <2>2. PICK n \in DOMAIN log : n = req[r].entry
      BY <1>3, <1>5 DEF UndoSaveRecord
    <2>3. PICK p : p = [worker[log[n].id] EXCEPT !.status = "archived"]
      OBVIOUS
    <2>4. PICK d : d = [site[log[n].id] EXCEPT !.status = "archived"]
      OBVIOUS
    <2>5. /\ req[r].op = "undo" /\ req' = [req EXCEPT ![r] = q] /\ UNCHANGED <<branch, station, scope, log>>
          /\ IF log[n].kind = "worker"
             THEN worker' = [worker EXCEPT ![log[n].id] = p] /\ Moved(r, log[n].id) /\ UNCHANGED site
             ELSE site' = [site EXCEPT ![log[n].id] = d] /\ UNCHANGED <<worker, stale>>
      BY <1>5, <2>1, <2>2, <2>3, <2>4 DEF UndoSaveRecord, Continue
    <2>6. q \in AnyRequest /\ q.op = "undo" /\ q.entry = n
      BY <1>3, <2>1, <2>2, <2>5, UndoFields
    <2>7. RecordsOK' /\ NothingGoes /\ stale' \in [Requests -> SUBSET Workers]
      <3>1. CASE log[n].kind = "worker"
        <4>1. log[n].id \in Workers /\ worker[log[n].id] \in Employee
          BY <1>1, <3>1 DEF RegisterEntry, ShapesInv, RecordsOK, EntriesFind
        <4>2. p \in Employee
          BY <2>3, <4>1 DEF Employee, Gone
        <4> QED BY <2>5, <3>1, <4>1, <4>2, PersonIsSaved, MovedIsTyped DEF ShapesInv
      <3>2. CASE log[n].kind # "worker"
        <4>1. log[n].id \in Sites /\ site[log[n].id] \in SiteRecord
          BY <1>1, <3>2 DEF RegisterEntry, ShapesInv, RecordsOK, EntriesFind
        <4>2. d \in SiteRecord
          BY <2>4, <4>1 DEF SiteRecord, Gone
        <4>3. stale' \in [Requests -> SUBSET Workers]
          BY <2>5, <3>2 DEF ShapesInv, RequestsOK
        <4> QED BY <2>5, <3>2, <4>1, <4>2, <4>3, SiteIsSaved DEF ShapesInv
      <3> QED BY <3>1, <3>2
    <2>8. Finds(q)' /\ Surveyed(q)
      BY <2>5, <2>6 DEF Finds, Surveyed
    <2> QED BY <2>5, <2>6, <2>7, <2>8, RequestMovesOn DEF ShapesInv
  <1>6. ASSUME UndoSaveEntry(r)
        PROVE  ShapesInv'
    <2>1. PICK n \in DOMAIN log : n = req[r].entry
      BY <1>3, <1>6 DEF UndoSaveEntry
    <2>2. /\ log' = [log EXCEPT ![n].undone = TRUE] /\ Finish(r)
          /\ UNCHANGED <<branch, site, worker, station, scope>>
      BY <1>6, <2>1 DEF UndoSaveEntry
    <2>3. RecordsOK' /\ NothingGoes
      BY <2>2, EntryIsUndone DEF ShapesInv
    <2> QED BY <2>2, <2>3, FinishKeepsShapes
  <1> QED BY <1>2, <1>4, <1>5, <1>6 DEF Undo

LEMMA AskIsRead ==
    ASSUME RecordsOK, NEW a \in Asks, ask[a] # Null
    PROVE  ask[a] \in AskRecord
  BY DEF RecordsOK

LEMMA AskingKeepsShapes ==
    ASSUME ShapesInv, NEW r \in Requests, NEW a \in Asks,
           \/ \E u \in Actors, type \in {"scheduled_ot", "offload"}, w \in Workers : CreateAsk(u, a, type, w)
           \/ \E u \in Actors : RecommendRead(r, u, a)
           \/ \E outcome \in Decided : DecideRead(r, a, outcome)
    PROVE  ShapesInv'
  <1>1. ASSUME NEW u \in Actors, NEW type \in {"scheduled_ot", "offload"}, NEW w \in Workers, CreateAsk(u, a, type, w)
        PROVE  ShapesInv'
    <2>1. PICK d : d = NewAsk(type, w)
      OBVIOUS
    <2>2. worker[w] \in Employee /\ SiteId(w) \in Sites
      BY <1>1, EmployeeIsRead, FirstOfPicks DEF CreateAsk, CanUseWorker, ShapesInv, Employee, SiteId
    <2>3. d \in AskRecord /\ d.worker = w
      BY <2>1, <2>2 DEF NewAsk, AskRecord
    <2>4. ask' = [ask EXCEPT ![a] = d] /\ UNCHANGED <<branch, site, worker, station, scope, log, req, stale>>
      BY <1>1, <2>1 DEF CreateAsk, vars
    <2>5. RecordsOK' /\ NothingGoes
      BY <2>2, <2>3, <2>4, AskIsSaved DEF ShapesInv
    <2>6. PICK q \in AnyRequest : q = req[r] /\ Finds(q) /\ Surveyed(q)
      BY DEF ShapesInv, RequestsOK
    <2>7. req' = [req EXCEPT ![r] = q] /\ stale' \in [Requests -> SUBSET Workers]
      BY <2>4, <2>6 DEF ShapesInv, RequestsOK
    <2>8. q.op \in {"recommend", "decide"} => q.ask \in Asks
      BY SimpleFields, DecideFields
    <2>9. Finds(q)'
      BY <2>4, <2>5, <2>6, <2>8 DEF Finds, NothingGoes
    <2> QED BY <2>5, <2>6, <2>7, <2>9, RequestMovesOn DEF ShapesInv
  <1>2. ASSUME NEW u \in Actors, RecommendRead(r, u, a)
        PROVE  ShapesInv'
    <2>1. PICK q : q = [op |-> "recommend", ask |-> a]
      OBVIOUS
    <2>2. q \in AnyRequest /\ q.op = "recommend" /\ q.ask = a
      BY <2>1 DEF AnyRequest, Request
    <2>3. ask[a] \in AskRecord
      BY <1>2, AskIsRead DEF RecommendRead, ShapesInv
    <2>4. Finds(q) /\ Surveyed(q)
      BY <2>2, <2>3 DEF Finds, Surveyed
    <2> QED BY <1>2, <2>1, <2>2, <2>4, TakesUp DEF RecommendRead
  <1>3. ASSUME NEW outcome \in Decided, DecideRead(r, a, outcome)
        PROVE  ShapesInv'
    <2>1. PICK q : q = [op |-> "decide", ask |-> a, outcome |-> outcome, saved |-> FALSE]
      OBVIOUS
    <2>2. q \in AnyRequest /\ q.op = "decide" /\ q.ask = a
      BY <2>1 DEF AnyRequest, Request
    <2>3. ask[a] \in AskRecord
      BY <1>3, AskIsRead DEF DecideRead, ShapesInv
    <2>4. Finds(q) /\ Surveyed(q)
      BY <2>2, <2>3 DEF Finds, Surveyed
    <2> QED BY <1>3, <2>1, <2>2, <2>4, TakesUp DEF DecideRead
  <1> QED BY <1>1, <1>2, <1>3

LEMMA AnswersKeepShapes ==
    ASSUME ShapesInv, NEW r \in Requests, Answering(r)
    PROVE  ShapesInv'
  <1>1. req[r].op \in {"recommend", "decide"} /\ UNCHANGED <<branch, site, station, scope, log>>
    BY DEF Answering, RecommendSave, DecideSave, Offload
  <1>2. PICK q \in AnyRequest : q = req[r] /\ q.op \in {"recommend", "decide"}
    BY <1>1 DEF ShapesInv, RequestsOK
  <1>3. PICK a \in Asks : a = q.ask /\ ask[a] \in AskRecord /\ (q.op = "decide" => q.outcome \in Decided)
    <2>1. Finds(q)
      BY <1>2 DEF ShapesInv, RequestsOK
    <2>2. q.ask \in Asks /\ (q.op = "decide" => q.outcome \in Decided)
      BY <1>2, SimpleFields, DecideFields
    <2> QED BY <1>2, <2>1, <2>2 DEF Finds
  <1>4. ask[a].worker \in Workers /\ worker[ask[a].worker] \in Employee
    BY <1>3 DEF AskRecord, ShapesInv, RecordsOK, AsksFind
  <1>5. ASSUME NEW d \in AskRecord, d.worker = ask[a].worker, ask' = [ask EXCEPT ![a] = d], UNCHANGED worker
        PROVE  RecordsOK' /\ NothingGoes
    BY <1>1, <1>3, <1>4, <1>5, AskIsSaved DEF ShapesInv
  <1>6. ASSUME RecommendSave(r)
        PROVE  ShapesInv'
    <2>1. PICK d : d = [ask[a] EXCEPT !.status = "recommended", !.recommended = TRUE]
      OBVIOUS
    <2>2. d \in AskRecord /\ d.worker = ask[a].worker
      BY <1>3, <2>1 DEF AskRecord
    <2>3. ask' = [ask EXCEPT ![a] = d] /\ UNCHANGED worker /\ Finish(r)
      <3>1. ask \in [Asks -> AskRecord \union {Null}]
        BY DEF ShapesInv, RecordsOK
      <3>2. /\ ask' = [ask EXCEPT ![a].status = "recommended", ![a].recommended = TRUE]
            /\ UNCHANGED worker /\ Finish(r)
        BY <1>2, <1>3, <1>6 DEF RecommendSave
      <3> QED BY <1>3, <2>1, <3>1, <3>2
    <2> QED BY <1>5, <2>2, <2>3, FinishKeepsShapes
  <1>7. ASSUME DecideSave(r)
        PROVE  ShapesInv'
    <2>1. PICK d : d = [ask[a] EXCEPT !.status = q.outcome]
      OBVIOUS
    <2>2. PICK nq : nq = [q EXCEPT !.saved = TRUE]
      OBVIOUS
    <2>3. /\ q.op = "decide" /\ ask' = [ask EXCEPT ![a] = d] /\ UNCHANGED worker
          /\ Finish(r) \/ (Continue(r, nq) /\ UNCHANGED stale)
      BY <1>2, <1>3, <1>7, <2>1, <2>2 DEF DecideSave
    <2>4. d \in AskRecord /\ d.worker = ask[a].worker
      BY <1>3, <2>1, <2>3 DEF AskRecord
    <2>5. RecordsOK' /\ NothingGoes
      BY <1>5, <2>3, <2>4
    <2>6. CASE Finish(r)
      BY <2>5, <2>6, FinishKeepsShapes
    <2>7. CASE Continue(r, nq) /\ UNCHANGED stale
      <3>1. nq \in AnyRequest /\ nq.op = "decide" /\ nq.ask = a
        BY <1>3, <2>2, <2>3, DecideFields
      <3>2. Finds(nq)' /\ Surveyed(nq)
        BY <1>3, <2>5, <3>1 DEF Finds, Surveyed, NothingGoes
      <3>3. req' = [req EXCEPT ![r] = nq] /\ stale' \in [Requests -> SUBSET Workers]
        BY <2>7 DEF Continue, ShapesInv, RequestsOK
      <3> QED BY <2>5, <3>1, <3>2, <3>3, RequestMovesOn DEF ShapesInv
    <2> QED BY <2>3, <2>6, <2>7
  <1>8. ASSUME Offload(r)
        PROVE  ShapesInv'
    <2>1. PICK p : p = [worker[ask[a].worker] EXCEPT !.status = "inactive"]
      OBVIOUS
    <2>2. worker' = [worker EXCEPT ![ask[a].worker] = p] /\ Finish(r) /\ UNCHANGED ask
      BY <1>2, <1>3, <1>8, <2>1 DEF Offload
    <2>3. p \in Employee
      BY <1>4, <2>1 DEF Employee, Roster
    <2> QED BY <1>1, <1>4, <2>2, <2>3, SavedAndDone DEF Finish
  <1> QED BY <1>6, <1>7, <1>8 DEF Answering

LEMMA CrashKeepsShapes ==
    ASSUME ShapesInv, UNCHANGED ask, Crash
    PROVE  ShapesInv'
  <1>1. /\ req' = [r \in Requests |-> Idle] /\ stale' = [r \in Requests |-> {}]
        /\ UNCHANGED <<branch, site, worker, station, scope, log>>
    BY DEF Crash
  <1>2. RecordsOK'
    BY <1>1 DEF ShapesInv, RecordsOK, EntriesFind, AsksFind
  <1>3. RequestsOK'
    BY <1>1, IdleFields DEF RequestsOK, Finds, Surveyed
  <1> QED BY <1>2, <1>3 DEF ShapesInv

-----------------------------------------------------------------------------
(* All of them together *)

\* Every handler of the office beside every other, and the process may die.
AnyStep ==
    \/ /\ \/ Closing \/ RestoringSites \/ Crash \/ Leaving \/ Undoing
          \/ Branching \/ Siting \/ Stationing \/ Enrolling \/ Editing
       /\ UNCHANGED ask
    \/ Asking
    \/ \E r \in Requests : Answering(r)

LEMMA ShapesInvStep ==
    ASSUME ShapesInv, AnyStep
    PROVE  ShapesInv'
  <1>1. CASE Closing /\ UNCHANGED ask
    <2>1. PICK r \in Requests : (\E s \in Sites, to, fate \in Kinds : CloseSiteRead(r, s, to, fate)) \/ Cascade(r)
      BY <1>1 DEF Closing
    <2>2. CASE Cascade(r)
      BY <1>1, <2>2, CascadeReadsKeepShapes, CascadeSavesKeepShapes, CascadeLogKeepsShapes, CloseSiteKeepsShapes,
         AfterCloseKeepsShapes DEF Cascade
    <2> QED BY <1>1, <2>1, <2>2, CloseReadKeepsShapes
  <1>2. CASE (RestoringSites \/ Crash \/ Branching \/ Stationing \/ Enrolling) /\ UNCHANGED ask
    BY <1>2, RestoringKeepsShapes, CrashKeepsShapes, BranchingKeepsShapes, StationingKeepsShapes, EnrolKeepsShapes
      DEF RestoringSites, Enrolling
  <1>3. CASE (Leaving \/ Undoing \/ Siting) /\ UNCHANGED ask
    BY <1>3, LeaveKeepsShapes, LeaveLogKeepsShapes, UndoKeepsShapes, CreateSiteKeepsShapes, EditSiteKeepsShapes
      DEF Leaving, Undoing, Siting
  <1>4. CASE Editing /\ UNCHANGED ask
    <2>1. PICK r \in Requests :
            \/ \E u \in Actors, w \in Workers :
                  \/ \E ids \in Picks, status \in {"active", "inactive"} : EditRead(r, u, w, ids, status)
                  \/ \E status \in {"active", "inactive"} : BulkStatusRead(r, u, w, status)
                  \/ RestoreRead(r, u, w)
                  \/ AddRemark(u, w)
            \/ \E u \in Actors, s \in Sites : BulkMoveSite(r, u, s)
            \/ \E w \in Workers : BulkMoveRead(r, w)
            \/ EditSave(r) \/ Restore(r)
      BY <1>4 DEF Editing
    <2>2. ASSUME NEW u \in Actors, NEW w \in Workers,
                 \/ \E ids \in Picks, status \in {"active", "inactive"} : EditRead(r, u, w, ids, status)
                 \/ \E status \in {"active", "inactive"} : BulkStatusRead(r, u, w, status)
                 \/ RestoreRead(r, u, w)
                 \/ AddRemark(u, w)
          PROVE  ShapesInv'
      BY <1>4, <2>2, EditReadsKeepShapes, RestoreKeepsShapes, AddRemarkKeepsShapes
    <2>3. ASSUME NEW w \in Workers, BulkMoveRead(r, w)
          PROVE  ShapesInv'
      BY <1>4, <2>3, EditReadsKeepShapes
    <2> QED BY <1>4, <2>1, <2>2, <2>3, MoveReadKeepsShapes, EditSaveKeepsShapes, RestoreKeepsShapes
  <1>5. CASE Asking
    <2>1. PICK r \in Requests, a \in Asks :
            \/ \E u \in Actors :
                  \/ \E type \in {"scheduled_ot", "offload"}, w \in Workers : CreateAsk(u, a, type, w)
                  \/ RecommendRead(r, u, a)
            \/ \E outcome \in Decided : DecideRead(r, a, outcome)
      BY <1>5 DEF Asking
    <2> QED BY <2>1, AskingKeepsShapes
  <1> QED BY <1>1, <1>2, <1>3, <1>4, <1>5, AnswersKeepShapes DEF AnyStep

LEMMA ShapesInvStutters ==
    ASSUME ShapesInv, UNCHANGED allVars
    PROVE  ShapesInv'
  BY DEF ShapesInv, RecordsOK, RequestsOK, EntriesFind, AsksFind, Finds, Surveyed, allVars, vars

LEMMA ShapesInvInit ==
    ASSUME NEW S \in SUBSET Sites, S # {}, NEW W \in SUBSET Workers, NEW N \in SUBSET Names,
           NEW A \in SUBSET Sites, Opened({FirstBranch}, S, W, N, A), ask = [a \in Asks |-> Null]
    PROVE  ShapesInv
  <1>1. PICK at \in [S -> {FirstBranch}], name \in [S -> N] :
          site = [s \in Sites |-> IF s \in S THEN NewSite(at[s], name[s]) ELSE Null]
    BY DEF Opened
  <1>2. PICK ids \in [W -> SetToSeqs(S) \union {<<s>> : s \in S}] :
          worker = [w \in Workers |-> IF w \in W THEN NewWorker("active", ids[w], site[ids[w][1]].name)
                                      ELSE Null]
    BY DEF Opened
  <1>3. /\ branch = [b \in Branches |-> IF b \in {FirstBranch} THEN "open" ELSE "unborn"]
        /\ station = [t \in Stations |-> Null] /\ scope = [u \in Users |-> A]
        /\ log = << >> /\ req = [r \in Requests |-> Idle] /\ stale = [r \in Requests |-> {}]
    BY DEF Opened
  <1>4. \A s \in S : site[s] \in SiteRecord /\ site[s].name \in Names
    BY <1>1, OfficeAssumption DEF NewSite, SiteRecord
  <1>5. site \in [Sites -> SiteRecord \union {Null}]
    <2>1. \A s \in Sites : site[s] \in SiteRecord \union {Null}
      BY <1>1, <1>4
    <2> QED BY <1>1, <2>1
  <1>6. \A w \in W : worker[w] \in Employee
    <2> SUFFICES ASSUME NEW w \in W
                 PROVE  worker[w] \in Employee
      OBVIOUS
    <2>1. ids[w] \in Lists /\ ids[w][1] \in S
      BY PickedLists
    <2>2. ids[w] # << >>
      <3>1. ids[w] \in SetToSeqs(S) \union {<<s>> : s \in S}
        OBVIOUS
      <3>2. << >> \notin SetToSeqs(S)
        <4>1. IsFiniteSet(S)
          BY OfficeAssumption, FS_Subset
        <4>2. Cardinality(S) \in Nat \ {0}
          BY <4>1, FS_CardinalityType, FS_EmptySet
        <4>3. DOMAIN << >> # 1 .. Cardinality(S)
          BY <4>2
        <4> QED BY <4>3 DEF SetToSeqs
      <3>3. \A s \in S : <<s>> # << >>
        OBVIOUS
      <3> QED BY <3>1, <3>2, <3>3
    <2>3. ids[w] \in Picks
      BY <2>1, <2>2, PicksAreNonemptyLists
    <2> QED BY <1>2, <1>4, <2>1, <2>3 DEF NewWorker, Employee, Roster
  <1>7. worker \in [Workers -> Employee \union {Null}]
    <2>1. \A w \in Workers : worker[w] \in Employee \union {Null}
      BY <1>2, <1>6
    <2> QED BY <1>2, <2>1
  <1>8. log \in Seq(RegisterEntry) /\ Len(log) <= MaxEntries /\ DOMAIN log = {}
    BY <1>3, OfficeAssumption
  <1>9. ask \in [Asks -> AskRecord \union {Null}] /\ AsksFind
    BY OfficeAssumption DEF AskRecord, AsksFind
  <1>10. RecordsOK
    BY <1>3, <1>5, <1>7, <1>8, <1>9 DEF RecordsOK, EntriesFind
  <1>11. RequestsOK
    BY <1>3, IdleFields DEF RequestsOK, Finds, Surveyed, Idle
  <1> QED BY <1>10, <1>11 DEF ShapesInv

\* Any office, with any number of sites, employees, users and requests, in which every
\* handler runs beside every other.
AnySpec ==
    /\ \E S \in SUBSET Sites, W \in SUBSET Workers, A \in SUBSET Sites :
          S # {} /\ Opened({FirstBranch}, S, W, Names, A)
    /\ ask = [a \in Asks |-> Null]
    /\ [][AnyStep]_allVars

EverythingIsFound == EntriesFind /\ AsksFind /\ \A r \in Requests : Finds(req[r])

\* Every record keeps the shape its schema gives it, and whatever a request, a register
\* entry or an overtime request names is there when it is used, in every interleaving of
\* all the handlers: a cascade never takes an employee's last site (org.ts:34-75), and an
\* edit never lists a site twice (workers.ts:366).
THEOREM ShapesHold == AnySpec => [](TypeOK /\ EverythingIsFound)
  <1>1. (\E S \in SUBSET Sites, W \in SUBSET Workers, A \in SUBSET Sites :
            S # {} /\ Opened({FirstBranch}, S, W, Names, A)) /\ ask = [a \in Asks |-> Null] => ShapesInv
    BY ShapesInvInit
  <1>2. ShapesInv /\ [AnyStep]_allVars => ShapesInv'
    BY ShapesInvStep, ShapesInvStutters
  <1>3. ShapesInv => TypeOK /\ EverythingIsFound
    BY ShapesMeanTypeOK DEF ShapesInv, RecordsOK, RequestsOK, EverythingIsFound
  <1> QED BY <1>1, <1>2, <1>3, PTL DEF AnySpec

LEMMA ShapesOfTheRun == MCSpec => []ShapesInv
  <1>1. MCInit => ShapesInv
    <2> SUFFICES ASSUME MCInit PROVE ShapesInv
      OBVIOUS
    <2>1. PICK n, m, N, managed : OpenedWith(n, m, N, managed) /\ n \in {1, 2} /\ N \in {{DefaultName}, Names}
      BY DEF MCInit
    <2>2. PICK S \in kSubset(n, Sites), W \in kSubset(m, Workers) :
            Opened({FirstBranch}, S, W, N, IF managed THEN S ELSE {})
      BY <2>1 DEF OpenedWith
    <2>3. S \in SUBSET Sites /\ S # {} /\ W \in SUBSET Workers
      <3>1. S \in SUBSET Sites /\ Cardinality(S) = n /\ W \in SUBSET Workers
        BY <2>2 DEF kSubset
      <3> QED BY <2>1, <3>1, FS_EmptySet
    <2>4. N \in SUBSET Names /\ (IF managed THEN S ELSE {}) \in SUBSET Sites
      BY <2>1, <2>3, OfficeAssumption
    <2> QED BY <2>2, <2>3, <2>4, ShapesInvInit DEF MCInit
  <1>2. ShapesInv /\ [MCNext]_mcVars => ShapesInv'
    <2> SUFFICES ASSUME ShapesInv, [MCNext]_mcVars PROVE ShapesInv'
      OBVIOUS
    <2>1. CASE UNCHANGED mcVars
      BY <2>1, ShapesInvStutters DEF mcVars
    <2>2. CASE MCNext
      <3>1. AnyStep
        BY <2>2 DEF MCNext, Closings, Deletions, Answers, Office, AnyStep
      <3> QED BY <3>1, ShapesInvStep
    <2> QED BY <2>1, <2>2
  <1> QED BY <1>1, <1>2, PTL DEF MCSpec

\* The records of the run keep their shapes (models/Worker.ts, models/Org.ts).
THEOREM ShapesOfRecordsHold == MCSpec => []TypeOK
  BY ShapesOfTheRun, ShapesMeanTypeOK, PTL

=============================================================================
