--------------------------- MODULE DeletionProofs ---------------------------
(***************************************************************************)
(* Whatever is deleted is on the register of deletions, while employees    *)
(* and sites are deleted by hand, by cascades and undone side by side.     *)
(*                                                                         *)
(* An entry is no property of one record: two requests may log the same    *)
(* employee, and two undos may mark the entries of one.  The invariant     *)
(* counts: a deleted employee has an open entry, done or on its way, for   *)
(* himself and for each deletion a cascade has registered and not done.    *)
(***************************************************************************)
EXTENDS OfficeProofs

-----------------------------------------------------------------------------
(* What the register owes, and to whom *)

Deleted(w) == worker[w] # Null /\ worker[w].status = "deleted"

\* What a request is about to do: mark an entry whose record is restored already; restore
\* the record of an employee; register a deletion by hand; delete an employee who is on
\* the register; register a site.
Settles(q, e)     == q.op = "undo" /\ q.phase = "saved" /\ q.entry = e
Undoes(q, entries, w) ==
    q.op = "undo" /\ q.phase = "record" /\ entries[q.entry].kind = "worker" /\ entries[q.entry].id = w
Owes(q, w)        == q.op = "leave" /\ q.saved /\ q.worker = w
Promises(q, w)    == q.op = "close" /\ q.logged = w
Registering(q, s) == q.op = "close" /\ q.phase = "after" /\ q.site = s /\ "log" \in q.left

\* The open entries of a record that no undo is about to mark.
KeptEntries(kind, id) ==
    {e \in DOMAIN log : log[e] = Entry(kind, id) /\ \A r \in Requests : ~ Settles(req[r], e)}

Owing(w)     == {r \in Requests : Owes(req[r], w)}
Promising(w) == {r \in Requests : Promises(req[r], w)}

\* Every deletion of an employee has an entry of its own, there or on its way: the one
\* that is done, and each that a cascade has registered and not yet done.
Covered(w) ==
    Cardinality(KeptEntries("worker", w)) + Cardinality(Owing(w))
       >= Cardinality(Promising(w)) + (IF Deleted(w) THEN 1 ELSE 0)

SiteCovered(s) ==
    SiteIs(s, "deleted") =>
        KeptEntries("site", s) # {} \/ \E r \in Requests : Registering(req[r], s)

\* A cascade deletes next the employee it has registered.
PromiseHeld(q) == q.op = "close" /\ q.logged # Null => HasRead(q) /\ q.logged \in DOMAIN q.todo

\* At most two requests are in flight.
TwoAtOnce ==
    \A p, q, r \in Requests :
        req[p] # Idle /\ req[q] # Idle /\ req[r] # Idle => p = q \/ q = r \/ p = r

\* The inductive invariant.  Who is being undone is off the roster, and deleted still if
\* the other request in flight is a closing that knows him from before.
DeletionInv ==
    /\ \A w \in Workers : Covered(w)
    /\ \A s \in Sites : SiteCovered(s)
    /\ \A r \in Requests : PromiseHeld(req[r])
    /\ \A r \in Requests, w \in Workers : Undoes(req[r], log, w) => ~ OnRoster(w)
    /\ \A r, q \in Requests, w \in Workers :
          Undoes(req[r], log, w) /\ req[q].op = "close" /\ w \in DOMAIN req[q].todo => Deleted(w)

\* One request moves on, to p.
GoesTo(r, p) == (req[r] # Idle \/ p # Idle) /\ req' = [req EXCEPT ![r] = p]

EntriesNamed == \A e \in DOMAIN log : e \in DOMAIN log' /\ log'[e].kind = log[e].kind /\ log'[e].id = log[e].id

\* Counting.
LEMMA NoMore ==
    ASSUME NEW T, IsFiniteSet(T), NEW S, S \subseteq T
    PROVE  IsFiniteSet(S) /\ Cardinality(S) \in Nat /\ Cardinality(T) \in Nat /\ Cardinality(S) <= Cardinality(T)
  <1>1. S \in SUBSET T
    OBVIOUS
  <1>2. IsFiniteSet(S) /\ Cardinality(S) <= Cardinality(T)
    BY <1>1, FS_Subset
  <1> QED BY <1>2, FS_CardinalityType

LEMMA OneMore ==
    ASSUME NEW T, IsFiniteSet(T), NEW S, NEW x, S \union {x} \subseteq T, x \notin S
    PROVE  IsFiniteSet(S) /\ Cardinality(S) \in Nat /\ Cardinality(T) \in Nat /\ Cardinality(S) + 1 <= Cardinality(T)
  <1>1. S \in SUBSET T /\ S \union {x} \in SUBSET T
    OBVIOUS
  <1>2. IsFiniteSet(S) /\ Cardinality(S \union {x}) <= Cardinality(T)
    <2>1. IsFiniteSet(S)
      BY <1>1, FS_Subset
    <2>2. Cardinality(S \union {x}) <= Cardinality(T)
      BY <1>1, FS_Subset
    <2> QED BY <2>1, <2>2
  <1>3. Cardinality(S \union {x}) = Cardinality(S) + 1
    BY <1>2, FS_AddElement
  <1> QED BY <1>2, <1>3, FS_CardinalityType

LEMMA OneMoreAtMost ==
    ASSUME NEW S, IsFiniteSet(S), NEW T, NEW x, T \subseteq S \union {x}
    PROVE  IsFiniteSet(T) /\ Cardinality(S) \in Nat /\ Cardinality(T) \in Nat /\ Cardinality(T) <= Cardinality(S) + 1
  <1>1. Cardinality(S) \in Nat
    BY FS_CardinalityType
  <1>2. IsFiniteSet(S \union {x}) /\ Cardinality(S \union {x}) <= Cardinality(S) + 1
    <2>1. /\ IsFiniteSet(S \union {x})
          /\ Cardinality(S \union {x}) = IF x \in S THEN Cardinality(S) ELSE Cardinality(S) + 1
      BY FS_AddElement
    <2> QED BY <1>1, <2>1
  <1>3. IsFiniteSet(T) /\ Cardinality(T) <= Cardinality(S \union {x})
    BY <1>2, FS_Subset
  <1>4. Cardinality(T) \in Nat /\ Cardinality(S \union {x}) \in Nat
    BY <1>2, <1>3, FS_CardinalityType
  <1> QED BY <1>1, <1>2, <1>3, <1>4

FiniteCounts ==
    /\ \A kind, id : IsFiniteSet(KeptEntries(kind, id))
    /\ \A w : IsFiniteSet(Owing(w)) /\ IsFiniteSet(Promising(w))

LEMMA CountsAreFinite == ShapesInv => FiniteCounts
  <1> SUFFICES ASSUME ShapesInv PROVE FiniteCounts
    OBVIOUS
  <1>1. IsFiniteSet(DOMAIN log)
    <2>1. log \in Seq(RegisterEntry)
      BY DEF ShapesInv, RecordsOK
    <2>2. DOMAIN log = 1 .. Len(log) /\ Len(log) \in Nat
      BY <2>1
    <2> QED BY <2>2, FS_Interval
  <1>2. \A kind, id : KeptEntries(kind, id) \in SUBSET DOMAIN log
    BY DEF KeptEntries
  <1>3. \A w : Owing(w) \in SUBSET Requests /\ Promising(w) \in SUBSET Requests
    BY DEF Owing, Promising
  <1> QED BY <1>1, <1>2, <1>3, FS_Subset, OfficeAssumption DEF FiniteCounts

\* The entries that count stay, but for those the request is about to mark.
LEMMA EntriesStay ==
    ASSUME ShapesInv, NEW r \in Requests, NEW p, GoesTo(r, p),
           \A e \in DOMAIN log : e \in DOMAIN log' /\ (log'[e] = log[e] \/ Settles(req[r], e)),
           \A e \in DOMAIN log : Settles(p, e) => Settles(req[r], e)
    PROVE  \A kind, id : KeptEntries(kind, id) \subseteq KeptEntries(kind, id)'
  <1>1. req'[r] = p /\ \A q \in Requests \ {r} : req'[q] = req[q]
    BY DEF GoesTo, ShapesInv, RequestsOK
  <1> QED BY <1>1 DEF KeptEntries

LEMMA RequestSetsMove ==
    ASSUME ShapesInv, NEW r \in Requests, NEW p, GoesTo(r, p), NEW w
    PROVE  /\ Owing(w)' = IF Owes(p, w) THEN Owing(w) \union {r} ELSE Owing(w) \ {r}
           /\ Promising(w)' = IF Promises(p, w) THEN Promising(w) \union {r} ELSE Promising(w) \ {r}
           /\ r \in Owing(w) <=> Owes(req[r], w)
           /\ r \in Promising(w) <=> Promises(req[r], w)
  <1>1. req'[r] = p /\ \A q \in Requests \ {r} : req'[q] = req[q]
    BY DEF GoesTo, ShapesInv, RequestsOK
  <1>2. \A q \in Requests \ {r} : (q \in Owing(w)' <=> q \in Owing(w)) /\ (q \in Promising(w)' <=> q \in Promising(w))
    BY <1>1 DEF Owing, Promising, Owes, Promises
  <1>3. (r \in Owing(w)' <=> Owes(p, w)) /\ (r \in Promising(w)' <=> Promises(p, w))
    BY <1>1 DEF Owing, Promising, Owes, Promises
  <1>4. /\ Owing(w) \subseteq Requests /\ Promising(w) \subseteq Requests
        /\ Owing(w)' \subseteq Requests /\ Promising(w)' \subseteq Requests
    BY DEF Owing, Promising
  <1>5. Owing(w)' = IF Owes(p, w) THEN Owing(w) \union {r} ELSE Owing(w) \ {r}
    BY <1>2, <1>3, <1>4
  <1>6. Promising(w)' = IF Promises(p, w) THEN Promising(w) \union {r} ELSE Promising(w) \ {r}
    BY <1>2, <1>3, <1>4
  <1>7. (r \in Owing(w) <=> Owes(req[r], w)) /\ (r \in Promising(w) <=> Promises(req[r], w))
    BY DEF Owing, Promising
  <1> QED BY <1>5, <1>6, <1>7

\* A step that adds no deletion and takes no entry away.
LEMMA CoveredStays ==
    ASSUME ShapesInv, ShapesInv', NEW r \in Requests, NEW p, GoesTo(r, p), NEW w \in Workers, Covered(w),
           KeptEntries("worker", w) \subseteq KeptEntries("worker", w)',
           Owes(req[r], w) => Owes(p, w), Promises(p, w) => Promises(req[r], w), Deleted(w)' => Deleted(w)
    PROVE  Covered(w)'
  <1>1. Owing(w) \subseteq Owing(w)' /\ Promising(w)' \subseteq Promising(w)
    BY RequestSetsMove
  <1>2. /\ IsFiniteSet(KeptEntries("worker", w)') /\ IsFiniteSet(Owing(w)') /\ IsFiniteSet(Promising(w))
        /\ IsFiniteSet(KeptEntries("worker", w)) /\ IsFiniteSet(Owing(w)) /\ IsFiniteSet(Promising(w)')
    <2>1. FiniteCounts
      BY CountsAreFinite
    <2>2. FiniteCounts'
      BY CountsAreFinite, PTL
    <2> QED BY <2>1, <2>2 DEF FiniteCounts
  <1>3. /\ Cardinality(KeptEntries("worker", w)) <= Cardinality(KeptEntries("worker", w)')
        /\ Cardinality(KeptEntries("worker", w)) \in Nat /\ Cardinality(KeptEntries("worker", w)') \in Nat
    BY <1>2, NoMore
  <1>4. /\ Cardinality(Owing(w)) <= Cardinality(Owing(w)')
        /\ Cardinality(Owing(w)) \in Nat /\ Cardinality(Owing(w)') \in Nat
    BY <1>1, <1>2, NoMore
  <1>5. /\ Cardinality(Promising(w)') <= Cardinality(Promising(w))
        /\ Cardinality(Promising(w)) \in Nat /\ Cardinality(Promising(w)') \in Nat
    BY <1>1, <1>2, NoMore
  <1> QED BY <1>3, <1>4, <1>5 DEF Covered

LEMMA SitesStayCovered ==
    ASSUME ShapesInv, NEW r \in Requests, NEW p, GoesTo(r, p), NEW s \in Sites, SiteCovered(s),
           SiteIs(s, "deleted")' =>
              \/ Registering(p, s) \/ KeptEntries("site", s)' # {}
              \/ /\ SiteIs(s, "deleted") /\ ~ Registering(req[r], s)
                 /\ KeptEntries("site", s) \subseteq KeptEntries("site", s)'
    PROVE  SiteCovered(s)'
  <1>1. req'[r] = p /\ \A q \in Requests \ {r} : req'[q] = req[q]
    BY DEF GoesTo, ShapesInv, RequestsOK
  <1> SUFFICES ASSUME SiteIs(s, "deleted")', KeptEntries("site", s)' = {}
               PROVE  \E q \in Requests : Registering(req'[q], s)
    BY DEF SiteCovered, Registering
  <1>2. CASE Registering(p, s)
    BY <1>1, <1>2
  <1>3. CASE /\ SiteIs(s, "deleted") /\ ~ Registering(req[r], s)
             /\ KeptEntries("site", s) \subseteq KeptEntries("site", s)'
    <2>1. PICK q \in Requests : Registering(req[q], s)
      BY <1>3 DEF SiteCovered
    <2>2. q # r
      BY <1>3, <2>1
    <2> QED BY <1>1, <2>1, <2>2
  <1> QED BY <1>2, <1>3

\* What is left to show of a step, once its counts are known.
LEMMA DeletionsMoveOn ==
    ASSUME ShapesInv, DeletionInv, TwoAtOnce, TwoAtOnce', NEW r \in Requests, NEW p, GoesTo(r, p), EntriesNamed,
           \A w \in Workers : Covered(w)',
           \A s \in Sites : SiteCovered(s)',
           PromiseHeld(p),
           \A w \in Workers : OnRoster(w)' => OnRoster(w),
           \A w \in Workers : Undoes(p, log', w) => Deleted(w)',
           p.op = "close" => \A w \in Workers \cap DOMAIN p.todo :
              OnRoster(w) \/ (req[r].op = "close" /\ w \in DOMAIN req[r].todo /\ (Deleted(w) => Deleted(w)'))
    PROVE  DeletionInv'
  <1>1. req'[r] = p /\ \A q \in Requests \ {r} : req'[q] = req[q]
    BY DEF GoesTo, ShapesInv, RequestsOK
  <1>2. ASSUME NEW q \in Requests \ {r}, NEW w, Undoes(req'[q], log', w)
        PROVE  Undoes(req[q], log, w)
    <2>1. req'[q] = req[q] /\ (req[q].op = "undo" => req[q].entry \in DOMAIN log)
      BY <1>1 DEF ShapesInv, RequestsOK, Finds
    <2> QED BY <1>2, <2>1 DEF Undoes, EntriesNamed
  <1>3. \A w \in Workers : Deleted(w)' => ~ OnRoster(w)'
    BY DEF Deleted, OnRoster, Roster
  <1>4. \A q \in Requests : PromiseHeld(req'[q])
    BY <1>1 DEF DeletionInv
  <1>5. ASSUME NEW q \in Requests, NEW w \in Workers, Undoes(req'[q], log', w)
        PROVE  ~ OnRoster(w)'
    <2>1. CASE q = r
      BY <1>1, <1>3, <1>5, <2>1
    <2>2. CASE q # r
      BY <1>2, <1>5, <2>2 DEF DeletionInv
    <2> QED BY <2>1, <2>2
  <1>6. ASSUME NEW u \in Requests, NEW q \in Requests, NEW w \in Workers, Undoes(req'[u], log', w),
               req'[q].op = "close", w \in DOMAIN req'[q].todo
        PROVE  Deleted(w)'
    <2>1. CASE u = r
      BY <1>1, <1>6, <2>1
    <2>2. CASE u # r /\ q = r
      <3>1. Undoes(req[u], log, w) /\ ~ OnRoster(w)
        BY <1>2, <1>6, <2>2 DEF DeletionInv
      <3>2. req[r].op = "close" /\ w \in DOMAIN req[r].todo /\ (Deleted(w) => Deleted(w)')
        BY <1>1, <1>6, <2>2, <3>1
      <3> QED BY <3>1, <3>2 DEF DeletionInv
    <2>3. CASE u # r /\ q # r
      <3>1. req'[u] = req[u] /\ req'[q] = req[q] /\ req[u].op = "undo" /\ req[q].op = "close"
        BY <1>1, <1>6, <2>3 DEF Undoes
      <3>2. req[u] # Idle /\ req[q] # Idle /\ u # q
        BY <3>1, BusyIsNotIdle
      <3>3. req[r] # Idle => FALSE
        BY <2>3, <3>2 DEF TwoAtOnce
      <3>4. req'[r] # Idle => FALSE
        <4>1. req'[u] # Idle /\ req'[q] # Idle
          BY <3>1, <3>2
        <4> QED BY <2>3, <3>2, <4>1 DEF TwoAtOnce
      <3> QED BY <1>1, <3>3, <3>4 DEF GoesTo
    <2> QED BY <2>1, <2>2, <2>3
  <1>7. \A q \in Requests : PromiseHeld(req[q])'
    BY <1>4 DEF PromiseHeld, HasRead
  <1>8. \A q \in Requests, w \in Workers : Undoes(req'[q], log', w) => ~ OnRoster(w)'
    BY <1>5 DEF Undoes
  <1>9. \A u, q \in Requests, w \in Workers :
          Undoes(req'[u], log', w) /\ req'[q].op = "close" /\ w \in DOMAIN req'[q].todo => Deleted(w)'
    BY <1>6 DEF Undoes
  <1> QED BY <1>7, <1>8, <1>9 DEF DeletionInv

\* A step that neither deletes nor restores, and writes no entry.
LEMMA DeletionsGoOn ==
    ASSUME ShapesInv, ShapesInv', DeletionInv, TwoAtOnce, TwoAtOnce', NEW r \in Requests, NEW p, GoesTo(r, p),
           UNCHANGED <<site, log>>,
           \A w \in Workers : (Deleted(w)' <=> Deleted(w)) /\ (OnRoster(w)' => OnRoster(w)),
           \A e \in DOMAIN log : ~ Settles(p, e),
           \A w \in Workers : ~ Owes(req[r], w) /\ (Promises(p, w) => Promises(req[r], w)),
           \A w \in Workers : Undoes(p, log, w) => Deleted(w),
           \A s \in Sites : Registering(req[r], s) => Registering(p, s),
           PromiseHeld(p),
           p.op = "close" => \A w \in Workers \cap DOMAIN p.todo :
              OnRoster(w) \/ (req[r].op = "close" /\ w \in DOMAIN req[r].todo)
    PROVE  DeletionInv'
  <1>1. \A kind, id : KeptEntries(kind, id) \subseteq KeptEntries(kind, id)'
    BY EntriesStay
  <1>2. \A w \in Workers : Covered(w)'
    BY <1>1, CoveredStays DEF DeletionInv
  <1>3. \A s \in Sites : SiteCovered(s)'
    BY <1>1, SitesStayCovered DEF DeletionInv, SiteIs
  <1>4. \A w \in Workers : Undoes(p, log', w) => Deleted(w)'
    BY DEF Undoes
  <1> QED BY <1>2, <1>3, <1>4, DeletionsMoveOn DEF EntriesNamed

\* A request that only looks.
LEMMA DeletionsLookOn ==
    ASSUME ShapesInv, ShapesInv', DeletionInv, TwoAtOnce, TwoAtOnce', NEW r \in Requests, NEW p, GoesTo(r, p),
           UNCHANGED <<site, worker, log>>,
           \A e \in DOMAIN log : ~ Settles(p, e),
           \A w \in Workers : ~ Owes(req[r], w) /\ (Promises(p, w) => Promises(req[r], w)),
           \A w \in Workers : Undoes(p, log, w) => Deleted(w),
           \A s \in Sites : Registering(req[r], s) => Registering(p, s),
           PromiseHeld(p),
           p.op = "close" => \A w \in Workers \cap DOMAIN p.todo :
              OnRoster(w) \/ (req[r].op = "close" /\ w \in DOMAIN req[r].todo)
    PROVE  DeletionInv'
  <1>1. \A w \in Workers : (Deleted(w)' <=> Deleted(w)) /\ (OnRoster(w)' => OnRoster(w))
    BY DEF Deleted, OnRoster
  <1> QED BY <1>1, DeletionsGoOn

\* What the requests of these handlers hold.
LEMMA NothingInHand ==
    ASSUME NEW q, q = Idle \/ q.op \notin {"close", "leave", "undo"}
    PROVE  /\ q.op \notin {"close", "leave", "undo"}
           /\ \A e : ~ Settles(q, e)
           /\ \A w : ~ Owes(q, w) /\ ~ Promises(q, w) /\ ~ Undoes(q, log, w)
           /\ \A s : ~ Registering(q, s)
           /\ PromiseHeld(q)
  <1>1. q.op \notin {"close", "leave", "undo"}
    BY DEF Idle
  <1> QED BY <1>1 DEF Settles, Owes, Promises, Undoes, Registering, PromiseHeld

LEMMA CloseReadsKeepDeletions ==
    ASSUME ShapesInv, ShapesInv', DeletionInv, TwoAtOnce, TwoAtOnce', NEW r \in Requests,
           \/ \E s \in Sites, to, fate \in Kinds : CloseSiteRead(r, s, to, fate)
           \/ CascadeFindWorkers(r) \/ CascadeFindSites(r)
    PROVE  DeletionInv'
  <1>1. ASSUME NEW s \in Sites, NEW to \in Kinds, NEW fate \in Kinds, CloseSiteRead(r, s, to, fate)
        PROVE  DeletionInv'
    <2>1. PICK p : p = [op |-> "close", phase |-> "read", site |-> s, to |-> to,
                        fate |-> IF to = "archived" THEN "archived" ELSE fate,
                        seen |-> site[s].status, todo |-> << >>, others |-> Null,
                        logged |-> Null, left |-> {"workers", "sites"}]
      OBVIOUS
    <2>2. req[r] = Idle /\ req' = [req EXCEPT ![r] = p] /\ UNCHANGED <<site, worker, log>>
      BY <1>1, <2>1 DEF CloseSiteRead, Start
    <2>3. /\ p.op = "close" /\ p.phase = "read" /\ p.logged = Null /\ DOMAIN p.todo = {}
      BY <2>1
    <2>4. p # Idle
      BY <2>3, BusyIsNotIdle
    <2>5. /\ \A e \in DOMAIN log : ~ Settles(p, e)
          /\ \A w \in Workers : ~ Promises(p, w) /\ ~ Undoes(p, log, w)
          /\ PromiseHeld(p)
      BY <2>3, OfficeAssumption DEF Settles, Promises, Undoes, PromiseHeld
    <2>6. /\ \A w \in Workers : ~ Owes(req[r], w)
          /\ \A t \in Sites : ~ Registering(req[r], t)
      BY <2>2, NothingInHand
    <2> QED BY <2>2, <2>3, <2>4, <2>5, <2>6, DeletionsLookOn DEF GoesTo
  <1>2. ASSUME CascadeFindWorkers(r) \/ CascadeFindSites(r)
        PROVE  DeletionInv'
    <2>1. PICK p : p = req'[r]
      OBVIOUS
    <2>2. /\ req[r].op = "close" /\ req[r].phase = "read" /\ UNCHANGED <<site, worker, log>>
      BY <1>2 DEF CascadeFindWorkers, CascadeFindSites
    <2>3. req[r] \in ClosesOf /\ req \in [Requests -> AnyRequest]
      BY <2>2, ClosesRequest DEF ShapesInv, RequestsOK
    <2>4. /\ p.op = "close" /\ p.phase = "read" /\ p.logged = req[r].logged /\ p.left \subseteq req[r].left
          /\ req' = [req EXCEPT ![r] = p]
          /\ p.todo = req[r].todo \/ ("workers" \in req[r].left /\ \A w \in DOMAIN p.todo : OnRoster(w))
      <3>1. CASE CascadeFindWorkers(r)
        <4> DEFINE here == {w \in Workers : OnRoster(w) /\ At(w, req[r].site)}
        <4>1. PICK todo : todo = [w \in here |-> worker[w].siteIds]
          OBVIOUS
        <4>2. \A w \in DOMAIN todo : OnRoster(w)
          BY <4>1
        <4>3. PICK q : q = [req[r] EXCEPT !.todo = todo, !.left = req[r].left \ {"workers"}]
          OBVIOUS
        <4>4. req' = [req EXCEPT ![r] = q] /\ "workers" \in req[r].left
          BY <2>3, <3>1, <4>1, <4>3 DEF CascadeFindWorkers, Continue, ClosesOf
        <4> HIDE DEF here
        <4>5. q = p
          BY <2>1, <2>3, <4>4
        <4> QED BY <2>2, <2>3, <4>2, <4>3, <4>4, <4>5 DEF ClosesOf
      <3>2. CASE CascadeFindSites(r)
        <4>1. PICK others : others = {s \in Sites \ {req[r].site} : SiteIs(s, "active")}
          OBVIOUS
        <4>2. PICK q : q = [req[r] EXCEPT !.others = others, !.left = req[r].left \ {"sites"}]
          OBVIOUS
        <4>3. req' = [req EXCEPT ![r] = q]
          BY <2>3, <3>2, <4>1, <4>2 DEF CascadeFindSites, Continue, ClosesOf
        <4>4. q = p
          BY <2>1, <2>3, <4>3
        <4> QED BY <2>2, <2>3, <4>2, <4>3, <4>4 DEF ClosesOf
      <3> QED BY <1>2, <3>1, <3>2
    <2>5. PromiseHeld(p)
      <3>1. PromiseHeld(req[r])
        BY DEF DeletionInv
      <3> QED BY <2>2, <2>4, <3>1 DEF PromiseHeld, HasRead
    <2>6. /\ \A e \in DOMAIN log : ~ Settles(p, e)
          /\ \A w \in Workers : (Promises(p, w) => Promises(req[r], w)) /\ ~ Undoes(p, log, w) /\ ~ Owes(req[r], w)
          /\ \A t \in Sites : ~ Registering(req[r], t)
      BY <2>2, <2>4 DEF Settles, Promises, Undoes, Owes, Registering
    <2>7. req[r] # Idle
      BY <2>2, BusyIsNotIdle
    <2> QED BY <2>2, <2>4, <2>5, <2>6, <2>7, DeletionsLookOn DEF GoesTo
  <1> QED BY <1>1, <1>2

\* What is left of a closing that has handled an employee.
LEMMA DoneFields ==
    ASSUME NEW q \in ClosesOf, NEW w, NEW p, p = Done(q, w)
    PROVE  /\ p.op = "close" /\ p.phase = q.phase /\ p.site = q.site /\ p.left = q.left
           /\ p.logged = Null /\ DOMAIN p.todo = DOMAIN q.todo \ {w}
  BY DEF Done, ClosesOf

\* One employee is saved.
LEMMA OneSaved ==
    ASSUME ShapesInv, NEW w \in Workers, NEW d, worker' = [worker EXCEPT ![w] = d], worker[w] \in Employee, d \in Employee
    PROVE  /\ Deleted(w)' <=> d.status = "deleted"
           /\ OnRoster(w)' <=> d.status \in Roster
           /\ Deleted(w) <=> worker[w].status = "deleted"
           /\ OnRoster(w) <=> worker[w].status \in Roster
           /\ \A v \in Workers \ {w} : (Deleted(v)' <=> Deleted(v)) /\ (OnRoster(v)' <=> OnRoster(v))
  <1>1. Null \notin Employee
    BY EmployeeIsRead, OfficeAssumption, PicksAreNonemptyLists DEF Employee, Lists
  <1>2. worker'[w] = d /\ \A v \in Workers \ {w} : worker'[v] = worker[v]
    BY DEF ShapesInv, RecordsOK
  <1>3. worker[w] # Null /\ d # Null
    BY <1>1
  <1> QED BY <1>2, <1>3 DEF Deleted, OnRoster

LEMMA DetachKeepsDeletions ==
    ASSUME ShapesInv, ShapesInv', DeletionInv, TwoAtOnce, TwoAtOnce', NEW r \in Requests, NEW w \in Workers, CascadeDetach(r, w)
    PROVE  DeletionInv'
  <1>1. /\ req[r].op = "close" /\ req[r].phase = "read" /\ w \in DOMAIN req[r].todo
        /\ UNCHANGED <<site, log>>
    BY DEF CascadeDetach, Cascading
  <1>2. req[r] \in ClosesOf /\ worker[w] \in Employee
    BY <1>1, ClosesRequest
  <1>3. /\ req[r] # Idle
        /\ \A v \in Workers : ~ Owes(req[r], v)
        /\ \A s \in Sites : ~ Registering(req[r], s)
    BY <1>1, BusyIsNotIdle DEF Owes, Registering
  <1>4. CASE ~ Versioned(r, w)
    <2>1. req' = [req EXCEPT ![r] = Idle] /\ UNCHANGED worker
      BY <1>4 DEF CascadeDetach, Finish
    <2> QED BY <1>1, <1>3, <2>1, NothingInHand, DeletionsLookOn DEF GoesTo
  <1>5. CASE Versioned(r, w)
    <2>1. PICK d : d = [worker[w] EXCEPT !.siteIds = Without(req[r].todo[w], req[r].site)]
      OBVIOUS
    <2>2. PICK p : p = Done(req[r], w)
      OBVIOUS
    <2>3. worker' = [worker EXCEPT ![w] = d] /\ req' = [req EXCEPT ![r] = p]
      BY <1>5, <2>1, <2>2 DEF CascadeDetach, Continue
    <2>4. d = worker'[w] /\ d.status = worker[w].status
      BY <1>2, <2>1, <2>3 DEF Employee, ShapesInv, RecordsOK
    <2>5. \A v \in Workers : (Deleted(v)' <=> Deleted(v)) /\ (OnRoster(v)' => OnRoster(v))
      <3>1. d \in Employee
        <4>1. PICK ids : ids = Without(req[r].todo[w], req[r].site)
          OBVIOUS
        <4>2. PICK old \in Lists : old = req[r].todo[w]
          BY <1>1, <1>2, CopiesFields, PicksAreNonemptyLists DEF ClosesOf
        <4>3. ids \in Lists
          BY <1>2, <4>1, <4>2, FilteredList DEF ClosesOf
        <4>4. ids \in Seq(Sites) /\ d = [worker[w] EXCEPT !.siteIds = ids]
          BY <2>1, <4>1, <4>3 DEF Lists
        <4>5. d # Null
          BY <1>2, <4>4, OfficeAssumption DEF Employee
        <4>6. worker'[w] # Null => worker'[w] \in Employee
          BY DEF ShapesInv, RecordsOK
        <4> QED BY <2>4, <4>5, <4>6
      <3> QED BY <1>2, <2>3, <2>4, <3>1, OneSaved
    <2>6. /\ p.op = "close" /\ p.phase = "read" /\ p.logged = Null /\ DOMAIN p.todo \subseteq DOMAIN req[r].todo
      BY <1>1, <1>2, <2>2, DoneFields
    <2>7. /\ PromiseHeld(p)
          /\ \A e \in DOMAIN log : ~ Settles(p, e)
          /\ \A v \in Workers : ~ Promises(p, v) /\ ~ Undoes(p, log, v)
      BY <2>6, OfficeAssumption DEF PromiseHeld, Settles, Promises, Undoes
    <2> QED BY <1>1, <1>3, <2>3, <2>5, <2>6, <2>7, DeletionsGoOn DEF GoesTo
  <1> QED BY <1>4, <1>5

\* One entry is written.
LEMMA EntryCounts ==
    ASSUME ShapesInv, NEW r \in Requests, NEW p, GoesTo(r, p), \A e : ~ Settles(p, e),
           NEW entry, log' = Append(log, entry)
    PROVE  /\ EntriesNamed /\ Len(log) + 1 \notin DOMAIN log
           /\ \A kind, id : KeptEntries(kind, id) \subseteq KeptEntries(kind, id)'
           /\ \A kind, id : /\ entry = Entry(kind, id) => Len(log) + 1 \in KeptEntries(kind, id)'
                            /\ Len(log) + 1 \notin KeptEntries(kind, id)
  <1>1. Len(log) \in Nat /\ DOMAIN log = 1 .. Len(log)
    <2>1. log \in Seq(RegisterEntry)
      BY DEF ShapesInv, RecordsOK
    <2> QED BY <2>1
  <1>2. /\ DOMAIN log' = 1 .. Len(log) + 1 /\ log'[Len(log) + 1] = entry
        /\ \A e \in DOMAIN log : e \in DOMAIN log' /\ log'[e] = log[e]
    <2>1. PICK l \in Seq(RegisterEntry \union {entry}) : l = log
      <3>1. log \in Seq(RegisterEntry)
        BY DEF ShapesInv, RecordsOK
      <3> QED BY <3>1
    <2>2. /\ DOMAIN Append(l, entry) = 1 .. Len(l) + 1 /\ Append(l, entry)[Len(l) + 1] = entry
          /\ \A e \in 1 .. Len(l) : Append(l, entry)[e] = l[e]
      BY <2>1
    <2> QED BY <1>1, <2>1, <2>2
  <1>3. \A kind, id : KeptEntries(kind, id) \subseteq KeptEntries(kind, id)'
    BY <1>2, EntriesStay
  <1>4. \A q \in Requests : ~ Settles(req'[q], Len(log) + 1)
    <2>1. req'[r] = p /\ \A q \in Requests \ {r} : req'[q] = req[q]
      BY DEF GoesTo, ShapesInv, RequestsOK
    <2>2. \A q \in Requests : req[q].op = "undo" => req[q].entry \in DOMAIN log
      BY DEF ShapesInv, RequestsOK, Finds
    <2>3. Len(log) + 1 \notin DOMAIN log
      BY <1>1
    <2> QED BY <2>1, <2>2, <2>3 DEF Settles
  <1>5. \A kind, id : entry = Entry(kind, id) => Len(log) + 1 \in KeptEntries(kind, id)'
    <2>1. Len(log) + 1 \in DOMAIN log'
      BY <1>1, <1>2
    <2> QED BY <1>2, <1>4, <2>1 DEF KeptEntries, Entry, Settles
  <1>6. Len(log) + 1 \notin DOMAIN log
    BY <1>1
  <1> QED BY <1>2, <1>3, <1>5, <1>6 DEF EntriesNamed, KeptEntries

LEMMA AllCountsAreFinite ==
    ASSUME ShapesInv, ShapesInv', NEW w
    PROVE  /\ IsFiniteSet(KeptEntries("worker", w)') /\ IsFiniteSet(Owing(w)') /\ IsFiniteSet(Promising(w)')
           /\ IsFiniteSet(KeptEntries("worker", w)) /\ IsFiniteSet(Owing(w)) /\ IsFiniteSet(Promising(w))
  <1>1. FiniteCounts
    BY CountsAreFinite
  <1>2. FiniteCounts'
    BY CountsAreFinite, PTL
  <1> QED BY <1>1, <1>2 DEF FiniteCounts

LEMMA LogKeepsDeletions ==
    ASSUME ShapesInv, ShapesInv', DeletionInv, TwoAtOnce, TwoAtOnce', NEW r \in Requests, NEW w \in Workers, CascadeLog(r, w)
    PROVE  DeletionInv'
  <1>1. PICK p : p = [req[r] EXCEPT !.logged = w]
    OBVIOUS
  <1>2. /\ req[r].op = "close" /\ req[r].phase = "read" /\ req[r].left = {} /\ w \in DOMAIN req[r].todo
        /\ req[r].logged = Null /\ log' = Append(log, Entry("worker", w))
        /\ req' = [req EXCEPT ![r] = p] /\ UNCHANGED <<site, worker>>
    BY <1>1 DEF CascadeLog, Cascading, Append1, Continue
  <1>3. req[r] \in ClosesOf /\ req[r] # Idle
    BY <1>2, ClosesRequest, BusyIsNotIdle
  <1>4. /\ p.op = "close" /\ p.phase = "read" /\ p.left = {} /\ p.todo = req[r].todo /\ p.logged = w
    BY <1>1, <1>2, <1>3 DEF ClosesOf
  <1>5. /\ PromiseHeld(p)
        /\ \A e : ~ Settles(p, e)
        /\ \A v : /\ ~ Owes(p, v) /\ ~ Owes(req[r], v) /\ ~ Undoes(p, log', v)
                  /\ Promises(p, v) <=> v = w
        /\ \A s : ~ Registering(p, s) /\ ~ Registering(req[r], s)
        /\ \A v \in Workers : ~ Promises(req[r], v)
    BY <1>2, <1>4, OfficeAssumption DEF PromiseHeld, HasRead, Settles, Promises, Owes, Undoes, Registering
  <1>6. GoesTo(r, p)
    BY <1>2, <1>3 DEF GoesTo
  <1>7. /\ EntriesNamed /\ \A kind, id : KeptEntries(kind, id) \subseteq KeptEntries(kind, id)'
        /\ Len(log) + 1 \in KeptEntries("worker", w)' /\ Len(log) + 1 \notin KeptEntries("worker", w)
    BY <1>2, <1>5, <1>6, EntryCounts
  <1>8. \A v \in Workers : (Deleted(v)' <=> Deleted(v)) /\ (OnRoster(v)' <=> OnRoster(v))
    BY <1>2 DEF Deleted, OnRoster
  <1>9. Covered(w)'
    <2>1. /\ Cardinality(KeptEntries("worker", w)) \in Nat /\ Cardinality(KeptEntries("worker", w)') \in Nat
          /\ Cardinality(KeptEntries("worker", w)) + 1 <= Cardinality(KeptEntries("worker", w)')
      <3>1. KeptEntries("worker", w) \union {Len(log) + 1} \subseteq KeptEntries("worker", w)'
        BY <1>7
      <3> QED BY <1>7, <3>1, AllCountsAreFinite, OneMore
    <2>2. Owing(w)' = Owing(w) /\ Cardinality(Owing(w)) \in Nat
      <3>1. Owing(w)' = Owing(w)
        BY <1>5, <1>6, RequestSetsMove
      <3> QED BY <3>1, AllCountsAreFinite, FS_CardinalityType
    <2>3. /\ Cardinality(Promising(w)) \in Nat /\ Cardinality(Promising(w)') \in Nat
          /\ Cardinality(Promising(w)') <= Cardinality(Promising(w)) + 1
      <3>1. Promising(w)' \subseteq Promising(w) \union {r}
        BY <1>6, RequestSetsMove
      <3> QED BY <3>1, AllCountsAreFinite, OneMoreAtMost
    <2>4. Covered(w)
      BY DEF DeletionInv
    <2> QED BY <1>8, <2>1, <2>2, <2>3, <2>4 DEF Covered
  <1>10. \A v \in Workers : Covered(v)'
    <2>1. ASSUME NEW v \in Workers, v # w
          PROVE  Covered(v)'
      BY <1>5, <1>6, <1>7, <1>8, <2>1, CoveredStays DEF DeletionInv
    <2> QED BY <1>9, <2>1
  <1>11. \A s \in Sites : SiteCovered(s)'
    BY <1>2, <1>5, <1>6, <1>7, SitesStayCovered DEF DeletionInv, SiteIs
  <1> QED BY <1>2, <1>4, <1>5, <1>6, <1>7, <1>8, <1>10, <1>11, DeletionsMoveOn

LEMMA CascadeLeaveKeepsDeletions ==
    ASSUME ShapesInv, ShapesInv', DeletionInv, TwoAtOnce, TwoAtOnce', NEW r \in Requests, NEW w \in Workers, CascadeLeave(r, w)
    PROVE  DeletionInv'
  <1>1. PICK p : p = Done(req[r], w)
    OBVIOUS
  <1>2. PICK d : d = [worker[w] EXCEPT !.status = req[r].fate, !.left = TRUE]
    OBVIOUS
  <1>3. /\ req[r].op = "close" /\ req[r].phase = "read" /\ w \in DOMAIN req[r].todo
        /\ req[r].fate = "deleted" => req[r].logged = w
        /\ worker' = [worker EXCEPT ![w] = d]
        /\ req' = [req EXCEPT ![r] = p] /\ UNCHANGED <<site, log>>
    BY <1>1, <1>2 DEF CascadeLeave, Cascading, Continue
  <1>4. req[r] \in ClosesOf /\ req[r] # Idle /\ worker[w] \in Employee
    BY <1>3, ClosesRequest, BusyIsNotIdle
  <1>5. d \in Employee /\ d.status = req[r].fate /\ d.status \in Gone
    BY <1>2, <1>4 DEF Employee, ClosesOf, Kinds, Gone
  <1>6. /\ Deleted(w)' <=> req[r].fate = "deleted"
        /\ ~ OnRoster(w)'
        /\ \A v \in Workers \ {w} : (Deleted(v)' <=> Deleted(v)) /\ (OnRoster(v)' <=> OnRoster(v))
    BY <1>3, <1>4, <1>5, OneSaved DEF Roster, Gone
  <1>7. /\ p.op = "close" /\ p.phase = "read" /\ p.logged = Null /\ DOMAIN p.todo = DOMAIN req[r].todo \ {w}
    BY <1>1, <1>3, <1>4, DoneFields
  <1>8. /\ PromiseHeld(p)
        /\ \A e : ~ Settles(p, e)
        /\ \A v : ~ Owes(p, v) /\ ~ Owes(req[r], v) /\ ~ Undoes(p, log', v)
        /\ \A s : ~ Registering(p, s) /\ ~ Registering(req[r], s)
        /\ \A v \in Workers : ~ Promises(p, v)
    BY <1>3, <1>7, OfficeAssumption DEF PromiseHeld, Settles, Promises, Owes, Undoes, Registering
  <1>9. GoesTo(r, p)
    BY <1>3, <1>4 DEF GoesTo
  <1>10. EntriesNamed /\ \A kind, id : KeptEntries(kind, id) \subseteq KeptEntries(kind, id)'
    <2>1. \A kind, id : KeptEntries(kind, id) \subseteq KeptEntries(kind, id)'
      BY <1>3, <1>8, <1>9, EntriesStay
    <2> QED BY <1>3, <2>1 DEF EntriesNamed
  <1>11. Covered(w)'
    <2>1. CASE req[r].fate = "deleted"
      <3>1. Promises(req[r], w)
        BY <1>3, <2>1 DEF Promises
      <3>2. /\ Cardinality(Promising(w)) \in Nat /\ Cardinality(Promising(w)') \in Nat
            /\ Cardinality(Promising(w)') + 1 <= Cardinality(Promising(w))
        <4>1. Promising(w)' \union {r} \subseteq Promising(w) /\ r \notin Promising(w)'
          BY <1>8, <1>9, <3>1, RequestSetsMove
        <4> QED BY <4>1, AllCountsAreFinite, OneMore
      <3>3. /\ Cardinality(KeptEntries("worker", w)) \in Nat /\ Cardinality(KeptEntries("worker", w)') \in Nat
            /\ Cardinality(KeptEntries("worker", w)) <= Cardinality(KeptEntries("worker", w)')
        BY <1>10, AllCountsAreFinite, NoMore
      <3>4. Owing(w)' = Owing(w) /\ Cardinality(Owing(w)) \in Nat
        <4>1. Owing(w)' = Owing(w)
          BY <1>8, <1>9, RequestSetsMove
        <4> QED BY <4>1, AllCountsAreFinite, FS_CardinalityType
      <3>5. Covered(w)
        BY DEF DeletionInv
      <3> QED BY <3>2, <3>3, <3>4, <3>5 DEF Covered
    <2>2. CASE req[r].fate # "deleted"
      BY <1>6, <1>8, <1>9, <1>10, <2>2, CoveredStays DEF DeletionInv
    <2> QED BY <2>1, <2>2
  <1>12. \A v \in Workers : Covered(v)'
    <2>1. ASSUME NEW v \in Workers, v # w
          PROVE  Covered(v)'
      BY <1>6, <1>8, <1>9, <1>10, <2>1, CoveredStays DEF DeletionInv
    <2> QED BY <1>11, <2>1
  <1>13. \A s \in Sites : SiteCovered(s)'
    BY <1>3, <1>8, <1>9, <1>10, SitesStayCovered DEF DeletionInv, SiteIs
  <1>14. \A v \in Workers : OnRoster(v)' => OnRoster(v)
    BY <1>6
  <1>15. \A v \in Workers \cap DOMAIN p.todo :
           req[r].op = "close" /\ v \in DOMAIN req[r].todo /\ (Deleted(v) => Deleted(v)')
    BY <1>3, <1>6, <1>7
  <1> QED BY <1>8, <1>9, <1>10, <1>12, <1>13, <1>14, <1>15, DeletionsMoveOn

LEMMA CloseSiteKeepsDeletions ==
    ASSUME ShapesInv, ShapesInv', DeletionInv, TwoAtOnce, TwoAtOnce', NEW r \in Requests, CloseSite(r)
    PROVE  DeletionInv'
  <1>1. PICK left : left = IF req[r].to = "deleted" THEN {"stations", "scopes", "log"} ELSE {"stations"}
    OBVIOUS
  <1>2. PICK p : p = [req[r] EXCEPT !.phase = "after", !.left = left]
    OBVIOUS
  <1>3. /\ req[r].op = "close" /\ req[r].phase = "read" /\ DOMAIN req[r].todo = {}
        /\ site' = site \/ site' = [site EXCEPT ![req[r].site].status = req[r].to]
        /\ req' = [req EXCEPT ![r] = p] /\ UNCHANGED <<worker, log>>
    BY <1>1, <1>2 DEF CloseSite, Cascading, Continue
  <1>4. req[r] \in ClosesOf /\ req[r] # Idle /\ site[req[r].site] \in SiteRecord /\ req[r].site \in Sites
    BY <1>3, ClosesRequest, BusyIsNotIdle
  <1>5. req[r].logged = Null
    <2>1. PromiseHeld(req[r])
      BY DEF DeletionInv
    <2> QED BY <1>3, <2>1 DEF PromiseHeld
  <1>6. /\ p.op = "close" /\ p.phase = "after" /\ p.left = left /\ p.todo = req[r].todo /\ p.logged = Null
        /\ p.site = req[r].site
    BY <1>2, <1>3, <1>4, <1>5 DEF ClosesOf
  <1>7. /\ PromiseHeld(p)
        /\ \A e : ~ Settles(p, e)
        /\ \A v : ~ Owes(p, v) /\ ~ Owes(req[r], v) /\ ~ Undoes(p, log', v)
        /\ \A s : ~ Registering(req[r], s)
        /\ \A v \in Workers : ~ Promises(p, v)
        /\ req[r].to = "deleted" => Registering(p, req[r].site)
    BY <1>1, <1>3, <1>6, OfficeAssumption DEF PromiseHeld, Settles, Promises, Owes, Undoes, Registering
  <1>8. GoesTo(r, p)
    BY <1>3, <1>4 DEF GoesTo
  <1>9. EntriesNamed /\ \A kind, id : KeptEntries(kind, id) \subseteq KeptEntries(kind, id)'
    <2>1. \A kind, id : KeptEntries(kind, id) \subseteq KeptEntries(kind, id)'
      BY <1>3, <1>7, <1>8, EntriesStay
    <2> QED BY <1>3, <2>1 DEF EntriesNamed
  <1>10. \A v \in Workers : (Deleted(v)' <=> Deleted(v)) /\ (OnRoster(v)' <=> OnRoster(v))
    BY <1>3 DEF Deleted, OnRoster
  <1>11. \A v \in Workers : Covered(v)'
    BY <1>7, <1>8, <1>9, <1>10, CoveredStays DEF DeletionInv
  <1>12. \A s \in Sites : SiteIs(s, "deleted")' => SiteIs(s, "deleted") \/ (s = req[r].site /\ req[r].to = "deleted")
    <2>1. site \in [Sites -> SiteRecord \union {Null}]
      BY DEF ShapesInv, RecordsOK
    <2>2. Null \notin SiteRecord
      BY SiteIsThere
    <2> QED BY <1>3, <1>4, <2>1, <2>2 DEF SiteIs, SiteRecord
  <1>13. \A s \in Sites : SiteCovered(s)'
    BY <1>7, <1>8, <1>9, <1>12, SitesStayCovered DEF DeletionInv
  <1> QED BY <1>3, <1>6, <1>7, <1>8, <1>9, <1>10, <1>11, <1>13, DeletionsMoveOn

LEMMA AfterCloseKeepsDeletions ==
    ASSUME ShapesInv, ShapesInv', DeletionInv, TwoAtOnce, TwoAtOnce', NEW r \in Requests,
           NEW what \in {"stations", "scopes", "log"}, AfterClose(r, what)
    PROVE  DeletionInv'
  <1>1. PICK q : q = [req[r] EXCEPT !.left = req[r].left \ {what}]
    OBVIOUS
  <1>2. PICK p : p = IF req[r].left = {what} THEN Idle ELSE q
    OBVIOUS
  <1>0. PICK s0 : s0 = req[r].site
    OBVIOUS
  <1>3. /\ req[r].op = "close" /\ req[r].phase = "after" /\ what \in req[r].left /\ UNCHANGED <<site, worker>>
        /\ IF what = "log" THEN log' = Append(log, Entry("site", s0)) ELSE UNCHANGED log
    BY <1>0 DEF AfterClose, Append1
  <1>4. req[r] \in ClosesOf /\ req[r] # Idle
    BY <1>3, ClosesRequest, BusyIsNotIdle
  <1>5. req' = [req EXCEPT ![r] = p]
    BY <1>1, <1>2, <1>4 DEF AfterClose, Finish, Continue, ClosesOf
  <1>6. req[r].logged = Null
    <2>1. PromiseHeld(req[r])
      BY DEF DeletionInv
    <2> QED BY <1>3, <2>1 DEF PromiseHeld, HasRead
  <1>7. /\ q.op = "close" /\ q.phase = "after" /\ q.left = req[r].left \ {what} /\ q.todo = req[r].todo
        /\ q.logged = Null /\ q.site = req[r].site
    BY <1>1, <1>3, <1>4, <1>6 DEF ClosesOf
  <1>8. p = Idle \/ p = q
    BY <1>2
  <1>9. /\ PromiseHeld(p)
        /\ \A e : ~ Settles(p, e)
        /\ \A v : ~ Owes(p, v) /\ ~ Owes(req[r], v) /\ ~ Undoes(p, log, v) /\ ~ Undoes(p, log', v)
        /\ \A v \in Workers : ~ Promises(p, v)
    <2>1. CASE p = Idle
      BY <1>3, <2>1 DEF Idle, PromiseHeld, Settles, Promises, Owes, Undoes
    <2>2. CASE p = q
      BY <1>3, <1>7, <2>2, OfficeAssumption DEF PromiseHeld, Settles, Promises, Owes, Undoes
    <2> QED BY <1>8, <2>1, <2>2
  <1>10. GoesTo(r, p)
    BY <1>4, <1>5 DEF GoesTo
  <1>11. p.op = "close" => p.todo = req[r].todo
    BY <1>7, <1>8 DEF Idle
  <1>12. CASE what # "log"
    <2>1. \A s \in Sites : Registering(req[r], s) => Registering(p, s)
      BY <1>2, <1>3, <1>7, <1>12 DEF Registering
    <2> QED BY <1>3, <1>9, <1>10, <1>11, <1>12, <2>1, DeletionsLookOn
  <1>13. CASE what = "log"
    <2>1. /\ EntriesNamed /\ \A kind, id : KeptEntries(kind, id) \subseteq KeptEntries(kind, id)'
          /\ Len(log) + 1 \in KeptEntries("site", s0)'
      BY <1>3, <1>9, <1>10, <1>13, EntryCounts
    <2>2. \A v \in Workers : (Deleted(v)' <=> Deleted(v)) /\ (OnRoster(v)' <=> OnRoster(v))
      BY <1>3 DEF Deleted, OnRoster
    <2>3. \A v \in Workers : Covered(v)'
      BY <1>9, <1>10, <2>1, <2>2, CoveredStays DEF DeletionInv
    <2>4. \A s \in Sites : Registering(req[r], s) => KeptEntries("site", s)' # {}
      BY <1>0, <2>1 DEF Registering
    <2>5. \A s \in Sites : SiteCovered(s)'
      BY <1>3, <1>10, <2>1, <2>4, SitesStayCovered DEF DeletionInv, SiteIs
    <2> QED BY <1>3, <1>9, <1>10, <1>11, <2>1, <2>2, <2>3, <2>5, DeletionsMoveOn
  <1> QED BY <1>12, <1>13

LEMMA LeaveReadKeepsDeletions ==
    ASSUME ShapesInv, ShapesInv', DeletionInv, TwoAtOnce, TwoAtOnce', NEW r \in Requests,
           NEW w \in Workers, NEW to \in Gone, LeaveRead(r, TopUser, w, to)
    PROVE  DeletionInv'
  <1>1. PICK p : p = [op |-> "leave", worker |-> w, copy |-> worker[w], to |-> to, saved |-> FALSE]
    OBVIOUS
  <1>2. req[r] = Idle /\ req' = [req EXCEPT ![r] = p] /\ UNCHANGED <<site, worker, log>>
    BY <1>1 DEF LeaveRead, Start
  <1>3. p.op = "leave" /\ p # Idle
    BY <1>1, BusyIsNotIdle
  <1>4. /\ PromiseHeld(p) /\ \A e : ~ Settles(p, e)
        /\ \A v : ~ Promises(p, v) /\ ~ Undoes(p, log, v)
    BY <1>3 DEF PromiseHeld, Settles, Promises, Undoes
  <1> QED BY <1>2, <1>3, <1>4, NothingInHand, DeletionsLookOn DEF GoesTo

LEMMA LeaveSaveKeepsDeletions ==
    ASSUME ShapesInv, ShapesInv', DeletionInv, TwoAtOnce, TwoAtOnce', NEW r \in Requests, LeaveSave(r)
    PROVE  DeletionInv'
  <1>1. PICK to : to = [req[r].copy EXCEPT !.status = req[r].to]
    OBVIOUS
  <1>2. PICK d : d = [Written(worker[req[r].worker], req[r].copy, to) EXCEPT !.left = TRUE]
    OBVIOUS
  <1>3. PICK q : q = [req[r] EXCEPT !.saved = TRUE]
    OBVIOUS
  <1>4. PICK p : p = IF req[r].to = "deleted" THEN q ELSE Idle
    OBVIOUS
  <1>5. PICK w : w = req[r].worker
    OBVIOUS
  <1>6. /\ req[r].op = "leave" /\ ~ req[r].saved /\ worker' = [worker EXCEPT ![w] = d]
        /\ req' = [req EXCEPT ![r] = p] /\ UNCHANGED <<site, log>>
    BY <1>1, <1>2, <1>3, <1>4, <1>5 DEF LeaveSave, Continue
  <1>7. /\ req[r] \in LeavesOf /\ req[r] # Idle /\ w \in Workers /\ worker[w] \in Employee
        /\ req[r].copy \in Employee /\ req[r].to \in Gone
    <2>1. req[r] \in LeavesOf /\ Finds(req[r])
      BY <1>6, ClosesFields DEF ShapesInv, RequestsOK
    <2> QED BY <1>5, <1>6, <2>1, BusyIsNotIdle DEF LeavesOf, Finds
  <1>8. d \in Employee /\ d.status \in {worker[w].status, req[r].to}
    <2>1. to \in Employee /\ to.status = req[r].to
      BY <1>1, <1>7 DEF Employee, Gone
    <2>2. PICK x \in Employee : /\ x = Written(worker[w], req[r].copy, to)
                                /\ x.status \in {worker[w].status, to.status}
      <3>1. Written(worker[w], req[r].copy, to) \in Employee
        BY <1>7, <2>1, WrittenIsTyped
      <3>2. Written(worker[w], req[r].copy, to).status \in {worker[w].status, to.status}
        BY <1>7, <2>1 DEF Written, Employee
      <3> QED BY <3>1, <3>2
    <2> QED BY <1>2, <1>5, <2>1, <2>2 DEF Employee
  <1>9. /\ Deleted(w)' => Deleted(w) \/ req[r].to = "deleted"
        /\ OnRoster(w)' => OnRoster(w)
        /\ \A v \in Workers \ {w} : (Deleted(v)' <=> Deleted(v)) /\ (OnRoster(v)' <=> OnRoster(v))
    BY <1>6, <1>7, <1>8, OneSaved DEF Roster, Gone
  <1>10. q.op = "leave" /\ q.worker = w /\ q.saved
    BY <1>3, <1>5, <1>6, <1>7 DEF LeavesOf
  <1>11. /\ PromiseHeld(p) /\ p.op # "close" /\ \A e : ~ Settles(p, e)
         /\ \A v : ~ Promises(p, v) /\ ~ Undoes(p, log', v) /\ ~ Owes(req[r], v)
         /\ \A s : ~ Registering(req[r], s)
         /\ req[r].to = "deleted" => Owes(p, w)
    BY <1>4, <1>6, <1>10 DEF Idle, PromiseHeld, Settles, Promises, Undoes, Owes, Registering
  <1>12. GoesTo(r, p)
    BY <1>6, <1>7 DEF GoesTo
  <1>13. EntriesNamed /\ \A kind, id : KeptEntries(kind, id) \subseteq KeptEntries(kind, id)'
    <2>1. \A kind, id : KeptEntries(kind, id) \subseteq KeptEntries(kind, id)'
      BY <1>6, <1>11, <1>12, EntriesStay
    <2> QED BY <1>6, <2>1 DEF EntriesNamed
  <1>14. Covered(w)'
    <2>1. CASE req[r].to = "deleted"
      <3>1. /\ Cardinality(Owing(w)) \in Nat /\ Cardinality(Owing(w)') \in Nat
            /\ Cardinality(Owing(w)) + 1 <= Cardinality(Owing(w)')
        <4>1. Owing(w) \union {r} \subseteq Owing(w)' /\ r \notin Owing(w)
          BY <1>11, <1>12, <2>1, RequestSetsMove
        <4> QED BY <4>1, AllCountsAreFinite, OneMore
      <3>2. /\ Cardinality(KeptEntries("worker", w)) \in Nat /\ Cardinality(KeptEntries("worker", w)') \in Nat
            /\ Cardinality(KeptEntries("worker", w)) <= Cardinality(KeptEntries("worker", w)')
        BY <1>13, AllCountsAreFinite, NoMore
      <3>3. /\ Cardinality(Promising(w)) \in Nat /\ Cardinality(Promising(w)') \in Nat
            /\ Cardinality(Promising(w)') <= Cardinality(Promising(w))
        <4>1. Promising(w)' \subseteq Promising(w)
          BY <1>11, <1>12, RequestSetsMove
        <4> QED BY <4>1, AllCountsAreFinite, NoMore
      <3>4. Covered(w)
        BY <1>7 DEF DeletionInv
      <3> QED BY <3>1, <3>2, <3>3, <3>4 DEF Covered
    <2>2. CASE req[r].to # "deleted"
      BY <1>7, <1>9, <1>11, <1>12, <1>13, <2>2, CoveredStays DEF DeletionInv
    <2> QED BY <2>1, <2>2
  <1>15. \A v \in Workers : Covered(v)'
    <2>1. ASSUME NEW v \in Workers, v # w
          PROVE  Covered(v)'
      BY <1>9, <1>11, <1>12, <1>13, <2>1, CoveredStays DEF DeletionInv
    <2> QED BY <1>14, <2>1
  <1>16. \A s \in Sites : SiteCovered(s)'
    BY <1>6, <1>11, <1>12, <1>13, SitesStayCovered DEF DeletionInv, SiteIs
  <1>17. \A v \in Workers : OnRoster(v)' => OnRoster(v)
    BY <1>9
  <1> QED BY <1>11, <1>12, <1>13, <1>15, <1>16, <1>17, DeletionsMoveOn

LEMMA LeaveLogKeepsDeletions ==
    ASSUME ShapesInv, ShapesInv', DeletionInv, TwoAtOnce, TwoAtOnce', NEW r \in Requests, LeaveLog(r)
    PROVE  DeletionInv'
  <1>1. PICK w : w = req[r].worker
    OBVIOUS
  <1>2. /\ req[r].op = "leave" /\ req[r].saved /\ log' = Append(log, Entry("worker", w))
        /\ req' = [req EXCEPT ![r] = Idle] /\ UNCHANGED <<site, worker>>
    BY <1>1 DEF LeaveLog, Append1, Finish
  <1>3. w \in Workers /\ req[r] # Idle
    <2>1. req[r] \in LeavesOf
      BY <1>2, ClosesFields DEF ShapesInv, RequestsOK
    <2> QED BY <1>1, <1>2, <2>1, BusyIsNotIdle DEF LeavesOf
  <1>4. GoesTo(r, Idle)
    BY <1>2, <1>3 DEF GoesTo
  <1>5. /\ PromiseHeld(Idle) /\ Idle.op # "close" /\ \A e : ~ Settles(Idle, e)
        /\ \A v : /\ ~ Promises(Idle, v) /\ ~ Undoes(Idle, log', v) /\ ~ Owes(Idle, v)
                  /\ Owes(req[r], v) <=> v = w
        /\ \A s : ~ Registering(req[r], s)
    BY <1>1, <1>2 DEF Idle, PromiseHeld, Settles, Promises, Undoes, Owes, Registering
  <1>6. /\ EntriesNamed /\ \A kind, id : KeptEntries(kind, id) \subseteq KeptEntries(kind, id)'
        /\ Len(log) + 1 \in KeptEntries("worker", w)' /\ Len(log) + 1 \notin KeptEntries("worker", w)
    BY <1>2, <1>4, <1>5, EntryCounts
  <1>7. \A v \in Workers : (Deleted(v)' <=> Deleted(v)) /\ (OnRoster(v)' <=> OnRoster(v))
    BY <1>2 DEF Deleted, OnRoster
  <1>8. Covered(w)'
    <2>1. /\ Cardinality(KeptEntries("worker", w)) \in Nat /\ Cardinality(KeptEntries("worker", w)') \in Nat
          /\ Cardinality(KeptEntries("worker", w)) + 1 <= Cardinality(KeptEntries("worker", w)')
      <3>1. KeptEntries("worker", w) \union {Len(log) + 1} \subseteq KeptEntries("worker", w)'
        BY <1>6
      <3> QED BY <1>6, <3>1, AllCountsAreFinite, OneMore
    <2>2. /\ Cardinality(Owing(w)) \in Nat /\ Cardinality(Owing(w)') \in Nat
          /\ Cardinality(Owing(w)) <= Cardinality(Owing(w)') + 1
      <3>1. Owing(w) \subseteq Owing(w)' \union {r}
        BY <1>4, RequestSetsMove
      <3> QED BY <3>1, AllCountsAreFinite, OneMoreAtMost
    <2>3. /\ Cardinality(Promising(w)) \in Nat /\ Cardinality(Promising(w)') \in Nat
          /\ Cardinality(Promising(w)') <= Cardinality(Promising(w))
      <3>1. Promising(w)' \subseteq Promising(w)
        BY <1>4, <1>5, RequestSetsMove
      <3> QED BY <3>1, AllCountsAreFinite, NoMore
    <2>4. Covered(w)
      BY <1>3 DEF DeletionInv
    <2> QED BY <1>3, <1>7, <2>1, <2>2, <2>3, <2>4 DEF Covered
  <1>9. \A v \in Workers : Covered(v)'
    <2>1. ASSUME NEW v \in Workers, v # w
          PROVE  Covered(v)'
      BY <1>4, <1>5, <1>6, <1>7, <2>1, CoveredStays DEF DeletionInv
    <2> QED BY <1>8, <2>1
  <1>10. \A s \in Sites : SiteCovered(s)'
    BY <1>2, <1>4, <1>5, <1>6, SitesStayCovered DEF DeletionInv, SiteIs
  <1> QED BY <1>4, <1>5, <1>6, <1>7, <1>9, <1>10, DeletionsMoveOn

\* What an undo holds.
LEMMA UndoHolds ==
    ASSUME ShapesInv, NEW r \in Requests, req[r].op = "undo"
    PROVE  /\ req[r].entry \in DOMAIN log /\ log[req[r].entry] \in RegisterEntry /\ req[r] # Idle
           /\ IF log[req[r].entry].kind = "worker"
              THEN log[req[r].entry].id \in Workers /\ worker[log[req[r].entry].id] \in Employee
              ELSE /\ log[req[r].entry].kind = "site"
                   /\ log[req[r].entry].id \in Sites /\ site[log[req[r].entry].id] \in SiteRecord
           /\ \A phase \in {"record", "saved"} :
                 LET n == [req[r] EXCEPT !.phase = phase] IN
                 n.op = "undo" /\ n.phase = phase /\ n.entry = req[r].entry
  <1>1. /\ req[r] \in AnyRequest /\ req[r].entry \in DOMAIN log /\ EntriesFind
        /\ \A e \in DOMAIN log : log[e] \in RegisterEntry
    <2>1. log \in Seq(RegisterEntry)
      BY DEF ShapesInv, RecordsOK
    <2>2. req[r] \in AnyRequest /\ req[r].entry \in DOMAIN log /\ EntriesFind
      BY DEF ShapesInv, RecordsOK, RequestsOK, Finds
    <2> QED BY <2>1, <2>2
  <1>2. req[r] \in [op : {"undo"}, entry : 1 .. MaxEntries, phase : {"entry", "record", "saved"}]
    BY <1>1 DEF AnyRequest, Request, ClosesOf, EditsOf, LeavesOf
  <1>3. PICK e \in DOMAIN log : e = req[r].entry /\ log[e] \in RegisterEntry
    BY <1>1
  <1>4. IF log[e].kind = "worker" THEN log[e].id \in Workers /\ worker[log[e].id] \in Employee
                                  ELSE log[e].kind = "site" /\ log[e].id \in Sites /\ site[log[e].id] \in SiteRecord
    BY <1>1, <1>3 DEF EntriesFind, RegisterEntry
  <1> QED BY <1>2, <1>3, <1>4, BusyIsNotIdle

LEMMA UndoReadsKeepDeletions ==
    ASSUME ShapesInv, ShapesInv', DeletionInv, TwoAtOnce, TwoAtOnce', NEW r \in Requests,
           (\E e \in DOMAIN log : UndoReadEntry(r, e)) \/ UndoReadRecord(r)
    PROVE  DeletionInv'
  <1>1. ASSUME NEW e \in DOMAIN log, UndoReadEntry(r, e)
        PROVE  DeletionInv'
    <2>1. PICK p : p = [op |-> "undo", entry |-> e, phase |-> "entry"]
      OBVIOUS
    <2>2. req[r] = Idle /\ req' = [req EXCEPT ![r] = p] /\ UNCHANGED <<site, worker, log>>
      BY <1>1, <2>1 DEF UndoReadEntry, Start
    <2>3. p.op = "undo" /\ p.phase = "entry" /\ p # Idle
      BY <2>1, BusyIsNotIdle
    <2>4. /\ PromiseHeld(p) /\ \A i : ~ Settles(p, i)
          /\ \A v : ~ Promises(p, v) /\ ~ Undoes(p, log, v)
      BY <2>3 DEF PromiseHeld, Settles, Promises, Undoes
    <2> QED BY <2>2, <2>3, <2>4, NothingInHand, DeletionsLookOn DEF GoesTo
  <1>2. ASSUME UndoReadRecord(r)
        PROVE  DeletionInv'
    <2>1. PICK q : q = [req[r] EXCEPT !.phase = "record"]
      OBVIOUS
    <2>2. PICK p : p = IF IsDeleted(log[req[r].entry]) THEN q ELSE Idle
      OBVIOUS
    <2>3. /\ req[r].op = "undo" /\ req' = [req EXCEPT ![r] = p] /\ UNCHANGED <<site, worker, log>>
      BY <1>2, <2>1, <2>2 DEF UndoReadRecord, Continue, Finish
    <2>4. q.op = "undo" /\ q.phase = "record" /\ q.entry = req[r].entry /\ req[r] # Idle
      BY <2>1, <2>3, UndoHolds
    <2>5. PICK e \in DOMAIN log : /\ e = req[r].entry
                                  /\ log[e].kind = "worker" => worker[log[e].id] \in Employee
      BY <2>3, UndoHolds
    <2>6. \A v \in Workers : Undoes(p, log, v) => Deleted(v)
      <3> SUFFICES ASSUME NEW v \in Workers, Undoes(p, log, v) PROVE Deleted(v)
        OBVIOUS
      <3>1. p = q /\ IsDeleted(log[e])
        BY <2>2, <2>5 DEF Undoes, Idle
      <3>2. log[e].kind = "worker" /\ log[e].id = v
        BY <2>4, <2>5, <3>1 DEF Undoes
      <3>3. worker[v].status = "deleted" /\ worker[v] \in Employee
        BY <2>5, <3>1, <3>2 DEF IsDeleted
      <3>4. worker[v] # Null
        BY <3>3, OfficeAssumption, PicksAreNonemptyLists DEF Employee, Lists
      <3> QED BY <3>3, <3>4 DEF Deleted
    <2>7. /\ PromiseHeld(p) /\ p.op # "close" /\ \A i : ~ Settles(p, i)
          /\ \A v : ~ Promises(p, v) /\ ~ Owes(req[r], v)
          /\ \A s : ~ Registering(req[r], s)
      BY <2>2, <2>3, <2>4 DEF Idle, PromiseHeld, Settles, Promises, Owes, Registering
    <2> QED BY <2>3, <2>4, <2>6, <2>7, DeletionsLookOn DEF GoesTo
  <1> QED BY <1>1, <1>2

\* The entry of a record that is restored counts no longer; every other does.
LEMMA EntryIsSettled ==
    ASSUME ShapesInv, NEW r \in Requests, NEW p, GoesTo(r, p), UNCHANGED log,
           NEW n \in DOMAIN log, \A e : Settles(p, e) <=> e = n
    PROVE  /\ EntriesNamed
           /\ \A kind, id : KeptEntries(kind, id) \subseteq KeptEntries(kind, id)' \union {n}
           /\ \A kind, id : log[n].kind # kind \/ log[n].id # id
                               => KeptEntries(kind, id) \subseteq KeptEntries(kind, id)'
  <1>1. req'[r] = p /\ \A q \in Requests \ {r} : req'[q] = req[q]
    BY DEF GoesTo, ShapesInv, RequestsOK
  <1>2. \A kind, id : \A e \in KeptEntries(kind, id) : e # n => e \in KeptEntries(kind, id)'
    BY <1>1 DEF KeptEntries
  <1>3. \A kind, id : n \in KeptEntries(kind, id) => log[n].kind = kind /\ log[n].id = id
    BY DEF KeptEntries, Entry
  <1> QED BY <1>2, <1>3 DEF EntriesNamed

LEMMA UndoSaveRecordKeepsDeletions ==
    ASSUME ShapesInv, ShapesInv', DeletionInv, TwoAtOnce, TwoAtOnce', NEW r \in Requests, UndoSaveRecord(r)
    PROVE  DeletionInv'
  <1>1. PICK p : p = [req[r] EXCEPT !.phase = "saved"]
    OBVIOUS
  <1>2. /\ req[r].op = "undo" /\ req[r].phase = "record" /\ UNCHANGED log
        /\ req' = [req EXCEPT ![r] = p]
    BY <1>1 DEF UndoSaveRecord, Continue
  <1>3. PICK n \in DOMAIN log : /\ n = req[r].entry
                                /\ p.op = "undo" /\ p.phase = "saved" /\ p.entry = n
                                /\ req[r] # Idle
    BY <1>1, <1>2, UndoHolds
  <1>4. IF log[n].kind = "worker"
        THEN log[n].id \in Workers /\ worker[log[n].id] \in Employee
        ELSE log[n].kind = "site" /\ log[n].id \in Sites /\ site[log[n].id] \in SiteRecord
    BY <1>2, <1>3, UndoHolds
  <1>5. GoesTo(r, p)
    BY <1>2, <1>3 DEF GoesTo
  <1>6. /\ PromiseHeld(p) /\ p.op # "close" /\ \A e : Settles(p, e) <=> e = n
        /\ \A v : ~ Promises(p, v) /\ ~ Undoes(p, log', v) /\ ~ Owes(p, v) /\ ~ Owes(req[r], v)
        /\ \A s : ~ Registering(req[r], s)
    BY <1>2, <1>3 DEF PromiseHeld, Settles, Promises, Undoes, Owes, Registering
  <1>7. /\ EntriesNamed
        /\ \A kind, id : KeptEntries(kind, id) \subseteq KeptEntries(kind, id)' \union {n}
        /\ \A kind, id : log[n].kind # kind \/ log[n].id # id
                            => KeptEntries(kind, id) \subseteq KeptEntries(kind, id)'
    BY <1>2, <1>5, <1>6, EntryIsSettled
  <1>8. CASE log[n].kind = "worker"
    <2>1. PICK w \in Workers : w = log[n].id /\ worker[w] \in Employee
      BY <1>4, <1>8
    <2>2. PICK d : d = [worker[w] EXCEPT !.status = "archived"]
      OBVIOUS
    <2>3. worker' = [worker EXCEPT ![w] = d] /\ UNCHANGED site
      BY <1>3, <1>8, <2>1, <2>2 DEF UndoSaveRecord
    <2>4. d \in Employee /\ d.status = "archived"
      BY <2>1, <2>2 DEF Employee, Gone
    <2>5. /\ ~ Deleted(w)' /\ ~ OnRoster(w)'
          /\ \A v \in Workers \ {w} : (Deleted(v)' <=> Deleted(v)) /\ (OnRoster(v)' <=> OnRoster(v))
      BY <2>1, <2>3, <2>4, OneSaved DEF Roster
    <2>6. Covered(w)'
      <3>1. /\ Cardinality(KeptEntries("worker", w)) \in Nat /\ Cardinality(KeptEntries("worker", w)') \in Nat
            /\ Cardinality(KeptEntries("worker", w)) <= Cardinality(KeptEntries("worker", w)') + 1
        BY <1>7, AllCountsAreFinite, OneMoreAtMost
      <3>2. /\ Owing(w)' = Owing(w) /\ Cardinality(Owing(w)) \in Nat
        <4>1. Owing(w)' = Owing(w)
          BY <1>5, <1>6, RequestSetsMove
        <4> QED BY <4>1, AllCountsAreFinite, FS_CardinalityType
      <3>3. Promising(w)' \subseteq Promising(w)
        BY <1>5, <1>6, RequestSetsMove
      <3>4. CASE Deleted(w)
        <4>1. /\ Cardinality(Promising(w)) \in Nat /\ Cardinality(Promising(w)') \in Nat
              /\ Cardinality(Promising(w)') <= Cardinality(Promising(w))
          BY <3>3, AllCountsAreFinite, NoMore
        <4>2. Covered(w)
          BY DEF DeletionInv
        <4> QED BY <2>5, <3>1, <3>2, <3>4, <4>1, <4>2 DEF Covered
      <3>5. CASE ~ Deleted(w)
        <4>1. Undoes(req[r], log, w)
          BY <1>2, <1>3, <1>8, <2>1 DEF Undoes
        <4>2. ASSUME NEW q \in Promising(w)
              PROVE  FALSE
          <5>1. q \in Requests /\ req[q].op = "close" /\ req[q].logged = w
            BY DEF Promising, Promises
          <5>2. PromiseHeld(req[q])
            BY <5>1 DEF DeletionInv
          <5>3. w \in DOMAIN req[q].todo
            BY <5>1, <5>2, OfficeAssumption DEF PromiseHeld
          <5> QED BY <3>5, <4>1, <5>1, <5>3 DEF DeletionInv
        <4>3. Cardinality(Promising(w)') = 0
          BY <3>3, <4>2, FS_EmptySet
        <4> QED BY <2>5, <3>1, <3>2, <4>3 DEF Covered
      <3> QED BY <3>4, <3>5
    <2>7. \A v \in Workers : Covered(v)'
      <3>1. ASSUME NEW v \in Workers, v # w
            PROVE  Covered(v)'
        BY <1>5, <1>6, <1>7, <2>1, <2>5, <3>1, CoveredStays DEF DeletionInv
      <3> QED BY <2>6, <3>1
    <2>8. \A s \in Sites : SiteCovered(s)'
      <3>1. \A s : KeptEntries("site", s) \subseteq KeptEntries("site", s)'
        BY <1>7, <1>8
      <3> QED BY <1>5, <1>6, <2>3, <3>1, SitesStayCovered DEF DeletionInv, SiteIs
    <2>9. \A v \in Workers : OnRoster(v)' => OnRoster(v)
      BY <2>5
    <2> QED BY <1>5, <1>6, <1>7, <2>7, <2>8, <2>9, DeletionsMoveOn
  <1>9. CASE log[n].kind # "worker"
    <2>1. PICK t \in Sites : t = log[n].id /\ site[t] \in SiteRecord /\ log[n].kind = "site"
      BY <1>4, <1>9
    <2>2. PICK d : d = [site[t] EXCEPT !.status = "archived"]
      OBVIOUS
    <2>3. site' = [site EXCEPT ![t] = d] /\ UNCHANGED worker
      BY <1>3, <1>9, <2>1, <2>2 DEF UndoSaveRecord
    <2>4. d.status = "archived"
      BY <2>1, <2>2 DEF SiteRecord
    <2>5. ~ SiteIs(t, "deleted")' /\ \A s \in Sites \ {t} : SiteIs(s, "deleted")' <=> SiteIs(s, "deleted")
      <3>1. site'[t] = d /\ \A s \in Sites \ {t} : site'[s] = site[s]
        BY <2>3 DEF ShapesInv, RecordsOK
      <3> QED BY <2>4, <3>1 DEF SiteIs
    <2>6. \A v \in Workers : (Deleted(v)' <=> Deleted(v)) /\ (OnRoster(v)' <=> OnRoster(v))
      BY <2>3 DEF Deleted, OnRoster
    <2>7. \A v \in Workers : Covered(v)'
      <3>1. \A v : KeptEntries("worker", v) \subseteq KeptEntries("worker", v)'
        BY <1>7, <1>9
      <3> QED BY <1>5, <1>6, <2>6, <3>1, CoveredStays DEF DeletionInv
    <2>8. \A s \in Sites : SiteCovered(s)'
      <3>1. \A s \in Sites \ {t} : KeptEntries("site", s) \subseteq KeptEntries("site", s)'
        BY <1>7, <2>1
      <3> QED BY <1>5, <1>6, <2>5, <3>1, SitesStayCovered DEF DeletionInv
    <2>9. \A v \in Workers : OnRoster(v)' => OnRoster(v)
      BY <2>6
    <2> QED BY <1>5, <1>6, <1>7, <2>7, <2>8, <2>9, DeletionsMoveOn
  <1> QED BY <1>8, <1>9

LEMMA UndoSaveEntryKeepsDeletions ==
    ASSUME ShapesInv, ShapesInv', DeletionInv, TwoAtOnce, TwoAtOnce', NEW r \in Requests, UndoSaveEntry(r)
    PROVE  DeletionInv'
  <1>1. /\ req[r].op = "undo" /\ req[r].phase = "saved" /\ UNCHANGED <<site, worker>>
        /\ req' = [req EXCEPT ![r] = Idle]
    BY DEF UndoSaveEntry, Finish
  <1>2. PICK n \in DOMAIN log : n = req[r].entry /\ log[n] \in RegisterEntry /\ req[r] # Idle
    BY <1>1, UndoHolds
  <1>3. log' = [log EXCEPT ![n].undone = TRUE]
    BY <1>2 DEF UndoSaveEntry
  <1>4. GoesTo(r, Idle)
    BY <1>1, <1>2 DEF GoesTo
  <1>5. /\ PromiseHeld(Idle) /\ Idle.op # "close" /\ \A e : ~ Settles(Idle, e)
        /\ \A v : ~ Promises(Idle, v) /\ ~ Undoes(Idle, log', v) /\ ~ Owes(req[r], v)
        /\ \A s : ~ Registering(req[r], s)
        /\ Settles(req[r], n)
    BY <1>1, <1>2 DEF Idle, PromiseHeld, Settles, Promises, Undoes, Owes, Registering
  <1>6. PICK d : d = [log[n] EXCEPT !.undone = TRUE]
    OBVIOUS
  <1>7. d \in RegisterEntry /\ d.kind = log[n].kind /\ d.id = log[n].id
    BY <1>2, <1>6 DEF RegisterEntry
  <1>8. DOMAIN log' = DOMAIN log /\ log'[n] = d /\ \A e \in DOMAIN log \ {n} : log'[e] = log[e]
    <2>1. log \in Seq(RegisterEntry) /\ Len(log) \in Nat /\ DOMAIN log = 1 .. Len(log)
      <3>1. log \in Seq(RegisterEntry)
        BY DEF ShapesInv, RecordsOK
      <3> QED BY <3>1
    <2>2. n \in 1 .. Len(log) /\ log' = [log EXCEPT ![n] = d]
      BY <1>3, <1>6, <2>1
    <2>3. /\ [log EXCEPT ![n] = d] \in Seq(RegisterEntry)
          /\ Len([log EXCEPT ![n] = d]) = Len(log)
          /\ \A i \in 1 .. Len(log) : [log EXCEPT ![n] = d][i] = IF i = n THEN d ELSE log[i]
      BY <1>7, <2>1, <2>2, ExceptSeq
    <2> QED BY <2>1, <2>2, <2>3
  <1>9. EntriesNamed
    BY <1>7, <1>8 DEF EntriesNamed
  <1>10. \A kind, id : KeptEntries(kind, id) \subseteq KeptEntries(kind, id)'
    BY <1>4, <1>5, <1>8, EntriesStay
  <1>11. \A v \in Workers : (Deleted(v)' <=> Deleted(v)) /\ (OnRoster(v)' <=> OnRoster(v))
    BY <1>1 DEF Deleted, OnRoster
  <1>12. \A v \in Workers : Covered(v)'
    BY <1>4, <1>5, <1>10, <1>11, CoveredStays DEF DeletionInv
  <1>13. \A s \in Sites : SiteCovered(s)'
    BY <1>1, <1>4, <1>5, <1>10, SitesStayCovered DEF DeletionInv, SiteIs
  <1> QED BY <1>4, <1>5, <1>9, <1>11, <1>12, <1>13, DeletionsMoveOn

DeletionNext == (Closing \/ Leaving \/ Undoing) /\ UNCHANGED ask

LEMMA DeletionInvStep ==
    ASSUME ShapesInv, DeletionInv, TwoAtOnce, TwoAtOnce', DeletionNext
    PROVE  ShapesInv' /\ DeletionInv'
  <1>1. ShapesInv'
    BY ShapesInvStep DEF DeletionNext, AnyStep
  <1>2. CASE Closing
    <2>1. PICK r \in Requests : (\E s \in Sites, to, fate \in Kinds : CloseSiteRead(r, s, to, fate)) \/ Cascade(r)
      BY <1>2 DEF Closing
    <2>2. CASE Cascade(r)
      <3>1. CASE CascadeFindWorkers(r) \/ CascadeFindSites(r) \/ CloseSite(r)
        BY <1>1, <3>1, CloseReadsKeepDeletions, CloseSiteKeepsDeletions
      <3>2. CASE \E w \in Workers : CascadeDetach(r, w) \/ CascadeLog(r, w) \/ CascadeLeave(r, w)
        BY <1>1, <3>2, DetachKeepsDeletions, LogKeepsDeletions, CascadeLeaveKeepsDeletions
      <3>3. CASE \E what \in {"stations", "scopes", "log"} : AfterClose(r, what)
        BY <1>1, <3>3, AfterCloseKeepsDeletions
      <3> QED BY <2>2, <3>1, <3>2, <3>3 DEF Cascade
    <2> QED BY <1>1, <2>1, <2>2, CloseReadsKeepDeletions
  <1>3. CASE Leaving
    BY <1>1, <1>3, LeaveReadKeepsDeletions, LeaveSaveKeepsDeletions, LeaveLogKeepsDeletions DEF Leaving
  <1>4. CASE Undoing
    BY <1>1, <1>4, UndoReadsKeepDeletions, UndoSaveRecordKeepsDeletions, UndoSaveEntryKeepsDeletions
      DEF Undoing, Undo
  <1> QED BY <1>1, <1>2, <1>3, <1>4 DEF DeletionNext

LEMMA DeletionInvStutters ==
    ASSUME DeletionInv, UNCHANGED allVars
    PROVE  DeletionInv'
  BY DEF DeletionInv, Covered, SiteCovered, KeptEntries, Owing, Promising, Deleted, SiteIs, OnRoster,
         PromiseHeld, HasRead, Settles, Undoes, Owes, Promises, Registering, allVars, vars

LEMMA DeletionInvInit ==
    ASSUME NEW S \in SUBSET Sites, S # {}, NEW W \in SUBSET Workers, NEW N \in SUBSET Names,
           NEW A, Opened({FirstBranch}, S, W, N, A)
    PROVE  DeletionInv
  <1>1. log = << >> /\ req = [r \in Requests |-> Idle]
    BY DEF Opened
  <1>2. /\ \A s \in Sites : site[s] # Null => site[s].status = "active"
        /\ \A w \in Workers : worker[w] # Null => worker[w].status = "active"
    <2>1. \E at, name : site = [s \in Sites |-> IF s \in S THEN NewSite(at[s], name[s]) ELSE Null]
      BY DEF Opened
    <2>2. \E ids : worker = [w \in Workers |-> IF w \in W
                                               THEN NewWorker("active", ids[w], site[ids[w][1]].name)
                                               ELSE Null]
      BY DEF Opened
    <2> QED BY <2>1, <2>2 DEF NewSite, NewWorker
  <1>3. \A w \in Workers : ~ Deleted(w)
    BY <1>2 DEF Deleted
  <1>4. \A s \in Sites : ~ SiteIs(s, "deleted")
    BY <1>2 DEF SiteIs
  <1>5. \A r \in Requests : /\ PromiseHeld(req[r])
                            /\ \A w : ~ Owes(req[r], w) /\ ~ Promises(req[r], w) /\ ~ Undoes(req[r], log, w)
    BY <1>1, NothingInHand
  <1>6. \A w \in Workers : Covered(w)
    <2> SUFFICES ASSUME NEW w \in Workers PROVE Covered(w)
      OBVIOUS
    <2>1. Owing(w) = {} /\ Promising(w) = {}
      BY <1>5 DEF Owing, Promising
    <2>2. KeptEntries("worker", w) = {}
      BY <1>1 DEF KeptEntries
    <2> QED BY <1>3, <2>1, <2>2, FS_EmptySet DEF Covered
  <1> QED BY <1>3, <1>4, <1>5, <1>6 DEF DeletionInv, SiteCovered

DeletedAreOnRegister ==
    /\ DeletedEmployeesAreOnRegister
    /\ \A s \in Sites : SiteIs(s, "deleted") => OnRegister("site", s)

LEMMA CoveredIsOnRegister ==
    ASSUME ShapesInv, DeletionInv, Quiet
    PROVE  DeletedAreOnRegister
  <1>1. \A r \in Requests : /\ \A w : ~ Owes(req[r], w) /\ ~ Promises(req[r], w)
                            /\ \A s : ~ Registering(req[r], s)
    BY NothingInHand DEF Quiet
  <1>2. ASSUME NEW w \in Workers, Deleted(w)
        PROVE  OnRegister("worker", w)
    <2>1. Covered(w) /\ Owing(w) = {} /\ Promising(w) = {}
      BY <1>1 DEF DeletionInv, Owing, Promising
    <2>2. KeptEntries("worker", w) # {}
      BY <1>2, <2>1, FS_EmptySet DEF Covered
    <2> QED BY <2>2 DEF KeptEntries, OnRegister
  <1>3. ASSUME NEW s \in Sites, SiteIs(s, "deleted")
        PROVE  OnRegister("site", s)
    <2>1. KeptEntries("site", s) # {}
      BY <1>1, <1>3 DEF DeletionInv, SiteCovered
    <2> QED BY <2>1 DEF KeptEntries, OnRegister
  <1> QED BY <1>2, <1>3 DEF DeletedAreOnRegister, DeletedEmployeesAreOnRegister, Deleted

\* Any office, with any number of sites and employees, in which employees and sites are
\* deleted and restored side by side.
DeletionSpec ==
    /\ \E S \in SUBSET Sites, W \in SUBSET Workers, A \in SUBSET Sites :
          S # {} /\ Opened({FirstBranch}, S, W, Names, A)
    /\ ask = [a \in Asks |-> Null]
    /\ [][DeletionNext]_allVars

\* Whoever and whatever is deleted can be undone from the register (deletionlog.ts:17),
\* whenever no request is in flight, as long as no three were at once: a cascade that
\* registers an employee (org.ts:55), deletions by hand (workers.ts:614) and undos of the
\* same record may interleave in any order.
THEOREM DeletionsAreRegistered ==
    DeletionSpec /\ []TwoAtOnce => [](Quiet => DeletedAreOnRegister)
  <1>1. (\E S \in SUBSET Sites, W \in SUBSET Workers, A \in SUBSET Sites :
            S # {} /\ Opened({FirstBranch}, S, W, Names, A)) /\ ask = [a \in Asks |-> Null]
        => ShapesInv /\ DeletionInv
    BY ShapesInvInit, DeletionInvInit
  <1>2. ShapesInv /\ DeletionInv /\ TwoAtOnce /\ TwoAtOnce' /\ [DeletionNext]_allVars => (ShapesInv /\ DeletionInv)'
    BY DeletionInvStep, DeletionInvStutters, ShapesInvStutters
  <1>3. ShapesInv /\ DeletionInv => (Quiet => DeletedAreOnRegister)
    BY CoveredIsOnRegister
  <1> QED BY <1>1, <1>2, <1>3, PTL DEF DeletionSpec

LEMMA DeletionsOfTheRun ==
    MCSpec /\ [](scenario = "deletions" => TwoAtOnce) => [](scenario = "deletions" => DeletionInv)
  <1>1. MCInit => (scenario = "deletions" => DeletionInv)
    <2> SUFFICES ASSUME MCInit, scenario = "deletions" PROVE DeletionInv
      OBVIOUS
    <2>1. PICK S \in kSubset(1, Sites), W \in kSubset(1, Workers) : Opened({FirstBranch}, S, W, {DefaultName}, {})
      BY DEF MCInit, OpenedWith
    <2>2. S \in SUBSET Sites /\ S # {} /\ W \in SUBSET Workers
      BY FS_EmptySet DEF kSubset
    <2> QED BY <2>1, <2>2, DeletionInvInit, OfficeAssumption
  <1>2. /\ ShapesInv
        /\ (scenario = "deletions" => TwoAtOnce) /\ (scenario = "deletions" => TwoAtOnce)'
        /\ (scenario = "deletions" => DeletionInv) /\ [MCNext]_mcVars
        => (scenario = "deletions" => DeletionInv)'
    <2> SUFFICES ASSUME ShapesInv, scenario = "deletions" => TwoAtOnce, scenario' = "deletions" => TwoAtOnce',
                        scenario = "deletions" => DeletionInv, [MCNext]_mcVars, scenario' = "deletions"
                 PROVE  DeletionInv'
      OBVIOUS
    <2>1. CASE UNCHANGED mcVars
      BY <2>1, DeletionInvStutters DEF mcVars
    <2>2. CASE MCNext
      <3>1. scenario = "deletions" /\ DeletionNext
        BY <2>2 DEF MCNext, Closings, Deletions, Answers, Office, DeletionNext
      <3> QED BY <3>1, DeletionInvStep
    <2> QED BY <2>1, <2>2
  <1> QED BY <1>1, <1>2, ShapesOfTheRun, PTL DEF MCSpec

\* What is deleted in the run is on the register: closings and crashes at any moment,
\* deletions and undos of one record whenever none is in flight (org.ts:55, deletionlog.ts:17).
THEOREM DeletedOfTheRunAreOnRegister ==
    MCSpec /\ [](scenario = "deletions" => TwoAtOnce)
      => [](DeletedIsOnRegister /\ (scenario = "closings" => DeletedEmployeesAreOnRegister))
  <1>1. (scenario = "closings" => ClosingInv) /\ ShapesInv /\ (scenario = "deletions" => DeletionInv)
        => DeletedIsOnRegister /\ (scenario = "closings" => DeletedEmployeesAreOnRegister)
    BY CoveredIsOnRegister DEF DeletedIsOnRegister, DeletedAreOnRegister, ClosingInv
  <1> QED BY <1>1, ClosingsInvariant, ShapesOfTheRun, DeletionsOfTheRun, PTL

\* No more than two requests, as in the run: nothing else is assumed.
THEOREM TwoRequestsKeepTheRegister == Cardinality(Requests) <= 2 => (MCSpec => []DeletedIsOnRegister)
  <1> SUFFICES ASSUME Cardinality(Requests) <= 2
               PROVE  MCSpec => []DeletedIsOnRegister
    OBVIOUS
  <1>1. TwoAtOnce
    <2> SUFFICES ASSUME NEW p \in Requests, NEW q \in Requests, NEW r \in Requests, p # q, q # r, p # r
                 PROVE  FALSE
      BY DEF TwoAtOnce
    <2>1. IsFiniteSet({p}) /\ Cardinality({p}) = 1
      BY FS_Singleton
    <2>2. IsFiniteSet({p} \union {q}) /\ Cardinality({p} \union {q}) = 2
      BY <2>1, FS_AddElement
    <2>3. IsFiniteSet({p} \union {q} \union {r}) /\ Cardinality({p} \union {q} \union {r}) = 3
      BY <2>2, FS_AddElement
    <2>4. {p} \union {q} \union {r} \in SUBSET Requests
      OBVIOUS
    <2>5. Cardinality({p} \union {q} \union {r}) <= Cardinality(Requests)
      BY <2>4, OfficeAssumption, FS_Subset
    <2>6. Cardinality(Requests) \in Nat
      BY OfficeAssumption, FS_CardinalityType
    <2> QED BY <2>3, <2>5, <2>6
  <1>2. scenario = "deletions" => TwoAtOnce
    BY <1>1
  <1> QED BY <1>2, DeletedOfTheRunAreOnRegister, PTL

=============================================================================
