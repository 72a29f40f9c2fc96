--------------------------- MODULE WorkerRequests ---------------------------
(***************************************************************************)
(* Scheduled-overtime requests and offload suggestions about an employee   *)
(* (routes/requests.ts): raised, recommended, decided, and the effect an   *)
(* approved offload has on the employee's record, beside the handlers that *)
(* change the same record.                                                 *)
(***************************************************************************)
EXTENDS Roster

CONSTANT Asks    \* request documents

VARIABLE ask     \* Null, or [type, status, worker, site, recommended]

allVars == <<vars, ask>>

Decided == {"approved", "rejected"}

NewAsk(type, w) ==
    [type |-> type, status |-> "pending", worker |-> w, site |-> SiteId(w), recommended |-> FALSE]

\* The employee's primary site is copied onto the request, and scopes it from then on.
CreateAsk(u, a, type, w) ==
    /\ ask[a] = Null
    /\ CanUseWorker(u, w)
    /\ type = "scheduled_ot" => u # TopUser
    /\ ask' = [ask EXCEPT ![a] = NewAsk(type, w)]
    /\ UNCHANGED vars

RecommendRead(r, u, a) ==
    /\ ask[a] # Null /\ CanUseSite(u, ask[a].site) /\ ask[a].status = "pending"
    /\ Start(r, [op |-> "recommend", ask |-> a])
    /\ UNCHANGED <<branch, site, worker, station, scope, log, stale, ask>>

RecommendSave(r) ==
    /\ req[r].op = "recommend"
    /\ ask' = [ask EXCEPT ![req[r].ask].status = "recommended", ![req[r].ask].recommended = TRUE]
    /\ Finish(r)
    /\ UNCHANGED <<branch, site, worker, station, scope, log>>

\* HR and Management decide from pending too; the recommendation is optional.
DecideRead(r, a, outcome) ==
    /\ ask[a] # Null /\ ask[a].status \in {"pending", "recommended"}
    /\ Start(r, [op |-> "decide", ask |-> a, outcome |-> outcome, saved |-> FALSE])
    /\ UNCHANGED <<branch, site, worker, station, scope, log, stale, ask>>

\* Faulty variant: an offload takes effect only when a Project Manager recommended it.
DeactivatesRecommended(a, outcome) ==
    outcome = "approved" /\ ask[a].type = "offload" /\ ask[a].recommended

Deactivates(a, outcome) == outcome = "approved" /\ ask[a].type = "offload"

DecideSave(r) ==
    LET q == req[r] IN
    /\ q.op = "decide" /\ ~q.saved
    /\ ask' = [ask EXCEPT ![q.ask].status = q.outcome]
    /\ IF Deactivates(q.ask, q.outcome)
       THEN Continue(r, [q EXCEPT !.saved = TRUE]) /\ UNCHANGED stale
       ELSE Finish(r)
    /\ UNCHANGED <<branch, site, worker, station, scope, log>>

\* The status is set by an update of its own, whatever the employee's status is by then.
Offload(r) ==
    LET q == req[r] IN
    /\ q.op = "decide" /\ q.saved
    /\ worker' = [worker EXCEPT ![ask[q.ask].worker].status = "inactive"]
    /\ Finish(r)
    /\ UNCHANGED <<branch, site, station, scope, log, ask>>

Asking == \E r \in Requests, a \in Asks :
    \/ \E u \in Actors :
          \/ \E type \in {"scheduled_ot", "offload"}, w \in Workers : CreateAsk(u, a, type, w)
          \/ RecommendRead(r, u, a)
    \/ \E outcome \in Decided : DecideRead(r, a, outcome)

Answering(r) == RecommendSave(r) \/ DecideSave(r) \/ Offload(r)

=============================================================================
