---------------------------- MODULE ApprovalGate ----------------------------
(***************************************************************************)
(* What the approval chain promises about one record, seen only through    *)
(* its day status, its overtime hours and the decision on that overtime:   *)
(*   - a day becomes approved only from recommended;                       *)
(*   - whatever changes the overtime hours puts the decision back to       *)
(*     undecided, and no decision is taken together with a change;         *)
(*   - overtime is approved only from undecided overtime.                  *)
(* Any number of records may move in one step: the chain works in batches. *)
(***************************************************************************)
EXTENDS Naturals

CONSTANT Id

VARIABLES
    day,    \* "absent", or the record's attendanceStatus
    hours,  \* its computed overtime
    ot      \* the decision on that overtime

vars == <<day, hours, ot>>

Undecided(h) == IF h > 0 THEN "pending" ELSE "none"

Init ==
    /\ day = [i \in Id |-> "absent"]
    /\ hours = [i \in Id |-> 0]
    /\ ot = [i \in Id |-> "none"]

Same(i) == day'[i] = day[i] /\ hours'[i] = hours[i] /\ ot'[i] = ot[i]

\* Overtime (re)computed by a scan, a typed OUT or a correction.
Rework(i) ==
    /\ ot'[i] = Undecided(hours'[i])
    /\ \/ day'[i] = day[i]
       \/ day'[i] \in {"scanned", "recommended"}
       \/ day[i] = "scanned" /\ day'[i] = "submitted"

\* One step of the chain that leaves the overtime alone.
Advance(i) ==
    /\ hours'[i] = hours[i] /\ ot'[i] = ot[i]
    /\ \/ day[i] = "scanned" /\ day'[i] = "submitted"
       \/ day[i] # "absent" /\ day'[i] = "recommended"

\* Approval of the day, which takes the undecided overtime with it.
ApproveDay(i) ==
    /\ day[i] = "recommended" /\ day'[i] = "approved"
    /\ hours'[i] = hours[i]
    /\ ot'[i] = IF ot[i] \in {"pending", "recommended"} THEN "approved" ELSE ot[i]

RejectDay(i) ==
    /\ day[i] # "absent" /\ day'[i] = "rejected"
    /\ hours'[i] = hours[i]
    /\ ot'[i] = IF hours[i] > 0 THEN "rejected" ELSE ot[i]

\* A decision on the overtime alone.
Decide(i) ==
    /\ day'[i] = day[i] /\ hours'[i] = hours[i]
    /\ \/ ot[i] = "pending" /\ ot'[i] = "recommended"
       \/ ot[i] \in {"pending", "recommended"} /\ ot'[i] \in {"approved", "rejected"}

Next ==
    \A i \in Id : \/ Same(i)
                  \/ Rework(i)
                  \/ Advance(i)
                  \/ ApproveDay(i)
                  \/ RejectDay(i)
                  \/ Decide(i)

Spec == Init /\ [][Next]_vars

=============================================================================
