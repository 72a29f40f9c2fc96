------------------------ MODULE AttendanceProperties ------------------------
(***************************************************************************)
(* What the attendance core must guarantee, for its model-checking runs    *)
(* and its proofs.                                                         *)
(***************************************************************************)
EXTENDS Attendance

-----------------------------------------------------------------------------
(* One record at a time. *)

OnItsDay(r, date) == SiteLocalDate(r.inTime) = date

HoursMatch(r) ==
    IF IsOpen(r)
    THEN /\ r.totalHours = Null /\ r.standardHours = Null
         /\ r.breakHours = Null /\ r.overtime = NoOvertime
    ELSE /\ r.breakHours # Null
         /\ [total    |-> r.totalHours,
             standard |-> r.standardHours,
             overtime |-> r.overtime.computedHours]
               = ReckonHours(r.inTime, r.outTime, r.breakHours)

OvertimeQueued(r) == r.overtime.status = "none" <=> r.overtime.computedHours = 0

StampsFollow(r) ==
    /\ r.attendanceStatus = "scanned" => r.stamps = {}
    /\ r.attendanceStatus \in {"submitted", "recommended"}
         => r.attendanceStatus \in r.stamps
    /\ r.attendanceStatus \in {"approved", "rejected"} => "decided" \in r.stamps

PunchLogged(r) == IsOpen(r) /\ r.sessions # << >> => HasOpenPunch(r.sessions)

-----------------------------------------------------------------------------
(* The collections. *)

\* The payslip and the reports agree on every day that is paid: the hours shown as
\* standard and as counted overtime are those paid, whatever decisions, re-openings
\* and corrections the day went through (payroll.ts:74, report.ts:90).
PaidAsShown ==
    \A k \in Key :
        Exists(k) /\ ~ IsOpen(att[k]) /\ ~ att[k].voided /\ att[k].attendanceStatus # "rejected" =>
            /\ HoursBreakdown(att[k]).standard = PaidDay(att[k]).normal
            /\ HoursBreakdown(att[k]).otCounted = PaidDay(att[k]).overtime

\* A record's In time falls on the day the record is keyed by; scans, corrections and
\* manual days all choose In times.
InTimeOnItsDay == \A k \in Key : Exists(k) => OnItsDay(att[k], k[2])

\* An OUT that is typed, and so is no more than a time of day, lies after the In and within
\* a day of it, whoever types it, however late, and whatever was done to the In before
\* (lib/time.ts:27).  An OUT at the very moment may be a scan, which is free to precede an
\* In that HR has typed for later in the day.
TypedOutFollowsIn ==
    [][\A k \in Key :
          LET r == att'[k]
          IN  /\ r # Null /\ ~ IsOpen(r) /\ r.outTime # now
              /\ att[k] # Null => att[k].outTime # r.outTime
              => r.outTime - r.inTime \in 1 .. TicksPerDay]_vars

\* One reckoning of a day: a closed record carries exactly the hours its In, Out
\* and lunch give; an open one carries none and no overtime, so the approval
\* screen, the dashboard and the payslip cannot disagree (reckonHours).
HoursMatchTimes == \A k \in Key : Exists(k) => HoursMatch(att[k])

\* Overtime is waiting for, or has had, a decision exactly when there is some:
\* no overtime escapes the queue and no empty overtime is ever decided.
OvertimeQueuedIffEarned == \A k \in Key : Exists(k) => OvertimeQueued(att[k])

\* The audit stamps agree with the status: a day pulled back to scanned keeps no
\* stamp of the submission or decision it undoes (reopenSession's comment), and
\* every later status carries the stamp of the step that led to it.
StampsFollowStatus == \A k \in Key : Exists(k) => StampsFollow(att[k])

\* A worker who is clocked in by a scan always has an open punch in the session
\* log for the OUT to close (closeSession and fillOut close the last punch only).
OpenDayHasOpenPunch == \A k \in Key : Exists(k) => PunchLogged(att[k])

\* The flags queue reflects reality: an unresolved missed_clockout flag points at
\* a record that still has no OUT and was not voided (lib/flagResolve.ts).
MissedFlagIsReal ==
    \A k \in Key :
        missed[k] = "open" => Exists(k) /\ IsOpen(att[k]) /\ ~ att[k].voided

\* An unresolved forgot_submit flag points at a site-day that still has a
\* non-voided record nobody submitted (resolveForgotSubmit).
ForgotFlagIsReal ==
    \A sd \in SiteDay : forgot[sd] = "open" => Unsubmitted(att, sd) # {}

-----------------------------------------------------------------------------
(* The records implement the approval gate. *)

Gate == INSTANCE ApprovalGate WITH
            Id    <- Key,
            day   <- [k \in Key |-> IF Exists(k) THEN att[k].attendanceStatus ELSE "absent"],
            hours <- [k \in Key |-> IF Exists(k) THEN att[k].overtime.computedHours ELSE 0],
            ot    <- [k \in Key |-> IF Exists(k) THEN att[k].overtime.status ELSE "none"]

\* Every scan, correction, batch approval and overtime decision respects the gate
\* of the approval chain: Management decides on the hours as they stand, and any
\* change of the hours reopens the decision.
ImplementsGate == Gate!Spec

-----------------------------------------------------------------------------
(* Liveness of the sweeps. *)

\* A record forgotten open is eventually flagged, unless somebody closes or voids
\* it first: the daily timer keeps sweeping (lib/scheduler.ts).
ForgottenOutIsNoticed ==
    \A k \in Key : Overdue(k) ~> (missed[k] # "none" \/ ~ Overdue(k))

\* A past day nobody submitted is eventually flagged or submitted.
ForgottenSubmitIsNoticed ==
    \A sd \in SiteDay :
        (sd[2] < SiteLocalDate(now) /\ Unsubmitted(att, sd) # {})
            ~> (forgot[sd] # "none" \/ Unsubmitted(att, sd) = {})

-----------------------------------------------------------------------------
(* Statements of the code's own comments and documents that the code breaks. *)

\* Overtime is paid for hours that were worked: "Approve up to the computed OT,
\* never more than was actually worked" (routes/overtime.ts).
PaidOvertimeWasWorked ==
    \A k \in Key :
        Exists(k) => PaidOvertime(att[k]) <= att[k].overtime.computedHours

\* The sweep "raises a missed_clockout flag for any record left open" (README): a
\* record left open past its shift gets onto the flags queue, unless somebody
\* closes it first.
SweepFlagsEveryOverdue ==
    \A k \in Key : Overdue(k) ~> (missed[k] = "open" \/ ~ Overdue(k))

=============================================================================
