-------------------------- MODULE AttendanceRecord --------------------------
(***************************************************************************)
(* One document of the attendance collection and what each handler does to *)
(* it between reading and saving it (models/Attendance.ts,                 *)
(* lib/attendance.ts, routes/regularization.ts, routes/overtime.ts).       *)
(*                                                                         *)
(* The fields kept are those some handler reads or payroll uses.  The      *)
(* names, geo captures and the audit fields no handler reads (source,      *)
(* markedBy, outSource, corrections, verified*, notes) are left out; the   *)
(* By/At stamps of the day's approval chain are the set "stamps", and a    *)
(* punch of the session log is only "open" or "closed".                    *)
(***************************************************************************)
EXTENDS AttendanceTime, Sequences

CONSTANTS
    Sites,
    Null        \* an absent value, or an absent document

AttendanceStatus == {"scanned", "submitted", "recommended", "approved", "rejected"}
OvertimeStatus   == {"none", "pending", "recommended", "approved", "rejected"}
Stamp            == {"submitted", "recommended", "decided"}

Optional(S) == S \cup {Null}

Overtime == [computedHours : Nat,
             status        : OvertimeStatus,
             approvedHours : Optional(Nat)]

Record == [site             : Sites,
           inTime           : Nat,
           outTime          : Optional(Nat),
           shiftType        : ShiftType,
           totalHours       : Optional(Nat),
           standardHours    : Optional(Nat),
           breakHours       : Optional(Nat),
           overtime         : Overtime,
           attendanceStatus : AttendanceStatus,
           stamps           : SUBSET Stamp,
           sessions         : Seq({"open", "closed"}),
           voided           : BOOLEAN]

ASSUME NullAssumption ==
    /\ Null \notin Nat
    /\ Null \notin Record

NoOvertime == [computedHours |-> 0, status |-> "none", approvedHours |-> Null]

IsOpen(r) == r.outTime = Null

-----------------------------------------------------------------------------
(* The session log. *)

HasOpenPunch(sessions) ==
    sessions # << >> /\ sessions[Len(sessions)] = "open"

ClosePunch(sessions) ==
    IF HasOpenPunch(sessions)
    THEN [sessions EXCEPT ![Len(sessions)] = "closed"]
    ELSE sessions

-----------------------------------------------------------------------------
(* Scans. *)

\* The first IN of a day.
NewScan(site, shiftType, now) ==
    [site             |-> site,
     inTime           |-> now,
     outTime          |-> Null,
     shiftType        |-> shiftType,
     totalHours       |-> Null,
     standardHours    |-> Null,
     breakHours       |-> Null,
     overtime         |-> NoOvertime,
     attendanceStatus |-> "scanned",
     stamps           |-> {},
     sessions         |-> <<"open">>,
     voided           |-> FALSE]

\* Faulty variant: overtime that vanishes stays in the queue.
WithHoursKeepingStatus(r, outTime, lunch) ==
    LET h == ReckonHours(r.inTime, outTime, lunch)
    IN  [r EXCEPT !.outTime = outTime,
                  !.totalHours = h.total,
                  !.standardHours = h.standard,
                  !.breakHours = lunch,
                  !.overtime.computedHours = h.overtime,
                  !.overtime.status = IF h.overtime > 0 THEN "pending" ELSE @]

\* The hours an OUT gives a record; overtime is pending again, whatever it was.
WithHours(r, outTime, lunch) ==
    LET h == ReckonHours(r.inTime, outTime, lunch)
    IN  [r EXCEPT !.outTime = outTime,
                  !.totalHours = h.total,
                  !.standardHours = h.standard,
                  !.breakHours = lunch,
                  !.overtime.computedHours = h.overtime,
                  !.overtime.status = IF h.overtime > 0 THEN "pending" ELSE "none"]

\* Faulty variants: the stamps of the undone submission stay; no punch is logged.
ReopenSessionKeepingStamps(r) ==
    [r EXCEPT !.outTime = Null,
              !.totalHours = Null,
              !.standardHours = Null,
              !.breakHours = Null,
              !.overtime = NoOvertime,
              !.attendanceStatus = "scanned",
              !.sessions = Append(@, "open")]

ReopenSessionUnlogged(r) ==
    [r EXCEPT !.outTime = Null,
              !.totalHours = Null,
              !.standardHours = Null,
              !.breakHours = Null,
              !.overtime = NoOvertime,
              !.attendanceStatus = "scanned",
              !.stamps = {}]

\* The worker came back: the first In stays, the Out and its hours go.
ReopenSession(r) ==
    [r EXCEPT !.outTime = Null,
              !.totalHours = Null,
              !.standardHours = Null,
              !.breakHours = Null,
              !.overtime = NoOvertime,
              !.attendanceStatus = "scanned",
              !.stamps = IF r.attendanceStatus = "scanned" THEN @ ELSE {},
              !.sessions = Append(@, "open")]

\* A scanned OUT: the overtime sub-document is replaced as a whole.
CloseSession(r, now, lunch) ==
    [WithHours(r, now, lunch) EXCEPT !.overtime.approvedHours = Null,
                                     !.sessions = ClosePunch(@)]

\* A typed OUT: only the computed hours and the status of the overtime are set.
FillOut(r, outTime, lunch) ==
    [WithHours(r, outTime, lunch) EXCEPT !.sessions = ClosePunch(@)]

-----------------------------------------------------------------------------
(* The approval chain and HR's corrections. *)

Submit(r) ==
    [r EXCEPT !.attendanceStatus = "submitted", !.stamps = @ \cup {"submitted"}]

ReRecommend(r) ==
    [r EXCEPT !.attendanceStatus = "recommended", !.stamps = @ \cup {"recommended"}]

ApproveDay(r) ==
    [r EXCEPT !.attendanceStatus = "approved", !.stamps = @ \cup {"decided"}]

Reject(r) ==
    [r EXCEPT !.attendanceStatus = "rejected",
              !.stamps = @ \cup {"decided"},
              !.overtime.status =
                  IF r.overtime.computedHours > 0 THEN "rejected" ELSE @]

\* Faulty variant: hours once computed are never computed again.
RecomputeOnce(r, lunch) ==
    IF IsOpen(r) \/ r.totalHours # Null THEN r ELSE WithHours(r, r.outTime, lunch)

\* Hours are recomputed only once both times are there.
Recompute(r, lunch) == IF IsOpen(r) THEN r ELSE WithHours(r, r.outTime, lunch)

\* The In, Out and shift as HR typed them.
Edited(r, in, out, shift) ==
    [r EXCEPT !.inTime = in, !.outTime = out, !.shiftType = shift]

\* Faulty variant: the In goes through the conversion of the OUT.
CorrectRollingIn(r, date, inHM, outHM, shiftType, lunch) ==
    LET in    == IF inHM = Null THEN r.inTime ELSE IstOutDateTime(date, inHM, r.inTime)
        out   == IF outHM = Null THEN r.outTime ELSE IstOutDateTime(date, outHM, in)
        shift == IF shiftType = Null THEN r.shiftType ELSE shiftType
    IN  ReRecommend(Recompute(Edited(r, in, out, shift), lunch))

\* HR's edit of one record; a Null input is a field left blank.
Correct(r, date, inHM, outHM, shiftType, lunch) ==
    LET in    == IF inHM = Null THEN r.inTime ELSE IstDateTime(date, inHM)
        out   == IF outHM = Null THEN r.outTime ELSE IstOutDateTime(date, outHM, in)
        shift == IF shiftType = Null THEN r.shiftType ELSE shiftType
    IN  ReRecommend(Recompute(Edited(r, in, out, shift), lunch))

\* A day HR adds for a worker who never scanned: no punch is logged.
ManualDay(site, date, inHM, outHM, shiftType, lunch) ==
    LET day == [NewScan(site, shiftType, IstDateTime(date, inHM))
                   EXCEPT !.sessions = << >>]
    IN  ReRecommend(IF outHM = Null THEN day
                    ELSE WithHours(day, IstOutDateTime(date, outHM, day.inTime), lunch))

-----------------------------------------------------------------------------
(* Overtime decisions. *)

\* Faulty variant: a rejection can be reversed.
OvertimeUnapproved(r) == r.overtime.status \notin {"none", "approved"}

OvertimeUndecided(r) == r.overtime.status \in {"pending", "recommended"}

\* What the form's approvedHours field can hold: a number of hours, a cleared
\* input (the empty string), or nothing that reads as a number of hours.
OvertimeEntry == [kind : {"hours", "blank", "text"}, hours : Nat]

\* Number(body.approvedHours): the empty string converts to 0.
NumberOf(entry) ==
    CASE entry.kind = "hours" -> entry.hours
      [] entry.kind = "blank" -> 0
      [] entry.kind = "text"  -> Null

ApproveOvertime(r, entry) ==
    LET computed == r.overtime.computedHours
        raw      == NumberOf(entry)
    IN  [r EXCEPT !.overtime.status = "approved",
                  !.overtime.approvedHours =
                      IF raw = Null THEN computed ELSE Lesser(raw, computed)]

RejectOvertime(r) ==
    [r EXCEPT !.overtime.status = "rejected", !.overtime.approvedHours = 0]

\* Approving a day approves its undecided overtime, and leaves approvedHours alone.
SubsumeOvertime(r) ==
    IF /\ r.attendanceStatus = "approved"
       /\ r.overtime.computedHours > 0
       /\ OvertimeUndecided(r)
    THEN [r EXCEPT !.overtime.status = "approved"]
    ELSE r

\* The overtime hours payroll pays for a record (OT_REQUIRES_APPROVAL = true).
PaidOvertime(r) ==
    IF r.voided \/ r.attendanceStatus = "rejected" \/ IsOpen(r)
       \/ r.overtime.status # "approved"
    THEN 0
    ELSE IF r.overtime.approvedHours = Null
    THEN AtLeastZero(AtLeastZero(r.outTime - r.inTime - r.breakHours) - StandardHours)
    ELSE r.overtime.approvedHours

-----------------------------------------------------------------------------
(* What the payslip pays and what the reports show of a closed day. *)

PaidDay(r) ==
    LET total == AtLeastZero(AtLeastZero(r.outTime - r.inTime) - r.breakHours)
    IN  [total    |-> total,
         normal   |-> Lesser(total, StandardHours),
         overtime |-> PaidOvertime(r)]

\* Faulty variant: what is shown as worked is not capped at the standard day.
HoursBreakdownUncapped(r) ==
    [standard  |-> r.totalHours,
     otCounted |-> IF r.overtime.status # "approved" THEN 0
                   ELSE IF r.overtime.approvedHours = Null THEN r.overtime.computedHours
                   ELSE r.overtime.approvedHours]

HoursBreakdown(r) ==
    [standard  |-> Lesser(r.totalHours, r.standardHours),
     otCounted |-> IF r.overtime.status # "approved" THEN 0
                   ELSE IF r.overtime.approvedHours = Null THEN r.overtime.computedHours
                   ELSE r.overtime.approvedHours]

=============================================================================
