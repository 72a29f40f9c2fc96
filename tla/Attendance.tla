----------------------------- MODULE Attendance -----------------------------
(***************************************************************************)
(* The attendance core: one record per worker and day, the approval chain  *)
(* of a site-day, the overtime decisions, and the two kinds of flags the   *)
(* sweeps raise and the fixes resolve.  Every action is one whole request  *)
(* (or one whole sweep) that no other request interrupts.                  *)
(***************************************************************************)
EXTENDS AttendanceRecord, FiniteSets

CONSTANTS
    Workers,
    LastDate,       \* bound: attendance is recorded for days 0 .. LastDate
    LastTick,       \* bound: the clock stops here, possibly days later
    MaxPunches,     \* bound: punches in one day's session log
    TypedTimes,     \* bound: the times of day typed into forms
    TypedShifts,    \* bound: the shift types picked in forms
    TypedHours,     \* bound: the overtime hours typed into the approval form
    SitesOf,        \* worker.siteIds
    Shifts,         \* site.shifts
    LunchHours,     \* site.lunchHours
    MaxShiftHours,  \* site.maxShiftHours, else config.maxShiftHours
    GraceHours      \* site.forgotGraceHours, else config.forgotGraceHours

Dates == 0 .. LastDate

ASSUME AttendanceAssumption ==
    /\ LastDate \in Nat
    /\ LastTick \in Nat
    /\ MaxPunches \in Nat
    /\ TypedTimes \subseteq TimeOfDay
    /\ TypedShifts \subseteq ShiftType
    /\ TypedHours \subseteq Nat
    /\ SitesOf \in [Workers -> SUBSET Sites]
    /\ Shifts \in [Sites -> SiteShifts]
    /\ LunchHours \in [Sites -> Nat]
    /\ MaxShiftHours \in [Sites -> Nat]
    /\ GraceHours \in [Sites -> Nat]

VARIABLES
    now,        \* the clock
    att,        \* the attendance collection, by worker and day (unique index)
    missed,     \* missed_clockout flags, by attendance record (unique index)
    forgot      \* forgot_submit flags, by site and day (unique index)

vars == <<now, att, missed, forgot>>

Key       == Workers \X Dates
SiteDay   == Sites \X Dates
FlagState == {"none", "open", "resolved"}

TypeOK ==
    /\ now \in 0 .. LastTick
    /\ att \in [Key -> Optional(Record)]
    /\ missed \in [Key -> FlagState]
    /\ forgot \in [SiteDay -> FlagState]

Init ==
    /\ now = 0
    /\ att = [k \in Key |-> Null]
    /\ missed = [k \in Key |-> "none"]
    /\ forgot = [d \in SiteDay |-> "none"]

-----------------------------------------------------------------------------
(* Queries. *)

Exists(k) == att[k] # Null

OnSiteDay(k, sd) == Exists(k) /\ att[k].site = sd[1] /\ k[2] = sd[2]

HasStatus(k, status) == Exists(k) /\ att[k].attendanceStatus = status

ScannedOn(sd) == {k \in Key : OnSiteDay(k, sd) /\ HasStatus(k, "scanned")}

\* The non-voided records of a site-day nobody has submitted.
Unsubmitted(records, sd) ==
    {k \in Key : /\ records[k] # Null
                 /\ records[k].site = sd[1] /\ k[2] = sd[2]
                 /\ records[k].attendanceStatus = "scanned"
                 /\ ~ records[k].voided}

\* The open sessions an OUT of the worker at the site can still attach to.
OpenSessions(w, s) ==
    {k \in Key : /\ k[1] = w
                 /\ Exists(k)
                 /\ IsOpen(att[k])
                 /\ att[k].inTime >= now - MaxShiftHours[s]}

\* Faulty variant: closed records are swept too.
OverdueEvenClosed(k) ==
    /\ Exists(k)
    /\ ~ att[k].voided
    /\ k[2] <= SiteLocalDate(now)
    /\ now > att[k].inTime + WindowHours(Shifts[att[k].site][att[k].shiftType])
                 + GraceHours[att[k].site]

\* A record left open past the end of its shift and the grace.
Overdue(k) ==
    /\ Exists(k)
    /\ IsOpen(att[k])
    /\ ~ att[k].voided
    /\ k[2] <= SiteLocalDate(now)
    /\ now > att[k].inTime + WindowHours(Shifts[att[k].site][att[k].shiftType])
                 + GraceHours[att[k].site]

-----------------------------------------------------------------------------
(* Close-the-loop flag resolution. *)

Resolved(flags, ids) ==
    [f \in DOMAIN flags |-> IF f \in ids /\ flags[f] = "open"
                            THEN "resolved" ELSE flags[f]]

ResolveMissedClockout(ids) == missed' = Resolved(missed, ids)

\* Faulty variant: the remaining records are counted before the save.
ResolveForgotSubmitBeforeSave(sd) ==
    forgot' = IF Unsubmitted(att, sd) = {} THEN Resolved(forgot, {sd}) ELSE forgot

\* Only once no unsubmitted record remains for the site-day.
ResolveForgotSubmit(sd) ==
    forgot' = IF Unsubmitted(att', sd) = {} THEN Resolved(forgot, {sd}) ELSE forgot

-----------------------------------------------------------------------------
(* Scans (kiosk and in-session). *)

\* The key of the worker's record of today.
Today(w) == <<w, SiteLocalDate(now)>>

\* IN: only today's record is looked at.
ScanIn(w, s) ==
    LET k == Today(w)
    IN  /\ s \in SitesOf[w]
        /\ k \in Key
        /\ \/ /\ ~ Exists(k)
              /\ att' = [att EXCEPT ![k] = NewScan(s, SelectShift(Shifts[s], now), now)]
           \/ /\ Exists(k)
              /\ ~ IsOpen(att[k])
              /\ Len(att[k].sessions) < MaxPunches
              /\ att' = [att EXCEPT ![k] = ReopenSession(@)]
        /\ UNCHANGED <<now, missed, forgot>>

\* OUT: the newest open session within the shift cap, with the scanning site's lunch.
ScanOut(w, s) ==
    /\ s \in SitesOf[w]
    /\ \E k \in OpenSessions(w, s) :
          /\ \A j \in OpenSessions(w, s) : att[j].inTime <= att[k].inTime
          /\ att' = [att EXCEPT ![k] = CloseSession(@, now, LunchHours[s])]
          /\ ResolveMissedClockout({k})
    /\ UNCHANGED <<now, forgot>>

-----------------------------------------------------------------------------
(* The supervisor's submit, with the OUT times filled in for open records. *)

Submitted(sd, k, outHM) ==
    LET r == att[k]
    IN  Submit(IF IsOpen(r) /\ outHM # Null
               THEN FillOut(r, IstOutDateTime(sd[2], outHM, r.inTime), LunchHours[sd[1]])
               ELSE r)

SubmitDay(sd) ==
    \E fill \in [Workers -> Optional(TypedTimes)] :
        /\ att' = [k \in Key |-> IF k \in ScannedOn(sd)
                                 THEN Submitted(sd, k, fill[k[1]]) ELSE att[k]]
        /\ ResolveMissedClockout({k \in ScannedOn(sd) : ~ IsOpen(att'[k])})
        /\ ResolveForgotSubmit(sd)
        /\ UNCHANGED now

-----------------------------------------------------------------------------
(* Regularization. *)

\* The PM's updateMany over the day.
RecommendDay(sd) ==
    /\ att' = [k \in Key |-> IF OnSiteDay(k, sd) /\ HasStatus(k, "submitted")
                             THEN ReRecommend(att[k]) ELSE att[k]]
    /\ UNCHANGED <<now, missed, forgot>>

\* The approver's two updateMany: the day, then its undecided overtime.
DayApproved(sd, k) ==
    IF ~ OnSiteDay(k, sd) THEN att[k]
    ELSE SubsumeOvertime(IF HasStatus(k, "recommended") THEN ApproveDay(att[k])
                                                        ELSE att[k])

ApproveSiteDay(sd) ==
    /\ att' = [k \in Key |-> DayApproved(sd, k)]
    /\ UNCHANGED <<now, missed, forgot>>

\* One worker's record, whatever its status.
RejectWorker(k) ==
    /\ Exists(k)
    /\ att' = [att EXCEPT ![k] = Reject(@)]
    /\ ResolveMissedClockout({k})
    /\ ResolveForgotSubmit(<<att[k].site, k[2]>>)
    /\ UNCHANGED now

\* HR edits at least one of the In time, the Out time and the shift.
CorrectWorker(k) ==
    /\ Exists(k)
    /\ \E inHM, outHM \in Optional(TypedTimes), shift \in Optional(TypedShifts) :
          /\ <<inHM, outHM, shift>> # <<Null, Null, Null>>
          /\ att' = [att EXCEPT ![k] =
                        Correct(@, k[2], inHM, outHM, shift, LunchHours[@.site])]
    /\ ResolveMissedClockout(IF IsOpen(att'[k]) THEN {} ELSE {k})
    /\ ResolveForgotSubmit(<<att[k].site, k[2]>>)
    /\ UNCHANGED now

VoidWorker(k) ==
    /\ Exists(k)
    /\ att' = [att EXCEPT ![k].voided = TRUE]
    /\ ResolveMissedClockout({k})
    /\ ResolveForgotSubmit(<<att[k].site, k[2]>>)
    /\ UNCHANGED now

\* HR adds a day for any worker that has no record for it.
CreateManualDay(w, sd) ==
    LET k == <<w, sd[2]>>
    IN  /\ ~ Exists(k)
        /\ \E inHM \in TypedTimes, outHM \in Optional(TypedTimes), shift \in TypedShifts :
              att' = [att EXCEPT ![k] =
                         ManualDay(sd[1], sd[2], inHM, outHM, shift, LunchHours[sd[1]])]
        /\ UNCHANGED <<now, missed, forgot>>

-----------------------------------------------------------------------------
(* Overtime decisions on one record. *)

RecommendOvertime(k) ==
    /\ Exists(k)
    /\ att[k].overtime.status = "pending"
    /\ att' = [att EXCEPT ![k].overtime.status = "recommended"]
    /\ UNCHANGED <<now, missed, forgot>>

Entries ==
    {[kind |-> "hours", hours |-> h] : h \in TypedHours}
        \cup {[kind |-> kind, hours |-> 0] : kind \in {"blank", "text"}}

DecideOvertime(k) ==
    /\ Exists(k)
    /\ OvertimeUndecided(att[k])
    /\ \/ \E entry \in Entries : att' = [att EXCEPT ![k] = ApproveOvertime(@, entry)]
       \/ att' = [att EXCEPT ![k] = RejectOvertime(@)]
    /\ UNCHANGED <<now, missed, forgot>>

-----------------------------------------------------------------------------
(* The flags queue. *)

\* A plain acknowledge, with no check that anything was fixed.
ResolveFlag ==
    /\ \/ /\ \E k \in Key : missed[k] = "open" /\ ResolveMissedClockout({k})
          /\ UNCHANGED forgot
       \/ /\ \E sd \in SiteDay : forgot[sd] = "open" /\ forgot' = Resolved(forgot, {sd})
          /\ UNCHANGED missed
    /\ UNCHANGED <<now, att>>

ClockoutFixed(k, outHM) ==
    LET r      == att[k]
        filled == FillOut(r, IstOutDateTime(k[2], outHM, r.inTime), LunchHours[r.site])
    IN  IF ~ IsOpen(r) THEN r
        ELSE IF r.attendanceStatus = "scanned" THEN Submit(filled) ELSE filled

\* The OUT typed on the flag, which may have been resolved before.
FixClockout(k) ==
    /\ missed[k] # "none" /\ Exists(k)
    /\ \E outHM \in TypedTimes : att' = [att EXCEPT ![k] = ClockoutFixed(k, outHM)]
    /\ ResolveMissedClockout({k})
    /\ ResolveForgotSubmit(<<att[k].site, k[2]>>)
    /\ UNCHANGED now

\* Submit the day from its flag: no OUT is filled, missed flags stay.
SubmitDayFromFlag(sd) ==
    /\ forgot[sd] # "none"
    /\ att' = [k \in Key |-> IF k \in ScannedOn(sd) THEN Submit(att[k]) ELSE att[k]]
    /\ forgot' = Resolved(forgot, {sd})
    /\ UNCHANGED <<now, missed>>

-----------------------------------------------------------------------------
(* The sweeps: nightly timer, boot catch-up, or by hand at any time. *)

\* Faulty variants: only today's records; only days whose workers all left.
SweepMissedClockoutsToday ==
    /\ missed' = [k \in Key |-> IF /\ Overdue(k) /\ missed[k] = "none"
                                   /\ k[2] = SiteLocalDate(now)
                                THEN "open" ELSE missed[k]]
    /\ UNCHANGED <<now, att, forgot>>

SweepUnsubmittedClosedDays ==
    /\ forgot' = [sd \in SiteDay |->
                      IF /\ sd[2] < SiteLocalDate(now)
                         /\ \E k \in Unsubmitted(att, sd) : ~ IsOpen(att[k])
                         /\ forgot[sd] = "none"
                      THEN "open" ELSE forgot[sd]]
    /\ UNCHANGED <<now, att, missed>>

SweepMissedClockouts ==
    /\ missed' = [k \in Key |-> IF Overdue(k) /\ missed[k] = "none"
                                THEN "open" ELSE missed[k]]
    /\ UNCHANGED <<now, att, forgot>>

SweepUnsubmittedDays ==
    /\ forgot' = [sd \in SiteDay |-> IF /\ sd[2] < SiteLocalDate(now)
                                        /\ Unsubmitted(att, sd) # {}
                                        /\ forgot[sd] = "none"
                                     THEN "open" ELSE forgot[sd]]
    /\ UNCHANGED <<now, att, missed>>

Tick ==
    /\ now < LastTick
    /\ now' = now + 1
    /\ UNCHANGED <<att, missed, forgot>>

-----------------------------------------------------------------------------

Scan == \E w \in Workers, s \in Sites : ScanIn(w, s) \/ ScanOut(w, s)

DayRequest ==
    \E sd \in SiteDay :
        \/ SubmitDay(sd)
        \/ RecommendDay(sd)
        \/ ApproveSiteDay(sd)
        \/ SubmitDayFromFlag(sd)
        \/ \E w \in Workers : CreateManualDay(w, sd)

RecordRequest ==
    \E k \in Key :
        \/ RejectWorker(k)
        \/ CorrectWorker(k)
        \/ VoidWorker(k)
        \/ RecommendOvertime(k)
        \/ DecideOvertime(k)
        \/ FixClockout(k)

Sweep == SweepMissedClockouts \/ SweepUnsubmittedDays

Next == Scan \/ DayRequest \/ RecordRequest \/ ResolveFlag \/ Sweep \/ Tick

Spec == Init /\ [][Next]_vars

\* The timer always reschedules itself, so each sweep keeps running.
FairSpec ==
    /\ Spec
    /\ WF_vars(SweepMissedClockouts)
    /\ WF_vars(SweepUnsubmittedDays)

=============================================================================
