-------------------------- MODULE AttendanceProofs --------------------------
(***************************************************************************)
(* Facts about the calendar, the timer and the pay reckoner, for every     *)
(* length of the day and every standard working day; what every handler's  *)
(* edit of one attendance record preserves: its shape, and the invariants  *)
(* of its hours, overtime, stamps and session log; and from these the      *)
(* invariants of the attendance core, for every set of workers and sites,  *)
(* every shift table and every bound.                                      *)
(***************************************************************************)
EXTENDS AttendanceProperties, TLAPS, SequenceTheorems

(* Time *)

\* What a form's date and time of day denote lies on that date (istDateTime,
\* siteLocalDate).
THEOREM DateOfIstDateTime ==
    ASSUME NEW date \in Nat, NEW hm \in TimeOfDay
    PROVE  /\ IstDateTime(date, hm) \in Nat
           /\ SiteLocalDate(IstDateTime(date, hm)) = date
  BY TimeAssumption DEF TimeOfDay, IstDateTime, SiteLocalDate

\* A typed OUT is always after the IN, and less than a day after the typed time of
\* day on the IN's date (istOutDateTime).
THEOREM OutAfterIn ==
    ASSUME NEW date \in Nat, NEW hm \in TimeOfDay, NEW inTime \in Nat,
           SiteLocalDate(inTime) = date
    PROVE  /\ IstOutDateTime(date, hm, inTime) \in Nat
           /\ IstOutDateTime(date, hm, inTime) > inTime
           /\ IstOutDateTime(date, hm, inTime) <= inTime + TicksPerDay
  BY TimeAssumption DEF TimeOfDay, IstDateTime, IstOutDateTime, SiteLocalDate

\* The sweep timer always sleeps for a positive time of at most a day, so it can
\* neither spin nor skip a day (nextFireDelayMs).
THEOREM DelayWithinADay ==
    ASSUME NEW hm \in TimeOfDay, NEW tick \in Nat
    PROVE  NextFireDelay(hm, tick) \in 1 .. TicksPerDay
<1> DEFINE d == SiteLocalDate(tick)
<1>1. /\ d \in Nat
      /\ d * TicksPerDay <= tick
      /\ tick < d * TicksPerDay + TicksPerDay
  BY TimeAssumption DEF SiteLocalDate
<1>2. SiteLocalDate(tick + TicksPerDay) = d + 1
  BY TimeAssumption DEF SiteLocalDate
<1>3. /\ IstDateTime(d, hm) = d * TicksPerDay + hm
      /\ IstDateTime(d + 1, hm) = d * TicksPerDay + TicksPerDay + hm
  BY <1>1, TimeAssumption DEF IstDateTime, TimeOfDay
<1>4. d * TicksPerDay \in Nat /\ TicksPerDay \in Nat \ {0} /\ hm \in 0 .. TicksPerDay - 1
  BY <1>1, TimeAssumption DEF TimeOfDay
<1> QED
  BY <1>1, <1>2, <1>3, <1>4 DEF NextFireDelay

LEMMA ReckonHoursType ==
    ASSUME NEW inTime \in Nat, NEW outTime \in Nat, NEW lunch \in Nat
    PROVE  /\ ReckonHours(inTime, outTime, lunch)
                \in [total : Nat, standard : Nat, overtime : Nat]
           /\ ReckonHours(inTime, outTime, lunch).overtime \in Nat
  BY TimeAssumption DEF ReckonHours, AtLeastZero, Lesser

-----------------------------------------------------------------------------
(* One record *)

\* The invariants of one record that the handlers preserve together.
Sound(r) ==
    /\ HoursMatch(r)
    /\ OvertimeQueued(r)
    /\ StampsFollow(r)
    /\ PunchLogged(r)

LEMMA RecordIsNotNull == \A r \in Record : r # Null
  BY NullAssumption

LEMMA ClosePunchType ==
    ASSUME NEW sessions \in Seq({"open", "closed"})
    PROVE  ClosePunch(sessions) \in Seq({"open", "closed"})
  BY DEF ClosePunch, HasOpenPunch

LEMMA NoOvertimeType == NoOvertime \in Overtime
  BY DEF NoOvertime, Overtime, OvertimeStatus, Optional

LEMMA SelectShiftType ==
    ASSUME NEW shifts, NEW inTime
    PROVE  SelectShift(shifts, inTime) \in ShiftType
  BY DEF SelectShift, ShiftType

-----------------------------------------------------------------------------
(* Scans. *)

LEMMA NewScanSound ==
    ASSUME NEW site \in Sites, NEW shiftType \in ShiftType, NEW t \in Nat
    PROVE  /\ NewScan(site, shiftType, t) \in Record
           /\ Sound(NewScan(site, shiftType, t))
           /\ NewScan(site, shiftType, t).inTime = t
<1> DEFINE r == NewScan(site, shiftType, t)
<1>1. r \in Record
  BY NoOvertimeType DEF NewScan, Record, Optional, AttendanceStatus, Stamp
<1>2. HoursMatch(r) /\ OvertimeQueued(r) /\ StampsFollow(r)
  BY DEF NewScan, HoursMatch, OvertimeQueued, StampsFollow, IsOpen, NoOvertime
<1>3. PunchLogged(r)
  BY DEF NewScan, PunchLogged, HasOpenPunch
<1> QED
  BY <1>1, <1>2, <1>3 DEF Sound, NewScan

LEMMA WithHoursSound ==
    ASSUME NEW r \in Record, StampsFollow(r), NEW outTime \in Nat, NEW lunch \in Nat
    PROVE  /\ WithHours(r, outTime, lunch) \in Record
           /\ Sound(WithHours(r, outTime, lunch))
           /\ WithHours(r, outTime, lunch).inTime = r.inTime
<1> DEFINE h  == ReckonHours(r.inTime, outTime, lunch)
           ot == [r.overtime EXCEPT !.computedHours = h.overtime,
                                    !.status = IF h.overtime > 0 THEN "pending" ELSE "none"]
           n  == WithHours(r, outTime, lunch)
<1>1. r.inTime \in Nat /\ r.overtime \in Overtime
  BY DEF Record
<1>2. /\ h \in [total : Nat, standard : Nat, overtime : Nat]
      /\ h.total \in Nat /\ h.standard \in Nat /\ h.overtime \in Nat
  BY <1>1, ReckonHoursType
<1>3. /\ ot \in Overtime
      /\ ot.computedHours = h.overtime
      /\ ot.status = IF h.overtime > 0 THEN "pending" ELSE "none"
  BY <1>1, <1>2 DEF Overtime, OvertimeStatus
<1>4. n = [r EXCEPT !.outTime = outTime, !.totalHours = h.total,
                    !.standardHours = h.standard, !.breakHours = lunch,
                    !.overtime = ot]
  BY <1>1 DEF WithHours, Record, Overtime
<1>5. h = [total |-> h.total, standard |-> h.standard, overtime |-> h.overtime]
  BY DEF ReckonHours
<1> HIDE DEF h, ot, n
<1>6. /\ n \in Record
      /\ n.inTime = r.inTime /\ n.outTime = outTime /\ n.breakHours = lunch
      /\ n.totalHours = h.total /\ n.standardHours = h.standard /\ n.overtime = ot
      /\ n.attendanceStatus = r.attendanceStatus /\ n.stamps = r.stamps
  BY <1>2, <1>3, <1>4 DEF Record, Optional
<1>7. ~ IsOpen(n) /\ n.breakHours # Null
  BY <1>6, NullAssumption DEF IsOpen
<1>8. HoursMatch(n)
  BY <1>3, <1>5, <1>6, <1>7 DEF HoursMatch, h
<1>9. OvertimeQueued(n) /\ StampsFollow(n) /\ PunchLogged(n)
  BY <1>2, <1>3, <1>6, <1>7 DEF OvertimeQueued, StampsFollow, PunchLogged
<1> QED
  BY <1>6, <1>8, <1>9 DEF Sound, n

LEMMA ReopenSessionSound ==
    ASSUME NEW r \in Record, Sound(r)
    PROVE  /\ ReopenSession(r) \in Record
           /\ Sound(ReopenSession(r))
           /\ ReopenSession(r).inTime = r.inTime
<1> DEFINE n   == ReopenSession(r)
           log == Append(r.sessions, "open")
<1>1. r.sessions \in Seq({"open", "closed"})
  BY DEF Record
<1>2. log \in Seq({"open", "closed"}) /\ HasOpenPunch(log)
  BY <1>1 DEF HasOpenPunch
<1> HIDE DEF log
<1>3. /\ n \in Record
      /\ n.inTime = r.inTime /\ n.outTime = Null /\ n.totalHours = Null
      /\ n.standardHours = Null /\ n.breakHours = Null /\ n.overtime = NoOvertime
      /\ n.attendanceStatus = "scanned" /\ n.sessions = log
      /\ n.stamps = IF r.attendanceStatus = "scanned" THEN r.stamps ELSE {}
  BY <1>2, NoOvertimeType DEF ReopenSession, Record, Optional, AttendanceStatus, Stamp, log
<1> HIDE DEF n
<1>4. n.stamps = {}
  BY <1>3 DEF Sound, StampsFollow
<1>5. HoursMatch(n) /\ OvertimeQueued(n) /\ StampsFollow(n) /\ PunchLogged(n)
  BY <1>2, <1>3, <1>4
     DEF HoursMatch, OvertimeQueued, StampsFollow, PunchLogged, IsOpen, NoOvertime
<1> QED
  BY <1>3, <1>5 DEF Sound, n

LEMMA CloseSessionSound ==
    ASSUME NEW r \in Record, Sound(r), NEW t \in Nat, NEW lunch \in Nat
    PROVE  /\ CloseSession(r, t, lunch) \in Record
           /\ Sound(CloseSession(r, t, lunch))
           /\ CloseSession(r, t, lunch).inTime = r.inTime
           /\ ~ IsOpen(CloseSession(r, t, lunch))
<1> DEFINE w  == WithHours(r, t, lunch)
           ot == [w.overtime EXCEPT !.approvedHours = Null]
           n  == CloseSession(r, t, lunch)
<1>1. w \in Record /\ Sound(w) /\ w.inTime = r.inTime
  BY WithHoursSound DEF Sound
<1>2. w.outTime = t
  BY DEF WithHours, Record
<1> HIDE DEF w
<1>3. /\ ot \in Overtime
      /\ ot.computedHours = w.overtime.computedHours /\ ot.status = w.overtime.status
  BY <1>1 DEF Record, Overtime, Optional
<1>4. n = [w EXCEPT !.overtime = ot, !.sessions = ClosePunch(w.sessions)]
  BY <1>1 DEF CloseSession, Record, Overtime, w
<1> HIDE DEF ot, n
<1>5. ClosePunch(w.sessions) \in Seq({"open", "closed"})
  BY <1>1, ClosePunchType DEF Record
<1>6. /\ n \in Record
      /\ n.inTime = w.inTime /\ n.outTime = w.outTime /\ n.breakHours = w.breakHours
      /\ n.totalHours = w.totalHours /\ n.standardHours = w.standardHours
      /\ n.overtime = ot
      /\ n.attendanceStatus = w.attendanceStatus /\ n.stamps = w.stamps
  BY <1>1, <1>3, <1>4, <1>5 DEF Record
<1>7. ~ IsOpen(w) /\ ~ IsOpen(n)
  BY <1>2, <1>6, NullAssumption DEF IsOpen
<1>8. HoursMatch(n) /\ OvertimeQueued(n) /\ StampsFollow(n) /\ PunchLogged(n)
  BY <1>1, <1>3, <1>6, <1>7
     DEF Sound, HoursMatch, OvertimeQueued, StampsFollow, PunchLogged
<1> QED
  BY <1>1, <1>6, <1>7, <1>8 DEF Sound, n

LEMMA FillOutSound ==
    ASSUME NEW r \in Record, Sound(r), NEW t \in Nat, NEW lunch \in Nat
    PROVE  /\ FillOut(r, t, lunch) \in Record
           /\ Sound(FillOut(r, t, lunch))
           /\ FillOut(r, t, lunch).inTime = r.inTime
           /\ ~ IsOpen(FillOut(r, t, lunch))
<1> DEFINE w == WithHours(r, t, lunch)
           n == FillOut(r, t, lunch)
<1>1. w \in Record /\ Sound(w) /\ w.inTime = r.inTime
  BY WithHoursSound DEF Sound
<1>2. w.outTime = t
  BY DEF WithHours, Record
<1>3. n = [w EXCEPT !.sessions = ClosePunch(w.sessions)]
  BY DEF FillOut
<1> HIDE DEF w, n
<1>4. ClosePunch(w.sessions) \in Seq({"open", "closed"})
  BY <1>1, ClosePunchType DEF Record
<1>5. /\ n \in Record
      /\ n.inTime = w.inTime /\ n.outTime = w.outTime /\ n.breakHours = w.breakHours
      /\ n.totalHours = w.totalHours /\ n.standardHours = w.standardHours
      /\ n.overtime = w.overtime
      /\ n.attendanceStatus = w.attendanceStatus /\ n.stamps = w.stamps
  BY <1>1, <1>3, <1>4 DEF Record
<1>6. ~ IsOpen(w) /\ ~ IsOpen(n)
  BY <1>2, <1>5, NullAssumption DEF IsOpen
<1>7. HoursMatch(n) /\ OvertimeQueued(n) /\ StampsFollow(n) /\ PunchLogged(n)
  BY <1>1, <1>5, <1>6
     DEF Sound, HoursMatch, OvertimeQueued, StampsFollow, PunchLogged
<1> QED
  BY <1>1, <1>5, <1>6, <1>7 DEF Sound, n

-----------------------------------------------------------------------------
(* The approval chain. *)

\* A step of the chain moves the status and adds the stamp that goes with it.
LEMMA ChainStepSound ==
    ASSUME NEW r \in Record, Sound(r),
           NEW status \in AttendanceStatus \ {"scanned"},
           NEW stamp \in Stamp,
           stamp = IF status \in {"approved", "rejected"} THEN "decided" ELSE status
    PROVE  LET n == [r EXCEPT !.attendanceStatus = status, !.stamps = @ \cup {stamp}]
           IN  /\ n \in Record /\ Sound(n)
               /\ n.inTime = r.inTime /\ n.outTime = r.outTime /\ n.overtime = r.overtime
<1> DEFINE n == [r EXCEPT !.attendanceStatus = status, !.stamps = @ \cup {stamp}]
<1>1. /\ n \in Record
      /\ n.inTime = r.inTime /\ n.outTime = r.outTime /\ n.breakHours = r.breakHours
      /\ n.totalHours = r.totalHours /\ n.standardHours = r.standardHours
      /\ n.overtime = r.overtime /\ n.sessions = r.sessions
      /\ n.attendanceStatus = status /\ n.stamps = r.stamps \cup {stamp}
  BY DEF Record
<1> HIDE DEF n
<1>2. HoursMatch(n) /\ OvertimeQueued(n) /\ PunchLogged(n)
  BY <1>1 DEF Sound, HoursMatch, OvertimeQueued, PunchLogged, IsOpen
<1>3. StampsFollow(n)
  BY <1>1 DEF StampsFollow, AttendanceStatus
<1> QED
  BY <1>1, <1>2, <1>3 DEF Sound, n

LEMMA SubmitSound ==
    ASSUME NEW r \in Record, Sound(r)
    PROVE  /\ Submit(r) \in Record /\ Sound(Submit(r))
           /\ Submit(r).inTime = r.inTime /\ Submit(r).outTime = r.outTime
  BY ChainStepSound DEF Submit, AttendanceStatus, Stamp

LEMMA ReRecommendSound ==
    ASSUME NEW r \in Record, Sound(r)
    PROVE  /\ ReRecommend(r) \in Record /\ Sound(ReRecommend(r))
           /\ ReRecommend(r).inTime = r.inTime /\ ReRecommend(r).outTime = r.outTime
  BY ChainStepSound DEF ReRecommend, AttendanceStatus, Stamp

LEMMA ApproveDaySound ==
    ASSUME NEW r \in Record, Sound(r)
    PROVE  /\ ApproveDay(r) \in Record /\ Sound(ApproveDay(r))
           /\ ApproveDay(r).inTime = r.inTime /\ ApproveDay(r).outTime = r.outTime
  BY ChainStepSound DEF ApproveDay, AttendanceStatus, Stamp

-----------------------------------------------------------------------------
(* Decisions on the overtime. *)

\* A decision on existing overtime keeps the record sound.
LEMMA DecisionSound ==
    ASSUME NEW r \in Record, Sound(r), r.overtime.computedHours > 0,
           NEW ot \in Overtime,
           ot.computedHours = r.overtime.computedHours, ot.status # "none"
    PROVE  LET n == [r EXCEPT !.overtime = ot]
           IN  /\ n \in Record /\ Sound(n)
               /\ n.inTime = r.inTime /\ n.outTime = r.outTime
<1> DEFINE n == [r EXCEPT !.overtime = ot]
<1>1. /\ n \in Record
      /\ n.inTime = r.inTime /\ n.outTime = r.outTime /\ n.breakHours = r.breakHours
      /\ n.totalHours = r.totalHours /\ n.standardHours = r.standardHours
      /\ n.overtime = ot /\ n.sessions = r.sessions
      /\ n.attendanceStatus = r.attendanceStatus /\ n.stamps = r.stamps
  BY DEF Record
<1> HIDE DEF n
<1>2. ~ IsOpen(r)
  BY DEF Sound, HoursMatch, NoOvertime
<1>3. HoursMatch(n)
  BY <1>1, <1>2 DEF Sound, HoursMatch, IsOpen
<1>4. OvertimeQueued(n) /\ StampsFollow(n) /\ PunchLogged(n)
  BY <1>1 DEF Sound, OvertimeQueued, StampsFollow, PunchLogged, IsOpen
<1> QED
  BY <1>1, <1>3, <1>4 DEF Sound, n

LEMMA UndecidedIsEarned ==
    ASSUME NEW r \in Record, Sound(r), OvertimeUndecided(r)
    PROVE  r.overtime.computedHours > 0
<1>1. r.overtime.computedHours \in Nat
  BY DEF Record, Overtime
<1> QED
  BY <1>1 DEF Sound, OvertimeQueued, OvertimeUndecided

\* Setting only the status of the overtime.
LEMMA StatusDecisionSound ==
    ASSUME NEW r \in Record, Sound(r), r.overtime.computedHours > 0,
           NEW status \in OvertimeStatus \ {"none"}
    PROVE  LET n == [r EXCEPT !.overtime.status = status]
           IN  /\ n \in Record /\ Sound(n)
               /\ n.inTime = r.inTime /\ n.outTime = r.outTime
<1> DEFINE ot == [r.overtime EXCEPT !.status = status]
<1>1. /\ ot \in Overtime
      /\ ot.computedHours = r.overtime.computedHours /\ ot.status = status
  BY DEF Record, Overtime
<1>2. [r EXCEPT !.overtime.status = status] = [r EXCEPT !.overtime = ot]
  BY DEF Record
<1> HIDE DEF ot
<1> QED
  BY <1>1, <1>2, DecisionSound

\* Setting the status and the approved hours.
LEMMA HoursDecisionSound ==
    ASSUME NEW r \in Record, Sound(r), r.overtime.computedHours > 0,
           NEW status \in OvertimeStatus \ {"none"}, NEW approved \in Nat
    PROVE  LET n == [r EXCEPT !.overtime.status = status,
                              !.overtime.approvedHours = approved]
           IN  /\ n \in Record /\ Sound(n)
               /\ n.inTime = r.inTime /\ n.outTime = r.outTime
<1> DEFINE ot == [r.overtime EXCEPT !.status = status, !.approvedHours = approved]
<1>1. /\ ot \in Overtime
      /\ ot.computedHours = r.overtime.computedHours /\ ot.status = status
  BY DEF Record, Overtime, Optional
<1>2. [r EXCEPT !.overtime.status = status, !.overtime.approvedHours = approved]
        = [r EXCEPT !.overtime = ot]
  BY DEF Record
<1> HIDE DEF ot
<1> QED
  BY <1>1, <1>2, DecisionSound

LEMMA ApproveOvertimeSound ==
    ASSUME NEW r \in Record, Sound(r), OvertimeUndecided(r),
           NEW entry \in OvertimeEntry
    PROVE  /\ ApproveOvertime(r, entry) \in Record
           /\ Sound(ApproveOvertime(r, entry))
           /\ ApproveOvertime(r, entry).inTime = r.inTime
           /\ ApproveOvertime(r, entry).outTime = r.outTime
<1> DEFINE raw      == NumberOf(entry)
           approved == IF raw = Null THEN r.overtime.computedHours
                       ELSE Lesser(raw, r.overtime.computedHours)
<1>1. raw \in Optional(Nat)
  BY DEF NumberOf, OvertimeEntry, Optional
<1>2. r.overtime.computedHours \in Nat
  BY DEF Record, Overtime
<1> HIDE DEF raw
<1>3. approved \in Nat
  BY <1>1, <1>2 DEF Lesser, Optional
<1>4. ApproveOvertime(r, entry)
        = [r EXCEPT !.overtime.status = "approved", !.overtime.approvedHours = approved]
  BY DEF ApproveOvertime, raw
<1> HIDE DEF approved
<1> DEFINE n == [r EXCEPT !.overtime.status = "approved",
                          !.overtime.approvedHours = approved]
<1>5. r.overtime.computedHours > 0
  BY UndecidedIsEarned
<1>6. n \in Record /\ Sound(n) /\ n.inTime = r.inTime /\ n.outTime = r.outTime
  BY <1>3, <1>5, HoursDecisionSound DEF OvertimeStatus
<1> HIDE DEF n
<1> QED
  BY <1>4, <1>6 DEF n

LEMMA RejectOvertimeSound ==
    ASSUME NEW r \in Record, Sound(r), OvertimeUndecided(r)
    PROVE  /\ RejectOvertime(r) \in Record /\ Sound(RejectOvertime(r))
           /\ RejectOvertime(r).inTime = r.inTime
           /\ RejectOvertime(r).outTime = r.outTime
  BY UndecidedIsEarned, HoursDecisionSound DEF OvertimeStatus, RejectOvertime

LEMMA SubsumeOvertimeSound ==
    ASSUME NEW r \in Record, Sound(r)
    PROVE  /\ SubsumeOvertime(r) \in Record /\ Sound(SubsumeOvertime(r))
           /\ SubsumeOvertime(r).inTime = r.inTime
           /\ SubsumeOvertime(r).outTime = r.outTime
  BY StatusDecisionSound DEF OvertimeStatus, SubsumeOvertime

LEMMA RejectSound ==
    ASSUME NEW r \in Record, Sound(r)
    PROVE  /\ Reject(r) \in Record /\ Sound(Reject(r))
           /\ Reject(r).inTime = r.inTime /\ Reject(r).outTime = r.outTime
<1> DEFINE c == [r EXCEPT !.attendanceStatus = "rejected", !.stamps = @ \cup {"decided"}]
<1>1. /\ c \in Record /\ Sound(c)
      /\ c.inTime = r.inTime /\ c.outTime = r.outTime /\ c.overtime = r.overtime
  BY ChainStepSound DEF AttendanceStatus, Stamp
<1>2. Reject(r) = IF c.overtime.computedHours > 0
                  THEN [c EXCEPT !.overtime.status = "rejected"]
                  ELSE [c EXCEPT !.overtime.status = @]
  BY <1>1 DEF Reject, Record
<1>3. [c EXCEPT !.overtime.status = @] = c
  BY <1>1 DEF Record, Overtime
<1> HIDE DEF c
<1> QED
  BY <1>1, <1>2, <1>3, StatusDecisionSound DEF OvertimeStatus

-----------------------------------------------------------------------------
(* HR's corrections. *)

LEMMA VoidSound ==
    ASSUME NEW r \in Record, Sound(r)
    PROVE  LET n == [r EXCEPT !.voided = TRUE]
           IN  /\ n \in Record /\ Sound(n)
               /\ n.inTime = r.inTime /\ n.outTime = r.outTime
<1> DEFINE n == [r EXCEPT !.voided = TRUE]
<1>1. /\ n \in Record
      /\ n.inTime = r.inTime /\ n.outTime = r.outTime /\ n.breakHours = r.breakHours
      /\ n.totalHours = r.totalHours /\ n.standardHours = r.standardHours
      /\ n.overtime = r.overtime /\ n.sessions = r.sessions
      /\ n.attendanceStatus = r.attendanceStatus /\ n.stamps = r.stamps
  BY DEF Record
<1> HIDE DEF n
<1>2. HoursMatch(n) /\ OvertimeQueued(n) /\ StampsFollow(n) /\ PunchLogged(n)
  BY <1>1 DEF Sound, HoursMatch, OvertimeQueued, StampsFollow, PunchLogged, IsOpen
<1> QED
  BY <1>1, <1>2 DEF Sound, n

\* The edit itself leaves the hours behind; recomputing brings them back.
LEMMA RecomputeSound ==
    ASSUME NEW r \in Record, Sound(r),
           NEW in \in Nat, NEW out \in Optional(Nat), NEW shift \in ShiftType,
           IsOpen(r) \/ out # Null,
           NEW lunch \in Nat
    PROVE  LET n == Recompute(Edited(r, in, out, shift), lunch)
           IN  n \in Record /\ Sound(n) /\ n.inTime = in /\ n.outTime = out
<1> DEFINE e == Edited(r, in, out, shift)
<1>1. /\ e \in Record
      /\ e.inTime = in /\ e.outTime = out /\ e.breakHours = r.breakHours
      /\ e.totalHours = r.totalHours /\ e.standardHours = r.standardHours
      /\ e.overtime = r.overtime /\ e.sessions = r.sessions
      /\ e.attendanceStatus = r.attendanceStatus /\ e.stamps = r.stamps
  BY DEF Record, Edited
<1> HIDE DEF e
<1>2. StampsFollow(e)
  BY <1>1 DEF Sound, StampsFollow
<1>3. CASE out = Null
  <2>1. IsOpen(r) /\ IsOpen(e)
    BY <1>1, <1>3 DEF IsOpen
  <2>2. HoursMatch(e) /\ OvertimeQueued(e) /\ PunchLogged(e)
    BY <1>1, <2>1 DEF Sound, HoursMatch, OvertimeQueued, PunchLogged
  <2> QED
    BY <1>1, <1>2, <2>1, <2>2 DEF Recompute, Sound, e
<1>4. CASE out # Null
  <2>1. out \in Nat /\ ~ IsOpen(e)
    BY <1>1, <1>4 DEF IsOpen, Optional
  <2>2. WithHours(e, out, lunch).outTime = out
    BY <1>1 DEF WithHours, Record
  <2>3. LET w == WithHours(e, out, lunch)
        IN  w \in Record /\ Sound(w) /\ w.inTime = in
    BY <1>1, <1>2, <2>1, WithHoursSound
  <2>4. Recompute(e, lunch) = WithHours(e, out, lunch)
    BY <1>1, <2>1 DEF Recompute
  <2> QED
    BY <2>2, <2>3, <2>4 DEF e
<1> QED
  BY <1>3, <1>4

LEMMA TypedInTime ==
    ASSUME NEW date \in Nat, NEW hm \in TimeOfDay
    PROVE  IstDateTime(date, hm) \in Nat /\ SiteLocalDate(IstDateTime(date, hm)) = date
  BY DateOfIstDateTime

LEMMA CorrectSound ==
    ASSUME NEW r \in Record, Sound(r), NEW date \in Nat, OnItsDay(r, date),
           NEW inHM \in Optional(TimeOfDay), NEW outHM \in Optional(TimeOfDay),
           NEW shiftType \in Optional(ShiftType), NEW lunch \in Nat
    PROVE  /\ Correct(r, date, inHM, outHM, shiftType, lunch) \in Record
           /\ Sound(Correct(r, date, inHM, outHM, shiftType, lunch))
           /\ OnItsDay(Correct(r, date, inHM, outHM, shiftType, lunch), date)
<1> DEFINE in    == IF inHM = Null THEN r.inTime ELSE IstDateTime(date, inHM)
           out   == IF outHM = Null THEN r.outTime ELSE IstOutDateTime(date, outHM, in)
           shift == IF shiftType = Null THEN r.shiftType ELSE shiftType
           c     == Recompute(Edited(r, in, out, shift), lunch)
<1>1. /\ r.inTime \in Nat /\ r.outTime \in Optional(Nat) /\ r.shiftType \in ShiftType
      /\ SiteLocalDate(r.inTime) = date
  BY DEF Record, OnItsDay
<1>2. in \in Nat /\ SiteLocalDate(in) = date
  BY <1>1, TypedInTime DEF Optional
<1> HIDE DEF in
<1>3. out \in Optional(Nat) /\ (IsOpen(r) \/ out # Null)
  <2>1. CASE outHM = Null
    BY <1>1, <2>1 DEF IsOpen
  <2>2. CASE outHM # Null
    <3>1. outHM \in TimeOfDay /\ out = IstOutDateTime(date, outHM, in)
      BY <2>2 DEF Optional
    <3>2. out \in Nat
      BY <1>2, <3>1, OutAfterIn
    <3> HIDE DEF out
    <3> QED
      BY <3>2, NullAssumption DEF Optional
  <2> QED
    BY <2>1, <2>2
<1>4. shift \in ShiftType
  BY <1>1 DEF Optional
<1> HIDE DEF out, shift
<1>5. c \in Record /\ Sound(c) /\ c.inTime = in
  BY <1>2, <1>3, <1>4, RecomputeSound
<1>6. Correct(r, date, inHM, outHM, shiftType, lunch) = ReRecommend(c)
  BY DEF Correct, in, out, shift
<1> HIDE DEF c
<1> QED
  BY <1>2, <1>5, <1>6, ReRecommendSound DEF OnItsDay

LEMMA ManualDaySound ==
    ASSUME NEW site \in Sites, NEW date \in Nat, NEW inHM \in TimeOfDay,
           NEW outHM \in Optional(TimeOfDay), NEW shiftType \in ShiftType,
           NEW lunch \in Nat
    PROVE  /\ ManualDay(site, date, inHM, outHM, shiftType, lunch) \in Record
           /\ Sound(ManualDay(site, date, inHM, outHM, shiftType, lunch))
           /\ OnItsDay(ManualDay(site, date, inHM, outHM, shiftType, lunch), date)
<1> DEFINE in   == IstDateTime(date, inHM)
           scan == NewScan(site, shiftType, in)
           day  == [scan EXCEPT !.sessions = << >>]
           n    == IF outHM = Null THEN day
                   ELSE WithHours(day, IstOutDateTime(date, outHM, day.inTime), lunch)
<1>1. in \in Nat /\ SiteLocalDate(in) = date
  BY TypedInTime
<1> HIDE DEF in
<1>2. scan \in Record /\ Sound(scan) /\ scan.inTime = in
  BY <1>1, NewScanSound
<1> HIDE DEF scan
<1>3. /\ day \in Record
      /\ day.inTime = in /\ day.outTime = scan.outTime
      /\ day.breakHours = scan.breakHours /\ day.totalHours = scan.totalHours
      /\ day.standardHours = scan.standardHours
      /\ day.overtime = scan.overtime /\ day.sessions = << >>
      /\ day.attendanceStatus = scan.attendanceStatus /\ day.stamps = scan.stamps
  <2>1. << >> \in Seq({"open", "closed"})
    OBVIOUS
  <2> QED
    BY <1>2, <2>1 DEF Record
<1>4. Sound(day)
  <2> HIDE DEF day
  <2> QED
    BY <1>2, <1>3 DEF Sound, HoursMatch, OvertimeQueued, StampsFollow, PunchLogged, IsOpen
<1>5. ManualDay(site, date, inHM, outHM, shiftType, lunch) = ReRecommend(n)
  BY DEF ManualDay, in, scan
<1> HIDE DEF day
<1>6. n \in Record /\ Sound(n) /\ n.inTime = in
  <2>1. CASE outHM = Null
    BY <1>3, <1>4, <2>1
  <2>2. CASE outHM # Null
    <3>1. IstOutDateTime(date, outHM, day.inTime) \in Nat
      BY <1>1, <1>3, <2>2, OutAfterIn DEF Optional
    <3> QED
      BY <1>3, <1>4, <2>2, <3>1, WithHoursSound DEF Sound
  <2> QED
    BY <2>1, <2>2
<1> HIDE DEF n
<1> QED
  BY <1>1, <1>5, <1>6, ReRecommendSound DEF OnItsDay

-----------------------------------------------------------------------------
(* The records of the office *)

\* What is known of a record kept for a day.
Kept(r, date) == r \in Record /\ Sound(r) /\ OnItsDay(r, date)

RecordsKept == \A k \in Key : Exists(k) => Kept(att[k], k[2])

\* The inductive invariant behind the invariants of the records.
RecordInv == TypeOK /\ RecordsKept

-----------------------------------------------------------------------------
(* The shapes of the updates. *)

LEMMA KeptRecord ==
    ASSUME RecordInv, NEW k \in Key, Exists(k)
    PROVE  /\ att[k] \in Record /\ Sound(att[k]) /\ OnItsDay(att[k], k[2])
           /\ k[2] \in Nat /\ k[1] \in Workers
  BY AttendanceAssumption DEF RecordInv, RecordsKept, Kept, Key, Dates

LEMMA SiteConstants ==
    ASSUME NEW s \in Sites
    PROVE  /\ LunchHours[s] \in Nat /\ Shifts[s] \in SiteShifts
           /\ MaxShiftHours[s] \in Nat /\ GraceHours[s] \in Nat
  BY AttendanceAssumption

LEMMA ResolvedType ==
    ASSUME NEW D, NEW flags \in [D -> FlagState], NEW ids
    PROVE  Resolved(flags, ids) \in [D -> FlagState]
  BY DEF Resolved, FlagState

\* One record changes.
LEMMA OneRecordChanges ==
    ASSUME RecordInv, NEW k \in Key, NEW r, Kept(r, k[2]),
           att' = [att EXCEPT ![k] = r]
    PROVE  att' \in [Key -> Optional(Record)] /\ RecordsKept'
<1>1. att \in [Key -> Optional(Record)] /\ r \in Record
  BY DEF RecordInv, TypeOK, Kept
<1>2. att' \in [Key -> Optional(Record)]
  BY <1>1 DEF Optional
<1>3. ASSUME NEW j \in Key, Exists(j)' PROVE Kept(att'[j], j[2])
  <2>1. CASE j = k
    BY <1>1, <2>1
  <2>2. CASE j # k
    BY <1>1, <1>3, <2>2 DEF RecordInv, RecordsKept, Exists
  <2> QED
    BY <2>1, <2>2
<1> QED
  BY <1>2, <1>3 DEF RecordsKept, Kept, Sound, OnItsDay

\* Every record changes at once, each to one that is kept.
LEMMA EveryRecordChanges ==
    ASSUME NEW next, att' = next, DOMAIN next = Key, next = [k \in Key |-> next[k]],
           \A k \in Key : next[k] = Null \/ Kept(next[k], k[2])
    PROVE  att' \in [Key -> Optional(Record)] /\ RecordsKept'
<1>1. \A k \in Key : next[k] \in Optional(Record)
  BY DEF Kept, Optional
<1>2. next \in [Key -> Optional(Record)]
  BY <1>1
<1> QED
  BY <1>2 DEF RecordsKept, Exists

-----------------------------------------------------------------------------
(* Every step keeps the records. *)

THEOREM RecordInvInit == Init => RecordInv
  BY AttendanceAssumption
     DEF Init, RecordInv, TypeOK, RecordsKept, Exists, Optional, FlagState

LEMMA ScanInKeeps ==
    ASSUME RecordInv, NEW w \in Workers, NEW s \in Sites, ScanIn(w, s)
    PROVE  RecordInv'
<1> DEFINE k == Today(w)
<1>1. /\ k \in Key /\ now \in Nat /\ now' = now
      /\ missed' = missed /\ forgot' = forgot
      /\ OnItsDay([inTime |-> now], k[2])
  BY DEF ScanIn, RecordInv, TypeOK, Today, OnItsDay
<1>2. att' \in [Key -> Optional(Record)] /\ RecordsKept'
  <2>1. CASE att' = [att EXCEPT ![k] = NewScan(s, SelectShift(Shifts[s], now), now)]
    <3> DEFINE r == NewScan(s, SelectShift(Shifts[s], now), now)
    <3>1. r \in Record /\ Sound(r) /\ r.inTime = now
      BY <1>1, SelectShiftType, NewScanSound
    <3>2. Kept(r, k[2])
      BY <1>1, <3>1 DEF Kept, OnItsDay
    <3> HIDE DEF r, k
    <3> QED
      BY <1>1, <2>1, <3>2, OneRecordChanges DEF r
  <2>2. CASE Exists(k) /\ att' = [att EXCEPT ![k] = ReopenSession(@)]
    <3>1. Kept(att[k], k[2])
      BY <1>1, <2>2, KeptRecord DEF Kept
    <3>2. Kept(ReopenSession(att[k]), k[2])
      BY <3>1, ReopenSessionSound DEF Kept, OnItsDay
    <3> HIDE DEF k
    <3> QED
      BY <1>1, <2>2, <3>2, OneRecordChanges
  <2> QED
    BY <2>1, <2>2 DEF ScanIn
<1> QED
  BY <1>1, <1>2 DEF RecordInv, TypeOK

LEMMA ScanOutKeeps ==
    ASSUME RecordInv, NEW w \in Workers, NEW s \in Sites, ScanOut(w, s)
    PROVE  RecordInv'
<1>1. PICK k \in OpenSessions(w, s) :
          /\ att' = [att EXCEPT ![k] = CloseSession(@, now, LunchHours[s])]
          /\ ResolveMissedClockout({k})
  BY DEF ScanOut
<1>2. k \in Key /\ Exists(k)
  BY <1>1 DEF OpenSessions
<1>3. Kept(att[k], k[2])
  BY <1>2, KeptRecord DEF Kept
<1>4. now \in Nat /\ LunchHours[s] \in Nat
  BY SiteConstants DEF RecordInv, TypeOK
<1>5. Kept(CloseSession(att[k], now, LunchHours[s]), k[2])
  BY <1>3, <1>4, CloseSessionSound DEF Kept, OnItsDay
<1>6. att' \in [Key -> Optional(Record)] /\ RecordsKept'
  BY <1>1, <1>2, <1>5, OneRecordChanges
<1>7. missed' \in [Key -> FlagState]
  BY <1>1, ResolvedType DEF ResolveMissedClockout, RecordInv, TypeOK
<1> QED
  BY <1>6, <1>7 DEF RecordInv, TypeOK, ScanOut

LEMMA ForgotResolvedType ==
    ASSUME RecordInv, NEW sd, ResolveForgotSubmit(sd)
    PROVE  forgot' \in [SiteDay -> FlagState]
  BY ResolvedType DEF ResolveForgotSubmit, RecordInv, TypeOK

LEMMA MissedResolvedType ==
    ASSUME RecordInv, NEW ids, ResolveMissedClockout(ids)
    PROVE  missed' \in [Key -> FlagState]
  BY ResolvedType DEF ResolveMissedClockout, RecordInv, TypeOK

LEMMA FillOutKept ==
    ASSUME NEW r, NEW date \in Nat, Kept(r, date),
           NEW hm \in TypedTimes, NEW lunch \in Nat
    PROVE  LET n == FillOut(r, IstOutDateTime(date, hm, r.inTime), lunch)
           IN  Kept(n, date) /\ ~ IsOpen(n)
<1> DEFINE out == IstOutDateTime(date, hm, r.inTime)
<1>1. hm \in TimeOfDay /\ r.inTime \in Nat /\ SiteLocalDate(r.inTime) = date
  BY AttendanceAssumption DEF Kept, OnItsDay, Record
<1>2. out \in Nat
  BY <1>1, OutAfterIn
<1> HIDE DEF out
<1>3. LET n == FillOut(r, out, lunch) IN Kept(n, date) /\ ~ IsOpen(n)
  BY <1>2, FillOutSound DEF Kept, OnItsDay
<1> QED
  BY <1>3 DEF out

LEMMA SubmitKept ==
    ASSUME NEW r, NEW date, Kept(r, date)
    PROVE  Kept(Submit(r), date)
  BY SubmitSound DEF Kept, OnItsDay

LEMMA SubmittedKept ==
    ASSUME RecordInv, NEW sd \in SiteDay, NEW k \in Key, OnSiteDay(k, sd),
           NEW hm \in Optional(TypedTimes)
    PROVE  Kept(Submitted(sd, k, hm), k[2])
<1>1. Kept(att[k], k[2]) /\ k[2] = sd[2] /\ k[2] \in Nat /\ LunchHours[sd[1]] \in Nat
  BY KeptRecord, SiteConstants DEF OnSiteDay, Kept, SiteDay
<1>2. CASE IsOpen(att[k]) /\ hm # Null
  <2> DEFINE n == FillOut(att[k], IstOutDateTime(k[2], hm, att[k].inTime), LunchHours[sd[1]])
  <2>1. hm \in TypedTimes
    BY <1>2 DEF Optional
  <2>2. Kept(n, k[2])
    BY <1>1, <2>1, FillOutKept
  <2>3. Submitted(sd, k, hm) = Submit(n)
    BY <1>1, <1>2 DEF Submitted
  <2> HIDE DEF n
  <2> QED
    BY <2>2, <2>3, SubmitKept
<1>3. CASE ~ (IsOpen(att[k]) /\ hm # Null)
  <2>1. Submitted(sd, k, hm) = Submit(att[k])
    BY <1>3 DEF Submitted
  <2> QED
    BY <1>1, <2>1, SubmitKept
<1> QED
  BY <1>2, <1>3

LEMMA SubmitDayKeeps ==
    ASSUME RecordInv, NEW sd \in SiteDay, SubmitDay(sd)
    PROVE  RecordInv'
<1>1. PICK fill \in [Workers -> Optional(TypedTimes)] :
          /\ att' = [k \in Key |-> IF k \in ScannedOn(sd)
                                   THEN Submitted(sd, k, fill[k[1]]) ELSE att[k]]
          /\ ResolveMissedClockout({k \in ScannedOn(sd) : ~ IsOpen(att'[k])})
          /\ ResolveForgotSubmit(sd)
          /\ UNCHANGED now
  BY DEF SubmitDay
<1> DEFINE next == [k \in Key |-> IF k \in ScannedOn(sd)
                                  THEN Submitted(sd, k, fill[k[1]]) ELSE att[k]]
<1>2. ASSUME NEW k \in Key PROVE next[k] = Null \/ Kept(next[k], k[2])
  <2>1. CASE k \in ScannedOn(sd)
    <3>1. OnSiteDay(k, sd) /\ fill[k[1]] \in Optional(TypedTimes)
      BY <2>1, <1>1 DEF ScannedOn, Key
    <3> QED
      BY <2>1, <3>1, SubmittedKept
  <2>2. CASE k \notin ScannedOn(sd)
    BY <2>2 DEF RecordInv, RecordsKept, Exists
  <2> QED
    BY <2>1, <2>2
<1>3. att' = next /\ DOMAIN next = Key /\ next = [k \in Key |-> next[k]]
  BY <1>1
<1> HIDE DEF next
<1>4. att' \in [Key -> Optional(Record)] /\ RecordsKept'
  BY <1>2, <1>3, EveryRecordChanges
<1>5. missed' \in [Key -> FlagState] /\ forgot' \in [SiteDay -> FlagState]
  BY <1>1, MissedResolvedType, ForgotResolvedType
<1> QED
  BY <1>1, <1>4, <1>5 DEF RecordInv, TypeOK

LEMMA RecommendDayKeeps ==
    ASSUME RecordInv, NEW sd \in SiteDay, RecommendDay(sd)
    PROVE  RecordInv'
<1> DEFINE next == [k \in Key |-> IF OnSiteDay(k, sd) /\ HasStatus(k, "submitted")
                                  THEN ReRecommend(att[k]) ELSE att[k]]
<1>1. ASSUME NEW k \in Key PROVE next[k] = Null \/ Kept(next[k], k[2])
  <2>1. CASE ~ Exists(k)
    BY <2>1 DEF Exists, OnSiteDay
  <2>2. CASE Exists(k)
    <3>1. att[k] \in Record /\ Sound(att[k]) /\ OnItsDay(att[k], k[2])
      BY <2>2, KeptRecord
    <3> QED
      BY <3>1, ReRecommendSound DEF Kept, OnItsDay
  <2> QED
    BY <2>1, <2>2
<1>2. att' = next /\ DOMAIN next = Key /\ next = [k \in Key |-> next[k]]
  BY DEF RecommendDay
<1> HIDE DEF next
<1>3. att' \in [Key -> Optional(Record)] /\ RecordsKept'
  BY <1>1, <1>2, EveryRecordChanges
<1> QED
  BY <1>3 DEF RecordInv, TypeOK, RecommendDay

LEMMA ApproveSiteDayKeeps ==
    ASSUME RecordInv, NEW sd \in SiteDay, ApproveSiteDay(sd)
    PROVE  RecordInv'
<1> DEFINE next == [k \in Key |-> DayApproved(sd, k)]
<1>1. ASSUME NEW k \in Key PROVE next[k] = Null \/ Kept(next[k], k[2])
  <2>1. CASE ~ Exists(k)
    BY <2>1 DEF Exists, OnSiteDay, DayApproved
  <2>2. CASE Exists(k)
    <3>1. att[k] \in Record /\ Sound(att[k]) /\ OnItsDay(att[k], k[2])
      BY <2>2, KeptRecord
    <3> DEFINE r == IF HasStatus(k, "recommended") THEN ApproveDay(att[k]) ELSE att[k]
    <3>2. r \in Record /\ Sound(r) /\ OnItsDay(r, k[2])
      BY <3>1, ApproveDaySound DEF OnItsDay
    <3> HIDE DEF r
    <3>3. Kept(SubsumeOvertime(r), k[2])
      BY <3>2, SubsumeOvertimeSound DEF Kept, OnItsDay
    <3>4. DayApproved(sd, k) = IF OnSiteDay(k, sd) THEN SubsumeOvertime(r) ELSE att[k]
      BY DEF DayApproved, r
    <3> QED
      BY <3>1, <3>3, <3>4 DEF Kept
  <2> QED
    BY <2>1, <2>2
<1>2. att' = next /\ DOMAIN next = Key /\ next = [k \in Key |-> next[k]]
  BY DEF ApproveSiteDay
<1> HIDE DEF next
<1>3. att' \in [Key -> Optional(Record)] /\ RecordsKept'
  BY <1>1, <1>2, EveryRecordChanges
<1> QED
  BY <1>3 DEF RecordInv, TypeOK, ApproveSiteDay

LEMMA SubmitDayFromFlagKeeps ==
    ASSUME RecordInv, NEW sd \in SiteDay, SubmitDayFromFlag(sd)
    PROVE  RecordInv'
<1> DEFINE next == [k \in Key |-> IF k \in ScannedOn(sd) THEN Submit(att[k]) ELSE att[k]]
<1>1. ASSUME NEW k \in Key PROVE next[k] = Null \/ Kept(next[k], k[2])
  <2>1. CASE ~ Exists(k)
    BY <2>1 DEF Exists, OnSiteDay, ScannedOn
  <2>2. CASE Exists(k)
    <3>1. Kept(att[k], k[2])
      BY <2>2, KeptRecord DEF Kept
    <3> QED
      BY <3>1, SubmitKept
  <2> QED
    BY <2>1, <2>2
<1>2. att' = next /\ DOMAIN next = Key /\ next = [k \in Key |-> next[k]]
  BY DEF SubmitDayFromFlag
<1> HIDE DEF next
<1>3. att' \in [Key -> Optional(Record)] /\ RecordsKept'
  BY <1>1, <1>2, EveryRecordChanges
<1>4. forgot' \in [SiteDay -> FlagState]
  BY ResolvedType DEF SubmitDayFromFlag, RecordInv, TypeOK
<1> QED
  BY <1>3, <1>4 DEF RecordInv, TypeOK, SubmitDayFromFlag

LEMMA CreateManualDayKeeps ==
    ASSUME RecordInv, NEW w \in Workers, NEW sd \in SiteDay, CreateManualDay(w, sd)
    PROVE  RecordInv'
<1> DEFINE k == <<w, sd[2]>>
<1>1. PICK inHM \in TypedTimes, outHM \in Optional(TypedTimes), shift \in TypedShifts :
          att' = [att EXCEPT ![k] =
                     ManualDay(sd[1], sd[2], inHM, outHM, shift, LunchHours[sd[1]])]
  BY DEF CreateManualDay
<1>2. /\ k \in Key /\ k[2] = sd[2] /\ sd[1] \in Sites /\ sd[2] \in Nat
      /\ LunchHours[sd[1]] \in Nat
      /\ inHM \in TimeOfDay /\ outHM \in Optional(TimeOfDay) /\ shift \in ShiftType
  BY <1>1, SiteConstants, AttendanceAssumption DEF SiteDay, Key, Dates, Optional
<1>3. Kept(ManualDay(sd[1], sd[2], inHM, outHM, shift, LunchHours[sd[1]]), k[2])
  BY <1>2, ManualDaySound DEF Kept
<1> HIDE DEF k
<1>4. att' \in [Key -> Optional(Record)] /\ RecordsKept'
  BY <1>1, <1>2, <1>3, OneRecordChanges
<1> QED
  BY <1>4 DEF RecordInv, TypeOK, CreateManualDay

LEMMA RejectWorkerKeeps ==
    ASSUME RecordInv, NEW k \in Key, RejectWorker(k)
    PROVE  RecordInv'
<1>1. Kept(Reject(att[k]), k[2])
  BY KeptRecord, RejectSound DEF RejectWorker, Kept, OnItsDay
<1>2. att' \in [Key -> Optional(Record)] /\ RecordsKept'
  BY <1>1, OneRecordChanges DEF RejectWorker
<1>3. missed' \in [Key -> FlagState] /\ forgot' \in [SiteDay -> FlagState]
  BY MissedResolvedType, ForgotResolvedType DEF RejectWorker
<1> QED
  BY <1>2, <1>3 DEF RecordInv, TypeOK, RejectWorker

LEMMA CorrectWorkerKeeps ==
    ASSUME RecordInv, NEW k \in Key, CorrectWorker(k)
    PROVE  RecordInv'
<1>1. Exists(k) /\ now' = now /\ att[k].site \in Sites
  BY KeptRecord DEF CorrectWorker, Record
<1>2. PICK inHM \in Optional(TypedTimes), outHM \in Optional(TypedTimes),
           shift \in Optional(TypedShifts) :
         att' = [att EXCEPT ![k] =
                    Correct(@, k[2], inHM, outHM, shift, LunchHours[@.site])]
  BY DEF CorrectWorker
<1>3. /\ inHM \in Optional(TimeOfDay) /\ outHM \in Optional(TimeOfDay)
      /\ shift \in Optional(ShiftType)
  BY <1>2, AttendanceAssumption DEF Optional
<1> DEFINE r == Correct(att[k], k[2], inHM, outHM, shift, LunchHours[att[k].site])
<1>4. Kept(r, k[2])
  BY <1>1, <1>3, KeptRecord, CorrectSound, SiteConstants DEF Kept
<1>5. att' = [att EXCEPT ![k] = r]
  BY <1>2
<1> HIDE DEF r
<1>6. att' \in [Key -> Optional(Record)] /\ RecordsKept'
  BY <1>4, <1>5, OneRecordChanges
<1>7. missed' \in [Key -> FlagState] /\ forgot' \in [SiteDay -> FlagState]
  BY MissedResolvedType, ForgotResolvedType DEF CorrectWorker
<1> QED
  BY <1>1, <1>6, <1>7 DEF RecordInv, TypeOK

LEMMA VoidWorkerKeeps ==
    ASSUME RecordInv, NEW k \in Key, VoidWorker(k)
    PROVE  RecordInv'
<1> DEFINE r == [att[k] EXCEPT !.voided = TRUE]
<1>1. Kept(r, k[2])
  BY KeptRecord, VoidSound DEF VoidWorker, Kept, OnItsDay
<1>2. att' = [att EXCEPT ![k] = r]
  BY DEF VoidWorker
<1> HIDE DEF r
<1>3. att' \in [Key -> Optional(Record)] /\ RecordsKept'
  BY <1>1, <1>2, OneRecordChanges
<1>4. missed' \in [Key -> FlagState] /\ forgot' \in [SiteDay -> FlagState]
  BY MissedResolvedType, ForgotResolvedType DEF VoidWorker
<1> QED
  BY <1>3, <1>4 DEF RecordInv, TypeOK, VoidWorker

LEMMA RecommendOvertimeKeeps ==
    ASSUME RecordInv, NEW k \in Key, RecommendOvertime(k)
    PROVE  RecordInv'
<1> DEFINE r == [att[k] EXCEPT !.overtime.status = "recommended"]
<1>1. /\ att[k] \in Record /\ Sound(att[k]) /\ OnItsDay(att[k], k[2])
      /\ OvertimeUndecided(att[k])
  BY KeptRecord DEF RecommendOvertime, OvertimeUndecided
<1>2. r \in Record /\ Sound(r) /\ r.inTime = att[k].inTime
  BY <1>1, UndecidedIsEarned, StatusDecisionSound DEF OvertimeStatus
<1>3. Kept(r, k[2])
  BY <1>1, <1>2 DEF Kept, OnItsDay
<1>4. att' = [att EXCEPT ![k] = r]
  BY DEF RecommendOvertime
<1> HIDE DEF r
<1>5. att' \in [Key -> Optional(Record)] /\ RecordsKept'
  BY <1>3, <1>4, OneRecordChanges
<1> QED
  BY <1>5 DEF RecordInv, TypeOK, RecommendOvertime

LEMMA EntriesType == Entries \subseteq OvertimeEntry
  BY AttendanceAssumption DEF Entries, OvertimeEntry

LEMMA DecideOvertimeKeeps ==
    ASSUME RecordInv, NEW k \in Key, DecideOvertime(k)
    PROVE  RecordInv'
<1>1. /\ att[k] \in Record /\ Sound(att[k]) /\ OnItsDay(att[k], k[2])
      /\ OvertimeUndecided(att[k])
  BY KeptRecord DEF DecideOvertime
<1>2. PICK r : Kept(r, k[2]) /\ att' = [att EXCEPT ![k] = r]
  <2>1. CASE \E entry \in Entries : att' = [att EXCEPT ![k] = ApproveOvertime(@, entry)]
    <3>1. PICK entry \in Entries : att' = [att EXCEPT ![k] = ApproveOvertime(@, entry)]
      BY <2>1
    <3>2. Kept(ApproveOvertime(att[k], entry), k[2])
      BY <1>1, EntriesType, ApproveOvertimeSound DEF Kept, OnItsDay
    <3> QED
      BY <3>1, <3>2
  <2>2. CASE att' = [att EXCEPT ![k] = RejectOvertime(@)]
    <3>1. Kept(RejectOvertime(att[k]), k[2])
      BY <1>1, RejectOvertimeSound DEF Kept, OnItsDay
    <3> QED
      BY <2>2, <3>1
  <2> QED
    BY <2>1, <2>2 DEF DecideOvertime
<1>3. att' \in [Key -> Optional(Record)] /\ RecordsKept'
  BY <1>2, OneRecordChanges
<1> QED
  BY <1>3 DEF RecordInv, TypeOK, DecideOvertime

LEMMA ClockoutFixedKept ==
    ASSUME RecordInv, NEW k \in Key, Exists(k), NEW hm \in TypedTimes
    PROVE  Kept(ClockoutFixed(k, hm), k[2]) /\ ~ IsOpen(ClockoutFixed(k, hm))
<1> DEFINE r == att[k]
           f == FillOut(r, IstOutDateTime(k[2], hm, r.inTime), LunchHours[r.site])
<1>1. Kept(r, k[2]) /\ k[2] \in Nat /\ LunchHours[r.site] \in Nat
  BY KeptRecord, SiteConstants DEF Kept, Record
<1>2. Kept(f, k[2]) /\ ~ IsOpen(f)
  BY <1>1, FillOutKept
<1>3. ClockoutFixed(k, hm) = IF ~ IsOpen(r) THEN r
                             ELSE IF r.attendanceStatus = "scanned" THEN Submit(f) ELSE f
  BY DEF ClockoutFixed
<1> HIDE DEF f
<1>4. Kept(Submit(f), k[2]) /\ ~ IsOpen(Submit(f))
  BY <1>2, SubmitKept, SubmitSound DEF Kept, IsOpen
<1> QED
  BY <1>1, <1>2, <1>3, <1>4

LEMMA FixClockoutKeeps ==
    ASSUME RecordInv, NEW k \in Key, FixClockout(k)
    PROVE  RecordInv'
<1>1. PICK hm \in TypedTimes : att' = [att EXCEPT ![k] = ClockoutFixed(k, hm)]
  BY DEF FixClockout
<1>2. Kept(ClockoutFixed(k, hm), k[2])
  BY ClockoutFixedKept DEF FixClockout
<1>3. att' \in [Key -> Optional(Record)] /\ RecordsKept'
  BY <1>1, <1>2, OneRecordChanges
<1>4. missed' \in [Key -> FlagState] /\ forgot' \in [SiteDay -> FlagState]
  BY MissedResolvedType, ForgotResolvedType DEF FixClockout
<1> QED
  BY <1>3, <1>4 DEF RecordInv, TypeOK, FixClockout

\* The steps that leave every record alone.
LEMMA FlagStepKeeps ==
    ASSUME RecordInv, ResolveFlag \/ Sweep \/ Tick \/ UNCHANGED vars
    PROVE  RecordInv'
<1>1. att' = att
  BY DEF ResolveFlag, Sweep, SweepMissedClockouts, SweepUnsubmittedDays, Tick, vars
<1>2. att' \in [Key -> Optional(Record)] /\ RecordsKept'
  BY <1>1 DEF RecordInv, TypeOK, RecordsKept, Exists
<1>3. TypeOK'
  <2>1. CASE ResolveFlag
    <3>1. now' = now
      BY <2>1 DEF ResolveFlag
    <3>2. missed' \in [Key -> FlagState]
      BY <2>1, MissedResolvedType DEF ResolveFlag, RecordInv, TypeOK
    <3>3. forgot' \in [SiteDay -> FlagState]
      <4>1. forgot \in [SiteDay -> FlagState]
        BY DEF RecordInv, TypeOK
      <4>2. forgot' = forgot \/ \E sd : forgot' = Resolved(forgot, {sd})
        BY <2>1 DEF ResolveFlag
      <4>3. \A sd : Resolved(forgot, {sd}) \in [SiteDay -> FlagState]
        BY <4>1, ResolvedType, Zenon
      <4> QED
        BY <4>1, <4>2, <4>3
    <3> QED
      BY <1>2, <3>1, <3>2, <3>3 DEF RecordInv, TypeOK
  <2>2. CASE Sweep
    BY <1>2, <2>2
       DEF Sweep, SweepMissedClockouts, SweepUnsubmittedDays, RecordInv, TypeOK, FlagState
  <2>3. CASE Tick
    BY <1>2, <2>3, AttendanceAssumption DEF Tick, RecordInv, TypeOK
  <2>4. CASE UNCHANGED vars
    BY <1>2, <2>4 DEF vars, RecordInv, TypeOK
  <2> QED
    BY <2>1, <2>2, <2>3, <2>4
<1> QED
  BY <1>2, <1>3 DEF RecordInv

LEMMA RecordInvStep == RecordInv /\ [Next]_vars => RecordInv'
<1> SUFFICES ASSUME RecordInv, [Next]_vars PROVE RecordInv'
  OBVIOUS
<1>1. CASE Scan
  BY <1>1, ScanInKeeps, ScanOutKeeps DEF Scan
<1>2. CASE DayRequest
  BY <1>2, SubmitDayKeeps, RecommendDayKeeps, ApproveSiteDayKeeps,
     SubmitDayFromFlagKeeps, CreateManualDayKeeps DEF DayRequest
<1>3. CASE RecordRequest
  BY <1>3, RejectWorkerKeeps, CorrectWorkerKeeps, VoidWorkerKeeps,
     RecommendOvertimeKeeps, DecideOvertimeKeeps, FixClockoutKeeps DEF RecordRequest
<1>4. CASE ResolveFlag \/ Sweep \/ Tick \/ UNCHANGED vars
  BY <1>4, FlagStepKeeps
<1> QED
  BY <1>1, <1>2, <1>3, <1>4 DEF Next

THEOREM RecordInvariance == Spec => []RecordInv
<1> QED
  BY RecordInvInit, RecordInvStep, PTL DEF Spec

\* Every reachable state has well-formed records and flags.
THEOREM TypeCorrect == Spec => []TypeOK
<1>1. RecordInv => TypeOK
  BY DEF RecordInv
<1> QED
  BY <1>1, RecordInvariance, PTL

\* No handler ever moves a record's In time off the day it is keyed by.
THEOREM InTimeStaysOnItsDay == Spec => []InTimeOnItsDay
<1>1. RecordInv => InTimeOnItsDay
  BY DEF RecordInv, RecordsKept, Kept, InTimeOnItsDay
<1> QED
  BY <1>1, RecordInvariance, PTL

\* The hours of a record are always those of its In, its Out and its lunch.
THEOREM HoursAlwaysMatch == Spec => []HoursMatchTimes
<1>1. RecordInv => HoursMatchTimes
  BY DEF RecordInv, RecordsKept, Kept, Sound, HoursMatchTimes
<1> QED
  BY <1>1, RecordInvariance, PTL

\* Overtime is in the approval queue exactly when there is some.
THEOREM OvertimeAlwaysQueued == Spec => []OvertimeQueuedIffEarned
<1>1. RecordInv => OvertimeQueuedIffEarned
  BY DEF RecordInv, RecordsKept, Kept, Sound, OvertimeQueuedIffEarned
<1> QED
  BY <1>1, RecordInvariance, PTL

\* The audit stamps of a day always agree with its status.
THEOREM StampsAlwaysFollow == Spec => []StampsFollowStatus
<1>1. RecordInv => StampsFollowStatus
  BY DEF RecordInv, RecordsKept, Kept, Sound, StampsFollowStatus
<1> QED
  BY <1>1, RecordInvariance, PTL

\* A clocked-in worker always has the open punch an OUT will close.
THEOREM OpenDaysHaveAPunch == Spec => []OpenDayHasOpenPunch
<1>1. RecordInv => OpenDayHasOpenPunch
  BY DEF RecordInv, RecordsKept, Kept, Sound, OpenDayHasOpenPunch
<1> QED
  BY <1>1, RecordInvariance, PTL

\* A closed day is paid, in standard hours and in overtime, as the reports show it.
LEMMA ShownIsPaid ==
    ASSUME NEW r \in Record, HoursMatch(r), ~ IsOpen(r), ~ r.voided, r.attendanceStatus # "rejected"
    PROVE  /\ HoursBreakdown(r).standard = PaidDay(r).normal
           /\ HoursBreakdown(r).otCounted = PaidDay(r).overtime
<1>1. r.inTime \in Nat /\ r.outTime \in Nat /\ r.breakHours \in Nat /\ StandardHours \in Nat
  BY TimeAssumption DEF HoursMatch, IsOpen, Record, Optional
<1> DEFINE span == AtLeastZero(r.outTime - r.inTime)
           paid == AtLeastZero(span - r.breakHours)
<1>2. /\ r.totalHours = span
      /\ r.standardHours = Lesser(paid, StandardHours)
      /\ r.overtime.computedHours = AtLeastZero(paid - StandardHours)
  BY DEF HoursMatch, ReckonHours
<1>3. span \in Nat /\ paid \in Nat /\ paid <= span
  BY <1>1 DEF AtLeastZero
<1>4. HoursBreakdown(r).standard = PaidDay(r).normal
  <2>1. Lesser(span, Lesser(paid, StandardHours)) = Lesser(paid, StandardHours)
    BY <1>1, <1>3 DEF Lesser
  <2> QED
    BY <1>2, <2>1 DEF HoursBreakdown, PaidDay
<1>5. paid = AtLeastZero(r.outTime - r.inTime - r.breakHours)
  BY <1>1 DEF AtLeastZero
<1>6. HoursBreakdown(r).otCounted = PaidDay(r).overtime
  BY <1>2, <1>5 DEF HoursBreakdown, PaidDay, PaidOvertime
<1> QED
  BY <1>4, <1>6

\* The payslip and the reports agree on every day that is paid, whatever was done to it.
THEOREM PaysWhatIsShown == Spec => []PaidAsShown
<1>1. RecordInv => PaidAsShown
  BY ShownIsPaid, KeptRecord DEF PaidAsShown, Sound
<1> QED
  BY <1>1, RecordInvariance, PTL

-----------------------------------------------------------------------------
(* Typed OUTs. *)

FollowsIn(r) == r.outTime - r.inTime \in 1 .. TicksPerDay

\* The OUT a step leaves on a record is none, that of the moment, the one it had, or one
\* that follows the In within a day.
OutIsFine(old, new, moment) ==
    \/ new = Null
    \/ IsOpen(new)
    \/ new.outTime = moment
    \/ old # Null /\ old.outTime = new.outTime
    \/ FollowsIn(new)

\* The OUT a handler computes hours for is the one the record gets, after the same In.
LEMMA HoursOfTheOut ==
    ASSUME NEW r \in Record, NEW out, NEW lunch
    PROVE  /\ WithHours(r, out, lunch).outTime = out /\ WithHours(r, out, lunch).inTime = r.inTime
           /\ FillOut(r, out, lunch).outTime = out /\ FillOut(r, out, lunch).inTime = r.inTime
           /\ CloseSession(r, out, lunch).outTime = out
<1> DEFINE w == WithHours(r, out, lunch)
<1>1. w.outTime = out /\ w.inTime = r.inTime /\ DOMAIN w = DOMAIN r
  BY DEF WithHours, Record
<1>2. FillOut(r, out, lunch) = [w EXCEPT !.sessions = ClosePunch(@)]
  BY DEF FillOut
<1>3. CloseSession(r, out, lunch) = [w EXCEPT !.overtime.approvedHours = Null,
                                              !.sessions = ClosePunch(@)]
  BY DEF CloseSession
<1>4. "outTime" \in DOMAIN w /\ "inTime" \in DOMAIN w
  BY <1>1 DEF Record
<1> HIDE DEF w
<1>5. /\ [w EXCEPT !.sessions = ClosePunch(@)].outTime = w.outTime
      /\ [w EXCEPT !.sessions = ClosePunch(@)].inTime = w.inTime
      /\ [w EXCEPT !.overtime.approvedHours = Null,
                   !.sessions = ClosePunch(@)].outTime = w.outTime
  BY <1>4
<1> QED
  BY <1>1, <1>2, <1>3, <1>5 DEF w

\* A typed OUT follows the In, once the In lies on the day the OUT is typed for.
LEMMA TypedOut ==
    ASSUME NEW r, NEW date \in Nat, NEW hm \in TimeOfDay,
           r.inTime \in Nat, SiteLocalDate(r.inTime) = date,
           r.outTime = IstOutDateTime(date, hm, r.inTime)
    PROVE  FollowsIn(r)
  BY OutAfterIn, TimeAssumption DEF FollowsIn

\* The decisions on a day and on its overtime leave the times alone.
LEMMA DecisionsKeepTimes ==
    ASSUME NEW r \in Record
    PROVE  /\ Submit(r).outTime = r.outTime /\ Submit(r).inTime = r.inTime
           /\ ReRecommend(r).outTime = r.outTime /\ ReRecommend(r).inTime = r.inTime
           /\ ApproveDay(r).outTime = r.outTime
           /\ Reject(r).outTime = r.outTime
           /\ [r EXCEPT !.voided = TRUE].outTime = r.outTime
           /\ [r EXCEPT !.overtime.status = "recommended"].outTime = r.outTime
           /\ SubsumeOvertime(r).outTime = r.outTime
           /\ RejectOvertime(r).outTime = r.outTime
           /\ \A entry : ApproveOvertime(r, entry).outTime = r.outTime
<1>1. /\ Submit(r).outTime = r.outTime /\ Submit(r).inTime = r.inTime
      /\ ReRecommend(r).outTime = r.outTime /\ ReRecommend(r).inTime = r.inTime
      /\ ApproveDay(r).outTime = r.outTime
      /\ [r EXCEPT !.voided = TRUE].outTime = r.outTime
  BY DEF Submit, ReRecommend, ApproveDay, Record
<1>2. Reject(r).outTime = r.outTime
  BY DEF Reject, Record
<1>3. /\ [r EXCEPT !.overtime.status = "recommended"].outTime = r.outTime
      /\ SubsumeOvertime(r).outTime = r.outTime
  BY DEF SubsumeOvertime, Record
<1>4. RejectOvertime(r).outTime = r.outTime
  BY DEF RejectOvertime, Record
<1>5. ASSUME NEW entry PROVE ApproveOvertime(r, entry).outTime = r.outTime
  BY DEF ApproveOvertime, Record
<1> QED
  BY <1>1, <1>2, <1>3, <1>4, <1>5

\* A record whose OUT stays, or which stays as it was.
LEMMA OutStays ==
    ASSUME NEW old, NEW new, NEW moment, new = old \/ (old # Null /\ new.outTime = old.outTime)
    PROVE  OutIsFine(old, new, moment)
  BY DEF OutIsFine

\* One record changes.
LEMMA OneOutChanges ==
    ASSUME RecordInv, NEW k \in Key, NEW r, att' = [att EXCEPT ![k] = r],
           OutIsFine(att[k], r, now)
    PROVE  \A j \in Key : OutIsFine(att[j], att'[j], now)
<1>1. att'[k] = r /\ \A j \in Key \ {k} : att'[j] = att[j]
  BY DEF RecordInv, TypeOK
<1> QED
  BY <1>1, OutStays

\* An OUT filled in for an open record, from the In it has.
LEMMA FilledOut ==
    ASSUME RecordInv, NEW k \in Key, Exists(k), NEW hm \in TypedTimes, NEW lunch \in Nat
    PROVE  LET f == FillOut(att[k], IstOutDateTime(k[2], hm, att[k].inTime), lunch)
           IN  f \in Record /\ FollowsIn(f) /\ FollowsIn(Submit(f))
<1> DEFINE out == IstOutDateTime(k[2], hm, att[k].inTime)
           f   == FillOut(att[k], out, lunch)
<1>1. /\ att[k] \in Record /\ OnItsDay(att[k], k[2]) /\ k[2] \in Nat /\ Kept(att[k], k[2])
      /\ hm \in TimeOfDay /\ att[k].inTime \in Nat
  BY KeptRecord, AttendanceAssumption DEF Kept, Record
<1>2. f.outTime = out /\ f.inTime = att[k].inTime
  BY <1>1, HoursOfTheOut
<1>3. f \in Record
  BY <1>1, FillOutKept DEF Kept
<1>4. FollowsIn(f)
  BY <1>1, <1>2, TypedOut DEF OnItsDay
<1> HIDE DEF f
<1>5. Submit(f).outTime = f.outTime /\ Submit(f).inTime = f.inTime
  BY <1>3, DecisionsKeepTimes
<1>6. FollowsIn(Submit(f))
  BY <1>4, <1>5 DEF FollowsIn
<1> QED
  BY <1>3, <1>4, <1>6 DEF f

\* The supervisor's submit: filled in, or as it was.
LEMMA SubmittedOut ==
    ASSUME RecordInv, NEW sd \in SiteDay, NEW k \in Key, OnSiteDay(k, sd),
           NEW hm \in Optional(TypedTimes)
    PROVE  OutIsFine(att[k], Submitted(sd, k, hm), now)
<1>1. /\ Exists(k) /\ att[k] \in Record /\ k[2] = sd[2] /\ LunchHours[sd[1]] \in Nat
  BY KeptRecord, SiteConstants DEF OnSiteDay, SiteDay
<1>2. CASE IsOpen(att[k]) /\ hm # Null
  <2>1. hm \in TypedTimes
    BY <1>2 DEF Optional
  <2>2. FollowsIn(Submitted(sd, k, hm))
    BY <1>1, <1>2, <2>1, FilledOut DEF Submitted
  <2> QED
    BY <2>2 DEF OutIsFine
<1>3. CASE ~ (IsOpen(att[k]) /\ hm # Null)
  <2>1. Submitted(sd, k, hm) = Submit(att[k])
    BY <1>3 DEF Submitted
  <2> QED
    BY <1>1, <2>1, DecisionsKeepTimes, OutStays DEF Exists
<1> QED
  BY <1>2, <1>3

\* HR's correction: an OUT is typed for the In of the same form, or stays.
LEMMA CorrectedOut ==
    ASSUME NEW r \in Record, Sound(r), NEW date \in Nat, OnItsDay(r, date),
           NEW inHM \in Optional(TimeOfDay), NEW outHM \in Optional(TimeOfDay),
           NEW shiftType \in Optional(ShiftType), NEW lunch \in Nat
    PROVE  OutIsFine(r, Correct(r, date, inHM, outHM, shiftType, lunch), now)
<1> DEFINE in    == IF inHM = Null THEN r.inTime ELSE IstDateTime(date, inHM)
           out   == IF outHM = Null THEN r.outTime ELSE IstOutDateTime(date, outHM, in)
           shift == IF shiftType = Null THEN r.shiftType ELSE shiftType
           e     == Edited(r, in, out, shift)
           c     == Recompute(e, lunch)
           n     == Correct(r, date, inHM, outHM, shiftType, lunch)
<1>1. in \in Nat /\ SiteLocalDate(in) = date
  BY TypedInTime DEF Optional, Record, OnItsDay
<1> HIDE DEF in
<1>2. out \in Optional(Nat)
  BY <1>1, OutAfterIn DEF Optional, Record
<1>3. shift \in ShiftType
  BY DEF Optional, Record
<1>4. n = ReRecommend(c)
  BY DEF Correct, in
<1>5. (outHM = Null => out = r.outTime) /\ (outHM # Null => out = IstOutDateTime(date, outHM, in))
  OBVIOUS
<1> HIDE DEF out, shift, n
<1>6. e \in Record /\ e.outTime = out /\ e.inTime = in
  BY <1>1, <1>2, <1>3 DEF Edited, Record
<1> HIDE DEF e
<1>7. c.outTime = out /\ c.inTime = in
  BY <1>6, HoursOfTheOut DEF Recompute
<1>8. c \in Record
  <2>1. c = e \/ (e.outTime # Null /\ c = WithHours(e, e.outTime, lunch))
    BY DEF Recompute, IsOpen
  <2>2. StampsFollow(e)
    BY <1>6 DEF e, Edited, Sound, StampsFollow, Record
  <2> QED
    BY <1>2, <1>6, <2>1, <2>2, WithHoursSound DEF Optional
<1> HIDE DEF c
<1>9. n.outTime = out /\ n.inTime = in
  BY <1>4, <1>7, <1>8, DecisionsKeepTimes
<1>10. CASE outHM = Null
  BY <1>5, <1>9, <1>10, RecordIsNotNull, OutStays DEF n
<1>11. CASE outHM # Null
  <2>1. FollowsIn(n)
    BY <1>1, <1>5, <1>9, <1>11, TypedOut DEF Optional
  <2> QED
    BY <2>1 DEF OutIsFine, n
<1> QED
  BY <1>10, <1>11

\* A day HR adds: open, or closed by an OUT typed for its In.
LEMMA ManualOut ==
    ASSUME NEW site \in Sites, NEW date \in Nat, NEW inHM \in TimeOfDay,
           NEW outHM \in Optional(TimeOfDay), NEW shiftType \in ShiftType, NEW lunch \in Nat,
           NEW old
    PROVE  OutIsFine(old, ManualDay(site, date, inHM, outHM, shiftType, lunch), now)
<1> DEFINE in   == IstDateTime(date, inHM)
           scan == NewScan(site, shiftType, in)
           day  == [scan EXCEPT !.sessions = << >>]
           w    == WithHours(day, IstOutDateTime(date, outHM, day.inTime), lunch)
           n    == ManualDay(site, date, inHM, outHM, shiftType, lunch)
<1>1. in \in Nat /\ SiteLocalDate(in) = date
  BY TypedInTime
<1> HIDE DEF in
<1>2. scan \in Record /\ scan.inTime = in /\ scan.outTime = Null /\ Sound(scan)
  BY <1>1, NewScanSound DEF NewScan
<1>3. n = ReRecommend(IF outHM = Null THEN day ELSE w)
  BY DEF ManualDay, in
<1> HIDE DEF scan, n
<1>4. << >> \in Seq({"open", "closed"})
  OBVIOUS
<1>5. day \in Record /\ day.inTime = in /\ day.outTime = Null /\ StampsFollow(day)
  BY <1>2, <1>4 DEF Record, Sound, StampsFollow
<1> HIDE DEF day
<1>6. CASE outHM = Null
  <2>1. n.outTime = Null
    BY <1>3, <1>5, <1>6, DecisionsKeepTimes
  <2> QED
    BY <2>1 DEF OutIsFine, IsOpen, n
<1>7. CASE outHM # Null
  <2>1. outHM \in TimeOfDay /\ IstOutDateTime(date, outHM, in) \in Nat
    BY <1>1, <1>7, OutAfterIn DEF Optional
  <2>2. w.outTime = IstOutDateTime(date, outHM, in) /\ w.inTime = in /\ w \in Record
    BY <1>5, <2>1, HoursOfTheOut, WithHoursSound
  <2> HIDE DEF w
  <2>3. n.outTime = IstOutDateTime(date, outHM, in) /\ n.inTime = in
    BY <1>3, <1>7, <2>2, DecisionsKeepTimes
  <2>4. FollowsIn(n)
    BY <1>1, <2>1, <2>3, TypedOut
  <2> QED
    BY <2>4 DEF OutIsFine, n
<1> QED
  BY <1>6, <1>7

LEMMA DayRequestOuts ==
    ASSUME RecordInv, NEW sd \in SiteDay, NEW k \in Key,
           \/ SubmitDay(sd) \/ RecommendDay(sd) \/ ApproveSiteDay(sd) \/ SubmitDayFromFlag(sd)
           \/ \E w \in Workers : CreateManualDay(w, sd)
    PROVE  OutIsFine(att[k], att'[k], now)
<1>1. Exists(k) => att[k] \in Record /\ att[k] # Null
  BY KeptRecord DEF Exists
<1>2. CASE SubmitDay(sd)
  <2>1. PICK fill \in [Workers -> Optional(TypedTimes)] :
            att' = [j \in Key |-> IF j \in ScannedOn(sd)
                                  THEN Submitted(sd, j, fill[j[1]]) ELSE att[j]]
    BY <1>2 DEF SubmitDay
  <2>2. CASE k \in ScannedOn(sd)
    <3>1. OnSiteDay(k, sd) /\ fill[k[1]] \in Optional(TypedTimes)
      BY <2>1, <2>2 DEF ScannedOn, Key
    <3>2. att'[k] = Submitted(sd, k, fill[k[1]])
      BY <2>1, <2>2
    <3> QED
      BY <3>1, <3>2, SubmittedOut
  <2>3. CASE k \notin ScannedOn(sd)
    BY <2>1, <2>3, OutStays
  <2> QED
    BY <2>2, <2>3
<1>3. CASE RecommendDay(sd)
  <2>1. att'[k] = IF OnSiteDay(k, sd) /\ HasStatus(k, "submitted")
                  THEN ReRecommend(att[k]) ELSE att[k]
    BY <1>3 DEF RecommendDay
  <2> QED
    BY <1>1, <2>1, DecisionsKeepTimes, OutStays DEF OnSiteDay
<1>4. CASE ApproveSiteDay(sd)
  <2> DEFINE a == IF HasStatus(k, "recommended") THEN ApproveDay(att[k]) ELSE att[k]
  <2>1. att'[k] = IF ~ OnSiteDay(k, sd) THEN att[k] ELSE SubsumeOvertime(a)
    BY <1>4 DEF ApproveSiteDay, DayApproved
  <2>2. OnSiteDay(k, sd) => a \in Record /\ a.outTime = att[k].outTime
    BY <1>1, DecisionsKeepTimes, ApproveDaySound, KeptRecord DEF OnSiteDay, HasStatus
  <2> HIDE DEF a
  <2> QED
    BY <1>1, <2>1, <2>2, DecisionsKeepTimes, OutStays DEF OnSiteDay
<1>5. CASE SubmitDayFromFlag(sd)
  <2>1. att'[k] = IF k \in ScannedOn(sd) THEN Submit(att[k]) ELSE att[k]
    BY <1>5 DEF SubmitDayFromFlag
  <2> QED
    BY <1>1, <2>1, DecisionsKeepTimes, OutStays DEF OnSiteDay, ScannedOn
<1>6. CASE \E w \in Workers : CreateManualDay(w, sd)
  <2>1. PICK w \in Workers : CreateManualDay(w, sd)
    BY <1>6
  <2>2. PICK inHM \in TypedTimes, outHM \in Optional(TypedTimes), shift \in TypedShifts :
            att' = [att EXCEPT ![<<w, sd[2]>>] =
                       ManualDay(sd[1], sd[2], inHM, outHM, shift, LunchHours[sd[1]])]
    BY <2>1 DEF CreateManualDay
  <2>3. /\ sd[1] \in Sites /\ sd[2] \in Nat /\ <<w, sd[2]>> \in Key /\ LunchHours[sd[1]] \in Nat
        /\ inHM \in TimeOfDay /\ outHM \in Optional(TimeOfDay) /\ shift \in ShiftType
    BY SiteConstants, AttendanceAssumption DEF SiteDay, Key, Dates, Optional
  <2> QED
    BY <2>2, <2>3, ManualOut, OneOutChanges
<1> QED
  BY <1>2, <1>3, <1>4, <1>5, <1>6

LEMMA RecordRequestOuts ==
    ASSUME RecordInv, NEW k \in Key,
           \/ RejectWorker(k) \/ CorrectWorker(k) \/ VoidWorker(k)
           \/ RecommendOvertime(k) \/ DecideOvertime(k) \/ FixClockout(k)
    PROVE  \A j \in Key : OutIsFine(att[j], att'[j], now)
<1>1. Exists(k)
  BY DEF RejectWorker, CorrectWorker, VoidWorker, RecommendOvertime, DecideOvertime, FixClockout
<1>2. /\ att[k] \in Record /\ att[k] # Null /\ Sound(att[k]) /\ OnItsDay(att[k], k[2])
      /\ k[2] \in Nat /\ LunchHours[att[k].site] \in Nat
  BY <1>1, KeptRecord, SiteConstants DEF Exists, Record
<1> SUFFICES \E r : att' = [att EXCEPT ![k] = r] /\ OutIsFine(att[k], r, now)
  BY OneOutChanges
<1>3. CASE RejectWorker(k)
  <2>1. att' = [att EXCEPT ![k] = Reject(att[k])]
    BY <1>3 DEF RejectWorker
  <2> QED
    BY <1>2, <2>1, DecisionsKeepTimes, OutStays
<1>4. CASE CorrectWorker(k)
  <2>1. PICK inHM \in Optional(TypedTimes), outHM \in Optional(TypedTimes),
             shift \in Optional(TypedShifts) :
            att' = [att EXCEPT ![k] =
                       Correct(att[k], k[2], inHM, outHM, shift, LunchHours[att[k].site])]
    BY <1>4 DEF CorrectWorker
  <2>2. /\ inHM \in Optional(TimeOfDay) /\ outHM \in Optional(TimeOfDay)
        /\ shift \in Optional(ShiftType)
    BY AttendanceAssumption DEF Optional
  <2> QED
    BY <1>2, <2>1, <2>2, CorrectedOut
<1>5. CASE VoidWorker(k)
  <2>1. att' = [att EXCEPT ![k] = [att[k] EXCEPT !.voided = TRUE]]
    BY <1>5 DEF VoidWorker
  <2> QED
    BY <1>2, <2>1, DecisionsKeepTimes, OutStays
<1>6. CASE RecommendOvertime(k)
  <2>1. att' = [att EXCEPT ![k] = [att[k] EXCEPT !.overtime.status = "recommended"]]
    BY <1>6 DEF RecommendOvertime
  <2> QED
    BY <1>2, <2>1, DecisionsKeepTimes, OutStays
<1>7. CASE DecideOvertime(k)
  <2>1. \/ \E entry : att' = [att EXCEPT ![k] = ApproveOvertime(att[k], entry)]
        \/ att' = [att EXCEPT ![k] = RejectOvertime(att[k])]
    BY <1>7 DEF DecideOvertime
  <2> QED
    BY <1>2, <2>1, DecisionsKeepTimes, OutStays
<1>8. CASE FixClockout(k)
  <2>1. PICK hm \in TypedTimes : att' = [att EXCEPT ![k] = ClockoutFixed(k, hm)]
    BY <1>8 DEF FixClockout
  <2>2. ClockoutFixed(k, hm) = att[k] \/ FollowsIn(ClockoutFixed(k, hm))
    BY <1>1, <1>2, FilledOut DEF ClockoutFixed
  <2> QED
    BY <2>1, <2>2, OutStays DEF OutIsFine
<1> QED
  BY <1>3, <1>4, <1>5, <1>6, <1>7, <1>8

LEMMA ScanOuts ==
    ASSUME RecordInv, NEW w \in Workers, NEW s \in Sites, ScanIn(w, s) \/ ScanOut(w, s)
    PROVE  \A j \in Key : OutIsFine(att[j], att'[j], now)
<1>1. CASE ScanIn(w, s)
  <2> DEFINE k == Today(w)
  <2>1. k \in Key
    BY <1>1 DEF ScanIn
  <2>2. CASE att' = [att EXCEPT ![k] = NewScan(s, SelectShift(Shifts[s], now), now)]
    <3>1. OutIsFine(att[k], NewScan(s, SelectShift(Shifts[s], now), now), now)
      BY DEF OutIsFine, IsOpen, NewScan
    <3> QED
      BY <2>1, <2>2, <3>1, OneOutChanges
  <2>3. CASE Exists(k) /\ att' = [att EXCEPT ![k] = ReopenSession(att[k])]
    <3>1. ReopenSession(att[k]).outTime = Null
      BY <2>1, <2>3, KeptRecord DEF ReopenSession, Record
    <3>2. OutIsFine(att[k], ReopenSession(att[k]), now)
      BY <3>1 DEF OutIsFine, IsOpen
    <3> QED
      BY <2>1, <2>3, <3>2, OneOutChanges
  <2> QED
    BY <1>1, <2>2, <2>3 DEF ScanIn
<1>2. CASE ScanOut(w, s)
  <2>1. PICK k \in OpenSessions(w, s) :
            att' = [att EXCEPT ![k] = CloseSession(att[k], now, LunchHours[s])]
    BY <1>2 DEF ScanOut
  <2>2. k \in Key /\ att[k] \in Record
    BY KeptRecord DEF OpenSessions
  <2>3. CloseSession(att[k], now, LunchHours[s]).outTime = now
    BY <2>2, HoursOfTheOut
  <2>4. OutIsFine(att[k], CloseSession(att[k], now, LunchHours[s]), now)
    BY <2>3 DEF OutIsFine
  <2> QED
    BY <2>1, <2>2, <2>4, OneOutChanges
<1> QED
  BY <1>1, <1>2

\* A typed OUT always lies after the In of its record and within a day of it, whoever types
\* it and whatever was done to the In before.
THEOREM TypedOutsFollowIns == Spec => TypedOutFollowsIn
<1>1. ASSUME RecordInv, [Next]_vars PROVE \A k \in Key : OutIsFine(att[k], att'[k], now)
  <2>1. CASE Scan
    BY <1>1, <2>1, ScanOuts DEF Scan
  <2>2. CASE DayRequest
    BY <1>1, <2>2, DayRequestOuts DEF DayRequest
  <2>3. CASE RecordRequest
    BY <1>1, <2>3, RecordRequestOuts DEF RecordRequest
  <2>4. CASE ResolveFlag \/ Sweep \/ Tick \/ UNCHANGED vars
    <3>1. att' = att
      BY <2>4 DEF ResolveFlag, Sweep, SweepMissedClockouts, SweepUnsubmittedDays, Tick, vars
    <3> QED
      BY <3>1, OutStays
  <2> QED
    BY <1>1, <2>1, <2>2, <2>3, <2>4 DEF Next
<1> DEFINE Follows ==
      \A k \in Key :
         LET r == att'[k]
         IN  /\ r # Null /\ ~ IsOpen(r) /\ r.outTime # now
             /\ att[k] # Null => att[k].outTime # r.outTime
             => r.outTime - r.inTime \in 1 .. TicksPerDay
<1>2. RecordInv /\ [Next]_vars => [Follows]_vars
  BY <1>1 DEF OutIsFine, FollowsIn
<1> QED
  BY <1>2, RecordInvariance, PTL DEF Spec, TypedOutFollowsIn

=============================================================================
