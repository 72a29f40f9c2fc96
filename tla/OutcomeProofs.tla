---------------------------- MODULE OutcomeProofs ---------------------------
(***************************************************************************)
(* What the attendance core's edits come to, for every set of workers and  *)
(* sites.  The flags queue reflects reality: an unresolved flag always     *)
(* points at work that is still to be done.  And the core implements the   *)
(* approval gate: each edit of a record is a move the gate allows, and     *)
(* every step edits each record at most once.                              *)
(*                                                                         *)
(* The invariants of the flags are inductive beside RecordInv.  A flag is  *)
(* born real (the sweeps), and a step that takes its reason away also      *)
(* resolves it; what has to be shown of every other step is that it leaves *)
(* the reason in place, which is a statement about four fields of the      *)
(* records.                                                                *)
(***************************************************************************)
EXTENDS AttendanceProofs

FlagInv == RecordInv /\ MissedFlagIsReal /\ ForgotFlagIsReal

-----------------------------------------------------------------------------
(* What the edits leave alone. *)

\* Neither the scanning worker nor any approver moves a record or unvoids it.
SamePlace(n, r) == n.site = r.site /\ n.voided = r.voided

LEMMA ReopenSessionPlace ==
    ASSUME NEW r \in Record
    PROVE  LET n == ReopenSession(r)
           IN  /\ SamePlace(n, r) /\ n.outTime = Null
               /\ n.attendanceStatus = "scanned"
  BY DEF ReopenSession, SamePlace, Record

LEMMA WithHoursPlace ==
    ASSUME NEW r \in Record, NEW t, NEW lunch
    PROVE  LET n == WithHours(r, t, lunch)
           IN  SamePlace(n, r) /\ n.attendanceStatus = r.attendanceStatus
  BY DEF WithHours, SamePlace, Record

LEMMA CloseSessionPlace ==
    ASSUME NEW r \in Record, NEW t, NEW lunch
    PROVE  LET n == CloseSession(r, t, lunch)
           IN  SamePlace(n, r) /\ n.attendanceStatus = r.attendanceStatus
<1> DEFINE h == WithHours(r, t, lunch)
<1>1. SamePlace(h, r) /\ h.attendanceStatus = r.attendanceStatus
  BY WithHoursPlace
<1>2. DOMAIN h = DOMAIN r
  BY DEF WithHours
<1>3. CloseSession(r, t, lunch)
        = [h EXCEPT !.overtime.approvedHours = Null, !.sessions = ClosePunch(@)]
  BY DEF CloseSession
<1> HIDE DEF h
<1> QED
  BY <1>1, <1>2, <1>3 DEF SamePlace, Record

LEMMA FillOutPlace ==
    ASSUME NEW r \in Record, NEW t, NEW lunch
    PROVE  SamePlace(FillOut(r, t, lunch), r)
<1> DEFINE h == WithHours(r, t, lunch)
<1>1. SamePlace(h, r)
  BY WithHoursPlace
<1>2. DOMAIN h = DOMAIN r
  BY DEF WithHours
<1>3. FillOut(r, t, lunch) = [h EXCEPT !.sessions = ClosePunch(@)]
  BY DEF FillOut
<1> HIDE DEF h
<1> QED
  BY <1>1, <1>2, <1>3 DEF SamePlace, Record

LEMMA SubmitPlace ==
    ASSUME NEW r \in Record
    PROVE  SamePlace(Submit(r), r) /\ Submit(r).outTime = r.outTime
  BY DEF Submit, SamePlace, Record

LEMMA ReRecommendPlace ==
    ASSUME NEW r \in Record
    PROVE  SamePlace(ReRecommend(r), r) /\ ReRecommend(r).outTime = r.outTime
  BY DEF ReRecommend, SamePlace, Record

LEMMA ApproveDayPlace ==
    ASSUME NEW r \in Record
    PROVE  SamePlace(ApproveDay(r), r) /\ ApproveDay(r).outTime = r.outTime
  BY DEF ApproveDay, SamePlace, Record

LEMMA RejectPlace ==
    ASSUME NEW r \in Record
    PROVE  SamePlace(Reject(r), r)
  BY DEF Reject, SamePlace, Record

\* Overtime decisions touch nothing but the overtime.
OnlyOvertime(n, r) ==
    /\ SamePlace(n, r)
    /\ n.outTime = r.outTime
    /\ n.attendanceStatus = r.attendanceStatus

LEMMA ApproveOvertimeOnly ==
    ASSUME NEW r \in Record, NEW entry
    PROVE  OnlyOvertime(ApproveOvertime(r, entry), r)
  BY DEF ApproveOvertime, OnlyOvertime, SamePlace, Record

LEMMA RejectOvertimeOnly ==
    ASSUME NEW r \in Record
    PROVE  OnlyOvertime(RejectOvertime(r), r)
  BY DEF RejectOvertime, OnlyOvertime, SamePlace, Record

LEMMA SubsumeOvertimeOnly ==
    ASSUME NEW r \in Record
    PROVE  OnlyOvertime(SubsumeOvertime(r), r)
  BY DEF SubsumeOvertime, OnlyOvertime, SamePlace, Record

LEMMA RecomputePlace ==
    ASSUME NEW r \in Record, NEW e, DOMAIN e = DOMAIN r, SamePlace(e, r), NEW lunch
    PROVE  SamePlace(Recompute(e, lunch), r) /\ DOMAIN Recompute(e, lunch) = DOMAIN r
<1>1. "site" \in DOMAIN e /\ "voided" \in DOMAIN e
  BY DEF Record
<1>2. ASSUME NEW t PROVE LET n == WithHours(e, t, lunch)
                         IN  DOMAIN n = DOMAIN e /\ n.site = e.site /\ n.voided = e.voided
  BY <1>1 DEF WithHours
<1> QED
  BY <1>2 DEF Recompute, SamePlace

LEMMA CorrectPlace ==
    ASSUME NEW r \in Record, NEW date, NEW inHM, NEW outHM, NEW shiftType, NEW lunch
    PROVE  SamePlace(Correct(r, date, inHM, outHM, shiftType, lunch), r)
<1> DEFINE in    == IF inHM = Null THEN r.inTime ELSE IstDateTime(date, inHM)
           out   == IF outHM = Null THEN r.outTime ELSE IstOutDateTime(date, outHM, in)
           shift == IF shiftType = Null THEN r.shiftType ELSE shiftType
<1>1. Correct(r, date, inHM, outHM, shiftType, lunch)
        = ReRecommend(Recompute(Edited(r, in, out, shift), lunch))
  BY DEF Correct
<1> HIDE DEF in, out, shift
<1> DEFINE e == Edited(r, in, out, shift)
<1>2. DOMAIN e = DOMAIN r /\ SamePlace(e, r)
  BY DEF Edited, SamePlace, Record
<1> HIDE DEF e
<1> DEFINE n == Recompute(e, lunch)
<1>3. SamePlace(n, r) /\ DOMAIN n = DOMAIN r
  BY <1>2, RecomputePlace
<1> HIDE DEF n
<1>4. SamePlace(ReRecommend(n), r)
  BY <1>3 DEF ReRecommend, SamePlace, Record
<1> QED
  BY <1>1, <1>4 DEF n, e

-----------------------------------------------------------------------------
(* What the steps leave alone. *)

\* A record whose missed clock-out is still to be fixed.
Waiting(r) == r # Null /\ IsOpen(r) /\ ~ r.voided

\* Nothing but flags that were open stays open.
LEMMA StillOpen ==
    ASSUME NEW D, NEW flags \in [D -> FlagState], NEW ids, NEW f \in D,
           Resolved(flags, ids)[f] = "open"
    PROVE  flags[f] = "open" /\ f \notin ids
  BY DEF Resolved

\* Unresolved missed_clockout flags stay real when whatever closes or voids a
\* record resolves its flag.
LEMMA MissedStaysReal ==
    ASSUME FlagInv, NEW ids, ResolveMissedClockout(ids),
           \A k \in Key : k \notin ids /\ Waiting(att[k]) => Waiting(att'[k])
    PROVE  MissedFlagIsReal'
<1>1. missed \in [Key -> FlagState]
  BY DEF FlagInv, RecordInv, TypeOK
<1>2. ASSUME NEW k \in Key, missed'[k] = "open" PROVE Waiting(att'[k])
  <2>1. missed[k] = "open" /\ k \notin ids
    BY <1>1, <1>2, StillOpen DEF ResolveMissedClockout
  <2>2. Waiting(att[k])
    BY <2>1 DEF FlagInv, MissedFlagIsReal, Waiting, Exists
  <2> QED
    BY <2>1, <2>2
<1> QED
  BY <1>2 DEF MissedFlagIsReal, Waiting, Exists, IsOpen

LEMMA MissedUntouched ==
    ASSUME FlagInv, missed' = missed,
           \A k \in Key : Waiting(att[k]) => Waiting(att'[k])
    PROVE  MissedFlagIsReal'
  BY DEF FlagInv, MissedFlagIsReal, Waiting, Exists, IsOpen

\* A record that keeps its site-day unsubmitted.
Pending(r, k, sd) ==
    /\ r # Null /\ r.site = sd[1] /\ k[2] = sd[2]
    /\ r.attendanceStatus = "scanned" /\ ~ r.voided

LEMMA UnsubmittedPending ==
    ASSUME NEW records, NEW sd
    PROVE  Unsubmitted(records, sd) = {k \in Key : Pending(records[k], k, sd)}
  BY DEF Unsubmitted, Pending

\* Unresolved forgot_submit flags stay real when only the given site-day may lose
\* an unsubmitted record, and its flag is resolved with the last of them.
LEMMA ForgotStaysReal ==
    ASSUME FlagInv, NEW sd \in SiteDay, ResolveForgotSubmit(sd),
           \A d \in SiteDay, k \in Key :
              d # sd /\ Pending(att[k], k, d) => Pending(att'[k], k, d)
    PROVE  ForgotFlagIsReal'
<1>1. forgot \in [SiteDay -> FlagState]
  BY DEF FlagInv, RecordInv, TypeOK
<1>2. ASSUME NEW d \in SiteDay, forgot'[d] = "open" PROVE Unsubmitted(att', d) # {}
  <2>1. CASE Unsubmitted(att', sd) = {}
    <3>1. forgot[d] = "open" /\ d # sd
      BY <1>1, <1>2, <2>1, StillOpen DEF ResolveForgotSubmit
    <3>2. PICK k \in Key : Pending(att[k], k, d)
      BY <3>1, UnsubmittedPending DEF FlagInv, ForgotFlagIsReal
    <3> QED
      BY <3>1, <3>2, UnsubmittedPending
  <2>2. CASE Unsubmitted(att', sd) # {} /\ d # sd
    <3>1. forgot[d] = "open"
      BY <1>2, <2>2 DEF ResolveForgotSubmit
    <3>2. PICK k \in Key : Pending(att[k], k, d)
      BY <3>1, UnsubmittedPending DEF FlagInv, ForgotFlagIsReal
    <3> QED
      BY <2>2, <3>2, UnsubmittedPending
  <2> QED
    BY <2>1, <2>2
<1> QED
  BY <1>2 DEF ForgotFlagIsReal, Unsubmitted

LEMMA ForgotUntouched ==
    ASSUME FlagInv, forgot' = forgot,
           \A d \in SiteDay, k \in Key : Pending(att[k], k, d) => Pending(att'[k], k, d)
    PROVE  ForgotFlagIsReal'
<1>1. ASSUME NEW d \in SiteDay, forgot[d] = "open" PROVE Unsubmitted(att', d) # {}
  <2>1. PICK k \in Key : Pending(att[k], k, d)
    BY <1>1, UnsubmittedPending DEF FlagInv, ForgotFlagIsReal
  <2> QED
    BY <2>1, UnsubmittedPending
<1> QED
  BY <1>1 DEF ForgotFlagIsReal, Unsubmitted

-----------------------------------------------------------------------------
(* The steps, one by one.  RecordInv is kept by the lemmas of AttendanceProofs. *)

\* Both kinds of flags stay real.
FlagsReal == MissedFlagIsReal /\ ForgotFlagIsReal

LEMMA Edit ==
    ASSUME RecordInv, NEW k \in Key, NEW r, att' = [att EXCEPT ![k] = r]
    PROVE  att'[k] = r /\ \A j \in Key : j # k => att'[j] = att[j]
  BY DEF RecordInv, TypeOK

LEMMA ExistingRecord ==
    ASSUME RecordInv, NEW k \in Key, Exists(k)
    PROVE  att[k] \in Record /\ <<att[k].site, k[2]>> \in SiteDay
  BY KeptRecord, AttendanceAssumption DEF SiteDay, Key, Record

\* An edit that closes no record, voids none and submits none.
LEMMA HarmlessEdit ==
    ASSUME FlagInv, UNCHANGED <<missed, forgot>>,
           \A k \in Key : Exists(k) =>
              /\ att'[k] # Null /\ SamePlace(att'[k], att[k])
              /\ IsOpen(att[k]) => IsOpen(att'[k])
              /\ att[k].attendanceStatus = "scanned"
                   => att'[k].attendanceStatus = "scanned"
    PROVE  FlagsReal'
<1>1. \A k \in Key : Waiting(att[k]) => Waiting(att'[k])
  BY DEF Waiting, Exists, SamePlace
<1>2. \A d \in SiteDay, k \in Key : Pending(att[k], k, d) => Pending(att'[k], k, d)
  BY DEF Pending, Exists, SamePlace
<1> QED
  BY <1>1, <1>2, MissedUntouched, ForgotUntouched DEF FlagsReal

\* A decision on one record by the chain or HR: its missed flag is resolved when
\* it may have stopped waiting, and its site-day is looked at again.
LEMMA DecidedRecord ==
    ASSUME FlagInv, NEW k \in Key, Exists(k), NEW r, att' = [att EXCEPT ![k] = r],
           r.site = att[k].site,
           NEW ids, ResolveMissedClockout(ids),
           k \in ids \/ (Waiting(att[k]) => Waiting(r)),
           ResolveForgotSubmit(<<att[k].site, k[2]>>)
    PROVE  FlagsReal'
<1>1. RecordInv /\ <<att[k].site, k[2]>> \in SiteDay
  BY ExistingRecord DEF FlagInv
<1>2. att'[k] = r /\ \A j \in Key : j # k => att'[j] = att[j]
  BY <1>1, Edit
<1>3. MissedFlagIsReal'
  BY <1>2, MissedStaysReal
<1>4. ASSUME NEW d \in SiteDay, NEW j \in Key, d # <<att[k].site, k[2]>>,
             Pending(att[j], j, d)
      PROVE  Pending(att'[j], j, d)
  <2>1. j # k
    BY <1>4 DEF Pending, SiteDay
  <2> QED
    BY <1>2, <1>4, <2>1
<1>5. ForgotFlagIsReal'
  BY <1>1, <1>4, ForgotStaysReal
<1> QED
  BY <1>3, <1>5 DEF FlagsReal

LEMMA ScanInFlags ==
    ASSUME FlagInv, NEW w \in Workers, NEW s \in Sites, ScanIn(w, s)
    PROVE  FlagsReal'
<1> DEFINE k == Today(w)
<1>1. RecordInv /\ k \in Key /\ UNCHANGED <<missed, forgot>>
  BY DEF FlagInv, ScanIn
<1> HIDE DEF k
<1>2. CASE ~ Exists(k) /\ \E r : att' = [att EXCEPT ![k] = r]
  <2>1. \A j \in Key : Exists(j) => att'[j] = att[j]
    BY <1>1, <1>2, Edit
  <2> QED
    BY <1>1, <2>1, HarmlessEdit DEF Exists, SamePlace
<1>3. CASE Exists(k) /\ att' = [att EXCEPT ![k] = ReopenSession(@)]
  <2>1. att'[k] = ReopenSession(att[k]) /\ \A j \in Key : j # k => att'[j] = att[j]
    BY <1>1, <1>3, Edit
  <2>2. att[k] \in Record
    BY <1>1, <1>3, ExistingRecord
  <2>3. ReopenSession(att[k]) \in Record
    BY <1>1, <1>3, KeptRecord, ReopenSessionSound
  <2>4. ASSUME NEW j \in Key, Exists(j)
        PROVE  /\ att'[j] # Null /\ SamePlace(att'[j], att[j])
               /\ IsOpen(att[j]) => IsOpen(att'[j])
               /\ att[j].attendanceStatus = "scanned"
                    => att'[j].attendanceStatus = "scanned"
    BY <2>1, <2>2, <2>3, <2>4, ReopenSessionPlace, RecordIsNotNull
       DEF Exists, SamePlace, IsOpen
  <2> QED
    BY <1>1, <2>4, HarmlessEdit
<1> QED
  BY <1>2, <1>3 DEF ScanIn, k

LEMMA ScanOutFlags ==
    ASSUME FlagInv, NEW w \in Workers, NEW s \in Sites, ScanOut(w, s)
    PROVE  FlagsReal'
<1>1. PICK k \in OpenSessions(w, s) :
          /\ att' = [att EXCEPT ![k] = CloseSession(@, now, LunchHours[s])]
          /\ ResolveMissedClockout({k})
  BY DEF ScanOut
<1> DEFINE r == CloseSession(att[k], now, LunchHours[s])
<1>2. RecordInv /\ k \in Key /\ Exists(k) /\ forgot' = forgot /\ att[k] \in Record
  BY <1>1, ExistingRecord DEF FlagInv, OpenSessions, ScanOut
<1>3. now \in Nat /\ LunchHours[s] \in Nat
  BY <1>2, SiteConstants DEF RecordInv, TypeOK
<1>4. /\ r # Null /\ SamePlace(r, att[k])
      /\ r.attendanceStatus = att[k].attendanceStatus
  BY <1>2, <1>3, KeptRecord, CloseSessionSound, CloseSessionPlace, RecordIsNotNull
<1>5. att' = [att EXCEPT ![k] = r]
  BY <1>1
<1> HIDE DEF r
<1>6. att'[k] = r /\ \A j \in Key : j # k => att'[j] = att[j]
  BY <1>2, <1>5, Edit
<1>7. MissedFlagIsReal'
  BY <1>1, <1>6, MissedStaysReal
<1>8. ASSUME NEW d \in SiteDay, NEW j \in Key, Pending(att[j], j, d)
      PROVE  Pending(att'[j], j, d)
  BY <1>4, <1>6, <1>8 DEF Pending, SamePlace
<1> QED
  BY <1>2, <1>7, <1>8, ForgotUntouched DEF FlagsReal

\* Only records of the site-day that were scanned are submitted.
LEMMA SubmitDayFlags ==
    ASSUME FlagInv, NEW sd \in SiteDay, SubmitDay(sd)
    PROVE  FlagsReal'
<1>1. PICK fill \in [Workers -> Optional(TypedTimes)] :
          /\ att' = [k \in Key |-> IF k \in ScannedOn(sd)
                                   THEN Submitted(sd, k, fill[k[1]]) ELSE att[k]]
          /\ ResolveMissedClockout({k \in ScannedOn(sd) : ~ IsOpen(att'[k])})
          /\ ResolveForgotSubmit(sd)
  BY DEF SubmitDay
<1> DEFINE ids == {k \in ScannedOn(sd) : ~ IsOpen(att'[k])}
<1>2. ASSUME NEW k \in Key, k \notin ids, Waiting(att[k]) PROVE Waiting(att'[k])
  <2>1. CASE k \notin ScannedOn(sd)
    BY <1>1, <1>2, <2>1
  <2>2. CASE k \in ScannedOn(sd)
    <3> DEFINE hm == fill[k[1]]
               f  == FillOut(att[k], IstOutDateTime(sd[2], hm, att[k].inTime),
                             LunchHours[sd[1]])
               r  == IF IsOpen(att[k]) /\ hm # Null THEN f ELSE att[k]
    <3>1. OnSiteDay(k, sd) /\ Exists(k) /\ hm \in Optional(TypedTimes) /\ RecordInv
      BY <2>2, <1>1 DEF ScannedOn, Key, HasStatus, FlagInv
    <3>2. Kept(Submitted(sd, k, hm), k[2])
      BY <3>1, SubmittedKept
    <3>3. att'[k] = Submitted(sd, k, hm)
      BY <1>1, <2>2
    <3>4. att'[k] # Null /\ IsOpen(att'[k])
      BY <1>2, <2>2, <3>2, <3>3, RecordIsNotNull DEF Kept
    <3>5. att[k] \in Record
      BY <3>1, ExistingRecord
    <3>6. f.voided = att[k].voided
      BY <3>5, FillOutPlace DEF SamePlace
    <3>7. "voided" \in DOMAIN f
      BY <3>5 DEF FillOut, WithHours, Record
    <3>8. Submitted(sd, k, hm) = Submit(r)
      BY DEF Submitted
    <3>9. r.voided = att[k].voided /\ "voided" \in DOMAIN r
      BY <3>5, <3>6, <3>7 DEF Record
    <3> HIDE DEF r
    <3>10. Submit(r).voided = att[k].voided
      BY <3>9 DEF Submit
    <3> QED
      BY <1>2, <3>3, <3>4, <3>8, <3>10 DEF Waiting
  <2> QED
    BY <2>1, <2>2
<1>3. ASSUME NEW d \in SiteDay, NEW k \in Key, d # sd, Pending(att[k], k, d)
      PROVE  Pending(att'[k], k, d)
  <2>1. k \notin ScannedOn(sd)
    BY <1>3 DEF Pending, SiteDay, ScannedOn, OnSiteDay
  <2> QED
    BY <1>1, <1>3, <2>1
<1>4. MissedFlagIsReal'
  BY <1>1, <1>2, MissedStaysReal
<1>5. ForgotFlagIsReal'
  BY <1>1, <1>3, ForgotStaysReal
<1> QED
  BY <1>4, <1>5 DEF FlagsReal

LEMMA RecommendDayFlags ==
    ASSUME FlagInv, NEW sd \in SiteDay, RecommendDay(sd)
    PROVE  FlagsReal'
<1>1. ASSUME NEW k \in Key, Exists(k)
      PROVE  /\ att'[k] # Null /\ SamePlace(att'[k], att[k])
             /\ IsOpen(att[k]) => IsOpen(att'[k])
             /\ att[k].attendanceStatus = "scanned"
                  => att'[k].attendanceStatus = "scanned"
  <2>1. att[k] \in Record /\ Sound(att[k])
    BY <1>1, KeptRecord DEF FlagInv
  <2>2. CASE OnSiteDay(k, sd) /\ HasStatus(k, "submitted")
    <3>1. att'[k] = ReRecommend(att[k]) /\ ReRecommend(att[k]) \in Record
      BY <2>1, <2>2, ReRecommendSound DEF RecommendDay
    <3> QED
      BY <2>1, <2>2, <3>1, ReRecommendPlace, RecordIsNotNull DEF HasStatus, IsOpen
  <2>3. CASE ~ (OnSiteDay(k, sd) /\ HasStatus(k, "submitted"))
    <3>1. att'[k] = att[k]
      BY <2>3 DEF RecommendDay
    <3> QED
      BY <1>1, <3>1 DEF Exists, SamePlace
  <2> QED
    BY <2>2, <2>3
<1> QED
  BY <1>1, HarmlessEdit DEF RecommendDay

LEMMA ApproveSiteDayFlags ==
    ASSUME FlagInv, NEW sd \in SiteDay, ApproveSiteDay(sd)
    PROVE  FlagsReal'
<1>1. ASSUME NEW k \in Key, Exists(k)
      PROVE  /\ att'[k] # Null /\ SamePlace(att'[k], att[k])
             /\ IsOpen(att[k]) => IsOpen(att'[k])
             /\ att[k].attendanceStatus = "scanned"
                  => att'[k].attendanceStatus = "scanned"
  <2>1. att[k] \in Record /\ Sound(att[k])
    BY <1>1, KeptRecord DEF FlagInv
  <2> DEFINE r == IF HasStatus(k, "recommended") THEN ApproveDay(att[k]) ELSE att[k]
  <2>2. /\ r \in Record /\ Sound(r) /\ SamePlace(r, att[k]) /\ r.outTime = att[k].outTime
        /\ att[k].attendanceStatus = "scanned" => r.attendanceStatus = "scanned"
    BY <2>1, ApproveDaySound, ApproveDayPlace DEF HasStatus, SamePlace
  <2>3. att'[k] = IF OnSiteDay(k, sd) THEN SubsumeOvertime(r) ELSE att[k]
    BY DEF ApproveSiteDay, DayApproved
  <2> HIDE DEF r
  <2>4. SubsumeOvertime(r) \in Record /\ OnlyOvertime(SubsumeOvertime(r), r)
    BY <2>2, SubsumeOvertimeSound, SubsumeOvertimeOnly
  <2> QED
    BY <1>1, <2>2, <2>3, <2>4, RecordIsNotNull DEF Exists, SamePlace, OnlyOvertime, IsOpen
<1> QED
  BY <1>1, HarmlessEdit DEF ApproveSiteDay

LEMMA SubmitDayFromFlagFlags ==
    ASSUME FlagInv, NEW sd \in SiteDay, SubmitDayFromFlag(sd)
    PROVE  FlagsReal'
<1>1. ASSUME NEW k \in Key, Waiting(att[k]) PROVE Waiting(att'[k])
  <2>1. att[k] \in Record /\ Sound(att[k])
    BY <1>1, KeptRecord DEF FlagInv, Waiting, Exists
  <2>2. Submit(att[k]) # Null /\ SamePlace(Submit(att[k]), att[k])
        /\ Submit(att[k]).outTime = att[k].outTime
    BY <2>1, SubmitSound, SubmitPlace, RecordIsNotNull
  <2>3. att'[k] = Submit(att[k]) \/ att'[k] = att[k]
    BY DEF SubmitDayFromFlag
  <2> QED
    BY <1>1, <2>2, <2>3 DEF Waiting, SamePlace, IsOpen
<1>2. forgot \in [SiteDay -> FlagState]
  BY DEF FlagInv, RecordInv, TypeOK
<1>3. ASSUME NEW d \in SiteDay, forgot'[d] = "open" PROVE Unsubmitted(att', d) # {}
  <2>1. forgot[d] = "open" /\ d # sd
    BY <1>2, <1>3, StillOpen DEF SubmitDayFromFlag
  <2>2. PICK k \in Key : Pending(att[k], k, d)
    BY <2>1, UnsubmittedPending DEF FlagInv, ForgotFlagIsReal
  <2>3. k \notin ScannedOn(sd)
    BY <2>1, <2>2 DEF Pending, SiteDay, ScannedOn, OnSiteDay
  <2>4. Pending(att'[k], k, d)
    BY <2>2, <2>3 DEF SubmitDayFromFlag
  <2> QED
    BY <2>4, UnsubmittedPending
<1>4. MissedFlagIsReal'
  BY <1>1, MissedUntouched DEF SubmitDayFromFlag
<1>5. ForgotFlagIsReal'
  BY <1>3 DEF ForgotFlagIsReal, Unsubmitted
<1> QED
  BY <1>4, <1>5 DEF FlagsReal

LEMMA CreateManualDayFlags ==
    ASSUME FlagInv, NEW w \in Workers, NEW sd \in SiteDay, CreateManualDay(w, sd)
    PROVE  FlagsReal'
<1> DEFINE k == <<w, sd[2]>>
<1>1. RecordInv /\ k \in Key /\ ~ Exists(k)
  BY DEF FlagInv, CreateManualDay, SiteDay, Key
<1>2. PICK r : att' = [att EXCEPT ![k] = r]
  BY DEF CreateManualDay
<1> HIDE DEF k
<1>3. \A j \in Key : Exists(j) => att'[j] = att[j]
  BY <1>1, <1>2, Edit
<1> QED
  BY <1>3, HarmlessEdit DEF Exists, SamePlace, CreateManualDay

LEMMA RejectWorkerFlags ==
    ASSUME FlagInv, NEW k \in Key, RejectWorker(k)
    PROVE  FlagsReal'
<1>1. att[k] \in Record
  BY ExistingRecord DEF FlagInv, RejectWorker
<1> DEFINE r == Reject(att[k])
<1>2. r.site = att[k].site /\ att' = [att EXCEPT ![k] = r]
  BY <1>1, RejectPlace DEF SamePlace, RejectWorker
<1> HIDE DEF r
<1> QED
  BY <1>2, DecidedRecord DEF RejectWorker

LEMMA CorrectWorkerFlags ==
    ASSUME FlagInv, NEW k \in Key, CorrectWorker(k)
    PROVE  FlagsReal'
<1>1. /\ RecordInv /\ Exists(k) /\ k[2] \in Nat
      /\ att[k] \in Record /\ Sound(att[k]) /\ OnItsDay(att[k], k[2])
      /\ LunchHours[att[k].site] \in Nat
  BY KeptRecord, SiteConstants DEF FlagInv, CorrectWorker, Record
<1>2. PICK inHM \in Optional(TypedTimes), outHM \in Optional(TypedTimes),
           shift \in Optional(TypedShifts) :
         att' = [att EXCEPT ![k] =
                    Correct(@, k[2], inHM, outHM, shift, LunchHours[@.site])]
  BY DEF CorrectWorker
<1>3. /\ inHM \in Optional(TimeOfDay) /\ outHM \in Optional(TimeOfDay)
      /\ shift \in Optional(ShiftType)
  BY AttendanceAssumption DEF Optional
<1> DEFINE r == Correct(att[k], k[2], inHM, outHM, shift, LunchHours[att[k].site])
           ids == IF IsOpen(att'[k]) THEN {} ELSE {k}
<1>4. SamePlace(r, att[k]) /\ r # Null
  BY <1>1, <1>3, CorrectPlace, CorrectSound, RecordIsNotNull
<1>5. att' = [att EXCEPT ![k] = r]
  BY <1>2
<1> HIDE DEF r
<1>6. att'[k] = r
  BY <1>1, <1>5, Edit
<1>7. k \in ids \/ (Waiting(att[k]) => Waiting(r))
  BY <1>4, <1>6 DEF Waiting, SamePlace
<1>8. ResolveMissedClockout(ids) /\ ResolveForgotSubmit(<<att[k].site, k[2]>>)
  BY DEF CorrectWorker
<1> HIDE DEF ids
<1> QED
  BY <1>1, <1>4, <1>5, <1>7, <1>8, DecidedRecord DEF SamePlace

LEMMA VoidWorkerFlags ==
    ASSUME FlagInv, NEW k \in Key, VoidWorker(k)
    PROVE  FlagsReal'
<1>1. att[k] \in Record
  BY ExistingRecord DEF FlagInv, VoidWorker
<1> DEFINE r == [att[k] EXCEPT !.voided = TRUE]
<1>2. r.site = att[k].site /\ att' = [att EXCEPT ![k] = r]
  BY <1>1 DEF Record, VoidWorker
<1> HIDE DEF r
<1> QED
  BY <1>2, DecidedRecord DEF VoidWorker

LEMMA RecommendOvertimeFlags ==
    ASSUME FlagInv, NEW k \in Key, RecommendOvertime(k)
    PROVE  FlagsReal'
<1> DEFINE r == [att[k] EXCEPT !.overtime.status = "recommended"]
<1>1. att[k] \in Record /\ RecordInv
  BY ExistingRecord DEF FlagInv, RecommendOvertime
<1>2. r # Null /\ OnlyOvertime(r, att[k])
  <2>1. /\ Sound(att[k]) /\ OvertimeUndecided(att[k])
    BY <1>1, KeptRecord DEF RecommendOvertime, OvertimeUndecided
  <2>2. r \in Record
    BY <1>1, <2>1, UndecidedIsEarned, StatusDecisionSound DEF OvertimeStatus
  <2> QED
    BY <1>1, <2>2, RecordIsNotNull DEF OnlyOvertime, SamePlace, Record
<1>3. att' = [att EXCEPT ![k] = r]
  BY DEF RecommendOvertime
<1> HIDE DEF r
<1>4. att'[k] = r /\ \A j \in Key : j # k => att'[j] = att[j]
  BY <1>1, <1>3, Edit
<1> QED
  BY <1>2, <1>4, HarmlessEdit
     DEF OnlyOvertime, SamePlace, IsOpen, Exists, RecommendOvertime

LEMMA DecideOvertimeFlags ==
    ASSUME FlagInv, NEW k \in Key, DecideOvertime(k)
    PROVE  FlagsReal'
<1>1. RecordInv /\ att[k] \in Record /\ Sound(att[k]) /\ OvertimeUndecided(att[k])
  BY KeptRecord DEF FlagInv, DecideOvertime
<1>2. PICK r : r # Null /\ OnlyOvertime(r, att[k]) /\ att' = [att EXCEPT ![k] = r]
  <2>1. CASE \E entry \in Entries : att' = [att EXCEPT ![k] = ApproveOvertime(@, entry)]
    <3>1. PICK entry \in Entries : att' = [att EXCEPT ![k] = ApproveOvertime(@, entry)]
      BY <2>1
    <3>2. ApproveOvertime(att[k], entry) # Null
      BY <1>1, EntriesType, ApproveOvertimeSound, RecordIsNotNull
    <3> QED
      BY <1>1, <3>1, <3>2, ApproveOvertimeOnly
  <2>2. CASE att' = [att EXCEPT ![k] = RejectOvertime(@)]
    <3>1. RejectOvertime(att[k]) # Null
      BY <1>1, RejectOvertimeSound, RecordIsNotNull
    <3> QED
      BY <1>1, <2>2, <3>1, RejectOvertimeOnly
  <2> QED
    BY <2>1, <2>2 DEF DecideOvertime
<1>3. att'[k] = r /\ \A j \in Key : j # k => att'[j] = att[j]
  BY <1>1, <1>2, Edit
<1> QED
  BY <1>2, <1>3, HarmlessEdit
     DEF OnlyOvertime, SamePlace, IsOpen, Exists, DecideOvertime

LEMMA FixClockoutFlags ==
    ASSUME FlagInv, NEW k \in Key, FixClockout(k)
    PROVE  FlagsReal'
<1>1. RecordInv /\ Exists(k) /\ att[k] \in Record
  BY ExistingRecord DEF FlagInv, FixClockout
<1>2. PICK hm \in TypedTimes : att' = [att EXCEPT ![k] = ClockoutFixed(k, hm)]
  BY DEF FixClockout
<1> DEFINE f == FillOut(att[k], IstOutDateTime(k[2], hm, att[k].inTime),
                        LunchHours[att[k].site])
           r == ClockoutFixed(k, hm)
<1>3. f.site = att[k].site /\ "site" \in DOMAIN f
  BY <1>1, FillOutPlace DEF SamePlace, FillOut, WithHours, Record
<1>4. r = IF ~ IsOpen(att[k]) THEN att[k]
          ELSE IF att[k].attendanceStatus = "scanned" THEN Submit(f) ELSE f
  BY DEF ClockoutFixed
<1> HIDE DEF f
<1>5. r.site = att[k].site
  BY <1>3, <1>4 DEF Submit
<1>6. att' = [att EXCEPT ![k] = r]
  BY <1>2
<1>7. ResolveMissedClockout({k}) /\ ResolveForgotSubmit(<<att[k].site, k[2]>>)
  BY DEF FixClockout
<1> HIDE DEF r
<1> QED
  BY <1>1, <1>5, <1>6, <1>7, DecidedRecord

LEMMA ResolveFlagFlags ==
    ASSUME FlagInv, ResolveFlag
    PROVE  FlagsReal'
<1>1. att' = att
  BY DEF ResolveFlag
<1>2. missed \in [Key -> FlagState] /\ forgot \in [SiteDay -> FlagState]
  BY DEF FlagInv, RecordInv, TypeOK
<1>3. ASSUME NEW k \in Key, missed'[k] = "open" PROVE missed[k] = "open"
  <2>1. CASE missed' = missed
    BY <1>3, <2>1
  <2>2. CASE \E j \in Key : missed' = Resolved(missed, {j})
    BY <1>2, <1>3, <2>2, StillOpen
  <2> QED
    BY <2>1, <2>2 DEF ResolveFlag, ResolveMissedClockout
<1>4. ASSUME NEW sd \in SiteDay, forgot'[sd] = "open" PROVE forgot[sd] = "open"
  <2>1. CASE forgot' = forgot
    BY <1>4, <2>1
  <2>2. CASE \E d \in SiteDay : forgot' = Resolved(forgot, {d})
    BY <1>2, <1>4, <2>2, StillOpen
  <2> QED
    BY <2>1, <2>2 DEF ResolveFlag
<1> QED
  BY <1>1, <1>3, <1>4
     DEF FlagInv, FlagsReal, MissedFlagIsReal, ForgotFlagIsReal, Exists, Unsubmitted

\* A sweep raises flags for what it has just found, and for nothing else.
LEMMA SweepFlags ==
    ASSUME FlagInv, Sweep
    PROVE  FlagsReal'
<1>1. att' = att
  BY DEF Sweep, SweepMissedClockouts, SweepUnsubmittedDays
<1>2. ASSUME NEW k \in Key, missed'[k] = "open" PROVE Overdue(k) \/ missed[k] = "open"
  BY <1>2 DEF Sweep, SweepMissedClockouts, SweepUnsubmittedDays
<1>3. ASSUME NEW sd \in SiteDay, forgot'[sd] = "open"
      PROVE  Unsubmitted(att, sd) # {} \/ forgot[sd] = "open"
  BY <1>3 DEF Sweep, SweepMissedClockouts, SweepUnsubmittedDays
<1>4. MissedFlagIsReal'
  BY <1>1, <1>2 DEF FlagInv, MissedFlagIsReal, Overdue, Exists
<1>5. ForgotFlagIsReal'
  BY <1>1, <1>3 DEF FlagInv, ForgotFlagIsReal, Unsubmitted
<1> QED
  BY <1>4, <1>5 DEF FlagsReal

-----------------------------------------------------------------------------
(* The invariants. *)

LEMMA FlagInvInit == Init => FlagInv
<1>1. Init => RecordInv
  BY RecordInvInit
<1>2. Init => MissedFlagIsReal /\ ForgotFlagIsReal
  BY DEF Init, MissedFlagIsReal, ForgotFlagIsReal
<1> QED
  BY <1>1, <1>2 DEF FlagInv

LEMMA FlagInvStep == FlagInv /\ [Next]_vars => FlagInv'
<1> SUFFICES ASSUME FlagInv, [Next]_vars PROVE FlagInv'
  OBVIOUS
<1>1. RecordInv'
  BY RecordInvStep DEF FlagInv
<1>2. FlagsReal'
  <2>1. CASE Scan
    BY <2>1, ScanInFlags, ScanOutFlags DEF Scan
  <2>2. CASE DayRequest
    BY <2>2, SubmitDayFlags, RecommendDayFlags, ApproveSiteDayFlags,
       SubmitDayFromFlagFlags, CreateManualDayFlags DEF DayRequest
  <2>3. CASE RecordRequest
    BY <2>3, RejectWorkerFlags, CorrectWorkerFlags, VoidWorkerFlags,
       RecommendOvertimeFlags, DecideOvertimeFlags, FixClockoutFlags DEF RecordRequest
  <2>4. CASE ResolveFlag \/ Sweep
    BY <2>4, ResolveFlagFlags, SweepFlags
  <2>5. CASE Tick \/ UNCHANGED vars
    BY <2>5 DEF Tick, vars, FlagInv, FlagsReal, MissedFlagIsReal, ForgotFlagIsReal,
                Exists, Unsubmitted
  <2> QED
    BY <2>1, <2>2, <2>3, <2>4, <2>5 DEF Next
<1> QED
  BY <1>1, <1>2 DEF FlagInv, FlagsReal

THEOREM FlagInvariance == Spec => []FlagInv
<1> QED
  BY FlagInvInit, FlagInvStep, PTL DEF Spec

\* Nobody is sent after a clock-out that is no longer missing.
THEOREM MissedFlagsAreReal == Spec => []MissedFlagIsReal
<1>1. FlagInv => MissedFlagIsReal
  BY DEF FlagInv
<1> QED
  BY <1>1, FlagInvariance, PTL

\* Nobody is sent after a site-day that has been submitted.
THEOREM ForgotFlagsAreReal == Spec => []ForgotFlagIsReal
<1>1. FlagInv => ForgotFlagIsReal
  BY DEF FlagInv
<1> QED
  BY <1>1, FlagInvariance, PTL

-----------------------------------------------------------------------------
(* The approval gate *)

\* The gate's view of one record.
DayOf(r)   == IF r # Null THEN r.attendanceStatus ELSE "absent"
HoursOf(r) == IF r # Null THEN r.overtime.computedHours ELSE 0
OtOf(r)    == IF r # Null THEN r.overtime.status ELSE "none"

\* The moves of the gate, on the record r that becomes n.
Same(r, n) == DayOf(n) = DayOf(r) /\ HoursOf(n) = HoursOf(r) /\ OtOf(n) = OtOf(r)

Rework(r, n) ==
    /\ OtOf(n) = Gate!Undecided(HoursOf(n))
    /\ \/ DayOf(n) = DayOf(r)
       \/ DayOf(n) \in {"scanned", "recommended"}
       \/ DayOf(r) = "scanned" /\ DayOf(n) = "submitted"

Advance(r, n) ==
    /\ HoursOf(n) = HoursOf(r) /\ OtOf(n) = OtOf(r)
    /\ \/ DayOf(r) = "scanned" /\ DayOf(n) = "submitted"
       \/ DayOf(r) # "absent" /\ DayOf(n) = "recommended"

Approve(r, n) ==
    /\ DayOf(r) = "recommended" /\ DayOf(n) = "approved"
    /\ HoursOf(n) = HoursOf(r)
    /\ OtOf(n) = IF OtOf(r) \in {"pending", "recommended"} THEN "approved" ELSE OtOf(r)

RejectMove(r, n) ==
    /\ DayOf(r) # "absent" /\ DayOf(n) = "rejected"
    /\ HoursOf(n) = HoursOf(r)
    /\ OtOf(n) = IF HoursOf(r) > 0 THEN "rejected" ELSE OtOf(r)

Decide(r, n) ==
    /\ DayOf(n) = DayOf(r) /\ HoursOf(n) = HoursOf(r)
    /\ \/ OtOf(r) = "pending" /\ OtOf(n) = "recommended"
       \/ OtOf(r) \in {"pending", "recommended"} /\ OtOf(n) \in {"approved", "rejected"}

Move(r, n) ==
    \/ Same(r, n)
    \/ Rework(r, n)
    \/ Advance(r, n)
    \/ Approve(r, n)
    \/ RejectMove(r, n)
    \/ Decide(r, n)

\* The gate's step, record by record.
EveryMove == \A k \in Key : Move(att[k], att'[k])

LEMMA MovesAreGateSteps ==
    ASSUME EveryMove
    PROVE  Gate!Next
  BY DEF EveryMove, Move, Same, Rework, Advance, Approve, RejectMove, Decide,
         DayOf, HoursOf, OtOf, Exists,
         Gate!Next, Gate!Same, Gate!Rework, Gate!Advance, Gate!ApproveDay,
         Gate!RejectDay, Gate!Decide, Gate!Undecided

LEMMA GateInit == Init => Gate!Init
  BY DEF Init, Exists, Gate!Init

-----------------------------------------------------------------------------
(* Every edit of a record is a move. *)

\* What the gate sees of a record that exists.
LEMMA View ==
    ASSUME NEW r \in Record
    PROVE  /\ DayOf(r) = r.attendanceStatus /\ DayOf(r) # "absent"
           /\ HoursOf(r) = r.overtime.computedHours /\ HoursOf(r) \in Nat
           /\ OtOf(r) = r.overtime.status
  BY RecordIsNotNull DEF DayOf, HoursOf, OtOf, Record, Overtime, AttendanceStatus

LEMMA NoMove ==
    ASSUME NEW r
    PROVE  Move(r, r)
  BY DEF Move, Same

LEMMA NewScanMoves ==
    ASSUME NEW site \in Sites, NEW shiftType \in ShiftType, NEW t \in Nat
    PROVE  Move(Null, NewScan(site, shiftType, t))
<1> DEFINE n == NewScan(site, shiftType, t)
<1>1. n \in Record /\ n.overtime = NoOvertime /\ n.attendanceStatus = "scanned"
  BY NewScanSound DEF NewScan
<1> HIDE DEF n
<1>2. Rework(Null, n)
  BY <1>1, View DEF Rework, NoOvertime, Gate!Undecided
<1> QED
  BY <1>2 DEF Move, n

\* The overtime and the status WithHours leaves.
LEMMA WithHoursGate ==
    ASSUME NEW r \in Record, NEW t \in Nat, NEW lunch \in Nat
    PROVE  LET n == WithHours(r, t, lunch)
           IN  /\ n.attendanceStatus = r.attendanceStatus
               /\ n.overtime.computedHours \in Nat
               /\ n.overtime.status = Gate!Undecided(n.overtime.computedHours)
<1> DEFINE h == ReckonHours(r.inTime, t, lunch)
<1>1. h.overtime \in Nat
  BY ReckonHoursType DEF Record
<1> HIDE DEF h
<1>2. WithHours(r, t, lunch).attendanceStatus = r.attendanceStatus
  BY DEF WithHours, Record
<1>3. /\ WithHours(r, t, lunch).overtime.computedHours = h.overtime
      /\ WithHours(r, t, lunch).overtime.status
           = IF h.overtime > 0 THEN "pending" ELSE "none"
  BY DEF WithHours, Record, Overtime, h
<1> QED
  BY <1>1, <1>2, <1>3 DEF Gate!Undecided

LEMMA ReopenSessionMoves ==
    ASSUME NEW r \in Record, Sound(r)
    PROVE  Move(r, ReopenSession(r))
<1> DEFINE n == ReopenSession(r)
<1>1. n \in Record
  BY ReopenSessionSound
<1>2. n.overtime = NoOvertime /\ n.attendanceStatus = "scanned"
  BY DEF ReopenSession, Record
<1> HIDE DEF n
<1>3. Rework(r, n)
  BY <1>1, <1>2, View DEF Rework, NoOvertime, Gate!Undecided
<1> QED
  BY <1>3 DEF Move, n

LEMMA CloseSessionMoves ==
    ASSUME NEW r \in Record, Sound(r), NEW t \in Nat, NEW lunch \in Nat
    PROVE  Move(r, CloseSession(r, t, lunch))
<1> DEFINE h == WithHours(r, t, lunch)
           n == CloseSession(r, t, lunch)
<1>1. n \in Record
  BY CloseSessionSound
<1>2. h \in Record
  BY WithHoursSound DEF Sound
<1>3. /\ h.attendanceStatus = r.attendanceStatus
      /\ h.overtime.status = Gate!Undecided(h.overtime.computedHours)
  BY WithHoursGate
<1>4. n = [h EXCEPT !.overtime.approvedHours = Null, !.sessions = ClosePunch(@)]
  BY DEF CloseSession
<1> HIDE DEF h, n
<1>5. /\ n.attendanceStatus = h.attendanceStatus
      /\ n.overtime.status = h.overtime.status
      /\ n.overtime.computedHours = h.overtime.computedHours
  BY <1>2, <1>4 DEF Record, Overtime
<1>6. Rework(r, n)
  BY <1>1, <1>3, <1>5, View DEF Rework
<1> QED
  BY <1>6 DEF Move, n

\* The gate's view of a record whose OUT was filled in.
LEMMA FillOutGate ==
    ASSUME NEW r \in Record, Sound(r), NEW t \in Nat, NEW lunch \in Nat
    PROVE  LET n == FillOut(r, t, lunch)
           IN  /\ n \in Record /\ Sound(n)
               /\ n.attendanceStatus = r.attendanceStatus
               /\ n.overtime.status = Gate!Undecided(n.overtime.computedHours)
<1> DEFINE h == WithHours(r, t, lunch)
           n == FillOut(r, t, lunch)
<1>1. n \in Record /\ Sound(n)
  BY FillOutSound
<1>2. h \in Record
  BY WithHoursSound DEF Sound
<1>3. /\ h.attendanceStatus = r.attendanceStatus
      /\ h.overtime.status = Gate!Undecided(h.overtime.computedHours)
  BY WithHoursGate
<1>4. n = [h EXCEPT !.sessions = ClosePunch(@)]
  BY DEF FillOut
<1> HIDE DEF h, n
<1>5. n.attendanceStatus = h.attendanceStatus /\ n.overtime = h.overtime
  BY <1>2, <1>4 DEF Record
<1> QED
  BY <1>1, <1>3, <1>5 DEF n

LEMMA SubmitGate ==
    ASSUME NEW r \in Record, Sound(r)
    PROVE  /\ Submit(r) \in Record /\ Submit(r).attendanceStatus = "submitted"
           /\ Submit(r).overtime = r.overtime
  BY SubmitSound DEF Submit, Record

\* A submission, alone or on top of a filled-in OUT.
LEMMA SubmitMoves ==
    ASSUME NEW r \in Record, r.attendanceStatus = "scanned",
           NEW f \in Record, Sound(f),
           f = r \/ f.overtime.status = Gate!Undecided(f.overtime.computedHours)
    PROVE  Move(r, Submit(f))
<1> DEFINE n == Submit(f)
<1>1. n \in Record /\ n.attendanceStatus = "submitted" /\ n.overtime = f.overtime
  BY SubmitGate
<1> HIDE DEF n
<1>2. DayOf(r) = "scanned" /\ DayOf(n) = "submitted"
  BY <1>1, View
<1>3. CASE f = r
  <2>1. HoursOf(n) = HoursOf(r) /\ OtOf(n) = OtOf(r)
    BY <1>1, <1>3, View
  <2> QED
    BY <1>2, <2>1 DEF Move, Advance, n
<1>4. CASE f.overtime.status = Gate!Undecided(f.overtime.computedHours)
  <2>1. OtOf(n) = Gate!Undecided(HoursOf(n))
    BY <1>1, <1>4, View
  <2> QED
    BY <1>2, <2>1 DEF Move, Rework, n
<1> QED
  BY <1>3, <1>4 DEF n

LEMMA ReRecommendGate ==
    ASSUME NEW r \in Record, Sound(r)
    PROVE  /\ ReRecommend(r) \in Record /\ ReRecommend(r).attendanceStatus = "recommended"
           /\ ReRecommend(r).overtime = r.overtime
  BY ReRecommendSound DEF ReRecommend, Record

LEMMA ReRecommendMoves ==
    ASSUME NEW r \in Record, Sound(r)
    PROVE  Move(r, ReRecommend(r))
<1> DEFINE n == ReRecommend(r)
<1>1. n \in Record /\ n.attendanceStatus = "recommended" /\ n.overtime = r.overtime
  BY ReRecommendGate
<1> HIDE DEF n
<1>2. Advance(r, n)
  BY <1>1, View DEF Advance
<1> QED
  BY <1>2 DEF Move, n

LEMMA RejectMoves ==
    ASSUME NEW r \in Record, Sound(r)
    PROVE  Move(r, Reject(r))
<1> DEFINE n == Reject(r)
<1>1. n \in Record
  BY RejectSound
<1>2. /\ n.attendanceStatus = "rejected"
      /\ n.overtime.computedHours = r.overtime.computedHours
      /\ n.overtime.status = IF r.overtime.computedHours > 0
                             THEN "rejected" ELSE r.overtime.status
  BY DEF Reject, Record, Overtime
<1> HIDE DEF n
<1>3. RejectMove(r, n)
  BY <1>1, <1>2, View DEF RejectMove
<1> QED
  BY <1>3 DEF Move, n

LEMMA ApproveOvertimeMoves ==
    ASSUME NEW r \in Record, Sound(r), OvertimeUndecided(r), NEW entry \in OvertimeEntry
    PROVE  Move(r, ApproveOvertime(r, entry))
<1> DEFINE n == ApproveOvertime(r, entry)
<1>1. n \in Record
  BY ApproveOvertimeSound
<1>2. /\ n.attendanceStatus = r.attendanceStatus
      /\ n.overtime.computedHours = r.overtime.computedHours
      /\ n.overtime.status = "approved"
  BY DEF ApproveOvertime, Record, Overtime
<1> HIDE DEF n
<1>3. Decide(r, n)
  BY <1>1, <1>2, View DEF Decide, OvertimeUndecided
<1> QED
  BY <1>3 DEF Move, n

LEMMA RejectOvertimeMoves ==
    ASSUME NEW r \in Record, Sound(r), OvertimeUndecided(r)
    PROVE  Move(r, RejectOvertime(r))
<1> DEFINE n == RejectOvertime(r)
<1>1. n \in Record
  BY RejectOvertimeSound
<1>2. /\ n.attendanceStatus = r.attendanceStatus
      /\ n.overtime.computedHours = r.overtime.computedHours
      /\ n.overtime.status = "rejected"
  BY DEF RejectOvertime, Record, Overtime
<1> HIDE DEF n
<1>3. Decide(r, n)
  BY <1>1, <1>2, View DEF Decide, OvertimeUndecided
<1> QED
  BY <1>3 DEF Move, n

LEMMA RecommendOvertimeMoves ==
    ASSUME NEW r \in Record, r.overtime.status = "pending"
    PROVE  Move(r, [r EXCEPT !.overtime.status = "recommended"])
<1> DEFINE n == [r EXCEPT !.overtime.status = "recommended"]
<1>1. n \in Record
  BY DEF Record, Overtime, OvertimeStatus
<1>2. /\ n.attendanceStatus = r.attendanceStatus
      /\ n.overtime.computedHours = r.overtime.computedHours
      /\ n.overtime.status = "recommended"
  BY DEF Record, Overtime
<1> HIDE DEF n
<1>3. Decide(r, n)
  BY <1>1, <1>2, View DEF Decide
<1> QED
  BY <1>3 DEF Move, n

LEMMA SubsumeOvertimeGate ==
    ASSUME NEW r \in Record, Sound(r)
    PROVE  LET n == SubsumeOvertime(r)
           IN  /\ n \in Record /\ n.attendanceStatus = r.attendanceStatus
               /\ n.overtime.computedHours = r.overtime.computedHours
               /\ n.overtime.status
                    = IF r.attendanceStatus = "approved" /\ OvertimeUndecided(r)
                      THEN "approved" ELSE r.overtime.status
<1>1. SubsumeOvertime(r) \in Record
  BY SubsumeOvertimeSound
<1>2. CASE r.attendanceStatus = "approved" /\ OvertimeUndecided(r)
  <2>1. SubsumeOvertime(r) = [r EXCEPT !.overtime.status = "approved"]
    BY <1>2, UndecidedIsEarned DEF SubsumeOvertime
  <2> DEFINE n == [r EXCEPT !.overtime.status = "approved"]
  <2>2. /\ n.attendanceStatus = r.attendanceStatus
        /\ n.overtime.computedHours = r.overtime.computedHours
        /\ n.overtime.status = "approved"
    BY DEF Record, Overtime
  <2> HIDE DEF n
  <2> QED
    BY <1>1, <1>2, <2>1, <2>2 DEF n
<1>3. CASE ~ (r.attendanceStatus = "approved" /\ OvertimeUndecided(r))
  <2>1. SubsumeOvertime(r) = r
    BY <1>3 DEF SubsumeOvertime
  <2> QED
    BY <1>1, <1>3, <2>1
<1> QED
  BY <1>2, <1>3

\* Approval of the day with its overtime, or of overtime left from an earlier one.
LEMMA SubsumeOvertimeMoves ==
    ASSUME NEW r \in Record, Sound(r)
    PROVE  Move(r, SubsumeOvertime(r))
<1> DEFINE n == SubsumeOvertime(r)
<1>1. /\ n \in Record /\ n.attendanceStatus = r.attendanceStatus
      /\ n.overtime.computedHours = r.overtime.computedHours
      /\ n.overtime.status = IF r.attendanceStatus = "approved" /\ OvertimeUndecided(r)
                             THEN "approved" ELSE r.overtime.status
  BY SubsumeOvertimeGate
<1> HIDE DEF n
<1>2. DayOf(n) = DayOf(r) /\ HoursOf(n) = HoursOf(r)
  BY <1>1, View
<1>3. CASE r.attendanceStatus = "approved" /\ OvertimeUndecided(r)
  <2>1. OtOf(r) \in {"pending", "recommended"} /\ OtOf(n) = "approved"
    BY <1>1, <1>3, View DEF OvertimeUndecided
  <2> QED
    BY <1>2, <2>1 DEF Move, Decide, n
<1>4. CASE ~ (r.attendanceStatus = "approved" /\ OvertimeUndecided(r))
  <2>1. OtOf(n) = OtOf(r)
    BY <1>1, <1>4, View
  <2> QED
    BY <1>2, <2>1 DEF Move, Same, n
<1> QED
  BY <1>3, <1>4 DEF n

LEMMA ApproveDayMoves ==
    ASSUME NEW r \in Record, Sound(r), r.attendanceStatus = "recommended"
    PROVE  Move(r, SubsumeOvertime(ApproveDay(r)))
<1> DEFINE a == ApproveDay(r)
           n == SubsumeOvertime(a)
<1>1. a \in Record /\ Sound(a) /\ a.attendanceStatus = "approved" /\ a.overtime = r.overtime
  BY ApproveDaySound DEF ApproveDay, Record
<1> HIDE DEF a
<1>2. /\ n \in Record /\ n.attendanceStatus = "approved"
      /\ n.overtime.computedHours = r.overtime.computedHours
      /\ n.overtime.status = IF OvertimeUndecided(r) THEN "approved" ELSE r.overtime.status
  BY <1>1, SubsumeOvertimeGate DEF OvertimeUndecided
<1> HIDE DEF n
<1>3. /\ DayOf(r) = "recommended" /\ DayOf(n) = "approved" /\ HoursOf(n) = HoursOf(r)
  BY <1>2, View
<1>4. OtOf(n) = IF OtOf(r) \in {"pending", "recommended"} THEN "approved" ELSE OtOf(r)
  BY <1>2, View DEF OvertimeUndecided
<1> QED
  BY <1>3, <1>4 DEF Move, Approve, n, a

\* Recomputed overtime is undecided, whatever the record looked like before.
LEMMA WithHoursUndecided ==
    ASSUME NEW e, "overtime" \in DOMAIN e, e.overtime \in Overtime, NEW t, NEW lunch
    PROVE  LET o == WithHours(e, t, lunch).overtime
           IN  o.status = Gate!Undecided(o.computedHours)
<1> DEFINE h == ReckonHours(e.inTime, t, lunch)
           o == WithHours(e, t, lunch).overtime
<1>1. o = [[e.overtime EXCEPT !.computedHours = h.overtime]
              EXCEPT !.status = IF h.overtime > 0 THEN "pending" ELSE "none"]
  BY DEF WithHours
<1> HIDE DEF h, o
<1>2. o.computedHours = h.overtime
      /\ o.status = IF h.overtime > 0 THEN "pending" ELSE "none"
  BY <1>1 DEF Overtime
<1>3. o.status = Gate!Undecided(o.computedHours)
  BY <1>2 DEF Gate!Undecided
<1> QED
  BY <1>3 DEF o

\* An edit that ends on recommended and with undecided overtime.
LEMMA RecommendedMove ==
    ASSUME NEW r, NEW n \in Record, n.attendanceStatus = "recommended",
           n.overtime.status = Gate!Undecided(n.overtime.computedHours)
    PROVE  Move(r, n)
<1>1. DayOf(n) = "recommended" /\ OtOf(n) = Gate!Undecided(HoursOf(n))
  BY View
<1> QED
  BY <1>1 DEF Move, Rework

LEMMA NoOvertimeUndecided == NoOvertime.status = Gate!Undecided(NoOvertime.computedHours)
  BY DEF NoOvertime, Gate!Undecided

LEMMA CorrectMoves ==
    ASSUME NEW r \in Record, Sound(r), NEW date \in Nat, OnItsDay(r, date),
           NEW inHM \in Optional(TimeOfDay), NEW outHM \in Optional(TimeOfDay),
           NEW shiftType \in Optional(ShiftType), NEW lunch \in Nat
    PROVE  Move(r, Correct(r, date, inHM, outHM, shiftType, lunch))
<1> DEFINE in    == IF inHM = Null THEN r.inTime ELSE IstDateTime(date, inHM)
           out   == IF outHM = Null THEN r.outTime ELSE IstOutDateTime(date, outHM, in)
           shift == IF shiftType = Null THEN r.shiftType ELSE shiftType
           n     == Correct(r, date, inHM, outHM, shiftType, lunch)
<1>1. n \in Record /\ Sound(n)
  BY CorrectSound
<1>2. n = ReRecommend(Recompute(Edited(r, in, out, shift), lunch))
  BY DEF Correct
<1> HIDE DEF in, out, shift, n
<1> DEFINE e == Edited(r, in, out, shift)
           c == Recompute(e, lunch)
<1>3. DOMAIN e = DOMAIN r /\ e.overtime = r.overtime
  BY DEF Edited, Record
<1> HIDE DEF e
<1>4. DOMAIN c = DOMAIN r
  BY <1>3 DEF Recompute, WithHours
<1>5. n.attendanceStatus = "recommended" /\ n.overtime = c.overtime /\ n.outTime = c.outTime
  <2> HIDE DEF c
  <2>1. n = ReRecommend(c)
    BY <1>2 DEF e, c
  <2> QED
    BY <1>4, <2>1 DEF ReRecommend, Record
<1>6. n.overtime.status = Gate!Undecided(n.overtime.computedHours)
  <2>1. CASE IsOpen(e)
    <3>1. c = e
      BY <2>1 DEF Recompute
    <3>2. n.overtime = NoOvertime
      BY <1>1, <1>5, <2>1, <3>1 DEF Sound, HoursMatch, IsOpen
    <3> QED
      BY <3>2, NoOvertimeUndecided
  <2>2. CASE ~ IsOpen(e)
    <3>1. c = WithHours(e, e.outTime, lunch)
      BY <2>2 DEF Recompute
    <3>2. "overtime" \in DOMAIN e /\ e.overtime \in Overtime
      BY <1>3 DEF Record
    <3> QED
      BY <1>5, <3>1, <3>2, WithHoursUndecided
  <2> QED
    BY <2>1, <2>2
<1> QED
  BY <1>1, <1>5, <1>6, RecommendedMove DEF n

LEMMA ManualDayMoves ==
    ASSUME NEW site \in Sites, NEW date \in Nat, NEW inHM \in TimeOfDay,
           NEW outHM \in Optional(TimeOfDay), NEW shiftType \in ShiftType,
           NEW lunch \in Nat
    PROVE  Move(Null, ManualDay(site, date, inHM, outHM, shiftType, lunch))
<1> DEFINE day == [NewScan(site, shiftType, IstDateTime(date, inHM))
                      EXCEPT !.sessions = << >>]
           c   == IF outHM = Null THEN day
                  ELSE WithHours(day, IstOutDateTime(date, outHM, day.inTime), lunch)
           n   == ManualDay(site, date, inHM, outHM, shiftType, lunch)
<1>1. n \in Record
  BY ManualDaySound
<1>2. n = ReRecommend(c)
  BY DEF ManualDay
<1> HIDE DEF n
<1>3. /\ day.overtime = NoOvertime
      /\ {"overtime", "attendanceStatus"} \subseteq DOMAIN day
  BY DEF NewScan
<1> HIDE DEF day
<1>4. /\ c.overtime.status = Gate!Undecided(c.overtime.computedHours)
      /\ {"overtime", "attendanceStatus"} \subseteq DOMAIN c
  <2>1. CASE outHM = Null
    BY <1>3, <2>1, NoOvertimeUndecided
  <2>2. CASE outHM # Null
    <3> DEFINE out == IstOutDateTime(date, outHM, day.inTime)
    <3>1. c = WithHours(day, out, lunch)
      BY <2>2
    <3> HIDE DEF c, out
    <3>2. DOMAIN c = DOMAIN day
      BY <3>1 DEF WithHours
    <3> QED
      BY <1>3, <3>1, <3>2, NoOvertimeType, WithHoursUndecided
  <2> QED
    BY <2>1, <2>2
<1> HIDE DEF c
<1>5. n.attendanceStatus = "recommended" /\ n.overtime = c.overtime
  BY <1>2, <1>4 DEF ReRecommend
<1> QED
  BY <1>1, <1>4, <1>5, RecommendedMove DEF n

-----------------------------------------------------------------------------
(* Every step moves each record at most once. *)

LEMMA OneMoves ==
    ASSUME RecordInv, NEW k \in Key, NEW r, att' = [att EXCEPT ![k] = r],
           Move(att[k], r)
    PROVE  EveryMove
<1>1. \A j \in Key : att'[j] = IF j = k THEN r ELSE att[j]
  BY DEF RecordInv, TypeOK
<1> QED
  BY <1>1, NoMove DEF EveryMove

LEMMA ScanInMoves ==
    ASSUME RecordInv, NEW w \in Workers, NEW s \in Sites, ScanIn(w, s)
    PROVE  EveryMove
<1> DEFINE k == Today(w)
           n == NewScan(s, SelectShift(Shifts[s], now), now)
<1>1. k \in Key /\ now \in Nat
  BY DEF ScanIn, RecordInv, TypeOK
<1>2. Move(Null, n)
  BY <1>1, SelectShiftType, NewScanMoves
<1>3. \/ att[k] = Null /\ att' = [att EXCEPT ![k] = n]
      \/ Exists(k) /\ att' = [att EXCEPT ![k] = ReopenSession(@)]
  BY DEF ScanIn, Exists
<1> HIDE DEF k, n
<1>4. Exists(k) => Move(att[k], ReopenSession(att[k]))
  BY <1>1, KeptRecord, ReopenSessionMoves
<1> QED
  BY <1>1, <1>2, <1>3, <1>4, OneMoves

LEMMA ScanOutMoves ==
    ASSUME RecordInv, NEW w \in Workers, NEW s \in Sites, ScanOut(w, s)
    PROVE  EveryMove
<1>1. PICK k \in OpenSessions(w, s) :
          att' = [att EXCEPT ![k] = CloseSession(@, now, LunchHours[s])]
  BY DEF ScanOut
<1>2. k \in Key /\ Exists(k) /\ now \in Nat /\ LunchHours[s] \in Nat
  BY SiteConstants DEF OpenSessions, RecordInv, TypeOK
<1>3. Move(att[k], CloseSession(att[k], now, LunchHours[s]))
  BY <1>2, KeptRecord, CloseSessionMoves
<1> QED
  BY <1>1, <1>2, <1>3, OneMoves

LEMMA SubmittedMoves ==
    ASSUME RecordInv, NEW sd \in SiteDay, NEW k \in ScannedOn(sd),
           NEW hm \in Optional(TypedTimes)
    PROVE  Move(att[k], Submitted(sd, k, hm))
<1> DEFINE r == att[k]
           t == IstOutDateTime(sd[2], hm, r.inTime)
           f == IF IsOpen(r) /\ hm # Null THEN FillOut(r, t, LunchHours[sd[1]]) ELSE r
<1>1. /\ k \in Key /\ r \in Record /\ Sound(r) /\ r.attendanceStatus = "scanned"
      /\ SiteLocalDate(r.inTime) = sd[2]
      /\ LunchHours[sd[1]] \in Nat /\ sd[2] \in Nat
  BY KeptRecord, SiteConstants, AttendanceAssumption
     DEF ScannedOn, HasStatus, OnSiteDay, OnItsDay, SiteDay, Dates
<1>2. ASSUME hm # Null PROVE t \in Nat
  <2>1. hm \in TimeOfDay /\ r.inTime \in Nat
    BY <1>1, <1>2, AttendanceAssumption DEF Optional, Record
  <2> QED
    BY <1>1, <2>1, OutAfterIn
<1> HIDE DEF t
<1>3. /\ f \in Record /\ Sound(f)
      /\ f = r \/ f.overtime.status = Gate!Undecided(f.overtime.computedHours)
  BY <1>1, <1>2, FillOutGate
<1>4. Submitted(sd, k, hm) = Submit(f)
  BY DEF Submitted, t
<1> HIDE DEF f
<1> QED
  BY <1>1, <1>3, <1>4, SubmitMoves

LEMMA SubmitDayMoves ==
    ASSUME RecordInv, NEW sd \in SiteDay, SubmitDay(sd)
    PROVE  EveryMove
<1>1. PICK fill \in [Workers -> Optional(TypedTimes)] :
          att' = [k \in Key |-> IF k \in ScannedOn(sd)
                                THEN Submitted(sd, k, fill[k[1]]) ELSE att[k]]
  BY DEF SubmitDay
<1>2. ASSUME NEW k \in Key PROVE Move(att[k], att'[k])
  <2>1. fill[k[1]] \in Optional(TypedTimes)
    BY DEF Key
  <2> QED
    BY <1>1, <2>1, SubmittedMoves, NoMove
<1> QED
  BY <1>2 DEF EveryMove

LEMMA RecommendDayMoves ==
    ASSUME RecordInv, NEW sd \in SiteDay, RecommendDay(sd)
    PROVE  EveryMove
<1>1. ASSUME NEW k \in Key PROVE Move(att[k], att'[k])
  <2>1. att'[k] = att[k] \/ (Exists(k) /\ att'[k] = ReRecommend(att[k]))
    BY DEF RecommendDay, HasStatus
  <2> QED
    BY <2>1, KeptRecord, ReRecommendMoves, NoMove
<1> QED
  BY <1>1 DEF EveryMove

LEMMA ApproveSiteDayMoves ==
    ASSUME RecordInv, NEW sd \in SiteDay, ApproveSiteDay(sd)
    PROVE  EveryMove
<1>1. ASSUME NEW k \in Key PROVE Move(att[k], att'[k])
  <2>1. CASE ~ OnSiteDay(k, sd)
    BY <2>1, NoMove DEF ApproveSiteDay, DayApproved
  <2>2. CASE OnSiteDay(k, sd)
    <3>1. att[k] \in Record /\ Sound(att[k])
      BY <2>2, KeptRecord DEF OnSiteDay
    <3>2. \/ /\ att[k].attendanceStatus = "recommended"
             /\ att'[k] = SubsumeOvertime(ApproveDay(att[k]))
          \/ att'[k] = SubsumeOvertime(att[k])
      BY <2>2 DEF ApproveSiteDay, DayApproved, HasStatus
    <3> QED
      BY <3>1, <3>2, ApproveDayMoves, SubsumeOvertimeMoves
  <2> QED
    BY <2>1, <2>2
<1> QED
  BY <1>1 DEF EveryMove

LEMMA SubmitDayFromFlagMoves ==
    ASSUME RecordInv, NEW sd \in SiteDay, SubmitDayFromFlag(sd)
    PROVE  EveryMove
<1>1. ASSUME NEW k \in Key PROVE Move(att[k], att'[k])
  <2>1. CASE k \notin ScannedOn(sd)
    BY <2>1, NoMove DEF SubmitDayFromFlag
  <2>2. CASE k \in ScannedOn(sd)
    <3>1. att[k] \in Record /\ Sound(att[k]) /\ att[k].attendanceStatus = "scanned"
      BY <2>2, KeptRecord DEF ScannedOn, HasStatus
    <3>2. att'[k] = Submit(att[k])
      BY <2>2 DEF SubmitDayFromFlag
    <3> QED
      BY <3>1, <3>2, SubmitMoves
  <2> QED
    BY <2>1, <2>2
<1> QED
  BY <1>1 DEF EveryMove

LEMMA CreateManualDayMoves ==
    ASSUME RecordInv, NEW w \in Workers, NEW sd \in SiteDay, CreateManualDay(w, sd)
    PROVE  EveryMove
<1> DEFINE k == <<w, sd[2]>>
<1>1. PICK inHM \in TypedTimes, outHM \in Optional(TypedTimes), shift \in TypedShifts :
          att' = [att EXCEPT ![k] =
                     ManualDay(sd[1], sd[2], inHM, outHM, shift, LunchHours[sd[1]])]
  BY DEF CreateManualDay
<1>2. /\ k \in Key /\ att[k] = Null /\ sd[1] \in Sites /\ sd[2] \in Nat
      /\ LunchHours[sd[1]] \in Nat
      /\ inHM \in TimeOfDay /\ outHM \in Optional(TimeOfDay) /\ shift \in ShiftType
  BY SiteConstants, AttendanceAssumption
     DEF SiteDay, Key, Dates, Optional, CreateManualDay, Exists
<1>3. Move(att[k], ManualDay(sd[1], sd[2], inHM, outHM, shift, LunchHours[sd[1]]))
  BY <1>2, ManualDayMoves
<1> HIDE DEF k
<1> QED
  BY <1>1, <1>2, <1>3, OneMoves

LEMMA CorrectWorkerMoves ==
    ASSUME RecordInv, NEW k \in Key, CorrectWorker(k)
    PROVE  EveryMove
<1>1. PICK inHM \in Optional(TypedTimes), outHM \in Optional(TypedTimes),
           shift \in Optional(TypedShifts) :
         att' = [att EXCEPT ![k] =
                    Correct(@, k[2], inHM, outHM, shift, LunchHours[@.site])]
  BY DEF CorrectWorker
<1>2. /\ inHM \in Optional(TimeOfDay) /\ outHM \in Optional(TimeOfDay)
      /\ shift \in Optional(ShiftType)
  BY AttendanceAssumption DEF Optional
<1>3. /\ att[k] \in Record /\ Sound(att[k]) /\ OnItsDay(att[k], k[2]) /\ k[2] \in Nat
      /\ LunchHours[att[k].site] \in Nat
  BY KeptRecord, SiteConstants DEF CorrectWorker, Record
<1>4. Move(att[k], Correct(att[k], k[2], inHM, outHM, shift, LunchHours[att[k].site]))
  BY <1>2, <1>3, CorrectMoves
<1> QED
  BY <1>1, <1>4, OneMoves

LEMMA VoidWorkerMoves ==
    ASSUME RecordInv, NEW k \in Key, VoidWorker(k)
    PROVE  EveryMove
<1> DEFINE n == [att[k] EXCEPT !.voided = TRUE]
<1>1. att[k] \in Record /\ Sound(att[k])
  BY KeptRecord DEF VoidWorker
<1>2. n \in Record
  BY <1>1, VoidSound
<1>3. n.attendanceStatus = att[k].attendanceStatus /\ n.overtime = att[k].overtime
  BY <1>1 DEF Record
<1>4. att' = [att EXCEPT ![k] = n]
  BY DEF VoidWorker
<1> HIDE DEF n
<1>5. Move(att[k], n)
  BY <1>1, <1>2, <1>3, View DEF Move, Same
<1> QED
  BY <1>4, <1>5, OneMoves

LEMMA DecideOvertimeSteps ==
    ASSUME RecordInv, NEW k \in Key, RecommendOvertime(k) \/ DecideOvertime(k)
    PROVE  EveryMove
<1>1. att[k] \in Record /\ Sound(att[k])
  BY KeptRecord DEF RecommendOvertime, DecideOvertime
<1>2. CASE RecommendOvertime(k)
  <2>1. Move(att[k], [att[k] EXCEPT !.overtime.status = "recommended"])
    BY <1>1, <1>2, RecommendOvertimeMoves DEF RecommendOvertime
  <2>2. att' = [att EXCEPT ![k] = [@ EXCEPT !.overtime.status = "recommended"]]
    BY <1>2 DEF RecommendOvertime
  <2> QED
    BY <2>1, <2>2, OneMoves
<1>3. CASE DecideOvertime(k)
  <2>1. OvertimeUndecided(att[k])
    BY <1>3 DEF DecideOvertime
  <2>2. CASE \E entry \in Entries : att' = [att EXCEPT ![k] = ApproveOvertime(@, entry)]
    BY <1>1, <2>1, <2>2, EntriesType, ApproveOvertimeMoves, OneMoves
  <2>3. CASE att' = [att EXCEPT ![k] = RejectOvertime(@)]
    BY <1>1, <2>1, <2>3, RejectOvertimeMoves, OneMoves
  <2> QED
    BY <1>3, <2>2, <2>3 DEF DecideOvertime
<1> QED
  BY <1>2, <1>3

LEMMA FixClockoutMoves ==
    ASSUME RecordInv, NEW k \in Key, FixClockout(k)
    PROVE  EveryMove
<1>1. PICK hm \in TypedTimes : att' = [att EXCEPT ![k] = ClockoutFixed(k, hm)]
  BY DEF FixClockout
<1> DEFINE r == att[k]
           t == IstOutDateTime(k[2], hm, r.inTime)
           f == FillOut(r, t, LunchHours[r.site])
<1>2. /\ r \in Record /\ Sound(r) /\ SiteLocalDate(r.inTime) = k[2]
      /\ k[2] \in Nat /\ LunchHours[r.site] \in Nat
  BY KeptRecord, SiteConstants DEF FixClockout, Record, OnItsDay
<1>3. t \in Nat
  <2>1. hm \in TimeOfDay /\ r.inTime \in Nat
    BY <1>2, AttendanceAssumption DEF Record
  <2> QED
    BY <1>2, <2>1, OutAfterIn
<1> HIDE DEF t
<1>4. /\ f \in Record /\ Sound(f) /\ f.attendanceStatus = r.attendanceStatus
      /\ f.overtime.status = Gate!Undecided(f.overtime.computedHours)
  BY <1>2, <1>3, FillOutGate
<1>5. ClockoutFixed(k, hm) = IF ~ IsOpen(r) THEN r
                             ELSE IF r.attendanceStatus = "scanned" THEN Submit(f) ELSE f
  BY DEF ClockoutFixed, t
<1> HIDE DEF f, r
<1>6. Move(r, f)
  BY <1>2, <1>4, View DEF Move, Rework
<1>7. r.attendanceStatus = "scanned" => Move(r, Submit(f))
  BY <1>2, <1>4, SubmitMoves
<1>8. Move(r, ClockoutFixed(k, hm))
  BY <1>5, <1>6, <1>7, NoMove
<1> QED
  BY <1>1, <1>8, OneMoves DEF r

LEMMA RejectWorkerMoves ==
    ASSUME RecordInv, NEW k \in Key, RejectWorker(k)
    PROVE  EveryMove
<1>1. Move(att[k], Reject(att[k]))
  BY KeptRecord, RejectMoves DEF RejectWorker
<1> QED
  BY <1>1, OneMoves DEF RejectWorker

-----------------------------------------------------------------------------
(* The refinement. *)

LEMMA GateStep == RecordInv /\ [Next]_vars => [Gate!Next]_(Gate!vars)
<1> SUFFICES ASSUME RecordInv, [Next]_vars PROVE [Gate!Next]_(Gate!vars)
  OBVIOUS
<1>1. EveryMove
  <2>1. CASE Scan
    BY <2>1, ScanInMoves, ScanOutMoves DEF Scan
  <2>2. CASE DayRequest
    BY <2>2, SubmitDayMoves, RecommendDayMoves, ApproveSiteDayMoves,
       SubmitDayFromFlagMoves, CreateManualDayMoves DEF DayRequest
  <2>3. CASE RecordRequest
    BY <2>3, RejectWorkerMoves, CorrectWorkerMoves, VoidWorkerMoves,
       DecideOvertimeSteps, FixClockoutMoves DEF RecordRequest
  <2>4. CASE ResolveFlag \/ Sweep \/ Tick \/ UNCHANGED vars
    <3>1. att' = att
      BY <2>4 DEF ResolveFlag, Sweep, SweepMissedClockouts, SweepUnsubmittedDays, Tick, vars
    <3> QED
      BY <3>1, NoMove DEF EveryMove
  <2> QED
    BY <2>1, <2>2, <2>3, <2>4 DEF Next
<1> QED
  BY <1>1, MovesAreGateSteps

\* Whatever is scanned, corrected, batch-approved or decided, the approval gate
\* holds: hours change only together with their decision being reopened.
THEOREM CoreImplementsGate == Spec => ImplementsGate
<1> QED
  BY GateInit, GateStep, RecordInvariance, PTL DEF Spec, ImplementsGate, Gate!Spec

=============================================================================
