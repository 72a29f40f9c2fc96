---------------------------- MODULE MCAttendance ----------------------------
(* Constants of the model-checking runs of the attendance core.  The shifts are
   fractions of the day, so that the same definition serves every TicksPerDay. *)
EXTENDS AttendanceProperties, SequencesExt, TLC

Half  == TicksPerDay \div 2

\* A day shift of half a day, the night shift its complement, a short Sunday.
MCShifts ==
    [s \in Sites |-> [day    |-> [startTime |-> 0, endTime |-> Half],
                      night  |-> [startTime |-> Half, endTime |-> 0],
                      sunday |-> [startTime |-> 0, endTime |-> 1]]]

\* One site has no lunch break, the other (where there is one) has lunch and grace.
FirstSite == CHOOSE s \in Sites : TRUE

MCSitesOf       == [w \in Workers |-> Sites]
MCLunchHours    == [s \in Sites |-> IF s = FirstSite THEN 0 ELSE 1]
MCMaxShiftHours == [s \in Sites |-> TicksPerDay + 1]
MCGraceHours    == [s \in Sites |-> IF s = FirstSite THEN 0 ELSE 1]

WorkerSymmetry == Permutations(Workers)

\* Several days of one worker: scans, submissions, sweeps and fixes of the flags,
\* without HR's corrections and the decisions that follow.
DaysNext ==
    \/ Scan
    \/ \E sd \in SiteDay : SubmitDay(sd) \/ SubmitDayFromFlag(sd)
    \/ \E k \in Key : FixClockout(k)
    \/ Sweep
    \/ Tick

\* Several workers of one site-day, scanned before midnight: what can take a record
\* out of the unsubmitted ones, or put it back, while the others stay.
CrewNext ==
    \/ now < TicksPerDay /\ Scan
    \/ \E sd \in SiteDay : SubmitDay(sd) \/ RecommendDay(sd) \/ ApproveSiteDay(sd)
    \/ \E k \in Key : RejectWorker(k) \/ VoidWorker(k)
    \/ Sweep
    \/ Tick

CrewSpec == Init /\ [][CrewNext]_vars

\* Nobody but the workers and the sweeps: no flag is dismissed by hand.
ScanSpec == Init /\ [][Scan \/ Sweep \/ Tick]_vars

FairScanSpec ==
    /\ ScanSpec
    /\ WF_vars(SweepMissedClockouts)
    /\ WF_vars(SweepUnsubmittedDays)

-----------------------------------------------------------------------------
(* The page of one site-day. *)

\* The workers in the order of their names.
ByName == SetToSeq(Workers)

RecordsOn(records, sd) ==
    SelectSeq([i \in DOMAIN ByName |-> <<ByName[i], sd[2]>>],
              LAMBDA k : records[k] # Null /\ records[k].site = sd[1])

\* The status the page shows for the day, whose button it offers: its first record's.
DayPageStatus(records, sd) ==
    LET rows == RecordsOn(records, sd)
    IN  IF rows = << >> THEN "scanned" ELSE records[rows[1]].attendanceStatus

\* "A single bad worker-record can be rejected (with a reason) so it's excluded while the
\* rest proceed" (attendance-regularization-design.md:19): after a record of a submitted
\* day is rejected, the page of the day still offers to recommend the others.
RestOfDayProceeds ==
    [][\A k \in Key :
          RejectWorker(k) =>
              LET sd   == <<att[k].site, k[2]>>
                  rest == {j \in Key : OnSiteDay(j, sd) /\ att'[j].attendanceStatus = "submitted"}
              IN  rest # {} => DayPageStatus(att', sd) = "submitted"]_vars

=============================================================================
