------------------------------ MODULE ScanRaces ------------------------------
(***************************************************************************)
(* One record of one worker and day under requests whose reads and saves   *)
(* interleave (lib/attendance.ts, lib/flagResolve.ts,                      *)
(* lib/missedClockout.ts, lib/forgotSubmit.ts, and the submit and          *)
(* fix-clockout handlers): scans from two stations at once, the submission *)
(* of the day, the two sweeps, each split where it awaits, and a process   *)
(* that dies anywhere.                                                     *)
(*                                                                         *)
(* A handler changes a copy; save() writes the paths it changed, a pushed  *)
(* array element among them, and counts a version.  Setting an element at  *)
(* its position is refused when the version has moved on; a save that also *)
(* pushes may or may not be, which is left open.                           *)
(*                                                                         *)
(* Times are left out: out and reckoned say which OUT a record carries and *)
(* which its hours were computed from.                                     *)
(***************************************************************************)
EXTENDS Naturals, Sequences

CONSTANTS
    Requests,       \* the requests in flight at once
    MaxPunches      \* bound: the punches of the record

VARIABLES
    rec,        \* the attendance record, or NoRecord
    request,    \* each request in flight: where it is, and its copy while it needs one
    missed,     \* its missed_clockout flag
    forgot,     \* the forgot_submit flag of its day
    dayOver     \* the day is in the past

raceVars == <<rec, request, missed, forgot, dayOver>>

NoRecord == [version |-> 0, out |-> "none", reckoned |-> "none", status |-> "none", punches |-> << >>]

FirstIn == [version |-> 0, out |-> "none", reckoned |-> "none", status |-> "scanned", punches |-> <<"open">>]

Done == [at |-> "done", copy |-> NoRecord]

Exists == rec # NoRecord

IsOpen(r) == r.out = "none"

RacesInit ==
    /\ rec = NoRecord
    /\ request = [r \in Requests |-> Done]
    /\ missed = "none" /\ forgot = "none"
    /\ dayOver = FALSE

Goto(r, stage, copy) == request' = [request EXCEPT ![r] = [at |-> stage, copy |-> copy]]

Answer(r) == request' = [request EXCEPT ![r] = Done]

At(r, stage) == request[r].at = stage

-----------------------------------------------------------------------------
(* Scans. *)

\* What an IN does with the record it found: nothing if open, else it comes back.
ComeBack(r) == IF IsOpen(rec) THEN Answer(r) ELSE Goto(r, "reopen", rec)

LookIn(r) ==
    /\ At(r, "done") /\ ~ dayOver
    /\ IF Exists THEN ComeBack(r) ELSE Goto(r, "create", NoRecord)
    /\ UNCHANGED <<rec, missed, forgot, dayOver>>

\* The unique index lets one create through; the other looks again.
Create(r) ==
    /\ At(r, "create")
    /\ IF Exists THEN Goto(r, "again", NoRecord) /\ UNCHANGED rec
       ELSE rec' = FirstIn /\ Answer(r)
    /\ UNCHANGED <<missed, forgot, dayOver>>

LookAgain(r) ==
    /\ At(r, "again")
    /\ ComeBack(r)
    /\ UNCHANGED <<rec, missed, forgot, dayOver>>

\* The OUT and the hours are cleared; a status that was not scanned is.
SaveReopen(r) ==
    /\ At(r, "reopen") /\ Len(rec.punches) < MaxPunches
    /\ rec' = [rec EXCEPT !.out = "none", !.reckoned = "none",
                          !.status = IF request[r].copy.status = "scanned" THEN @ ELSE "scanned",
                          !.punches = Append(@, "open"),
                          !.version = @ + 1]
    /\ Answer(r)
    /\ UNCHANGED <<missed, forgot, dayOver>>

LookOut(r) ==
    /\ At(r, "done") /\ Exists /\ IsOpen(rec)
    /\ Goto(r, "close", rec)
    /\ UNCHANGED <<rec, missed, forgot, dayOver>>

\* The OUT with its hours, and the copy's last punch closed where it stands.
Closed(copy, source) ==
    [rec EXCEPT !.out = source, !.reckoned = source,
                !.punches = IF copy.punches[Len(copy.punches)] = "open"
                            THEN [@ EXCEPT ![Len(copy.punches)] = "closed"] ELSE @]

\* Faulty variant: saves are not versioned.
SaveCloseUnversioned(r) ==
    /\ At(r, "close")
    /\ rec' = Closed(request[r].copy, "scanned") /\ Goto(r, "resolve", NoRecord)
    /\ UNCHANGED <<missed, forgot, dayOver>>

\* A save from a version gone by fails, and the request with it.
SaveClose(r) ==
    /\ At(r, "close")
    /\ IF rec.version = request[r].copy.version
       THEN rec' = Closed(request[r].copy, "scanned") /\ Goto(r, "resolve", NoRecord)
       ELSE UNCHANGED rec /\ Answer(r)
    /\ UNCHANGED <<missed, forgot, dayOver>>

-----------------------------------------------------------------------------
(* Submission and the fix of a forgotten clock-out. *)

LoadDay(r) ==
    /\ At(r, "done") /\ rec.status = "scanned"
    /\ \/ Goto(r, "submit", rec)
       \/ IsOpen(rec) /\ Goto(r, "fill", rec)
    /\ UNCHANGED <<rec, missed, forgot, dayOver>>

LoadFlagged(r) ==
    /\ At(r, "done") /\ missed # "none"
    /\ IF IsOpen(rec) THEN Goto(r, "fill", rec) ELSE Goto(r, "resolve", NoRecord)
    /\ UNCHANGED <<rec, missed, forgot, dayOver>>

\* Without a typed OUT only the status is written.
SaveSubmitted(r) ==
    /\ At(r, "submit")
    /\ rec' = [rec EXCEPT !.status = "submitted"]
    /\ Goto(r, IF IsOpen(request[r].copy) THEN "count" ELSE "resolve", NoRecord)
    /\ UNCHANGED <<missed, forgot, dayOver>>

\* With one, the OUT too, and the correction pushed: the version may be counted, and
\* checked, or not.
SaveFilled(r) ==
    /\ At(r, "fill")
    /\ \/ /\ \E v \in {rec.version + 1} \union ({rec.version} \intersect {request[r].copy.version}) :
                rec' = [Closed(request[r].copy, "filled") EXCEPT
                           !.version = v,
                           !.status = IF request[r].copy.status = "scanned" THEN "submitted" ELSE @]
          /\ Goto(r, "resolve", NoRecord)
       \/ /\ rec.version # request[r].copy.version
          /\ UNCHANGED rec /\ Answer(r)
    /\ UNCHANGED <<missed, forgot, dayOver>>

-----------------------------------------------------------------------------
(* Flags. *)

ResolveMissedClockout(r) ==
    /\ At(r, "resolve")
    /\ missed' = IF missed = "open" THEN "resolved" ELSE missed
    /\ Goto(r, "count", NoRecord)
    /\ UNCHANGED <<rec, forgot, dayOver>>

\* Only once no unsubmitted record remains.
CountUnsubmitted(r) ==
    /\ At(r, "count")
    /\ IF rec.status = "scanned" THEN Answer(r) ELSE Goto(r, "clear", NoRecord)
    /\ UNCHANGED <<rec, missed, forgot, dayOver>>

ResolveForgotSubmit(r) ==
    /\ At(r, "clear")
    /\ forgot' = IF forgot = "open" THEN "resolved" ELSE forgot
    /\ Answer(r)
    /\ UNCHANGED <<rec, missed, dayOver>>

\* The sweeps read first and raise, one flag ever, afterwards; any open record may be
\* one left open too long.
FindOpen(r) ==
    /\ At(r, "done") /\ Exists /\ IsOpen(rec)
    /\ Goto(r, "flag", NoRecord)
    /\ UNCHANGED <<rec, missed, forgot, dayOver>>

RaiseMissed(r) ==
    /\ At(r, "flag")
    /\ missed' = IF missed = "none" THEN "open" ELSE missed
    /\ Answer(r)
    /\ UNCHANGED <<rec, forgot, dayOver>>

FindUnsubmitted(r) ==
    /\ At(r, "done") /\ dayOver /\ rec.status = "scanned"
    /\ Goto(r, "remind", NoRecord)
    /\ UNCHANGED <<rec, missed, forgot, dayOver>>

RaiseForgot(r) ==
    /\ At(r, "remind")
    /\ forgot' = IF forgot = "none" THEN "open" ELSE forgot
    /\ Answer(r)
    /\ UNCHANGED <<rec, missed, dayOver>>

-----------------------------------------------------------------------------

\* The process dies with every request in flight.
Crash ==
    /\ request' = [r \in Requests |-> Done]
    /\ UNCHANGED <<rec, missed, forgot, dayOver>>

Midnight ==
    /\ ~ dayOver /\ dayOver' = TRUE
    /\ UNCHANGED <<rec, request, missed, forgot>>

ScanStep(r) == LookIn(r) \/ Create(r) \/ LookAgain(r) \/ SaveReopen(r) \/ LookOut(r) \/ SaveClose(r)

DeskStep(r) == LoadDay(r) \/ LoadFlagged(r) \/ SaveSubmitted(r) \/ SaveFilled(r)

FlagStep(r) ==
    \/ ResolveMissedClockout(r) \/ CountUnsubmitted(r) \/ ResolveForgotSubmit(r)
    \/ FindOpen(r) \/ RaiseMissed(r) \/ FindUnsubmitted(r) \/ RaiseForgot(r)

RequestNext == \E r \in Requests : ScanStep(r) \/ DeskStep(r) \/ FlagStep(r)

RacesNext == RequestNext \/ Crash \/ Midnight

=============================================================================
