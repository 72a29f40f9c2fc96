--------------------------- MODULE AttendanceTime ---------------------------
(***************************************************************************)
(* The pure part of the attendance engine: the site-local calendar, the    *)
(* shift windows and the flat pay reckoner (lib/time.ts, lib/shift.ts,     *)
(* lib/attendance.ts reckonHours, lib/scheduler.ts nextFireDelayMs).       *)
(*                                                                         *)
(* Time is a number of ticks since day 0 in the site's zone (IST has no    *)
(* daylight saving, so a day is always TicksPerDay long).  A tick is any   *)
(* whole number of hundredths of an hour, so round2 has nothing to round.  *)
(***************************************************************************)
EXTENDS Integers

CONSTANTS
    TicksPerDay,    \* length of a calendar day
    StandardHours,  \* config.payrollStandardHours
    FirstSunday     \* the first day of the calendar that is a Sunday

ASSUME TimeAssumption ==
    /\ TicksPerDay \in Nat \ {0}
    /\ StandardHours \in Nat
    /\ FirstSunday \in 0 .. 6

AtLeastZero(n) == IF n < 0 THEN 0 ELSE n
Lesser(a, b)   == IF a < b THEN a ELSE b

-----------------------------------------------------------------------------
(* The calendar. *)

\* The times of day a form can carry ("HH:MM").
TimeOfDay == 0 .. TicksPerDay - 1

SiteLocalDate(t) == t \div TicksPerDay
IstHourOfDay(t)  == t % TicksPerDay
IstDateTime(date, hm) == date * TicksPerDay + hm

\* An OUT typed as a bare time of day: the next day when it is not after the IN.
IstOutDateTime(date, hm, inTime) ==
    LET sameDay == IstDateTime(date, hm)
    IN  IF sameDay > inTime THEN sameDay ELSE sameDay + TicksPerDay

\* How long the daily timer sleeps: strictly positive, at most one day.
NextFireDelay(hm, now) ==
    LET today  == IstDateTime(SiteLocalDate(now), hm)
        target == IF today <= now
                  THEN IstDateTime(SiteLocalDate(now + TicksPerDay), hm)
                  ELSE today
    IN  target - now

-----------------------------------------------------------------------------
(* Shifts. *)

ShiftType == {"day", "night", "sunday"}

\* One site's shift definitions; the break fields are not used for pay any more.
SiteShifts == [ShiftType -> [startTime: TimeOfDay, endTime: TimeOfDay]]

WindowHours(shift) ==
    IF shift.endTime > shift.startTime
    THEN shift.endTime - shift.startTime
    ELSE shift.endTime - shift.startTime + TicksPerDay

CircularDist(a, b) ==
    LET d == IF a < b THEN b - a ELSE a - b
    IN  Lesser(d, TicksPerDay - d)

IsSunday(t) == SiteLocalDate(t) % 7 = FirstSunday

SelectShift(shifts, inTime) ==
    LET h == IstHourOfDay(inTime)
    IN  IF IsSunday(inTime) THEN "sunday"
        ELSE IF CircularDist(h, shifts["night"].startTime)
                  < CircularDist(h, shifts["day"].startTime)
        THEN "night"
        ELSE "day"

-----------------------------------------------------------------------------
(* Pay: span minus lunch, the standard day first, the rest is overtime. *)

\* Faulty variant: the spans are not kept from going below zero.
ReckonHoursUnclamped(inTime, outTime, lunch) ==
    LET paid == outTime - inTime - lunch
    IN  [total    |-> outTime - inTime,
         standard |-> Lesser(paid, StandardHours),
         overtime |-> AtLeastZero(paid - StandardHours)]

ReckonHours(inTime, outTime, lunch) ==
    LET span == AtLeastZero(outTime - inTime)
        paid == AtLeastZero(span - lunch)
    IN  [total    |-> span,
         standard |-> Lesser(paid, StandardHours),
         overtime |-> AtLeastZero(paid - StandardHours)]

=============================================================================
