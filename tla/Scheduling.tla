----------------------------- MODULE Scheduling -----------------------------
(***************************************************************************)
(* The life of the server process and the nightly sweeps it schedules      *)
(* (server.ts, db.ts, lib/scheduler.ts): boots, the catch-up of a boot,    *)
(* the timer, failures of MongoDB, graceful and forced exits, crashes.     *)
(* Time is an hour of the day; what the sweeps do is in Attendance.        *)
(***************************************************************************)
EXTENDS Naturals

CONSTANTS
    HoursPerDay,
    SweepHour,
    MaxExits,       \* bound: how often the process ends
    MaxOutages      \* bound: how often MongoDB goes away

ASSUME SchedulingAssumption == HoursPerDay \in Nat \ {0} /\ SweepHour \in 0 .. HoursPerDay - 1

VARIABLES
    proc,       \* "down", "up" or "closing"
    dbReady,    \* set once, at the boot
    mongo,      \* MongoDB answers
    hour,
    timer,      \* hours until the timer fires, or Off
    catchUp,    \* the sweeps of the boot still running
    due,        \* the sweeps that would flag something if they ran now
    exits, outages

serverVars == <<proc, dbReady, mongo, hour, timer, catchUp, due, exits, outages>>

Off    == HoursPerDay + 1
Sweeps == {"missedClockout", "unsubmittedDays"}

\* From the hour h to the next sweep hour, never zero.
NextFireDelay(h) == IF SweepHour > h THEN SweepHour - h ELSE SweepHour + HoursPerDay - h

ServerInit ==
    /\ proc = "down" /\ dbReady = FALSE /\ mongo = TRUE
    /\ hour = 0 /\ timer = Off /\ catchUp = {} /\ due = {}
    /\ exits = 0 /\ outages = 0

\* A sweep's queries: they fail when MongoDB is away or was when the process booted.
Reached(s) == dbReady /\ mongo

Swept(ran) == due \ {s \in ran : Reached(s)}

Boot ==
    /\ proc = "down"
    /\ proc' = "up" /\ dbReady' = mongo
    /\ catchUp' = Sweeps
    /\ timer' = NextFireDelay(hour)
    /\ UNCHANGED <<mongo, hour, due, exits, outages>>

CatchUp(s) ==
    /\ proc # "down" /\ s \in catchUp
    /\ catchUp' = catchUp \ {s}
    /\ due' = Swept({s})
    /\ UNCHANGED <<proc, dbReady, mongo, hour, timer, exits, outages>>

\* Faulty variant: a failed sweep leaves the timer off.
FireOnce ==
    /\ proc # "down" /\ timer = 0
    /\ due' = Swept(Sweeps)
    /\ timer' = IF \A s \in Sweeps : Reached(s) THEN NextFireDelay(hour) ELSE Off
    /\ UNCHANGED <<proc, dbReady, mongo, hour, catchUp, exits, outages>>

\* Each sweep has its own catch; the timer is always set again.
Fire ==
    /\ proc # "down" /\ timer = 0
    /\ due' = Swept(Sweeps)
    /\ timer' = NextFireDelay(hour)
    /\ UNCHANGED <<proc, dbReady, mongo, hour, catchUp, exits, outages>>

\* An hour passes; shifts end and days go unsubmitted at any time.
Hour ==
    /\ timer # 0
    /\ hour' = (hour + 1) % HoursPerDay
    /\ timer' = IF timer = Off THEN Off ELSE timer - 1
    /\ \E new \in SUBSET Sweeps : due' = due \union new
    /\ UNCHANGED <<proc, dbReady, mongo, catchUp, exits, outages>>

\* SIGTERM or SIGINT: no new connection; the timers still run.
Signal ==
    /\ proc = "up" /\ exits < MaxExits
    /\ proc' = "closing"
    /\ UNCHANGED <<dbReady, mongo, hour, timer, catchUp, due, exits, outages>>

Stopped ==
    /\ proc' = "down" /\ timer' = Off /\ catchUp' = {} /\ exits' = exits + 1
    /\ UNCHANGED <<dbReady, mongo, hour, due, outages>>

\* The connections are drained, or ten seconds have passed.
Exit == proc = "closing" /\ Stopped

\* An uncaught exception or a kill.
Die == proc # "down" /\ exits < MaxExits /\ Stopped

MongoDown ==
    /\ mongo /\ outages < MaxOutages
    /\ mongo' = FALSE /\ outages' = outages + 1
    /\ UNCHANGED <<proc, dbReady, hour, timer, catchUp, due, exits>>

MongoUp ==
    /\ ~ mongo
    /\ mongo' = TRUE
    /\ UNCHANGED <<proc, dbReady, hour, timer, catchUp, due, exits, outages>>

ServerNext ==
    \/ Boot \/ (\E s \in Sweeps : CatchUp(s)) \/ Fire \/ Hour
    \/ Signal \/ Exit \/ Die \/ MongoDown \/ MongoUp

\* The process manager restarts the process, timers fire, time passes and MongoDB
\* comes back; nothing is assumed of the failures.
ServerFairness ==
    /\ WF_serverVars(Boot)
    /\ \A s \in Sweeps : WF_serverVars(CatchUp(s))
    /\ WF_serverVars(Fire)
    /\ WF_serverVars(Hour)
    /\ WF_serverVars(Exit)
    /\ WF_serverVars(MongoUp)

=============================================================================
