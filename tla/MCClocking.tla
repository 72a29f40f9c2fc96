----------------------------- MODULE MCClocking -----------------------------
(* The kiosk at the gate, the server's nightly sweeps and the requests that meet on one
   record: what must come in the end, and what a scan may never do.  They share nothing
   that one of them writes: a scenario each. *)
EXTENDS Kiosk, Scheduling, ScanRaces

CONSTANT Scenarios   \* bound: which of the scenarios a run explores

VARIABLES
    scenario,   \* "kiosk", "sweeps" or "races"
    lastTap     \* the action tapped since the last scan, or "none"

clockingVars == <<kioskVars, serverVars, raceVars, scenario, lastTap>>

\* A scan spends the tap it was started for; the failing one too.
Spent(tap) == IF shot'.stage = "locating" /\ ~ scanning THEN "none" ELSE tap

AtKiosk ==
    /\ scenario = "kiosk"
    /\ \/ \E a \in {"in", "out"} : Pick(a) /\ lastTap' = Spent(a)
       \/ Unprompted /\ lastTap' = Spent(lastTap)
    /\ UNCHANGED <<serverVars, raceVars>>

AtServer == scenario = "sweeps" /\ ServerNext /\ UNCHANGED <<kioskVars, raceVars, lastTap>>

AtRecord == scenario = "races" /\ RacesNext /\ UNCHANGED <<kioskVars, serverVars, lastTap>>

MCInit ==
    /\ scenario \in Scenarios
    /\ KioskInit /\ ServerInit /\ RacesInit
    /\ lastTap = "none"

MCSpec == MCInit /\ [][(AtKiosk \/ AtServer \/ AtRecord) /\ UNCHANGED scenario]_clockingVars

\* The requests on one record alone, with a server that stays up.
UninterruptedSpec ==
    MCInit /\ [][/\ scenario = "races" /\ RequestNext
                 /\ UNCHANGED <<kioskVars, serverVars, scenario, lastTap>>]_clockingVars

FairSpec ==
    /\ MCSpec
    /\ scenario = "kiosk"  => KioskFairness
    /\ scenario = "sweeps" => ServerFairness

-----------------------------------------------------------------------------

\* Each scan of the kiosk is started by a tap of its own, for the action tapped: the
\* detector never fires twice for one tap, nor for the choice of whoever stood there
\* before the last scan, whatever became of that scan (station.js:147).
EachScanSpendsOneTap ==
    [][~ scanning /\ shot'.stage # "none" =>
          \/ lastTap = shot'.action
          \/ \E a \in {"in", "out"} : Pick(a) /\ shot'.action = a]_clockingVars

\* A kiosk never stays busy: every scan ends, and its buttons work again, whether the
\* server answers, refuses, limits the rate or never answers (station.js:143).
KioskComesBack == scanning ~> ~ scanning

\* What a sweep would flag is flagged in the end, through crashes, deployments and
\* failures of MongoDB at any moment, unless the process that runs was booted without
\* MongoDB (scheduler.ts:57).
DueWorkIsSwept ==
    \A s \in Sweeps : s \in due ~> (s \notin due \/ (proc = "up" /\ ~ dbReady))

\* A record is whole: no OUT, no hours and an open punch last, or an OUT, the hours of
\* that OUT and no open punch last.
Whole(r) ==
    /\ r.reckoned = r.out
    /\ IsOpen(r) <=> r.punches[Len(r.punches)] = "open"

\* The save of a typed OUT from a copy that a correction or a re-opening has overtaken.
StaleFill == \E r \in Requests : SaveFilled(r) /\ rec.version # request[r].copy.version

\* No step breaks a record but the save of a typed OUT from a copy overtaken since, whatever
\* scans, submissions, fixes and crashes come between the read and the save of each: two
\* first INs make one record, an OUT scanned for a record that has come back since does not
\* close it by halves (attendance.ts:158, :219).
OnlyStaleFillsBreak ==
    [][(Exists => Whole(rec)) /\ ~ StaleFill => (Exists => Whole(rec))']_clockingVars

\* The flags queue "always reflects reality instead of lingering after the work is done"
\* (flagResolve.ts:6): with no request in flight, a record on the queue is open.
FlagsReflectReality ==
    (\A r \in Requests : request[r] = Done) /\ missed = "open" => IsOpen(rec)

=============================================================================
