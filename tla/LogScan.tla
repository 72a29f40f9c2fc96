------------------------------ MODULE LogScan -------------------------------
(***************************************************************************)
(* The supervisor's Log Attendance page and the two requests it makes      *)
(* (public/js/attendance-scan.js, routes/attendance.ts): the location      *)
(* check that unlocks the Scan button, and the scan, which the server      *)
(* fences again.  The camera works.                                        *)
(***************************************************************************)
CONSTANTS
    Grounds,    \* the sites the supervisor may log at
    Fenced,     \* those with a geofence
    Positions,  \* where the device can be: at a site, "away", or "hidden" with no fix
    Punches,    \* "in" and "out"; bound: one of them, the fence treats both alike
    Checks,     \* bound: the location checks in flight at a time
    Scans       \* bound: the scans in flight at a time

ASSUME LogScanAssumption == Fenced \subseteq Grounds /\ "none" \notin Grounds

VARIABLES
    device,     \* its position
    at,         \* the site picked
    lastGeo,    \* the fix kept for the scans, or "none"
    geoOk, locked, auto, action,
    checks,     \* the location checks in flight
    scans,      \* the scans in flight
    logged      \* the last scan the server let through

logVars == <<device, at, lastGeo, geoOk, locked, auto, action, checks, scans, logged>>

pageVars == <<at, lastGeo, geoOk, locked, auto, action>>

Idle      == [stage |-> "none", site |-> "none", geo |-> "none", action |-> "none", answer |-> "none"]
Answered(a) == [Idle EXCEPT !.stage = "answered", !.answer = a]
IsFenced(s) == s \in Fenced

\* The server's decision about a fix sent for a site.
Gate(s, geo) ==
    CASE ~ IsFenced(s)   -> "off"
      [] geo = "hidden"  -> "no_fix"
      [] geo = s         -> "inside"
      [] OTHER           -> "outside"

\* The page for a site: free, or locked until the check comes back.
Opened(s) ==
    /\ at' = s /\ lastGeo' = "none"
    /\ geoOk' = ~ IsFenced(s) /\ locked' = IsFenced(s)

LogInit ==
    \E s \in Grounds, p \in Positions :
        /\ device = p /\ at = s /\ lastGeo = "none"
        /\ geoOk = ~ IsFenced(s) /\ locked = IsFenced(s)
        /\ auto = TRUE /\ action = "none"
        /\ checks = [i \in Checks |-> Idle] /\ scans = [i \in Scans |-> Idle]
        /\ logged = [site |-> "none", geo |-> "none"]

Travel(p) ==
    /\ device' = p
    /\ UNCHANGED <<pageVars, checks, scans, logged>>

ToggleAuto ==
    /\ auto' = ~ auto
    /\ UNCHANGED <<device, at, lastGeo, geoOk, locked, action, checks, scans, logged>>

SetAction(a) ==
    /\ action' = a
    /\ UNCHANGED <<device, at, lastGeo, geoOk, locked, auto, checks, scans, logged>>

\* The supervisor picks a site: a fenced one starts a check.
VerifyLocation(i, s) ==
    /\ Opened(s)
    /\ IF IsFenced(s)
       THEN /\ checks[i] = Idle
            /\ checks' = [checks EXCEPT ![i].stage = "locating"]
       ELSE UNCHANGED checks
    /\ UNCHANGED <<device, auto, action, scans, logged>>

\* The position is there: kept, and sent with the site picked by now.
CheckLocated(i) ==
    /\ checks[i].stage = "locating"
    /\ lastGeo' = device
    /\ checks' = [checks EXCEPT ![i] = [@ EXCEPT !.stage = "sent", !.site = at, !.geo = device]]
    /\ UNCHANGED <<device, at, geoOk, locked, auto, action, scans, logged>>

\* POST /attendance/geocheck, or no answer from it.
GeoCheck(i) ==
    /\ checks[i].stage = "sent"
    /\ \E a \in {Gate(checks[i].site, checks[i].geo), "failed"} :
          checks' = [checks EXCEPT ![i] = Answered(a)]
    /\ UNCHANGED <<device, pageVars, scans, logged>>

\* The answer unlocks the page, whichever site it is at by now.
CheckAnswered(i) ==
    /\ checks[i].stage = "answered"
    /\ checks' = [checks EXCEPT ![i] = Idle]
    /\ IF checks[i].answer \in {"inside", "off"}
       THEN geoOk' = TRUE /\ locked' = FALSE
       ELSE UNCHANGED <<geoOk, locked>>
    /\ UNCHANGED <<device, at, lastGeo, auto, action, scans, logged>>

\* The button, or the detector while it is armed; nothing stops a second scan.
DoScan(i) ==
    /\ scans[i] = Idle /\ action # "none"
    /\ ~ locked \/ (auto /\ geoOk)
    /\ scans' = [scans EXCEPT ![i] = [@ EXCEPT !.stage = "locating", !.geo = lastGeo]]
    /\ locked' = TRUE
    /\ UNCHANGED <<device, at, lastGeo, geoOk, auto, action, checks, logged>>

\* The fix kept from the check, or a new one; site and action as they are now.
ScanLocated(i) ==
    /\ scans[i].stage = "locating"
    /\ scans' = [scans EXCEPT ![i] =
          [@ EXCEPT !.stage = "sent", !.site = at, !.action = action,
                    !.geo = IF @ = "none" THEN device ELSE @]]
    /\ UNCHANGED <<device, pageVars, checks, logged>>

\* Faulty variant: the page's lock is the only fence.
Pass == {"off", "inside", "outside", "no_fix"}

Allowed == {"off", "inside"}

\* POST /attendance/scan: the fence first, then the face and the employee's sites.
Scan(i) ==
    LET scan == scans[i]
        gate == Gate(scan.site, scan.geo)
    IN  /\ scan.stage = "sent"
        /\ \/ /\ gate \notin Allowed
              /\ scans' = [scans EXCEPT ![i] = Answered(gate)]
              /\ UNCHANGED logged
           \/ /\ gate \in Allowed
              /\ scans' = [scans EXCEPT ![i] = Answered("unknown")]
              /\ UNCHANGED logged
           \/ /\ gate \in Allowed
              /\ scans' = [scans EXCEPT ![i] = Answered("done")]
              /\ logged' = [site |-> scan.site, geo |-> scan.geo]
        /\ UNCHANGED <<device, pageVars, checks>>

\* A refusal by the fence locks a fenced page; the end of a scan frees one without.
ScanAnswered(i) ==
    /\ scans[i].stage \in {"sent", "answered"}
    /\ scans' = [scans EXCEPT ![i] = Idle]
    /\ LET refused == scans[i].answer \in {"outside", "no_fix"} /\ IsFenced(at)
       IN  /\ geoOk' = (geoOk /\ ~ refused)
           /\ locked' = (IF IsFenced(at) THEN locked \/ refused ELSE FALSE)
    /\ UNCHANGED <<device, at, lastGeo, auto, action, checks, logged>>

LogNext ==
    \/ \E p \in Positions : Travel(p)
    \/ ToggleAuto
    \/ \E a \in Punches : SetAction(a)
    \/ \E i \in Checks :
          \/ \E s \in Grounds \ {at} : VerifyLocation(i, s)
          \/ CheckLocated(i) \/ GeoCheck(i) \/ CheckAnswered(i)
    \/ \E i \in Scans : DoScan(i) \/ ScanLocated(i) \/ Scan(i) \/ ScanAnswered(i)

=============================================================================
