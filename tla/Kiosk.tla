------------------------------- MODULE Kiosk --------------------------------
(***************************************************************************)
(* A wall-mounted kiosk: the capture page, its face detector and camera    *)
(* (public/js/station.js, face-autoscan.js, cam-switch.js), the station's  *)
(* sign-in and the server's answer to a scan (routes/station.ts,           *)
(* auth/station.ts).  What a scan does to a record is in Attendance.       *)
(***************************************************************************)
EXTENDS Naturals

CONSTANTS
    NEED,       \* steady hits before a capture
    ABSENT      \* hits without a face before the detector looks again

ASSUME KioskAssumption == NEED \in Nat \ {0} /\ ABSENT \in Nat \ {0}

VARIABLES
    page,       \* "capture" or "login"
    stationOn,  \* the station is active
    enrolled,   \* the browser's session holds the station
    camera,     \* "opening", "on" or "off"
    detector,   \* "loading", "live" or "error"
    phase, steady, absent,      \* the detector's
    selectedAction,             \* "in", "out" or "none"
    shot        \* the scan in flight: its stage, action, who started it, the answer

kioskVars == <<page, stationOn, enrolled, camera, detector, phase, steady, absent,
               selectedAction, shot>>

NoShot   == [stage |-> "none", action |-> "none", by |-> "none", answer |-> "none"]
scanning == shot.stage # "none"
camReady == camera # "off"
CanScan  == selectedAction # "none" /\ ~ scanning

\* A page just opened.
Fresh ==
    /\ camera' = "opening" /\ detector' = "loading"
    /\ phase' = "scan" /\ steady' = 0 /\ absent' = 0
    /\ selectedAction' = "none" /\ shot' = NoShot

KioskInit ==
    /\ page = "login" /\ stationOn = TRUE /\ enrolled = FALSE
    /\ camera = "opening" /\ detector = "loading"
    /\ phase = "scan" /\ steady = 0 /\ absent = 0
    /\ selectedAction = "none" /\ shot = NoShot

-----------------------------------------------------------------------------
(* The session. *)

\* The key, pasted or in the link, of an active station.
StationLogin ==
    /\ page = "login" /\ (stationOn \/ enrolled)
    /\ IF stationOn THEN page' = "capture" /\ enrolled' = TRUE
                    ELSE page' = "login" /\ enrolled' = FALSE
    /\ Fresh
    /\ UNCHANGED stationOn

StationLogout ==
    /\ page = "capture"
    /\ page' = "login" /\ enrolled' = FALSE
    /\ Fresh
    /\ UNCHANGED stationOn

\* The office switches the station off or on; a new key leaves the session alone.
SwitchStation ==
    /\ stationOn' = ~ stationOn
    /\ UNCHANGED <<page, enrolled, camera, detector, phase, steady, absent, selectedAction, shot>>

-----------------------------------------------------------------------------
(* The page. *)

CameraAnswers(c) ==
    /\ page = "capture" /\ camera = "opening"
    /\ camera' = c
    /\ UNCHANGED <<page, stationOn, enrolled, detector, phase, steady, absent, selectedAction, shot>>

DetectorAnswers(d) ==
    /\ page = "capture" /\ detector = "loading"
    /\ detector' = d
    /\ UNCHANGED <<page, stationOn, enrolled, camera, phase, steady, absent, selectedAction, shot>>

\* The scan of action: the frame is taken at once, the position is asked for.
Snap(action, by) ==
    shot' = IF action = "none" \/ scanning \/ camera # "on" THEN shot
            ELSE [NoShot EXCEPT !.stage = "locating", !.action = action, !.by = by]

\* A tap; without a live detector it captures at once.
Pick(action) ==
    /\ page = "capture" /\ camReady /\ ~ scanning
    /\ selectedAction' = action
    /\ phase' = "scan" /\ steady' = 0 /\ absent' = 0
    /\ IF detector = "live" THEN UNCHANGED shot ELSE Snap(action, "tap")
    /\ UNCHANGED <<page, stationOn, enrolled, camera, detector>>

\* One look of the detector, which waits for the capture it started.
Looking ==
    /\ page = "capture" /\ detector = "live" /\ camera = "on"
    /\ ~ (scanning /\ shot.by = "detector")
    /\ UNCHANGED <<page, stationOn, enrolled, camera, detector, selectedAction>>

\* The result stays on the screen for a while and until the face is gone.
CoolDown(face, elapsed) ==
    LET gone == IF face THEN 0 ELSE absent + 1
        over == elapsed = "max" \/ (gone >= ABSENT /\ elapsed = "min")
    IN  /\ Looking /\ phase = "cooldown"
        /\ phase'  = IF over THEN "scan" ELSE "cooldown"
        /\ absent' = IF over THEN 0 ELSE IF gone > ABSENT THEN ABSENT ELSE gone
        /\ steady' = IF over THEN 0 ELSE steady
        /\ UNCHANGED shot

Look(face) ==
    /\ Looking /\ phase = "scan"
    /\ IF ~ CanScan \/ ~ face
       THEN steady' = 0 /\ UNCHANGED <<phase, absent, shot>>
       ELSE IF steady + 1 < NEED
       THEN steady' = steady + 1 /\ UNCHANGED <<phase, absent, shot>>
       ELSE /\ steady' = 0 /\ phase' = "cooldown" /\ absent' = 0
            /\ Snap(selectedAction, "detector")

\* The position, or none, is there: the POST leaves.
Locate ==
    /\ shot.stage = "locating"
    /\ shot' = [shot EXCEPT !.stage = "sent"]
    /\ UNCHANGED <<page, stationOn, enrolled, camera, detector, phase, steady, absent, selectedAction>>

-----------------------------------------------------------------------------
(* The server, and what becomes of its answer. *)

Recognised == {"in", "out", "already_in", "not_clocked_in", "wrong_site"}
Rejected   == {"unknown", "no_face", "error"}

\* The gate of the kiosk: a station that is off loses its session.
Handle ==
    /\ shot.stage = "sent"
    /\ IF enrolled /\ stationOn
       THEN /\ \E a \in Rejected \union (Recognised \ ({"in", "out"} \ {shot.action})) :
                  shot' = [shot EXCEPT !.stage = "answered", !.answer = a]
            /\ UNCHANGED enrolled
       ELSE /\ shot' = [shot EXCEPT !.stage = "answered", !.answer = "unauthorized"]
            /\ enrolled' = FALSE
    /\ UNCHANGED <<page, stationOn, camera, detector, phase, steady, absent, selectedAction>>

\* No answer, or one that is not JSON: the rate limiter's, an error page.
Fail ==
    /\ shot.stage \in {"sent", "answered"}
    /\ shot' = [shot EXCEPT !.stage = "answered", !.answer = "failed"]
    /\ UNCHANGED <<page, stationOn, enrolled, camera, detector, phase, steady, absent, selectedAction>>

\* Faulty variant: the choice outlives the scan.
KeepTap == UNCHANGED selectedAction

ClearTap == selectedAction' = "none"

\* Faulty variant: only an answer that can be shown gives the buttons back.
RenderAnswered ==
    /\ shot.stage = "answered" /\ shot.answer # "failed"
    /\ shot' = NoShot /\ ClearTap
    /\ page' = IF shot.answer = "unauthorized" THEN "login" ELSE page
    /\ UNCHANGED <<stationOn, enrolled, camera, detector, phase, steady, absent>>

\* Whatever came of the scan, the page returns to its two buttons.
Render ==
    /\ shot.stage = "answered"
    /\ shot' = NoShot /\ ClearTap
    /\ page' = IF shot.answer = "unauthorized" THEN "login" ELSE page
    /\ UNCHANGED <<stationOn, enrolled, camera, detector, phase, steady, absent>>

Unprompted ==
    \/ StationLogin \/ StationLogout \/ SwitchStation
    \/ \E c \in {"on", "off"} : CameraAnswers(c)
    \/ \E d \in {"live", "error"} : DetectorAnswers(d)
    \/ \E face \in BOOLEAN : Look(face) \/ \E e \in {"short", "min", "max"} : CoolDown(face, e)
    \/ Locate \/ Handle \/ Fail \/ Render

KioskNext == Unprompted \/ \E a \in {"in", "out"} : Pick(a)

\* A position or its timeout, an answer or its loss, and the page's promises come.
KioskFairness ==
    /\ WF_kioskVars(Locate)
    /\ WF_kioskVars(Handle \/ Fail)
    /\ WF_kioskVars(Render)

=============================================================================
