------------------------------ MODULE MCSeveral ------------------------------
(* Several records at once, in two scenarios over the same constants: one worker over
   several sites and days, and several workers of one site-day. *)
EXTENDS MCAttendance

VARIABLE scenario

OneWorker ==
    \A j, k \in Key : att[j] # Null /\ att[k] # Null => j[1] = k[1]

OneSiteDay ==
    \A k \in Key : att[k] # Null => k[2] = 0 /\ att[k].site = FirstSite

SeveralNext ==
    \/ scenario = "days" /\ DaysNext /\ OneWorker'
    \/ scenario = "crew" /\ CrewNext /\ OneSiteDay' /\ now' <= TicksPerDay

SeveralSpec ==
    /\ Init
    /\ scenario \in {"days", "crew"}
    /\ [][SeveralNext /\ UNCHANGED scenario]_<<vars, scenario>>

=============================================================================
