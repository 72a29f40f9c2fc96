------------------------------ MODULE Sensing -------------------------------
(***************************************************************************)
(* What is made of a fix and of a face: the geofence of a site (lib/geo.ts),*)
(* the location check of the portal (routes/me.ts) and the choice of the   *)
(* worker a face belongs to (lib/face.ts).  Coordinates are points of a    *)
(* grid; distances, between positions and between faces, are whole numbers.*)
(***************************************************************************)
EXTENDS Integers, Sequences, SequencesExt

CONSTANTS
    FaceMatchThreshold,
    FaceStrongMatch,
    FaceMatchMargin,
    NoFix       \* no position, or one that is not on the globe

ASSUME FaceAssumption ==
    FaceMatchThreshold \in Nat /\ FaceStrongMatch \in Nat /\ FaceMatchMargin \in Nat

-----------------------------------------------------------------------------
(* The geofence. *)

\* Whether the ray from p crosses the edge from a to b, both given as <<lat, lng>>.
Crosses(p, a, b) ==
    /\ (a[1] > p[1]) # (b[1] > p[1])
    /\ LET slope == (b[2] - a[2]) * (p[1] - a[1])
           dy    == b[1] - a[1]
       IN  IF dy > 0 THEN (p[2] - a[2]) * dy < slope ELSE (p[2] - a[2]) * dy > slope

\* Faulty variant: the edge that closes the polygon is left out.
OpenEdges(polygon) == {<<i, i + 1>> : i \in 1 .. Len(polygon) - 1}

Edges(polygon) == {<<IF i = 1 THEN Len(polygon) ELSE i - 1, i>> : i \in 1 .. Len(polygon)}

PointInPolygon(p, polygon) ==
    Cardinality({e \in Edges(polygon) : Crosses(p, polygon[e[1]], polygon[e[2]])}) % 2 = 1

\* A polygon comes before the circle; without either the fence is off.
CheckGeofence(site, geo) ==
    LET hasPolygon == Len(site.polygon) >= 3
        hasCircle  == site.located /\ site.radius > 0
    IN  CASE ~ hasPolygon /\ ~ hasCircle -> "off"
          [] geo.point = NoFix           -> "no_fix"
          [] hasPolygon -> IF PointInPolygon(geo.point, site.polygon) THEN "inside" ELSE "outside"
          [] OTHER      -> IF geo.distance <= site.radius THEN "inside" ELSE "outside"

\* The portal's check: of the user's active sites with a circle, each a distance and a
\* radius, only the nearest one's radius counts, the first of equals.
LocationCheck(sites, located) ==
    LET closer(near, s) == IF near = <<>> \/ s.distance < near[1].distance THEN <<s>> ELSE near
        nearest         == FoldLeft(closer, <<>>, sites)
    IN  CASE sites = <<>> -> "off"
          [] ~ located    -> "no_fix"
          [] OTHER -> IF nearest[1].distance <= nearest[1].radius THEN "inside" ELSE "outside"

-----------------------------------------------------------------------------
(* The face. *)

NoMatch == [id |-> 0, distance |-> 0]

\* Faulty variant: a new best is not remembered as the runner-up's rival.
NextBestForgetful(seen, c) ==
    IF seen.best = NoMatch \/ c.distance < seen.best.distance
    THEN [best |-> c, second |-> seen.second]
    ELSE IF seen.second = NoMatch \/ c.distance < seen.second.distance
    THEN [best |-> seen.best, second |-> c]
    ELSE seen

\* The two nearest candidates so far.
NextBest(seen, c) ==
    IF seen.best = NoMatch \/ c.distance < seen.best.distance
    THEN [best |-> c, second |-> seen.best]
    ELSE IF seen.second = NoMatch \/ c.distance < seen.second.distance
    THEN [best |-> seen.best, second |-> c]
    ELSE seen

\* Accepted when near enough, and clear of the runner-up unless very near.
BestMatch(candidates) ==
    LET seen == FoldLeft(NextBest, [best |-> NoMatch, second |-> NoMatch], candidates)
    IN  IF \/ seen.best = NoMatch
           \/ seen.best.distance > FaceMatchThreshold
           \/ /\ seen.best.distance > FaceStrongMatch
              /\ seen.second # NoMatch
              /\ seen.second.distance - seen.best.distance < FaceMatchMargin
        THEN NoMatch ELSE seen.best

=============================================================================
