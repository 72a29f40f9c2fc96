--------------------------- MODULE ClockingProofs ---------------------------
(***************************************************************************)
(* What a scan may never do, for every number of requests and punches and  *)
(* every sensitivity of the detector: to the tap it was started by, and to *)
(* the record it meets other requests on.                                  *)
(***************************************************************************)
EXTENDS MCClocking, TLAPS

-----------------------------------------------------------------------------
(* The taps of the kiosk *)

Shot == [stage : {"none", "locating", "sent", "answered"}, action : {"none", "in", "out"},
         by : {"none", "tap", "detector"},
         answer : Recognised \union Rejected \union {"none", "unauthorized", "failed"}]

\* Between two scans the page holds no choice, or the one tapped last: the inductive
\* invariant of the kiosk.
TapInv ==
    /\ shot \in Shot
    /\ selectedAction \in {"none", "in", "out"}
    /\ ~ scanning => selectedAction \in {"none", lastTap}

LEMMA SnapType ==
    ASSUME shot \in Shot, NEW action \in {"none", "in", "out"}, NEW by \in {"tap", "detector"},
           Snap(action, by)
    PROVE  shot' \in Shot /\ (scanning => shot' = shot)
  BY DEF Snap, Shot, NoShot

\* What the page does by itself to the choice and the scan: it forgets the choice when a
\* scan ends.
LEMMA UnpromptedSteps ==
    ASSUME TapInv, Unprompted
    PROVE  /\ shot' \in Shot
           /\ selectedAction' \in {selectedAction, "none"}
           /\ scanning /\ ~ scanning' => selectedAction' = "none"
           /\ ~ scanning /\ scanning' => \E face \in BOOLEAN : Look(face)
  <1> USE DEF TapInv
  <1>1. CASE StationLogin \/ StationLogout
    BY <1>1 DEF StationLogin, StationLogout, Fresh, NoShot, Shot, scanning
  <1>2. CASE SwitchStation \/ (\E c \in {"on", "off"} : CameraAnswers(c))
             \/ (\E d \in {"live", "error"} : DetectorAnswers(d))
             \/ (\E face \in BOOLEAN, e \in {"short", "min", "max"} : CoolDown(face, e))
    BY <1>2 DEF SwitchStation, CameraAnswers, DetectorAnswers, CoolDown, Looking, scanning
  <1>3. CASE \E face \in BOOLEAN : Look(face)
    <2>1. selectedAction' = selectedAction
      BY <1>3 DEF Look, Looking
    <2>2. shot' = shot \/ Snap(selectedAction, "detector")
      BY <1>3 DEF Look
    <2> QED BY <1>3, <2>1, <2>2, SnapType DEF scanning
  <1>4. CASE Locate \/ Handle \/ Fail
    <2>1. shot' \in Shot /\ scanning'
      BY <1>4 DEF Locate, Handle, Fail, Shot, scanning
    <2> QED BY <1>4, <2>1 DEF Locate, Handle, Fail, scanning
  <1>5. CASE Render
    BY <1>5 DEF Render, ClearTap, NoShot, Shot, scanning
  <1> QED BY <1>1, <1>2, <1>3, <1>4, <1>5 DEF Unprompted

LEMMA TapInvStep ==
    ASSUME TapInv, AtKiosk
    PROVE  TapInv'
  <1>1. ASSUME NEW a \in {"in", "out"}, Pick(a), lastTap' = Spent(a)
        PROVE  TapInv'
    <2>1. selectedAction' = a /\ ~ scanning
      BY <1>1 DEF Pick
    <2>2. shot' \in Shot
      BY <1>1, SnapType DEF Pick, TapInv
    <2>3. ~ scanning' => lastTap' = a
      BY <1>1, <2>1 DEF Spent, scanning
    <2> QED BY <2>1, <2>2, <2>3 DEF TapInv
  <1>2. ASSUME Unprompted, lastTap' = Spent(lastTap)
        PROVE  TapInv'
    <2>1. ~ scanning /\ ~ scanning' => lastTap' = lastTap
      BY <1>2 DEF Spent, scanning
    <2> QED BY <1>2, <2>1, UnpromptedSteps DEF TapInv
  <1> QED BY <1>1, <1>2 DEF AtKiosk

\* A scan that starts has the action tapped last, or is the tap's own.
LEMMA ScansAreTapped ==
    ASSUME TapInv, AtKiosk, ~ scanning, shot'.stage # "none"
    PROVE  lastTap = shot'.action \/ \E a \in {"in", "out"} : Pick(a) /\ shot'.action = a
  <1>1. ASSUME NEW a \in {"in", "out"}, Pick(a)
        PROVE  shot'.action = a
    <2>1. shot' = [NoShot EXCEPT !.stage = "locating", !.action = a, !.by = "tap"]
      BY <1>1 DEF Pick, Snap, scanning
    <2> QED BY <2>1 DEF NoShot
  <1>2. ASSUME Unprompted
        PROVE  lastTap = shot'.action
    <2>1. PICK face \in BOOLEAN : Look(face)
      BY <1>2, UnpromptedSteps DEF scanning
    <2>2. CanScan /\ Snap(selectedAction, "detector")
      BY <2>1 DEF Look, scanning
    <2>3. shot' = [NoShot EXCEPT !.stage = "locating", !.action = selectedAction, !.by = "detector"]
      BY <2>2 DEF Snap, scanning
    <2> QED BY <2>2, <2>3 DEF NoShot, CanScan, TapInv
  <1> QED BY <1>1, <1>2 DEF AtKiosk

\* The detector never fires for a choice already spent: not twice for one tap, not for
\* the one who stood there before (station.js:147).
THEOREM EveryScanIsTapped == MCSpec => EachScanSpendsOneTap
  <1>1. MCInit => TapInv
    BY DEF MCInit, KioskInit, TapInv, Shot, NoShot
  <1>2. TapInv /\ [(AtKiosk \/ AtServer \/ AtRecord) /\ UNCHANGED scenario]_clockingVars => TapInv'
    <2>1. UNCHANGED <<kioskVars, lastTap>> => (TapInv => TapInv')
      BY DEF TapInv, kioskVars, scanning
    <2> QED BY <2>1, TapInvStep DEF AtServer, AtRecord, clockingVars
  <1>3. TapInv /\ [(AtKiosk \/ AtServer \/ AtRecord) /\ UNCHANGED scenario]_clockingVars =>
          [~ scanning /\ shot'.stage # "none" =>
              \/ lastTap = shot'.action
              \/ \E a \in {"in", "out"} : Pick(a) /\ shot'.action = a]_clockingVars
    BY ScansAreTapped DEF AtServer, AtRecord, clockingVars, kioskVars, scanning
  <1> QED BY <1>1, <1>2, <1>3, PTL DEF MCSpec, EachScanSpendsOneTap

-----------------------------------------------------------------------------
(* Requests that meet on one record *)

RaceRecord ==
    [version : Nat, out : {"none", "scanned", "filled"}, reckoned : {"none", "scanned", "filled"},
     status : {"none", "scanned", "submitted"}, punches : Seq({"open", "closed"})]

Stage == {"done", "create", "again", "reopen", "close", "resolve", "submit", "fill", "count",
          "clear", "flag", "remind"}

RacesTypeOK ==
    /\ rec \in RaceRecord
    /\ Exists => Len(rec.punches) > 0
    /\ request \in [Requests -> [at : Stage, copy : RaceRecord]]

\* Who has found the record, and a flag that names it, outlive no record.
FoundExists ==
    /\ \A r \in Requests :
          request[r].at \in {"again", "reopen", "close", "submit", "fill", "flag"} => Exists
    /\ missed # "none" => Exists

\* What the copy of a request that is to close the record knows of it: it is no newer,
\* and as long as no save was counted since, it has as many punches, of which the last
\* one can only have been closed.
CopyOK(copy) ==
    /\ Len(copy.punches) > 0 /\ Len(copy.punches) <= Len(rec.punches)
    /\ copy.version <= rec.version
    /\ copy.version = rec.version =>
          /\ Len(copy.punches) = Len(rec.punches)
          /\ rec.punches[Len(rec.punches)] = "open" => copy.punches[Len(copy.punches)] = "open"

\* The inductive invariant of the races.
RacesInv ==
    /\ RacesTypeOK
    /\ FoundExists
    /\ \A r \in Requests : request[r].at \in {"close", "fill"} => CopyOK(request[r].copy)

\* What a save may do to the record: it never gets older or shorter; a save that is not
\* counted pushes no punch and opens none.
Grows ==
    /\ rec' \in RaceRecord /\ Len(rec'.punches) > 0
    /\ rec'.version >= rec.version /\ Len(rec'.punches) >= Len(rec.punches)
    /\ rec'.version = rec.version =>
          /\ Len(rec'.punches) = Len(rec.punches)
          /\ rec'.punches[Len(rec'.punches)] = "open" => rec.punches[Len(rec.punches)] = "open"

LEMMA NoRecordIsEmpty ==
    /\ NoRecord \in RaceRecord /\ Len(NoRecord.punches) = 0 /\ NoRecord.status = "none"
    /\ FirstIn \in RaceRecord /\ Len(FirstIn.punches) = 1 /\ FirstIn.version = 0
  BY DEF NoRecord, FirstIn, RaceRecord

LEMMA CopiesOfWhatGrows ==
    ASSUME RacesInv, Exists, Grows, NEW copy \in RaceRecord, CopyOK(copy)
    PROVE  CopyOK(copy)'
  <1>1. /\ rec.version \in Nat /\ rec'.version \in Nat /\ copy.version \in Nat
        /\ Len(rec.punches) \in Nat /\ Len(rec'.punches) \in Nat /\ Len(copy.punches) \in Nat
    BY DEF RacesInv, RacesTypeOK, RaceRecord, Grows
  <1> QED BY <1>1 DEF Grows, CopyOK

\* A request goes on, or is answered, while the record stays or grows.
LEMMA GoingOn ==
    ASSUME RacesInv, NEW r \in Requests, NEW stage \in Stage, NEW copy \in RaceRecord,
           request' = [request EXCEPT ![r] = [at |-> stage, copy |-> copy]],
           UNCHANGED rec \/ (Exists /\ Grows),
           missed' = missed \/ Exists,
           stage \in {"again", "reopen", "close", "submit", "fill", "flag"} => Exists,
           stage \in {"close", "fill"} => UNCHANGED rec /\ copy = rec
    PROVE  RacesInv'
  <1>1. \A q \in Requests : request'[q] = IF q = r THEN [at |-> stage, copy |-> copy] ELSE request[q]
    BY DEF RacesInv, RacesTypeOK
  <1>2. Exists => Exists'
    BY NoRecordIsEmpty DEF Exists, Grows
  <1>3. RacesTypeOK'
    BY DEF RacesInv, RacesTypeOK, Grows, Exists
  <1>4. FoundExists'
    BY <1>1, <1>2 DEF RacesInv, FoundExists
  <1>5. ASSUME NEW q \in Requests, request'[q].at \in {"close", "fill"},
               NEW c \in RaceRecord, c = request'[q].copy
        PROVE  CopyOK(c)'
    <2>1. CASE q = r
      <3>1. UNCHANGED rec /\ c = rec /\ Exists
        BY <1>1, <1>5, <2>1
      <3>2. Len(rec.punches) \in Nat /\ rec.version \in Nat /\ Len(rec.punches) > 0
        BY <3>1 DEF RacesInv, RacesTypeOK, RaceRecord
      <3> QED BY <3>1, <3>2 DEF CopyOK
    <2>2. CASE q # r
      <3>1. CopyOK(c) /\ Exists
        BY <1>1, <1>5, <2>2 DEF RacesInv, FoundExists
      <3>2. CASE UNCHANGED rec
        BY <3>1, <3>2 DEF CopyOK
      <3>3. CASE Grows
        BY <3>1, <3>3, CopiesOfWhatGrows
      <3> QED BY <3>2, <3>3
    <2> QED BY <2>1, <2>2
  <1>6. \A q \in Requests : request'[q].at \in {"close", "fill"} => CopyOK(request[q].copy)'
    <2> SUFFICES ASSUME NEW q \in Requests, request'[q].at \in {"close", "fill"}
                 PROVE  CopyOK(request[q].copy)'
      OBVIOUS
    <2>1. request'[q].copy \in RaceRecord
      BY <1>3 DEF RacesTypeOK
    <2> QED BY <1>5, <2>1 DEF CopyOK
  <1> QED BY <1>3, <1>4, <1>6 DEF RacesInv

\* Closing the copy's last punch: it opens none, and leaves none open last when the copy
\* has the version that is stored.
LEMMA ClosedRecord ==
    ASSUME RacesInv, Exists, NEW copy \in RaceRecord, CopyOK(copy), NEW source \in {"scanned", "filled"}
    PROVE  /\ Closed(copy, source) \in RaceRecord
           /\ Closed(copy, source).version = rec.version
           /\ Closed(copy, source).out = source /\ Closed(copy, source).reckoned = source
           /\ Len(Closed(copy, source).punches) = Len(rec.punches)
           /\ Closed(copy, source).punches[Len(rec.punches)] = "open"
                 => rec.punches[Len(rec.punches)] = "open" /\ copy.version # rec.version
  <1> DEFINE n == Len(copy.punches)
             p == IF copy.punches[n] = "open" THEN [rec.punches EXCEPT ![n] = "closed"] ELSE rec.punches
             c == [rec EXCEPT !.out = source, !.reckoned = source, !.punches = p]
  <1>1. /\ rec \in RaceRecord /\ rec.punches \in Seq({"open", "closed"}) /\ Len(rec.punches) > 0
        /\ n \in 1 .. Len(rec.punches)
    BY DEF RacesInv, RacesTypeOK, RaceRecord, CopyOK
  <1>2. Closed(copy, source) = c
    BY <1>1 DEF Closed, RaceRecord
  <1>3. p \in Seq({"open", "closed"}) /\ Len(p) = Len(rec.punches)
    BY <1>1
  <1>4. p[Len(rec.punches)] = "open" => rec.punches[Len(rec.punches)] = "open" /\ copy.version # rec.version
    BY <1>1 DEF CopyOK
  <1> HIDE DEF p, n
  <1>5. c \in RaceRecord /\ c.version = rec.version /\ c.out = source /\ c.reckoned = source
        /\ c.punches = p
    BY <1>1, <1>3 DEF RaceRecord
  <1> QED BY <1>2, <1>3, <1>4, <1>5

LEMMA ReopenedRecord ==
    ASSUME RacesInv, Exists, NEW r \in Requests, SaveReopen(r)
    PROVE  Grows /\ rec'.out = "none" /\ rec'.reckoned = "none" /\ rec'.punches[Len(rec'.punches)] = "open"
  <1>1. rec \in RaceRecord /\ rec.punches \in Seq({"open", "closed"}) /\ rec.version \in Nat
    BY DEF RacesInv, RacesTypeOK, RaceRecord
  <1>2. PICK status \in {"none", "scanned", "submitted"} :
          rec' = [rec EXCEPT !.out = "none", !.reckoned = "none", !.status = status,
                             !.punches = Append(rec.punches, "open"), !.version = rec.version + 1]
    BY <1>1 DEF SaveReopen, RaceRecord
  <1>3. /\ rec' \in RaceRecord /\ rec'.version = rec.version + 1 /\ rec'.out = "none"
        /\ rec'.reckoned = "none" /\ rec'.punches = Append(rec.punches, "open")
    <2> DEFINE p == Append(rec.punches, "open")
               w == rec.version + 1
               e == [rec EXCEPT !.out = "none", !.reckoned = "none", !.status = status,
                                !.punches = p, !.version = w]
    <2>1. p \in Seq({"open", "closed"}) /\ w \in Nat
      BY <1>1
    <2>2. e \in RaceRecord /\ e.version = w /\ e.out = "none" /\ e.reckoned = "none" /\ e.punches = p
      <3> HIDE DEF p, w
      <3>1. rec \in RaceRecord /\ w \in Nat /\ p \in Seq({"open", "closed"})
        BY <1>1, <2>1
      <3>2. e \in RaceRecord
        BY <3>1 DEF RaceRecord
      <3>3. e.version = w /\ e.out = "none" /\ e.reckoned = "none" /\ e.punches = p
        BY <3>1 DEF RaceRecord
      <3> QED BY <3>2, <3>3
    <2>3. rec' = e
      BY <1>2
    <2> HIDE DEF e
    <2> QED BY <2>2, <2>3
  <1>4. /\ Len(rec'.punches) = Len(rec.punches) + 1 /\ Len(rec.punches) \in Nat
        /\ rec'.punches[Len(rec'.punches)] = "open"
    BY <1>1, <1>3
  <1> QED BY <1>1, <1>3, <1>4 DEF Grows

LEMMA FilledRecord ==
    ASSUME RacesInv, Exists, NEW copy \in RaceRecord, CopyOK(copy),
           NEW v \in {rec.version, rec.version + 1}, NEW status \in {"none", "scanned", "submitted"},
           rec' = [Closed(copy, "filled") EXCEPT !.version = v, !.status = status]
    PROVE  /\ Grows /\ rec'.out = "filled" /\ rec'.reckoned = "filled"
           /\ copy.version = rec.version => rec'.punches[Len(rec'.punches)] # "open"
  <1>1. rec.version \in Nat /\ Len(rec.punches) \in Nat /\ Len(rec.punches) > 0
    BY DEF RacesInv, RacesTypeOK, RaceRecord
  <1> DEFINE c == Closed(copy, "filled")
  <1>2. /\ c \in RaceRecord /\ Len(c.punches) = Len(rec.punches)
        /\ c.punches[Len(rec.punches)] = "open"
              => rec.punches[Len(rec.punches)] = "open" /\ copy.version # rec.version
        /\ c.out = "filled" /\ c.reckoned = "filled"
    BY ClosedRecord
  <1> HIDE DEF c
  <1>3. /\ rec' \in RaceRecord /\ rec'.version = v /\ rec'.punches = c.punches
        /\ rec'.out = c.out /\ rec'.reckoned = c.reckoned
    <2>1. rec' = [c EXCEPT !.version = v, !.status = status]
      BY DEF c
    <2>2. v \in Nat /\ c \in RaceRecord
      BY <1>1, <1>2
    <2>3. rec' \in RaceRecord
      BY <2>1, <2>2 DEF RaceRecord
    <2>4. /\ rec'.version = v /\ rec'.punches = c.punches
          /\ rec'.out = c.out /\ rec'.reckoned = c.reckoned
      BY <2>1, <2>2 DEF RaceRecord
    <2> QED BY <2>3, <2>4
  <1>4. Len(rec'.punches) = Len(rec.punches)
    BY <1>2, <1>3
  <1>5. Grows
    BY <1>1, <1>2, <1>3, <1>4 DEF Grows
  <1>6. rec'.punches[Len(rec'.punches)] = c.punches[Len(rec.punches)]
    BY <1>3, <1>4
  <1> QED BY <1>2, <1>3, <1>5, <1>6

LEMMA ScanKeepsInv ==
    ASSUME RacesInv, NEW r \in Requests, ScanStep(r)
    PROVE  RacesInv'
  <1>1. rec \in RaceRecord /\ NoRecord \in RaceRecord /\ request[r].copy \in RaceRecord
    BY NoRecordIsEmpty DEF RacesInv, RacesTypeOK
  <1>2. CASE LookIn(r) \/ LookAgain(r)
    <2>1. \/ request' = [request EXCEPT ![r] = [at |-> "done", copy |-> NoRecord]]
          \/ request' = [request EXCEPT ![r] = [at |-> "create", copy |-> NoRecord]]
          \/ request' = [request EXCEPT ![r] = [at |-> "reopen", copy |-> rec]] /\ Exists
      BY <1>2 DEF LookIn, LookAgain, ComeBack, Answer, Goto, Done, At, RacesInv, FoundExists
    <2>2. UNCHANGED <<rec, missed>>
      BY <1>2 DEF LookIn, LookAgain
    <2> QED BY <1>1, <2>1, <2>2, GoingOn DEF Stage
  <1>3. CASE Create(r) /\ Exists
    <2>1. request' = [request EXCEPT ![r] = [at |-> "again", copy |-> NoRecord]]
          /\ UNCHANGED <<rec, missed>>
      BY <1>3 DEF Create, Goto
    <2> QED BY <1>1, <1>3, <2>1, GoingOn DEF Stage
  <1>4. CASE Create(r) /\ ~ Exists
    <2>1. rec' = FirstIn /\ request' = [request EXCEPT ![r] = Done] /\ missed' = missed
      BY <1>4 DEF Create, Answer
    <2>2. \A q \in Requests : request'[q].at \notin {"again", "reopen", "close", "submit", "fill", "flag"}
      BY <1>4, <2>1 DEF RacesInv, RacesTypeOK, FoundExists, Done
    <2>3. RacesTypeOK'
      BY <1>1, <2>1, NoRecordIsEmpty DEF RacesInv, RacesTypeOK, Done, Stage
    <2>4. FoundExists'
      BY <1>4, <2>1, <2>2 DEF RacesInv, FoundExists
    <2> QED BY <2>2, <2>3, <2>4 DEF RacesInv
  <1>5. CASE SaveReopen(r)
    <2>1. Exists /\ request' = [request EXCEPT ![r] = [at |-> "done", copy |-> NoRecord]]
          /\ missed' = missed
      BY <1>5 DEF SaveReopen, Answer, Done, At, RacesInv, FoundExists
    <2> QED BY <1>1, <1>5, <2>1, ReopenedRecord, GoingOn DEF Stage
  <1>6. CASE LookOut(r)
    <2>1. Exists /\ request' = [request EXCEPT ![r] = [at |-> "close", copy |-> rec]]
          /\ UNCHANGED <<rec, missed>>
      BY <1>6 DEF LookOut, Goto
    <2> QED BY <1>1, <2>1, GoingOn DEF Stage
  <1>7. CASE SaveClose(r)
    <2>1. Exists /\ CopyOK(request[r].copy)
      BY <1>7 DEF SaveClose, At, RacesInv, FoundExists
    <2>2. CASE rec.version = request[r].copy.version
      <3>1. rec' = Closed(request[r].copy, "scanned") /\ missed' = missed
            /\ request' = [request EXCEPT ![r] = [at |-> "resolve", copy |-> NoRecord]]
        BY <1>7, <2>2 DEF SaveClose, Goto
      <3>2. rec.version \in Nat /\ Len(rec.punches) \in Nat /\ Len(rec.punches) > 0
        BY <2>1 DEF RacesInv, RacesTypeOK, RaceRecord
      <3>3. Grows
        BY <1>1, <2>1, <3>1, <3>2, ClosedRecord DEF Grows
      <3> QED BY <1>1, <2>1, <3>1, <3>3, GoingOn DEF Stage
    <2>3. CASE rec.version # request[r].copy.version
      <3>1. UNCHANGED <<rec, missed>> /\ request' = [request EXCEPT ![r] = [at |-> "done", copy |-> NoRecord]]
        BY <1>7, <2>3 DEF SaveClose, Answer, Done
      <3> QED BY <1>1, <3>1, GoingOn DEF Stage
    <2> QED BY <2>2, <2>3
  <1> QED BY <1>2, <1>3, <1>4, <1>5, <1>6, <1>7 DEF ScanStep

LEMMA DeskKeepsInv ==
    ASSUME RacesInv, NEW r \in Requests, DeskStep(r)
    PROVE  RacesInv'
  <1>1. rec \in RaceRecord /\ NoRecord \in RaceRecord /\ request[r].copy \in RaceRecord
    BY NoRecordIsEmpty DEF RacesInv, RacesTypeOK
  <1>2. CASE LoadDay(r) \/ LoadFlagged(r)
    <2>1. /\ UNCHANGED <<rec, missed>> /\ Exists
          /\ \/ request' = [request EXCEPT ![r] = [at |-> "submit", copy |-> rec]]
             \/ request' = [request EXCEPT ![r] = [at |-> "fill", copy |-> rec]]
             \/ request' = [request EXCEPT ![r] = [at |-> "resolve", copy |-> NoRecord]]
      BY <1>2, NoRecordIsEmpty DEF LoadDay, LoadFlagged, Goto, Exists, RacesInv, FoundExists
    <2> QED BY <1>1, <2>1, GoingOn DEF Stage
  <1>3. CASE SaveSubmitted(r)
    <2>1. PICK stage \in {"count", "resolve"} :
            request' = [request EXCEPT ![r] = [at |-> stage, copy |-> NoRecord]]
      BY <1>3 DEF SaveSubmitted, Goto
    <2>2. Exists /\ missed' = missed /\ rec' = [rec EXCEPT !.status = "submitted"]
      BY <1>3 DEF SaveSubmitted, At, RacesInv, FoundExists
    <2>3. rec.version \in Nat /\ Len(rec.punches) \in Nat /\ Len(rec.punches) > 0
      BY <2>2 DEF RacesInv, RacesTypeOK, RaceRecord
    <2>4. rec' \in RaceRecord /\ rec'.version = rec.version /\ rec'.punches = rec.punches
      BY <1>1, <2>2 DEF RaceRecord
    <2>5. Grows
      BY <2>3, <2>4 DEF Grows
    <2> QED BY <1>1, <2>1, <2>2, <2>5, GoingOn DEF Stage
  <1>4. CASE SaveFilled(r)
    <2>1. Exists /\ CopyOK(request[r].copy) /\ missed' = missed
      BY <1>4 DEF SaveFilled, At, RacesInv, FoundExists
    <2>2. CASE UNCHANGED rec /\ Answer(r)
      BY <1>1, <2>1, <2>2, GoingOn DEF Answer, Done, Stage
    <2>3. CASE /\ \E v \in {rec.version + 1} \union ({rec.version} \intersect {request[r].copy.version}) :
                     rec' = [Closed(request[r].copy, "filled") EXCEPT
                                !.version = v,
                                !.status = IF request[r].copy.status = "scanned" THEN "submitted" ELSE @]
               /\ Goto(r, "resolve", NoRecord)
      <3>1. Closed(request[r].copy, "filled").status \in {"none", "scanned", "submitted"}
        BY <1>1, <2>1, ClosedRecord DEF RaceRecord
      <3>2. PICK v \in {rec.version, rec.version + 1}, status \in {"none", "scanned", "submitted"} :
              rec' = [Closed(request[r].copy, "filled") EXCEPT !.version = v, !.status = status]
        BY <2>3, <3>1
      <3>3. Grows
        BY <1>1, <2>1, <3>2, FilledRecord
      <3> QED BY <1>1, <2>1, <2>3, <3>3, GoingOn DEF Goto, Stage
    <2> QED BY <1>4, <2>2, <2>3 DEF SaveFilled
  <1> QED BY <1>2, <1>3, <1>4 DEF DeskStep

LEMMA FlagKeepsInv ==
    ASSUME RacesInv, NEW r \in Requests, FlagStep(r)
    PROVE  RacesInv'
  <1>1. NoRecord \in RaceRecord
    BY NoRecordIsEmpty
  <1>2. UNCHANGED rec
    BY DEF FlagStep, ResolveMissedClockout, CountUnsubmitted, ResolveForgotSubmit, FindOpen,
           RaiseMissed, FindUnsubmitted, RaiseForgot
  <1>3. missed' = missed \/ Exists
    BY DEF FlagStep, ResolveMissedClockout, CountUnsubmitted, ResolveForgotSubmit, FindOpen,
           RaiseMissed, FindUnsubmitted, RaiseForgot, At, RacesInv, FoundExists
  <1>4. PICK stage \in {"done", "count", "clear", "flag", "remind"} :
          /\ request' = [request EXCEPT ![r] = [at |-> stage, copy |-> NoRecord]]
          /\ stage = "flag" => Exists
    BY DEF FlagStep, ResolveMissedClockout, CountUnsubmitted, ResolveForgotSubmit, FindOpen,
           RaiseMissed, FindUnsubmitted, RaiseForgot, Goto, Answer, Done
  <1> QED BY <1>1, <1>2, <1>3, <1>4, GoingOn DEF Stage

LEMMA RacesInvStep ==
    ASSUME RacesInv, [RacesNext]_raceVars
    PROVE  RacesInv'
  <1>1. CASE Crash
    BY <1>1, NoRecordIsEmpty DEF Crash, Done, RacesInv, RacesTypeOK, FoundExists, Stage, Exists
  <1>2. CASE Midnight \/ UNCHANGED raceVars
    BY <1>2 DEF Midnight, raceVars, RacesInv, RacesTypeOK, FoundExists, CopyOK, Exists
  <1>3. CASE RequestNext
    BY <1>3, ScanKeepsInv, DeskKeepsInv, FlagKeepsInv DEF RequestNext
  <1> QED BY <1>1, <1>2, <1>3 DEF RacesNext

\* A scan's save leaves a record whole.
LEMMA ScansLeaveWhole ==
    ASSUME RacesInv, NEW r \in Requests, ScanStep(r), Exists => Whole(rec)
    PROVE  (Exists => Whole(rec))'
  <1>1. CASE UNCHANGED rec
    BY <1>1 DEF Exists, Whole, IsOpen
  <1>2. CASE Create(r) /\ ~ Exists
    BY <1>2 DEF Create, FirstIn, Exists, Whole, IsOpen
  <1>3. CASE SaveReopen(r)
    <2>1. Exists
      BY <1>3 DEF SaveReopen, At, RacesInv, FoundExists
    <2> QED BY <1>3, <2>1, ReopenedRecord DEF Whole, IsOpen
  <1>4. CASE SaveClose(r) /\ rec.version = request[r].copy.version
    <2>1. Exists /\ CopyOK(request[r].copy) /\ request[r].copy \in RaceRecord
      BY <1>4 DEF SaveClose, At, RacesInv, RacesTypeOK, FoundExists
    <2>2. rec' = Closed(request[r].copy, "scanned")
      BY <1>4 DEF SaveClose
    <2> QED BY <1>4, <2>1, <2>2, ClosedRecord DEF Whole, IsOpen
  <1> QED BY <1>1, <1>2, <1>3, <1>4 DEF ScanStep, LookIn, Create, LookAgain, LookOut, SaveClose

\* So does that of a submission or a fix whose copy nothing has overtaken.
LEMMA DeskLeavesWhole ==
    ASSUME RacesInv, NEW r \in Requests, DeskStep(r), Exists => Whole(rec), ~ StaleFill
    PROVE  (Exists => Whole(rec))'
  <1>1. CASE UNCHANGED rec
    BY <1>1 DEF Exists, Whole, IsOpen
  <1>2. CASE SaveSubmitted(r)
    <2>1. Exists /\ rec \in RaceRecord
      BY <1>2 DEF SaveSubmitted, At, RacesInv, RacesTypeOK, FoundExists
    <2>2. rec'.out = rec.out /\ rec'.reckoned = rec.reckoned /\ rec'.punches = rec.punches
      BY <1>2, <2>1 DEF SaveSubmitted, RaceRecord
    <2> QED BY <2>1, <2>2 DEF Whole, IsOpen
  <1>3. CASE SaveFilled(r) /\ ~ UNCHANGED rec
    <2>1. Exists /\ request[r].copy \in RaceRecord /\ CopyOK(request[r].copy)
      BY <1>3 DEF SaveFilled, At, RacesInv, RacesTypeOK, FoundExists
    <2>2. rec.version = request[r].copy.version
      BY <1>3 DEF StaleFill
    <2>3. Closed(request[r].copy, "filled").status \in {"none", "scanned", "submitted"}
      BY <2>1, ClosedRecord DEF RaceRecord
    <2>4. PICK v \in {rec.version, rec.version + 1}, status \in {"none", "scanned", "submitted"} :
            rec' = [Closed(request[r].copy, "filled") EXCEPT !.version = v, !.status = status]
      BY <1>3, <2>3 DEF SaveFilled
    <2> QED BY <2>1, <2>2, <2>4, FilledRecord DEF Whole, IsOpen
  <1> QED BY <1>1, <1>2, <1>3 DEF DeskStep, LoadDay, LoadFlagged

\* Nothing else writes the record.
LEMMA StepsLeaveWhole ==
    ASSUME RacesInv, RacesNext, Exists => Whole(rec), ~ StaleFill
    PROVE  (Exists => Whole(rec))'
  <1>1. CASE UNCHANGED rec
    BY <1>1 DEF Exists, Whole, IsOpen
  <1>2. Crash \/ Midnight => UNCHANGED rec
    BY DEF Crash, Midnight
  <1>3. \A r \in Requests : FlagStep(r) => UNCHANGED rec
    BY DEF FlagStep, ResolveMissedClockout, CountUnsubmitted, ResolveForgotSubmit, FindOpen,
           RaiseMissed, FindUnsubmitted, RaiseForgot
  <1>4. CASE \E r \in Requests : ScanStep(r) \/ DeskStep(r)
    BY <1>4, ScansLeaveWhole, DeskLeavesWhole
  <1> QED BY <1>1, <1>2, <1>3, <1>4 DEF RacesNext, RequestNext

\* Scans from several gates, submissions, fixes, sweeps and crashes, in any number and split
\* at their awaits, leave the record with an OUT, its hours and its last punch closed, or
\* with none of them; only a typed OUT saved from an overtaken copy does not
\* (attendance.ts:158, :219).
THEOREM RecordStaysWhole == MCSpec => OnlyStaleFillsBreak
  <1>1. MCInit => RacesInv
    BY NoRecordIsEmpty DEF MCInit, RacesInit, Done, RacesInv, RacesTypeOK, FoundExists, Stage, Exists
  <1>2. RacesInv /\ [(AtKiosk \/ AtServer \/ AtRecord) /\ UNCHANGED scenario]_clockingVars => RacesInv'
    BY RacesInvStep DEF AtKiosk, AtServer, AtRecord, clockingVars
  <1>3. RacesInv /\ [(AtKiosk \/ AtServer \/ AtRecord) /\ UNCHANGED scenario]_clockingVars =>
          [(Exists => Whole(rec)) /\ ~ StaleFill => (Exists => Whole(rec))']_clockingVars
    <2>1. UNCHANGED rec /\ (Exists => Whole(rec)) => (Exists => Whole(rec))'
      BY DEF Exists, Whole, IsOpen
    <2> QED BY <2>1, StepsLeaveWhole DEF AtKiosk, AtServer, AtRecord, raceVars
  <1> QED BY <1>1, <1>2, <1>3, PTL DEF MCSpec, OnlyStaleFillsBreak

=============================================================================
