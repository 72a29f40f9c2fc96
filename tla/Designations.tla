---------------------------- MODULE Designations ----------------------------
(***************************************************************************)
(* Designations and the copies of their names on employees and on          *)
(* attendance records (routes/designations.ts, routes/workers.ts,          *)
(* lib/attendance.ts).  One request at a time.                             *)
(***************************************************************************)
CONSTANTS
    Titles,     \* the designations' ids
    Staff,      \* the employees
    Words       \* the words a title is written with

ASSUME DesignationsAssumption ==
    "none" \notin Titles /\ {"none", "deleted"} \cap Words = {}

VARIABLES
    title,      \* the designations collection: a name, NoName before it and Deleted after
    staff,      \* of each employee: status, designationId, designationName
    workday,    \* the designation an attendance record of the employee was written with
    returned    \* the employees who were restored since they last chose a designation

titleVars == <<title, staff, workday, returned>>

Spelling == {"Plain", "Capital"}
NoName   == [word |-> "none", spelling |-> "Plain"]
Name     == [word : Words, spelling : Spelling]
Deleted  == [word |-> "deleted", spelling |-> "Plain"]
NoTitle  == "none"
NoDay    == [id |-> NoTitle, name |-> NoName]
OnBooks  == {"pending", "active", "inactive"}

DesignationsInit ==
    /\ title    = [d \in Titles |-> NoName]
    /\ staff    = [w \in Staff |-> [status |-> "unborn", id |-> NoTitle, name |-> NoName]]
    /\ workday  = [w \in Staff |-> NoDay]
    /\ returned = {}

Stands(d) == title[d] \in Name

\* The designations spelled like n, whatever the case.
Alike(n) == {d \in Titles : title[d].word = n.word}

-----------------------------------------------------------------------------
(* The designations' page. *)

AddDesignation(d, n) ==
    /\ title[d] = NoName /\ Alike(n) = {}
    /\ title' = [title EXCEPT ![d] = n]
    /\ UNCHANGED <<staff, workday, returned>>

\* Faulty variant: the new name reaches those in service only.
RenamedInService(d, n) ==
    /\ staff'   = [w \in Staff |-> IF staff[w].id = d /\ staff[w].status \in OnBooks
                                   THEN [staff[w] EXCEPT !.name = n] ELSE staff[w]]
    /\ workday' = [w \in Staff |-> IF workday[w].id = d THEN [workday[w] EXCEPT !.name = n]
                                   ELSE workday[w]]

\* Whoever carries the designation, on the roster or off it, and every record.
Renamed(d, n) ==
    /\ staff'   = [w \in Staff |-> IF staff[w].id = d THEN [staff[w] EXCEPT !.name = n]
                                   ELSE staff[w]]
    /\ workday' = [w \in Staff |-> IF workday[w].id = d THEN [workday[w] EXCEPT !.name = n]
                                   ELSE workday[w]]

RenameDesignation(d, n) ==
    /\ Stands(d) /\ title[d] # n /\ Alike(n) \subseteq {d}
    /\ title' = [title EXCEPT ![d] = n]
    /\ Renamed(d, n)
    /\ UNCHANGED returned

\* Faulty variant: only those at work are counted.
AtWork(d) == {w \in Staff : staff[w].id = d /\ staff[w].status = "active"}

Holders(d) == {w \in Staff : staff[w].id = d /\ staff[w].status \in OnBooks}

DeleteDesignation(d) ==
    /\ Stands(d) /\ Holders(d) = {}
    /\ title' = [title EXCEPT ![d] = Deleted]
    /\ UNCHANGED <<staff, workday, returned>>

-----------------------------------------------------------------------------
(* The employees' forms: a listed designation, or a name typed on the spot,  *)
(* found whatever its case or created.                                       *)

ResolveDesignation(w, status) ==
    /\ \/ \E d \in Titles : /\ Stands(d)
                            /\ staff' = [staff EXCEPT ![w] = [status |-> status, id |-> d, name |-> title[d]]]
                            /\ UNCHANGED title
       \/ \E d \in Titles, n \in Name :
             /\ title[d] = NoName /\ Alike(n) = {}
             /\ title' = [title EXCEPT ![d] = n]
             /\ staff' = [staff EXCEPT ![w] = [status |-> status, id |-> d, name |-> n]]
    /\ returned' = returned \ {w}
    /\ UNCHANGED workday

Hire(w)     == staff[w].status = "unborn" /\ ResolveDesignation(w, "active")
Reassign(w) == staff[w].status \in OnBooks /\ \E s \in {"active", "inactive"} : ResolveDesignation(w, s)

Depart(w) ==
    /\ staff[w].status \in OnBooks
    /\ staff' = [staff EXCEPT ![w].status = "archived"]
    /\ UNCHANGED <<title, workday, returned>>

Return(w) ==
    /\ staff[w].status = "archived"
    /\ staff' = [staff EXCEPT ![w].status = "active"]
    /\ returned' = returned \union {w}
    /\ UNCHANGED <<title, workday>>

\* The record of a scan keeps the employee's designation of the moment.
WorkDay(w) ==
    /\ staff[w].status = "active"
    /\ workday' = [workday EXCEPT ![w] = [id |-> staff[w].id, name |-> staff[w].name]]
    /\ UNCHANGED <<title, staff, returned>>

DesignationsNext ==
    \/ \E d \in Titles :
          \/ \E n \in Name : AddDesignation(d, n) \/ RenameDesignation(d, n)
          \/ DeleteDesignation(d)
    \/ \E w \in Staff : Hire(w) \/ Reassign(w) \/ Depart(w) \/ Return(w) \/ WorkDay(w)

=============================================================================
