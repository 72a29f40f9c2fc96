----------------------------- MODULE SiteClosing -----------------------------
(***************************************************************************)
(* What closing a site promises about the people who work there:           *)
(*   - who also belongs to another open site just loses this one;          *)
(*   - only who has no other site is sent off with it;                     *)
(*   - whoever is deleted is on the register of deletions by then;         *)
(*   - the site closes once nobody is left at it.                          *)
(* Sites may be closed side by side, and every step is one the office may  *)
(* stop after for good.                                                    *)
(***************************************************************************)
CONSTANTS Site, Employee

VARIABLES
    open,       \* the sites that are open
    posts,      \* the sites of each employee on the roster; none of who is off it
    deleted,    \* the employees deleted
    registered  \* the employees on the register of deletions

vars == <<open, posts, deleted, registered>>

Init ==
    /\ open \subseteq Site
    /\ posts \in [Employee -> SUBSET open]
    /\ deleted = {}
    /\ registered = {}

Detach(w, s) ==
    /\ s \in posts[w] /\ posts[w] # {s}
    /\ posts' = [posts EXCEPT ![w] = @ \ {s}]
    /\ UNCHANGED <<open, deleted, registered>>

\* Who is off the roster already may be sent off again, by the closing of another site.
SendOff(w, s) ==
    /\ posts[w] \subseteq {s}
    /\ posts' = [posts EXCEPT ![w] = {}]
    /\ \/ deleted' = deleted \ {w}
       \/ w \in registered /\ deleted' = deleted \union {w}
    /\ UNCHANGED <<open, registered>>

Register(w) ==
    /\ registered' = registered \union {w}
    /\ UNCHANGED <<open, posts, deleted>>

Close(s) ==
    /\ \A w \in Employee : s \notin posts[w]
    /\ open' = open \ {s}
    /\ UNCHANGED <<posts, deleted, registered>>

Reopen(s) ==
    /\ open' = open \union {s}
    /\ UNCHANGED <<posts, deleted, registered>>

Next ==
    \/ \E s \in Site : Close(s) \/ Reopen(s)
    \/ \E w \in Employee : Register(w) \/ \E s \in Site : Detach(w, s) \/ SendOff(w, s)

Spec == Init /\ [][Next]_vars

=============================================================================
