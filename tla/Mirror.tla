------------------------------- MODULE Mirror -------------------------------
(***************************************************************************)
(* What the publication of fields promises Home Assistant, without update  *)
(* periods, clocks and the order of names: Home Assistant has a copy of    *)
(* the state of every field that it watches, nobody writes anything but    *)
(* the present state into that copy, and a state that the copy lacks is    *)
(* owed until it is written.                                               *)
(***************************************************************************)

CONSTANTS Fields,  \* names of the fields
          States   \* what Home Assistant may have of a field

VARIABLES
    linked,   \* a link lasts
    actual,   \* the state of each field
    watched,  \* fields with an entity
    shown,    \* Home Assistant's copy
    owed      \* fields whose state is still to be written

vars == <<linked, actual, watched, shown, owed>>

TypeOK ==
    /\ linked \in BOOLEAN
    /\ actual \in [Fields -> States]
    /\ watched \subseteq Fields
    /\ shown \in [Fields -> States]
    /\ owed \subseteq Fields

Init ==
    /\ TypeOK
    /\ linked = TRUE
    /\ watched = {}
    /\ owed = {}

\* every field whose state changes is owed
Change ==
    /\ actual' \in [Fields -> States]
    /\ owed' \in SUBSET Fields
    /\ owed \cup {f \in Fields : actual'[f] # actual[f]} \subseteq owed'
    /\ UNCHANGED <<linked, watched, shown>>

\* only what is written may be crossed off
Show(names) ==
    /\ shown' = [f \in Fields |-> IF f \in names \cap watched THEN actual[f] ELSE shown[f]]
    /\ owed' \in SUBSET owed
    /\ owed \ names \subseteq owed'
    /\ UNCHANGED <<linked, actual, watched>>

Watch(f) ==
    /\ watched' = watched \cup {f}
    /\ shown' = [shown EXCEPT ![f] = actual[f]]
    /\ UNCHANGED <<linked, actual, owed>>

\* nothing is written or owed when the link ends: the entities go with it
Lose ==
    /\ linked
    /\ linked' = FALSE
    /\ actual' \in [Fields -> States]
    /\ UNCHANGED <<watched, shown, owed>>

Recover ==
    /\ ~linked
    /\ watched = {}
    /\ linked' = TRUE
    /\ actual' \in [Fields -> States]
    /\ UNCHANGED <<watched, shown, owed>>

Next ==
    \/ Change \/ Lose \/ Recover
    \/ \E names \in SUBSET Fields : Show(names)
    \/ \E f \in Fields : Watch(f)

Spec == Init /\ [][Next]_vars

\* On a link, a copy that lags behind the state of its field is owed.
LagIsOwed == linked => \A f \in watched : shown[f] # actual[f] => f \in owed
=============================================================================
