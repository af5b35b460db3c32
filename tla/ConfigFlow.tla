----------------------------- MODULE ConfigFlow -----------------------------
(***************************************************************************)
(* How the entry of a UPS comes to be (config_flow.py), composed with what *)
(* it does afterwards: flows that were discovered or started by a user     *)
(* verify with a connection of their own that the UPS answers, before,     *)
(* after and while its entry exists.  The UPS accepts a single connection. *)
(*                                                                         *)
(* Home Assistant runs several flows at once.  It drops the ones with the  *)
(* unique id of a new entry, and whatever the step of a dropped flow       *)
(* returns; the step itself runs on.                                       *)
(***************************************************************************)
EXTENDS EntryLifecycle

CONSTANTS Discovered,  \* flows started by async_step_bluetooth
          Started      \* flows started by async_step_user

ASSUME FlowsAssumption == Discovered \cap Started = {}

VARIABLES
    step,    \* of each flow; _validate_device awaits in "connecting", "verified" and "refused"
    live,    \* flows Home Assistant has in progress
    known,   \* flows that set their unique id
    linked   \* flows whose device holds the link

flows   == <<step, live, known, linked>>
allVars == <<vars, flows>>

Flows   == Discovered \cup Started
Running == {"connecting", "verified", "refused"}

Configured == entry # "removed"

\* what an unexpected error left of an attempt may have no link
LinkIsFree == session # "up" /\ linked = {}

FlowInit ==
    /\ entry = "removed"
    /\ next = "setup"
    /\ Promise!Init
    /\ listening = FALSE
    /\ reloads = 0
    /\ timer = FALSE
    /\ callbacks = 0
    /\ present \in BOOLEAN
    /\ step = [f \in Flows |-> "none"]
    /\ live = {}
    /\ known = {}
    /\ linked = {}

-----------------------------------------------------------------------------

\* async_step_bluetooth: not for a UPS with an entry, or that another flow is about
Discover(f) ==
    /\ f \in Discovered
    /\ step[f] = "none"
    /\ present
    /\ ~Configured
    /\ live \cap known = {}
    /\ step' = [step EXCEPT ![f] = "form"]
    /\ live' = live \cup {f}
    /\ known' = known \cup {f}
    /\ UNCHANGED <<vars, linked>>

\* async_step_user, until the user picked the UPS: those with an entry are not listed
Start(f) ==
    /\ f \in Started
    /\ step[f] = "none"
    /\ present
    /\ ~Configured
    /\ step' = [step EXCEPT ![f] = "form"]
    /\ live' = live \cup {f}
    /\ known' = known \ {f}
    /\ UNCHANGED <<vars, linked>>

\* slip: an entry that was made since the UPS was picked is not noticed
ConfirmUnchecked(f) ==
    /\ known' = known \cup {f}
    /\ step' = [step EXCEPT ![f] = "connecting"]
    /\ UNCHANGED live

\* async_step_device_confirm takes the unique id whoever else has it, and looks for the
\* entry again
Confirm(f) ==
    /\ known' = known \cup {f}
    /\ \/ /\ ~Configured
          /\ step' = [step EXCEPT ![f] = "connecting"]
          /\ UNCHANGED live
       \/ /\ Configured
          /\ step' = [step EXCEPT ![f] = "none"]
          /\ live' = live \ {f}

\* the user submits the form, up to the await of connect()
Submit(f) ==
    /\ step[f] = "form"
    /\ \/ /\ f \in Discovered
          /\ step' = [step EXCEPT ![f] = "connecting"]
          /\ UNCHANGED <<live, known>>
       \/ f \in Started /\ Confirm(f)
    /\ UNCHANGED <<vars, linked>>

\* connect() returned, disconnect() is awaited
Verified(f) ==
    /\ step[f] = "connecting"
    /\ LinkIsFree
    /\ step' = [step EXCEPT ![f] = "verified"]
    /\ linked' = linked \cup {f}
    /\ UNCHANGED <<vars, live, known>>

\* connect() raised; after an exception it does not expect it leaves its link up
Refused(f) ==
    /\ step[f] = "connecting"
    /\ step' = [step EXCEPT ![f] = "refused"]
    /\ linked' \in {linked} \cup (IF LinkIsFree THEN {linked \cup {f}} ELSE {})
    /\ UNCHANGED <<vars, live, known>>

FlowLinkDrops(f) ==
    /\ f \in linked
    /\ linked' = linked \ {f}
    /\ UNCHANGED <<vars, step, live, known>>

\* slip: only a connection that was made is ended
DisconnectsVerified(f) == linked' = IF step[f] = "verified" THEN linked \ {f} ELSE linked

\* disconnect() in the finally of _validate_device; links it could not end are in Connection
Disconnects(f) == linked' = linked \ {f}

\* the form again, with an error, unless the flow was dropped
ShowError(f) ==
    /\ step[f] = "refused"
    /\ Disconnects(f)
    /\ step' = [step EXCEPT ![f] = IF f \in live THEN "form" ELSE "none"]
    /\ UNCHANGED <<vars, live, known>>

\* Home Assistant drops the other flows with the unique id, adds the entry and sets it
\* up; nothing of an earlier entry concerns it
CreateEntry(f) ==
    /\ step[f] = "verified"
    /\ f \in live
    /\ ~Configured
    /\ Disconnects(f)
    /\ live' = live \ ({f} \cup known)
    /\ step' = [g \in Flows |-> IF g = f \/ (g \in live \cap known /\ step[g] = "form")
                                THEN "none" ELSE step[g]]
    /\ Setup
    /\ next' = "setup"
    /\ reloads' = 0
    /\ listening' = FALSE
    /\ UNCHANGED <<present, known>>

\* what the step of a dropped flow returns
Ignored(f) ==
    /\ step[f] = "verified"
    /\ f \notin live
    /\ Disconnects(f)
    /\ step' = [step EXCEPT ![f] = "none"]
    /\ UNCHANGED <<vars, live, known>>

\* the user closes the dialog
Dismiss(f) ==
    /\ f \in live
    /\ live' = live \ {f}
    /\ step' = [step EXCEPT ![f] = IF step[f] = "form" THEN "none" ELSE step[f]]
    /\ UNCHANGED <<vars, known, linked>>

FlowRuns(f) == Verified(f) \/ Refused(f) \/ ShowError(f) \/ CreateEntry(f) \/ Ignored(f)

FlowStep(f) ==
    \/ Discover(f) \/ Start(f) \/ Submit(f) \/ FlowRuns(f)
    \/ FlowLinkDrops(f) \/ Dismiss(f)

\* the entry does not get a link that a flow holds
EntryStep(Action) ==
    /\ Action
    /\ entry = "connecting" /\ entry' = "platforms" => LinkIsFree
    /\ UNCHANGED flows

FlowNext == EntryStep(Next) \/ \E f \in Flows : FlowStep(f)

FlowSpec == FlowInit /\ [][FlowNext]_allVars

\* As for the entry alone; what a flow awaits ends as well, and nobody has to use a form.
FlowFairness ==
    /\ WF_allVars(EntryStep(Operation))
    /\ WF_allVars(EntryStep(entry = "retry" /\ SetUp))
    /\ WF_allVars(EntryStep(Reload))
    /\ \A f \in Flows : WF_allVars(FlowRuns(f))

FairFlowSpec == FlowSpec /\ FlowFairness

-----------------------------------------------------------------------------
FlowTypeOK ==
    /\ step \in [Flows -> Running \cup {"none", "form"}]
    /\ live \subseteq Flows
    /\ known \subseteq Flows
    /\ linked \subseteq Flows

\* A flow holds the UPS's only connection no longer than its step runs, whether the UPS
\* was verified, an exception came that nobody expected or the user closed the dialog: an
\* open form, or a flow that ended, never keeps an entry from connecting.
FormHoldsNoLink == \A f \in linked : step[f] \in Running

\* config_flow.py:122: two flows about one UPS, of which one did not set its unique id
\* yet, never both make an entry; the second would replace the entry that runs.
OneEntry == \A f \in live : step[f] \in Running /\ f \in known => ~Configured
=============================================================================
