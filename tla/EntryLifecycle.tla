--------------------------- MODULE EntryLifecycle ---------------------------
(***************************************************************************)
(* The config entry of one UPS (custom_components/wallecube_ups_ble/       *)
(* __init__.py): setup, unload, reload and removal, with the connection as *)
(* SessionPromise describes it.                                            *)
(*                                                                         *)
(* Home Assistant runs one operation of an entry at a time, keeps          *)
(* scheduled reloads until the running one ended, and repeats a setup that *)
(* was not ready.  It calls async_unload_entry for a loaded entry only.    *)
(***************************************************************************)
EXTENDS Naturals

CONSTANT MaxReloads   \* bound: scheduled reloads told apart

ASSUME MaxReloadsAssumption == MaxReloads \in Nat \ {0}

VARIABLES
    entry,      \* what Home Assistant and the entry are at, see Entries
    next,       \* what follows an unload: "setup", "disabled" or "removed"
    session,    \* of the device in runtime_data, see SessionPromise
    told,       \* see SessionPromise
    listening,  \* _on_disconnect is among the device's listeners
    reloads,    \* reloads scheduled that have not begun
    timer,      \* Home Assistant's timer that repeats the setup
    callbacks,  \* reappear callbacks that are registered
    present     \* Bluetooth knows an advertisement of the UPS

vars == <<entry, next, session, told, listening, reloads, timer, callbacks, present>>

Promise == INSTANCE SessionPromise

\* awaiting in setup: "connecting", "cleaning" up after an attempt, and "platforms"; in
\* unload: "closing" and "unloading"
Busy == {"connecting", "cleaning", "platforms", "closing", "unloading"}

Entries == Busy \cup {"disabled", "loaded", "retry", "failed_unload", "removed"}

Init ==
    /\ entry = "disabled"
    /\ next = "setup"
    /\ Promise!Init
    /\ listening = FALSE
    /\ reloads = 0
    /\ timer = FALSE
    /\ callbacks = 0
    /\ present \in BOOLEAN

ScheduleReload == reloads' = IF reloads < MaxReloads THEN reloads + 1 ELSE reloads

\* on_disconnect was called
Tell == IF listening THEN ScheduleReload ELSE UNCHANGED reloads

-----------------------------------------------------------------------------
(* async_setup_entry                                                          *)

\* slip: a callback is registered on top of an earlier one, which nobody can cancel then
RegisterAgain == callbacks' = callbacks + 1

\* _register_reappear_callback
Register == callbacks' = IF callbacks = 0 THEN 1 ELSE callbacks

\* slip: a setup without the UPS ends unfinished and nobody repeats it
SetupWithoutRetry ==
    /\ timer' = FALSE
    /\ \/ /\ ~present
          /\ Register
          /\ entry' = "retry"
          /\ UNCHANGED <<session, told>>
       \/ /\ present
          /\ callbacks' = 0
          /\ entry' = "connecting"
          /\ Promise!Begin

\* up to the await of connect(), which starts an attempt on the kept or a new device
Setup ==
    \/ /\ ~present
       /\ Register
       /\ entry' = "retry"
       /\ timer' = TRUE
       /\ UNCHANGED <<session, told>>
    \/ /\ present
       /\ callbacks' = 0
       /\ entry' = "connecting"
       /\ timer' = FALSE
       /\ Promise!Begin

SetUp ==
    /\ entry = "disabled" \/ (entry = "retry" /\ timer)
    /\ Setup
    /\ UNCHANGED <<next, listening, reloads, present>>

\* slip: the listener is registered once the platforms are set up
ConnectedUnheard ==
    /\ entry = "connecting"
    /\ Promise!Succeed
    /\ entry' = "platforms"
    /\ UNCHANGED <<next, listening, reloads, timer, callbacks, present>>

\* connect() returned: the listener is registered before anything else is awaited
ConnectReturns ==
    /\ entry = "connecting"
    /\ Promise!Succeed
    /\ listening' = TRUE
    /\ entry' = "platforms"
    /\ UNCHANGED <<next, reloads, timer, callbacks, present>>

\* ConfigEntryNotReady, whose retry Home Assistant plans
NotReady == entry' = "retry" /\ timer' = TRUE

\* connect() raised one of the errors it cleans up after
ConnectFails ==
    /\ entry = "connecting"
    /\ Promise!End
    /\ NotReady
    /\ UNCHANGED <<next, listening, reloads, callbacks, present>>

\* slip: an unknown error is handled like the others, without the disconnect
ConnectRaisesUncleaned ==
    /\ entry = "connecting"
    /\ Promise!Abandon
    /\ NotReady
    /\ UNCHANGED <<next, listening, reloads, callbacks, present>>

\* connect() raised another error and left its attempt as it was; disconnect() is awaited
ConnectRaises ==
    /\ entry = "connecting"
    /\ Promise!Abandon
    /\ entry' = "cleaning"
    /\ UNCHANGED <<next, listening, reloads, timer, callbacks, present>>

CleanedUp ==
    /\ entry = "cleaning"
    /\ Promise!Close
    /\ NotReady
    /\ UNCHANGED <<next, listening, reloads, callbacks, present>>

PlatformsReady ==
    /\ entry = "platforms"
    /\ entry' = "loaded"
    /\ UNCHANGED <<next, session, told, listening, reloads, timer, callbacks, present>>

-----------------------------------------------------------------------------
(* async_unload_entry and async_remove_entry                                  *)

\* up to the await of disconnect(), which drops the session at once
Unload(then) ==
    /\ entry = "loaded"
    /\ entry' = "closing"
    /\ next' = then
    /\ callbacks' = 0
    /\ Promise!Close

DisconnectReturns ==
    /\ entry = "closing"
    /\ entry' = "unloading"
    /\ UNCHANGED <<next, session, told, listening, reloads, timer, callbacks, present>>

Removed == entry' = "removed" /\ callbacks' = 0

\* Home Assistant calls what async_on_unload collected and drops runtime_data
PlatformsUnloaded ==
    /\ entry = "unloading"
    /\ listening' = FALSE
    /\ \/ next = "setup" /\ Setup
       \/ next = "disabled" /\ entry' = "disabled"
             /\ UNCHANGED <<session, told, timer, callbacks>>
       \/ next = "removed" /\ Removed /\ UNCHANGED <<session, told, timer>>
    /\ UNCHANGED <<next, reloads, present>>

\* a platform refuses: the entry stays as it is until it is removed
PlatformsNotUnloaded ==
    /\ entry = "unloading"
    /\ \/ next = "removed" /\ Removed
       \/ next # "removed" /\ entry' = "failed_unload" /\ UNCHANGED callbacks
    /\ UNCHANGED <<next, session, told, listening, reloads, timer, present>>

\* a reload sets up an entry that waits for its next setup
ReloadBegins ==
    \/ Unload("setup") /\ UNCHANGED timer
    \/ entry = "retry" /\ Setup /\ UNCHANGED next

\* one that was scheduled ignores the entries it cannot reload
Reload ==
    /\ reloads > 0
    /\ entry \notin Busy
    /\ reloads' = reloads - 1
    /\ \/ ReloadBegins
       \/ /\ entry \in {"disabled", "failed_unload", "removed"}
          /\ UNCHANGED <<entry, next, session, told, timer, callbacks>>
    /\ UNCHANGED <<listening, present>>

\* the user asks for a reload, whatever is scheduled besides
UserReloads ==
    /\ ReloadBegins
    /\ UNCHANGED <<listening, reloads, present>>

\* the user disables the entry; unloading one that waits for its next setup only stops the
\* timer
Disable ==
    /\ \/ Unload("disabled") /\ UNCHANGED timer
       \/ /\ entry = "retry"
          /\ entry' = "disabled"
          /\ timer' = FALSE
          /\ UNCHANGED <<next, session, told, callbacks>>
    /\ UNCHANGED <<listening, reloads, present>>

Remove ==
    /\ \/ Unload("removed") /\ UNCHANGED timer
       \/ /\ entry \in {"retry", "disabled", "failed_unload"}
          /\ Removed
          /\ timer' = FALSE
          /\ UNCHANGED <<next, session, told>>
    /\ UNCHANGED <<listening, reloads, present>>

-----------------------------------------------------------------------------
(* the connection and Bluetooth                                               *)

\* the link drops or add_error() ends the session
SessionEnds ==
    /\ session = "up"
    /\ Promise!End
    /\ Tell
    /\ UNCHANGED <<entry, next, listening, timer, callbacks, present>>

\* add_error() on a link that is being ended, or while connect() subscribes: the device
\* shares its listeners with all its connections
Warned ==
    /\ Promise!Warn
    /\ Tell
    /\ UNCHANGED <<entry, next, listening, timer, callbacks, present>>

\* slip: the callback removes itself and leaves the reload to others
AdvertiseUnscheduled ==
    /\ present' = TRUE
    /\ callbacks' = 0
    /\ timer' = (timer /\ callbacks = 0)
    /\ UNCHANGED <<entry, next, session, told, listening, reloads>>

\* an advertisement: _on_device_reappear removes itself and schedules a reload, which
\* stops the timer
Advertise ==
    /\ present' = TRUE
    /\ callbacks' = 0
    /\ \/ callbacks # 0 /\ ScheduleReload /\ timer' = FALSE
       \/ callbacks = 0 /\ UNCHANGED <<reloads, timer>>
    /\ UNCHANGED <<entry, next, session, told, listening>>

\* Home Assistant forgets a UPS that is silent
Forget ==
    /\ present
    /\ present' = FALSE
    /\ UNCHANGED <<entry, next, session, told, listening, reloads, timer, callbacks>>

Operation ==
    \/ ConnectReturns \/ ConnectFails \/ ConnectRaises \/ CleanedUp \/ PlatformsReady
    \/ DisconnectReturns \/ PlatformsUnloaded \/ PlatformsNotUnloaded

Next ==
    \/ SetUp \/ Operation \/ Reload \/ UserReloads \/ Disable \/ Remove
    \/ SessionEnds \/ Warned \/ Advertise \/ Forget

Spec == Init /\ [][Next]_vars

\* Awaited calls end, timers fire and scheduled reloads begin.  Nobody has to enable,
\* disable, reload or remove the entry, no session has to end and the UPS may stay silent.
Fairness ==
    /\ WF_vars(Operation)
    /\ WF_vars(entry = "retry" /\ SetUp)
    /\ WF_vars(Reload)

FairSpec == Spec /\ Fairness

-----------------------------------------------------------------------------
TypeOK ==
    /\ entry \in Entries
    /\ next \in {"setup", "disabled", "removed"}
    /\ Promise!TypeOK
    /\ listening \in BOOLEAN
    /\ reloads \in 0..MaxReloads
    /\ timer \in BOOLEAN
    /\ callbacks \in {0, 1}
    /\ present \in BOOLEAN

\* __init__.py:124: a disconnect while the platforms are set up is not lost and the entry
\* does not stay loaded on a dead link. An entry whose session ended has a reload coming.
EndedSessionReloads ==
    entry \in {"platforms", "loaded"} /\ session = "ended" => reloads > 0

\* A session lives only under an entry that connects or is set up, and what an unexpected
\* error leaves of an attempt only while it is cleaned up, so that the UPS, which accepts a
\* single connection, is free whenever the entry is not in use.
NoStraySession ==
    /\ session = "starting" => entry = "connecting"
    /\ session = "raised" => entry = "cleaning"
    /\ session = "up" => entry \in {"platforms", "loaded"}

\* An entry that waits is woken by the timer or by a reload, whichever the races of
\* retry, reappear callback and reload leave.
RetryIsWoken == entry = "retry" => timer \/ reloads > 0

\* The callback is registered only for a UPS that no setup uses: an advertisement never
\* reloads an entry that is loaded or connecting, and none of a removed one calls back.
CallbackOnlyWaits == callbacks # 0 => entry \in {"retry", "disabled"}

\* An entry whose session ended does not stay loaded.
LostSessionLeaves ==
    entry = "loaded" /\ session = "ended" ~> entry # "loaded"

\* An entry that waits, for a UPS that is there, tries to connect unless the user stops
\* it or the UPS goes silent again.
WaitingConnects ==
    entry = "retry" /\ present
        ~> entry \in {"connecting", "disabled", "removed"} \/ ~present
=============================================================================
