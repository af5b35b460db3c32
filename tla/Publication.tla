---------------------------- MODULE Publication ----------------------------
(***************************************************************************)
(* How a changed field of the device reaches Home Assistant                *)
(* (wclib/devicebase.py _publish, wclib/props/updatable_props.py,          *)
(* entity.py): sensors follow the update period, other entities are        *)
(* written at once, and data that goes stale or current again is written   *)
(* past the period.  When frames are overdue is in DeviceSession.          *)
(*                                                                         *)
(* The names of one update are published in the order of a set, each with  *)
(* a look at the clock of its own: one step each, during which nothing     *)
(* else of the event loop runs.                                            *)
(***************************************************************************)
EXTENDS Integers

CONSTANTS Fields,       \* names of the fields
          Throttled,    \* those shown by a sensor, the others have another entity
          DataFields,   \* those filled from data frames
          Values, None, \* values of a field; None is not known
          Unavailable,  \* what an entity without a current value shows
          Periods,      \* update periods a user chooses from, in s
          UNTHROTTLED,  \* _UNTHROTTLED_SECONDS
          MaxSetbacks   \* bound: seconds by which the clock is set back

ASSUME FieldsAssumption == Throttled \subseteq Fields /\ DataFields \subseteq Fields
ASSUME ValuesAssumption == None \in Values /\ Unavailable \notin Values
ASSUME PeriodsAssumption ==
    /\ Periods \subseteq Nat
    /\ \E p \in Periods : \A q \in Periods : p >= q
    /\ UNTHROTTLED \in Nat /\ MaxSetbacks \in Nat

VARIABLES
    value,       \* of each field
    current,     \* data_current
    linked,      \* is_connected
    subscribed,  \* fields whose entity was added to Home Assistant
    shown,       \* what Home Assistant has of each of them
    batch,       \* names _publish still has to go through
    forced,      \* it goes through them without the throttle
    resumes,     \* _on_data still has to make the data current
    period,      \* _update_period
    pending,     \* _props_to_update
    since,       \* seconds since _last_updated by the wall clock, up to Horizon
    window,      \* _wait_until_throttle: "unset" (0), "open" until a time, "closed" (None)
    left,        \* seconds until that time by the wall clock, -1 if there is none
    setbacks,    \* seconds the clock was set back so far
    age,         \* history: seconds since the window opened first, up to LongOpen
    gap,         \* history: seconds since _last_updated was set, up to Longest
    late         \* history: publications within a period once the window should be over

fields   == <<value, current, linked>>
entities == <<subscribed, shown>>
throttle == <<pending, since, window, left, gap, late>>
update   == <<batch, forced, resumes>>
vars     == <<fields, entities, throttle, update, period, setbacks, age>>

Longest == CHOOSE p \in Periods : \A q \in Periods : p >= q

\* from these on, the time since the last publication makes no difference and the window
\* should be over, and down from the last one it is, however far the clock still goes back
Horizon  == Longest + MaxSetbacks - setbacks
LongOpen == UNTHROTTLED + MaxSetbacks + 1
LongOver == setbacks - MaxSetbacks - 1

Idle == batch = {} /\ ~resumes

Init ==
    /\ value = [f \in Fields |-> None]
    /\ current = TRUE
    /\ linked = TRUE
    /\ subscribed = {}
    /\ shown = [f \in Fields |-> None]
    /\ batch = {}
    /\ forced = FALSE
    /\ resumes = FALSE
    /\ period \in Periods
    /\ pending = {}
    /\ setbacks = 0
    /\ since = Horizon
    /\ window = "unset"
    /\ left = -1
    /\ age = 0
    /\ gap = Longest
    /\ late = 0

-----------------------------------------------------------------------------
(* entities                                                                   *)

Available(f) == linked /\ (current \/ f \notin DataFields)

State(f) == IF Available(f) THEN value[f] ELSE Unavailable

\* the listeners of these names write the state of their entities
Write(names) ==
    shown' = [f \in Fields |-> IF f \in names \cap subscribed THEN State(f) ELSE shown[f]]

\* async_added_to_hass; Home Assistant then writes the first state
Subscribe(f) ==
    /\ Idle
    /\ f \notin subscribed
    /\ subscribed' = subscribed \cup {f}
    /\ shown' = [shown EXCEPT ![f] = State(f)]
    /\ UNCHANGED <<fields, throttle, update, period, setbacks, age>>

-----------------------------------------------------------------------------
(* the device                                                                 *)

\* Field.__set__ records the names whose value changed; data_parse, info_parse and the
\* other parsers publish them before anything is awaited
Assign(v) ==
    /\ value' = v
    /\ batch' = {f \in Fields : v[f] # value[f]}
    /\ forced' = FALSE

Assigning(names) == {v \in [Fields -> Values] : \A f \in Fields \ names : v[f] = value[f]}

Frame(v) ==
    /\ Idle
    /\ linked
    /\ Assign(v)
    /\ resumes' = ~current
    /\ UNCHANGED <<current, linked, entities, throttle, period, setbacks, age>>

\* settings, versions and the Wi-Fi status
Report(v) ==
    /\ Idle
    /\ linked
    /\ Assign(v)
    /\ UNCHANGED <<current, linked, resumes, entities, throttle, period, setbacks, age>>

\* _write_data_fields
WriteDataFields ==
    /\ batch' = DataFields
    /\ forced' = TRUE

\* slip: the values that went stale wait for their next change
OverdueUnwritten ==
    /\ Idle
    /\ current
    /\ current' = FALSE
    /\ UNCHANGED <<value, linked, update, entities, throttle, period, setbacks, age>>

\* _check_data
Overdue ==
    /\ Idle
    /\ current
    /\ current' = FALSE
    /\ WriteDataFields
    /\ UNCHANGED <<value, linked, resumes, entities, throttle, period, setbacks, age>>

\* the rest of _on_data, once data_parse published the frame
Resume ==
    /\ batch = {} /\ resumes
    /\ resumes' = FALSE
    /\ current' = TRUE
    /\ WriteDataFields
    /\ UNCHANGED <<value, linked, entities, throttle, period, setbacks, age>>

-----------------------------------------------------------------------------
(* _publish of one name                                                       *)

PublishForced(f) ==
    /\ Write({f})
    /\ UNCHANGED throttle

\* the listeners of everything that waits are called
PublishPending(f) ==
    /\ Write({f} \cup (pending \cap Throttled))
    /\ pending' = {}

\* slip: a name that has to wait is forgotten
WaitForgetting(f) ==
    /\ Write({f} \ Throttled)
    /\ UNCHANGED throttle

\* slip: the wait starts again with every change
WaitRestarting(f) ==
    /\ Write({f} \ Throttled)
    /\ pending' = pending \cup {f}
    /\ since' = 0
    /\ UNCHANGED <<window, left, gap, late>>

\* only the listeners that are not throttled are called
Wait(f) ==
    /\ Write({f} \ Throttled)
    /\ pending' = pending \cup {f}
    /\ UNCHANGED <<since, window, left, gap, late>>

\* slip: the window opens again
WindowReopens ==
    \/ window = "unset" /\ window' = "open" /\ left' = UNTHROTTLED
    \/ window = "open" /\ left >= 0 /\ UNCHANGED <<window, left>>
    \/ window = "open" /\ left < 0 /\ window' = "unset" /\ left' = -1

\* slip: publications within the window make it longer
UnthrottledLonger ==
    \/ window = "unset" /\ window' = "open" /\ left' = UNTHROTTLED
    \/ window = "open" /\ left >= 0 /\ left' = left + UNTHROTTLED /\ UNCHANGED window
    \/ window = "open" /\ left < 0 /\ window' = "closed" /\ left' = -1

\* a publication within the period opens the window, comes within it, or is the first
\* one after it
Unthrottled ==
    \/ window = "unset" /\ window' = "open" /\ left' = UNTHROTTLED
    \/ window = "open" /\ left >= 0 /\ UNCHANGED <<window, left>>
    \/ window = "open" /\ left < 0 /\ window' = "closed" /\ left' = -1

\* time.time() becomes _last_updated
SetLastUpdated ==
    /\ since' = 0
    /\ gap' = 0
    /\ late' = IF gap < period /\ age > UNTHROTTLED + setbacks THEN late + 1 ELSE late

PublishThrottled(f) ==
    \/ /\ period = 0
       /\ PublishPending(f)
       /\ UNCHANGED <<since, window, left, gap, late>>
    \/ /\ period # 0 /\ since >= period
       /\ PublishPending(f)
       /\ SetLastUpdated
       /\ UNCHANGED <<window, left>>
    \/ /\ period # 0 /\ since < period
       /\ Unthrottled
       /\ PublishPending(f)
       /\ SetLastUpdated
    \/ /\ period # 0 /\ since < period /\ window = "closed"
       /\ Wait(f)

Publish(f) ==
    /\ f \in batch
    /\ batch' = batch \ {f}
    /\ \/ forced /\ PublishForced(f)
       \/ ~forced /\ PublishThrottled(f)
    /\ UNCHANGED <<fields, subscribed, forced, resumes, period, setbacks, age>>

-----------------------------------------------------------------------------
(* the user, the link and the clock                                           *)

\* _update_listener
SetPeriod(p) ==
    /\ Idle
    /\ period' = p
    /\ UNCHANGED <<fields, entities, throttle, update, setbacks, age>>

LinkDrops ==
    /\ Idle
    /\ linked
    /\ linked' = FALSE
    /\ UNCHANGED <<value, current, entities, throttle, update, period, setbacks, age>>

\* a device is kept when the setup failed, before it had entities
Connects ==
    /\ Idle
    /\ ~linked
    /\ subscribed = {}
    /\ linked' = TRUE
    /\ UNCHANGED <<value, current, entities, throttle, update, period, setbacks, age>>

\* the window is over once none of its seconds is left and another one passed
Tick ==
    /\ since' = IF since < Horizon THEN since + 1 ELSE since
    /\ left' = IF window = "open" /\ left > LongOver THEN left - 1 ELSE left
    /\ age' = IF window # "unset" /\ age < LongOpen THEN age + 1 ELSE age
    /\ gap' = IF gap < Longest THEN gap + 1 ELSE gap
    /\ UNCHANGED <<fields, entities, pending, window, late, update, period, setbacks>>

\* the wall clock goes back by a second
SetBack ==
    /\ setbacks < MaxSetbacks
    /\ setbacks' = setbacks + 1
    /\ since' = since - 1
    /\ left' = IF window = "open" THEN left + 1 ELSE left
    /\ UNCHANGED <<fields, entities, pending, window, gap, late, update, period, age>>

Frames  == \E v \in Assigning(DataFields) : Frame(v)
Reports == \E v \in Assigning(Fields \ DataFields) : Report(v)
Publishing == Resume \/ \E f \in batch : Publish(f)

Next ==
    \/ \E f \in Fields : Subscribe(f)
    \/ Frames \/ Reports \/ Overdue \/ Publishing
    \/ \E p \in Periods : SetPeriod(p)
    \/ LinkDrops \/ Connects \/ Tick \/ SetBack

Spec == Init /\ [][Next]_vars

\* The event loop ends what it began and time passes. A frame that arrives in time and
\* changes nothing is a stuttering step.
FairSpec == Spec /\ WF_vars(Publishing) /\ WF_vars(Tick)

\* Frames also keep changing something, as long as they arrive: measured values hardly
\* ever stand still.
Changes == \E v \in Assigning(DataFields) : v # value /\ Frame(v)

ChangingSpec == FairSpec /\ SF_vars(Changes)

-----------------------------------------------------------------------------
TypeOK ==
    /\ value \in [Fields -> Values]
    /\ current \in BOOLEAN /\ linked \in BOOLEAN
    /\ subscribed \subseteq Fields
    /\ shown \in [Fields -> Values \cup {Unavailable}]
    /\ batch \subseteq Fields
    /\ forced \in BOOLEAN /\ resumes \in BOOLEAN
    /\ period \in Periods
    /\ pending \subseteq Fields
    /\ since \in Int /\ since <= Horizon
    /\ window \in {"unset", "open", "closed"}
    /\ left \in LongOver..(UNTHROTTLED + MaxSetbacks)
    /\ setbacks \in 0..MaxSetbacks
    /\ age \in 0..LongOpen
    /\ gap \in 0..Longest
    /\ late \in Nat

\* entity.py:71: an entity is available while its value is current. Between updates, on a
\* link, availability never lags, not even of a throttled sensor within its period, and
\* every other entity shows the value the device has.
AvailabilityIsCurrent ==
    Idle /\ linked =>
        \A f \in subscribed : shown[f] # State(f) =>
            f \in Throttled /\ Available(f) /\ shown[f] # Unavailable

\* The update period delays values and loses none: whatever a sensor still shows of
\* before waits to be published, in every order of changes, stale data and new options.
LateIsPending ==
    Idle /\ linked =>
        \A f \in subscribed : shown[f] # State(f) => f \in pending

\* The whole of it: a listener writes the state of that moment and no earlier one, and what
\* changed is owed until it is written, in every order of changes, stale data, entities
\* that are added and links.
Home == INSTANCE Mirror WITH
    States  <- Values \cup {Unavailable},
    actual  <- [f \in Fields |-> State(f)],
    watched <- subscribed,
    owed    <- batch \cup (pending \cap Throttled)

MirrorsFields == Home!Spec

\* devicebase.py:328: a throttled listener is called "at most once per update period", with
\* an exception for a few seconds. However frames, new periods and a clock that goes back
\* interleave, the calls that truly come within a period of the one before do so within
\* UNTHROTTLED seconds of the first of them, and the seconds by which the clock went back,
\* and one at most comes later: for the life of the device, as the exception is made once
\* and not for every connection. Data that goes stale or current again is written past this.
ThrottleHolds == late <= 1

\* What waits is shown, all of it at once, while values keep changing, whatever the options
\* become, and although the clock is set back.
PendingIsShown == pending # {} ~> pending = {} \/ ~linked

\* tests/wclib/test_w150.py: a change within the period is delivered with the next update.
\* en.json: the period is what passes before "the next device update" is processed.
\* A sensor comes to show a value that frames keep reporting unchanged.
ChangeIsShown ==
    \A f \in Throttled, v \in Values :
        f \in subscribed /\ value[f] = v /\ current
            ~> shown[f] = v \/ value[f] # v \/ ~linked \/ ~current
=============================================================================
