# Verification of the WalleCube UPS integration

TLA+ models of the parts of `custom_components/wallecube_ups_ble` in which order
matters: the Bluetooth connection and its session, the tasks that run during a
session, what a frame makes of the fields and how changed fields reach Home Assistant, the
settings written as one block or over the configuration channel, and the life of the config
entry with the flows that create it. TLC checks them on small instances; TLAPS proves their safety
properties, and that three of them implement what they promise, for every value of the constants.

Source paths below are relative to `src/custom_components/wallecube_ups_ble/`.

## The system

The integration reads a UPS over Bluetooth Low Energy for Home Assistant. Everything
runs on one asyncio loop: a coroutine or callback runs alone until its next `await`, and
anything can happen there. That is the grain of every model: **one action is what the
code does between two awaits**.

| Component | Code | State | Operations | What is hard | What makes it correct |
|---|---|---|---|---|---|
| Connection | `wclib/connection.py` | `_client`, `_connection_state`, `_errors`, cipher | `connect`, `disconnect`, bleak's `disconnected`, `_on_telemetry`, `_on_config`, `add_error` | links drop at any await and are reported late; disconnects fail; errors end a session from a notification task | no session on a dead link, no forgotten link, every failure can be retried, every end is told |
| DeviceBase session | `wclib/devicebase.py` | `_conn`, three task handles, `_last_data`, `_data_current` | `connect`, `disconnect`, `_on_connection_state`, `_on_data`, `_watch_data`, `_poll_periodically` | a reused connection authenticates while old tasks run; the watchdog's sleep races frames | one set of tasks per session, values stale in time |
| Adapter settings | `wclib/devices/w150.py`, `send_confirmed_command`, `entity.py`, `repairs.py` | `_adapter_lock`, shown values, restart issue; in the UPS the panel's block, the power board's block, the block in use | `set_adapter_voltage`, `set_adapter_current`, `refresh_settings` | two ratings in one block, lost results, a panel that keeps what the power board missed, the vendor app | a confirmed rating is not taken back, success means the power board has it, a restart is asked for |
| Other settings | `wclib/devices/w150.py` | `_standby_lock`, `_screen_lock`, `_wake_on_lan_lock`, `_config_replies`, `_last_screen_timeout` | the other setters, `_query_config`, `config_parse` | replies that answer an earlier request | a change rewrites only its own value |
| Telemetry | `wclib/devices/w150.py`, `wclib/model/`, `wclib/packet.py` | field values, `_charging_hold` | `data_parse` and the functions it calls, `_restart_charging_hold` | frames that are cut off, a debounce across sessions, two meanings of the battery level | a flag that lasted is shown and no other, the minutes end before the output does |
| Entry lifecycle | `__init__.py` | `runtime_data`, reappear callbacks, listeners to remove on unload | `async_setup_entry`, `async_unload_entry`, `async_remove_entry`, `_on_disconnect`, `_on_device_reappear` | disconnects during setup, failing setups, retries racing reloads | no disconnect is lost, no entry waits for nothing, no stray session |
| Field publication | `wclib/devicebase.py` (`_publish`), `wclib/listeners.py`, `wclib/props/`, `entity.py` | listener groups, updated fields, `_props_to_update`, `_last_updated`, `_wait_until_throttle` | `subscribe`, `_publish`, `_write_data_fields`, `_update_listener` | a throttle on the wall clock, options that change it, data that goes stale between two frames | no change is lost, availability never lags |
| Session key, frames | `wclib/encryption.py`, `wclib/packet.py` | none | key candidates, encode, decode | | every candidate offset is tried |
| Config flow | `config_flow.py` | the picked device, the flow's unique id | `async_step_bluetooth`, `async_step_user`, `async_step_device_confirm`, `_validate_device` | a second user of the UPS's only link; several flows about one UPS | a form holds no link, a UPS gets one entry |
| Entities, diagnostics, setting descriptions | platforms, `wclib/logging_util.py`, `wclib/controls.py` | bounded logs | formatting | | |

How they interact: Home Assistant calls the entry lifecycle; setup creates a device and
awaits `DeviceBase.connect()`, which creates a `Connection` and awaits its `connect()`.
`Connection` calls back through listener groups the device owns and keeps across its
connections: `on_state_change` starts the session's tasks, `on_disconnect` makes the entry
schedule its reload, telemetry and configuration messages go to `data_parse` and
`config_parse`. Setters and the settings refresh are tasks that use the connection's
`read_value`, `send_command` and `send_confirmed_command`. A frame that `data_parse` decoded is published field by field
to the entities, which write their state. A config flow connects on its own to verify the
UPS, before its entry exists and sometimes beside it.

## Modules

| Module | Models | State and actions |
|---|---|---|
| `SessionPromise` | what a `Connection` promises its caller: a session or attempt ends by the caller or after the `on_disconnect` listeners were told | `session`, which is "raised" between an exception nobody expected and the caller's `disconnect()`, and `told`; `Begin`, `Succeed`, `End`, `Warn`, `Abandon`, `Close` |
| `Connection` | `wclib/connection.py` | `state`, `client`, `errors` are the attributes; `phase` is the await of the caller's coroutine, `mine` its local `client`; `up` are the clients whose `is_connected` is true, `unreported` those that are down before their callback, `lingering` those still up after it; `notifying`, `queued` are bleak's subscriptions and notifications; `errorCloses` the disconnects `add_error` awaits. An action per segment between awaits: `Connect`, `Established`, `EstablishedTooLate`, `InfoRead`, `TelemetrySubscribed`, `ConfigSubscribed`, `HandshakeFails` with `Fail`, `HandshakeRaises`, `Disconnect`, `DisconnectReturns`, `OnTelemetry`, `OnConfig`, ...; `disconnected()` is `Disconnected`, which bleak calls in `ReportsEnd` and `ReportsEarly` |
| `SettingPromise` | what a setter of a block of settings promises whoever calls it: it puts nothing but its value into its rating, and claims what is saved | `board`, `stage`, `call`, `wanted`, `app`; `Begin`, `Write`, `Confirm`, `Return`, `ChangedElsewhere` |
| `Mirror` | what publication promises Home Assistant: a copy of the present state or one that is owed | `actual`, `watched`, `shown`, `owed`; `Change`, `Show`, `Watch`, `Lose`, `Recover` |
| `DeviceSession` | connecting and the session's tasks in `wclib/devicebase.py` | `tasks` are the task objects that run, `held` those the attributes name; `age`, `dataWait`, `pollWait` are clocks. `Authenticated`, `PollWakes`, `Polled`, `CheckData`, `OnData`, `Tick`, ... |
| `Adapter` | `_write_adapter`, `_write_to_power_board`, `_read_adapter`, `_change_setting` | `panel`, `board`, `running` are the UPS, whose panel keeps voltages (`TooHigh`) that the power board rejects field by field (`Took`); `lock` the queue of `asyncio.Lock`; `pc` the await of each setter. `Call`, `Read`, `Write`, `Confirmed`, `Unanswered`, `NotConfirmed`, `ReadBack`, `RequestFails`, `Refresh`, and the UPS, user and vendor app |
| `ConfigChannel` | `_query_config`, `config_parse`, the screen and Wake-on-LAN setters | `settings` is the block in the UPS, `replies` the answers on their way; `reply` the futures in `_config_replies`; `lock` and `pc` as in `Adapter`. `Begin`, `Ask`, `Answered`, `TimeOut`, `Write`, `Request`, `SendFails`, `OnConfig`, ... The screen and the Wake-on-LAN trigger are instances: the screen's timeout is in `Alone`, and no value of the trigger is |
| `EntryLifecycle` | `__init__.py` composed with `SessionPromise` | `entry` is Home Assistant's state of the entry and the await inside setup or unload; `listening`, `callbacks` the registrations of the code; `timer`, `reloads` Home Assistant's. `SetUp`, `ConnectReturns`, `ConnectFails`, `ConnectRaises`, `CleanedUp`, `Unload`, `Reload`, `UserReloads`, `Advertise`, ... |
| `Telemetry` | `data_parse` of `wclib/devices/w150.py` with the partial decoding of `wclib/model` | `charging`, `hold`, `powers`, `derived`, `firmware`, `adapter` are the device's; `session`, `size` the link's; `board` the power board's firmware. `last`, `from`, `streak` and `unseen` are history. `Frame`, `Subscribed`, `Authenticated`, `Refreshed`, `LinkDrops`; the computed values are operators (`MinutesUntilOutputOff`, `InputOverVoltage`, ...) |
| `Publication` | `_publish` of `wclib/devicebase.py`, `wclib/props`, `entity.py` | `value`, `current` of the device, `shown` of Home Assistant, `pending`, `since`, `window`, `left` the throttle by the wall clock, `batch` what is left of an update; `age`, `gap` are true time and `late` counts what comes too early. `Frame`, `Report`, `Overdue`, `Resume`, `Publish`, `SetPeriod`, `Subscribe`, `Tick`, `SetBack`, ... |
| `ConfigFlow` | `config_flow.py` composed with `EntryLifecycle` | `step` is the await or form of each flow, `live` the flows in progress, `known` those with the unique id, `linked` those whose device holds the link. `Discover`, `Start`, `Submit`, `Verified`, `Refused`, `ShowError`, `CreateEntry`, `Ignored`, `Dismiss`; a step of the entry is `EntryStep(Next)` |
| `ConnectionProofs`, `DeviceSessionProofs`, `ConfigChannelProofs`, `EntryLifecycleProofs`, `ConfigFlowProofs`, `AdapterProofs`, `TelemetryProofs`, `PublicationProofs` | theorems about the module of that name | |
| `MC*` | instances for TLC | |

`Connection` and `EntryLifecycle` meet in `SessionPromise`: the first is shown to
implement it, the second uses its actions as the connection, so that the entry never
relies on more than the connection was shown to give. `ConfigFlow` EXTENDS `EntryLifecycle`:
flows and entry share the link, and the creation of the entry is one step of both.
`DeviceSession` says when values go stale, `Publication` what follows for the entities.

`Adapter` implements `SettingPromise`: a setter's `stage` is "done" from the confirmed write to
its return and "trying" before; `Call`, `Write`, `Confirmed`, `AppWrites` and every end of a
setter are the promise's steps, all others stutter. `Publication` implements `Mirror`: the
state of a field is its value or unavailable, and owed is what is left of the update at hand
and what waits for the period; throttle, clock and the order of names are gone.

Definitions whose comment begins with "slip:" are not part of a specification. Each is the
definition after it with a plausible mistake, and shows that a property notices it
(`mutants` in `PROJECT.json`).

### What is left out

- `Connection`: the states `CONNECTED` and `SESSION_ESTABLISHED`, which the code leaves
  before its next await; the search for the session key and the decoding of messages,
  which are a choice between success and the exceptions they raise; masking and logging.
  Outcomes of a handler's parsing are a choice, so `errors` moves as any frames make it.
  A client whose callback came early may stay `is_connected` for good, but what is
  asked of it fails: `connect()` that finds out only then is at "unanswered".
- `DeviceSession`: the handshake is one step up and one step to `AUTHENTICATED`; what the
  tasks read is left to `Adapter` and `Telemetry`, publication to `Publication`. `POLL_INTERVAL` and
  `DATA_TIMEOUT` are set by every device there is, so their `None` is not modelled.
- `Adapter`: voltages and currents are model values: those in range, and voltages above it
  that only the front panel keeps; no current it keeps is out of the power board's range
  (docs/ble-protocol.md:353). What a write delivers arrives at once; the limits it derives from them and the range
  checks of the number entities are left out. A missing value makes the block unknown, as
  in `_read_adapter`. A result is never delivered late to a later command. Setters of a
  device whose link is gone end before the reloaded entry connects; they can only fail.
- `ConfigChannel`: the other messages of the channel, which have no block to keep, and
  brightness, which is written alone. Values are model values; "keep screen on" is one of
  them, and `_last_screen_timeout`, which turning it off restores, is any of them. An answer is
  queued when the request reaches the UPS and may take any time; answers come in order.
- `Telemetry`: fields that scale a single value are that value. The event byte, which is set
  for one frame, and the power event are left out. The minutes are exact; the code's floating
  point is one minute lower for 16 pairs of level and seconds. What a frame is made of comes
  from a set of measurements, cut off to the bytes a link carries.
- `Publication`: the order of the names of one update is that of a Python set, so any. The
  listeners that log and count are left out, and so is an entity that is removed, which
  happens only together with its device. Times are seconds counted up or down to a bound
  from which on they make no difference; the clock is set back by at most `MaxSetbacks`
  and never jumps ahead, which would end a period or the window early.
- `EntryLifecycle`: Home Assistant is modelled from how the code and its comments use it.
  A setup that Home Assistant cancels, when it shuts down, and the registry update are left
  out: `except Exception` (`__init__.py:104`) does not see a cancellation, so nobody
  disconnects after it. New options are `SetPeriod` of `Publication`.
- `ConfigFlow`: one UPS, since flows about different ones share nothing. Forms, titles and the
  options flow are left out. What a failing `disconnect()` leaves is in `Connection`.
- Not modelled: the sleep settings, which are one block like the adapter's but have no
  result, so that no document says what a success promises; the key candidates, a pure
  function of the address tried in order until one fits; the encoding and decoding of the
  other messages, which keep no state; diagnostics, logging and setting descriptions, which
  format and declare.

## Runs

| Run | Question | Instance |
|---|---|---|
| `connection` | Can links that drop anywhere, late and early reports, failing disconnects and errors in a row leave a session without a link, a forgotten link, or a state that blocks the next connect? Does the connection implement `SessionPromise`? Do attempts and disconnects end, and is a lost link noticed? | 2 clients, 1 tolerated error; 309 774 states |
| `too_many_errors_end` | Do too many errors end the connection? **No**, see Findings | as `connection` |
| `device_session` | Does every session have its own tasks, and do values go stale in time? Does a poll task without a link end? | 2 identities of task sets, timeout 3, interval 2; 2 832 states |
| `adapter_safety` | Are confirmed ratings safe from the other rating's setter, and does success mean that the power board has all it accepts of the block? Does the adapter implement `SettingPromise`? Is the lock left to those who wait? Does a change go without the restart issue only if the value shown before was stale? | 2 setters, 1 voltage in range and 1 above it, 2 currents, 2 attempts, 1 read per refresh, symmetric; 973 252 states |
| `restart_is_asked` | Is a restart asked for after every change that needs one? **No**, see Findings | 1 setter, 2 voltages in range and 1 above it, 1 current |
| `config_channel` | Does a setter write back what the UPS had, is what is shown right in the end, with answers that come late or not at all, and does every setter end and leave the lock to the next? | 2 setters, 2 values, screen block, 2 answers on their way; 626 968 states |
| `keeps_other_values` | Is a change on the device always kept? **No**, see Findings | 1 setter |
| `entry_lifecycle` | Is a disconnect ever lost, a link held by an unused entry or an open form, an entry left waiting for nothing, or made twice? | 2 scheduled reloads, a discovered flow and two started by users; 211 928 states |
| `telemetry` | Does charging turn exactly with changes that lasted, whatever is cut off and whenever sessions end? Do the minutes on battery end before the output does, and not much earlier? | 3 frames to hold; frames of 20, 38 and 40 bytes; 28 measurements; both firmwares; 53 868 states |
| `powers_are_current` | Are the powers those of the last frame? **No**, see Findings | as `telemetry` |
| `publication` | Does publication implement `Mirror`? Is availability current, is the update period kept, and does every value that is late come to be shown, in every order of frames, stale data, reconnects and new options? | a sensor and a binary sensor of frames, a sensor of the Wi-Fi status, 2 values, periods 0 and 2, the clock set back once; 997 728 states |
| `change_is_shown` | Does a sensor come to show a value that frames keep reporting? **No**, see Findings | as `publication` |

Why the bounds are enough. A `Connection` holds one client and the coroutine one more; a
third link can only be one that bleak still has to report, whose callback compares
identities, so a second client object shows everything the comparisons can get wrong, of the
callback and of `_ensure_connected`, which has to tell its own client from none. Reuse of
a client object (`Fresh`) lets any number of links follow one another. The limit of errors is
1 instead of 5, so that it is reached twice in a session. One notification per
subscription waits at a time, since a handler runs to its end or to the disconnect it
awaits. `reports` stops at 2. There is no symmetry where liveness is checked. In `DeviceSession` tasks of at most two sessions could
overlap before `TasksAreHeld` fails; the data timeout and the poll interval differ and neither divides the
other, so sleeps and frames meet in every phase. In `Adapter` a conflict needs two setters
and a rating whose value differs in what was read and written, here the current; the voltage
in range is the one that is set, the other gets into the panel from the app, and a current
setter is confirmed on top of it.
In `ConfigChannel` two setters are one that has the lock and
one that waits or writes beside it in a mutant; two answers on their way are an old one and the one
waited for. The screen block has both kinds of values, those written alone and
those written with the others. Reloads beyond two behave as the second. Two started flows
and a discovered one have every pair: two that verify at once, and one that is dropped when
the entry of the other comes to be. In `Telemetry` three frames to hold leave room for a
count that is broken off and one that is completed; 38 bytes cut off just the status flags,
20 the fields the computed values need; measurements on battery are at, below and just above
the charge where the output turns off, with the smallest, largest and two other times. In
`Publication` two fields of frames are what one update can order, a third one is published
by reports of its own; period 2 has seconds within and past it, period 0 is the throttle
switched off; the window of 1 instead of 5 seconds ends within a period; one set-back makes the
time since the last publication negative and opens a window that had just ended.

Deadlock is checked in every run.

### Fairness

The liveness runs assume what the event loop and bleak give: a ready task runs, a request
of bleak ends or times out, and bleak calls the disconnected callback of a client that is down
(`ReportsEnd`). That the callback comes early, or that `is_connected` turns false after it, is
never assumed.
`DeviceSession` assumes that time passes, that due tasks run and that a poll ends;
`ConfigChannel` that a setter that can go on does, with an error or without;
`EntryLifecycle` and `ConfigFlow` that awaited calls end, timers fire and scheduled reloads
begin, not those of the user. Nothing is assumed about users, the radio or the UPS: no link has to drop or stay, no
frame has to arrive, nobody has to connect again. `connection` needs no fairness of
`LinkDrops` because the code survives disconnects that never end the link (`gaveUp`).

`Publication` assumes that an update that began is published and that time passes
(`FairSpec`). `PendingIsShown` also needs frames that keep changing some field as long as
the link lasts (`ChangingSpec`): nothing but a change publishes what waits, which
`change_is_shown` is about. `SF`, since links drop and stale data and updates disable frames
again and again.

## Proofs

TLAPS checks, for every number of clients and every limit of errors:

- `TypeCorrect`, `LinksAccounted` and from them `SessionAlwaysHasLink`,
  `RetryAlwaysStarts`, `NoLinkForgotten`, `LossAlwaysReal`. None of the safety properties
  is inductive alone: that an authenticated session has a link depends on what the coroutine holds in
  `mine` at each await, and that no link is forgotten on the client `add_error` is still
  ending. `Accounting` collects this: which client each await holds (`ClientOfPhase`),
  which clients are kept after their session (`KeptClientCloses`), which states go with
  which await (`StateOfPhase`), how far bleak is with telling of an end (`EndsToldOnce`), and
  that a client reported early is held by no attempt but one that gets no answer
  (`LingeringIsUnanswered`). A link is there (`Links`) until `is_connected` turns false or the
  callback came, whichever is first; the two are told apart because `_ensure_connected`
  has to look at both.
- `ConnectionKeepsPromise`: `Connection` implements `SessionPromise`, with `Session` as the
  refinement mapping. Every action maps to one of the promise's or leaves it alone, given
  `Accounting`. From the promise alone follows `EndAlwaysTold`: who holds a session that ended
  was told.
- `ErrorsAlwaysEndLink`: in `ERROR_TOO_MANY_ERRORS` the connection's link is down, being
  disconnected, or given up by bleak, whichever client it is by then; and from it
  `OverruledErrorsEndLink`, which delimits a finding.

For every data timeout, poll interval and set of sessions:

- `AlwaysServed` and from it `TasksAlwaysHeld`, `SessionAlwaysServed`,
  `StaleAlwaysInTime`, `TasksNeverOverlap`. The watchdog needs `WakesInTime`, that the age of the data plus what
  is left of its sleep never passes the timeout while the values count as current.

For every block, set of setters and bound on answers:

- `AlwaysOrdered` and from it `TypeAlwaysCorrect`, `QuietAlwaysKeepsOtherValues`,
  `ShownAlwaysCatchesUp`, `FuturesAlwaysAwaited`. `Turns` says who has the lock: the queue
  holds each setter once, and whoever is past the lock is at its head. With it, nobody but
  the owner writes, so all answers sent since a quiet setter began agree with the UPS
  (`Quiet`). That the shown values catch up follows from the last answer on its way
  (`Shown`, `Catching`).

For every bound on scheduled reloads, and every set of flows:

- `AlwaysKept` and from it `TypeAlwaysCorrect`, `EndedSessionAlwaysReloads`,
  `NeverStraySession`, `RetryAlwaysWoken`, `CallbackAlwaysWaits`, `RequestsAlwaysFit`. The
  strengthening is that a set-up entry listens. `RequestsFit` is why the composition may use
  the guarded actions of `SessionPromise`: whatever the entry is at, the session is one that its
  next `connect()` or `disconnect()` applies to, so no guard hides a call out of turn.
- `FlowsAlwaysKept`: the same invariant holds beside flows, which touch the entry only when
  they create it, and only one that was removed or never was (`RemovedStays`, `CreatedKept`). From
  it `EntryKeptBesideFlows`, and `FormNeverHoldsLink` and `AlwaysOneEntry`, which rest on who is
  in progress with the unique id: while anybody is, there is no entry.

For all ratings, setters, write attempts and reads of the adapter settings:

- `AlwaysKept` and from it `TypeAlwaysCorrect`, `LockAlwaysHeld`, `SuccessAlwaysReachesBoard`,
  `ConfirmedValuesAlwaysStay`. `Turns` is that of the configuration channel. `Agrees` says
  what the owner of the lock carries from await to await: until its block is confirmed it
  holds whatever was confirmed of the other rating, and from then on the power board has the
  fields of the block that it accepts, and the front panel has the block or nothing. `Saves`
  says the same of the UPS, because the front panel, from which the block is read, may have
  it without the power board.
- `AdapterKeepsPromise`: `Adapter` implements `SettingPromise`, given the same invariant. That a
  write leaves what was confirmed of the other rating alone is `Agrees` and `Saves`; that
  nobody writes while another has a success to claim is the lock (`NobodyClaims`). `PromisedClaimsHold`
  is about the promise alone: what was confirmed, and what a setter is about to claim, is saved.
- `AlwaysAskedUnlessStale`, an action property: `Prepared` keeps in `saved` a block of the power board
  from the read on, and of the called rating the panel that is read back has what the power
  board has, or nothing.

For every number of frames to hold, every set of measurements that never charge on battery
(docs/ble-protocol.md:273) and have numbers for charge and remaining time, and all sizes:

- `AlwaysCounted` and from it `AlwaysTyped`, `LastedAlwaysShown`, `ChargingAlwaysLasted`.
  `Counted`: charging differs from the flag of the last frame only while that flag is being
  counted, `_charging_hold` is the length of its streak, and it is None exactly before the
  first frame of a session.
- `MinutesAlwaysReachCutoff`, for every charge and time. The rounded minutes are bounded by the
  exact quotient (`MinutesFit`), which grows with the charge (`Monotone`); a level stands for
  less than 0.1 % below the real charge, and for more only below the cutoff (`LevelFits`); the rest is one
  inequality for each meaning of the level (`MinutesEnd`). Each lemma has plain numbers for its
  variables, because products under a division are beyond the solver otherwise.
- `PowersCurrentOnLikeLinks`, which delimits a finding. It assumes that all sizes carry the same
  factors; two of the three sizes of the `telemetry` run do.

For all fields, entities, periods and set-backs of the clock:

- `AlwaysKept` and from it `TypeAlwaysCorrect`, `LateAlwaysPending`,
  `AvailabilityAlwaysCurrent`, `ThrottleAlwaysHolds`. Neither of the two about entities
  holds within an update: `Remembered` adds the names still to be published, `Told` those of
  an update past the throttle. The throttle compares times of the wall clock while
  `ThrottleHolds` speaks of true time: `Clock` relates the two, with a clock that is never ahead
  and behind by no more than it was set back, and `Closed` says that a publication that
  counts as late closes the window.
- `PublicationMirrors`: `Publication` implements `Mirror`. Every step that changes a state owes it
  (`UpdateOwes`), within an update as well as past it, and what is no longer owed was written
  (`PublishShows`). `MirrorOwesLag` is about the promise alone: on a link, whoever lags is
  owed. It is what `LateIsPending` says of the throttle, for every moment.

The proofs assume only the named assumptions on the constants, and `PowersCurrentOnLikeLinks` the
hypotheses it states. Every safety and action property that a passing run checks is proved.
`CallbackOnlyWaits`, `FuturesAreAwaited` and `LateIsPending` are proved and in no run. Liveness
(`ConnectSettles`, `LostLinkNoticed`, `PollEnds`, `SettersEnd`, `LostSessionLeaves`, `WaitingConnects`,
`PendingIsShown`) is checked by TLC alone: it rests on fairness, and on which actions are enabled,
which TLAPS does not prove here.

## Findings

- **Too many errors while subscribing** (`too_many_errors_end`). If frames fail to parse
  while `connect()` still waits for the configuration subscription, `add_error` reports
  `ERROR_TOO_MANY_ERRORS` and starts to disconnect, but `connect()` passes
  `_ensure_connected` and sets `AUTHENTICATED` on the link that is being ended. The test
  `test_too_many_errors_in_a_row_end_the_connection` (tests/wclib/test_connection.py:267)
  states that the errors end the connection. `OverruledErrorsEndLink` says how far it goes: such a
  session comes up only on a link that is being disconnected, and then ends when bleak
  reports the link (`KeepsPromise`, `LostLinkNoticed`), or on one that bleak gave up
  disconnecting, which stays in use.
- **A change without the restart issue** (`restart_is_asked`). `_change_setting` compares the
  value after the call with the one *shown* before it (entity.py:91, 102). In the run the app
  writes a voltage that the front panel keeps and the power board misses, a refresh shows it,
  and a setter is called with the same voltage: the power board takes it now, the value shown stays
  as it was, and no issue is raised. An app that changes the rating after it was shown, or a
  write that was not confirmed, leads to the same. entity.py:88 and docs/entities.md:113 promise one. `AskedUnlessStale` says that this is the
  only way: whatever is lost or retried, and however many setters and links it takes, a pending
  change goes without the issue only after a value that was shown stale.
- **A change on the device written back** (`keeps_other_values`). `config_parse` resolves
  every future of the message's type. An answer that was already on its way when
  `_query_config` begins to wait, to the settings refresh or to a query that timed out,
  ends the query, and `_write_idle_backlight` writes a timeout from before the last change on
  the device. w150.py:669 says that reading first keeps such a change.
  `QuietKeepsOtherValues` shows that setters keep the change whenever no earlier answer was on
  its way as they began to wait, whatever else happens.
- **Powers of an earlier link** (`powers_are_current`). `data_parse` leaves `output_power` and
  `battery_power` as they are when a factor is missing, while everything else it computes
  becomes unknown. A device is kept after a failed setup; when its next link cuts frames off
  earlier, the powers shown as current are those of the link before. devicebase.py:117 says
  that the next frame makes the values current again. Where links carry the same factors it
  does (`PowersCurrentOnLikeLinks`).
- **The last change of a period** (`change_is_shown`). What waits for the period to end is
  published with the next *change* of a field; nothing publishes it when the values then
  stand still. The option is described as the time before the next update is processed
  (translations/en.json:25). `MirrorsFields` and `PendingIsShown` show that nothing is lost and that
  everything is shown while values change.

One more disagreement has no run of its own. The docstring of `subscribe` (devicebase.py:328)
excepts "the first seconds after connecting" from the throttle. The code opens its window at the
first publication within a period and once for a device, so a device that connects again
after a failed setup gets none, and it lets one more publication through after the window, which
only closes it. `ThrottleHolds` states what does hold: the period, in true time, with that
one exception.

## Plan

Done, in this order, since a wrong connection breaks all others: `Connection` with
`SessionPromise`, `DeviceSession`, `Adapter`, `EntryLifecycle`, `ConfigChannel`, `Telemetry`,
`Publication` and `ConfigFlow`, each with its theorems, and `SettingPromise` and `Mirror` as
specifications they implement.

Left:

1. The sleep settings, one block without a result, as a second component under
   `SettingPromise` with setters that claim nothing.
2. A specification of what a user sees of a UPS (one entry, one holder of the link), with `ConfigFlow`
   shown to implement it, and one of when values count as current, with `DeviceSession`
   shown to implement it.
3. `CellVoltageDifference` and `BatteryHealth` against the values of a frame.
