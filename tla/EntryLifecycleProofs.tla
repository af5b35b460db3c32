------------------------ MODULE EntryLifecycleProofs ------------------------
(* Safety of EntryLifecycle for every number of scheduled reloads.            *)
EXTENDS EntryLifecycle, TLAPS

\* What the entry asks of its connection is never out of turn: an entry that connects has an
\* attempt under way, one that cleans up what an unexpected error left of it, one that is set
\* up a session to close, also one that ended, and every other one has none of them, so that
\* it may begin anew.
RequestsFit ==
    /\ entry = "connecting" => session = "starting"
    /\ entry = "cleaning" => session = "raised"
    /\ entry \in {"platforms", "loaded"} => session \in {"up", "ended"}
    /\ entry \notin {"connecting", "cleaning", "platforms", "loaded"} =>
           session \in {"none", "ended"}

\* What the safety properties rest on: an entry that is set up listens.
Kept ==
    /\ TypeOK
    /\ EndedSessionReloads
    /\ NoStraySession
    /\ RetryIsWoken
    /\ CallbackOnlyWaits
    /\ RequestsFit
    /\ entry \in {"platforms", "loaded"} => listening

\* Another reload is scheduled, whatever was scheduled before.
LEMMA ScheduleReloadCounts ==
    ASSUME reloads \in 0..MaxReloads, ScheduleReload
    PROVE  reloads' \in 1..MaxReloads
BY MaxReloadsAssumption DEF ScheduleReload

\* Telling the listeners never takes a scheduled reload back.
LEMMA TellCounts ==
    ASSUME reloads \in 0..MaxReloads, Tell
    PROVE  /\ reloads' \in 0..MaxReloads
           /\ reloads > 0 \/ listening => reloads' > 0
<1>1. CASE listening
  BY <1>1, ScheduleReloadCounts, MaxReloadsAssumption DEF Tell
<1>2. CASE ~listening
  BY <1>2 DEF Tell
<1> QED
  BY <1>1, <1>2

\* A setup leaves the entry connecting, or waiting with a timer.
LEMMA SetupKeeps ==
    ASSUME Kept, Setup, entry \in {"disabled", "retry", "unloading", "removed"}
    PROVE  /\ entry' \in {"retry", "connecting"}
           /\ Promise!TypeOK'
           /\ timer' \in BOOLEAN /\ callbacks' \in {0, 1}
           /\ entry' = "retry" => timer'
           /\ callbacks' # 0 => entry' = "retry"
           /\ IF entry' = "connecting" THEN session' = "starting"
              ELSE session' \in {"none", "ended"}
BY DEF Kept, TypeOK, NoStraySession, RequestsFit, Setup, Register, Promise!Begin,
       Promise!TypeOK, Promise!Sessions

\* An unload ends the session before it awaits anything.
LEMMA UnloadKeeps ==
    ASSUME Kept, NEW then \in {"setup", "disabled", "removed"}, Unload(then)
    PROVE  /\ entry' = "closing"
           /\ next' \in {"setup", "disabled", "removed"}
           /\ session' = "none"
           /\ told' \in BOOLEAN
           /\ callbacks' = 0
BY DEF Kept, TypeOK, Unload, Promise!Close, Promise!TypeOK

\* A new entry keeps everything, as it has no session, callback or reload.
LEMMA InitKept == Init => Kept
<1> SUFFICES ASSUME Init PROVE Kept
  OBVIOUS
<1>1. TypeOK
  <2>1. reloads \in 0..MaxReloads
    BY MaxReloadsAssumption DEF Init
  <2>2. Promise!TypeOK
    BY DEF Init, Promise!Init, Promise!TypeOK, Promise!Sessions
  <2> QED
    BY <2>1, <2>2 DEF Init, TypeOK, Entries, Busy
<1>2. EndedSessionReloads /\ NoStraySession /\ RetryIsWoken
  BY DEF Init, EndedSessionReloads, NoStraySession, RetryIsWoken, Promise!Init
<1>3. CallbackOnlyWaits
  BY DEF Init, CallbackOnlyWaits
<1>4. RequestsFit
  BY DEF Init, RequestsFit, Promise!Init
<1> QED
  BY <1>1, <1>2, <1>3, <1>4 DEF Init, Kept

\* Every operation of Home Assistant, the connection and Bluetooth keeps it.
LEMMA StepKept == Kept /\ [Next]_vars => Kept'
<1> SUFFICES ASSUME Kept, [Next]_vars PROVE Kept'
  OBVIOUS
<1> USE DEF Kept, TypeOK, Entries, Busy, EndedSessionReloads, NoStraySession,
            RetryIsWoken, CallbackOnlyWaits, RequestsFit, Promise!TypeOK,
            Promise!Sessions
<1>1. CASE SetUp
  <2>1. Setup /\ entry \in {"disabled", "retry"}
    BY <1>1 DEF SetUp
  <2> QED
    BY <1>1, <2>1, SetupKeeps DEF SetUp
<1>2. CASE ConnectReturns
  BY <1>2 DEF ConnectReturns, Promise!Succeed
<1>3. CASE ConnectFails \/ ConnectRaises \/ CleanedUp
  BY <1>3 DEF ConnectFails, ConnectRaises, CleanedUp, NotReady, Promise!End,
              Promise!Abandon, Promise!Close
<1>4. CASE PlatformsReady
  BY <1>4 DEF PlatformsReady
<1>5. CASE DisconnectReturns
  BY <1>5 DEF DisconnectReturns
<1>6. CASE PlatformsUnloaded
  <2>1. CASE next = "setup" /\ Setup
    BY <1>6, <2>1, SetupKeeps DEF PlatformsUnloaded
  <2>2. CASE next # "setup"
    BY <1>6, <2>2 DEF PlatformsUnloaded, Removed
  <2> QED
    BY <1>6, <2>1, <2>2 DEF PlatformsUnloaded
<1>7. CASE PlatformsNotUnloaded
  <2>1. CASE next = "removed"
    BY <1>7, <2>1 DEF PlatformsNotUnloaded, Removed
  <2>2. CASE next # "removed"
    BY <1>7, <2>2 DEF PlatformsNotUnloaded
  <2> QED
    BY <2>1, <2>2
<1>8. CASE Reload \/ UserReloads
  <2>1. /\ reloads' \in 0..MaxReloads /\ (UserReloads => reloads' = reloads)
        /\ listening' = listening /\ present' = present
    BY <1>8, MaxReloadsAssumption DEF Reload, UserReloads
  <2>2. ASSUME Unload("setup"), timer' = timer PROVE Kept'
    <3>1. /\ entry' = "closing" /\ next' \in {"setup", "disabled", "removed"}
          /\ session' = "none" /\ told' \in BOOLEAN /\ callbacks' = 0
      BY <2>2, UnloadKeeps
    <3> QED
      BY <2>1, <2>2, <3>1
  <2>3. ASSUME entry = "retry", Setup, next' = next PROVE Kept'
    BY <2>1, <2>3, SetupKeeps
  <2>4. CASE ReloadBegins
    BY <2>2, <2>3, <2>4 DEF ReloadBegins
  <2>5. CASE entry \in {"disabled", "failed_unload", "removed"}
    BY <1>8, <2>1, <2>4, <2>5 DEF Reload, UserReloads
  <2> QED
    BY <1>8, <2>4, <2>5 DEF Reload, UserReloads
<1>9. CASE Disable
  <2>1. CASE Unload("disabled")
    BY <1>9, <2>1, UnloadKeeps DEF Disable
  <2>2. CASE entry = "retry"
    BY <1>9, <2>2 DEF Disable, Unload
  <2> QED
    BY <1>9, <2>1, <2>2 DEF Disable
<1>10. CASE Remove
  <2>1. CASE Unload("removed")
    BY <1>10, <2>1, UnloadKeeps DEF Remove
  <2>2. CASE entry # "loaded"
    BY <1>10, <2>2 DEF Remove, Removed, Unload
  <2> QED
    BY <1>10, <2>1, <2>2 DEF Remove, Unload
<1>11. CASE SessionEnds
  <2>1. /\ reloads' \in 0..MaxReloads
        /\ reloads' > 0
    BY <1>11, TellCounts DEF SessionEnds
  <2> QED
    BY <1>11, <2>1 DEF SessionEnds, Promise!End
<1>12. CASE Warned
  <2>1. /\ reloads' \in 0..MaxReloads
        /\ reloads > 0 => reloads' > 0
    BY <1>12, TellCounts DEF Warned
  <2> QED
    BY <1>12, <2>1 DEF Warned, Promise!Warn
<1>13. CASE Advertise
  <2>1. CASE callbacks # 0
    <3>1. reloads' \in 1..MaxReloads
      BY <1>13, <2>1, ScheduleReloadCounts DEF Advertise
    <3>2. reloads' \in 0..MaxReloads /\ reloads' > 0
      BY <3>1, MaxReloadsAssumption
    <3>3. TypeOK'
      BY <1>13, <2>1, <3>2 DEF Advertise
    <3> QED
      BY <1>13, <2>1, <3>2, <3>3 DEF Advertise
  <2>2. CASE callbacks = 0
    BY <1>13, <2>2 DEF Advertise
  <2> QED
    BY <2>1, <2>2
<1>14. CASE Forget
  BY <1>14 DEF Forget
<1>15. CASE UNCHANGED vars
  BY <1>15 DEF vars
<1> QED
  BY <1>1, <1>2, <1>3, <1>4, <1>5, <1>6, <1>7, <1>8, <1>9, <1>10, <1>11, <1>12, <1>13,
     <1>14, <1>15 DEF Next, Operation

\* The inductive invariant of the entry, its listener and its callback.
THEOREM AlwaysKept == Spec => []Kept
BY InitKept, StepKept, PTL DEF Spec

\* Every variable keeps its type.
THEOREM TypeAlwaysCorrect == Spec => []TypeOK
<1>1. Kept => TypeOK
  BY DEF Kept
<1> QED
  BY <1>1, AlwaysKept, PTL

\* No disconnect is lost, also not while the platforms are set up (__init__.py:124).
THEOREM EndedSessionAlwaysReloads == Spec => []EndedSessionReloads
<1>1. Kept => EndedSessionReloads
  BY DEF Kept
<1> QED
  BY <1>1, AlwaysKept, PTL

\* The UPS's only connection is never held by an entry that does not use it.
THEOREM NeverStraySession == Spec => []NoStraySession
<1>1. Kept => NoStraySession
  BY DEF Kept
<1> QED
  BY <1>1, AlwaysKept, PTL

\* No race of retry timer, reappear callback and reload leaves an entry waiting for
\* nothing.
THEOREM RetryAlwaysWoken == Spec => []RetryIsWoken
<1>1. Kept => RetryIsWoken
  BY DEF Kept
<1> QED
  BY <1>1, AlwaysKept, PTL

\* An advertisement never reloads an entry that is set up.
THEOREM CallbackAlwaysWaits == Spec => []CallbackOnlyWaits
<1>1. Kept => CallbackOnlyWaits
  BY DEF Kept
<1> QED
  BY <1>1, AlwaysKept, PTL

\* The entry never asks its connection for what SessionPromise does not allow: a connect()
\* on a session, or a disconnect() of nothing.
THEOREM RequestsAlwaysFit == Spec => []RequestsFit
<1>1. Kept => RequestsFit
  BY DEF Kept
<1> QED
  BY <1>1, AlwaysKept, PTL
=============================================================================
