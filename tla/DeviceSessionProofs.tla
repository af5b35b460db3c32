------------------------ MODULE DeviceSessionProofs -------------------------
(* Safety of DeviceSession for every timeout, poll interval and number of     *)
(* sessions.                                                                  *)
EXTENDS DeviceSession, TLAPS

\* The values the safety properties rest on: the watcher's wake-up time, and the tasks
\* the handles name.
Served ==
    /\ TypeOK
    /\ TasksAreHeld
    /\ SessionIsServed
    /\ WakesInTime
    /\ conn # "open" => held = {}
    /\ \A s \in asking : <<"poll", s>> \in tasks
    /\ Connected => conn = "open"
    /\ held = {} \/ \E s \in Sessions : held = Kinds \X {s}

\* A device that never connected has no task and nothing to be late with.
LEMMA InitServed == Init => Served
<1> SUFFICES ASSUME Init PROVE Served
  OBVIOUS
<1>1. MaxAge \in 0..MaxAge /\ 0 \in 0..POLL_INTERVAL /\ 0 \in 0..DATA_TIMEOUT
  BY TimeoutAssumption, IntervalAssumption DEF MaxAge
<1>2. TypeOK
  BY <1>1 DEF Init, TypeOK
<1> QED
  BY <1>2 DEF Init, Served, Connected, Connected, TasksAreHeld, SessionIsServed, WakesInTime

\* Time passing by a tick keeps waits and age in step.
LEMMA TickServed == ASSUME Served, Tick PROVE Served'
<1>1. TypeOK'
  BY TimeoutAssumption, IntervalAssumption DEF Served, TypeOK, Tick, Left, MaxAge
<1>2. WakesInTime'
  <2> SUFFICES ASSUME NEW s \in Sessions, current, <<"data", s>> \in tasks
               PROVE  age' + dataWait'[s] <= DATA_TIMEOUT
    BY DEF WakesInTime, Tick
  <2>1. dataWait[s] \in 0..DATA_TIMEOUT /\ dataWait[s] # 0
    BY DEF Served, TypeOK, Tick, Due
  <2>2. age + dataWait[s] <= DATA_TIMEOUT
    BY DEF Served, WakesInTime
  <2>3. dataWait'[s] = dataWait[s] - 1 /\ age' <= age + 1 /\ age' \in Nat
    BY <2>1, TimeoutAssumption DEF Tick, Left, Served, TypeOK, MaxAge
  <2> QED
    BY <2>1, <2>2, <2>3, TimeoutAssumption DEF Served, TypeOK, MaxAge
<1> QED
  BY <1>1, <1>2 DEF Served, Connected, Tick, TasksAreHeld, SessionIsServed

\* A check reads the age and the wait together, so it never sleeps past the timeout.
LEMMA CheckServed == ASSUME Served, NEW s \in Sessions, CheckData(s) PROVE Served'
<1>1. TypeOK'
  <2>1. age \in Int
    BY TimeoutAssumption DEF Served, TypeOK, MaxAge
  <2>2. \E w \in 0..DATA_TIMEOUT : dataWait' = [dataWait EXCEPT ![s] = w]
    <3>1. CASE age < DATA_TIMEOUT
      <4>1. DATA_TIMEOUT - age \in 0..DATA_TIMEOUT
        BY <3>1, TimeoutAssumption DEF Served, TypeOK, MaxAge
      <4> QED
        BY <3>1, <4>1, <2>1, TimeoutAssumption DEF CheckData
    <3>2. CASE age >= DATA_TIMEOUT
      <4>1. DATA_TIMEOUT \in 0..DATA_TIMEOUT
        BY TimeoutAssumption
      <4> QED
        BY <3>2, <4>1, <2>1, TimeoutAssumption DEF CheckData
    <3> QED
      BY <3>1, <3>2, <2>1, TimeoutAssumption
  <2>3. dataWait' \in [Sessions -> 0..DATA_TIMEOUT]
    BY <2>2 DEF Served, TypeOK
  <2>4. current' \in BOOLEAN
    BY DEF CheckData, Served, TypeOK
  <2> QED
    BY <2>3, <2>4 DEF Served, TypeOK, CheckData
<1>2. WakesInTime'
  <2> SUFFICES ASSUME NEW r \in Sessions, current', <<"data", r>> \in tasks
               PROVE  age + dataWait'[r] <= DATA_TIMEOUT
    BY DEF WakesInTime, CheckData
  <2>1. age < DATA_TIMEOUT /\ dataWait' = [dataWait EXCEPT ![s] = DATA_TIMEOUT - age]
    BY DEF CheckData
  <2>2. current
    BY DEF CheckData
  <2> QED
    BY <2>1, <2>2, TimeoutAssumption DEF Served, TypeOK, WakesInTime, MaxAge
<1> QED
  BY <1>1, <1>2 DEF Served, Connected, CheckData, TasksAreHeld, SessionIsServed

\* A new session cancels the tasks its predecessor left and starts its own.
LEMMA AuthenticatedServed == ASSUME Served, Authenticated PROVE Served'
<1>1. PICK s \in Sessions :
          /\ tasks' = (tasks \ held) \cup Kinds \X {s}
          /\ held' = Kinds \X {s}
          /\ pollWait' = [pollWait EXCEPT ![s] = POLL_INTERVAL]
          /\ dataWait' = [dataWait EXCEPT ![s] = 0]
  BY DEF Authenticated
<1>2. tasks' = Kinds \X {s}
  BY <1>1 DEF Served, TasksAreHeld
<1>3. <<"poll", s>> \in tasks' /\ <<"data", s>> \in tasks'
  BY <1>2 DEF Kinds
<1>4. TypeOK'
  BY <1>1, <1>2, TimeoutAssumption, IntervalAssumption
  DEF Served, TypeOK, Authenticated, MaxAge
<1>5. asking' = {}
  BY DEF Served, TasksAreHeld, Authenticated
<1>6. WakesInTime'
  <2> SUFFICES ASSUME NEW r \in Sessions, <<"data", r>> \in tasks'
               PROVE  age' + dataWait'[r] <= DATA_TIMEOUT
    BY DEF WakesInTime
  <2>1. r = s
    BY <1>2
  <2>2. dataWait'[r] = 0 /\ age' = 0
    BY <1>1, <2>1 DEF Served, TypeOK, Authenticated
  <2> QED
    BY <2>2, TimeoutAssumption
<1> QED
  BY <1>1, <1>2, <1>3, <1>4, <1>5, <1>6
  DEF Served, Connected, TasksAreHeld, SessionIsServed, Authenticated

\* Every step keeps the session served and the watcher in time.
LEMMA StepServed == Served /\ [Next]_vars => Served'
<1> SUFFICES ASSUME Served, [Next]_vars PROVE Served'
  OBVIOUS
<1> USE DEF Served, TypeOK, TasksAreHeld, SessionIsServed, WakesInTime, Connected
<1>1. CASE Connect
  BY <1>1 DEF Connect
<1>2. CASE LinkDrops
  BY <1>2 DEF LinkDrops
<1>3. CASE Disconnect
  BY <1>3 DEF Disconnect, CancelSessionTasks
<1>4. CASE DisconnectReturns
  BY <1>4 DEF DisconnectReturns
<1>5. CASE OnData
  <2>1. TypeOK'
    BY <1>5, TimeoutAssumption DEF OnData, MaxAge
  <2>2. WakesInTime'
    BY <1>5, TimeoutAssumption DEF OnData
  <2> QED
    BY <1>5, <2>1, <2>2 DEF OnData
<1>6. ASSUME NEW s \in Sessions, RefreshEnds(s) PROVE Served'
  <2>1. \A r \in Sessions : /\ <<"poll", r>> \in tasks' <=> <<"poll", r>> \in tasks
                            /\ <<"data", r>> \in tasks' <=> <<"data", r>> \in tasks
    BY <1>6 DEF RefreshEnds
  <2>2. SessionIsServed' /\ WakesInTime'
    BY <1>6, <2>1 DEF RefreshEnds
  <2>3. TypeOK'
    BY <1>6 DEF RefreshEnds
  <2> QED
    BY <1>6, <2>1, <2>2, <2>3 DEF RefreshEnds
<1>7. ASSUME NEW s \in Sessions, PollWakes(s) PROVE Served'
  <2>1. CASE Connected
    BY <1>7, <2>1 DEF PollWakes
  <2>2. CASE ~Connected
    <3>1. /\ tasks' = tasks \ {<<"poll", s>>}
          /\ UNCHANGED <<conn, link, held, asking, pollWait, dataWait, age, current>>
      BY <1>7, <2>2 DEF PollWakes
    <3>2. \A r \in asking : <<"poll", r>> \in tasks'
      BY <1>7, <3>1 DEF PollWakes
    <3>3. WakesInTime'
      BY <3>1
    <3>4. TypeOK'
      BY <3>1
    <3> QED
      BY <2>2, <3>1, <3>2, <3>3, <3>4
  <2> QED
    BY <2>1, <2>2
<1>8. ASSUME NEW s \in Sessions, Polled(s) PROVE Served'
  <2>1. TypeOK'
    <3>1. POLL_INTERVAL \in 0..POLL_INTERVAL
      BY IntervalAssumption
    <3> QED
      BY <1>8, <3>1 DEF Polled
  <2>2. SessionIsServed' /\ WakesInTime'
    BY <1>8 DEF Polled
  <2> QED
    BY <1>8, <2>1, <2>2 DEF Polled
<1>9. CASE LinkUp
  BY <1>9 DEF LinkUp
<1>10. CASE UNCHANGED vars
  BY <1>10 DEF vars
<1> QED
  BY <1>1, <1>2, <1>3, <1>4, <1>5, <1>6, <1>7, <1>8, <1>9, <1>10, TickServed, CheckServed,
     AuthenticatedServed DEF Next

\* The inductive invariant of the session's tasks and timers.
THEOREM AlwaysServed == Spec => []Served
BY InitServed, StepServed, PTL DEF Spec

\* Every variable keeps its type.
THEOREM TypeAlwaysCorrect == Spec => []TypeOK
<1>1. Served => TypeOK
  BY DEF Served
<1> QED
  BY <1>1, AlwaysServed, PTL

\* No task outlives the session that can cancel it.
THEOREM TasksAlwaysHeld == Spec => []TasksAreHeld
<1>1. Served => TasksAreHeld
  BY DEF Served
<1> QED
  BY <1>1, AlwaysServed, PTL

\* A session is polled and watched as long as its link lasts.
THEOREM SessionAlwaysServed == Spec => []SessionIsServed
<1>1. Served => SessionIsServed
  BY DEF Served
<1> QED
  BY <1>1, AlwaysServed, PTL

\* Values older than the timeout are never shown as current while a session is watched.
THEOREM StaleAlwaysInTime == Spec => []StaleInTime
<1>1. Served => StaleInTime
  <2> SUFFICES ASSUME Served, current, NEW s \in Sessions, <<"data", s>> \in tasks
               PROVE  age <= DATA_TIMEOUT
    BY DEF StaleInTime
  <2>1. age + dataWait[s] <= DATA_TIMEOUT
    BY DEF Served, WakesInTime
  <2>2. dataWait[s] \in 0..DATA_TIMEOUT
    BY DEF Served, TypeOK
  <2> QED
    BY <2>1, <2>2, TimeoutAssumption DEF Served, TypeOK, MaxAge
<1> QED
  BY <1>1, AlwaysServed, PTL

\* A device reads, polls and watches with one task each, also while a reused connection
\* authenticates (_cancel_session_tasks): two sessions never have tasks at once.
THEOREM TasksNeverOverlap ==
    Spec => [](\A j, k \in Kinds : \A s, t \in Sessions :
                   <<j, s>> \in tasks /\ <<k, t>> \in tasks => s = t)
<1>1. Served => \A j, k \in Kinds : \A s, t \in Sessions :
                    <<j, s>> \in tasks /\ <<k, t>> \in tasks => s = t
  <2> SUFFICES ASSUME Served, NEW j \in Kinds, NEW k \in Kinds, NEW s \in Sessions,
                      NEW t \in Sessions, <<j, s>> \in tasks, <<k, t>> \in tasks
               PROVE  s = t
    OBVIOUS
  <2>1. <<j, s>> \in held /\ <<k, t>> \in held
    BY DEF Served, TasksAreHeld
  <2>2. PICK r \in Sessions : held = Kinds \X {r}
    BY <2>1 DEF Served
  <2> QED
    BY <2>1, <2>2
<1> QED
  BY <1>1, AlwaysServed, PTL
=============================================================================
