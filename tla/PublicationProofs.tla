-------------------------- MODULE PublicationProofs --------------------------
(* Safety of Publication for all fields, entities, periods and set-backs.       *)
EXTENDS Publication, TLAPS

\* Outside of an update past the throttle an entity shows exactly then that it is not
\* available when it is not.
Told ==
    linked => \A f \in subscribed :
        \/ forced /\ f \in batch
        \/ shown[f] = Unavailable <=> ~Available(f)

\* A name whose entity shows an earlier state is still to be published or waits. What is
\* no sensor was written when it began to wait.
Remembered ==
    linked => \A f \in subscribed :
        shown[f] # State(f) => f \in batch \/ f \in pending \cap Throttled

\* The wall clock is never ahead of the time that passed, and behind it by no more than it was
\* set back: neither a period nor the window ends early, and the window not much later.
Clock ==
    /\ gap < Longest => since <= gap
    /\ window = "unset" => age = 0
    /\ window = "open" => left + age <= UNTHROTTLED + setbacks \/ left <= LongOver
    /\ window # "open" => left = -1
    /\ left <= UNTHROTTLED + setbacks

\* One publication within a period may come late, and it closes the window.
Closed == late <= IF window = "closed" THEN 1 ELSE 0

Kept ==
    /\ TypeOK
    /\ Clock
    /\ Told
    /\ Remembered
    /\ Closed

\* There is a longest period.
LEMMA LongestIsNumber == Longest \in Nat /\ \A p \in Periods : p \in Nat /\ p <= Longest
<1>1. Longest \in Periods /\ \A q \in Periods : Longest >= q
  BY PeriodsAssumption DEF Longest
<1> QED
  BY <1>1, PeriodsAssumption

\* A state of an entity is a value or that it is not available, and those differ.
LEMMA StateKnown ==
    ASSUME TypeOK, NEW f \in Fields
    PROVE  /\ State(f) \in Values \cup {Unavailable}
           /\ State(f) = Unavailable <=> ~Available(f)
BY ValuesAssumption DEF TypeOK, State

\* What is written is what the device has now, and nothing else is touched.
LEMMA Writes ==
    ASSUME TypeOK, NEW names, Write(names)
    PROVE  /\ shown' \in [Fields -> Values \cup {Unavailable}]
           /\ \A f \in Fields :
                  shown'[f] = IF f \in names \cap subscribed THEN State(f) ELSE shown[f]
<1>1. \A f \in Fields : State(f) \in Values \cup {Unavailable}
  BY StateKnown
<1> QED
  BY <1>1 DEF Write, TypeOK

-----------------------------------------------------------------------------
\* What publishing a name within or past the throttle does to entities and names.
Published(f) ==
    /\ shown' \in [Fields -> Values \cup {Unavailable}]
    /\ \A g \in Fields : shown'[g] \in {shown[g], State(g)}
    /\ f \in subscribed => shown'[f] = State(f) \/ f \in pending' \cap Throttled
    /\ \A g \in subscribed : g \in pending \cap Throttled => \/ shown'[g] = State(g)
                                                            \/ g \in pending'
    /\ pending' \subseteq Fields
    /\ \/ UNCHANGED <<since, window, left, gap, late>>
       \/ /\ period # 0 /\ SetLastUpdated
          /\ \/ since >= period /\ UNCHANGED <<window, left>>
             \/ Unthrottled

LEMMA PublishEffect ==
    ASSUME Kept, NEW f \in batch, Publish(f)
    PROVE  Published(f)
<1>1. f \in Fields /\ pending \subseteq Fields /\ subscribed \subseteq Fields
  BY DEF Kept, TypeOK
<1>2. CASE PublishForced(f)
  <2>1. /\ shown' \in [Fields -> Values \cup {Unavailable}]
        /\ \A g \in Fields : shown'[g] = IF g \in {f} \cap subscribed THEN State(g) ELSE shown[g]
    BY <1>2, Writes DEF PublishForced, Kept
  <2>2. UNCHANGED <<pending, since, window, left, gap, late>>
    BY <1>2 DEF PublishForced, throttle
  <2> QED
    BY <1>1, <2>1, <2>2 DEF Published
<1>3. ASSUME PublishPending(f)
      PROVE  /\ shown' \in [Fields -> Values \cup {Unavailable}]
             /\ \A g \in Fields : shown'[g] \in {shown[g], State(g)}
             /\ f \in subscribed => shown'[f] = State(f)
             /\ \A g \in subscribed : g \in pending \cap Throttled => shown'[g] = State(g)
             /\ pending' = {}
  <2>1. /\ shown' \in [Fields -> Values \cup {Unavailable}]
        /\ \A g \in Fields :
               shown'[g] = IF g \in ({f} \cup (pending \cap Throttled)) \cap subscribed
                           THEN State(g) ELSE shown[g]
    BY <1>3, Writes DEF PublishPending, Kept
  <2> QED
    BY <1>1, <1>3, <2>1 DEF PublishPending
<1>4. CASE PublishPending(f) /\ UNCHANGED <<since, window, left, gap, late>>
  BY <1>3, <1>4 DEF Published
<1>5. ASSUME PublishPending(f), period # 0, SetLastUpdated,
             \/ since >= period /\ UNCHANGED <<window, left>>
             \/ Unthrottled
      PROVE  Published(f)
  BY <1>3, <1>5 DEF Published
<1>6. CASE Wait(f)
  <2>1. /\ shown' \in [Fields -> Values \cup {Unavailable}]
        /\ \A g \in Fields :
               shown'[g] = IF g \in ({f} \ Throttled) \cap subscribed THEN State(g) ELSE shown[g]
    BY <1>6, Writes DEF Wait, Kept
  <2>2. pending' = pending \cup {f} /\ UNCHANGED <<since, window, left, gap, late>>
    BY <1>6 DEF Wait
  <2> QED
    BY <1>1, <2>1, <2>2 DEF Published
<1> QED
  BY <1>2, <1>4, <1>5, <1>6 DEF Publish, PublishThrottled

\* Publishing a name keeps the clock, and counts late what it says.
LEMMA PublishInTime ==
    ASSUME TypeOK, Clock, Closed, NEW f, Published(f), UNCHANGED <<period, setbacks, age>>
    PROVE  /\ since' \in Int /\ since' <= Horizon'
           /\ left' \in LongOver'..(UNTHROTTLED + MaxSetbacks)
           /\ gap' \in 0..Longest /\ late' \in Nat
           /\ window' \in {"unset", "open", "closed"}
           /\ Clock' /\ Closed'
<1>0. /\ since \in Int /\ since <= Horizon /\ left \in LongOver..(UNTHROTTLED + MaxSetbacks)
      /\ gap \in 0..Longest /\ late \in Nat /\ age \in Nat /\ setbacks \in 0..MaxSetbacks
      /\ window \in {"unset", "open", "closed"} /\ period \in Nat /\ period <= Longest
      /\ Longest \in Nat /\ UNTHROTTLED \in Nat /\ MaxSetbacks \in Nat
  BY LongestIsNumber, PeriodsAssumption DEF TypeOK
<1>1. CASE UNCHANGED <<since, window, left, gap, late>>
  BY <1>0, <1>1 DEF Clock, Closed, Horizon, LongOver
<1>2. ASSUME SetLastUpdated, since >= period, UNCHANGED <<window, left>>
      PROVE  /\ since' = 0 /\ gap' = 0 /\ late' = late
  <2>1. gap >= period
    BY <1>0, <1>2 DEF Clock
  <2> QED
    BY <1>0, <1>2, <2>1 DEF SetLastUpdated
<1>3. CASE SetLastUpdated /\ since >= period /\ UNCHANGED <<window, left>>
  BY <1>0, <1>2, <1>3 DEF Clock, Closed, Horizon, LongOver
<1>4. CASE SetLastUpdated /\ Unthrottled
  <2>1. since' = 0 /\ gap' = 0 /\ late' \in {late, late + 1}
    BY <1>4 DEF SetLastUpdated
  <2>2. CASE window = "unset"
    <3>1. window' = "open" /\ left' = UNTHROTTLED
      BY <1>4, <2>2 DEF Unthrottled
    <3>2. late' = late
      BY <1>0, <1>4, <2>2 DEF SetLastUpdated, Clock
    <3> QED
      BY <1>0, <2>1, <2>2, <3>1, <3>2 DEF Clock, Closed, Horizon, LongOver
  <2>3. CASE window = "open" /\ left >= 0
    <3>1. UNCHANGED <<window, left>>
      BY <1>0, <1>4, <2>3 DEF Unthrottled
    <3>2. left + age <= UNTHROTTLED + setbacks
      BY <1>0, <2>3 DEF Clock, LongOver
    <3>3. late' = late
      BY <1>0, <1>4, <2>3, <3>2 DEF SetLastUpdated
    <3> QED
      BY <1>0, <2>1, <2>3, <3>1, <3>3 DEF Clock, Closed, Horizon, LongOver
  <2>4. CASE window = "open" /\ left < 0
    <3>1. window' = "closed" /\ left' = -1
      BY <1>0, <1>4, <2>4 DEF Unthrottled
    <3> QED
      BY <1>0, <2>1, <2>4, <3>1 DEF Clock, Closed, Horizon, LongOver
  <2> QED
    BY <1>0, <1>4, <2>2, <2>3, <2>4 DEF Unthrottled
<1> QED
  BY <1>1, <1>3, <1>4 DEF Published

\* A published name is up to date or waits, and the others stay what they were.
LEMMA PublishKeeps == ASSUME Kept, NEW f \in batch, Publish(f) PROVE Kept'
<1>1. Published(f)
  BY PublishEffect
<1>2. /\ UNCHANGED <<value, current, linked, subscribed, forced, resumes, period, setbacks,
                     age>>
      /\ batch' = batch \ {f} /\ batch \subseteq Fields /\ subscribed \subseteq Fields
  BY DEF Publish, fields, Kept, TypeOK
<1>3. \A g \in Fields : /\ Available(g)' <=> Available(g)
                        /\ State(g)' = State(g)
  BY <1>2 DEF Available, State
<1>4. TypeOK' /\ Clock' /\ Closed'
  <2>1. /\ since' \in Int /\ since' <= Horizon'
        /\ left' \in LongOver'..(UNTHROTTLED + MaxSetbacks)
        /\ gap' \in 0..Longest /\ late' \in Nat
        /\ window' \in {"unset", "open", "closed"}
        /\ Clock' /\ Closed'
    BY <1>1, <1>2, PublishInTime DEF Kept
  <2>2. /\ shown' \in [Fields -> Values \cup {Unavailable}]
        /\ pending' \subseteq Fields
    BY <1>1 DEF Published
  <2> QED
    BY <1>2, <2>1, <2>2 DEF Kept, TypeOK
<1>5. Told'
  <2> SUFFICES ASSUME linked, NEW g \in subscribed,
                      ~(forced /\ g \in batch /\ g # f)
               PROVE  shown'[g] = Unavailable <=> ~Available(g)
    BY <1>2, <1>3 DEF Told
  <2>1. shown'[g] \in {shown[g], State(g)} /\ (State(g) = Unavailable <=> ~Available(g))
    BY <1>1, <1>2, StateKnown DEF Published, Kept
  <2>2. CASE forced /\ g = f
    <3>1. shown'[g] = State(g)
      <4>1. PublishForced(f)
        BY <2>2 DEF Publish
      <4>2. shown'[f] = State(f)
        BY <1>2, <2>2, <4>1, Writes DEF PublishForced, Kept
      <4> QED
        BY <2>2, <4>2
    <3> QED
      BY <2>1, <3>1
  <2>3. CASE ~(forced /\ g \in batch)
    BY <2>1, <2>3 DEF Kept, Told
  <2> QED
    BY <2>2, <2>3
<1>6. Remembered'
  <2> SUFFICES ASSUME linked, NEW g \in subscribed, shown'[g] # State(g)
               PROVE  g \in batch' \/ g \in pending' \cap Throttled
    BY <1>2, <1>3 DEF Remembered
  <2>1. shown'[g] = shown[g] /\ shown[g] # State(g)
    BY <1>1, <1>2 DEF Published
  <2>2. CASE g = f
    BY <1>1, <2>2 DEF Published
  <2>3. CASE g # f
    BY <1>1, <1>2, <2>1, <2>3 DEF Published, Kept, Remembered
  <2> QED
    BY <2>2, <2>3
<1> QED
  BY <1>4, <1>5, <1>6 DEF Kept

-----------------------------------------------------------------------------
\* Changed values are published, whoever reports them.
LEMMA AssignKeeps ==
    ASSUME Kept, batch = {}, NEW names, NEW v \in Assigning(names), Assign(v),
           UNCHANGED <<current, linked, entities, throttle, period, setbacks, age>>,
           resumes' \in BOOLEAN
    PROVE  Kept'
<1>1. /\ UNCHANGED <<current, linked, subscribed, shown, pending, since, window, left, gap,
                     late, period, setbacks, age>>
      /\ value' = v /\ v \in [Fields -> Values]
      /\ batch' = {f \in Fields : v[f] # value[f]}
      /\ forced' = FALSE
  BY DEF Assign, Assigning, entities, throttle
<1>2. TypeOK'
  BY <1>1 DEF Kept, TypeOK, Horizon, LongOver
<1>3. Told'
  BY <1>1 DEF Kept, Told, Available
<1>4. Remembered'
  <2> SUFFICES ASSUME linked, NEW g \in subscribed, shown[g] # State(g)', g \notin batch'
               PROVE  g \in pending \cap Throttled
    BY <1>1 DEF Remembered
  <2>1. g \in Fields
    BY DEF Kept, TypeOK
  <2>2. State(g)' = State(g)
    BY <1>1, <2>1 DEF State, Available
  <2> QED
    BY <2>2 DEF Kept, Remembered
<1> QED
  BY <1>1, <1>2, <1>3, <1>4 DEF Kept, Clock, Closed, LongOver

\* When data goes stale or current again its fields are all written past the throttle.
LEMMA WriteDataKeeps ==
    ASSUME Kept, batch = {}, WriteDataFields, current' \in BOOLEAN, resumes' \in BOOLEAN,
           UNCHANGED <<value, linked, entities, throttle, period, setbacks, age>>
    PROVE  Kept'
<1>1. /\ UNCHANGED <<value, linked, subscribed, shown, pending, since, window, left, gap,
                     late, period, setbacks, age>>
      /\ batch' = DataFields /\ forced' = TRUE
  BY DEF WriteDataFields, entities, throttle
<1>2. TypeOK'
  BY <1>1, FieldsAssumption DEF Kept, TypeOK, Horizon, LongOver
<1>3. \A g : g \notin DataFields => (Available(g)' <=> Available(g)) /\ State(g)' = State(g)
  BY <1>1 DEF Available, State
<1>4. Told'
  <2> SUFFICES ASSUME linked, NEW g \in subscribed, g \notin DataFields
               PROVE  shown[g] = Unavailable <=> ~Available(g)
    BY <1>1, <1>3 DEF Told
  <2> QED
    BY DEF Kept, Told
<1>5. Remembered'
  <2> SUFFICES ASSUME linked, NEW g \in subscribed, g \notin DataFields, shown[g] # State(g)
               PROVE  g \in pending \cap Throttled
    BY <1>1, <1>3 DEF Remembered
  <2> QED
    BY DEF Kept, Remembered
<1> QED
  BY <1>1, <1>2, <1>4, <1>5 DEF Kept, Clock, Closed, LongOver

\* A new entity shows the state at once.
LEMMA SubscribeKeeps == ASSUME Kept, NEW f \in Fields, Subscribe(f) PROVE Kept'
<1>1. /\ UNCHANGED <<value, current, linked, pending, since, window, left, gap, late,
                     batch, forced, resumes, period, setbacks, age>>
      /\ subscribed' = subscribed \cup {f}
      /\ shown' = [shown EXCEPT ![f] = State(f)]
  BY DEF Subscribe, fields, throttle, update
<1>2. State(f) \in Values \cup {Unavailable} /\ (State(f) = Unavailable <=> ~Available(f))
  BY StateKnown DEF Kept
<1>3. shown'[f] = State(f) /\ \A g \in Fields : g # f => shown'[g] = shown[g]
  BY <1>1 DEF Kept, TypeOK
<1>4. \A g : (Available(g)' <=> Available(g)) /\ State(g)' = State(g)
  BY <1>1 DEF Available, State
<1>5. TypeOK'
  BY <1>1, <1>2 DEF Kept, TypeOK, Horizon, LongOver
<1>6. Told' /\ Remembered'
  <2>1. subscribed \subseteq Fields
    BY DEF Kept, TypeOK
  <2>2. Told'
    BY <1>1, <1>2, <1>3, <1>4, <2>1 DEF Kept, Told
  <2>3. Remembered'
    BY <1>1, <1>3, <1>4, <2>1 DEF Kept, Remembered
  <2> QED
    BY <2>2, <2>3
<1> QED
  BY <1>1, <1>5, <1>6 DEF Kept, Clock, Closed, LongOver

\* Time that passes or is set back leaves the fields and the entities alone.
LEMMA ClockKeeps == ASSUME Kept, Tick \/ SetBack PROVE Kept'
<1>0. /\ since \in Int /\ since <= Horizon /\ left \in LongOver..(UNTHROTTLED + MaxSetbacks)
      /\ gap \in 0..Longest /\ late \in Nat /\ age \in 0..LongOpen /\ setbacks \in 0..MaxSetbacks
      /\ window \in {"unset", "open", "closed"}
      /\ Longest \in Nat /\ UNTHROTTLED \in Nat /\ MaxSetbacks \in Nat
      /\ Clock /\ Closed
  BY LongestIsNumber, PeriodsAssumption DEF Kept, TypeOK
<1>1. /\ UNCHANGED <<value, current, linked, subscribed, shown, pending, window, late, batch,
                     forced, resumes, period>>
      /\ setbacks' \in {setbacks, setbacks + 1} /\ setbacks' \in 0..MaxSetbacks
  BY <1>0 DEF Tick, SetBack, fields, entities, update
<1>2. /\ since' \in Int /\ since' <= Horizon'
      /\ left' \in LongOver'..(UNTHROTTLED + MaxSetbacks)
      /\ gap' \in 0..Longest /\ age' \in 0..LongOpen
      /\ Clock'
  <2>1. CASE Tick
    <3>1. /\ since' = IF since < Horizon THEN since + 1 ELSE since
          /\ left' = IF window = "open" /\ left > LongOver THEN left - 1 ELSE left
          /\ age' = IF window # "unset" /\ age < LongOpen THEN age + 1 ELSE age
          /\ gap' = IF gap < Longest THEN gap + 1 ELSE gap
          /\ window' = window /\ setbacks' = setbacks
      BY <2>1 DEF Tick
    <3>2. since' \in Int /\ since' <= Horizon' /\ (gap' < Longest => since' <= gap')
      BY <1>0, <3>1 DEF Clock, Horizon
    <3>3. gap' \in 0..Longest /\ age' \in 0..LongOpen
      BY <1>0, <3>1 DEF LongOpen
    <3>4. left' \in LongOver'..(UNTHROTTLED + MaxSetbacks) /\ left' <= UNTHROTTLED + setbacks'
      BY <1>0, <3>1 DEF Clock, LongOver
    <3>5. window = "open" => left' + age' <= UNTHROTTLED + setbacks \/ left' <= LongOver
      BY <1>0, <3>1 DEF Clock, LongOver, LongOpen
    <3> QED
      BY <1>0, <3>1, <3>2, <3>3, <3>4, <3>5 DEF Clock, LongOver
  <2>2. CASE SetBack
    BY <1>0, <2>2 DEF SetBack, Clock, Horizon, LongOver
  <2> QED
    BY <2>1, <2>2
<1>3. TypeOK'
  BY <1>1, <1>2 DEF Kept, TypeOK
<1>4. Told' /\ Remembered' /\ Closed'
  BY <1>1 DEF Kept, Told, Remembered, Clock, Closed, LongOver, Horizon,
               Available, State
<1> QED
  BY <1>2, <1>3, <1>4 DEF Kept

-----------------------------------------------------------------------------
\* Before anything arrived no entity was added.
LEMMA InitKept == Init => Kept
<1> SUFFICES ASSUME Init PROVE Kept
  OBVIOUS
<1>1. /\ Longest \in Nat /\ UNTHROTTLED \in Nat /\ MaxSetbacks \in Nat
      /\ setbacks = 0 /\ since = Horizon /\ window = "unset" /\ left = -1
      /\ age = 0 /\ gap = Longest /\ late = 0
  BY LongestIsNumber, PeriodsAssumption DEF Init
<1>2. /\ since \in Int /\ since <= Horizon /\ setbacks \in 0..MaxSetbacks
      /\ left \in LongOver..(UNTHROTTLED + MaxSetbacks)
      /\ age \in 0..LongOpen /\ gap \in 0..Longest /\ late \in Nat
  BY <1>1 DEF Horizon, LongOver, LongOpen
<1>3. TypeOK
  BY <1>2, ValuesAssumption DEF Init, TypeOK
<1>4. Clock /\ Closed
  BY <1>1 DEF Clock, Closed
<1> QED
  BY <1>3, <1>4 DEF Init, Kept, Told, Remembered

\* Names, entities and the window stay in order.
THEOREM AlwaysKept == Spec => []Kept
<1>1. Kept /\ [Next]_vars => Kept'
  <2> SUFFICES ASSUME Kept, [Next]_vars PROVE Kept'
    OBVIOUS
  <2>1. ASSUME NEW f \in Fields, Subscribe(f) PROVE Kept'
    BY <2>1, SubscribeKeeps
  <2>2. CASE Frames
    <3>1. PICK v \in Assigning(DataFields) : Frame(v)
      BY <2>2 DEF Frames
    <3> QED
      BY <3>1, AssignKeeps DEF Frame, Idle, Kept, TypeOK
  <2>3. CASE Reports
    <3>1. PICK v \in Assigning(Fields \ DataFields) : Report(v)
      BY <2>3 DEF Reports
    <3> QED
      BY <3>1, AssignKeeps DEF Report, Idle, Kept, TypeOK
  <2>4. CASE Overdue \/ Resume
    BY <2>4, WriteDataKeeps DEF Overdue, Resume, Idle, Kept, TypeOK
  <2>5. ASSUME NEW f \in batch, Publish(f) PROVE Kept'
    BY <2>5, PublishKeeps
  <2>6. ASSUME NEW p \in Periods, SetPeriod(p) PROVE Kept'
    BY <2>6 DEF SetPeriod, fields, entities, throttle, update, Kept, TypeOK, Told,
               Remembered, Clock, Closed, LongOver, Horizon,
               Available, State
  <2>7. CASE LinkDrops
    BY <2>7 DEF LinkDrops, entities, throttle, update, Kept, TypeOK, Told, Remembered,
               Clock, Closed, LongOver, Horizon
  <2>8. CASE Connects
    BY <2>8 DEF Connects, entities, throttle, update, Kept, TypeOK, Told, Remembered,
               Clock, Closed, LongOver, Horizon
  <2>9. CASE Tick \/ SetBack
    BY <2>9, ClockKeeps
  <2>10. CASE UNCHANGED vars
    BY <2>10 DEF vars, fields, entities, throttle, update, Kept, TypeOK, Told, Remembered,
                Clock, Closed, LongOver, Horizon, Available, State
  <2> QED
    BY <2>1, <2>2, <2>3, <2>4, <2>5, <2>6, <2>7, <2>8, <2>9, <2>10 DEF Next, Publishing
<1> QED
  BY <1>1, InitKept, PTL DEF Spec

\* Every variable keeps its type.
THEOREM TypeAlwaysCorrect == Spec => []TypeOK
<1>1. Kept => TypeOK
  BY DEF Kept
<1> QED
  BY <1>1, AlwaysKept, PTL

\* What a sensor still shows of before waits to be published (_publish).
THEOREM LateAlwaysPending == Spec => []LateIsPending
<1>1. Kept => LateIsPending
  BY DEF Kept, Remembered, LateIsPending, Idle
<1> QED
  BY <1>1, AlwaysKept, PTL

\* Between updates availability never lags (entity.py, _write_data_fields).
THEOREM AvailabilityAlwaysCurrent == Spec => []AvailabilityIsCurrent
<1>1. ASSUME Kept PROVE AvailabilityIsCurrent
  <2> SUFFICES ASSUME batch = {}, linked, NEW f \in subscribed, shown[f] # State(f)
               PROVE  f \in Throttled /\ Available(f) /\ shown[f] # Unavailable
    BY DEF AvailabilityIsCurrent, Idle
  <2>1. f \in Throttled
    BY <1>1 DEF Kept, Remembered
  <2>2. shown[f] = Unavailable <=> ~Available(f)
    BY <1>1 DEF Kept, Told
  <2>3. ~Available(f) => State(f) = Unavailable
    BY DEF State
  <2> QED
    BY <2>1, <2>2, <2>3
<1> QED
  BY <1>1, AlwaysKept, PTL

\* The update period is kept in true time, but for seconds that are granted once
\* (_publish_throttled).
THEOREM ThrottleAlwaysHolds == Spec => []ThrottleHolds
<1>1. Kept => ThrottleHolds
  BY DEF Kept, TypeOK, Closed, ThrottleHolds
<1> QED
  BY <1>1, AlwaysKept, PTL

-----------------------------------------------------------------------------
\* The refinement mapping: the states of the fields and the names that are owed.
States == [f \in Fields |-> State(f)]
Owed   == batch \cup (pending \cap Throttled)

\* Home Assistant may have each of them.
LEMMA StatesKnown == TypeOK => States \in [Fields -> Values \cup {Unavailable}]
<1>1. ASSUME TypeOK PROVE \A f \in Fields : State(f) \in Values \cup {Unavailable}
  BY <1>1, StateKnown
<1> QED
  BY <1>1 DEF States

\* What an update changes is owed from then on.
LEMMA UpdateOwes ==
    ASSUME TypeOK, TypeOK', batch = {},
           \A f \in Fields : State(f)' # State(f) => f \in batch',
           UNCHANGED <<linked, entities, throttle>>
    PROVE  Home!Change
<1>1. UNCHANGED <<linked, subscribed, shown, pending>>
  BY DEF entities, throttle
<1>2. States' \in [Fields -> Values \cup {Unavailable}]
  <2>1. (TypeOK => States \in [Fields -> Values \cup {Unavailable}])'
    BY StatesKnown, PTL
  <2> QED
    BY <2>1
<1>3. Owed' \in SUBSET Fields /\ Owed \subseteq Owed'
  BY <1>1 DEF Owed, TypeOK
<1>4. \A f \in Fields : States'[f] # States[f] => f \in Owed'
  BY DEF States, Owed
<1> QED
  BY <1>1, <1>2, <1>3, <1>4 DEF Home!Change, States, Owed

\* A step that leaves fields, entities and names alone is none of the mirror's.
LEMMA NothingMoves ==
    ASSUME UNCHANGED <<fields, entities, pending, batch>>
    PROVE  UNCHANGED Home!vars
BY DEF Home!vars, fields, entities, State, Available

\* Publishing a name writes its state and whatever waited with it, or leaves it to wait.
LEMMA PublishShows ==
    ASSUME Kept, NEW f \in batch, Publish(f)
    PROVE  \E names \in SUBSET Fields : Home!Show(names)
<1>0. /\ f \in Fields /\ pending \subseteq Fields /\ subscribed \subseteq Fields
      /\ batch \subseteq Fields /\ Throttled \subseteq Fields
      /\ TypeOK
  BY FieldsAssumption DEF Kept, TypeOK
<1>1. /\ UNCHANGED <<value, current, linked, subscribed>>
      /\ batch' = batch \ {f}
  BY DEF Publish, fields
<1>2. States' = States /\ \A g \in Fields : States[g] = State(g)
  BY <1>1 DEF States, State, Available
<1>3. ASSUME NEW names \in SUBSET Fields, Write(names), Owed' \subseteq Owed,
             Owed \ names \subseteq Owed'
      PROVE  \E n \in SUBSET Fields : Home!Show(n)
  <2>1. shown' = [g \in Fields |-> IF g \in names \cap subscribed THEN States[g] ELSE shown[g]]
    BY <1>2, <1>3 DEF Write
  <2> QED
    BY <1>1, <1>2, <1>3, <2>1 DEF Home!Show, States, Owed
<1>4. CASE PublishForced(f)
  <2>1. pending' = pending
    BY <1>4 DEF PublishForced, throttle
  <2>2. Owed' \subseteq Owed /\ Owed \ {f} \subseteq Owed'
    BY <1>1, <2>1 DEF Owed
  <2> QED
    BY <1>0, <1>3, <1>4, <2>2 DEF PublishForced
<1>5. CASE PublishPending(f)
  <2>1. pending' = {}
    BY <1>5 DEF PublishPending
  <2>2. Owed' \subseteq Owed /\ Owed \ ({f} \cup (pending \cap Throttled)) \subseteq Owed'
    BY <1>1, <2>1 DEF Owed
  <2> QED
    BY <1>0, <1>3, <1>5, <2>2 DEF PublishPending
<1>6. CASE Wait(f)
  <2>1. pending' = pending \cup {f}
    BY <1>6 DEF Wait
  <2>2. Owed' \subseteq Owed /\ Owed \ ({f} \ Throttled) \subseteq Owed'
    BY <1>1, <2>1 DEF Owed
  <2> QED
    BY <1>0, <1>3, <1>6, <2>2 DEF Wait
<1> QED
  BY <1>4, <1>5, <1>6 DEF Publish, PublishThrottled

\* Publication implements its promise: nothing but the present state is ever written, and
\* no change is dropped (_publish, _write_data_fields, async_added_to_hass).
THEOREM PublicationMirrors == Spec => MirrorsFields
<1>1. Init => Home!Init
  <2> SUFFICES ASSUME Init PROVE Home!Init
    OBVIOUS
  <2>1. TypeOK /\ States \in [Fields -> Values \cup {Unavailable}]
    BY InitKept, StatesKnown DEF Kept
  <2> QED
    BY <2>1 DEF Home!Init, Home!TypeOK, Init, States, TypeOK
<1>2. Kept /\ Kept' /\ [Next]_vars => [Home!Next]_Home!vars
  <2> SUFFICES ASSUME Kept, Kept', [Next]_vars PROVE Home!Next \/ UNCHANGED Home!vars
    OBVIOUS
  <2>0. TypeOK /\ TypeOK'
    BY DEF Kept
  <2>1. ASSUME NEW f \in Fields, Subscribe(f) PROVE Home!Watch(f)
    <3>1. /\ UNCHANGED <<value, current, linked, pending, batch>>
          /\ subscribed' = subscribed \cup {f}
          /\ shown' = [shown EXCEPT ![f] = State(f)]
      BY <2>1 DEF Subscribe, fields, throttle, update
    <3>2. States' = States /\ Owed' = Owed /\ States[f] = State(f)
      BY <3>1 DEF States, Owed, State, Available
    <3> QED
      BY <3>1, <3>2 DEF Home!Watch, States, Owed
  <2>2. CASE Frames \/ Reports
    <3>1. PICK v \in [Fields -> Values] : Frame(v) \/ Report(v)
      BY <2>2 DEF Frames, Reports, Assigning
    <3>2. /\ value' = v /\ batch' = {f \in Fields : v[f] # value[f]} /\ batch = {}
          /\ UNCHANGED <<current, linked, entities, throttle>>
      BY <3>1 DEF Frame, Report, Assign, Idle
    <3>3. \A f \in Fields : State(f)' # State(f) => f \in batch'
      BY <3>2 DEF State, Available
    <3> QED
      BY <2>0, <3>2, <3>3, UpdateOwes DEF Home!Next
  <2>3. CASE Overdue \/ Resume
    <3>1. /\ batch' = DataFields /\ batch = {}
          /\ UNCHANGED <<value, linked, entities, throttle>>
      BY <2>3 DEF Overdue, Resume, Idle, WriteDataFields
    <3>2. \A f \in Fields : State(f)' # State(f) => f \in batch'
      BY <3>1 DEF State, Available
    <3> QED
      BY <2>0, <3>1, <3>2, UpdateOwes DEF Home!Next
  <2>4. ASSUME NEW f \in batch, Publish(f) PROVE Home!Next
    BY <2>4, PublishShows DEF Home!Next
  <2>5. ASSUME NEW p \in Periods, SetPeriod(p) PROVE UNCHANGED Home!vars
    BY <2>5, NothingMoves DEF SetPeriod, throttle, update
  <2>6. ASSUME LinkDrops \/ Connects PROVE Home!Lose \/ Home!Recover
    <3>1. UNCHANGED <<subscribed, shown, pending, batch>> /\ Owed' = Owed
      BY <2>6 DEF LinkDrops, Connects, entities, throttle, update, Owed
    <3>2. States' \in [Fields -> Values \cup {Unavailable}]
      <4>1. (TypeOK => States \in [Fields -> Values \cup {Unavailable}])'
        BY StatesKnown, PTL
      <4> QED
        BY <2>0, <4>1
    <3> QED
      BY <2>6, <3>1, <3>2 DEF LinkDrops, Connects, Home!Lose, Home!Recover, States, Owed
  <2>7. CASE Tick \/ SetBack
    BY <2>7, NothingMoves DEF Tick, SetBack, update
  <2>8. CASE UNCHANGED vars
    BY <2>8, NothingMoves DEF vars, throttle, update
  <2> QED
    BY <2>1, <2>2, <2>3, <2>4, <2>5, <2>6, <2>7, <2>8 DEF Next, Publishing, Home!Next
<1> QED
  BY <1>1, <1>2, AlwaysKept, PTL DEF Spec, MirrorsFields, Home!Spec

\* Whatever keeps that promise owes what Home Assistant lacks.
THEOREM MirrorOwesLag == Home!Spec => []Home!LagIsOwed
<1> DEFINE Owes == Home!TypeOK /\ Home!LagIsOwed
<1>1. Home!Init => Owes
  BY DEF Home!Init, Home!LagIsOwed
<1>2. Owes /\ [Home!Next]_Home!vars => Owes'
  <2> SUFFICES ASSUME Home!TypeOK, Home!LagIsOwed, [Home!Next]_Home!vars PROVE Owes'
    OBVIOUS
  <2>1. CASE Home!Change
    BY <2>1 DEF Home!Change, Home!TypeOK, Home!LagIsOwed
  <2>2. CASE Home!Lose \/ Home!Recover
    BY <2>2 DEF Home!Lose, Home!Recover, Home!TypeOK, Home!LagIsOwed
  <2>3. ASSUME NEW names \in SUBSET Fields, Home!Show(names) PROVE Owes'
    BY <2>3 DEF Home!Show, Home!TypeOK, Home!LagIsOwed
  <2>4. ASSUME NEW f \in Fields, Home!Watch(f) PROVE Owes'
    BY <2>4 DEF Home!Watch, Home!TypeOK, Home!LagIsOwed
  <2>5. CASE UNCHANGED Home!vars
    BY <2>5 DEF Home!vars, Home!TypeOK, Home!LagIsOwed
  <2> QED
    BY <2>1, <2>2, <2>3, <2>4, <2>5 DEF Home!Next
<1> QED
  BY <1>1, <1>2, PTL DEF Home!Spec
=============================================================================
