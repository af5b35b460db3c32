--------------------------- MODULE TelemetryProofs ---------------------------
(* The charging debounce of Telemetry, for every number of frames to hold,    *)
(* every set of measurements and every cut-off, and the minutes on battery,   *)
(* for every charge and every remaining time.                                 *)
EXTENDS Telemetry, TLAPS

Flag      == HasBit(last.status_flags, CHARGING)
OnBattery == HasBit(last.status_flags, ON_BATTERY)

\* What the debounce rests on: charging differs from the flag of the last frame only
\* while frames with that flag are counted, and the count is their number.
Counted ==
    /\ charging \in BOOLEAN \cup {None}
    /\ Flag \in BOOLEAN \cup {None}
    /\ hold \in 0..(HOLD - 1) \cup {None}
    /\ streak \in 0..HOLD
    /\ charging = None <=> Flag = None
    /\ Flag = None => streak = 0
    /\ charging = Flag => hold \in {0, None}
    /\ charging # Flag => streak < HOLD /\ hold \in {streak, None}
    /\ unseen <=> hold = None
    /\ unseen \in BOOLEAN
    /\ OnBattery = TRUE => charging # TRUE

\* The attributes of a frame that the proofs are about are among those it has.
LEMMA Attribute ==
    /\ "status_flags" \in DOMAIN Position
    /\ "remaining_time" \in DOMAIN Position
    /\ "battery_level" \in DOMAIN Position
<1>1. /\ Attrs[17] = "status_flags" /\ 17 \in DOMAIN Attrs
      /\ Attrs[14] = "remaining_time" /\ 14 \in DOMAIN Attrs
      /\ Attrs[5] = "battery_level" /\ 5 \in DOMAIN Attrs
  BY DEF Attrs
<1> QED
  BY <1>1 DEF Position

\* They arrive as the power board sent them, or not at all.
LEMMA AttributeArrives ==
    ASSUME NEW m \in Measurements, NEW n
    PROVE  /\ Decode(Sent(m), n).status_flags \in {m.status_flags, None}
           /\ Decode(Sent(m), n).remaining_time \in {m.remaining_time, None}
           /\ Decode(Sent(m), n).battery_level \in {ReportedLevel(m.charge), None}
<1>1. /\ Sent(m).status_flags = m.status_flags
      /\ Sent(m).remaining_time = m.remaining_time
      /\ Sent(m).battery_level = ReportedLevel(m.charge)
  BY Attribute DEF Sent
<1> QED
  BY <1>1, Attribute DEF Decode

\* A bit of flags that did not arrive is unknown.
LEMMA BitKnown ==
    ASSUME NEW flags, NEW bit
    PROVE  HasBit(flags, bit) \in BOOLEAN \cup {None}
BY DEF HasBit

\* The power board never reports charging on battery, whatever part of its frame arrives.
LEMMA NeverBoth ==
    ASSUME NEW m \in Measurements, NEW n,
           HasBit(Decode(Sent(m), n).status_flags, ON_BATTERY) = TRUE
    PROVE  HasBit(Decode(Sent(m), n).status_flags, CHARGING) = FALSE
<1> DEFINE flags == Decode(Sent(m), n).status_flags
<1>1. flags \in {m.status_flags, None}
  BY AttributeArrives
<1>2. flags # None
  BY NoneAssumption DEF HasBit
<1>3. ON_BATTERY \in m.status_flags
  BY <1>1, <1>2 DEF HasBit
<1>4. CHARGING \notin m.status_flags
  BY <1>3, FlagsAssumption
<1> QED
  BY <1>1, <1>2, <1>4 DEF HasBit

\* A frame counts on, or shows its flag.
LEMMA HoldsOrShows ==
    ASSUME NEW flags
    PROVE  LET reported == HasBit(flags, CHARGING)
               held == HoldCharging(flags)
               counts == /\ charging # None /\ reported # None /\ charging # reported
                         /\ hold # None /\ HasBit(flags, ON_BATTERY) # TRUE
                         /\ hold + 1 < HOLD
           IN  \/ counts /\ held.charging = charging /\ held.hold = hold + 1
               \/ ~counts /\ held.charging = reported /\ held.hold = 0
BY DEF HoldCharging

\* What a frame does to the count: it goes on with it, or shows its flag.
CountsOn == /\ charging # None /\ Flag' # None /\ charging # Flag'
            /\ hold # None /\ OnBattery' # TRUE /\ hold + 1 < HOLD

FrameLeaves ==
    /\ Flag' \in BOOLEAN \cup {None}
    /\ OnBattery' = TRUE => Flag' = FALSE
    /\ unseen' = FALSE
    /\ Flag' = None => streak' = 0
    /\ Flag' # None /\ Flag' # Flag => streak' = 1
    /\ Flag' # None /\ Flag' = Flag => streak' = IF streak < HOLD THEN streak + 1 ELSE HOLD
    /\ \/ CountsOn /\ charging' = charging /\ hold' = hold + 1
       \/ ~CountsOn /\ charging' = Flag' /\ hold' = 0

\* Every frame does.
LEMMA FrameEffect ==
    ASSUME Counted, NEW m \in Measurements, Frame(m)
    PROVE  FrameLeaves
<1>1. last' = Decode(Sent(m), size)
  BY DEF Frame
<1>2. Flag' = HasBit(last'.status_flags, CHARGING) /\ OnBattery' = HasBit(last'.status_flags, ON_BATTERY)
  BY DEF Flag, OnBattery
<1>3. Flag' \in BOOLEAN \cup {None}
  BY <1>2, BitKnown
<1>4. OnBattery' = TRUE => Flag' = FALSE
  BY <1>1, <1>2, NeverBoth
<1>5. unseen' = FALSE
  BY DEF Frame
<1>6. /\ charging' = HoldCharging(last'.status_flags).charging
      /\ hold' = HoldCharging(last'.status_flags).hold
  BY DEF Frame
<1>7. \/ CountsOn /\ charging' = charging /\ hold' = hold + 1
      \/ ~CountsOn /\ charging' = Flag' /\ hold' = 0
  BY <1>2, <1>6, HoldsOrShows DEF CountsOn
<1>8. /\ Flag' = None => streak' = 0
      /\ Flag' # None /\ Flag' # Flag => streak' = 1
      /\ Flag' # None /\ Flag' = Flag => streak' = IF streak < HOLD THEN streak + 1 ELSE HOLD
  BY <1>2 DEF Frame, Flag
<1> QED
  BY <1>3, <1>4, <1>5, <1>7, <1>8 DEF FrameLeaves

\* Frames keep the count.
LEMMA FrameCounts ==
    ASSUME Counted, FrameLeaves
    PROVE  Counted'
<1> USE HoldAssumption, NoneAssumption
<1>1. /\ hold \in 0..(HOLD - 1) \cup {None}
      /\ streak \in 0..HOLD
      /\ charging \in BOOLEAN \cup {None}
  BY DEF Counted
<1>2. CASE CountsOn /\ charging' = charging /\ hold' = hold + 1
  <2>1. hold \in 0..(HOLD - 1) /\ hold + 1 < HOLD /\ charging # Flag' /\ Flag' # None
    BY <1>1, <1>2 DEF CountsOn
  <2>2. streak' = hold + 1
    <3>1. CASE charging = Flag
      <4>1. hold = 0
        BY <2>1, <3>1 DEF Counted
      <4>2. streak' = 1
        BY <2>1, <3>1 DEF FrameLeaves
      <4> QED
        BY <4>1, <4>2
    <3>2. CASE charging # Flag
      <4>1. Flag' = Flag
        <5>1. Flag \in BOOLEAN /\ Flag' \in BOOLEAN /\ charging \in BOOLEAN
          BY <1>2, <2>1 DEF Counted, FrameLeaves, CountsOn
        <5> QED
          BY <5>1, <2>1, <3>2
      <4>2. hold = streak /\ streak < HOLD
        BY <2>1, <3>2 DEF Counted
      <4> QED
        BY <1>1, <2>1, <4>1, <4>2 DEF FrameLeaves
    <3> QED
      BY <3>1, <3>2
  <2>3. hold' \in 0..(HOLD - 1) /\ hold' # None /\ streak' \in 0..HOLD /\ streak' < HOLD
    BY <1>2, <2>1, <2>2
  <2>4. unseen' = FALSE /\ Flag' \in BOOLEAN \cup {None}
    BY DEF FrameLeaves
  <2>5. OnBattery' = TRUE => charging' # TRUE
    BY <1>2 DEF CountsOn
  <2>6. charging' # None /\ charging' # Flag'
    BY <1>2 DEF CountsOn
  <2> QED
    BY <1>1, <1>2, <2>1, <2>2, <2>3, <2>4, <2>5, <2>6 DEF Counted
<1>3. CASE charging' = Flag' /\ hold' = 0
  <2>1. streak' \in 0..HOLD
    BY <1>1 DEF FrameLeaves
  <2>2. unseen' = FALSE /\ hold' # None /\ hold' \in 0..(HOLD - 1)
    BY <1>3 DEF FrameLeaves
  <2>3. Flag' \in BOOLEAN \cup {None} /\ (OnBattery' = TRUE => charging' # TRUE)
    BY <1>3 DEF FrameLeaves
  <2>4. Flag' = None => streak' = 0
    BY DEF FrameLeaves
  <2> QED
    BY <1>3, <2>1, <2>2, <2>3, <2>4 DEF Counted
<1> QED
  BY <1>2, <1>3 DEF FrameLeaves

\* Nothing else touches the count, but a new session that starts it over.
LEMMA StepCounts == Counted /\ [Next]_vars => Counted'
<1> SUFFICES ASSUME Counted, [Next]_vars PROVE Counted'
  OBVIOUS
<1>1. ASSUME NEW m \in Measurements, Frame(m) PROVE Counted'
  BY <1>1, FrameEffect, FrameCounts
<1>2. ASSUME UNCHANGED <<charging, hold, last, streak, unseen>> PROVE Counted'
  BY <1>2 DEF Counted, Flag, OnBattery
<1>3. ASSUME NEW n \in Sizes, Subscribed(n) PROVE Counted'
  BY <1>2, <1>3 DEF Subscribed
<1>4. CASE Authenticated
  BY <1>4 DEF Authenticated, Counted, Flag, OnBattery
<1>5. CASE Refreshed
  BY <1>2, <1>5 DEF Refreshed
<1>6. CASE LinkDrops
  BY <1>2, <1>6 DEF LinkDrops
<1>7. CASE UNCHANGED vars
  BY <1>2, <1>7 DEF vars
<1> QED
  BY <1>1, <1>3, <1>4, <1>5, <1>6, <1>7 DEF Next

LEMMA InitCounts == Init => Counted
<1> SUFFICES ASSUME Init PROVE Counted
  OBVIOUS
<1>1. last.status_flags = None
  BY Attribute DEF Init, Nothing
<1>2. Flag = None /\ OnBattery = None
  BY <1>1 DEF Flag, OnBattery, HasBit
<1>3. charging = None /\ hold = None /\ streak = 0 /\ unseen = TRUE
  BY DEF Init
<1>4. streak \in 0..HOLD
  BY <1>3, HoldAssumption
<1>5. OnBattery # TRUE
  BY <1>2, NoneAssumption
<1> QED
  BY <1>2, <1>3, <1>4, <1>5 DEF Counted

\* The count is right in every reachable state.
THEOREM AlwaysCounted == Spec => []Counted
<1> QED
  BY InitCounts, StepCounts, PTL DEF Spec

\* Types hold: the link and the versions are never anything else than what the actions
\* of the board and the settings refresh give them.
Typed == /\ session \in {"down", "subscribed", "authenticated"}
         /\ size \in Sizes
         /\ firmware \in {None, board}
         /\ adapter \in Adapters \cup {None}

THEOREM AlwaysTyped == Spec => []TypeOK
<1>1. Init => Typed
  BY DEF Init, Typed
<1>2. Typed /\ [Next]_vars => Typed'
  <2> SUFFICES ASSUME Typed, [Next]_vars PROVE Typed'
    OBVIOUS
  <2>1. ASSUME NEW m \in Measurements, Frame(m) PROVE Typed'
    BY <2>1 DEF Frame, Typed, link, read
  <2>2. ASSUME NEW n \in Sizes, Subscribed(n) PROVE Typed'
    BY <2>2 DEF Subscribed, Typed, read
  <2>3. CASE Authenticated
    BY <2>3 DEF Authenticated, ReadVersions, Typed
  <2>4. CASE Refreshed
    BY <2>4 DEF Refreshed, ReadVersions, Typed, link
  <2>5. CASE LinkDrops
    BY <2>5 DEF LinkDrops, Typed, read
  <2>6. CASE UNCHANGED vars
    BY <2>6 DEF vars, Typed, link, read
  <2> QED
    BY <2>1, <2>2, <2>3, <2>4, <2>5, <2>6 DEF Next
<1>3. Typed /\ Counted => TypeOK
  BY DEF Typed, Counted, TypeOK, Flag
<1> QED
  BY <1>1, <1>2, <1>3, AlwaysCounted, PTL DEF Spec

\* A flag that lasted is shown, and charging ends on battery, for every HOLD.
THEOREM LastedAlwaysShown == Spec => []LastedIsShown
<1>1. Counted => LastedIsShown
  <2> SUFFICES ASSUME Counted PROVE LastedIsShown
    OBVIOUS
  <2>1. streak = HOLD => charging = Flag
    BY HoldAssumption DEF Counted
  <2>2. OnBattery = TRUE => charging # TRUE
    BY DEF Counted
  <2> QED
    BY <2>1, <2>2 DEF LastedIsShown, Flag, OnBattery
<1> QED
  BY <1>1, AlwaysCounted, PTL

\* Charging turns only when a change lasted, with a first frame or on battery.
THEOREM ChargingAlwaysLasted == Spec => ChargingLasted
<1> DEFINE Lasts ==
      LET flag == HasBit(last'.status_flags, CHARGING)
      IN /\ charging # None /\ charging' \notin {charging, None} =>
              unseen \/ HasBit(last'.status_flags, ON_BATTERY) \/ streak' = HOLD
         /\ unseen /\ ~unseen' => charging' = flag
<1>1. ASSUME Counted, NEW m \in Measurements, Frame(m) PROVE Lasts
  <2>0. FrameLeaves
    BY <1>1, FrameEffect
  <2>1. ASSUME charging # None, charging' \notin {charging, None}, ~unseen, OnBattery' # TRUE
        PROVE  streak' = HOLD
    <3>1. hold # None /\ hold \in 0..(HOLD - 1) /\ streak \in 0..HOLD
      BY <1>1, <2>1 DEF Counted
    <3>2. charging' = Flag' /\ ~CountsOn
      BY <2>0, <2>1 DEF FrameLeaves
    <3>3. hold = HOLD - 1
      <4>1. Flag' # None /\ charging # Flag'
        BY <2>1, <3>2
      <4>2. ~(hold + 1 < HOLD)
        BY <2>1, <3>1, <3>2, <4>1 DEF CountsOn
      <4> QED
        BY <3>1, <4>2, HoldAssumption
    <3>4. CASE charging = Flag
      <4>1. HOLD = 1
        BY <1>1, <3>1, <3>3, <3>4, HoldAssumption DEF Counted
      <4>2. streak' = 1
        BY <2>0, <2>1, <3>2, <3>4 DEF FrameLeaves
      <4> QED
        BY <4>1, <4>2
    <3>5. CASE charging # Flag
      <4>1. Flag' = Flag
        <5>1. Flag \in BOOLEAN /\ Flag' \in BOOLEAN /\ charging \in BOOLEAN
          BY <1>1, <2>0, <2>1, <3>2 DEF Counted, FrameLeaves
        <5> QED
          BY <5>1, <2>1, <3>2, <3>5
      <4>2. streak = HOLD - 1
        BY <1>1, <3>1, <3>3, <3>5 DEF Counted
      <4> QED
        BY <2>0, <2>1, <3>2, <4>1, <4>2, HoldAssumption DEF FrameLeaves
    <3> QED
      BY <3>4, <3>5
  <2>2. ASSUME unseen PROVE charging' = Flag'
    BY <1>1, <2>0, <2>2 DEF Counted, FrameLeaves, CountsOn
  <2> QED
    BY <2>1, <2>2 DEF Flag, OnBattery
<1>2. ASSUME charging' = charging, unseen' = unseen \/ unseen' = TRUE PROVE Lasts
  BY <1>2
<1>3. Counted /\ [Next]_vars => [Lasts]_vars
  <2> SUFFICES ASSUME Counted, Next PROVE Lasts
    OBVIOUS
  <2>1. ASSUME NEW n \in Sizes, Subscribed(n) PROVE Lasts
    BY <1>2, <2>1 DEF Subscribed
  <2>2. CASE Authenticated
    BY <1>2, <2>2 DEF Authenticated
  <2>3. CASE Refreshed
    BY <1>2, <2>3 DEF Refreshed
  <2>4. CASE LinkDrops
    BY <1>2, <2>4 DEF LinkDrops
  <2> QED
    BY <1>1, <2>1, <2>2, <2>3, <2>4 DEF Next
<1> QED
  BY <1>3, AlwaysCounted, PTL DEF Spec, ChargingLasted

-----------------------------------------------------------------------------
\* A whole quotient falls short by less than one.
LEMMA Quotient ==
    ASSUME NEW a \in Int, NEW d \in Nat \ {0}
    PROVE  /\ a \div d \in Int
           /\ d * (a \div d) <= a
           /\ a < d * (a \div d) + d
OBVIOUS

\* max() of two numbers.
LEMMA LargerOfTwo ==
    ASSUME NEW a \in Int, NEW b \in Int
    PROVE  Max({a, b}) = IF a >= b THEN a ELSE b
<1>1. \E x \in {a, b} : \A y \in {a, b} : x >= y
  OBVIOUS
<1>2. Max({a, b}) \in {a, b} /\ \A y \in {a, b} : Max({a, b}) >= y
  BY <1>1 DEF Max
<1> QED
  BY <1>2

\* The seconds t that a charge of c lasts, less those after the cutoff, are m whole
\* minutes: the load takes c from the battery in t seconds.
LEMMA MinutesFit ==
    ASSUME NEW t \in Nat, NEW c \in Nat \ {0}, NEW cut \in Nat, NEW m,
           m = (t + ((-(t * cut)) \div c)) \div 60
    PROVE  /\ m \in Int
           /\ c * (60 * m) <= c * t - t * cut
           /\ c * t - t * cut < c * (60 * m + 60)
<1> DEFINE q == (-(t * cut)) \div c
           s == t + q
<1>0. t * cut \in Int /\ c * t \in Int
  OBVIOUS
<1>1. q \in Int /\ c * q <= -(t * cut) /\ -(t * cut) < c * q + c
  BY <1>0, Quotient
<1> HIDE DEF q
<1>2. s \in Int
  BY <1>1
<1>3. m \in Int /\ 60 * m <= s /\ s + 1 <= 60 * m + 60
  <2>1. m = s \div 60
    BY DEF q
  <2> HIDE DEF s
  <2>2. m \in Int /\ 60 * m <= s /\ s < 60 * m + 60
    BY <1>2, <2>1, Quotient
  <2> QED
    BY <1>2, <2>2
<1>4. c * s = c * t + c * q /\ c * (s + 1) = c * t + c * q + c
  BY <1>1
<1> HIDE DEF s
<1>5. c * (60 * m) <= c * s
  BY <1>2, <1>3
<1>6. c * (s + 1) <= c * (60 * m + 60)
  BY <1>2, <1>3
<1> QED
  BY <1>0, <1>1, <1>3, <1>4, <1>5, <1>6

\* What a charge of c leaves at the cutoff after k seconds, a larger one leaves too, and
\* where c falls short a smaller one does as well.
LEMMA Monotone ==
    ASSUME NEW t \in Nat, NEW cut \in Nat \ {0}, t > 0, NEW c \in Nat, NEW k \in Int,
           NEW other \in Nat
    PROVE  /\ c * k <= c * t - t * cut /\ c <= other => other * k <= other * t - t * cut
           /\ c * t - t * cut < c * k /\ other <= c => other * t - t * cut < other * k
<1> DEFINE r == t - k
<1>1. r \in Int /\ t * cut > 0
  OBVIOUS
<1>2. /\ c * t - c * k = c * r
      /\ other * t - other * k = other * r
  OBVIOUS
<1>3. /\ c * t \in Int /\ c * k \in Int /\ other * t \in Int /\ other * k \in Int
      /\ t * cut \in Int /\ c * r \in Int /\ other * r \in Int
  BY <1>1
<1> HIDE DEF r
<1>4. ASSUME c * r >= t * cut, c <= other PROVE other * r >= t * cut
  <2>1. r > 0
    BY <1>1, <1>4
  <2>2. other * r >= c * r
    BY <1>1, <1>4, <2>1
  <2> QED
    BY <1>3, <1>4, <2>2
<1>5. ASSUME c * r < t * cut, other <= c PROVE other * r < t * cut
  <2>1. CASE r <= 0
    <3>1. other * r <= 0
      BY <1>1, <2>1
    <3> QED
      BY <1>1, <1>3, <3>1
  <2>2. CASE r > 0
    <3>1. other * r <= c * r
      BY <1>1, <1>5, <2>2
    <3> QED
      BY <1>3, <1>5, <3>1
  <2> QED
    BY <1>1, <2>1, <2>2
<1> QED
  BY <1>2, <1>3, <1>4, <1>5

\* Minutes that are computed from a charge c in 0.002 %, which exceeds the x of the
\* power board, in 0.1 %, only below the cutoff and falls short of it by less than 0.1 %.
LEMMA MinutesEnd ==
    ASSUME NEW t \in Nat \ {0}, NEW x \in Nat, NEW off \in Nat \ {0},
           NEW c \in Nat, c <= 50 * x \/ c <= 5 * off, 50 * x - 50 <= c,
           NEW m,
           m = IF c <= 5 * off THEN 0 ELSE (t + ((-(t * (5 * off))) \div c)) \div 60
    PROVE  /\ m \in Int
           /\ m = 0 \/ t * (10 * x - off) >= 60 * m * (10 * x)
           /\ 10 * x - 10 > off =>
                  ~(t * ((10 * x - 10) - off) >= 60 * (m + 1) * (10 * x - 10))
<1>1. CASE c <= 5 * off
  BY <1>1
<1>2. CASE c > 5 * off
  <2> DEFINE cut == 5 * off
             high == 50 * x
             low == 50 * x - 50
  <2>0. /\ cut \in Nat \ {0} /\ c \in Nat \ {0} /\ high \in Nat /\ t \in Nat
        /\ c <= high /\ low <= c
        /\ m = (t + ((-(t * cut)) \div c)) \div 60
    BY <1>2
  <2> HIDE DEF cut, high, low
  <2>1. /\ m \in Int
        /\ c * (60 * m) <= c * t - t * cut
        /\ c * t - t * cut < c * (60 * m + 60)
    BY <2>0, MinutesFit
  <2>2. t * (10 * x - off) >= 60 * m * (10 * x)
    <3>0. 60 * m \in Int
      BY <2>1
    <3>1. high * (60 * m) <= high * t - t * cut
      BY <2>0, <2>1, <3>0, Monotone
    <3>2. /\ high * (60 * m) = 5 * (60 * m * (10 * x))
          /\ high * t - t * cut = 5 * (t * (10 * x - off))
      BY <2>1 DEF high, cut
    <3>3. 60 * m * (10 * x) \in Int /\ t * (10 * x - off) \in Int
      BY <2>1
    <3> HIDE <2>1
    <3> QED
      BY <3>1, <3>2, <3>3
  <2>3. ASSUME 10 * x - 10 > off
        PROVE  t * ((10 * x - 10) - off) < 60 * (m + 1) * (10 * x - 10)
    <3>0. low \in Nat /\ 60 * m + 60 \in Int
      BY <2>1, <2>3 DEF low
    <3>1. low * t - t * cut < low * (60 * m + 60)
      BY <2>0, <2>1, <3>0, Monotone
    <3>2. /\ low * (60 * m + 60) = 5 * (60 * (m + 1) * (10 * x - 10))
          /\ low * t - t * cut = 5 * (t * ((10 * x - 10) - off))
      BY <2>1 DEF low, cut
    <3>3. 60 * (m + 1) * (10 * x - 10) \in Int /\ t * ((10 * x - 10) - off) \in Int
      BY <2>1
    <3> QED
      BY <3>1, <3>2, <3>3
  <2> QED
    BY <2>1, <2>2, <2>3
<1> QED
  BY <1>1, <1>2

\* The level of either firmware stands for such a charge.
LEMMA LevelFits ==
    ASSUME board \in {28, 29}, firmware = board, NEW x \in Nat, NEW level,
           level = ReportedLevel(x)
    PROVE  LET c == Charge(level) \div 20
           IN c \in Nat /\ (c <= 50 * x \/ c <= Cutoff \div 20) /\ 50 * x - 50 <= c
<1>1. CASE board = 28
  BY <1>1 DEF ReportedLevel, Charge, LEVEL_ABOVE_RESERVE_FIRMWARE, RESERVE_CAPACITY
<1>2. CASE board = 29
  <2>1. Max({0, x - 180}) = IF 0 >= x - 180 THEN 0 ELSE x - 180
    BY LargerOfTwo
  <2>2. level = IF x <= 180 THEN 0 ELSE (1000 * (x - 180)) \div 820
    BY <1>2, <2>1 DEF ReportedLevel, LEVEL_ABOVE_RESERVE_FIRMWARE, RESERVE_CAPACITY
  <2>3. level \in Nat /\ (Charge(level) \div 20) = 9000 + 41 * level /\ Cutoff \div 20 = 9410
    BY <1>2, <2>2 DEF Charge, LEVEL_ABOVE_RESERVE_FIRMWARE, RESERVE_CAPACITY, Cutoff, CUTOFF_LEVEL_ABOVE_RESERVE
  <2>4. CASE x <= 180
    BY <2>2, <2>3, <2>4
  <2>5. CASE x > 180
    <3>1. 820 * level <= 1000 * (x - 180) /\ 1000 * (x - 180) < 820 * level + 820
      BY <2>2, <2>5, Quotient
    <3> QED
      BY <2>3, <2>5, <3>1
  <2> QED
    BY <2>4, <2>5
<1> QED
  BY <1>1, <1>2

\* What is known where minutes are.
LEMMA MinutesOf ==
    ASSUME NEW d, MinutesUntilOutputOff(d) # None
    PROVE  LET c == Charge(d.battery_level) \div 20
               cut == Cutoff \div 20
           IN /\ d.remaining_time \notin {None, 0}
              /\ d.battery_level # None
              /\ firmware # None
              /\ MinutesUntilOutputOff(d) =
                    IF c <= cut THEN 0
                    ELSE (d.remaining_time + ((-(d.remaining_time * cut)) \div c)) \div 60
<1>1. /\ d.remaining_time \notin {None} \cup RUNTIME_UNKNOWN
      /\ d.battery_level # None
      /\ firmware # None
  BY DEF MinutesUntilOutputOff
<1>2. LET c == Charge(d.battery_level) \div 20
          cut == Cutoff \div 20
      IN MinutesUntilOutputOff(d) =
                    IF c <= cut THEN 0
                    ELSE (d.remaining_time + ((-(d.remaining_time * cut)) \div c)) \div 60
  BY DEF MinutesUntilOutputOff
<1>3. 0 \in RUNTIME_UNKNOWN
  BY DEF RUNTIME_UNKNOWN
<1> QED
  BY <1>1, <1>2, <1>3

\* The versions of the power board, and what the device makes of them.
Versions == /\ board \in {28, 29}
            /\ firmware \in {None, board}

\* Minutes that are computed from what is left of a frame reach the cutoff, for a device
\* that knows the firmware.
LEMMA MinutesRight ==
    ASSUME Versions, NEW x \in Nat, NEW d,
           d.remaining_time \in Nat \cup {None},
           d.battery_level \in {ReportedLevel(x), None},
           NEW minutes, minutes = MinutesUntilOutputOff(d), minutes # None,
           NEW off, off = IF firmware < LEVEL_ABOVE_RESERVE_FIRMWARE THEN 1800 ELSE 1882
    PROVE  /\ minutes = 0 \/ d.remaining_time * (10 * x - off) >= 60 * minutes * (10 * x)
           /\ 10 * x - 10 > off =>
                  ~(d.remaining_time * ((10 * x - 10) - off)
                        >= 60 * (minutes + 1) * (10 * x - 10))
<1>1. PICK c, cut, t :
          /\ c = Charge(d.battery_level) \div 20 /\ cut = Cutoff \div 20
          /\ t = d.remaining_time
  OBVIOUS
<1>2. /\ t \notin {None, 0} /\ d.battery_level # None /\ firmware # None
      /\ minutes = IF c <= cut THEN 0 ELSE (t + ((-(t * cut)) \div c)) \div 60
  BY <1>1, MinutesOf
<1>3. firmware = board /\ board \in {28, 29}
  BY <1>2 DEF Versions
<1>4. t \in Nat \ {0}
  BY <1>1, <1>2
<1>5. cut = 5 * off /\ off \in Nat \ {0}
  BY <1>1, <1>3 DEF Cutoff, Charge, RESERVE_CAPACITY, CUTOFF_LEVEL_ABOVE_RESERVE,
                    LEVEL_ABOVE_RESERVE_FIRMWARE
<1>6. c \in Nat /\ (c <= 50 * x \/ c <= cut) /\ 50 * x - 50 <= c
  BY <1>1, <1>2, <1>3, LevelFits
<1>7. minutes = IF c <= 5 * off THEN 0 ELSE (t + ((-(t * (5 * off))) \div c)) \div 60
  BY <1>2, <1>5
<1>8. /\ minutes = 0 \/ t * (10 * x - off) >= 60 * minutes * (10 * x)
      /\ 10 * x - 10 > off =>
             ~(t * ((10 * x - 10) - off) >= 60 * (minutes + 1) * (10 * x - 10))
  BY <1>4, <1>5, <1>6, <1>7, MinutesEnd
<1> QED
  BY <1>1, <1>8

\* Every frame leaves such minutes, or none.
LEMMA FrameMinutes ==
    ASSUME Versions, NEW m \in Measurements, Frame(m)
    PROVE  MinutesReachCutoff'
<1>1. /\ last' = Decode(Sent(m), size)
      /\ derived' = Derived
      /\ from' = [charge |-> m.charge, firmware |-> firmware]
  BY DEF Frame
<1>2. derived'.remaining_time_discharging = MinutesUntilOutputOff(last')
  BY <1>1 DEF Derived
<1>3. from'.charge = m.charge /\ from'.firmware = firmware
  BY <1>1
<1>4. m.charge \in Nat /\ m.remaining_time \in Nat
  BY MeasurementsAssumption
<1>5. /\ last'.remaining_time \in Nat \cup {None}
      /\ last'.battery_level \in {ReportedLevel(m.charge), None}
  BY <1>1, <1>4, AttributeArrives
<1> QED
  BY <1>2, <1>3, <1>4, <1>5, MinutesRight DEF MinutesReachCutoff

\* The minutes shown on battery end before the output does and fall short by less than a
\* minute and a step of the level (_minutes_until_output_off).
THEOREM MinutesAlwaysReachCutoff == Spec => []MinutesReachCutoff
<1>1. Init => Versions /\ MinutesReachCutoff
  BY DEF Init, Versions, Unknown, MinutesReachCutoff, LEVEL_ABOVE_RESERVE_FIRMWARE
<1>2. ASSUME UNCHANGED <<derived, last, from>>, MinutesReachCutoff
      PROVE  MinutesReachCutoff'
  BY <1>2 DEF MinutesReachCutoff
<1>3. Versions /\ MinutesReachCutoff /\ [Next]_vars => (Versions /\ MinutesReachCutoff)'
  <2> SUFFICES ASSUME Versions, MinutesReachCutoff, [Next]_vars
               PROVE  (Versions /\ MinutesReachCutoff)'
    OBVIOUS
  <2>1. ASSUME NEW m \in Measurements, Frame(m) PROVE (Versions /\ MinutesReachCutoff)'
    BY <2>1, FrameMinutes DEF Frame, Versions, read
  <2>2. ASSUME NEW n \in Sizes, Subscribed(n) PROVE (Versions /\ MinutesReachCutoff)'
    BY <1>2, <2>2 DEF Subscribed, Versions, read
  <2>3. CASE Authenticated
    BY <1>2, <2>3 DEF Authenticated, ReadVersions, Versions
  <2>4. CASE Refreshed
    BY <1>2, <2>4 DEF Refreshed, ReadVersions, Versions
  <2>5. CASE LinkDrops
    BY <1>2, <2>5 DEF LinkDrops, Versions, read
  <2>6. CASE UNCHANGED vars
    BY <1>2, <2>6 DEF vars, Versions, read
  <2> QED
    BY <2>1, <2>2, <2>3, <2>4, <2>5, <2>6 DEF Next
<1> QED
  BY <1>1, <1>3, PTL DEF Spec

-----------------------------------------------------------------------------
(* The powers.                                                                *)

Factors == {"dc_output_voltage", "dc_output_current", "battery_voltage", "battery_current"}

\* Frames of n bytes carry the attribute.
Carries(n, a) == Position[a] <= FieldsFitting[PayloadSize(n)]

LEMMA FactorsAreAttributes == Factors \subseteq DOMAIN Position
<1>1. /\ Attrs[3] = "dc_output_voltage" /\ 3 \in DOMAIN Attrs
      /\ Attrs[4] = "dc_output_current" /\ 4 \in DOMAIN Attrs
      /\ Attrs[6] = "battery_voltage" /\ 6 \in DOMAIN Attrs
      /\ Attrs[11] = "battery_current" /\ 11 \in DOMAIN Attrs
  BY DEF Attrs
<1> QED
  BY <1>1 DEF Position, Factors

LEMMA FactorArrives ==
    ASSUME NEW m \in Measurements, NEW n, NEW a \in Factors, m[a] # None
    PROVE  Decode(Sent(m), n)[a] # None <=> Carries(n, a)
<1>1. Sent(m)[a] = m[a]
  BY FactorsAreAttributes DEF Sent, Factors
<1> QED
  BY <1>1, FactorsAreAttributes DEF Decode, Carries

\* Powers are ever left from an earlier link (PowersAreCurrent) only because one link carries
\* a factor and another does not: where all carry the same ones, the powers shown are those
\* of the last frame (data_parse).
THEOREM PowersCurrentOnLikeLinks ==
    ASSUME \A a \in Factors : \A n1, n2 \in Sizes : Carries(n1, a) <=> Carries(n2, a),
           \A m \in Measurements : \A a \in Factors : m[a] # None
    PROVE  Spec => []PowersAreCurrent
<1> DEFINE Carried == \A a \in Factors : last[a] # None => \A n \in Sizes : Carries(n, a)
           Right == PowersAreCurrent /\ Carried
<1>1. Init => Right
  <2>1. ASSUME Init PROVE \A a \in Factors : last[a] = None
    BY <2>1, FactorsAreAttributes DEF Init, Nothing
  <2> QED
    BY <2>1 DEF Init, PowersAreCurrent
<1>2. TypeOK /\ Right /\ [Next]_vars => Right'
  <2> SUFFICES ASSUME TypeOK, Right, [Next]_vars PROVE Right'
    OBVIOUS
  <2>1. ASSUME NEW m \in Measurements, Frame(m) PROVE Right'
    <3>1. last' = Decode(Sent(m), size) /\ size \in Sizes
      BY <2>1 DEF Frame, TypeOK
    <3>2. \A a \in Factors : last'[a] # None <=> Carries(size, a)
      BY <3>1, FactorArrives
    <3>3. Carried'
      BY <3>1, <3>2
    <3>4. ASSUME NEW a \in Factors, last[a] # None PROVE last'[a] # None
      BY <3>1, <3>2, <3>4
    <3>5. /\ powers'.output_power = Product(last', "dc_output_voltage", "dc_output_current",
                                            powers.output_power)
          /\ powers'.battery_power = Product(last', "battery_voltage", "battery_current",
                                             powers.battery_power)
      BY <2>1 DEF Frame
    <3>6. powers'.output_power # None =>
              Known(last', {"dc_output_voltage", "dc_output_current"})
      BY <3>4, <3>5 DEF Product, Known, PowersAreCurrent, Factors
    <3>7. powers'.battery_power # None =>
              Known(last', {"battery_voltage", "battery_current"})
      BY <3>4, <3>5 DEF Product, Known, PowersAreCurrent, Factors
    <3> QED
      BY <3>3, <3>6, <3>7 DEF PowersAreCurrent
  <2>2. ASSUME UNCHANGED <<powers, last>> PROVE Right'
    BY <2>2 DEF PowersAreCurrent
  <2>3. CASE ~ \E m \in Measurements : Frame(m)
    BY <2>2, <2>3 DEF Next, Subscribed, Authenticated, Refreshed, LinkDrops, vars
  <2> QED
    BY <2>1, <2>3
<1> QED
  BY <1>1, <1>2, AlwaysTyped, PTL DEF Spec
=============================================================================
