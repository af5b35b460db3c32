----------------------------- MODULE Telemetry ------------------------------
(***************************************************************************)
(* What the W150 makes of a telemetry frame (wclib/devices/w150.py         *)
(* data_parse): partial decoding, the debounce of the charging flag, and   *)
(* the values that are computed from several fields of a frame.            *)
(*                                                                         *)
(* A device object outlives its links: a setup that fails keeps it, and    *)
(* the next attempt may go through an adapter that cuts frames off earlier.*)
(***************************************************************************)
EXTENDS Integers, FiniteSetsExt

CONSTANTS None,          \* a value the device does not know
          HOLD,          \* _CHARGING_HOLD_FRAMES
          Measurements,  \* measurement blocks the power board may send, see Sent
          Sizes,         \* bytes of a frame that a link may carry
          Adapters       \* adapter voltages in mV

\* status flags
CHARGING    == 7
ON_BATTERY  == 8
INPUT_POWER == 10

\* the UPS counts as charging only while it is not on battery (docs/ble-protocol.md:273)
ASSUME NoneAssumption == None \notin BOOLEAN \cup Nat
ASSUME HoldAssumption == HOLD \in Nat \ {0}
ASSUME FlagsAssumption == \A m \in Measurements : ~({CHARGING, ON_BATTERY} \subseteq m.status_flags)
ASSUME MeasurementsAssumption ==
    \A m \in Measurements : m.charge \in Nat /\ m.remaining_time \in Nat

VARIABLES
    session,   \* of the link: frames arrive once telemetry is subscribed
    size,      \* bytes of each frame of the link
    charging,  \* the field
    hold,      \* _charging_hold
    powers,    \* output_power and battery_power
    derived,   \* the other fields computed from a frame
    firmware,  \* power_board_firmware_version of the device
    adapter,   \* adapter_voltage of the device, in mV
    board,     \* the firmware the power board has
    last,      \* what was decoded from the last frame
    from,      \* history: the measurement and the versions behind the last frame
    streak,    \* history: last frames in a row with the same charging flag, up to HOLD
    unseen     \* history: no frame arrived since the last AUTHENTICATED

link    == <<session, size>>
read    == <<firmware, adapter, board>>
vars    == <<link, charging, hold, powers, derived, read, last, from, streak, unseen>>

-----------------------------------------------------------------------------
(* wclib/packet.py and wclib/model: a frame that was cut off leaves the       *)
(* fields that do not fit unknown                                             *)

Attrs == <<"dc_input_voltage", "dc_input_current", "dc_output_voltage",
           "dc_output_current", "battery_level", "battery_voltage",
           "cell_voltage_1", "cell_voltage_2", "cell_voltage_3", "cell_voltage_4",
           "battery_current", "temperature", "battery_cycles", "remaining_time",
           "energy_total", "fault_flags", "status_flags">>

Position == [a \in {Attrs[i] : i \in DOMAIN Attrs} |-> CHOOSE i \in DOMAIN Attrs : Attrs[i] = a]

\* bytes of the first attributes; energy_total and fault_flags have 32 bits
Calcsize(count) == 2 * (count + Cardinality({15, 16} \cap (1..count)))

HEADER_SIZE == 2
SIZE == HEADER_SIZE + Calcsize(17)

\* shorter frames are errors of the connection
ASSUME SizesAssumption == Sizes \subseteq Nat /\ \A n \in Sizes : n > HEADER_SIZE

FieldsFitting == [n \in 0..(SIZE - HEADER_SIZE) |-> Max({count \in 0..17 : Calcsize(count) <= n})]

\* what follows the header of a frame cut off after n bytes
PayloadSize(n) == Min({n, SIZE}) - HEADER_SIZE

Decode(block, n) ==
    LET fitting == FieldsFitting[PayloadSize(n)]
    IN [a \in DOMAIN Position |-> IF Position[a] <= fitting THEN block[a] ELSE None]

HasBit(flags, bit) == IF flags = None THEN None ELSE bit \in flags

Known(t, attrs) == \A a \in attrs : t[a] # None

-----------------------------------------------------------------------------
(* values computed from a frame                                               *)

Cells == {"cell_voltage_1", "cell_voltage_2", "cell_voltage_3", "cell_voltage_4"}

CellVoltageDifference(t) ==
    IF Known(t, Cells) THEN Max({t[c] : c \in Cells}) - Min({t[c] : c \in Cells}) ELSE None

\* in 0.1 %, rounded; (1500 - cycles) / 14 has no ties at that precision
BatteryHealth(cycles) ==
    IF cycles = None THEN None ELSE Max({0, Min({1000, (15007 - 10 * cycles) \div 14})})

OVER_VOLTAGE_MARGIN == 2000

InputOverVoltage(t) ==
    CASE ~Known(t, {"fault_flags", "status_flags"}) -> None
      [] Known(t, {"fault_flags", "status_flags"}) ->
            \/ HasBit(t.fault_flags, 10)
            \/ /\ adapter # None /\ t.dc_output_voltage # None
               /\ HasBit(t.status_flags, INPUT_POWER)
               /\ t.dc_output_voltage >= adapter + OVER_VOLTAGE_MARGIN

RESERVE_CAPACITY == 180
CUTOFF_LEVEL_ABOVE_RESERVE == 10
LEVEL_ABOVE_RESERVE_FIRMWARE == 29
RUNTIME_UNKNOWN == {65535, 0}

\* slip: the level of every firmware counts the whole charge
WholeCharge(level) == 1000 * level

\* in 0.0001 %: the charge that a level stands for
Charge(level) ==
    IF firmware >= LEVEL_ABOVE_RESERVE_FIRMWARE
    THEN 1000 * RESERVE_CAPACITY + level * (1000 - RESERVE_CAPACITY)
    ELSE 1000 * level

Cutoff == IF firmware >= LEVEL_ABOVE_RESERVE_FIRMWARE
          THEN Charge(CUTOFF_LEVEL_ABOVE_RESERVE) ELSE Charge(RESERVE_CAPACITY)

\* exact; the code's floating point is one minute lower for 16 pairs of level and time.
\* Charges are multiples of 20, by which they are divided, and the seconds left at the
\* cutoff are taken off, so that the numbers stay within TLC's integers.
MinutesUntilOutputOff(t) ==
    IF \/ HasBit(t.status_flags, ON_BATTERY) # TRUE
       \/ t.remaining_time \in {None} \cup RUNTIME_UNKNOWN
       \/ t.battery_level = None
       \/ firmware = None
    THEN None
    ELSE LET charge == Charge(t.battery_level) \div 20
             cutoff == Cutoff \div 20
         IN IF charge <= cutoff THEN 0
            ELSE (t.remaining_time + ((-(t.remaining_time * cutoff)) \div charge)) \div 60

\* slip: a toggling flag does not start the count again
HoldChargingUncleared(flags) ==
    LET reported == HasBit(flags, CHARGING)
    IN IF charging # None /\ reported # None /\ hold # None /\ hold + 1 < HOLD
             /\ HasBit(flags, ON_BATTERY) # TRUE
       THEN [charging |-> charging, hold |-> IF charging = reported THEN hold ELSE hold + 1]
       ELSE [charging |-> reported, hold |-> 0]

\* slip: one frame too many
HoldChargingLonger(flags) ==
    LET reported == HasBit(flags, CHARGING)
    IN IF /\ charging # None /\ reported # None /\ charging # reported
          /\ hold # None /\ HasBit(flags, ON_BATTERY) # TRUE /\ hold < HOLD
       THEN [charging |-> charging, hold |-> hold + 1]
       ELSE [charging |-> reported, hold |-> 0]

HoldCharging(flags) ==
    LET reported == HasBit(flags, CHARGING)
        differs  == /\ charging # None /\ reported # None /\ charging # reported
                    /\ hold # None
                    /\ HasBit(flags, ON_BATTERY) # TRUE
    IN IF differs /\ hold + 1 < HOLD
       THEN [charging |-> charging, hold |-> hold + 1]
       ELSE [charging |-> reported, hold |-> 0]

\* output_power and battery_power, in uW; a missing factor leaves the earlier product
Product(t, voltage, current, earlier) ==
    IF Known(t, {voltage, current}) THEN t[voltage] * t[current] ELSE earlier

-----------------------------------------------------------------------------
(* external: the power board. Its level counts the charge above the reserve   *)
(* from LEVEL_ABOVE_RESERVE_FIRMWARE on; m.charge is the whole, in 0.1 %       *)

ReportedLevel(charge) ==
    IF board < LEVEL_ABOVE_RESERVE_FIRMWARE THEN charge
    ELSE (1000 * Max({0, charge - RESERVE_CAPACITY})) \div (1000 - RESERVE_CAPACITY)

Sent(m) == [a \in DOMAIN Position |->
                IF a = "battery_level" THEN ReportedLevel(m.charge) ELSE m[a]]

Nothing == [a \in DOMAIN Position |-> None]

Derived == [cell_voltage_difference |-> CellVoltageDifference(last'),
            battery_health |-> BatteryHealth(last'.battery_cycles),
            input_over_voltage |-> InputOverVoltage(last'),
            remaining_time_discharging |-> MinutesUntilOutputOff(last')]

Unknown == [cell_voltage_difference |-> None, battery_health |-> None,
            input_over_voltage |-> None, remaining_time_discharging |-> None]

Init ==
    /\ session = "down"
    /\ size \in Sizes
    /\ charging = None
    /\ hold = None
    /\ powers = [output_power |-> None, battery_power |-> None]
    /\ derived = Unknown
    /\ firmware = None
    /\ adapter = None
    /\ board \in {LEVEL_ABOVE_RESERVE_FIRMWARE - 1, LEVEL_ABOVE_RESERVE_FIRMWARE}
    /\ last = Nothing
    /\ from = [charge |-> None, firmware |-> None]
    /\ streak = 0
    /\ unseen = TRUE

\* data_parse; the frame's event byte is left to Publication
Frame(m) ==
    LET held == HoldCharging(last'.status_flags)
        flag == HasBit(last'.status_flags, CHARGING)
    IN
    /\ session # "down"
    /\ last' = Decode(Sent(m), size)
    /\ powers' = [output_power |-> Product(last', "dc_output_voltage", "dc_output_current",
                                           powers.output_power),
                  battery_power |-> Product(last', "battery_voltage", "battery_current",
                                            powers.battery_power)]
    /\ derived' = Derived
    /\ charging' = held.charging
    /\ hold' = held.hold
    /\ from' = [charge |-> m.charge, firmware |-> firmware]
    /\ streak' = IF flag = None THEN 0
                 ELSE IF flag # HasBit(last.status_flags, CHARGING) THEN 1
                 ELSE IF streak < HOLD THEN streak + 1 ELSE HOLD
    /\ unseen' = FALSE
    /\ UNCHANGED <<link, read>>

\* a link that has subscribed to telemetry; frames may precede the session
Subscribed(n) ==
    /\ session = "down"
    /\ session' = "subscribed"
    /\ size' = n
    /\ UNCHANGED <<charging, hold, powers, derived, read, last, from, streak, unseen>>

\* zeros of a front panel that did not get the versions yet are not known
ReadVersions == firmware' \in {None, board}

\* _restart_charging_hold and info_parse
Authenticated ==
    /\ session = "subscribed"
    /\ session' = "authenticated"
    /\ hold' = None
    /\ unseen' = TRUE
    /\ ReadVersions
    /\ UNCHANGED <<size, charging, powers, derived, adapter, board, last, from, streak>>

\* _read_info and _read_adapter of the settings refresh
Refreshed ==
    /\ session = "authenticated"
    /\ \/ ReadVersions /\ UNCHANGED adapter
       \/ adapter' \in Adapters \cup {None} /\ UNCHANGED firmware
    /\ UNCHANGED <<link, charging, hold, powers, derived, board, last, from, streak, unseen>>

LinkDrops ==
    /\ session # "down"
    /\ session' = "down"
    /\ UNCHANGED <<size, charging, hold, powers, derived, read, last, from, streak, unseen>>

Next ==
    \/ \E m \in Measurements : Frame(m)
    \/ \E n \in Sizes : Subscribed(n)
    \/ Authenticated \/ Refreshed \/ LinkDrops

Spec == Init /\ [][Next]_vars

-----------------------------------------------------------------------------
TypeOK ==
    /\ session \in {"down", "subscribed", "authenticated"}
    /\ size \in Sizes
    /\ charging \in BOOLEAN \cup {None}
    /\ hold \in 0..(HOLD - 1) \cup {None}
    /\ streak \in 0..HOLD
    /\ firmware \in {None, board}
    /\ adapter \in Adapters \cup {None}
    /\ HasBit(last.status_flags, CHARGING) \in BOOLEAN \cup {None}

\* docs/entities.md:50: a change of charging shows once it lasted. The field turns only
\* after HOLD frames in a row with the new flag, with the first frame after AUTHENTICATED,
\* or when the UPS switches to battery: toggling flags and links that end early never add
\* up to a change. A frame without flags makes it unknown, and the next one with flags is
\* taken as it is, which the property leaves out. So is that first frame: what was
\* shown before the link was lost is not held on to. It need not belong to the session:
\* one that ends before its first frame leaves it to the frames that precede the next.
ChargingLasted ==
    [][LET flag == HasBit(last'.status_flags, CHARGING)
       IN /\ charging # None /\ charging' \notin {charging, None} =>
               unseen \/ HasBit(last'.status_flags, ON_BATTERY) \/ streak' = HOLD
          /\ unseen /\ ~unseen' => charging' = flag]_vars

\* A flag that lasted is shown, whatever sessions began meanwhile: the debounce never
\* sticks. On battery, charging ends with the frame that says so.
LastedIsShown ==
    /\ streak = HOLD => charging = HasBit(last.status_flags, CHARGING)
    /\ HasBit(last.status_flags, ON_BATTERY) = TRUE => charging # TRUE

\* The minutes shown on battery end before the power board turns the output off, for both
\* meanings of its level, and fall short by less than the minute and the step of the
\* level: m minutes of a load that empties the whole charge in the reported time leave
\* at least the charge at which the output turns off.
MinutesReachCutoff ==
    LET m == derived.remaining_time_discharging
        charge == 10 * from.charge
        off    == IF from.firmware < LEVEL_ABOVE_RESERVE_FIRMWARE THEN 1800 ELSE 1882
        Leaves(c, k) == last.remaining_time * (c - off) >= 60 * k * c
    IN m # None =>
        /\ m = 0 \/ Leaves(charge, m)
        /\ charge - 10 > off => ~Leaves(charge - 10, m + 1)

\* devicebase.py:117: the values go stale while frames are overdue, "The next frame makes
\* them current again." Both powers are among them (data_fields).
PowersAreCurrent ==
    /\ powers.output_power # None => Known(last, {"dc_output_voltage", "dc_output_current"})
    /\ powers.battery_power # None => Known(last, {"battery_voltage", "battery_current"})
=============================================================================
