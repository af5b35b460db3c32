---------------------------- MODULE MCTelemetry -----------------------------
(* Telemetry for TLC: frames whose flags toggle, and frames on battery around   *)
(* the charge and the times at which the minutes change.                        *)
EXTENDS Telemetry, Sequences, TLC

\* a measurement with this charge, remaining time and status flags; an input that is
\* lost leaves a lower output voltage, and the fault bit 10 comes with bit 4 only
Measurement(charge, time, flags, output) ==
    [a \in DOMAIN Position |->
        CASE a = "remaining_time" -> time
          [] a = "status_flags" -> flags
          [] a = "fault_flags" -> IF output > 20000 THEN {10} ELSE {}
          [] a = "dc_output_voltage" -> output
          [] a = "battery_cycles" -> charge
          [] a = "cell_voltage_4" -> 3300
          [] OTHER -> 3000] @@ [charge |-> charge]

OnInput == {Measurement(1000, 65535, {INPUT_POWER}, output) : output \in {12000, 14000, 21000}}
           \cup {Measurement(1000, 65535, {INPUT_POWER, CHARGING}, 12000)}

OnBattery == {Measurement(charge, time, {ON_BATTERY}, 12000) :
                charge \in {150, 180, 188, 189, 190, 1000}, time \in {0, 60, 923, 65534}}

AllMeasurements == OnInput \cup OnBattery
=============================================================================
