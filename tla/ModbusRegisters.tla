--------------------------- MODULE ModbusRegisters ---------------------------
(***************************************************************************)
(* The items of modbus_registers.py: where the value of each sits in its   *)
(* register, and which values it takes.  A display value is an integer:    *)
(* the bit of a toggle, the option of a select, the tenths of a number,    *)
(* the minutes of a time of day.                                           *)
(***************************************************************************)
EXTENDS Integers, FiniteSetsExt, TLC

\* Of an item with options, the range is theirs.
Bits(reg, bit0, width, options) ==
    [reg |-> reg, kind |-> "select", unit |-> 2 ^ bit0, size |-> 2 ^ width,
     high |-> FALSE, step |-> 1, options |-> options,
     min |-> Min(options), max |-> Max(options)]
Select(reg, options) == Bits(reg, 0, 16, options)
Toggle(reg, bit) == [Bits(reg, bit, 1, {0, 1}) EXCEPT !.kind = "toggle"]
Clock(reg) == [Select(reg, {0, 1439}) EXCEPT !.kind = "time"]
Tenths(reg, min, max) == [Select(reg, {min, max}) EXCEPT !.kind = "number"]
\* A number in whole units.
Whole(reg, min, max) == [Tenths(reg, 10 * min, 10 * max) EXCEPT !.step = 10]
HighByte(reg, min, max) == [Whole(reg, min, max) EXCEPT !.high = TRUE]

Beep ==
    "buzzer" :> Toggle(110, 7)

Application ==
    "eps_voltage" :> Select(90, {208, 220, 230, 240, 277})
    @@ "eps_frequency" :> Select(91, {50, 60})
    @@ "eps_seamless" :> Toggle(21, 8)
    @@ "hybrid" :> Toggle(21, 0)
    @@ "grid_export_enable" :> Toggle(21, 15)
    @@ "grid_export_percent" :> Whole(103, 0, 100)
    @@ "ac_first_time_base_start" :> Clock(152)
    @@ "ac_first_time_base_end" :> Clock(153)
    @@ "ac_first_time_p1_start" :> Clock(154)
    @@ "ac_first_time_p1_end" :> Clock(155)
    @@ "ac_first_time_p2_start" :> Clock(156)
    @@ "ac_first_time_p2_end" :> Clock(157)
    @@ "output_priority" :> Select(145, {0, 1, 2})
    @@ "line_mode" :> Select(146, {0, 1, 2})

AcCharge ==
    "ac_charge_enable" :> Toggle(21, 7)
    @@ "charge_first_enable" :> Toggle(21, 11)
    @@ "ac_charge_type" :> Bits(120, 1, 3, {0, 1, 2, 3, 4, 5})
    @@ "ac_charge_power" :> HighByte(66, 0, 100)
    @@ "ac_charge_soc_limit" :> Whole(67, 0, 100)
    @@ "ac_charge_start_voltage" :> Tenths(158, 385, 520)
    @@ "ac_charge_end_voltage" :> Tenths(159, 480, 590)
    @@ "ac_charge_start_soc" :> Whole(160, 0, 90)
    @@ "ac_charge_end_soc" :> Whole(161, 0, 90)
    @@ "ac_charge_time_1_start" :> Clock(68)
    @@ "ac_charge_time_1_end" :> Clock(69)
    @@ "ac_charge_time_2_start" :> Clock(70)
    @@ "ac_charge_time_2_end" :> Clock(71)
    @@ "ac_charge_time_3_start" :> Clock(72)
    @@ "ac_charge_time_3_end" :> Clock(73)

ChargeFirst ==
    "charge_first_power" :> Whole(74, 0, 100)
    @@ "charge_first_soc_limit" :> HighByte(75, 0, 101)
    @@ "charge_first_time_1_start" :> Clock(76)
    @@ "charge_first_time_1_end" :> Clock(77)
    @@ "charge_first_time_2_start" :> Clock(78)
    @@ "charge_first_time_2_end" :> Clock(79)
    @@ "charge_first_time_3_start" :> Clock(80)
    @@ "charge_first_time_3_end" :> Clock(81)
    @@ "charge_current" :> Whole(101, 0, 140)
    @@ "charge_voltage" :> Tenths(99, 500, 590)
    @@ "float_voltage" :> Tenths(144, 500, 560)

Discharge ==
    "discharge_control_type" :> Bits(120, 4, 2, {0, 1, 2})
    @@ "forced_discharge_enable" :> Toggle(21, 10)
    @@ "forced_discharge_power" :> Whole(82, 0, 100)
    @@ "forced_discharge_soc_limit" :> Whole(83, 0, 100)
    @@ "forced_discharge_time_1_start" :> Clock(84)
    @@ "forced_discharge_time_1_end" :> Clock(85)
    @@ "forced_discharge_time_2_start" :> Clock(86)
    @@ "forced_discharge_time_2_end" :> Clock(87)
    @@ "forced_discharge_time_3_start" :> Clock(88)
    @@ "forced_discharge_time_3_end" :> Clock(89)
    @@ "warning_voltage" :> Tenths(162, 400, 500)
    @@ "warning_voltage_recovery" :> Tenths(163, 420, 520)
    @@ "warning_soc" :> Whole(164, 0, 90)
    @@ "warning_soc_recovery" :> Whole(165, 0, 100)
    @@ "cutoff_soc_eps" :> Whole(125, 0, 100)
    @@ "cutoff_voltage_eps" :> Tenths(100, 400, 520)
    @@ "cutoff_soc_grid" :> Whole(105, 10, 100)
    @@ "cutoff_voltage_grid" :> Tenths(169, 400, 560)
    @@ "discharge_current" :> Whole(102, 0, 140)

Battery ==
    "battery_capacity" :> Whole(147, 0, 10000)
    @@ "lead_acid_capacity" :> Whole(204, 50, 5000)
    @@ "nominal_voltage" :> Tenths(148, 400, 590)
    @@ "equalization_voltage" :> Tenths(149, 500, 590)
    @@ "equalization_interval" :> Whole(150, 0, 365)
    @@ "equalization_time" :> Whole(151, 0, 24)

Catalog == Beep @@ Application @@ AcCharge @@ ChargeFirst @@ Discharge @@ Battery

\* The items that are written after a confirmation only.
Confirmed == {"eps_voltage", "eps_frequency", "hybrid", "grid_export_enable",
              "grid_export_percent", "cutoff_soc_eps", "cutoff_voltage_eps",
              "cutoff_soc_grid", "cutoff_voltage_grid", "battery_capacity"}

\* modbus_read: the keys of the query, of a category, or all.
Queries == {DOMAIN Beep, DOMAIN Application, DOMAIN AcCharge \cup DOMAIN ChargeFirst,
            DOMAIN Discharge, DOMAIN Battery, DOMAIN Catalog,
            {"eps_seamless", "cutoff_voltage_grid"}}
=============================================================================
