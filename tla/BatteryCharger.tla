--------------------------- MODULE BatteryCharger ---------------------------
(***************************************************************************)
(* What BQ25887Charger makes of the charger's registers                    *)
(* (src/src/drivers/battery_charger.rs), and what the rest of the firmware *)
(* calls it (src/src/data/battery.rs).  A label is its number of           *)
(* characters.                                                             *)
(***************************************************************************)
EXTENDS BatteryGauge

CONSTANT None    \* an absent Option

StateChars == [NotCharging |-> 4, Trickle |-> 7, PreCharge |-> 6, FastCharge |-> 8,
               TaperCharge |-> 5, TopOff |-> 7, Done |-> 4, Unknown |-> 1]
FaultChars == [ThermalShutdown |-> 8, InputOverVoltage |-> 8, SafetyTimer |-> 9]
ThermistorChars == [Warm |-> 9, Cool |-> 9, Cold |-> 9, Hot |-> 8, Unknown |-> 6]

ChargeState     == DOMAIN StateChars
ChargerFault    == DOMAIN FaultChars
ThermistorState == DOMAIN ThermistorChars \cup {"Normal"}

U16 == 0..65535
I16 == -32768..32767

ChargerStatus ==
    [state : ChargeState, vbat_mv : U16, cell_top_mv : U16, cell_bot_mv : U16,
     vbus_mv : U16, charge_current_ma : U16, input_current_ma : U16,
     die_temp_dc : I16, power_good : BOOLEAN,
     thermistor : ThermistorState, fault : ChargerFault \cup {None}]

InputPresent(s)  == s.vbus_mv >= 3000
InputUnusable(s) == InputPresent(s) /\ ~s.power_good

-----------------------------------------------------------------------------
(* Decoding *)

ChargeStateOf ==
    [NotCharging |-> "NotCharging", TrickleCharge |-> "Trickle", PreCharge |-> "PreCharge",
     FastCharge |-> "FastCharge", TaperCharge |-> "TaperCharge",
     TopoffTimerCharging |-> "TopOff", ChargeTerminationDone |-> "Done",
     Reserved |-> "Unknown"]

\* Of the flags that are set, the one that matters most.
FaultOf(flags) ==
    CASE "tshut" \in flags -> "ThermalShutdown"
      [] "tshut" \notin flags /\ "vbus_ovp" \in flags -> "InputOverVoltage"
      [] flags \cap {"tshut", "vbus_ovp"} = {} /\ "tmr" \in flags -> "SafetyTimer"
      [] OTHER -> None

\* The low three bits of the NTC status; 1, 4 and 7 are undefined.
ThermistorOf(ntc) ==
    LET code == ntc % 8
    IN  CASE code = 0 -> "Normal" [] code = 2 -> "Warm" [] code = 3 -> "Cool"
          [] code = 5 -> "Cold"   [] code = 6 -> "Hot"  [] OTHER -> "Unknown"

Register ==
    [chrg_stat : DOMAIN ChargeStateOf, faults : SUBSET {"tshut", "vbus_ovp", "tmr"},
     ntc : 0..255, power_good : BOOLEAN, die : I16,
     vbat : U16, top : U16, bot : U16, vbus : U16, ichg : U16, ibus : U16]

StatusOf(r) ==
    [state |-> ChargeStateOf[r.chrg_stat], fault |-> FaultOf(r.faults),
     thermistor |-> ThermistorOf(r.ntc), power_good |-> r.power_good,
     die_temp_dc |-> r.die, vbat_mv |-> r.vbat, cell_top_mv |-> r.top,
     cell_bot_mv |-> r.bot, vbus_mv |-> r.vbus, charge_current_ma |-> r.ichg,
     input_current_ma |-> r.ibus]

=============================================================================
