---------------------------- MODULE MCTelemetry ----------------------------
(***************************************************************************)
(* One TriStar MPPT polled over TCP and over serial, two GenStars that     *)
(* disagree about the charging current of the system, and a gateway that   *)
(* reports the TriStar as a connected product.  Values are multiples of    *)
(* twelve, so that every mean and median of up to three is exact.          *)
(***************************************************************************)
EXTENDS Forecasts, EnergyAnalytics

CONSTANTS lan, usb, gen1, gen2, edge,      \* connections
          tristar, genstar1, genstar2, readyedge,
          mppt, float, ok, bad, product,   \* texts
          capitals, small                     \* one serial number, written in two ways

MCOwnerOf == [d \in Devices |-> (
  lan :> tristar @@ usb :> tristar @@ gen1 :> genstar1 @@ gen2 :> genstar2 @@ edge :> readyedge)[d]]

MCReadingsOf == [d \in Devices |-> (
  lan :> {[input_power |-> 12, input_power_reported |-> 24, output_power |-> 12,
           charge_state |-> mppt, faults |-> bad],
          [input_power |-> Null, input_power_reported |-> 48, output_power |-> 36,
           charge_state |-> float, faults |-> ok]}
  @@ usb :> {[input_power |-> 36, charge_state |-> float, faults |-> Null]}
  @@ gen1 :> {[input_power |-> 12, system_charge_current |-> 12, battery_voltage |-> 24,
             system_charge_kwh_daily |-> 12]}
  @@ gen2 :> {[system_charge_current |-> 24, battery_voltage |-> 36, system_charge_kwh_daily |-> 24]}
  @@ edge :> {[connected_product |-> product]})[d]]

MCRegisters == <<"battery_voltage", "charge_state", "connected_product", "faults", "input_power",
                 "input_power_reported", "output_power", "system_charge_current",
                 "system_charge_kwh_daily">>

MCMetrics ==
  [solar_input_power_w |-> [registers |-> <<"input_power", "input_power_reported">>, aggregation |-> "sum"],
   charge_output_power_w |-> [registers |-> <<"output_power">>, aggregation |-> "sum"],
   system_charge_current_a |-> [registers |-> <<"system_charge_current">>, aggregation |-> "median"],
   system_charge_kwh_daily |-> [registers |-> <<"system_charge_kwh_daily">>, aggregation |-> "median"],
   battery_voltage_v |-> [registers |-> <<"battery_voltage">>, aggregation |-> "median"],
   charge_state |-> [registers |-> <<"charge_state">>, aggregation |-> "state_set"],
   faults |-> [registers |-> <<"faults">>, aggregation |-> "state_set"],
   alarms |-> [registers |-> <<"alarms">>, aggregation |-> "state_set"]]

MCProfileOf ==
  [c \in Controllers |-> UNION {UNION {DOMAIN v : v \in MCReadingsOf[d]} : d \in {x \in Devices : MCOwnerOf[x] = c}}]

MCCanonicalOf == [c \in Controllers |-> IF c = tristar THEN lan ELSE CHOOSE d \in Devices : MCOwnerOf[d] = c]

MCLoggedWh == [day \in -1 .. 3 |-> IF day = 1 THEN None ELSE 24]
MCSerialOf == tristar :> capitals @@ [c \in Controllers \ {tristar} |-> None]
MCFolded == capitals :> small @@ small :> small
MCProductOf == product :> [slot |-> 0, serial |-> small]
=============================================================================
