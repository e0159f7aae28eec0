------------------------------ MODULE PowerViews ------------------------------
(***************************************************************************)
(* What the system says of its power and its parts: the instantaneous      *)
(* power flow and the energy ledger (systems/power.py), both made of the   *)
(* newest metrics and unknown wherever the evidence is missing or in       *)
(* conflict, and the component graph (systems/components.py), which joins  *)
(* the controllers polled with the products a ReadyEdge gateway reports.   *)
(***************************************************************************)
EXTENDS SystemViews

CONSTANTS Gateways,    \* the controllers that are a ReadyEdge
          Chargers,    \* the controllers whose profile has a charge register
          SerialOf,    \* controller -> its serial number, or None: the one of its
                       \* row or, without one, what its newest sample holds
          Folded,      \* serial number -> the number with its case folded
          ProductOf    \* what a connected-product register reads -> [slot, serial], or None

-----------------------------------------------------------------------------
(* Metrics with their status                                                 *)

Unknown == [value |-> None, quality |-> "empty"]
Empty == [value |-> None, quality |-> "empty", sources |-> {}]
Metric(m) == IF m \in DOMAIN Metrics THEN LatestView(m) ELSE Empty

\* _resolved_system_metric: reporters of one quantity of the whole system must
\* agree within a tolerance, given in hundredths of its unit and in percent; a
\* version that takes the middle of any.
MiddleOf(metric, absolute, percent) ==
  LET numbers == Numbers(metric.sources) IN
  IF numbers = <<>> THEN metric ELSE [metric EXCEPT !.value = MedianOf(numbers)]
Resolved(metric, absolute, percent) ==
  LET numbers == Numbers(metric.sources)
      middle == MedianOf(numbers)
      size == IF middle < 0 THEN -middle ELSE middle
      spread == numbers[Len(numbers)] - numbers[1]
  IN IF numbers = <<>> THEN metric
     ELSE IF 100 * spread > Max({absolute, percent * size})
          THEN [metric EXCEPT !.value = None, !.quality = "conflict"]
          ELSE [metric EXCEPT !.value = middle]

Derived(known, value) == [value |-> IF known THEN value ELSE None,
                          quality |-> IF known THEN "derived" ELSE "empty"]
Known(metrics) == \A x \in metrics : x.value # None
Product(x, y) == Derived(Known({x, y}), x.value * y.value)
Difference(x, y) == Derived(Known({x, y}), x.value - y.value)

\* What the flow is made of, and what is derived from it.
Measured ==
  [solar |-> Metric("solar_input_power_w"), charge |-> Metric("charge_output_power_w"),
   systemCharge |-> Resolved(Metric("system_charge_current_a"), 50, 5),
   batteryNet |-> Resolved(Metric("battery_net_current_a"), 50, 5),
   systemLoad |-> Resolved(Metric("system_load_current_a"), 50, 5),
   voltage |-> Metric("battery_voltage_v"), loadVoltage |-> Metric("load_voltage_v"),
   chargeCurrent |-> Metric("battery_charge_current_a"), soc |-> Metric("battery_soc_percent")]
FlowOf(m) ==
  LET chargePower == Product(m.systemCharge, m.voltage)
      netPower == Product(m.batteryNet, m.voltage)
      loadPower == Product(m.systemLoad, m.loadVoltage)
      remainder(x, y, z) == Difference(Difference(x, y), z)
  IN [measured |-> m,
      quality |-> IF \A x \in {m.solar, m.charge, m.systemCharge, m.batteryNet, m.systemLoad} : x.value = None
                  THEN "empty" ELSE "partial",
      chargePower |-> chargePower, netPower |-> netPower, loadPower |-> loadPower,
      residual |-> Difference(m.solar, m.charge),
      efficiency |-> IF Known({m.solar, m.charge}) /\ m.solar.value > 0
                     THEN Derived(TRUE, (m.charge.value * 100) \div m.solar.value) ELSE Unknown,
      currentResidual |-> remainder(m.systemCharge, m.batteryNet, m.systemLoad),
      powerResidual |-> remainder(chargePower, netPower, loadPower),
      generator |-> Unknown, auxiliary |-> Unknown, inverter |-> Unknown]
PowerFlow == FlowOf(Measured)

\* The first counter that is known supplies the charge of the day.
FirstKnown(systemKwh, wh, kwh) ==
  IF systemKwh.value # None THEN Derived(TRUE, systemKwh.value * 1000)
  ELSE IF wh.value # None THEN wh
  ELSE Derived(kwh.value # None, kwh.value * 1000)
BatteryCharge ==
  FirstKnown(Resolved(Metric("system_charge_kwh_daily"), 5, 2),
             Metric("daily_charge_wh"), Metric("daily_charge_kwh"))

LedgerOf(battery, external, ah) ==
  [quality |-> IF \E x \in {battery, external, ah["system_battery_ah_daily"],
                            ah["system_load_ah_daily"]} : x.value # None
               THEN "partial" ELSE "empty",
   external |-> Derived(external.value # None, external.value * 1000),
   battery |-> battery, counters |-> ah,
   solar |-> Unknown, generator |-> Unknown, discharge |-> Unknown,
   load |-> Unknown, losses |-> Unknown, unaccounted |-> Unknown]
EnergyLedger ==
  LET counters == {"system_charge_ah_daily", "system_battery_ah_daily", "system_load_ah_daily",
                   "external_source_charge_ah_daily", "shunt_battery_net_ah_daily", "shunt_load_ah_daily"}
  IN LedgerOf(BatteryCharge, Resolved(Metric("external_source_charge_kwh_daily"), 5, 2),
              [m \in counters |-> Resolved(Metric(m), 50, 2)])

-----------------------------------------------------------------------------
(* The component graph                                                       *)

\* The controller a reported product is, by serial number; a version that
\* compares the numbers as they are written.
SameText(serial) == {c \in Members : SerialOf[c] # None /\ SerialOf[c] = serial}
SameSerial(serial) ==
  {c \in Members : SerialOf[c] # None /\ serial # None /\ Folded[SerialOf[c]] = Folded[serial]}

\* readyedge_connected_products: what the newest sample of a gateway reports.
Reported ==
  UNION {{LET reported == ProductOf[n.sample.values[r]] IN
          [host |-> n.uid, slot |-> reported.slot, serial |-> reported.serial] :
            r \in {q \in DOMAIN n.sample.values : n.sample.values[q] \in DOMAIN ProductOf
                                                  /\ ProductOf[n.sample.values[q]] # None}} :
         n \in {x \in NewestOf : x.uid \in Gateways /\ x.sample # None}}

Graph ==
  LET target(p) == IF SameSerial(p.serial) # {} THEN CHOOSE c \in SameSerial(p.serial) : TRUE ELSE p
      unmatched == {p \in Reported : SameSerial(p.serial) = {}}
  IN [components |-> {[node |-> "system"], [node |-> "battery_bus"]}
                     \cup {[node |-> "controller", id |-> c, serial |-> SerialOf[c]] : c \in Members}
                     \cup {[node |-> "product", id |-> p, serial |-> p.serial] : p \in unmatched},
      member |-> Members, charges |-> Chargers \cap Members,
      monitors |-> {[from |-> p.host, to |-> target(p)] : p \in Reported}]

-----------------------------------------------------------------------------
(* Properties                                                                *)

\* Disagreement never becomes a number: where two controllers report a quantity
\* of the whole system further apart than the tolerance allows at any value
\* between them, the flow shows it as unknown, and so does everything derived
\* from it, while each reporter stays listed; the ledger then tells at most what
\* the controllers counted on their own.
Magnitude(i) == IF i < 0 THEN -i ELSE i
Disagree(m, absolute, percent) ==
  \E x, y \in Measures(Metric(m).sources) :
    100 * (x.value - y.value)
      > Max({absolute, percent * Magnitude(x.value), percent * Magnitude(y.value)})
ConflictsStay ==
  /\ Disagree("system_charge_current_a", 50, 5) =>
       /\ PowerFlow.measured.systemCharge.value = None
       /\ PowerFlow.measured.systemCharge.sources = Metric("system_charge_current_a").sources
       /\ \A quantity \in {"chargePower", "currentResidual", "powerResidual"} :
            PowerFlow[quantity].value = None
  /\ Disagree("system_charge_kwh_daily", 5, 2) =>
       EnergyLedger.battery.value
         \in {None, Metric("daily_charge_wh").value}
             \cup {v * 1000 : v \in {Metric("daily_charge_kwh").value} \ {None}}

\* A device is one component: what a gateway reports of a device that is polled
\* as a controller is an edge to that controller, never a second component.
OneComponentPerDevice ==
  /\ \A x, y \in {z \in Graph.components : z.node \in {"controller", "product"}} :
       x.serial # None /\ y.serial # None /\ Folded[x.serial] = Folded[y.serial] => x = y
  /\ \A e \in Graph.monitors :
       \E z \in {y \in Graph.components : y.node \in {"controller", "product"}} : z.id = e.to
=============================================================================
