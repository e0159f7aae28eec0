------------------------- MODULE IncidentDetectors -------------------------
(***************************************************************************)
(* The detectors of SiteIntelligenceService and its health score           *)
(* (intelligence/incidents.py): what one scan of a site concludes from the *)
(* evidence it reads.  Measurements are integers in the unit shown to the  *)
(* user (hundredths of a volt, tenths of a percent, watts, percent), so    *)
(* that the text of a finding changes exactly when its number does.        *)
(***************************************************************************)
EXTENDS Integers, Sequences, FiniteSets

CONSTANT Missing   \* no such register, row or summary

IncidentPolicy ==
  [senseWarning |-> 25, senseCritical |-> 50,
   minimumInput |-> 100, efficiencyWarning |-> 80, efficiencyCritical |-> 60,
   minimumPolls |-> 20, successWarning |-> 95, successCritical |-> 80,
   missWarning |-> 10, cyclesWarning |-> 6, cyclesCritical |-> 10,
   comparableDays |-> 3, minimumExpected |-> 100,
   productionWarning |-> 60, productionCritical |-> 25, coverageWarning |-> 80]

Severities == {"warning", "critical"}
NoFinding == [category |-> "none", severity |-> "none", confidence |-> "none", text |-> 0]

\* The severity is critical when the condition holds and warning otherwise.
Graded(category, critical, confidence, text) ==
  [category |-> category, severity |-> IF critical THEN "critical" ELSE "warning",
   confidence |-> confidence, text |-> text]

\* What a detector answers: nothing when its evidence is incomplete, else its
\* evaluation key with a finding or with NoFinding.
NotEvaluated == {}
Evaluated(detector, subject, finding) ==
  {[key |-> <<detector, subject>>, finding |-> finding]}

Magnitude(i) == IF i < 0 THEN -i ELSE i

----------------------------------------------------------------------------
(* Detectors of one controller; ev is the evidence the scan read about it.  *)

OfflineDetector(uid, ev) ==
  Evaluated("controller_offline", uid,
    IF ev.status = "online" THEN NoFinding
    ELSE Graded("communications", FALSE, "high", 0))

SenseDetector(uid, ev) ==
  LET delta == Magnitude(ev.terminal - ev.sense) IN
  IF Missing \in {ev.sense, ev.terminal} THEN NotEvaluated
  ELSE Evaluated("battery_sense_divergence", uid,
         IF delta < IncidentPolicy.senseWarning THEN NoFinding
         ELSE Graded("battery", delta >= IncidentPolicy.senseCritical, "high", delta))

Loaded(ev) ==
  Missing \notin {ev.input, ev.output} /\ ev.input >= IncidentPolicy.minimumInput

EfficiencyDetector(uid, ev) ==
  IF ~Loaded(ev) THEN NotEvaluated
  ELSE Evaluated("controller_efficiency", uid,
         IF 100 * ev.output >= IncidentPolicy.efficiencyWarning * ev.input THEN NoFinding
         ELSE Graded("production",
                     100 * ev.output < IncidentPolicy.efficiencyCritical * ev.input,
                     "medium", (1000 * ev.output) \div ev.input))

\* A fault or an alarm register; only the title of the finding is shown.
StatusDetector(detector, uid, register, critical) ==
  IF register = Missing THEN NotEvaluated
  ELSE Evaluated(detector, uid,
         IF register = "clear" THEN NoFinding
         ELSE Graded("communications", critical, "high", 0))

PollingDetector(uid, ev) ==
  LET polls == ev.polls IN
  IF polls = Missing \/ polls.samples < IncidentPolicy.minimumPolls THEN NotEvaluated
  ELSE Evaluated("polling_degradation", uid,
         IF /\ polls.success >= IncidentPolicy.successWarning
            /\ polls.missed <= IncidentPolicy.missWarning
         THEN NoFinding
         ELSE Graded("communications", polls.success < IncidentPolicy.successCritical,
                     "high", 1000 * polls.success + polls.missed))

\* charge_cycle_summary: rows without a state do not interrupt a stage.
Stages(rows) == SelectSeq(rows, LAMBDA state : state # "")
AbsorptionEntries(rows) ==
  LET stages == Stages(rows) IN
  Cardinality({i \in DOMAIN stages : /\ stages[i] = "ABSORPTION"
                                     /\ i = 1 \/ stages[i - 1] # "ABSORPTION"})

ChargeCycleDetector(uid, ev) ==
  LET entries == AbsorptionEntries(ev.stages) IN
  IF Len(ev.stages) < 3 THEN NotEvaluated
  ELSE Evaluated("charge_stage_cycling", uid,
         IF entries < IncidentPolicy.cyclesWarning THEN NoFinding
         ELSE Graded("charging", entries >= IncidentPolicy.cyclesCritical, "high", entries))

CoverageDetector(uid, ev) ==
  LET coverage == ev.coverage IN
  IF coverage = Missing \/ coverage.days < 3 \/ coverage.percent = Missing
  THEN NotEvaluated
  ELSE Evaluated("history_coverage", uid,
         IF coverage.percent >= IncidentPolicy.coverageWarning THEN NoFinding
         ELSE Graded("data_integrity", FALSE, "high", coverage.percent))

\* Without a latest sample nothing but the controller's status is evaluated.
ControllerDetections(uid, ev) ==
  OfflineDetector(uid, ev) \cup
  IF ~ev.sample THEN {}
  ELSE UNION {SenseDetector(uid, ev), EfficiencyDetector(uid, ev),
              StatusDetector("controller_fault", uid, ev.faults, TRUE),
              StatusDetector("controller_alarm", uid, ev.alarms, FALSE),
              PollingDetector(uid, ev), ChargeCycleDetector(uid, ev),
              CoverageDetector(uid, ev)}

----------------------------------------------------------------------------
(* The detector of the site, and one scan's answers together *)

\* base: current solar input, percentiles and number of the comparable days.
BaselineReady(base) ==
  /\ Missing \notin {base.current, base.median}
  /\ base.days >= IncidentPolicy.comparableDays

Underproduction(base) ==
  LET low == IF base.low \in {Missing, 0} THEN base.median ELSE base.low IN
  /\ base.median >= IncidentPolicy.minimumExpected
  /\ 100 * base.current < IncidentPolicy.productionWarning * base.median
  /\ 100 * base.current < 75 * low

BaselineDetector(site, base) ==
  IF ~BaselineReady(base) THEN NotEvaluated
  ELSE Evaluated("solar_underproduction", site,
         IF ~Underproduction(base) THEN NoFinding
         ELSE Graded("production",
                     100 * base.current < IncidentPolicy.productionCritical * base.median,
                     IF base.days >= 5 THEN "high" ELSE "medium",
                     (100 * (base.median - base.current)) \div base.median))

\* What one scan concludes: controllers maps each controller to its evidence.
Detections(controllers, site, base) ==
  BaselineDetector(site, base)
    \cup UNION {ControllerDetections(uid, controllers[uid]) : uid \in DOMAIN controllers}

EvaluatedKeys(detections) == {d.key : d \in detections}
Findings(detections) == {d \in detections : d.finding.severity # "none"}
Present(detections) == EvaluatedKeys(Findings(detections))

----------------------------------------------------------------------------
(* health_score: twenty points per category, less its active incidents *)

Categories == {"production", "charging", "battery", "communications", "data_integrity"}
CategoryMaximum == 20
\* Points per incident; a version that gives what it does not know a weight of 2.
LightPenalty(severity) == CASE severity = "warning" -> 8 [] OTHER -> 2
Penalty(severity) == CASE severity = "critical" -> 20 [] OTHER -> 8

\* active maps the uid of each active incident to its row.
Counted(active, category, severity) ==
  Cardinality({u \in DOMAIN active :
                 active[u].finding.category = category
                   /\ active[u].finding.severity = severity})
CategoryScore(active, category) ==
  LET penalty == Counted(active, category, "warning") * Penalty("warning")
                   + Counted(active, category, "critical") * Penalty("critical") IN
  IF penalty >= CategoryMaximum THEN 0 ELSE CategoryMaximum - penalty

HealthScore(active) ==
  LET of(c) == CategoryScore(active, c) IN
  of("production") + of("charging") + of("battery")
    + of("communications") + of("data_integrity")
HealthStatus(score) ==
  IF score >= 85 THEN "good" ELSE IF score >= 60 THEN "warning" ELSE "critical"
=============================================================================
