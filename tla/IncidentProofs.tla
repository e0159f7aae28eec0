--------------------------- MODULE IncidentProofs ---------------------------
(* Proofs about Incidents, for every site, evidence and number of scanning   *)
(* processes: an incident is resolved on evidence only, the newest event of  *)
(* an incident tells its severity unless a scan was overtaken by another,    *)
(* and two processes announce a recovery once.                               *)
EXTENDS Incidents, FiniteSetTheorems, TLAPS

-----------------------------------------------------------------------------
(* The inductive invariant                                                   *)

Scanning(a) == scans[a].phase \in {"read", "apply"}
Applying(a) == scans[a].phase = "apply"

IsRow(r) ==
  /\ DOMAIN r = {"key", "finding", "state", "updated"}
  /\ r.state \in {"active", "resolved"} /\ r.updated \in Nat
IsScan(s) ==
  /\ DOMAIN s = {"phase", "now", "detections", "previous", "transitions"}
  /\ s.phase \in Phases /\ s.now \in Nat
  /\ s.transitions # {} <=> s.phase = "record"

ShapeInv ==
  /\ clock \in Nat /\ openings \in Nat /\ DOMAIN scans = Actors
  /\ \A a \in Actors : IsScan(scans[a])
  /\ \A u \in DOMAIN incidents :
       /\ IsRow(incidents[u]) /\ u[1] = incidents[u].key
       /\ u[2] \in Nat /\ u[2] <= openings
  /\ \A t \in Announced : t.uid \in DOMAIN incidents /\ t.at \in Nat

\* A detector finds something or says that its condition is over.
Clear(detections) ==
  \A d \in detections : d.finding.severity = "none" => d.finding = NoFinding

\* Scans that read the evidence at the same time conclude the same of it.
DetectInv ==
  /\ \A a \in Actors : Scanning(a) =>
       /\ Clear(scans[a].detections) /\ scans[a].now <= clock
       /\ scans[a].now = clock => scans[a].detections = Detections(evidence, Site, baseline)
  /\ \A a, b \in Actors : Scanning(a) /\ Scanning(b) /\ scans[a].now = scans[b].now =>
       scans[a].detections = scans[b].detections

PreviousInv ==
  \A a \in Actors : Applying(a) =>
    \A u \in DOMAIN scans[a].previous :
      u \in DOMAIN incidents /\ scans[a].previous[u].key = u[1]

\* The announcements of a finding carry what was concluded at their time.
Says(detections, t) ==
  (CHOOSE d \in Findings(detections) : d.key = t.uid[1]).finding.severity = t.severity

ClaimsInv ==
  /\ \A t \in Claims :
       /\ t.at <= clock
       /\ t.at = clock => Says(Detections(evidence, Site, baseline), t)
       /\ \A a \in Actors :
            Scanning(a) /\ scans[a].now = t.at => Says(scans[a].detections, t)
  /\ \A t, r \in Claims : t.uid = r.uid /\ t.at = r.at => t.severity = r.severity

Recoveries == {t \in Announced : t.kind = "resolved"}
RecoveryInv == \A t \in Recoveries : incidents[t.uid].state = "resolved"

IInv == ShapeInv /\ DetectInv /\ PreviousInv /\ ClaimsInv /\ AllTold /\ RecoveryInv

\* No three actors of three services.
TwoServices ==
  \A a, b, c \in Actors :
    ServiceOf[a] = ServiceOf[b] \/ ServiceOf[b] = ServiceOf[c] \/ ServiceOf[a] = ServiceOf[c]

\* The lock of a service: one scan at a time.
Exclusive ==
  \A a, b \in Actors :
    ServiceOf[a] = ServiceOf[b] /\ scans[a].phase # "idle" /\ scans[b].phase # "idle"
      => a = b

\* Of a resolved incident, at most one scan still holds the row as active, and
\* it finds the stamp of the recovery.
StampInv ==
  /\ \A a, b \in Actors, u \in DOMAIN incidents :
       /\ incidents[u].state = "resolved" /\ Applying(a) /\ Applying(b)
       /\ u \in DOMAIN scans[a].previous /\ u \in DOMAIN scans[b].previous
       => a = b
  /\ \A t, r \in Recoveries : t.uid = r.uid => t.at = r.at
  /\ \A t \in Recoveries, a \in Actors :
       Applying(a) /\ t.uid \in DOMAIN scans[a].previous => t.at = incidents[t.uid].updated
  /\ \A e, f \in events : SameKey(e, f) => e = f

-----------------------------------------------------------------------------
(* What the detectors conclude                                               *)

LEMMA GradedSeverity ==
  ASSUME NEW category, NEW critical, NEW confidence, NEW text
  PROVE  Graded(category, critical, confidence, text).severity # "none"
  BY DEF Graded

LEMMA EvaluatedClear ==
  ASSUME NEW detector, NEW subject, NEW f, f = NoFinding \/ f.severity # "none"
  PROVE  Clear(Evaluated(detector, subject, f))
  BY DEF Clear, Evaluated

LEMMA ControllerClear ==
  ASSUME NEW uid, NEW ev
  PROVE  Clear(ControllerDetections(uid, ev))
<1> USE GradedSeverity, EvaluatedClear
<1>1. Clear(OfflineDetector(uid, ev))
  BY DEF OfflineDetector
<1>2. Clear(SenseDetector(uid, ev))
  BY DEF SenseDetector, NotEvaluated, Clear
<1>3. Clear(EfficiencyDetector(uid, ev))
  BY DEF EfficiencyDetector, NotEvaluated, Clear
<1>4. Clear(StatusDetector("controller_fault", uid, ev.faults, TRUE))
  BY DEF StatusDetector, NotEvaluated, Clear
<1>5. Clear(StatusDetector("controller_alarm", uid, ev.alarms, FALSE))
  BY DEF StatusDetector, NotEvaluated, Clear
<1>6. Clear(PollingDetector(uid, ev))
  BY DEF PollingDetector, NotEvaluated, Clear
<1>7. Clear(ChargeCycleDetector(uid, ev))
  BY DEF ChargeCycleDetector, NotEvaluated, Clear
<1>8. Clear(CoverageDetector(uid, ev))
  BY DEF CoverageDetector, NotEvaluated, Clear
<1>9. QED
  BY <1>1, <1>2, <1>3, <1>4, <1>5, <1>6, <1>7, <1>8 DEF ControllerDetections, Clear

LEMMA DetectionsClear ==
  ASSUME NEW controllers, NEW site, NEW base
  PROVE  Clear(Detections(controllers, site, base))
<1>1. Clear(BaselineDetector(site, base))
  BY GradedSeverity, EvaluatedClear DEF BaselineDetector, NotEvaluated, Clear
<1>2. ASSUME NEW d \in Detections(controllers, site, base)
      PROVE  d.finding.severity = "none" => d.finding = NoFinding
  <2>1. CASE d \in BaselineDetector(site, base)
    BY <1>1, <2>1 DEF Clear
  <2>2. CASE d \notin BaselineDetector(site, base)
    <3>1. d \in UNION {ControllerDetections(uid, controllers[uid]) : uid \in DOMAIN controllers}
      BY <2>2 DEF Detections
    <3>2. \E uid \in DOMAIN controllers : d \in ControllerDetections(uid, controllers[uid])
      BY <3>1, Zenon
    <3>3. QED  BY <3>2, ControllerClear DEF Clear
  <2>3. QED  BY <2>1, <2>2
<1>3. QED  BY <1>2 DEF Clear

-----------------------------------------------------------------------------
(* What a reconciliation does to a row                                       *)

LEMMA OpenedFresh ==
  ASSUME ShapeInv, NEW s, NEW u \in Opened(s)
  PROVE  u \notin DOMAIN incidents /\ u[2] = openings + 1 /\ u[1] \in OpenedKeys(s)
  BY DEF ShapeInv, Opened, UidOf

LEMMA ResolvedApart ==
  ASSUME NEW s, NEW u \in Resolved(s)
  PROVE  u \notin Updated(s)
  BY DEF Resolved, Updated

\* The row of an incident that was there.
LEMMA ReconciledRow ==
  ASSUME ShapeInv, PreviousInv, NEW a \in Actors, Applying(a), NEW s, s = scans[a],
         NEW u \in DOMAIN incidents
  PROVE  LET r == Reconciled(s, u) IN
         /\ IsRow(r) /\ r.key = incidents[u].key
         /\ \/ u \in Updated(s) /\ r.state = incidents[u].state
               /\ r.finding = FindingOf(s, u[1]) /\ r.updated = s.now
            \/ u \notin Updated(s) /\ u \in Resolved(s) /\ incidents[u].state = "active"
               /\ r.state = "resolved" /\ r.finding = incidents[u].finding /\ r.updated = s.now
            \/ u \notin Updated(s) /\ (u \in Resolved(s) => incidents[u].state = "resolved")
               /\ r = incidents[u]
<1>1. u \notin Opened(s) /\ IsRow(incidents[u]) /\ s.now \in Nat
  BY OpenedFresh DEF ShapeInv, IsScan
<1>2. CASE u \in Updated(s)
  <2>1. Reconciled(s, u) =
          [incidents[u] EXCEPT !.finding = FindingOf(s, u[1]), !.updated = s.now]
    BY <1>1, <1>2, ResolvedApart DEF Reconciled
  <2>2. QED  BY <1>1, <1>2, <2>1 DEF IsRow
<1>3. CASE u \notin Updated(s) /\ u \in Resolved(s) /\ incidents[u].state = "active"
  BY <1>1, <1>3 DEF Reconciled, IsRow
<1>4. CASE u \notin Updated(s) /\ ~(u \in Resolved(s) /\ incidents[u].state = "active")
  BY <1>1, <1>4 DEF Reconciled, IsRow
<1>5. QED  BY <1>2, <1>3, <1>4

LEMMA OpenedRow ==
  ASSUME ShapeInv, PreviousInv, NEW a \in Actors, Applying(a), NEW s, s = scans[a],
         NEW u \in Opened(s)
  PROVE  Reconciled(s, u) = Row(s, u[1])
<1>1. u \notin Updated(s) /\ u \notin Resolved(s)
  BY OpenedFresh DEF PreviousInv, Updated, Resolved
<1>2. QED  BY <1>1 DEF Reconciled

\* A reconciliation adds its transitions to what is announced.
LEMMA ReconcileStep ==
  ASSUME ShapeInv, NEW a \in Actors, Reconcile(a), NEW s, s = scans[a]
  PROVE  /\ Applying(a) /\ DOMAIN incidents' = DOMAIN incidents \cup Opened(s)
         /\ \A u \in DOMAIN incidents' : incidents'[u] = Reconciled(s, u)
         /\ Announced' = Announced \cup Transitions(s, incidents')
         /\ scans'[a] = Announcing(Transitions(s, incidents'))
         /\ DOMAIN scans' = Actors
         /\ \A b \in Actors \ {a} : scans'[b] = scans[b]
<1>1. /\ Applying(a) /\ incidents' = [u \in DOMAIN incidents \cup Opened(s) |-> Reconciled(s, u)]
      /\ scans' = [scans EXCEPT ![a] = Announcing(Transitions(s, incidents'))]
      /\ events' = events
  BY DEF Reconcile, Applying
<1>2. scans[a].transitions = {}
  BY <1>1 DEF ShapeInv, IsScan, Applying
<1> DEFINE T == Transitions(s, incidents')
<1>3. Announcing(T).transitions = T
  BY DEF Announcing, Idle
<1> HIDE DEF T
<1>4. scans'[a].transitions = T /\ \A b \in Actors \ {a} : scans'[b] = scans[b]
  BY <1>1, <1>3 DEF ShapeInv, T
<1>5. Announced' = Announced \cup T
  BY <1>1, <1>2, <1>4 DEF Announced
<1>6. QED  BY <1>1, <1>4, <1>5 DEF ShapeInv, T

\* The transitions of a reconciliation, kind by kind.
LEMMA TransitionCases ==
  ASSUME NEW s, NEW rows, NEW t \in Transitions(s, rows)
  PROVE  /\ t.severity = rows[t.uid].finding.severity /\ t.at = rows[t.uid].updated
         /\ \/ t.kind = "opened" /\ t.uid \in Opened(s)
            \/ t.kind = "updated" /\ t.uid \in Changed(s)
            \/ t.kind = "resolved" /\ t.uid \in Resolved(s)
  BY DEF Transitions, Transition

-----------------------------------------------------------------------------
(* Steps that announce nothing new                                           *)

Like(x, y) == x.uid = y.uid /\ x.kind = y.kind /\ x.severity = y.severity /\ x.at = y.at

\* Nothing is announced that was not, and what was still is, except for the
\* announcements that are cancelled.
Quiet ==
  /\ \A x \in Announced' : \E y \in Announced : Like(x, y)
  /\ \A y \in Announced : y.uid \notin unannounced' =>
       \E x \in Announced' : x.uid = y.uid /\ x.kind = y.kind /\ x.at = y.at
  /\ unannounced \subseteq unannounced' /\ UNCHANGED <<incidents, overtaken>>

\* A scan goes on with what it read, or begins with the present evidence.
Steady(a) ==
  Scanning(a)' =>
    \/ Scanning(a) /\ scans'[a].now = scans[a].now /\ scans'[a].detections = scans[a].detections
    \/ scans'[a].now = clock /\ scans'[a].detections = Detections(evidence, Site, baseline)

\* It reconciles the rows it took, or takes the active ones.
Holds(a) ==
  Applying(a)' =>
    \/ Applying(a) /\ scans'[a].previous = scans[a].previous
    \/ scans'[a].previous = ActiveOf(incidents)

Silent == Quiet /\ \A a \in Actors : Holds(a)

LEMMA SteadyDetects ==
  ASSUME ShapeInv, DetectInv, UNCHANGED worldVars, \A a \in Actors : Steady(a)
  PROVE  DetectInv'
<1> USE DEF worldVars
<1>1. ASSUME NEW a \in Actors, Scanning(a)'
      PROVE  /\ Clear(scans'[a].detections) /\ scans'[a].now <= clock'
             /\ scans'[a].now = clock' =>
                  scans'[a].detections = Detections(evidence', Site, baseline')
  BY <1>1, DetectionsClear DEF DetectInv, Steady, ShapeInv
<1>2. ASSUME NEW a \in Actors, NEW b \in Actors, Scanning(a)', Scanning(b)',
             scans'[a].now = scans'[b].now
      PROVE  scans'[a].detections = scans'[b].detections
  BY <1>2 DEF DetectInv, Steady
<1>3. QED  BY <1>1, <1>2 DEF DetectInv

LEMMA SteadyClaims ==
  ASSUME ShapeInv, ClaimsInv, UNCHANGED worldVars, \A a \in Actors : Steady(a),
         \A x \in Announced' : \E y \in Announced : Like(x, y)
  PROVE  ClaimsInv'
<1> USE DEF worldVars
<1>1. \A t \in Claims' : \E y \in Claims : Like(t, y)
  BY DEF Claims, Like
<1>2. ASSUME NEW t \in Claims'
      PROVE  /\ t.at <= clock
             /\ t.at = clock => Says(Detections(evidence, Site, baseline), t)
             /\ \A a \in Actors :
                  Scanning(a)' /\ scans'[a].now = t.at => Says(scans'[a].detections, t)
  <2>1. PICK y \in Claims : Like(t, y)
    BY <1>1
  <2>2. \A detections : Says(detections, y) <=> Says(detections, t)
    BY <2>1 DEF Says, Like
  <2>3. /\ t.at <= clock
        /\ t.at = clock => Says(Detections(evidence, Site, baseline), t)
        /\ \A a \in Actors :
             Scanning(a) /\ scans[a].now = t.at => Says(scans[a].detections, t)
    BY <2>1, <2>2 DEF ClaimsInv, Like
  <2>4. ASSUME NEW a \in Actors, Scanning(a)', scans'[a].now = t.at
        PROVE  Says(scans'[a].detections, t)
    BY <2>3, <2>4 DEF Steady
  <2>5. QED  BY <2>3, <2>4
<1>3. ASSUME NEW t \in Claims', NEW r \in Claims', t.uid = r.uid, t.at = r.at
      PROVE  t.severity = r.severity
  BY <1>1, <1>3 DEF ClaimsInv, Like
<1>4. QED  BY <1>2, <1>3 DEF ClaimsInv, Says

LEMMA QuietTells ==
  ASSUME AllTold, Quiet
  PROVE  AllTold'
<1> SUFFICES ASSUME NEW u \in DOMAIN incidents, u \notin unannounced'
             PROVE  Told(u)'
  BY DEF AllTold, Quiet
<1>1. Told(u)
  BY DEF AllTold, Quiet
<1>2. \A kinds : AnnouncedAs(u, kinds) # {} => AnnouncedAs(u, kinds)' # {}
  BY DEF AnnouncedAs, Quiet
<1>3. ASSUME u \notin overtaken, NEW t \in LastClaims(u)'
      PROVE  t.severity = incidents[u].finding.severity
  <2>1. t \in Claims' /\ t.uid = u /\ \A r \in Claims' : r.uid = u => r.at <= t.at
    BY <1>3 DEF LastClaims
  <2>2. PICK y \in Claims : Like(t, y)
    BY <2>1 DEF Claims, Quiet, Like
  <2>3. ASSUME NEW r \in Claims, r.uid = u
        PROVE  r.at <= y.at
    <3>1. PICK x \in Claims' : x.uid = u /\ x.at = r.at
      BY <2>3 DEF Claims, Quiet
    <3>2. QED  BY <2>1, <2>2, <3>1 DEF Like
  <2>4. y \in LastClaims(u)
    BY <2>1, <2>2, <2>3 DEF LastClaims, Like
  <2>5. QED  BY <1>1, <1>3, <2>2, <2>4 DEF Told, Like
<1>4. QED  BY <1>1, <1>2, <1>3 DEF Told, Quiet

LEMMA QuietRecovers ==
  ASSUME RecoveryInv, Quiet
  PROVE  RecoveryInv'
  BY DEF RecoveryInv, Recoveries, Quiet, Like

LEMMA HoldsPrevious ==
  ASSUME ShapeInv, PreviousInv, \A a \in Actors : Holds(a), UNCHANGED incidents
  PROVE  PreviousInv'
<1> SUFFICES ASSUME NEW a \in Actors, Applying(a)', NEW u \in DOMAIN scans'[a].previous
             PROVE  u \in DOMAIN incidents /\ scans'[a].previous[u].key = u[1]
  BY DEF PreviousInv
<1>1. CASE Applying(a) /\ scans'[a].previous = scans[a].previous
  BY <1>1 DEF PreviousInv
<1>2. CASE scans'[a].previous = ActiveOf(incidents)
  BY <1>2 DEF ShapeInv, ActiveOf
<1>3. QED  BY <1>1, <1>2 DEF Holds

-----------------------------------------------------------------------------
(* Every step keeps the invariant                                            *)

LEMMA IncidentsInit == Init => IInv
<1> SUFFICES ASSUME Init PROVE IInv
  OBVIOUS
<1>1. scans = [a \in Actors |-> Idle] /\ \A a \in Actors : scans[a] = Idle
  BY DEF Init
<1>2. IsScan(Idle)
  BY DEF IsScan, Idle, Phases
<1>3. Announced = {}
  BY <1>1 DEF Init, Announced, Idle
<1>4. DOMAIN incidents = {}
  BY DEF Init
<1>5. ShapeInv
  BY <1>1, <1>2, <1>3, <1>4 DEF Init, ShapeInv
<1>6. \A a \in Actors : ~Scanning(a) /\ ~Applying(a)
  BY <1>1 DEF Scanning, Applying, Idle
<1>7. QED
  BY <1>3, <1>4, <1>5, <1>6 DEF IInv, DetectInv, PreviousInv, ClaimsInv, Claims, AllTold,
     RecoveryInv, Recoveries

\* A step of one scan leaves the others alone.
LEMMA OneScan ==
  ASSUME ShapeInv, NEW a \in Actors, NEW s, IsScan(s), scans' = [scans EXCEPT ![a] = s]
  PROVE  /\ DOMAIN scans' = Actors /\ scans'[a] = s
         /\ \A b \in Actors : IsScan(scans'[b])
         /\ \A b \in Actors : b # a =>
              scans'[b] = scans[b] /\ Steady(b) /\ Holds(b)
  BY DEF ShapeInv, Steady, Holds, Scanning, Applying

\* What is announced changes with the transitions of that scan only.
LEMMA OneScanAnnounced ==
  ASSUME ShapeInv, NEW a \in Actors, NEW s, IsScan(s), scans' = [scans EXCEPT ![a] = s]
  PROVE  /\ events' = events /\ s.transitions = scans[a].transitions => Announced' = Announced
         /\ Announced' \subseteq events' \cup Announced \cup s.transitions
         /\ \A t \in Announced : t \in Announced' \/ t \in scans[a].transitions \/ t \in events
         /\ events' \cup s.transitions \subseteq Announced'
<1>1. \A b \in Actors : scans'[b] = IF b = a THEN s ELSE scans[b]
  BY OneScan
<1>2. QED  BY <1>1 DEF Announced

LEMMA SameAnnouncedQuiet ==
  ASSUME Announced' = Announced, UNCHANGED <<incidents, unannounced, overtaken>>
  PROVE  Quiet
  BY DEF Quiet, Like

\* Everything but the shape follows for a step that announces nothing new.
LEMMA QuietKeeps ==
  ASSUME IInv, ShapeInv', Quiet, UNCHANGED worldVars, \A a \in Actors : Steady(a) /\ Holds(a)
  PROVE  IInv'
<1>1. DetectInv'
  BY SteadyDetects DEF IInv
<1>2. PreviousInv'
  BY HoldsPrevious DEF IInv, Quiet
<1>3. ClaimsInv'
  BY SteadyClaims DEF IInv, Quiet
<1>4. AllTold' /\ RecoveryInv'
  BY QuietTells, QuietRecovers DEF IInv
<1>5. QED  BY <1>1, <1>2, <1>3, <1>4 DEF IInv

LEMMA QuietShape ==
  ASSUME ShapeInv, Quiet, UNCHANGED <<clock, openings>>, DOMAIN scans' = Actors,
         \A a \in Actors : IsScan(scans'[a])
  PROVE  ShapeInv'
<1>1. \A t \in Announced' : t.uid \in DOMAIN incidents /\ t.at \in Nat
  BY DEF ShapeInv, Quiet, Like
<1>2. QED  BY <1>1 DEF ShapeInv, Quiet, IsRow

LEMMA ObserveKeeps ==
  ASSUME IInv, NEW o, Observe(o)
  PROVE  IInv' /\ Silent
<1>0. ShapeInv /\ DetectInv /\ PreviousInv /\ ClaimsInv /\ AllTold /\ RecoveryInv
  BY DEF IInv
<1>1. UNCHANGED <<incidents, openings, events, scans, unannounced, overtaken>> /\ clock' = clock + 1
  BY DEF Observe, storeVars, historyVars
<1>2. Announced' = Announced /\ Claims' = Claims /\ Recoveries' = Recoveries
  BY <1>1 DEF Announced, Claims, Recoveries
<1>3. ShapeInv'
  BY <1>0, <1>1, <1>2 DEF ShapeInv, IsRow, IsScan
<1>4. DetectInv'
  BY <1>0, <1>1 DEF DetectInv, ShapeInv, IsScan, Scanning, Clear
<1>5. PreviousInv' /\ RecoveryInv'
  BY <1>0, <1>1, <1>2 DEF PreviousInv, Applying, RecoveryInv
<1>6. ClaimsInv'
  <2>1. \A t \in Claims : t.at \in Nat /\ t.at <= clock
    BY <1>0 DEF ClaimsInv, ShapeInv, Claims
  <2>2. clock \in Nat
    BY <1>0 DEF ShapeInv
  <2>3. QED  BY <1>0, <1>1, <1>2, <2>1, <2>2 DEF ClaimsInv, Scanning, Says
<1>7. AllTold'
  BY <1>0, <1>1, <1>2 DEF AllTold, Told, AnnouncedAs, LastClaims
<1>8. Silent
  BY <1>1, <1>2, SameAnnouncedQuiet DEF Silent, Holds, Applying
<1>9. QED  BY <1>3, <1>4, <1>5, <1>6, <1>7, <1>8 DEF IInv

LEMMA BeginScanKeeps ==
  ASSUME IInv, NEW a \in Actors, BeginScan(a)
  PROVE  IInv' /\ Silent
<1>0. ShapeInv
  BY DEF IInv
<1> DEFINE s == [Idle EXCEPT !.phase = "read", !.now = clock,
                             !.detections = Detections(evidence, Site, baseline)]
<1>1. /\ scans[a].phase = "idle" /\ scans' = [scans EXCEPT ![a] = s]
      /\ UNCHANGED <<clock, evidence, baseline, incidents, openings, events, historyVars>>
  BY DEF BeginScan, worldVars, storeVars
<1>2. /\ IsScan(s) /\ s.transitions = {} /\ s.phase = "read" /\ s.now = clock
      /\ s.detections = Detections(evidence, Site, baseline)
  BY <1>0 DEF Idle, IsScan, Phases, ShapeInv
<1> HIDE DEF s
<1>3. scans[a].transitions = {}
  BY <1>0, <1>1 DEF ShapeInv, IsScan
<1>4. Announced' = Announced
  BY <1>0, <1>1, <1>2, <1>3, OneScanAnnounced
<1>5. Quiet
  BY <1>1, <1>4, SameAnnouncedQuiet DEF historyVars
<1>6. \A b \in Actors : Steady(b) /\ Holds(b)
  BY <1>0, <1>1, <1>2, OneScan DEF Steady, Holds, Applying
<1>7. ShapeInv'
  BY <1>0, <1>1, <1>2, <1>5, OneScan, QuietShape
<1>8. QED  BY <1>1, <1>5, <1>6, <1>7, QuietKeeps DEF Silent, worldVars

LEMMA ReadActiveKeeps ==
  ASSUME IInv, NEW a \in Actors, ReadActive(a)
  PROVE  IInv' /\ Silent
<1>0. ShapeInv
  BY DEF IInv
<1> DEFINE s == [scans[a] EXCEPT !.phase = "apply", !.previous = ActiveOf(incidents)]
<1>1. /\ scans[a].phase = "read" /\ scans' = [scans EXCEPT ![a] = s]
      /\ UNCHANGED <<clock, evidence, baseline, incidents, openings, events, historyVars>>
  BY <1>0 DEF ReadActive, ActiveRows, worldVars, storeVars, ShapeInv
<1>2. /\ IsScan(s) /\ s.transitions = scans[a].transitions /\ s.phase = "apply"
      /\ s.now = scans[a].now /\ s.detections = scans[a].detections
      /\ s.previous = ActiveOf(incidents)
  BY <1>0, <1>1 DEF IsScan, Phases, ShapeInv
<1> HIDE DEF s
<1>3. Announced' = Announced
  BY <1>0, <1>1, <1>2, OneScanAnnounced
<1>4. Quiet
  BY <1>1, <1>3, SameAnnouncedQuiet DEF historyVars
<1>5. \A b \in Actors : Steady(b) /\ Holds(b)
  BY <1>0, <1>1, <1>2, OneScan DEF Steady, Holds, Applying, Scanning
<1>6. ShapeInv'
  BY <1>0, <1>1, <1>2, <1>4, OneScan, QuietShape
<1>7. QED  BY <1>1, <1>4, <1>5, <1>6, QuietKeeps DEF Silent, worldVars

LEMMA IdleIsScan == IsScan(Idle) /\ Idle.phase = "idle" /\ Idle.transitions = {}
  BY DEF Idle, IsScan, Phases

LEMMA RaisesKeeps ==
  ASSUME IInv, NEW a \in Actors, ReconcileRaises(a)
  PROVE  IInv' /\ Silent
<1>0. ShapeInv
  BY DEF IInv
<1>1. /\ scans[a].phase = "apply" /\ scans' = [scans EXCEPT ![a] = Idle]
      /\ UNCHANGED <<clock, evidence, baseline, incidents, openings, events, historyVars>>
  BY DEF ReconcileRaises, worldVars, storeVars
<1>2. scans[a].transitions = {}
  BY <1>0, <1>1 DEF ShapeInv, IsScan
<1>3. Announced' = Announced
  BY <1>0, <1>1, <1>2, IdleIsScan, OneScanAnnounced
<1>4. Quiet
  BY <1>1, <1>3, SameAnnouncedQuiet DEF historyVars
<1>5. \A b \in Actors : Steady(b) /\ Holds(b)
  BY <1>0, <1>1, IdleIsScan, OneScan DEF Steady, Holds, Applying, Scanning
<1>6. ShapeInv'
  BY <1>0, <1>1, <1>4, IdleIsScan, OneScan, QuietShape
<1>7. QED  BY <1>1, <1>4, <1>5, <1>6, QuietKeeps DEF Silent, worldVars

LEMMA AnnouncingIsScan ==
  ASSUME NEW transitions
  PROVE  /\ IsScan(Announcing(transitions)) /\ Announcing(transitions).transitions = transitions
         /\ Announcing(transitions).phase \in {"idle", "record"}
<1>1. CASE transitions = {}
  BY <1>1, IdleIsScan DEF Announcing
<1>2. CASE transitions # {}
  BY <1>2 DEF Announcing, Idle, IsScan, Phases
<1>3. QED  BY <1>1, <1>2

LEMMA CancelKeeps ==
  ASSUME IInv, NEW a \in Actors, Cancel(a)
  PROVE  IInv' /\ Silent
<1>0. ShapeInv
  BY DEF IInv
<1>1. /\ scans' = [scans EXCEPT ![a] = Idle]
      /\ UNCHANGED <<clock, evidence, baseline, incidents, openings, events, overtaken>>
      /\ unannounced' = unannounced \cup {t.uid : t \in scans[a].transitions}
  BY DEF Cancel, worldVars, storeVars
<1>2. Announced' \subseteq Announced
  BY <1>0, <1>1, IdleIsScan, OneScanAnnounced DEF Announced
<1>3. \A y \in Announced : y.uid \notin unannounced' => y \in Announced'
  BY <1>0, <1>1, IdleIsScan, OneScanAnnounced
<1>4. Quiet
  BY <1>1, <1>2, <1>3 DEF Quiet, Like
<1>5. \A b \in Actors : Steady(b) /\ Holds(b)
  BY <1>0, <1>1, IdleIsScan, OneScan DEF Steady, Holds, Applying, Scanning
<1>6. ShapeInv'
  BY <1>0, <1>1, <1>4, IdleIsScan, OneScan, QuietShape
<1>7. QED  BY <1>1, <1>4, <1>5, <1>6, QuietKeeps DEF Silent, worldVars

\* The event of a transition, or the one with its dedupe key that is there.
LEMMA RecordStep ==
  ASSUME ShapeInv, NEW a \in Actors, RecordEvent(a)
  PROVE  \E t \in scans[a].transitions :
           /\ scans' = [scans EXCEPT ![a] = Announcing(scans[a].transitions \ {t})]
           /\ events' = Inserted(a, t)
           /\ t \in Announced
           /\ UNCHANGED <<clock, evidence, baseline, incidents, openings, historyVars>>
<1> DEFINE t == CHOOSE t \in scans[a].transitions : TRUE
<1>1. t \in scans[a].transitions
  BY DEF ShapeInv, IsScan, RecordEvent
<1>2. t \in Announced
  BY <1>1 DEF Announced
<1>3. QED  BY <1>1, <1>2 DEF RecordEvent, worldVars, ShapeInv

LEMMA RecordEventKeeps ==
  ASSUME IInv, NEW a \in Actors, RecordEvent(a)
  PROVE  IInv' /\ Silent
<1>0. ShapeInv /\ ClaimsInv
  BY DEF IInv
<1>1. PICK t \in scans[a].transitions :
        /\ scans' = [scans EXCEPT ![a] = Announcing(scans[a].transitions \ {t})]
        /\ events' = Inserted(a, t)
        /\ t \in Announced
        /\ UNCHANGED <<clock, evidence, baseline, incidents, openings, historyVars>>
  BY <1>0, RecordStep
<1> DEFINE s == Announcing(scans[a].transitions \ {t})
<1>2. /\ IsScan(s) /\ s.transitions = scans[a].transitions \ {t}
      /\ s.phase \in {"idle", "record"}
  BY AnnouncingIsScan
<1>3. scans' = [scans EXCEPT ![a] = s]
  BY <1>1
<1> HIDE DEF s
<1>4. /\ Announced' \subseteq events' \cup Announced
      /\ \A y \in Announced : y \in Announced' \/ y \in scans[a].transitions \/ y \in events
      /\ events' \cup s.transitions \subseteq Announced'
  BY <1>0, <1>2, <1>3, OneScanAnnounced DEF Announced
<1> DEFINE e == [uid |-> t.uid, kind |-> t.kind, severity |-> t.severity, at |-> t.at, by |-> a]
<1>5. events \subseteq events' /\ events' \subseteq events \cup {e} /\ events \subseteq Announced
  BY <1>1 DEF Inserted, Announced
<1>6. \A x \in Announced' : \E y \in Announced : Like(x, y)
  BY <1>1, <1>4, <1>5 DEF Like
<1>7. \E x \in events' : x.uid = t.uid /\ x.kind = t.kind /\ x.at = t.at
  <2>1. CASE \E x \in events : SameKey(x, t)
    BY <1>5, <2>1 DEF SameKey
  <2>2. CASE ~\E x \in events : SameKey(x, t)
    <3>1. e \in events'
      BY <1>1, <2>2 DEF Inserted
    <3>2. e.uid = t.uid /\ e.kind = t.kind /\ e.at = t.at
      OBVIOUS
    <3>3. QED  BY <3>1, <3>2
  <2>3. QED  BY <2>1, <2>2
<1>8. ASSUME NEW y \in Announced
      PROVE  \E x \in Announced' : x.uid = y.uid /\ x.kind = y.kind /\ x.at = y.at
  <2>1. CASE y = t
    BY <1>4, <1>7, <2>1
  <2>2. CASE y # t
    BY <1>2, <1>4, <1>5, <2>2
  <2>3. QED  BY <2>1, <2>2
<1>9. Quiet
  BY <1>1, <1>6, <1>8 DEF Quiet, historyVars
<1>10. \A b \in Actors : Steady(b) /\ Holds(b)
  BY <1>0, <1>2, <1>3, OneScan DEF Steady, Holds, Applying, Scanning
<1>11. ShapeInv'
  BY <1>0, <1>1, <1>2, <1>3, <1>9, OneScan, QuietShape
<1>12. QED  BY <1>1, <1>9, <1>10, <1>11, QuietKeeps DEF Silent, worldVars

LEMMA ReconcileKeeps ==
  ASSUME IInv, NEW a \in Actors, Reconcile(a)
  PROVE  IInv'
<1> DEFINE s == scans[a]
           T == Transitions(s, incidents')
<1>0. ShapeInv /\ DetectInv /\ PreviousInv /\ ClaimsInv /\ AllTold /\ RecoveryInv
  BY DEF IInv
<1>1. /\ UNCHANGED <<clock, evidence, baseline, events, unannounced>>
      /\ openings' = IF Opened(s) = {} THEN openings ELSE openings + 1
      /\ scans' = [scans EXCEPT ![a] = Announcing(T)]
      /\ overtaken' = (overtaken \ Retold(s)) \cup Overtaken(s)
  BY DEF Reconcile, worldVars
<1>2. /\ Applying(a) /\ Scanning(a) /\ DOMAIN incidents' = DOMAIN incidents \cup Opened(s)
      /\ \A u \in DOMAIN incidents' : incidents'[u] = Reconciled(s, u)
      /\ Announced' = Announced \cup T
  BY <1>0, ReconcileStep DEF Applying, Scanning
<1>3. s.now \in Nat /\ openings \in Nat /\ IsScan(s)
  BY <1>0 DEF ShapeInv, IsScan
<1>4. /\ DOMAIN scans' = Actors /\ \A b \in Actors : IsScan(scans'[b])
      /\ \A b \in Actors : Steady(b)
      /\ \A b \in Actors : Scanning(b)' => b # a /\ Scanning(b) /\ scans'[b] = scans[b]
      /\ \A b \in Actors : Applying(b)' => b # a /\ Applying(b) /\ scans'[b] = scans[b]
  <2>1. IsScan(Announcing(T)) /\ Announcing(T).phase \in {"idle", "record"}
    BY AnnouncingIsScan
  <2>2. /\ DOMAIN scans' = Actors /\ scans'[a] = Announcing(T)
        /\ \A b \in Actors : IsScan(scans'[b])
        /\ \A b \in Actors : b # a => scans'[b] = scans[b] /\ Steady(b)
    BY <1>0, <1>1, <2>1, OneScan
  <2>3. ~Scanning(a)' /\ ~Applying(a)' /\ Steady(a)
    BY <2>1, <2>2 DEF Steady, Scanning, Applying
  <2>4. QED  BY <2>2, <2>3 DEF Scanning, Applying
<1>5. ASSUME NEW u \in Opened(s)
      PROVE  /\ u \notin DOMAIN incidents /\ u \in DOMAIN incidents' /\ u[2] = openings'
             /\ IsRow(incidents'[u]) /\ incidents'[u].key = u[1]
             /\ incidents'[u].state = "active" /\ incidents'[u].updated = s.now
             /\ incidents'[u].finding = FindingOf(s, u[1])
  <2>1. u \notin DOMAIN incidents /\ u \in DOMAIN incidents' /\ u[2] = openings'
    BY <1>0, <1>1, <1>2, OpenedFresh
  <2>2. incidents'[u] = Row(s, u[1])
    BY <1>0, <1>2, <2>1, OpenedRow
  <2>3. QED  BY <1>3, <2>1, <2>2 DEF Row, IsRow
<1>6. ASSUME NEW u \in DOMAIN incidents
      PROVE  LET r == incidents'[u] IN
             /\ IsRow(r) /\ r.key = incidents[u].key
             /\ \/ u \in Updated(s) /\ r.state = incidents[u].state
                   /\ r.finding = FindingOf(s, u[1]) /\ r.updated = s.now
                \/ u \notin Updated(s) /\ u \in Resolved(s) /\ incidents[u].state = "active"
                   /\ r.state = "resolved" /\ r.finding = incidents[u].finding
                   /\ r.updated = s.now
                \/ u \notin Updated(s) /\ (u \in Resolved(s) => incidents[u].state = "resolved")
                   /\ r = incidents[u]
  BY <1>0, <1>2, ReconciledRow
<1>7. ASSUME NEW t \in T
      PROVE  /\ t.uid \in DOMAIN incidents' /\ t.severity = incidents'[t.uid].finding.severity
             /\ t.at = incidents'[t.uid].updated
             /\ \/ t.kind = "opened" /\ t.uid \in Opened(s)
                \/ t.kind = "updated" /\ t.uid \in Changed(s) /\ t.uid \in Updated(s)
                   /\ t.uid \in DOMAIN incidents
                \/ t.kind = "resolved" /\ t.uid \in Resolved(s) /\ t.uid \in DOMAIN incidents
  BY <1>0, <1>2, TransitionCases DEF PreviousInv, Changed, Updated, Resolved
<1>8. /\ \A u \in Opened(s) : Transition(u, "opened", incidents'[u]) \in T
      /\ \A u \in Changed(s) : Transition(u, "updated", incidents'[u]) \in T
      /\ \A u \in Resolved(s) : Transition(u, "resolved", incidents'[u]) \in T
  BY DEF Transitions
<1> HIDE DEF T
<1>9. ShapeInv'
  <2>1. ASSUME NEW u \in DOMAIN incidents'
        PROVE  IsRow(incidents'[u]) /\ u[1] = incidents'[u].key /\ u[2] \in Nat /\ u[2] <= openings'
    <3>1. CASE u \in Opened(s)
      <4>1. openings' \in Nat
        BY <1>1, <1>3
      <4>2. IsRow(incidents'[u]) /\ incidents'[u].key = u[1] /\ u[2] = openings'
        BY <1>5, <3>1
      <4>3. QED  BY <4>1, <4>2
    <3>2. CASE u \in DOMAIN incidents
      BY <1>0, <1>1, <1>3, <1>6, <3>2 DEF ShapeInv
    <3>3. QED  BY <1>2, <3>1, <3>2
  <2>2. ASSUME NEW t \in Announced' PROVE t.uid \in DOMAIN incidents' /\ t.at \in Nat
    BY <1>0, <1>2, <1>7, <2>1 DEF ShapeInv, IsRow
  <2>3. clock' \in Nat /\ openings' \in Nat
    BY <1>0, <1>1, <1>3 DEF ShapeInv
  <2>4. QED  BY <1>4, <2>1, <2>2, <2>3 DEF ShapeInv
<1>10. DetectInv'
  BY <1>0, <1>1, <1>4, SteadyDetects DEF worldVars
<1>11. PreviousInv'
  BY <1>0, <1>2, <1>4 DEF PreviousInv
<1>12. ASSUME NEW t \in T, t.kind \in {"opened", "updated"}
       PROVE  t.at = s.now /\ Says(s.detections, t)
  <2>1. t.at = s.now /\ t.severity = FindingOf(s, t.uid[1]).severity
    <3>1. CASE t.uid \in Opened(s)
      BY <1>5, <1>7, <3>1
    <3>2. CASE t.uid \in Updated(s) /\ t.uid \in DOMAIN incidents
      BY <1>6, <1>7, <3>2
    <3>3. QED  BY <1>7, <1>12, <3>1, <3>2
  <2>2. QED  BY <2>1 DEF Says, FindingOf
<1>13. ClaimsInv'
  <2>1. Claims' = Claims \cup {t \in T : t.kind \in {"opened", "updated"}}
    BY <1>2 DEF Claims
  <2>2. ASSUME NEW t \in Claims', t.at = s.now PROVE Says(s.detections, t)
    BY <1>0, <1>2, <1>12, <2>1, <2>2 DEF ClaimsInv
  <2>3. ASSUME NEW t \in Claims'
        PROVE  /\ t.at <= clock
               /\ t.at = clock => Says(Detections(evidence, Site, baseline), t)
               /\ \A b \in Actors :
                    Scanning(b)' /\ scans'[b].now = t.at => Says(scans'[b].detections, t)
    <3>1. CASE t \in Claims
      BY <1>0, <1>4, <3>1 DEF ClaimsInv
    <3>2. CASE t \in T /\ t.kind \in {"opened", "updated"}
      BY <1>0, <1>2, <1>4, <1>12, <3>2 DEF DetectInv
    <3>3. QED  BY <2>1, <3>1, <3>2
  <2>4. ASSUME NEW t \in Claims', NEW r \in Claims', t.uid = r.uid, t.at = r.at
        PROVE  t.severity = r.severity
    <3>1. CASE t \in Claims /\ r \in Claims
      BY <1>0, <2>4, <3>1 DEF ClaimsInv
    <3>2. CASE t \in T \/ r \in T
      <4>1. t.at = s.now /\ r.at = s.now
        BY <1>12, <2>4, <3>2 DEF Claims
      <4>2. QED  BY <2>2, <2>4, <4>1 DEF Says
    <3>3. QED  BY <2>1, <3>1, <3>2
  <2>5. QED  BY <1>1, <2>3, <2>4 DEF ClaimsInv
<1>14. ASSUME NEW u, u \notin overtaken',
              (u \in DOMAIN incidents /\ u \notin unannounced) \/ u \in Opened(s),
              NEW t \in LastClaims(u)'
       PROVE  t.severity = incidents'[u].finding.severity
  <2>1. t \in Claims' /\ t.uid = u /\ \A r \in Claims' : r.uid = u => r.at <= t.at
    BY <1>14 DEF LastClaims
  <2>2. CASE t \in T
    BY <1>7, <2>1, <2>2
  <2>3. CASE t \notin T
    <3>1. t \in Claims /\ t \in Announced /\ u \in DOMAIN incidents /\ u \notin Opened(s)
      BY <1>0, <1>2, <1>5, <2>1, <2>3 DEF Claims, ShapeInv
    <3>2. CASE u \in Changed(s)
      <4>1. u \in Retold(s)
        BY <1>1, <1>14, <3>2 DEF Overtaken
      <4>2. t.at <= s.now
        BY <2>1, <3>1, <4>1 DEF Retold
      <4> DEFINE r == Transition(u, "updated", incidents'[u])
      <4>3. r \in T /\ r.kind = "updated" /\ r.uid = u
        BY <1>8, <3>2 DEF Transition
      <4> HIDE DEF r
      <4>4. r \in Claims' /\ r.at = s.now /\ r.severity = incidents'[u].finding.severity
        BY <1>2, <1>7, <1>12, <4>3 DEF Claims
      <4>5. t.at = r.at
        <5>1. t.at \in Nat /\ s.now <= t.at
          BY <1>0, <2>1, <3>1, <4>3, <4>4 DEF ShapeInv
        <5>2. QED  BY <1>3, <4>2, <4>4, <5>1
      <4>6. QED  BY <1>13, <2>1, <4>3, <4>4, <4>5 DEF ClaimsInv
    <3>3. CASE u \notin Changed(s)
      <4>1. u \notin overtaken
        BY <1>1, <1>14, <3>3 DEF Retold
      <4>2. t \in LastClaims(u)
        BY <1>2, <2>1, <3>1 DEF LastClaims, Claims
      <4>3. t.severity = incidents[u].finding.severity
        BY <1>0, <1>14, <3>1, <4>1, <4>2 DEF AllTold, Told
      <4>4. CASE u \in Updated(s)
        <5>1. s.previous[u].key = u[1] /\ u \in DOMAIN s.previous
          BY <1>0, <1>2, <4>4 DEF PreviousInv, Updated
        <5>2. Explained(s.previous[u].finding) = Explained(FindingOf(s, u[1]))
          BY <3>3, <4>4, <5>1 DEF Changed
        <5>3. s.previous[u].finding.severity = FindingOf(s, u[1]).severity
          BY <5>2 DEF Explained
        <5>4. incidents[u].finding.severity = s.previous[u].finding.severity
          BY <1>1, <1>14, <3>3, <4>4 DEF Overtaken
        <5>5. incidents'[u].finding = FindingOf(s, u[1])
          BY <1>6, <3>1, <4>4
        <5>6. QED  BY <4>3, <5>3, <5>4, <5>5
      <4>5. CASE u \notin Updated(s)
        <5>1. incidents'[u].finding = incidents[u].finding
          BY <1>6, <3>1, <4>5
        <5>2. QED  BY <4>3, <5>1
      <4>6. QED  BY <4>4, <4>5
    <3>4. QED  BY <3>2, <3>3
  <2>4. QED  BY <2>2, <2>3
<1>15. ASSUME NEW u \in DOMAIN incidents' \ unannounced' PROVE Told(u)'
  <2>1. CASE u \in Opened(s)
    <3>1. Transition(u, "opened", incidents'[u]) \in Announced'
      BY <1>2, <1>8, <2>1
    <3>2. AnnouncedAs(u, {"opened"})' # {}
      BY <3>1 DEF AnnouncedAs, Transition
    <3>3. incidents'[u].state = "active"
      BY <1>5, <2>1
    <3>4. QED  BY <1>14, <2>1, <3>2, <3>3 DEF Told
  <2>2. CASE u \in DOMAIN incidents
    <3>1. Told(u) /\ u \notin unannounced
      BY <1>0, <1>1, <1>15, <2>2 DEF AllTold
    <3>2. AnnouncedAs(u, {"opened"})' # {}
      BY <1>2, <3>1 DEF Told, AnnouncedAs
    <3>3. incidents'[u].state = "resolved" => AnnouncedAs(u, {"resolved"})' # {}
      <4>1. CASE u \in Resolved(s)
        <5>1. Transition(u, "resolved", incidents'[u]) \in Announced'
          BY <1>2, <1>8, <4>1
        <5>2. QED  BY <5>1 DEF AnnouncedAs, Transition
      <4>2. CASE u \notin Resolved(s)
        <5>1. incidents'[u].state = incidents[u].state
          BY <1>6, <2>2, <4>2
        <5>2. QED  BY <1>2, <3>1, <5>1 DEF Told, AnnouncedAs
      <4>3. QED  BY <4>1, <4>2
    <3>4. QED  BY <1>14, <2>2, <3>1, <3>2, <3>3 DEF Told
  <2>3. QED  BY <1>2, <1>15, <2>1, <2>2
<1>16. AllTold'
  BY <1>15 DEF AllTold
<1>17. RecoveryInv'
  <2>1. ASSUME NEW t \in Recoveries' PROVE incidents'[t.uid].state = "resolved"
    <3>1. CASE t \in T
      BY <1>6, <1>7, <3>1, ResolvedApart DEF Recoveries
    <3>2. CASE t \in Announced
      <4>1. t.uid \in DOMAIN incidents /\ incidents[t.uid].state = "resolved"
        BY <1>0, <3>2 DEF RecoveryInv, Recoveries, ShapeInv
      <4>2. QED  BY <1>6, <4>1
    <3>3. QED  BY <1>2, <3>1, <3>2 DEF Recoveries
  <2>2. QED  BY <2>1 DEF RecoveryInv
<1>18. QED  BY <1>9, <1>10, <1>11, <1>13, <1>16, <1>17 DEF IInv

LEMMA Inductive == Spec => []IInv
<1>1. IInv /\ [Next]_vars => IInv'
  <2> SUFFICES ASSUME IInv, [Next]_vars PROVE IInv'
    OBVIOUS
  <2>1. CASE \E o \in Observations : Observe(o)
    BY <2>1, ObserveKeeps
  <2>2. CASE \E a \in Actors : BeginScan(a) \/ Continue(a) \/ Cancel(a)
    BY <2>2, BeginScanKeeps, ReadActiveKeeps, ReconcileKeeps, RaisesKeeps, RecordEventKeeps,
       CancelKeeps DEF Continue
  <2>3. CASE UNCHANGED vars
    <3>1. /\ UNCHANGED <<clock, evidence, baseline, incidents, openings, events, scans,
                       unannounced, overtaken>>
          /\ Announced' = Announced
      BY <2>3 DEF vars, worldVars, storeVars, historyVars, Announced
    <3>2. \A a \in Actors : Steady(a) /\ Holds(a)
      BY <3>1 DEF Steady, Holds, Scanning, Applying
    <3>3. ShapeInv'
      BY <3>1 DEF IInv, ShapeInv, IsRow, IsScan
    <3>4. QED  BY <3>1, <3>2, <3>3, SameAnnouncedQuiet, QuietKeeps DEF worldVars
  <2>4. QED  BY <2>1, <2>2, <2>3 DEF Next
<1>2. QED  BY <1>1, IncidentsInit, PTL DEF Spec

-----------------------------------------------------------------------------
(* Two services                                                              *)

LEMMA ExclusiveNext ==
  ASSUME ShapeInv, Exclusive, [Next]_vars
  PROVE  Exclusive'
<1>1. CASE \A a \in Actors : scans'[a].phase # "idle" => scans[a].phase # "idle"
  BY <1>1 DEF Exclusive
<1>2. CASE \E a \in Actors : BeginScan(a)
  <2>1. PICK a \in Actors : BeginScan(a)
    BY <1>2
  <2>2. \A b \in Actors : b # a => scans'[b] = scans[b]
    BY <2>1 DEF BeginScan, ShapeInv
  <2>3. \A b \in Actors : ServiceOf[b] = ServiceOf[a] => scans[b].phase = "idle"
    BY <2>1 DEF BeginScan
  <2>4. QED  BY <2>2, <2>3 DEF Exclusive
<1>3. CASE \E a \in Actors : Continue(a) \/ Cancel(a)
  <2>1. PICK a \in Actors : Continue(a) \/ Cancel(a)
    BY <1>3
  <2>2. scans[a].phase # "idle"
    BY <2>1 DEF Continue, ReadActive, Reconcile, ReconcileRaises, RecordEvent, Cancel
  <2>3. \A b \in Actors : b # a => scans'[b] = scans[b]
    <3>1. \E s : scans' = [scans EXCEPT ![a] = s]
      BY <2>1 DEF Continue, ReadActive, Reconcile, ReconcileRaises, RecordEvent, Cancel
    <3>2. QED  BY <3>1 DEF ShapeInv
  <2>4. QED  BY <1>1, <2>2, <2>3
<1>4. CASE UNCHANGED scans
  BY <1>1, <1>4
<1>5. QED  BY <1>2, <1>3, <1>4 DEF Next, Observe, vars

LEMMA QuietStamp ==
  ASSUME IInv, StampInv, Silent,
         \A e, f \in events' : SameKey(e, f) => e = f
  PROVE  StampInv'
<1>0. RecoveryInv /\ UNCHANGED incidents
  BY DEF IInv, Silent, Quiet
<1>1. \A t \in Recoveries' : \E y \in Recoveries : Like(t, y)
  BY DEF Silent, Quiet, Recoveries, Like
<1>2. ASSUME NEW u \in DOMAIN incidents, incidents[u].state = "resolved", NEW a \in Actors,
             Applying(a)', u \in DOMAIN scans'[a].previous
      PROVE  Applying(a) /\ u \in DOMAIN scans[a].previous
  BY <1>2 DEF Silent, Holds, ActiveOf
<1>3. \A t \in Recoveries' : t.uid \in DOMAIN incidents /\ incidents[t.uid].state = "resolved"
  BY <1>0, <1>1 DEF IInv, ShapeInv, RecoveryInv, Recoveries, Like
<1>4. \A a, b \in Actors, u \in DOMAIN incidents' :
        /\ incidents'[u].state = "resolved" /\ Applying(a)' /\ Applying(b)'
        /\ u \in DOMAIN scans'[a].previous /\ u \in DOMAIN scans'[b].previous
        => a = b
  BY <1>0, <1>2 DEF StampInv
<1>5. \A t, r \in Recoveries' : t.uid = r.uid => t.at = r.at
  BY <1>1 DEF StampInv, Like
<1>6. ASSUME NEW t \in Recoveries', NEW a \in Actors, Applying(a)',
             t.uid \in DOMAIN scans'[a].previous
      PROVE  t.at = incidents'[t.uid].updated
  <2>1. PICK y \in Recoveries : Like(t, y)
    BY <1>1
  <2>2. Applying(a) /\ y.uid \in DOMAIN scans[a].previous
    BY <1>2, <1>3, <1>6, <2>1 DEF Like
  <2>3. QED  BY <1>0, <2>1, <2>2 DEF StampInv, Like
<1>7. QED  BY <1>4, <1>5, <1>6 DEF StampInv, SameKey

LEMMA ReconcileStamp ==
  ASSUME TwoServices, IInv, Exclusive, StampInv, NEW a \in Actors, Reconcile(a)
  PROVE  StampInv'
<1> DEFINE s == scans[a]
           T == Transitions(s, incidents')
<1>0. ShapeInv /\ PreviousInv /\ RecoveryInv
  BY DEF IInv
<1>1. /\ Applying(a) /\ DOMAIN incidents' = DOMAIN incidents \cup Opened(s)
      /\ \A u \in DOMAIN incidents' : incidents'[u] = Reconciled(s, u)
      /\ Announced' = Announced \cup T /\ events' = events
  BY <1>0, ReconcileStep DEF Reconcile
<1>2. \A b \in Actors : Applying(b)' => b # a /\ Applying(b) /\ scans'[b] = scans[b]
  <2>1. scans' = [scans EXCEPT ![a] = Announcing(T)]
    BY DEF Reconcile
  <2>2. QED  BY <1>0, <2>1, OneScan, AnnouncingIsScan DEF Applying
<1>3. ASSUME NEW u \in DOMAIN incidents, incidents[u].state = "resolved"
      PROVE  /\ incidents'[u].state = "resolved"
             /\ u \notin Updated(s) => incidents'[u] = incidents[u]
  BY <1>0, <1>1, <1>3, ReconciledRow
<1>4. ASSUME NEW t \in T, t.kind = "resolved"
      PROVE  /\ t.at = incidents'[t.uid].updated /\ t.uid \in DOMAIN incidents
             /\ t.uid \in DOMAIN s.previous /\ t.uid \notin Updated(s)
  BY <1>0, <1>1, <1>4, TransitionCases, ResolvedApart DEF PreviousInv, Resolved
<1>5. \A b \in Actors : \A u : Applying(b)' /\ u \in DOMAIN scans'[b].previous =>
        u \in DOMAIN incidents /\ Applying(b) /\ b # a /\ u \in DOMAIN scans[b].previous
  BY <1>0, <1>2 DEF PreviousInv
<1>6. \A t \in Recoveries : t.uid \in DOMAIN incidents /\ incidents[t.uid].state = "resolved"
  BY <1>0 DEF ShapeInv, RecoveryInv, Recoveries
<1> HIDE DEF T
<1>7. Recoveries' = Recoveries \cup {t \in T : t.kind = "resolved"}
  BY <1>1 DEF Recoveries
<1>8. ASSUME NEW b \in Actors, NEW c \in Actors, NEW u \in DOMAIN incidents',
             Applying(b)', Applying(c)',
             u \in DOMAIN scans'[b].previous, u \in DOMAIN scans'[c].previous
      PROVE  b = c
  <2>1. scans[a].phase # "idle" /\ scans[b].phase # "idle" /\ scans[c].phase # "idle"
        /\ b # a /\ c # a
    BY <1>1, <1>2, <1>8 DEF Applying
  <2>2. QED  BY <2>1 DEF TwoServices, Exclusive
<1>9. ASSUME NEW t \in Recoveries', NEW r \in Recoveries', t.uid = r.uid
      PROVE  t.at = r.at
  <2>1. ASSUME NEW x \in Recoveries, NEW y \in T, y.kind = "resolved", x.uid = y.uid
        PROVE  x.at = y.at
    <3>1. incidents'[x.uid] = incidents[x.uid]
      BY <1>3, <1>4, <1>6, <2>1
    <3>2. x.at = incidents[x.uid].updated
      BY <1>1, <1>4, <2>1 DEF StampInv
    <3>3. QED  BY <1>4, <2>1, <3>1, <3>2
  <2>2. CASE t \in Recoveries /\ r \in Recoveries
    BY <1>9, <2>2 DEF StampInv
  <2>3. CASE t \in T /\ r \in T
    BY <1>4, <1>9, <2>3 DEF Recoveries
  <2>4. QED  BY <1>7, <1>9, <2>1, <2>2, <2>3
<1>10. ASSUME NEW t \in Recoveries', NEW b \in Actors, Applying(b)',
              t.uid \in DOMAIN scans'[b].previous
       PROVE  t.at = incidents'[t.uid].updated
  <2>1. CASE t \in T
    BY <1>4, <2>1 DEF Recoveries
  <2>2. CASE t \in Recoveries
    <3>1. t.uid \in DOMAIN incidents /\ incidents[t.uid].state = "resolved"
      BY <1>6, <2>2
    <3>2. Applying(b) /\ b # a /\ t.uid \in DOMAIN scans[b].previous
      BY <1>5, <1>10
    <3>3. t.uid \notin Updated(s)
      BY <1>1, <3>1, <3>2 DEF StampInv, Updated
    <3>4. t.at = incidents[t.uid].updated
      BY <2>2, <3>2 DEF StampInv
    <3>5. QED  BY <1>3, <3>1, <3>3, <3>4
  <2>3. QED  BY <1>7, <2>1, <2>2
<1>11. \A e, f \in events' : SameKey(e, f) => e = f
  BY <1>1 DEF StampInv
<1>12. QED  BY <1>8, <1>9, <1>10, <1>11 DEF StampInv, SameKey

LEMMA StampNext ==
  ASSUME TwoServices, IInv, Exclusive, StampInv, [Next]_vars
  PROVE  StampInv'
<1>1. ASSUME NEW o, Observe(o) PROVE StampInv'
  BY <1>1, ObserveKeeps, QuietStamp DEF Observe, storeVars, StampInv
<1>2. ASSUME NEW a \in Actors, BeginScan(a) PROVE StampInv'
  BY <1>2, BeginScanKeeps, QuietStamp DEF BeginScan, storeVars, StampInv
<1>3. ASSUME NEW a \in Actors, ReadActive(a) PROVE StampInv'
  BY <1>3, ReadActiveKeeps, QuietStamp DEF ReadActive, storeVars, StampInv
<1>4. ASSUME NEW a \in Actors, ReconcileRaises(a) PROVE StampInv'
  BY <1>4, RaisesKeeps, QuietStamp DEF ReconcileRaises, storeVars, StampInv
<1>5. ASSUME NEW a \in Actors, Cancel(a) PROVE StampInv'
  BY <1>5, CancelKeeps, QuietStamp DEF Cancel, storeVars, StampInv
<1>6. ASSUME NEW a \in Actors, RecordEvent(a) PROVE StampInv'
  <2>1. PICK t \in scans[a].transitions : events' = Inserted(a, t)
    BY <1>6, RecordStep DEF IInv
  <2>2. \A e, f \in events' : SameKey(e, f) => e = f
    BY <2>1 DEF Inserted, SameKey, StampInv
  <2>3. QED  BY <1>6, <2>2, RecordEventKeeps, QuietStamp
<1>7. CASE UNCHANGED vars
  <2>1. /\ UNCHANGED <<incidents, events, scans, unannounced, overtaken>> /\ Announced' = Announced
    BY <1>7 DEF vars, storeVars, historyVars, Announced
  <2>2. Silent
    BY <2>1, SameAnnouncedQuiet DEF Silent, Holds, Applying
  <2>3. QED  BY <2>1, <2>2, QuietStamp DEF StampInv
<1>8. QED  BY <1>1, <1>2, <1>3, <1>4, <1>5, <1>6, <1>7, ReconcileStamp DEF Next, Continue

LEMMA StampInductive == TwoServices => (Spec => [](IInv /\ Exclusive /\ StampInv))
<1> SUFFICES ASSUME TwoServices PROVE Spec => [](IInv /\ Exclusive /\ StampInv)
  OBVIOUS
<1>1. Init => Exclusive /\ StampInv
  <2> SUFFICES ASSUME Init PROVE Exclusive /\ StampInv
    OBVIOUS
  <2>1. events = {} /\ DOMAIN incidents = {} /\ \A a \in Actors : scans[a] = Idle
    BY DEF Init
  <2>2. Recoveries = {}
    BY <2>1 DEF Recoveries, Announced, Idle
  <2>3. QED  BY <2>1, <2>2, IdleIsScan DEF Exclusive, StampInv
<1>2. IInv /\ Exclusive /\ StampInv /\ [Next]_vars => (Exclusive /\ StampInv)'
  BY ExclusiveNext, StampNext DEF IInv
<1>3. QED  BY <1>1, <1>2, Inductive, PTL DEF Spec

-----------------------------------------------------------------------------
(* The health score                                                          *)

\* What a detector may conclude.
Sound(finding) ==
  finding = NoFinding \/ (finding.category \in Categories /\ finding.severity \in Severities)
SoundDetections(detections) ==
  IsFiniteSet(detections) /\ \A d \in detections : Sound(d.finding)

\* Finitely many incidents, each of a category and a severity that are scored.
HealthInv ==
  /\ IsFiniteSet(DOMAIN evidence) /\ IsFiniteSet(DOMAIN incidents)
  /\ \A u \in DOMAIN incidents :
       /\ incidents[u].finding.category \in Categories
       /\ incidents[u].finding.severity \in Severities
  /\ \A a \in Actors : Scanning(a) => SoundDetections(scans[a].detections)

LEMMA EvaluatedSound ==
  ASSUME NEW detector, NEW subject, NEW f, Sound(f)
  PROVE  SoundDetections(Evaluated(detector, subject, f))
<1> DEFINE answer == [key |-> <<detector, subject>>, finding |-> f]
<1>1. answer.finding = f
  OBVIOUS
<1>2. Evaluated(detector, subject, f) = {answer}
  BY DEF Evaluated
<1> HIDE DEF answer
<1>3. QED
  BY <1>1, <1>2, FS_Singleton DEF SoundDetections

LEMMA NotEvaluatedSound == SoundDetections(NotEvaluated)
BY FS_EmptySet DEF SoundDetections, NotEvaluated

LEMMA GradedSound ==
  ASSUME NEW category \in Categories, NEW critical, NEW confidence, NEW text
  PROVE  Sound(Graded(category, critical, confidence, text))
BY DEF Sound, Graded, Severities

LEMMA BothSound ==
  ASSUME NEW A, NEW B, SoundDetections(A), SoundDetections(B)
  PROVE  SoundDetections(A \cup B)
BY FS_Union DEF SoundDetections

LEMMA ControllerSound ==
  ASSUME NEW uid, NEW ev
  PROVE  SoundDetections(ControllerDetections(uid, ev))
<1> USE GradedSound, EvaluatedSound, NotEvaluatedSound DEF Categories
<1>0. Sound(NoFinding)
  BY DEF Sound
<1>1. SoundDetections(OfflineDetector(uid, ev))
  BY <1>0 DEF OfflineDetector
<1>2. SoundDetections(SenseDetector(uid, ev))
  BY <1>0 DEF SenseDetector
<1>3. SoundDetections(EfficiencyDetector(uid, ev))
  BY <1>0 DEF EfficiencyDetector
<1>4. SoundDetections(StatusDetector("controller_fault", uid, ev.faults, TRUE))
  BY <1>0 DEF StatusDetector
<1>5. SoundDetections(StatusDetector("controller_alarm", uid, ev.alarms, FALSE))
  BY <1>0 DEF StatusDetector
<1>6. SoundDetections(PollingDetector(uid, ev))
  BY <1>0 DEF PollingDetector
<1>7. SoundDetections(ChargeCycleDetector(uid, ev))
  BY <1>0 DEF ChargeCycleDetector
<1>8. SoundDetections(CoverageDetector(uid, ev))
  BY <1>0 DEF CoverageDetector
<1> DEFINE faults == StatusDetector("controller_fault", uid, ev.faults, TRUE)
           alarms == StatusDetector("controller_alarm", uid, ev.alarms, FALSE)
           rest == ((((((SenseDetector(uid, ev) \cup EfficiencyDetector(uid, ev)) \cup faults)
                      \cup alarms) \cup PollingDetector(uid, ev)) \cup ChargeCycleDetector(uid, ev))
                      \cup CoverageDetector(uid, ev))
<1>9. SoundDetections(rest)
  BY <1>2, <1>3, <1>4, <1>5, <1>6, <1>7, <1>8, BothSound
<1>10. rest = UNION {SenseDetector(uid, ev), EfficiencyDetector(uid, ev), faults, alarms,
                     PollingDetector(uid, ev), ChargeCycleDetector(uid, ev),
                     CoverageDetector(uid, ev)}
  OBVIOUS
<1>11. QED
  BY <1>1, <1>9, <1>10, BothSound, FS_EmptySet DEF ControllerDetections, SoundDetections

LEMMA DetectionsSound ==
  ASSUME NEW controllers, IsFiniteSet(DOMAIN controllers), NEW site, NEW base
  PROVE  SoundDetections(Detections(controllers, site, base))
<1>1. SoundDetections(BaselineDetector(site, base))
  <2>1. Sound(NoFinding)
    BY DEF Sound
  <2>2. QED
    BY <2>1, GradedSound, EvaluatedSound, NotEvaluatedSound DEF BaselineDetector, Categories
<1> DEFINE each == [uid \in DOMAIN controllers |-> ControllerDetections(uid, controllers[uid])]
           all == {ControllerDetections(uid, controllers[uid]) : uid \in DOMAIN controllers}
<1>2. IsFiniteSet(all)
  <2>1. each \in Surjection(DOMAIN controllers, all)
    BY DEF Surjection
  <2>2. QED
    BY <2>1, FS_Surjection
<1>3. \A D \in all : SoundDetections(D)
  BY ControllerSound
<1>4. SoundDetections(UNION all)
  BY <1>2, <1>3, FS_UNION DEF SoundDetections
<1>5. QED
  BY <1>1, <1>4, BothSound DEF Detections

\* The finding a scan has for a key that is present.
LEMMA FindingSound ==
  ASSUME NEW s, SoundDetections(s.detections), NEW key \in Present(s.detections)
  PROVE  /\ FindingOf(s, key).category \in Categories
         /\ FindingOf(s, key).severity \in Severities
<1>1. PICK d \in Findings(s.detections) : d.key = key
  BY DEF Present, EvaluatedKeys
<1> DEFINE found == CHOOSE x \in Findings(s.detections) : x.key = key
<1>2. found \in Findings(s.detections)
  BY <1>1
<1>3. found \in s.detections /\ found.finding.severity # "none"
  BY <1>2 DEF Findings
<1>4. Sound(found.finding) /\ found.finding # NoFinding
  BY <1>3 DEF SoundDetections, NoFinding
<1>5. QED
  BY <1>4 DEF FindingOf, Sound

LEMMA HealthInit == Init => HealthInv
<1> SUFFICES ASSUME Init PROVE HealthInv
  OBVIOUS
<1>1. PICK o \in Observations : evidence = o.controllers
  BY DEF Init
<1>2. DOMAIN incidents = {} /\ \A a \in Actors : ~Scanning(a)
  BY DEF Init, Idle, Scanning
<1>3. QED
  BY <1>1, <1>2, FS_EmptySet, IncidentsAssumption DEF HealthInv

LEMMA HealthNext == IInv /\ HealthInv /\ [Next]_vars => HealthInv'
<1> SUFFICES ASSUME IInv, HealthInv, [Next]_vars PROVE HealthInv'
  OBVIOUS
<1>0. ShapeInv /\ PreviousInv /\ DOMAIN scans = Actors
  BY DEF IInv, ShapeInv
<1>1. CASE UNCHANGED vars
  BY <1>1 DEF vars, worldVars, storeVars, HealthInv, Scanning
<1>2. ASSUME NEW o \in Observations, Observe(o) PROVE HealthInv'
  BY <1>2, IncidentsAssumption DEF Observe, storeVars, HealthInv, Scanning
<1>3. ASSUME NEW a \in Actors, BeginScan(a) PROVE HealthInv'
  <2>1. /\ UNCHANGED <<evidence, incidents>>
        /\ scans' = [scans EXCEPT ![a] =
             [Idle EXCEPT !.phase = "read", !.now = clock,
                          !.detections = Detections(evidence, Site, baseline)]]
    BY <1>3 DEF BeginScan, worldVars, storeVars
  <2>2. scans'[a].detections = Detections(evidence, Site, baseline)
    BY <1>0, <2>1 DEF Idle
  <2>3. SoundDetections(scans'[a].detections)
    BY <2>2, DetectionsSound DEF HealthInv
  <2>4. \A b \in Actors : b # a => scans'[b] = scans[b]
    BY <1>0, <2>1
  <2>5. QED
    BY <2>1, <2>3, <2>4 DEF HealthInv, Scanning
<1>4. ASSUME NEW a \in Actors,
             ReadActive(a) \/ ReconcileRaises(a) \/ RecordEvent(a) \/ Cancel(a)
      PROVE  HealthInv'
  <2>1. UNCHANGED <<evidence, incidents>>
    BY <1>4 DEF ReadActive, ReconcileRaises, RecordEvent, Cancel, worldVars, storeVars
  <2>2. \A b \in Actors : b # a => scans'[b] = scans[b]
    BY <1>0, <1>4 DEF ReadActive, ReconcileRaises, RecordEvent, Cancel
  <2>3. Scanning(a)' => Scanning(a) /\ scans'[a].detections = scans[a].detections
    <3>1. CASE ReadActive(a)
      BY <1>0, <3>1 DEF ReadActive, Scanning, ShapeInv, IsScan
    <3>2. CASE ReconcileRaises(a) \/ Cancel(a)
      BY <1>0, <3>2 DEF ReconcileRaises, Cancel, Scanning, Idle
    <3>3. CASE RecordEvent(a)
      <4>1. PICK T : scans' = [scans EXCEPT ![a] = Announcing(T)]
        BY <3>3 DEF RecordEvent
      <4>2. QED
        BY <1>0, <4>1, AnnouncingIsScan DEF Scanning
    <3>4. QED
      BY <1>4, <3>1, <3>2, <3>3
  <2>4. QED
    BY <2>1, <2>2, <2>3 DEF HealthInv, Scanning
<1>5. ASSUME NEW a \in Actors, Reconcile(a) PROVE HealthInv'
  <2>0. PICK s : s = scans[a]
    OBVIOUS
  <2>1. /\ Applying(a) /\ DOMAIN incidents' = DOMAIN incidents \cup Opened(s)
        /\ \A u \in DOMAIN incidents' : incidents'[u] = Reconciled(s, u)
        /\ scans'[a] = Announcing(Transitions(s, incidents'))
        /\ \A b \in Actors \ {a} : scans'[b] = scans[b]
    BY <1>0, <1>5, <2>0, ReconcileStep
  <2>2. evidence' = evidence
    BY <1>5 DEF Reconcile, worldVars
  <2>3. SoundDetections(s.detections)
    BY <2>0, <2>1 DEF HealthInv, Applying, Scanning
  <2>4. IsFiniteSet(Opened(s))
    <3> DEFINE uidOf == [d \in s.detections |-> UidOf(d.key)]
               all == {UidOf(d.key) : d \in s.detections}
    <3>1. uidOf \in Surjection(s.detections, all)
      BY DEF Surjection
    <3>2. IsFiniteSet(all)
      BY <2>3, <3>1, FS_Surjection DEF SoundDetections
    <3>3. Opened(s) \subseteq all
      BY DEF Opened, OpenedKeys, Present, EvaluatedKeys, Findings
    <3>4. QED
      BY <3>2, <3>3, FS_Subset
  <2>5. IsFiniteSet(DOMAIN incidents')
    BY <2>1, <2>4, FS_Union DEF HealthInv
  <2>6. ASSUME NEW u \in DOMAIN incidents'
        PROVE  /\ incidents'[u].finding.category \in Categories
               /\ incidents'[u].finding.severity \in Severities
    <3>1. CASE u \in Opened(s)
      <4>1. incidents'[u] = Row(s, u[1])
        BY <1>0, <2>0, <2>1, <3>1, OpenedRow
      <4>2. u[1] \in Present(s.detections)
        BY <1>0, <3>1, OpenedFresh DEF OpenedKeys
      <4>3. QED
        BY <2>3, <4>1, <4>2, FindingSound DEF Row
    <3>2. CASE u \in DOMAIN incidents /\ u \in Updated(s)
      <4>1. incidents'[u].finding = FindingOf(s, u[1])
        BY <1>0, <2>0, <2>1, <3>2, ReconciledRow
      <4>2. u[1] \in Present(s.detections)
        BY <1>0, <2>0, <2>1, <3>2 DEF Updated, PreviousInv
      <4>3. QED
        BY <2>3, <4>1, <4>2, FindingSound
    <3>3. CASE u \in DOMAIN incidents /\ u \notin Updated(s)
      <4>1. incidents'[u].finding = incidents[u].finding
        BY <1>0, <2>0, <2>1, <3>3, ReconciledRow
      <4>2. QED
        BY <3>3, <4>1 DEF HealthInv
    <3>4. QED
      BY <2>1, <3>1, <3>2, <3>3
  <2>7. ~Scanning(a)'
    BY <2>1, AnnouncingIsScan DEF Scanning
  <2>8. QED
    BY <2>1, <2>2, <2>5, <2>6, <2>7 DEF HealthInv, Scanning
<1>6. QED
  BY <1>1, <1>2, <1>3, <1>4, <1>5 DEF Next, Continue

\* One category: no more than twenty points, none after a critical incident and
\* less than twenty after any.
LEMMA CategoryScoreBounds ==
  ASSUME NEW active, IsFiniteSet(DOMAIN active), NEW c
  PROVE  /\ CategoryScore(active, c) \in 0 .. 20
         /\ \A u \in DOMAIN active : active[u].finding.category = c =>
              /\ active[u].finding.severity = "critical" => CategoryScore(active, c) = 0
              /\ active[u].finding.severity \in Severities => CategoryScore(active, c) <= 12
         /\ DOMAIN active = {} => CategoryScore(active, c) = 20
<1> DEFINE of(s) == {u \in DOMAIN active : active[u].finding.category = c
                                            /\ active[u].finding.severity = s}
<1>1. ASSUME NEW s
      PROVE  /\ Counted(active, c, s) \in Nat
             /\ Counted(active, c, s) = 0 <=> of(s) = {}
  <2>1. IsFiniteSet(of(s))
    BY FS_Subset
  <2>2. Counted(active, c, s) = Cardinality(of(s))
    BY DEF Counted
  <2>3. QED
    BY <2>1, <2>2, FS_CardinalityType, FS_EmptySet
<1> DEFINE w == Counted(active, c, "warning")
           k == Counted(active, c, "critical")
           penalty == w * 8 + k * 20
<1>2. w \in Nat /\ k \in Nat
  BY <1>1
<1>3. CategoryScore(active, c) = IF penalty >= 20 THEN 0 ELSE 20 - penalty
  BY DEF CategoryScore, Penalty, CategoryMaximum
<1>4. DOMAIN active = {} => w = 0 /\ k = 0
  BY <1>1
<1>5. ASSUME NEW u \in DOMAIN active, active[u].finding.category = c
      PROVE  /\ active[u].finding.severity = "critical" => k > 0
             /\ active[u].finding.severity \in Severities => w + k > 0
  <2>1. active[u].finding.severity = "critical" => of("critical") # {}
    BY <1>5
  <2>2. active[u].finding.severity = "warning" => of("warning") # {}
    BY <1>5
  <2> HIDE DEF of
  <2>3. QED
    BY <1>1, <1>2, <2>1, <2>2 DEF Severities
<1> HIDE DEF w, k, of
<1>6. QED
  BY <1>2, <1>3, <1>4, <1>5

-----------------------------------------------------------------------------
(* The theorems                                                              *)

\* An incident is only resolved by a scan whose detector had the evidence that
\* its condition is over, whoever opened it and whatever else scans.
THEOREM ResolvedOnEvidenceOnly == Spec => ResolvedOnEvidence
<1> DEFINE OnEvidence ==
      \A u \in DOMAIN incidents :
        (incidents[u].state = "active" /\ incidents'[u].state = "resolved")
          => \E a \in Actors : Recovered(a, incidents[u].key)
<1>1. IInv /\ [Next]_vars => [OnEvidence]_vars
  <2> SUFFICES ASSUME IInv, [Next]_vars, NEW u \in DOMAIN incidents,
                      incidents[u].state = "active", incidents'[u].state = "resolved"
               PROVE  \E a \in Actors : Recovered(a, incidents[u].key)
    OBVIOUS
  <2>1. PICK a \in Actors : Reconcile(a)
    BY DEF Next, Observe, BeginScan, Continue, ReadActive, ReconcileRaises, RecordEvent,
       Cancel, storeVars, vars
  <2> DEFINE s == scans[a]
             key == u[1]
  <2>0. ShapeInv
    BY DEF IInv
  <2>2. /\ Applying(a) /\ Scanning(a) /\ incidents'[u] = Reconciled(s, u)
    <3>1. /\ Applying(a) /\ DOMAIN incidents' = DOMAIN incidents \cup Opened(s)
          /\ \A v \in DOMAIN incidents' : incidents'[v] = Reconciled(s, v)
      BY <2>0, <2>1, ReconcileStep
    <3>2. QED  BY <3>1 DEF Applying, Scanning
  <2>3. u \in Resolved(s)
    BY <2>2, ReconciledRow DEF IInv
  <2>4. key = incidents[u].key /\ key = s.previous[u].key
    BY <2>2, <2>3 DEF IInv, ShapeInv, PreviousInv, Resolved
  <2>5. PICK d \in s.detections : d.key = key /\ d \notin Findings(s.detections)
    BY <2>3, <2>4 DEF Resolved, Present, EvaluatedKeys
  <2>6. d.finding = NoFinding
    BY <2>2, <2>5 DEF Findings, IInv, DetectInv, Clear
  <2>7. QED  BY <2>4, <2>5, <2>6 DEF Recovered
<1>2. QED  BY <1>1, Inductive, PTL DEF Spec, ResolvedOnEvidence

\* However many processes scan the site, the event log tells every incident's
\* opening and its recovery, and the newest of its openings and updates carries
\* its present severity, unless a scan was cancelled between its commit and its
\* events or wrote the severity behind the events (overtaken), which only a scan
\* of older evidence or of a row that has changed since it was read does.
THEOREM EveryIncidentTold == Spec => []AllTold
<1>1. IInv => AllTold
  BY DEF IInv
<1>2. QED  BY <1>1, Inductive, PTL

\* With two scanning services at most the event log also tells each recovery
\* once: the second service to resolve the incident finds the stamp of the first.
THEOREM EventsTell == TwoServices => (Spec => []EventsTellIncidents)
<1> SUFFICES ASSUME TwoServices PROVE Spec => []EventsTellIncidents
  OBVIOUS
<1>1. IInv /\ Exclusive /\ StampInv => EventsTellIncidents
  <2> SUFFICES ASSUME IInv, StampInv, NEW e \in events, NEW f \in events,
                      e.kind = "resolved", f.kind = "resolved", e.uid = f.uid
               PROVE  e = f
    BY DEF EventsTellIncidents, RecoveryToldOnce, IInv
  <2>1. e \in Recoveries /\ f \in Recoveries
    BY DEF Recoveries, Announced
  <2>2. QED  BY <2>1 DEF StampInv, SameKey
<1>2. QED  BY <1>1, StampInductive, PTL

\* The score of a site is full exactly when no incident is active, and with a
\* critical one the site is not reported as good, for every number of incidents
\* (health_score).
THEOREM HealthScoreHonest == Spec => []HealthHonest
<1>1. HealthInv => HealthHonest
  <2> SUFFICES ASSUME HealthInv PROVE HealthHonest
    OBVIOUS
  <2> DEFINE active == ActiveOf(incidents)
             of(c) == CategoryScore(active, c)
             score == HealthScore(active)
  <2>1. /\ IsFiniteSet(DOMAIN active)
        /\ \A u \in DOMAIN active : /\ active[u].finding.category \in Categories
                                    /\ active[u].finding.severity \in Severities
    BY FS_Subset DEF HealthInv, ActiveOf
  <2>2. score = of("production") + of("charging") + of("battery") + of("communications")
                  + of("data_integrity")
    BY DEF HealthScore
  <2> HIDE DEF active
  <2>3. \A c \in Categories :
          /\ of(c) \in 0 .. 20
          /\ \A u \in DOMAIN active : active[u].finding.category = c =>
               /\ active[u].finding.severity = "critical" => of(c) = 0
               /\ active[u].finding.severity \in Severities => of(c) <= 12
          /\ DOMAIN active = {} => of(c) = 20
    BY <2>1, CategoryScoreBounds
  <2> DEFINE p == of("production")
             q == of("charging")
             b == of("battery")
             r == of("communications")
             d == of("data_integrity")
  <2>10. p \in 0 .. 20 /\ q \in 0 .. 20 /\ b \in 0 .. 20 /\ r \in 0 .. 20 /\ d \in 0 .. 20
    BY <2>3 DEF Categories
  <2>11. score = p + q + b + r + d
    BY <2>2
  <2> HIDE DEF of, score
  <2>4. ASSUME NEW u \in DOMAIN active
        PROVE  /\ score <= 92
               /\ active[u].finding.severity = "critical" => score <= 80
    <3>1. PICK c \in Categories : active[u].finding.category = c
      BY <2>1
    <3>2. /\ of(c) <= 12
          /\ active[u].finding.severity = "critical" => of(c) = 0
      BY <2>1, <2>3, <2>4, <3>1
    <3>3. of(c) \in {p, q, b, r, d}
      BY <3>1 DEF Categories
    <3> HIDE DEF p, q, b, r, d
    <3>4. QED
      BY <2>10, <2>11, <3>2, <3>3
  <2>5. DOMAIN active = {} => score = 100
    <3>1. DOMAIN active = {} => p = 20 /\ q = 20 /\ b = 20 /\ r = 20 /\ d = 20
      BY <2>3 DEF Categories
    <3> HIDE DEF p, q, b, r, d
    <3>2. QED
      BY <2>11, <3>1
  <2> HIDE DEF p, q, b, r, d
  <2>6. score \in Nat
    BY <2>10, <2>11
  <2>7. (\E u \in DOMAIN active : active[u].finding.severity = "critical")
          => HealthStatus(score) # "good"
    BY <2>4, <2>6 DEF HealthStatus
  <2>8. score = 100 <=> DOMAIN active = {}
    <3>1. ASSUME DOMAIN active # {} PROVE score # 100
      <4>1. PICK u : u \in DOMAIN active
        BY <3>1
      <4>2. score <= 92
        BY <2>4, <4>1
      <4>3. QED
        BY <2>6, <4>2
    <3>2. QED
      BY <2>5, <3>1
  <2>9. QED
    BY <2>7, <2>8 DEF HealthHonest, active, score
<1>2. Spec => []HealthInv
  BY HealthInit, HealthNext, Inductive, PTL DEF Spec
<1>3. QED
  BY <1>1, <1>2, PTL
=============================================================================
