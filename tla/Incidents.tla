----------------------------- MODULE Incidents -----------------------------
(***************************************************************************)
(* The life of persistent incidents: scans of one site                     *)
(* (SiteIntelligenceService.scan, intelligence/incidents.py) reconciled    *)
(* into intelligence_incidents (IncidentStore, persistence/incidents.py)   *)
(* and announced in controller_events (EventStore, persistence/events.py). *)
(*                                                                         *)
(* An actor is whoever scans: an open SSE stream, which does so            *)
(* periodically, or a request for incidents or a health score.  The actors *)
(* of one service share its scan lock; services of different processes     *)
(* share the database only.  An actor may be cancelled (its client         *)
(* disconnects) or killed between any two of its steps.                    *)
(*                                                                         *)
(* Time is the number of changes of the evidence so far.                   *)
(***************************************************************************)
EXTENDS IncidentDetectors

CONSTANTS
  Site,
  Observations,       \* what may be read: the evidence about each controller
                      \* and about the site's production
  Actors,
  Streams,            \* the actors that scan periodically
  ServiceOf,          \* actor -> the service whose lock it takes
  MaxChanges,         \* BOUND: changes of the evidence
  MaxCancels,         \* BOUND: cancelled scans
  MaxRequests         \* BOUND: scans on request

ASSUME IncidentsAssumption ==
  /\ Streams \subseteq Actors
  /\ {MaxChanges, MaxCancels, MaxRequests} \subseteq Nat
  /\ \A o \in Observations : IsFiniteSet(DOMAIN o.controllers)

VARIABLES
  clock,
  evidence,   \* controller -> what the database says about it
  baseline,   \* what the database says about the site's production
  incidents,  \* uid -> row of intelligence_incidents
  openings,   \* incidents opened so far
  events,     \* rows of controller_events, by dedupe key
  scans,      \* actor -> its scan
  cancels,    \* cancelled scans so far
  requests,   \* scans on request so far
  unannounced, \* uids whose announcement was cancelled
  overtaken    \* history: uids whose severity was written behind the events

worldVars == <<clock, evidence, baseline>>
storeVars == <<incidents, openings, events>>
historyVars == <<unannounced, overtaken>>
vars == <<worldVars, storeVars, scans, cancels, requests, historyVars>>

Phases == {"idle", "read", "apply", "record"}
Idle == [phase |-> "idle", now |-> 0, detections |-> {}, previous |-> <<>>,
         transitions |-> {}]

Init ==
  /\ clock = 0
  /\ \E o \in Observations : evidence = o.controllers /\ baseline = o.site
  /\ incidents = <<>> /\ openings = 0 /\ events = {}
  /\ scans = [a \in Actors |-> Idle]
  /\ cancels = 0 /\ requests = 0 /\ unannounced = {} /\ overtaken = {}

ActiveOf(rows) ==
  LET uids == {u \in DOMAIN rows : rows[u].state = "active"} IN
  [u \in uids |-> rows[u]]
KeysOf(rows) == {rows[u].key : u \in DOMAIN rows}

----------------------------------------------------------------------------
(* The evidence changes: polls are saved, a status is set, a day passes *)

Observe(o) ==
  /\ clock < MaxChanges
  /\ o # [controllers |-> evidence, site |-> baseline]
  /\ evidence' = o.controllers /\ baseline' = o.site
  /\ clock' = clock + 1
  /\ UNCHANGED <<storeVars, scans, cancels, requests, historyVars>>

----------------------------------------------------------------------------
(* scan() *)

\* Under the lock of the service, the evidence is read and evaluated.
BeginScan(a) ==
  /\ \A b \in Actors : ServiceOf[b] = ServiceOf[a] => scans[b].phase = "idle"
  /\ IF a \in Streams THEN requests' = requests
     ELSE requests < MaxRequests /\ requests' = requests + 1
  /\ scans' = [scans EXCEPT ![a] =
       [Idle EXCEPT !.phase = "read", !.now = clock,
                    !.detections = Detections(evidence, Site, baseline)]]
  /\ UNCHANGED <<worldVars, storeVars, cancels, historyVars>>

\* The rows reconcile() starts from; a version that forgets their state.
AnyRows(rows) == rows
ActiveRows(rows) == ActiveOf(rows)

\* reconcile() selects the active rows before its transaction begins.
ReadActive(a) ==
  /\ scans[a].phase = "read"
  /\ scans' = [scans EXCEPT ![a].phase = "apply", ![a].previous = ActiveRows(incidents)]
  /\ UNCHANGED <<worldVars, storeVars, cancels, requests, historyVars>>

FindingOf(s, key) == (CHOOSE d \in Findings(s.detections) : d.key = key).finding

OpenedKeys(s) == Present(s.detections) \ KeysOf(s.previous)
UidOf(key) == <<key, openings + 1>>
Opened(s) == {UidOf(key) : key \in OpenedKeys(s)}
Updated(s) == {u \in DOMAIN s.previous : s.previous[u].key \in Present(s.detections)}

\* Rows whose detector found nothing; a version that also resolves the rows
\* whose detector had no evidence.
ResolvedIfAbsent(s) ==
  {u \in DOMAIN s.previous : s.previous[u].key \notin Present(s.detections)}
Resolved(s) ==
  {u \in DOMAIN s.previous :
     /\ s.previous[u].key \notin Present(s.detections)
     /\ s.previous[u].key \in EvaluatedKeys(s.detections)}

Row(s, key) ==
  [key |-> key, finding |-> FindingOf(s, key), state |-> "active", updated |-> s.now]

\* An UPDATE of a finding reaches the row by its uid, whatever its state by now;
\* that of a recovery only a row that is still active.
Reconciled(s, u) ==
  CASE u \in Opened(s) -> Row(s, u[1])
    [] u \in Updated(s) ->
         [incidents[u] EXCEPT !.finding = FindingOf(s, u[1]), !.updated = s.now]
    [] u \in Resolved(s) /\ incidents[u].state = "active" ->
         [incidents[u] EXCEPT !.state = "resolved", !.updated = s.now]
    [] OTHER -> incidents[u]

\* The fields whose change is announced; a version without severity and text.
Unexplained(finding) == <<finding.confidence>>
Explained(finding) == <<finding.severity, finding.confidence, finding.text>>
Changed(s) ==
  {u \in Updated(s) :
     Explained(s.previous[u].finding) # Explained(FindingOf(s, s.previous[u].key))}

Transition(u, kind, row) ==
  [uid |-> u, kind |-> kind, severity |-> row.finding.severity, at |-> row.updated]

\* Each transition carries the row as it is after the statement; a version that
\* stamps recoveries with the scan's own time.
StampedTransitions(s, rows) ==
  {Transition(u, "opened", rows[u]) : u \in Opened(s)}
    \cup {Transition(u, "updated", rows[u]) : u \in Changed(s)}
    \cup {Transition(u, "resolved", [rows[u] EXCEPT !.updated = s.now]) : u \in Resolved(s)}
Transitions(s, rows) ==
  {Transition(u, "opened", rows[u]) : u \in Opened(s)}
    \cup {Transition(u, "updated", rows[u]) : u \in Changed(s)}
    \cup {Transition(u, "resolved", rows[u]) : u \in Resolved(s)}

\* What has been announced, or is about to be, and what of it claims a severity.
Announced == events \cup UNION {scans[a].transitions : a \in Actors}
Claims == {t \in Announced : t.kind \in {"opened", "updated"}}

\* Changes that are the newest word on their incident, and severities that are
\* written behind the events: the change is older than one already announced, or
\* none is computed because the row has been given another severity since the
\* scan read it.
Retold(s) == {u \in Changed(s) : \A t \in Claims : t.uid = u => t.at <= s.now}
Overtaken(s) ==
  (Changed(s) \ Retold(s))
    \cup {u \in Updated(s) \ Changed(s) :
            incidents[u].finding.severity # s.previous[u].finding.severity}

\* The unique index on the fingerprint of active rows rejects an INSERT; a version
\* without the index.
NoIndex(s) == FALSE
Conflict(s) == OpenedKeys(s) \cap KeysOf(ActiveOf(incidents)) # {}

\* What is left of a scan once it has committed; it ends with the last event.
Announcing(transitions) ==
  IF transitions = {} THEN Idle
  ELSE [Idle EXCEPT !.phase = "record", !.transitions = transitions]

\* The transaction is committed.
Reconcile(a) ==
  LET s == scans[a]
      rows == [u \in DOMAIN incidents \cup Opened(s) |-> Reconciled(s, u)]
  IN
  /\ s.phase = "apply" /\ ~Conflict(s)
  /\ incidents' = rows
  /\ openings' = IF Opened(s) = {} THEN openings ELSE openings + 1
  /\ scans' = [scans EXCEPT ![a] = Announcing(Transitions(s, rows))]
  /\ overtaken' = (overtaken \ Retold(s)) \cup Overtaken(s)
  /\ UNCHANGED <<worldVars, events, cancels, requests, unannounced>>

\* The IntegrityError rolls the whole transaction back and leaves scan().
ReconcileRaises(a) ==
  /\ scans[a].phase = "apply" /\ Conflict(scans[a])
  /\ scans' = [scans EXCEPT ![a] = Idle]
  /\ UNCHANGED <<worldVars, storeVars, cancels, requests, historyVars>>

\* The dedupe key of an event is unique; its first row stays.  (by tells rows of
\* equal contents apart.)  A version without ON CONFLICT, and the code's.
NeverSame(e, t) == FALSE
SameKey(e, t) == e.uid = t.uid /\ e.kind = t.kind /\ e.at = t.at
Inserted(a, t) ==
  IF \E e \in events : SameKey(e, t) THEN events
  ELSE events \cup {[uid |-> t.uid, kind |-> t.kind, severity |-> t.severity,
                     at |-> t.at, by |-> a]}

\* _record_transitions: one committed event after the other.
RecordEvent(a) ==
  LET t == CHOOSE t \in scans[a].transitions : TRUE IN
  /\ scans[a].phase = "record"
  /\ events' = Inserted(a, t)
  /\ scans' = [scans EXCEPT ![a] = Announcing(@.transitions \ {t})]
  /\ UNCHANGED <<worldVars, incidents, openings, cancels, requests, historyVars>>

\* The client disconnects or the process dies in the middle of the scan.
Cancel(a) ==
  /\ scans[a].phase # "idle" /\ cancels < MaxCancels
  /\ scans' = [scans EXCEPT ![a] = Idle]
  /\ cancels' = cancels + 1
  /\ unannounced' = unannounced \cup {t.uid : t \in scans[a].transitions}
  /\ UNCHANGED <<worldVars, storeVars, requests, overtaken>>

Continue(a) ==
  \/ ReadActive(a) \/ Reconcile(a) \/ ReconcileRaises(a) \/ RecordEvent(a)

Next ==
  \/ \E o \in Observations : Observe(o)
  \/ \E a \in Actors : BeginScan(a) \/ Continue(a) \/ Cancel(a)

\* A stream scans again and again; a scan that has begun in its service, and may
\* hold the lock, goes on.  Nothing is assumed of the other services.
BesideStreams == {a \in Actors : \E b \in Streams : ServiceOf[a] = ServiceOf[b]}
Fairness ==
  /\ \A a \in BesideStreams : WF_vars(Continue(a))
  /\ \A a \in Streams : SF_vars(BeginScan(a))

Spec == Init /\ [][Next]_vars
FairSpec == Spec /\ Fairness

----------------------------------------------------------------------------
(* Properties *)

\* The tables and the scans keep their shape; among the active rows a
\* fingerprint is unique.
TypeOK ==
  /\ clock \in 0 .. MaxChanges
  /\ [controllers |-> evidence, site |-> baseline] \in Observations
  /\ openings \in Nat /\ cancels \in 0 .. MaxCancels /\ requests \in 0 .. MaxRequests
  /\ unannounced \cup overtaken \subseteq DOMAIN incidents
  /\ \A u \in DOMAIN incidents :
       /\ u = <<incidents[u].key, u[2]>> /\ u[2] \in 1 .. openings
       /\ incidents[u].state \in {"active", "resolved"}
       /\ incidents[u].finding.severity \in Severities
       /\ incidents[u].finding.category \in Categories
       /\ incidents[u].updated \in 0 .. clock
  /\ \A u, v \in DOMAIN ActiveOf(incidents) : incidents[u].key = incidents[v].key => u = v
  /\ \A a \in Actors :
       /\ scans[a].phase \in Phases /\ scans[a].now \in 0 .. clock
       /\ DOMAIN scans[a].previous \subseteq DOMAIN incidents
       /\ \A t \in scans[a].transitions : t.uid \in DOMAIN incidents
  /\ \A e \in events : e.uid \in DOMAIN incidents

\* Did the evidence behind a detection say that the key's condition is over?
Recovered(a, key) ==
  \E d \in scans[a].detections : d.key = key /\ d.finding = NoFinding

\* An incident is only resolved by a scan that had evidence of the recovery:
\* a controller without a sample, a missing register or a baseline that is not
\* ready resolve nothing, whichever process opened the incident.
ResolvedOnEvidence ==
  [][\A u \in DOMAIN incidents :
       (incidents[u].state = "active" /\ incidents'[u].state = "resolved")
         => \E a \in Actors : Recovered(a, incidents[u].key)]_vars

AnnouncedAs(u, kinds) == {t \in Announced : t.uid = u /\ t.kind \in kinds}

\* The events are read by their stamps, the newest first: these come first.
LastClaims(u) ==
  LET mine == {t \in Claims : t.uid = u} IN
  {t \in mine : \A r \in mine : r.at <= t.at}

\* Every incident was, or is about to be, announced as opened; the newest of its
\* openings and updates carries its present severity; its recovery is announced.
Told(u) ==
  /\ AnnouncedAs(u, {"opened"}) # {}
  /\ u \notin overtaken =>
       \A t \in LastClaims(u) : t.severity = incidents[u].finding.severity
  /\ incidents[u].state = "resolved" => AnnouncedAs(u, {"resolved"}) # {}

AllTold == \A u \in DOMAIN incidents \ unannounced : Told(u)
RecoveryToldOnce ==
  \A e, f \in events : (e.kind = "resolved" /\ f.kind = "resolved" /\ e.uid = f.uid) => e = f

\* What the newest events say of the incidents agrees with their table although
\* two services scan at the same time, except where an announcement was cancelled
\* and, until its next change that is announced in order, where a scan wrote a
\* severity behind the events: reconcile() compares a finding with the row it
\* selected before its transaction, so when another service has changed the row
\* since, it writes the old severity back, finds no change and announces none.  Two
\* services that resolve the same incident announce it once: the second finds
\* the stamp of the first in the row and its event is a duplicate.
EventsTellIncidents == AllTold /\ RecoveryToldOnce

\* The score is full exactly when nothing is wrong, and a single critical incident
\* is enough for the site not to be reported as good.
HealthHonest ==
  LET active == ActiveOf(incidents)
      score == HealthScore(active)
  IN
  /\ score = 100 <=> DOMAIN active = {}
  /\ (\E u \in DOMAIN active : active[u].finding.severity = "critical")
       => HealthStatus(score) # "good"

\* Once the evidence stays as it is, the active incidents end up being those
\* whose condition is present, among all that can be evaluated at all: a scan
\* of stale evidence, a rejected transaction or a cancelled client delays this
\* but never prevents it.
Settled ==
  LET now == Detections(evidence, Site, baseline) IN
  KeysOf(ActiveOf(incidents)) \cap EvaluatedKeys(now) = Present(now)
IncidentsSettle == <>[]Settled
=============================================================================
