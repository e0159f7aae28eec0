----------------------------- MODULE SystemViews -----------------------------
(***************************************************************************)
(* The one system every controller belongs to, as its readers see it       *)
(* (systems/data.py): the newest values over all controllers, the history  *)
(* of a metric, the health and the events.  A metric names the registers   *)
(* that can supply it, best first, and how controllers are put together.   *)
(***************************************************************************)
EXTENDS HistoryQueries

CONSTANTS Metrics,     \* name -> [registers, aggregation], SYSTEM_METRICS
          ProfileOf,   \* controller -> the registers of its profile
          CanonicalOf, \* controller -> the device row the inventory shows for it
          Quiet        \* texts that mean nothing is wrong

ASSUME MetricAssumption ==
  /\ \A m \in DOMAIN Metrics :
       /\ Metrics[m].aggregation \in {"sum", "median", "max", "min", "state_set"}
       /\ LET registers == Metrics[m].registers IN
          /\ Len(registers) \in Nat /\ DOMAIN registers = 1 .. Len(registers)
          /\ \A i, j \in DOMAIN registers : registers[i] = registers[j] => i = j
  /\ "faults" \in DOMAIN Metrics
  /\ 1 \in DOMAIN Metrics["faults"].registers /\ Metrics["faults"].registers[1] = "faults"
  /\ \A d \in Devices : CanonicalOf[OwnerOf[d]] \in Devices

NamesOf(m) == ToSet(Metrics[m].registers)
PriorityOf(m, reg) == CHOOSE i \in DOMAIN Metrics[m].registers : Metrics[m].registers[i] = reg

\* sync_memberships runs before every read: every controller with a connection
\* is a member.
Members == {OwnerOf[d] : d \in Devices}

\* The members whose profile can supply the metric.
Eligible(m) == {c \in Members : ProfileOf[c] \cap NamesOf(m) # {}}

StateClear(v) == v \in Quiet \cup {Null, 0}

-----------------------------------------------------------------------------
(* Putting controllers together.  An observation names its controller.       *)

\* The values of the numbers, in ascending order, each as often as it is observed.
Measures(observations) == {o \in observations : IsNumber(o.value)}
Numbers(observations) ==
  LET M == Measures(observations)
      below(x) == Cardinality({y \in M : y.value < x.value})
      upTo(x) == Cardinality({y \in M : y.value <= x.value})
  IN [i \in 1 .. Cardinality(M) |-> (CHOOSE x \in M : below(x) < i /\ i <= upTo(x)).value]
MedianOf(seq) ==
  IF Len(seq) % 2 = 1 THEN seq[(Len(seq) + 1) \div 2]
  ELSE (seq[Len(seq) \div 2] + seq[Len(seq) \div 2 + 1]) \div 2

Combined(aggregation, observations) ==
  LET numbers == Numbers(observations) IN
  CASE aggregation = "state_set" -> {o.value : o \in observations}
    [] numbers = <<>> -> None
    [] aggregation = "sum" -> MapThenSumSet(LAMBDA o : o.value, Measures(observations))
    [] aggregation = "median" -> MedianOf(numbers)
    [] aggregation = "max" -> numbers[Len(numbers)]
    [] OTHER -> numbers[1]

Aggregate(m, observations) ==
  LET contributors == {o.uid : o \in observations} IN
  [value |-> Combined(Metrics[m].aggregation, observations),
   quality |-> IF contributors = {} THEN "empty"
               ELSE IF Cardinality(contributors) >= Cardinality(Eligible(m)) THEN "complete"
               ELSE "partial",
   sources |-> observations]

-----------------------------------------------------------------------------
(* The newest values                                                         *)

\* _select_value: the best register of a sample that has a value.
Select(sample, m) ==
  LET present == {r \in NamesOf(m) \cap DOMAIN sample.values : sample.values[r] # Null} IN
  IF present = {} THEN None
  ELSE CHOOSE r \in present : \A q \in present : PriorityOf(m, r) <= PriorityOf(m, q)

Observation(c, sample, m) ==
  [uid |-> c, at |-> sample.at, reg |-> Select(sample, m), value |-> sample.values[Select(sample, m)]]

\* latest: from the newest sample of each controller; a version by connection.
NewestOfEach == {[uid |-> OwnerOf[d], sample |-> LatestSample({d})] : d \in Devices}
NewestOf == {[uid |-> c, sample |-> LatestSample(DevicesOf(c))] : c \in Members}
LatestView(m) ==
  Aggregate(m, {Observation(n.uid, n.sample, m) :
                  n \in {x \in NewestOf : x.sample # None /\ Select(x.sample, m) # None}})

\* health: a controller is as its row in the inventory says.
ActiveIn(m) == {o.uid : o \in {x \in LatestView(m).sources : ~StateClear(x.value)}}
StatusOf(c) == devices[CanonicalOf[c]].status
HealthView ==
  IF ActiveIn("faults") # {} THEN "critical"
  ELSE IF ActiveIn("alarms") # {} \/ \E c \in Members : StatusOf(c) # "online" THEN "warning"
  ELSE "ok"

-----------------------------------------------------------------------------
(* The history of a metric                                                   *)

AllDevices == UNION {DevicesOf(c) : c \in Members}

\* One observation of a controller at a time, from the best register decoded
\* then, also when that one is null.
RawSeries(m, w) ==
  LET found == RowsOf(AllDevices, NamesOf(m), w)
      chosen(x) == \A y \in found :
                     y.at = x.at /\ OwnerOf[y.dev] = OwnerOf[x.dev] =>
                       PriorityOf(m, x.reg) <= PriorityOf(m, y.reg)
  IN {[uid |-> OwnerOf[x.dev], at |-> x.at, reg |-> x.reg, value |-> x.value] :
        x \in {y \in found : chosen(y)}}

\* A point of a bucketed history.
PointAt(b, metric) ==
  [start |-> b, value |-> metric.value, quality |-> metric.quality, sources |-> metric.sources]

\* State metrics: the last observation of each controller in a bucket.
StateBuckets(m, w, seconds) ==
  LET found == RawSeries(m, w)
      last(o) == \A p \in found : p.uid = o.uid /\ BucketOf(p.at, seconds) = BucketOf(o.at, seconds)
                                    => p.at <= o.at
      starts == {BucketOf(o.at, seconds) : o \in found}
  IN {PointAt(b, Aggregate(m, {o \in found : last(o) /\ BucketOf(o.at, seconds) = b})) : b \in starts}

\* Numbers: SQLite averages each register of each device, the first device of a
\* controller stands for it, then the best register does; a version that lets
\* every device count.
EachDevice(m, rows) == rows
OnePerController(m, rows) ==
  LET first(x) == x = CHOOSE y \in rows : y.uid = x.uid /\ y.reg = x.reg
      best(x) == \A y \in rows : y.uid = x.uid => PriorityOf(m, x.reg) <= PriorityOf(m, y.reg)
  IN {x \in rows : first(x) /\ best(x)}

Bucketed(m, w, seconds) ==
  LET found == {x \in RowsOf(AllDevices, NamesOf(m), w) : IsNumber(x.value)}
      group(x) == {y \in found : /\ y.dev = x.dev /\ y.reg = x.reg
                                 /\ BucketOf(y.at, seconds) = BucketOf(x.at, seconds)}
      rows(b) == {[uid |-> OwnerOf[x.dev], dev |-> x.dev, at |-> b, reg |-> x.reg,
                   value |-> MeanOf(group(x))] : x \in {y \in found : BucketOf(y.at, seconds) = b}}
  IN {PointAt(b, Aggregate(m, OnePerController(m, rows(b)))) :
        b \in {BucketOf(x.at, seconds) : x \in found}}

\* history: the resolution None is raw.  It is refused, so there is none, when
\* SQLite finds too many rows, or groups of numbers to average.
MaxSystemPoints == 20000
InSql(m, seconds) == seconds # None /\ Metrics[m].aggregation # "state_set"
RefusedHistory(m, w, seconds) ==
  LET found == RowsOf(AllDevices, NamesOf(m), w)
      groups == {<<BucketOf(x.at, seconds), x.dev, x.reg>> : x \in {y \in found : IsNumber(y.value)}}
  IN Cardinality(IF InSql(m, seconds) THEN groups ELSE found) > MaxSystemPoints
History(m, w, seconds) ==
  IF RefusedHistory(m, w, seconds) THEN {}
  ELSE IF InSql(m, seconds) THEN Bucketed(m, w, seconds)
  ELSE IF seconds # None THEN StateBuckets(m, w, seconds)
  ELSE RawSeries(m, w)

-----------------------------------------------------------------------------
(* Events                                                                    *)

ChargeNames == {"charge_state", "charger_state"}
FaultNames == {"faults", "fault_state"}
AlarmNames == {"alarms", "alarm_state"}

\* The type of a transition to a value; a version for which every change of a
\* fault starts one.
AlwaysStarts(reg, v) ==
  IF reg \in ChargeNames THEN "CHARGE_STATE_CHANGED"
  ELSE IF reg \in FaultNames THEN "FAULT_STARTED" ELSE "ALARM_STARTED"
TypeOf(reg, v) ==
  IF reg \in ChargeNames THEN "CHARGE_STATE_CHANGED"
  ELSE IF reg \in FaultNames THEN IF StateClear(v) THEN "FAULT_CLEARED" ELSE "FAULT_STARTED"
  ELSE IF StateClear(v) THEN "ALARM_CLEARED" ELSE "ALARM_STARTED"

\* The row of the same register of the same controller before a row; a version
\* by connection.
SameDevice(x, y) == x.dev = y.dev /\ x.reg = y.reg
SameKey(x, y) == OwnerOf[x.dev] = OwnerOf[y.dev] /\ x.reg = y.reg

\* The newest rows of the window are read, oldest first: a value that follows
\* a different one of its key is a transition.  The first row of a key is none.
TransitionRows(limit) == Max({10 * limit, 1000})
Transitions(w, limit) ==
  LET all == RowsOf(AllDevices, ChargeNames \cup FaultNames \cup AlarmNames, w)
      found == {x \in all : Cardinality({y \in all : y.at > x.at}) < TransitionRows(limit)}
      before(x) == {y \in found : SameKey(y, x) /\ y.at < x.at}
      changed(x) == LET old == Newest(before(x)).value IN old # Null /\ old # x.value
  IN {[type |-> TypeOf(x.reg, x.value), uid |-> OwnerOf[x.dev], at |-> x.at, reg |-> x.reg,
       previous |-> Newest(before(x)).value, value |-> x.value] :
        x \in {y \in found : before(y) # {} /\ changed(y)}}

ErrorEvents(w) ==
  {[type |-> "COMMUNICATION_ERROR", uid |-> OwnerOf[e.dev], dev |-> e.dev, at |-> e.at] :
     e \in {x \in errors : InWindow(x.at, w)}}
\* Of the syncs, the newest are read and the window is applied afterwards.
SyncEvents(w, limit) ==
  LET read == {x \in syncs : Cardinality({y \in syncs : y.at > x.at}) < limit} IN
  {[type |-> IF y.status = "ok" THEN "HISTORY_BACKFILL_COMPLETED" ELSE "HISTORY_BACKFILL_FAILED",
    uid |-> OwnerOf[y.dev], at |-> y.at] : y \in {x \in read : InWindow(x.at, w)}}

\* events: the newest of all of them, beside the stored events of Incidents.
MaxEvents == 5000
SystemEvents(w, limit) ==
  LET all == ErrorEvents(w) \cup SyncEvents(w, limit) \cup Transitions(w, limit) IN
  {e \in all : Cardinality({f \in all : f.at > e.at}) < Max({1, Min({limit, MaxEvents})})}

-----------------------------------------------------------------------------
(* Properties                                                                *)

\* The two ways to the newest value of a metric agree: what `latest` shows for a
\* controller is the last point of its raw history, unless a better register
\* was decoded as null in that sample, and no controller is shown twice.
LatestIsLastPoint ==
  \A m \in DOMAIN Metrics : \A o \in LatestView(m).sources :
    LET points == {p \in RawSeries(m, Always) : p.uid = o.uid} IN
    /\ \E p \in points : /\ \A q \in points : q.at <= p.at
                         /\ p.at = o.at
                         /\ p.value # Null => p = o
    /\ \A other \in LatestView(m).sources : other.uid = o.uid => other = o

\* A point of the bucketed history is made of the same observations as the raw
\* history: the controllers with a row in the bucket (with a number, unless the
\* metric is a state), each with one value, which is one of its own or lies
\* between the lowest and the highest of them.
BucketsFollowRaw ==
  \A m \in DOMAIN Metrics, w \in Spans, s \in Resolutions : \A b \in History(m, w, s) :
    LET state == Metrics[m].aggregation = "state_set"
        own(c) == {x \in RowsOf(DevicesOf(c), NamesOf(m), w) :
                     (state \/ IsNumber(x.value)) /\ BucketOf(x.at, s) = b.start}
    IN /\ {o.uid : o \in b.sources} = {c \in Members : own(c) # {}}
       /\ \A o \in b.sources :
            /\ \A p \in b.sources : p.uid = o.uid => p = o
            /\ IF state THEN o.value \in {x.value : x \in own(o.uid)}
               ELSE Lowest(own(o.uid)).value <= o.value /\ o.value <= Highest(own(o.uid)).value

\* The values shown of a metric, now and over time, are those of its rows.
MetricsFollowRows == LatestIsLastPoint /\ BucketsFollowRaw

\* The transitions of a register of a controller, whichever connection carried
\* them, tell its whole course: each one starts from the value the one before
\* it ended with, and the last one ends with the newest value.  A value that
\* could not be decoded interrupts the course: nothing starts from it.
TransitionsChain ==
  LET all == Transitions(Always, 1) IN
  \A e \in all :
    LET earlier == {f \in all : f.uid = e.uid /\ f.reg = e.reg /\ f.at < e.at}
        later == {f \in all : f.uid = e.uid /\ f.reg = e.reg /\ f.at > e.at}
    IN /\ earlier # {} => Newest(earlier).value \in {e.previous, Null}
       /\ later = {} => \/ e.value = Null
                        \/ e.value = Newest(RowsOf(DevicesOf(e.uid), {e.reg}, Always)).value

\* A window shows all of its transitions but those into the first row it holds
\* of a register.
WindowsShowTransitions ==
  LET all == Transitions(Always, 1) IN
  \A w \in Spans :
    LET missed == {e \in all : InWindow(e.at, w)} \ Transitions(w, 1) IN
    /\ Transitions(w, 1) \subseteq all
    /\ \A e \in missed : e.at = Oldest(RowsOf(DevicesOf(e.uid), {e.reg}, w)).at

\* The events of a register are its course, whichever part of it is asked for.
EventsChain == TransitionsChain /\ WindowsShowTransitions

\* The health and the events tell the same: where the newest sample of a
\* controller holds the fault register, the controller counts as faulty exactly
\* when its last fault event started one or, without any event, when it was
\* faulty from its first row on, unless the register could not be decoded now,
\* in the row of that event or in that first row; and a system is only well
\* while no error of a canonical row is newer than its last answer.
HealthTold ==
  /\ \A n \in {x \in NewestOf : x.sample # None} : "faults" \in DOMAIN n.sample.values =>
       LET told == {e \in Transitions(Always, 1) : e.uid = n.uid /\ e.reg = "faults"}
           first == Oldest(RowsOf(DevicesOf(n.uid), {"faults"}, Always))
           last == IF told = {} THEN first ELSE Newest(told)
       IN last.value # Null /\ n.sample.values["faults"] # Null =>
            (n.uid \in ActiveIn("faults") <=>
               IF told = {} THEN ~StateClear(first.value) ELSE last.type = "FAULT_STARTED")
  /\ HealthView = "ok" =>
       \A c \in Members : ~\E e \in SystemEvents(Always, MaxEvents) :
         /\ e.type = "COMMUNICATION_ERROR" /\ e.dev = CanonicalOf[c]
         /\ e.at >= devices[CanonicalOf[c]].seen
=============================================================================
