--------------------------- MODULE HistoryQueries ---------------------------
(***************************************************************************)
(* The read side of the telemetry tables: raw, aggregated and summarised   *)
(* register history over one device (persistence/store.py) or over every   *)
(* device of a controller (history/controller_data.py), and the retained   *)
(* daily history.  A window is inclusive at its start and exclusive at its *)
(* end.  Numbers are scaled so that every mean is exact.                   *)
(***************************************************************************)
EXTENDS TelemetryStore, SequencesExt, FiniteSetsExt

CONSTANTS Registers,  \* the register names, in the order of the database
          MaxPoints   \* a response has no more points than this

ASSUME RegisterAssumption ==
  /\ DOMAIN Registers = 1 .. Len(Registers) /\ Len(Registers) \in Nat
  /\ \A i, j \in DOMAIN Registers : Registers[i] = Registers[j] => i = j
  /\ \A d \in Devices : \A values \in ReadingsOf[d] : DOMAIN values \subseteq ToSet(Registers)
  /\ None \notin ToSet(Registers)
  /\ MaxPoints \in Nat

Always == [from |-> None, to |-> None]
InWindow(t, w) == /\ w.from # None => t >= w.from
                  /\ w.to # None => t < w.to

\* normalize_time_range refuses an empty window, or one turned round.
ValidWindow(w) == w.from # None /\ w.to # None => w.from < w.to

IsNumber(v) == v # Null /\ v \notin Texts
IsText(v) == v \in Texts

-----------------------------------------------------------------------------
(* Rows of register_values joined with poll_samples                          *)

DevicesOf(c) == {d \in Devices : OwnerOf[d] = c}

RowsOf(ids, names, w) ==
  UNION {{[dev |-> s.dev, at |-> s.at, reg |-> r, value |-> s.values[r]] :
            r \in names \cap DOMAIN s.values} :
         s \in {x \in samples : x.dev \in ids /\ InWindow(x.at, w)}}

RankOf == [reg \in ToSet(Registers) |-> CHOOSE i \in DOMAIN Registers : Registers[i] = reg]
Earlier(x, y) == x.at < y.at \/ (x.at = y.at /\ RankOf[x.reg] < RankOf[y.reg])
Oldest(R) == CHOOSE x \in R : \A y \in R : ~Earlier(y, x)
Newest(R) == CHOOSE x \in R : \A y \in R : ~Earlier(x, y)

\* ORDER BY ... asc or desc, and LIMIT.
Sorted(S, Before(_, _), order) ==
  LET place == [x \in S |-> 1 + Cardinality({y \in S : Before(y, x)})]
      asc == [i \in 1 .. Cardinality(S) |-> CHOOSE x \in S : place[x] = i]
  IN IF order = "asc" THEN asc ELSE Reverse(asc)
Limited(seq, limit) == SubSeq(seq, 1, IF Len(seq) < limit THEN Len(seq) ELSE limit)

KindOf(v) == IF IsNumber(v) THEN "numeric" ELSE IF IsText(v) THEN "text" ELSE "null"
Normalized(row) == [dev |-> row.dev, at |-> row.at, reg |-> row.reg, value |-> row.value,
                    kind |-> KindOf(row.value)]

RawRows(ids, names, w, order, limit) ==
  LET found == Limited(Sorted(RowsOf(ids, names, w), Earlier, order), limit) IN
  [i \in DOMAIN found |-> Normalized(found[i])]

\* A response of more than `most` points is refused; a version that cuts it.
TooLarge == [points |-> None]
CutResponse(seq, most) == [points |-> Limited(seq, most)]
Response(seq, most) == IF Len(seq) > most THEN TooLarge ELSE [points |-> seq]

-----------------------------------------------------------------------------
(* Aggregates, of a bucket or of a whole window                              *)

BucketOf(t, seconds) == t - (t % seconds)

MeanOf(R) == MapThenSumSet(LAMBDA x : x.value, R) \div Cardinality(R)
Lowest(R) == CHOOSE x \in R : \A y \in R : x.value < y.value \/ (x.value = y.value /\ x.at <= y.at)
Highest(R) == CHOOSE x \in R : \A y \in R : x.value > y.value \/ (x.value = y.value /\ x.at <= y.at)

\* LAG(text_value): a text that follows a different one of its register in the
\* whole window; a version that looks within the bucket only.
ChangedInBucket(x, bucket, all) ==
  LET before == {y \in bucket : y.at < x.at} IN
  before # {} /\ Newest(before).value # x.value
Changed(x, bucket, all) ==
  LET before == {y \in all : y.at < x.at} IN
  before # {} /\ Newest(before).value # x.value

\* The values one register took in a bucket, of all it took in the window; a
\* column of the other kind is NULL.
Summary(kind, bucket, all) ==
  LET ofNumbers(column) == IF kind = "numeric" THEN column ELSE None
  IN [count |-> Cardinality(bucket), first |-> Oldest(bucket), last |-> Newest(bucket),
      mean |-> ofNumbers(MeanOf(bucket)), low |-> ofNumbers(Lowest(bucket)), high |-> ofNumbers(Highest(bucket)),
      transitions |-> IF kind = "numeric" THEN None
                      ELSE Cardinality({x \in bucket : Changed(x, bucket, all)})]

\* _aggregated_history_sql: one row for each register, kind and bucket.
AggregatedRows(ids, names, w, seconds) ==
  LET found == {x \in RowsOf(ids, names, w) : x.value # Null}
      cellOf(x) == [reg |-> x.reg, kind |-> KindOf(x.value), start |-> BucketOf(x.at, seconds)]
      all(c) == {x \in found : x.reg = c.reg /\ KindOf(x.value) = c.kind}
  IN {[start |-> c.start, reg |-> c.reg, kind |-> c.kind,
       of |-> Summary(c.kind, {x \in all(c) : cellOf(x) = c}, all(c))] :
        c \in {cellOf(x) : x \in found}}

\* register_stats: the same over the whole window, with its duration, the change
\* over it and how often each text was seen.
RegisterStats(ids, names, w) ==
  LET found == {x \in RowsOf(ids, names, w) : x.value # Null}
      all(c) == {x \in found : x.reg = c.reg /\ KindOf(x.value) = c.kind}
      duration(R) == Newest(R).at - Oldest(R).at
  IN {[reg |-> c.reg, kind |-> c.kind, of |-> Summary(c.kind, all(c), all(c)),
       duration |-> duration(all(c)),
       delta |-> IF c.kind = "numeric" THEN Newest(all(c)).value - Oldest(all(c)).value ELSE None,
       seen |-> IF c.kind = "numeric" THEN None
                ELSE [v \in {x.value : x \in all(c)} |-> Cardinality({x \in all(c) : x.value = v})]] :
        c \in {[reg |-> x.reg, kind |-> KindOf(x.value)] : x \in found}}

\* multi_register_history, and the export, which streams the rows unlimited.
CellBefore(a, b) ==
  \/ a.start < b.start
  \/ a.start = b.start /\ RankOf[a.reg] < RankOf[b.reg]
  \/ a.start = b.start /\ a.reg = b.reg /\ a.kind = "numeric" /\ b.kind = "text"
Exported(ids, names, w, order, seconds) ==
  IF seconds = None THEN RawRows(ids, names, w, order, Cardinality(RowsOf(ids, names, w)))
  ELSE Sorted(AggregatedRows(ids, names, w, seconds), CellBefore, order)
MultiHistory(ids, names, w, order, seconds, most) ==
  IF seconds = None THEN Response(RawRows(ids, names, w, order, most + 1), most)
  ELSE Response(Limited(Sorted(AggregatedRows(ids, names, w, seconds), CellBefore, order),
                        most + 1), most)

\* build_history_response: each point is appended to the series of its register,
\* which is of mixed kind when its points are.
PointsOf(points, reg) ==
  LET upTo[n \in 0 .. Len(points)] ==
        IF n = 0 THEN <<>>
        ELSE IF points[n].reg = reg THEN Append(upTo[n - 1], points[n]) ELSE upTo[n - 1]
  IN upTo[Len(points)]
Series(points) ==
  LET regs == {points[i].reg : i \in DOMAIN points}
      of(reg) == PointsOf(points, reg)
      kinds(reg) == {of(reg)[i].kind : i \in DOMAIN of(reg)}
  IN [reg \in regs |->
        [kind |-> IF Cardinality(kinds(reg)) = 1 THEN of(reg)[1].kind ELSE "mixed",
         points |-> of(reg)]]

\* register_history: one register, at most ten thousand rows, never refused.
MaxRegisterRows == 10000
RegisterHistory(ids, reg, w, order, limit) ==
  RawRows(ids, {reg}, w, order, Max({1, Min({limit, MaxRegisterRows})}))

HistorySummary(ids, w) ==
  LET polled == {s \in samples : s.dev \in ids /\ InWindow(s.at, w)}
      found == RowsOf(ids, UNION {DOMAIN s.values : s \in polled}, w)
  IN [first |-> IF polled = {} THEN None ELSE Min({s.at : s \in polled}),
      last |-> IF polled = {} THEN None ELSE Max({s.at : s \in polled}),
      samples |-> Cardinality(polled), observations |-> Cardinality(found),
      registers |-> Cardinality({x.reg : x \in found}),
      errors |-> Cardinality({e \in errors : e.dev \in ids /\ InWindow(e.at, w)})]

-----------------------------------------------------------------------------
(* Samples                                                                   *)

MaxSamples == 5000
SamplesOf(ids, w, order, limit) ==
  LET found == {s \in samples : s.dev \in ids /\ InWindow(s.at, w)}
  IN Limited(Sorted(found, LAMBDA x, y : x.at < y.at, order), Max({1, Min({limit, MaxSamples})}))

LatestSample(ids) ==
  LET newest == SamplesOf(ids, Always, "desc", 1) IN
  IF newest = <<>> THEN None ELSE newest[1]

\* The same queries over one device, as the store answers them.
DeviceLatest(d) == LatestSample({d})
DeviceSamples(d, w, order, limit) == SamplesOf({d}, w, order, limit)
DeviceRegister(d, reg, w, order, limit) == RegisterHistory({d}, reg, w, order, limit)
DeviceHistory(d, names, w, order, seconds, most) == MultiHistory({d}, names, w, order, seconds, most)
DeviceAggregated(d, names, w, seconds) == AggregatedRows({d}, names, w, seconds)
DeviceStats(d, names, w) == RegisterStats({d}, names, w)
DeviceSummary(d, w) == HistorySummary({d}, w)
DeviceExport(d, names, w, order, seconds) == Exported({d}, names, w, order, seconds)

-----------------------------------------------------------------------------
(* Retained history                                                          *)

MaxDays == 500
FillsGap(r) == r.complete /\ r.live = 0
DaysIn(S, w) == {r \in S : InWindow(r.day, w)}

\* One record of each day, of the newest ones, whichever device they came over.
NewestRecord(ids, day) ==
  LET filed == {r \in daily : r.dev \in ids /\ r.day = day} IN
  CHOOSE r \in filed : \A other \in filed : other.retrieved <= r.retrieved
DailyRows(ids) == {NewestRecord(ids, r.day) : r \in {x \in daily : x.dev \in ids}}

\* ORDER BY controller_day DESC LIMIT: the newest days of the window.
DailyHistory(ids, w, limit) ==
  {r \in DaysIn(DailyRows(ids), w) :
     Cardinality({x \in DaysIn(DailyRows(ids), w) : x.day > r.day})
       < Max({1, Min({limit, MaxDays})})}
DeviceDaily(d, w, limit) == DailyHistory({d}, w, limit)

LastSync(ids) ==
  LET found == {y \in syncs : y.dev \in ids} IN
  IF found = {} THEN None ELSE CHOOSE y \in found : \A z \in found : z.at <= y.at

DailySummary(ids) ==
  LET R == DailyRows(ids) IN
  [records |-> Cardinality(R), complete |-> Cardinality({r \in R : r.complete}),
   gapsFilled |-> Cardinality({r \in R : FillsGap(r)}),
   oldest |-> IF R = {} THEN None ELSE Min({r.day : r \in R}),
   newest |-> IF R = {} THEN None ELSE Max({r.day : r \in R}),
   retrieved |-> IF R = {} THEN None ELSE Max({r.retrieved : r \in R}),
   last |-> LastSync(ids)]
DeviceDailySummary(d) == DailySummary({d})

-----------------------------------------------------------------------------
(* Properties                                                                *)

Spans == {w \in {Always} \cup [from : {2}, to : {None, 2, 4}] : ValidWindow(w)}
Resolutions == {2}

\* A response is refused or whole: it never holds less than the export of the
\* same window does.
NeverCut(ids, w, order, seconds) ==
  LET exported == Exported(ids, ToSet(Registers), w, order, seconds)
      response == MultiHistory(ids, ToSet(Registers), w, order, seconds, MaxPoints)
  IN IF Len(exported) > MaxPoints THEN response = TooLarge ELSE response.points = exported

\* The raw history of all registers is that of each one.
SeriesAddUp(ids, w) ==
  LET series == Series(Exported(ids, ToSet(Registers), w, "asc", None)) IN
  \A reg \in ToSet(Registers) :
    LET own == RegisterHistory(ids, reg, w, "asc", MaxRegisterRows) IN
    IF reg \in DOMAIN series THEN series[reg].points = own ELSE own = <<>>

\* The buckets of a register are a partition of what its statistics tell.
BucketsAddUp(ids, w, seconds) ==
  \A stat \in RegisterStats(ids, ToSet(Registers), w) :
    LET cells == {x \in AggregatedRows(ids, ToSet(Registers), w, seconds) :
                    x.reg = stat.reg /\ x.kind = stat.kind}
    IN /\ MapThenSumSet(LAMBDA x : x.of.count, cells) = stat.of.count
       /\ \E x \in cells : x.of.first = stat.of.first /\ \A y \in cells : x.start <= y.start
       /\ \E x \in cells : x.of.last = stat.of.last /\ \A y \in cells : x.start >= y.start
       /\ IF stat.kind = "numeric"
          THEN \E x \in cells : x.of.low = stat.of.low /\ \A y \in cells : x.of.low.value <= y.of.low.value
          ELSE MapThenSumSet(LAMBDA x : x.of.transitions, cells) = stat.of.transitions

\* A controller is its devices: what the store answers of each one adds up to
\* what the controller is told, in every form.
DevicesAddUp(c, w) ==
  LET all == DevicesOf(c)
      names == ToSet(Registers)
      total(f) == MapThenSumSet(LAMBDA d : f[d], all)
      counted(cells) == MapThenSumSet(LAMBDA x : x.of.count, cells)
      observed == [d \in all |-> Len(DeviceExport(d, names, w, "desc", None))]
      told(d) == DeviceHistory(d, names, w, "desc", None, MaxPoints)
  IN /\ total(observed) = Len(Exported(all, names, w, "desc", None))
     /\ total([d \in all |-> DeviceSummary(d, w).observations]) = HistorySummary(all, w).observations
     /\ total([d \in all |-> Len(DeviceSamples(d, w, "asc", MaxSamples))]) = HistorySummary(all, w).samples
     /\ counted(RegisterStats(all, names, w)) = total([d \in all |-> counted(DeviceStats(d, names, w))])
     /\ \A d \in all : /\ counted(DeviceStats(d, names, w)) = counted(DeviceAggregated(d, names, w, 2))
                      /\ IF observed[d] > MaxPoints THEN told(d) = TooLarge
                         ELSE Len(told(d).points) = observed[d]
     /\ total([d \in all |-> Len(DeviceRegister(d, "charge_state", w, "asc", MaxRegisterRows))])
          = Len(RegisterHistory(all, "charge_state", w, "asc", MaxRegisterRows))
     /\ LatestSample(all) # None => \E d \in all : DeviceLatest(d) = LatestSample(all)

\* The queries over the same window tell the same rows, whichever of them is
\* asked: the response and the export, the series of many registers and that of
\* one, the buckets and the statistics, the controller and its devices.
QueriesAgree ==
  \A c \in Controllers, w \in Spans :
    /\ \A s \in {None} \cup Resolutions : NeverCut(DevicesOf(c), w, "desc", s)
    /\ SeriesAddUp(DevicesOf(c), w) /\ DevicesAddUp(c, w)
    /\ \A s \in Resolutions : BucketsAddUp(DevicesOf(c), w, s)
=============================================================================
