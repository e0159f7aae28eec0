------------------------------- MODULE Forecasts -------------------------------
(***************************************************************************)
(* Forecasts from the history of the system (forecasting/service.py) and   *)
(* the baseline the incident detectors use (solar_baseline of              *)
(* intelligence/incidents.py).  A day is a curve of bucketed solar power;  *)
(* the other days with enough buckets are what a forecast is trained on.   *)
(* Energy is in bucket-watts, a percentile is scaled by ten.               *)
(***************************************************************************)
EXTENDS PowerViews

CONSTANTS Bucket,           \* the resolution of a curve
          HistoryDays, BacktestDays, MinTrainingDays, MinDailySamples, MinStates,
          ProductivePower,  \* a bucket below it is not productive
          BaselineReach,    \* buckets this far from now are compared with now
          FloatText         \* the charge state FLOAT

\* _BUCKET_MINUTES divides a day.
ASSUME ForecastAssumption ==
  /\ Bucket \in Nat \ {0} /\ DayLength % Bucket = 0
  /\ HistoryDays \in Nat \ {0} /\ BacktestDays \in Nat \ {0}

Percentile(values, tenths) ==    \* of a bag given as a sorted sequence
  LET position == (Len(values) - 1) * tenths
      lower == position \div 10
      upper == Min({lower + 1, Len(values) - 1})
  IN IF values = <<>> THEN None
     ELSE values[lower + 1] * (10 - (position % 10)) + values[upper + 1] * (position % 10)
Bands(values) == [low |-> Percentile(values, 1), middle |-> Percentile(values, 5),
                  high |-> Percentile(values, 9)]

\* The values of a function on days, in ascending order.
InOrder(valueOf) ==
  LET before(x, y) == valueOf[x] < valueOf[y] \/ (valueOf[x] = valueOf[y] /\ x < y)
      days == Sorted(DOMAIN valueOf, before, "asc")
  IN [i \in DOMAIN days |-> valueOf[days[i]]]

Positive(x) == Max({0, x})
Hour(t) == t % DayLength
FloorOf(now) == BucketOf(Hour(now), Bucket)
DayStart(now) == now - Hour(now)
\* From the training days and the share of today that was seen, in percent.
Confidence(days, share) ==
  LET atLeast(least) == share = None \/ share >= least IN
  IF days >= 14 /\ atLeast(80) THEN "high" ELSE IF days >= 7 /\ atLeast(50) THEN "medium" ELSE "low"

\* _solar_history: day -> bucket of the day -> power.
SolarPoints(w) == {b \in Bucketed("solar_input_power_w", w, Bucket) : b.value # None}
Curves(points) ==
  [d \in {UtcDay(b.start) : b \in points} |->
     LET own == {b \in points : UtcDay(b.start) = d} IN
     [h \in {Hour(b.start) : b \in own} |-> (CHOOSE b \in own : Hour(b.start) = h).value]]

\* What may teach a forecast made at a time: the other days; a version that
\* learns from today as well.
EveryDay(day, now) == TRUE
OtherDay(day, now) == day # UtcDay(now)

Window(now, days) == [from |-> DayStart(now) - days * DayLength, to |-> now]

-----------------------------------------------------------------------------
(* The day's solar curve                                                     *)

TrainingOf(curves, now) ==
  {d \in DOMAIN curves : OtherDay(d, now) /\ Cardinality(DOMAIN curves[d]) >= MinDailySamples}
BandsAt(curves, now, h) ==
  LET days == {d \in TrainingOf(curves, now) : h \in DOMAIN curves[d]} IN
  Bands(InOrder([d \in days |-> curves[d][h]]))

\* The curve of today beside the bands of the day: what was observed so far,
\* and what is left of the day.
DayForecast(today, bands, training, now) ==
  LET hours == DOMAIN bands
      productive == {h \in hours : bands[h].middle # None /\ bands[h].middle >= 10 * ProductivePower}
      elapsed == {h \in hours : h <= FloorOf(now)}
      left(k) == MapThenSumSet(LAMBDA h : IF bands[h][k] = None THEN 0 ELSE Positive(bands[h][k]), hours \ elapsed)
      observed == MapThenSumSet(LAMBDA h : Positive(today[h]), elapsed \cap DOMAIN today)
      expected == elapsed \cap productive
      share == IF expected = {} THEN None
               ELSE (100 * Cardinality(expected \cap DOMAIN today)) \div Cardinality(expected)
      ready == training >= MinTrainingDays /\ productive # {}
  IN [status |-> IF ready THEN "ready" ELSE "insufficient_evidence",
      power |-> LatestView("solar_input_power_w").value, trainingDays |-> training,
      confidence |-> IF ready THEN Confidence(training, share) ELSE "low",
      productive |-> productive, bands |-> bands, observed |-> 10 * observed,
      expectedSoFar |-> MapThenSumSet(LAMBDA h : bands[h].middle, expected),
      endOfDay |-> [k \in {"low", "middle", "high"} |-> 10 * observed + left(k)]]
ForecastFrom(curves, now) ==
  DayForecast(IF UtcDay(now) \in DOMAIN curves THEN curves[UtcDay(now)] ELSE <<>>,
              [h \in {x \in 0 .. DayLength - 1 : x % Bucket = 0} |-> BandsAt(curves, now, h)],
              Cardinality(TrainingOf(curves, now)), now)
SolarForecast(now, w) == ForecastFrom(Curves(SolarPoints(w)), now)

\* solar_baseline: the days' means of the buckets near this time of day.
SolarBaseline(now, w) ==
  LET near == {b \in SolarPoints(w) :
                 /\ OtherDay(UtcDay(b.start), now)
                 /\ Hour(b.start) - Hour(now) \in -BaselineReach .. BaselineReach}
      own(d) == {b \in near : UtcDay(b.start) = d}
      means == [d \in {UtcDay(b.start) : b \in near} |->
                  MapThenSumSet(LAMBDA b : b.value, own(d)) \div Cardinality(own(d))]
  IN [days |-> Cardinality(DOMAIN means), bands |-> Bands(InOrder(means))]

-----------------------------------------------------------------------------
(* How good the forecast was                                                 *)

\* The days that train the forecast of one; a version that takes the newest.
NewestDays(ordered, i) == SubSeq(ordered, Max({1, Len(ordered) - HistoryDays + 1}), Len(ordered))
Prior(ordered, i) == SubSeq(ordered, Max({1, i - HistoryDays}), i - 1)

BacktestOf(energy, ordered) ==
  LET trained(i) == InOrder([d \in ToSet(Prior(ordered, i)) |-> energy[d]])
      rows == {[day |-> ordered[i], actual |-> energy[ordered[i]], bands |-> Bands(trained(i)),
                training |-> Len(trained(i))] : i \in DOMAIN ordered}
      told == {r \in rows : r.training >= MinTrainingDays}
  IN {r \in told : Cardinality({x \in told : x.day > r.day}) < BacktestDays}
EnergyOf(curves) ==
  [d \in {x \in DOMAIN curves : Cardinality(DOMAIN curves[x]) >= MinDailySamples} |->
     MapThenSumSet(LAMBDA h : Positive(curves[d][h]), DOMAIN curves[d])]
BacktestFrom(energy) == BacktestOf(energy, Sorted(DOMAIN energy, LAMBDA x, y : x < y, "asc"))
AccuracyDays(now) ==
  LET start == DayStart(now) - (HistoryDays + BacktestDays + 2) * DayLength IN
  BacktestFrom(EnergyOf(Curves(SolarPoints([from |-> start, to |-> DayStart(now)]))))

Inside(r) == r.bands.low <= 10 * r.actual /\ 10 * r.actual <= r.bands.high
ForecastAccuracy(now) ==
  LET rows == AccuracyDays(now) IN
  [status |-> IF Cardinality(rows) >= MinTrainingDays THEN "ready" ELSE "insufficient_evidence",
   days |-> rows, inside |-> Cardinality({r \in rows : Inside(r)})]

-----------------------------------------------------------------------------
(* When a controller will float                                              *)

FloatForecast(states, newest, now) ==
  LET on(d) == {x \in states : UtcDay(x.at) = d}
      days == {d \in {UtcDay(x.at) : x \in states} : OtherDay(d, now) /\ Cardinality(on(d)) >= MinStates}
      floating(d) == {x \in on(d) : x.value = FloatText}
      floated == {d \in days : floating(d) # {}}
      first == Bands(InOrder([d \in floated |-> Hour(Oldest(floating(d)).at)])).middle
      ready == Cardinality(days) >= MinTrainingDays
  IN [now |-> newest # None /\ "charge_state" \in DOMAIN newest.values
              /\ newest.values["charge_state"] = FloatText,
      ready |-> ready, days |-> Cardinality(days), floatDays |-> Cardinality(floated),
      expected |-> IF ready THEN first ELSE None]
\* The states are read from this time of day on, HistoryDays ago.
ChargeWindow(now, w) == [from |-> now - HistoryDays * DayLength, to |-> w.to]
ChargeForecast(c, now, w) ==
  LET history == RegisterHistory(DevicesOf(c), "charge_state", ChargeWindow(now, w), "asc", MaxRegisterRows) IN
  FloatForecast({x \in ToSet(history) : x.value # Null}, LatestSample(DevicesOf(c)), now)

\* system_forecast: the least of the controllers' probabilities, as a pair of
\* float days and days, and the last of their expected times; a controller
\* without evidence is left out.
Probability(f) == IF f.now THEN <<1, 1>> ELSE <<f.floatDays, f.days>>
LeastOf(told) ==
  LET less(f, g) == Probability(f)[1] * Probability(g)[2] < Probability(g)[1] * Probability(f)[2] IN
  IF told = {} THEN None ELSE Probability(CHOOSE f \in told : \A g \in told : ~less(g, f))
ForecastOf(solar, charges) ==
  LET times == {f.expected : f \in charges} \ {None} IN
  [solar |-> solar, charges |-> charges, all |-> LeastOf({f \in charges : f.ready \/ f.now}),
   last |-> IF times = {} THEN None ELSE Max(times)]
SystemForecast(now, w) ==
  ForecastOf(SolarForecast(now, w), {[uid |-> c] @@ ChargeForecast(c, now, w) : c \in Members})

-----------------------------------------------------------------------------
(* Properties                                                                *)

\* A forecast is made before the fact: the bands of the solar forecast, the
\* baseline a drop is judged by and how often a controller floats are the same
\* with and without anything recorded today.
Foretold(now, w) ==
  LET f == SystemForecast(now, w) IN
  [bands |-> f.solar.bands, charges |-> f.charges, all |-> f.all, last |-> f.last, baseline |-> SolarBaseline(now, w)]
ForecastsBlind ==
  LET known == Window(clock, HistoryDays) IN
  Foretold(clock, known) = Foretold(clock, [known EXCEPT !.to = DayStart(clock)])

\* The backtest cannot see the future: what the accuracy report says of a day
\* is what it said, or would have said, the morning after, as long as the
\* report reaches back as many days.
BacktestBlind ==
  \A r \in ForecastAccuracy(clock).days :
    \A s \in ForecastAccuracy((r.day + 1) * DayLength).days :
    r.day = s.day /\ r.training = s.training => r = s

\* Nothing that is forecast, or judged by a forecast, knows its own future.
NoHindsight == ForecastsBlind /\ BacktestBlind
=============================================================================
