--------------------------- MODULE EnergyAnalytics ---------------------------
(***************************************************************************)
(* Day-level continuity and energy of one controller                       *)
(* (history/analytics.py): raw samples and the retained daily records are  *)
(* joined when they are read.  A sample counts for its UTC day, a record   *)
(* for the calendar day it is filed under.  Energy is in half watt-units:  *)
(* twice the trapezoid of two readings is their sum.                       *)
(***************************************************************************)
EXTENDS HistoryQueries

CONSTANTS MaxGap,        \* max_gap_seconds
          MaxEnergyDays  \* a longer range is refused

ASSUME EnergyAssumption == MaxGap \in Nat

NoPeriod == [from |-> None, to |-> None]

\* The days asked for, or else those of the first and the last evidence.
Period(ids, w) ==
  LET evidence == {UtcDay(s.at) : s \in {x \in samples : x.dev \in ids}}
                  \cup {r.day : r \in {x \in daily : x.dev \in ids}}
      first == IF w.from # None THEN w.from ELSE IF evidence = {} THEN None ELSE Min(evidence)
      end == IF w.to # None THEN w.to ELSE IF evidence = {} THEN None ELSE Max(evidence) + 1
  IN IF first = None /\ end = None THEN NoPeriod
     ELSE [from |-> IF first = None THEN end - 1 ELSE first,
           to |-> IF end = None THEN first + 1 ELSE end]

DaysOf(p) == IF p = NoPeriod THEN {} ELSE p.from .. p.to - 1
RefusedPeriod(p) == p # NoPeriod /\ p.to <= p.from

LiveCount(ids, day) == Cardinality({s \in samples : s.dev \in ids /\ UtcDay(s.at) = day})
RecordsOf(ids, day) == {r \in DailyRows(ids) : r.day = day}
Completed(ids, day) == \E r \in RecordsOf(ids, day) : r.complete

\* What is known of a day.
Evidence(ids, day) ==
  IF LiveCount(ids, day) > 0 THEN "live"
  ELSE IF RecordsOf(ids, day) = {} THEN "missing"
  ELSE IF Completed(ids, day) THEN "recovered" ELSE "partial"

\* coverage: shares in hundredths of a percent, or None of no day.
PercentOf(part, whole) == IF whole = 0 THEN None ELSE (part * 10000) \div whole
Coverage(ids, w) ==
  LET days == DaysOf(Period(ids, w))
      count(kinds) == Cardinality({d \in days : Evidence(ids, d) \in kinds})
  IN [days |-> Cardinality(days), live |-> count({"live"}),
      livePercent |-> PercentOf(count({"live"}), Cardinality(days)),
      samples |-> MapThenSumSet(LAMBDA d : LiveCount(ids, d), days),
      completed |-> Cardinality({d \in days : Completed(ids, d)}),
      recovered |-> count({"recovered"}), covered |-> count({"live", "recovered"}),
      coveredPercent |-> PercentOf(count({"live", "recovered"}), Cardinality(days)),
      missing |-> Cardinality(days) - count({"live", "recovered"}),
      last |-> LastSync(ids)]

\* gaps: the days without a sample, consecutive ones of one status together; a
\* version that looks at the dates only.
SameDates(ids, d, e) == Evidence(ids, d) # "live" /\ Evidence(ids, e) # "live"
SameGap(ids, d, e) == Evidence(ids, d) # "live" /\ Evidence(ids, e) = Evidence(ids, d)
Gaps(ids, w) ==
  LET days == DaysOf(Period(ids, w))
      starts == {d \in days : /\ Evidence(ids, d) # "live"
                              /\ ~(d - 1 \in days /\ SameGap(ids, d - 1, d))}
      runs(d) == {e \in days : e >= d /\ \A x \in d .. e - 1 : SameGap(ids, x, x + 1)}
  IN {[from |-> d, to |-> Max(runs(d)) + 1, days |-> Cardinality(runs(d)),
       status |-> Evidence(ids, d),
       recoverable |-> Evidence(ids, d) # "missing"] : d \in starts}

\* Neighbours a gap apart are not integrated over; a version that always is.
AlwaysJoined(left, right) == TRUE
Joined(left, right) == right.at - left.at <= MaxGap

\* energy_daily of one day.
DailyEnergy(ids, day) ==
  LET power == {x \in RowsOf(ids, {"output_power"}, Always) :
                  IsNumber(x.value) /\ UtcDay(x.at) = day}
      seq == Sorted(power, Earlier, "asc")
      pairs == {i \in 1 .. Len(seq) - 1 : Joined(seq[i], seq[i + 1])}
      span(i) == seq[i + 1].at - seq[i].at
      records == RecordsOf(ids, day)
      controller == IF records = {} THEN None ELSE (CHOOSE r \in records : TRUE).wh
      integrated == IF Len(seq) < 2 THEN None
                    ELSE MapThenSumSet(LAMBDA i : (seq[i].value + seq[i + 1].value) * span(i), pairs)
  IN [day |-> day, controller |-> controller, integrated |-> integrated,
      difference |-> IF controller = None \/ integrated = None THEN None
                     ELSE integrated - controller,
      persisted |-> LiveCount(ids, day), readings |-> power,
      joined |-> MapThenSumSet(span, pairs),
      skipped |-> MapThenSumSet(span, (1 .. Len(seq) - 1) \ pairs),
      complete |-> Completed(ids, day)]

EnergyDaily(ids, w) ==
  IF Cardinality(DaysOf(Period(ids, w))) > MaxEnergyDays THEN {}
  ELSE {DailyEnergy(ids, d) : d \in DaysOf(Period(ids, w))}

\* energy_summary: both sums, and their difference when both are known.
EnergySummary(ids, w) ==
  LET told == {e \in EnergyDaily(ids, w) : e.controller # None}
      measured == {e \in EnergyDaily(ids, w) : e.integrated # None}
      controller == IF told = {} THEN None ELSE MapThenSumSet(LAMBDA e : e.controller, told)
      integrated == IF measured = {} THEN None ELSE MapThenSumSet(LAMBDA e : e.integrated, measured)
  IN [controller |-> controller, integrated |-> integrated,
      difference |-> IF controller = None \/ integrated = None THEN None
                     ELSE integrated - controller,
      controllerDays |-> Cardinality(told), integratedDays |-> Cardinality(measured)]

-----------------------------------------------------------------------------
(* Properties                                                                *)

Windows == {Always} \cup {[from |-> a, to |-> b] : a, b \in {0, 1, None}}

\* Coverage and gaps, two requests over the same evidence, tell the same days:
\* every day is live, recovered or missing once, the gaps of a status add up to
\* what the coverage says of it, and no two gaps of one status touch; over all
\* time, the summary of the retained history counts the records the history
\* tells, as far as one response of it goes.
EvidenceAgrees ==
  \A c \in Controllers : \A w \in {x \in Windows : ~RefusedPeriod(Period(DevicesOf(c), x))} :
    LET ids == DevicesOf(c)
        coverage == Coverage(ids, w)
        gaps == Gaps(ids, w)
        daysOf(kinds) == MapThenSumSet(LAMBDA g : g.days, {g \in gaps : g.status \in kinds})
    IN /\ coverage.live + coverage.recovered + coverage.missing = coverage.days
       /\ daysOf({"recovered"}) = coverage.recovered
       /\ daysOf({"missing", "partial"}) = coverage.missing
       /\ \A g, h \in gaps : g.to = h.from => g.status # h.status
       /\ w = Always => /\ coverage.completed = DailySummary(ids).complete
                        /\ Cardinality(DailyHistory(ids, w, MaxDays))
                             = Min({DailySummary(ids).records, MaxDays})
                        /\ \A d \in ids : Cardinality(DeviceDaily(d, w, MaxDays))
                                          = Min({DeviceDailySummary(d).records, MaxDays})

\* A day is never credited with more than its readings support: the longest
\* time allowed between two of them at the highest value read, or at none when
\* all are negative.  What is left out is reported, and no day is measured that
\* the coverage does not call live.
EnergyBounded ==
  \A c \in Controllers : \A w \in {x \in Windows : ~RefusedPeriod(Period(DevicesOf(c), x))} :
    /\ \A e \in EnergyDaily(DevicesOf(c), w) : e.integrated # None =>
         LET top == Max({0} \cup {x.value : x \in e.readings}) IN
         /\ e.integrated <= 2 * top * MaxGap * (Cardinality(e.readings) - 1)
         /\ e.joined + e.skipped = Newest(e.readings).at - Oldest(e.readings).at
    /\ EnergySummary(DevicesOf(c), w).integratedDays <= Coverage(DevicesOf(c), w).live

\* The day-level reports of a controller contradict neither each other nor the
\* rows they were made from.
AnalyticsAgree == EvidenceAgrees /\ EnergyBounded
=============================================================================
