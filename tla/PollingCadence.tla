--------------------------- MODULE PollingCadence ---------------------------
(* How fast the watcher polls and how often it writes: the automatic poll    *)
(* interval (AutoPollIntervalController), the evaluation it shares with      *)
(* benchmark-polling, and the limiter between polls and database rows.       *)
(* Times are in milliseconds, rates in hundredths of a percent.              *)
EXTENDS Integers, Sequences, FiniteSets, SequencesExt

CONSTANTS Controllers, Connections,  \* a connection: key, profile and transport
          OutcomesOf,         \* controller -> the polls it can answer with
          Benchmarks,         \* the configured stage intervals
          Fallback,           \* auto_fallback_interval_seconds
          PersistEvery,       \* telemetry_write_interval_seconds
          SamplesPerInterval,
          MinSuccess, MaxHeadroom, MaxMisses, MaxLost, MaxBus,  \* thresholds
          MaxSkip,            \* bound: cycles a backoff lasts
          MaxChanges,         \* bound: later discoveries that change the selection
          MaxFailedSaves,     \* bound: refused database writes
          None

ASSUME CadenceAssumption ==
  /\ Benchmarks # {} /\ Benchmarks \subseteq Nat \ {0} /\ IsFiniteSet(Benchmarks)
  /\ Fallback \in Nat /\ \A i \in Benchmarks : Fallback >= i
  /\ PersistEvery \in Nat \ {0}
  /\ SamplesPerInterval \in Nat /\ SamplesPerInterval >= 3
  /\ None \notin Nat /\ None \notin Connections
  /\ MaxSkip \in Nat /\ MaxChanges \in Nat /\ MaxFailedSaves \in Nat

VARIABLES
  stage, lastSafe, locked, samples,  \* AutoPollIntervalController
  lastWrite,    \* PollPersistenceLimiter: age of the last accepted write
  selected,     \* controller -> the selected connection, or None
  signature,    \* Watcher._auto_signature
  skip,         \* cycles a controller's backoff still lasts
  turn,         \* parity of the passes of the loop
  changes, failedSaves,
  recent,       \* history: the last polls over the present connection
  earned,       \* history: intervals those polls passed in a row
  report,       \* history: the stages evaluated since the last reset
  wrote         \* history: controllers with a row from the last cycle

autoVars == <<stage, lastSafe, locked, samples, report>>
vars == <<stage, lastSafe, locked, samples, lastWrite, selected, signature, skip,
          turn, changes, failedSaves, recent, earned, report, wrote>>

Present == {c \in Controllers : selected[c] # None}
LastOf(s, n) == SubSeq(s, IF Len(s) > n THEN Len(s) - n + 1 ELSE 1, Len(s))
Tally(s, Test(_)) == Cardinality({i \in DOMAIN s : Test(s[i])})
Total(s, Part(_)) == FoldLeft(LAMBDA sum, x : sum + Part(x), 0, s)

-----------------------------------------------------------------------------
(* One poll, measured.                                                       *)

\* Bits on the bus for one poll: its frames, and 3.5 characters of silence
\* before and after each exchange, of 11 bits a character.
WireBits(o) == (o.bytes + 7 * o.requests) * 11

\* A share in hundredths of a percent, rounded up: it exceeds a limit exactly
\* when the unrounded share does.
Share(part, whole) == IF whole = 0 THEN 0 ELSE -((-part * 10000) \div whole)

\* tracker.finish: the poll as a performance sample.
Sample(o, interval) ==
  [latency |-> o.latency, failed |-> ~o.success, requests |-> o.requests,
   lost |-> o.lost, interval |-> interval, missed |-> o.latency > interval,
   bus |-> IF o.baudrate = 0 THEN None
           ELSE Share(WireBits(o), (o.baudrate * interval) \div 1000)]

\* 100 times the percentile p of the values, interpolated between the ranks.
Percentile(values, p) ==
  LET \* the k-th smallest value
      Ranked(k) == values[CHOOSE i \in DOMAIN values :
                            /\ Tally(values, LAMBDA v : v < values[i]) < k
                            /\ Tally(values, LAMBDA v : v <= values[i]) >= k]
      position == (Len(values) - 1) * p
      lower == position \div 100 + 1
      upper == IF lower < Len(values) THEN lower + 1 ELSE Len(values)
      weight == position % 100
  IN Ranked(lower) * (100 - weight) + Ranked(upper) * weight

Summary(window) ==
  LET buses == {window[i].bus : i \in DOMAIN window} \ {None}
  IN [failures |-> Share(Tally(window, LAMBDA s : s.failed), Len(window)),
      p95 |-> Percentile([i \in DOMAIN window |-> window[i].latency], 95),
      misses |-> Share(Tally(window, LAMBDA s : s.missed), Len(window)),
      lost |-> Share(Total(window, LAMBDA s : s.lost),
                     Total(window, LAMBDA s : s.requests)),
      bus |-> buses]

\* mutant: a poll that failed is judged by its latency only
LenientStage(interval, window) ==
  Summary(window).p95 * 100 <= interval * MaxHeadroom

StagePassed(interval, window) ==
  LET s == Summary(window)
  IN /\ s.failures <= 10000 - MinSuccess
     /\ s.p95 * 100 <= interval * MaxHeadroom
     /\ s.misses <= MaxMisses
     /\ s.lost <= MaxLost
     /\ \A b \in s.bus : b <= MaxBus


-----------------------------------------------------------------------------
(* benchmark-polling's report: stages run from slow to fast, the first       *)
(* failure ends them.                                                        *)
Stage(interval, passed) == [interval |-> interval, passed |-> passed]

Recommended(stages) ==
  LET upToFailure == SelectInSeq(stages, LAMBDA st : ~st.passed)
      good == IF upToFailure = 0 THEN stages ELSE SubSeq(stages, 1, upToFailure - 1)
  IN IF good = <<>> THEN None ELSE Last(good).interval

-----------------------------------------------------------------------------
(* AutoPollIntervalController.                                               *)

\* intervals_seconds: the fallback and the stages, from slow to fast.
Intervals ==
  LET stages == Benchmarks \cup {Fallback}
  IN [k \in 1..Cardinality(stages) |->
        CHOOSE i \in stages : Cardinality({j \in stages : j > i}) = k - 1]

CurrentInterval == IF locked # None THEN locked ELSE Intervals[stage]

NoSamples == [c \in Controllers |-> <<>>]

Reset ==
  /\ stage' = 1
  /\ lastSafe' = None
  /\ locked' = None
  /\ samples' = NoSamples
  /\ report' = <<>>

\* mutant: a controller that is backing off starts its stage again
CollectedInARow(performance) ==
  [c \in Controllers |->
     IF c \in DOMAIN performance /\ c \in Present
     THEN LastOf(Append(samples[c], performance[c]), SamplesPerInterval)
     ELSE <<>>]

\* A poll joins its controller's samples of the stage; only the last
\* SamplesPerInterval are ever judged.
Collected(performance) ==
  [c \in Controllers |->
     IF c \in DOMAIN performance /\ c \in Present
     THEN LastOf(Append(samples[c], performance[c]), SamplesPerInterval)
     ELSE samples[c]]

\* The stage is judged when every present controller has its samples.
StageComplete(collected) ==
  \A c \in Present : Len(collected[c]) = SamplesPerInterval

\* mutant: one controller that can stand the rate is enough
StageUsable(collected) ==
  \E c \in Present : StagePassed(CurrentInterval, collected[c])

StageSafe(collected) ==
  \A c \in Present : StagePassed(CurrentInterval, collected[c])

\* mutant: a failed stage locks its own interval
LockTried == CurrentInterval
LockSafe == IF lastSafe # None THEN lastSafe ELSE Fallback

Judge(collected) ==
  LET safe == StageSafe(collected)
  IN /\ samples' = NoSamples
     /\ report' = Append(report, Stage(CurrentInterval, safe))
     /\ lastSafe' = IF safe THEN CurrentInterval ELSE lastSafe
     /\ IF safe /\ stage < Len(Intervals)
        THEN stage' = stage + 1 /\ locked' = locked
        ELSE /\ stage' = stage
             /\ locked' = IF safe THEN CurrentInterval ELSE LockSafe

Observe(performance) ==
  IF locked # None \/ Present = {}
  THEN UNCHANGED autoVars
  ELSE LET collected == Collected(performance)
       IN IF StageComplete(collected)
          THEN Judge(collected)
          ELSE /\ samples' = collected
               /\ UNCHANGED <<stage, lastSafe, locked, report>>

-----------------------------------------------------------------------------
(* PollPersistenceLimiter: one write per controller and PersistEvery, asked  *)
(* when the poll ends, before the write is tried.                            *)
MayPersist(c, latency) == lastWrite[c] + latency >= PersistEvery

\* mutant: an age that is never renewed grows on
Ageless(age) == age

Aged(age) == IF age > PersistEvery THEN PersistEvery ELSE age

\* mutant: a refused poll pushes the next write back too
AgesPushed(performance, accepted, length) ==
  [c \in Controllers |->
     IF c \in DOMAIN performance THEN Aged(length - performance[c].latency)
     ELSE Aged(lastWrite[c] + length)]

\* The ages at the start of the next cycle.
AgesAfter(performance, accepted, length) ==
  [c \in Controllers |->
     IF c \in accepted THEN Aged(length - performance[c].latency)
     ELSE Aged(lastWrite[c] + length)]

-----------------------------------------------------------------------------
(* The watcher's loop.                                                       *)

\* mutant: the calibration belongs to the set of controllers
Membership(selection) == {c \in Controllers : selection[c] # None}

\* _refresh_devices: another selection of connections ends the calibration,
\* unless it is the first.
Signature(selection) == selection

Refresh(selection) ==
  /\ changes' = IF signature = None \/ selection = selected THEN changes ELSE changes + 1
  /\ changes' <= MaxChanges
  /\ selected' = selection
  /\ signature' = Signature(selection)
  /\ IF signature # None /\ signature' # signature
     THEN Reset
     ELSE UNCHANGED autoVars
  /\ LET stays == {c \in Controllers : selection[c] = selected[c]}
     IN /\ recent' = [c \in Controllers |-> IF c \in stays THEN recent[c] ELSE <<>>]
        /\ earned' = [c \in Controllers |-> IF c \in stays THEN earned[c] ELSE {}]
        /\ skip' = [c \in Controllers |-> IF c \in stays THEN skip[c] ELSE 0]
  /\ UNCHANGED <<lastWrite, turn, failedSaves, wrote>>

\* _poll_all: the present controllers out of their backoff.
CanPoll == {c \in Present : skip[c] = 0}

Answers == {a \in [CanPoll -> UNION {OutcomesOf[c] : c \in Controllers}] :
              \A c \in CanPoll : a[c] \in OutcomesOf[c]}

Longest(performance) ==
  CHOOSE t \in {performance[c].latency : c \in DOMAIN performance} \cup {0} :
    \A c \in DOMAIN performance : performance[c].latency <= t

\* _poll_one: every poll that ends may be written, failed or not.
Persist(performance, length) ==
  LET accepted == {c \in DOMAIN performance : MayPersist(c, performance[c].latency)}
  IN /\ wrote' \in SUBSET accepted
     /\ failedSaves' = failedSaves + Cardinality(accepted \ wrote')
     /\ failedSaves' <= MaxFailedSaves
     /\ lastWrite' = AgesAfter(performance, accepted, length)

\* mark_failure starts a backoff, mark_success ends one.
BackOff(performance) ==
  /\ skip' \in [Controllers -> 0..MaxSkip]
  /\ \A c \in Controllers :
       IF c \in DOMAIN performance
       THEN performance[c].failed \/ skip'[c] = 0
       ELSE skip'[c] = IF skip[c] = 0 THEN 0 ELSE skip[c] - 1

Remember(performance) ==
  LET window == [c \in Controllers |->
                   IF c \in DOMAIN performance
                   THEN LastOf(Append(recent[c], performance[c]), SamplesPerInterval)
                   ELSE recent[c]]
      Earned(c) == /\ Len(window[c]) = SamplesPerInterval
                   /\ \A i \in DOMAIN window[c] : window[c][i].interval = CurrentInterval
                   /\ StagePassed(CurrentInterval, window[c])
  IN /\ recent' = window
     /\ earned' = [c \in Controllers |->
                     earned[c] \cup IF Earned(c) THEN {CurrentInterval} ELSE {}]

\* One pass of the loop of run() between two discoveries.
Cycle ==
  /\ signature # None
  /\ \E answers \in Answers :
       LET performance == [c \in CanPoll |-> Sample(answers[c], CurrentInterval)]
           worst == Longest(performance)
       IN /\ Observe(performance)
          /\ Remember(performance)
          /\ BackOff(performance)
          /\ Persist(performance,
                     IF CurrentInterval' > worst THEN CurrentInterval' ELSE worst)
  /\ turn' = 1 - turn
  /\ UNCHANGED <<selected, signature, changes>>

Init ==
  /\ stage = 1 /\ lastSafe = None /\ locked = None /\ samples = NoSamples
  /\ report = <<>>
  /\ lastWrite = [c \in Controllers |-> PersistEvery]
  /\ selected = [c \in Controllers |-> None]
  /\ signature = None
  /\ skip = [c \in Controllers |-> 0]
  /\ turn = 0 /\ changes = 0 /\ failedSaves = 0
  /\ recent = NoSamples
  /\ earned = [c \in Controllers |-> {}]
  /\ wrote = {}

Next ==
  \/ \E selection \in [Controllers -> Connections \cup {None}] : Refresh(selection)
  \/ Cycle

\* run() loops until it is stopped: passes keep coming. A pass is possible in
\* every state after the first discovery, and only Cycle turns.
Fairness == WF_turn(turn' = 1 - turn)

Spec == Init /\ [][Next]_vars /\ Fairness

-----------------------------------------------------------------------------
(* Properties.                                                               *)

TypeOK ==
  /\ stage \in 1..Len(Intervals)
  /\ {lastSafe, locked} \subseteq Range(Intervals) \cup {None}
  /\ \A c \in Controllers : Len(samples[c]) <= SamplesPerInterval
  /\ lastWrite \in [Controllers -> 0..PersistEvery]
  /\ selected \in [Controllers -> Connections \cup {None}]
  /\ skip \in [Controllers -> 0..MaxSkip]
  /\ wrote \subseteq Controllers
  /\ turn \in {0, 1}

\* The watcher never polls faster than it has evidence for: every controller
\* present now passed, over the connection it has now, the interval the
\* watcher settled on, or the next slower stage while one is being tried
\* (docs/polling-performance.md:47-49, the reset at polling/service.py:264).
SafeInterval ==
  CurrentInterval = Fallback \/
  \A c \in Present :
    IF locked # None THEN locked \in earned[c] ELSE Intervals[stage - 1] \in earned[c]

\* What auto mode settles on is what benchmark-polling would recommend from
\* the same stages, or the fallback where the report recommends none.
BenchmarkAgrees ==
  locked # None =>
    locked = IF Recommended(report) = None THEN Fallback ELSE Recommended(report)

\* A failing database or a refused write silences no controller for good: as
\* long as it is present its rows keep coming (polling/service.py:206-212).
RowsKeepComing ==
  \A c \in Controllers : []<>(c \in wrote \/ c \notin Present)

\* Backoffs and failed polls only delay a calibration: it ends for any set of
\* controllers that stays.
CalibrationEnds == <>[](locked # None \/ Present = {})
=============================================================================
