---------------------------- MODULE CadenceProofs ----------------------------
(* Proofs about PollingCadence, for every set of controllers, connections    *)
(* and stages: the interval the watcher polls at is one every present        *)
(* controller has passed, or the fallback, and it is the one                 *)
(* benchmark-polling recommends from the same stages.                        *)
EXTENDS PollingCadence, TLAPS, SequenceTheorems, FiniteSetTheorems

-----------------------------------------------------------------------------
(* The inductive invariant                                                   *)

Rates == Range(Intervals)
PollSamples == {Sample(o, i) : o \in UNION {OutcomesOf[c] : c \in Controllers}, i \in Rates}
Stages == [interval : Rates, passed : BOOLEAN]

TypeInv ==
  /\ stage \in DOMAIN Intervals
  /\ lastSafe \in Rates \cup {None} /\ locked \in Rates \cup {None}
  /\ samples \in [Controllers -> Seq(PollSamples)]
  /\ recent \in [Controllers -> Seq(PollSamples)]
  /\ report \in Seq(Stages)

\* The calibration belongs to the present selection; before the first one it
\* has not begun.
SelectionInv ==
  /\ signature # None => signature = selected
  /\ signature = None =>
       stage = 1 /\ lastSafe = None /\ locked = None /\ samples = NoSamples /\ report = <<>>

\* s ends t.
Suffix(s, t) ==
  Len(s) <= Len(t) /\ \A k \in 0 .. Len(s) - 1 : s[Len(s) - k] = t[Len(t) - k]

\* The samples of a stage are the last polls, all at its interval.
SamplesInv ==
  /\ \A c \in Controllers :
       /\ Len(recent[c]) <= SamplesPerInterval
       /\ Suffix(samples[c], recent[c])
       /\ locked = None =>
            \A i \in DOMAIN samples[c] : samples[c][i].interval = CurrentInterval
  /\ locked # None => samples = NoSamples

\* The interval last found safe, the stage before the one under trial and the
\* locked interval were passed by every controller present.
EvidenceInv ==
  \A c \in Present :
    /\ lastSafe # None => lastSafe \in earned[c]
    /\ stage > 1 => Intervals[stage - 1] \in earned[c]
    /\ locked \notin {None, Fallback} => locked \in earned[c]

\* While no interval is locked every stage of the report passed, and the last
\* of them is the one last found safe.
ReportInv ==
  locked = None =>
    /\ \A i \in DOMAIN report : report[i].passed
    /\ lastSafe = IF report = <<>> THEN None ELSE Last(report).interval

IInv ==
  /\ TypeInv /\ SelectionInv /\ SamplesInv /\ EvidenceInv /\ ReportInv /\ BenchmarkAgrees

-----------------------------------------------------------------------------
(* Windows over the last polls                                               *)

LEMMA LastOfAppend ==
  ASSUME NEW S, NEW s \in Seq(S), NEW x \in S, NEW n \in Nat \ {0}, Len(s) <= n,
         NEW r, r = LastOf(Append(s, x), n)
  PROVE  /\ r \in Seq(S) /\ Len(r) = IF Len(s) < n THEN Len(s) + 1 ELSE n
         /\ \A k \in 0 .. Len(r) - 1 : r[Len(r) - k] = IF k = 0 THEN x ELSE s[Len(s) + 1 - k]
<1> DEFINE a == Append(s, x)
<1>1. a \in Seq(S) /\ Len(a) = Len(s) + 1
      /\ \A i \in 1 .. Len(a) : a[i] = IF i = Len(a) THEN x ELSE s[i]
  OBVIOUS
<1>0. r = SubSeq(a, IF Len(a) > n THEN Len(a) - n + 1 ELSE 1, Len(a))
  BY DEF LastOf
<1> HIDE DEF a
<1>2. CASE Len(s) < n
  <2>0. ~(Len(a) > n)
    BY <1>1, <1>2
  <2>1. r = SubSeq(a, 1, Len(a))
    BY <1>0, <2>0
  <2>2. r = a
    BY <1>1, <2>1, SubSeqFull
  <2>3. QED  BY <1>1, <1>2, <2>2
<1>3. CASE Len(s) = n
  <2>0. Len(a) > n /\ Len(a) - n + 1 = 2
    BY <1>1, <1>3
  <2>1. r = SubSeq(a, 2, Len(a))
    BY <1>0, <2>0
  <2>2. \A i \in 2 .. Len(a) : a[i] \in S
    BY <1>1
  <2>3. r \in Seq(S) /\ Len(r) = n /\ \A i \in 1 .. n : r[i] = a[i + 1]
    BY <1>1, <1>3, <2>1, <2>2, SubSeqProperties
  <2>4. QED  BY <1>1, <1>3, <2>3
<1>4. QED  BY <1>2, <1>3

LEMMA SuffixGrows ==
  ASSUME NEW S, NEW s \in Seq(S), NEW t \in Seq(S), NEW x \in S, NEW n \in Nat \ {0},
         Len(t) <= n, Suffix(s, t)
  PROVE  Suffix(LastOf(Append(s, x), n), LastOf(Append(t, x), n))
<1> DEFINE r == LastOf(Append(s, x), n)
           q == LastOf(Append(t, x), n)
<1>1. Len(s) \in Nat /\ Len(t) \in Nat /\ Len(s) <= Len(t)
  BY DEF Suffix
<1>2. /\ r \in Seq(S) /\ Len(r) = IF Len(s) < n THEN Len(s) + 1 ELSE n
      /\ \A k \in 0 .. Len(r) - 1 : r[Len(r) - k] = IF k = 0 THEN x ELSE s[Len(s) + 1 - k]
  BY <1>1, LastOfAppend
<1>3. /\ q \in Seq(S) /\ Len(q) = IF Len(t) < n THEN Len(t) + 1 ELSE n
      /\ \A k \in 0 .. Len(q) - 1 : q[Len(q) - k] = IF k = 0 THEN x ELSE t[Len(t) + 1 - k]
  BY LastOfAppend
<1> HIDE DEF r, q
<1>4. Len(r) <= Len(q)
  BY <1>1, <1>2, <1>3
<1>5. ASSUME NEW k \in 0 .. Len(r) - 1 PROVE r[Len(r) - k] = q[Len(q) - k]
  <2>1. CASE k = 0
    BY <1>1, <1>2, <1>3, <2>1
  <2>2. CASE k # 0
    <3> DEFINE m == k - 1
    <3>1. m \in 0 .. Len(s) - 1
      BY <1>1, <1>2, <2>2
    <3>2. s[Len(s) - m] = t[Len(t) - m]
      BY <3>1 DEF Suffix
    <3>3. Len(s) - m = Len(s) + 1 - k /\ Len(t) - m = Len(t) + 1 - k
      BY <1>1, <3>1
    <3>4. s[Len(s) + 1 - k] = t[Len(t) + 1 - k]
      BY <3>2, <3>3
    <3>5. r[Len(r) - k] = s[Len(s) + 1 - k]
      BY <1>2, <2>2
    <3>6. k \in 0 .. Len(q) - 1
      BY <1>1, <1>2, <1>3, <1>4
    <3>7. q[Len(q) - k] = t[Len(t) + 1 - k]
      BY <1>3, <2>2, <3>6
    <3>8. QED  BY <3>4, <3>5, <3>7
  <2>3. QED  BY <2>1, <2>2
<1>6. QED  BY <1>4, <1>5 DEF Suffix, r, q

\* A suffix as long as the window is the window.
LEMMA FullSuffix ==
  ASSUME NEW S, NEW s \in Seq(S), NEW t \in Seq(S), Suffix(s, t), Len(t) <= Len(s)
  PROVE  s = t
<1>1. Len(s) = Len(t) /\ Len(s) \in Nat
  BY DEF Suffix
<1>2. ASSUME NEW i \in 1 .. Len(s) PROVE s[i] = t[i]
  <2>1. Len(s) - i \in 0 .. Len(s) - 1
    BY <1>1
  <2>2. s[Len(s) - (Len(s) - i)] = t[Len(t) - (Len(s) - i)]
    BY <2>1 DEF Suffix
  <2>3. QED  BY <1>1, <2>2
<1>3. QED  BY <1>1, <1>2, SeqEqual

-----------------------------------------------------------------------------
(* The stages                                                                *)

LEMMA SampleCount == SamplesPerInterval \in Nat \ {0}
  BY CadenceAssumption

LEMMA StagesFromFallback ==
  /\ Len(Intervals) \in Nat \ {0} /\ DOMAIN Intervals = 1 .. Len(Intervals)
  /\ Intervals[1] = Fallback /\ Fallback \in Rates
<1> DEFINE T == Benchmarks \cup {Fallback}
<1>1. IsFiniteSet(T) /\ T \subseteq Nat /\ Fallback \in T
  BY CadenceAssumption, FS_AddElement
<1>0. \A j \in T : j \in Nat /\ ~(j > Fallback)
  BY CadenceAssumption
<1>2. Cardinality(T) \in Nat /\ Cardinality(T) # 0
  BY <1>1, FS_CardinalityType, FS_EmptySet
<1> DEFINE N == Cardinality(T)
           Nth(k) == CHOOSE i \in T : Cardinality({j \in T : j > i}) = k - 1
<1>3. Intervals = [k \in 1 .. N |-> Nth(k)]
  BY DEF Intervals
<1>4. Len(Intervals) = N
  BY <1>2, <1>3
<1>5. Cardinality({j \in T : j > Fallback}) = 0
  <2>1. {j \in T : j > Fallback} = {}
    BY <1>0
  <2>2. QED  BY <2>1, FS_EmptySet
<1>6. Nth(1) \in T /\ Cardinality({j \in T : j > Nth(1)}) = 0
  BY <1>1, <1>5
<1>7. Nth(1) = Fallback
  <2>1. IsFiniteSet({j \in T : j > Nth(1)})
    BY <1>1, FS_Subset
  <2>2. {j \in T : j > Nth(1)} = {}
    BY <1>6, <2>1, FS_EmptySet
  <2>3. ~(Fallback > Nth(1))
    BY <1>1, <2>2
  <2>4. Nth(1) \in Nat /\ Fallback \in Nat /\ ~(Nth(1) > Fallback)
    BY <1>0, <1>1, <1>6
  <2> HIDE DEF Nth
  <2>5. QED  BY <2>3, <2>4
<1> HIDE DEF N, Nth
<1>8. 1 \in DOMAIN Intervals /\ DOMAIN Intervals = 1 .. N /\ Intervals[1] = Fallback
  BY <1>2, <1>3, <1>7 DEF N
<1>9. QED  BY <1>2, <1>4, <1>8 DEF N, Rates, Range

LEMMA CurrentType == ASSUME TypeInv PROVE CurrentInterval \in Rates
  BY DEF TypeInv, CurrentInterval, Rates, Range

-----------------------------------------------------------------------------
(* One pass of the loop                                                      *)

\* The polls of a pass: one of each controller that can be polled, measured
\* against the present interval.
Polls(performance) ==
  /\ DOMAIN performance \subseteq Present
  /\ \A c \in DOMAIN performance :
       performance[c] \in PollSamples /\ performance[c].interval = CurrentInterval

LEMMA PollsOfPass ==
  ASSUME TypeInv, NEW answers \in Answers
  PROVE  Polls([c \in CanPoll |-> Sample(answers[c], CurrentInterval)])
<1>1. CanPoll \subseteq Present /\ Present \subseteq Controllers
  BY DEF CanPoll, Present
<1>2. ASSUME NEW c \in CanPoll
      PROVE  /\ Sample(answers[c], CurrentInterval) \in PollSamples
             /\ Sample(answers[c], CurrentInterval).interval = CurrentInterval
  <2>1. answers[c] \in UNION {OutcomesOf[d] : d \in Controllers}
    BY <1>1 DEF Answers
  <2>2. QED  BY <2>1, CurrentType DEF PollSamples, Sample
<1>3. QED  BY <1>1, <1>2 DEF Polls

\* The samples of the stage stay the end of the remembered polls.
LEMMA CollectedFits ==
  ASSUME TypeInv, SamplesInv, locked = None, NEW performance, Polls(performance),
         Remember(performance), NEW c \in Controllers
  PROVE  /\ Collected(performance)[c] \in Seq(PollSamples)
         /\ Suffix(Collected(performance)[c], recent'[c])
         /\ \A i \in DOMAIN Collected(performance)[c] :
              Collected(performance)[c][i].interval = CurrentInterval
<1> DEFINE kept == samples[c]
           x == performance[c]
           n == SamplesPerInterval
<1>1. /\ kept \in Seq(PollSamples) /\ recent[c] \in Seq(PollSamples)
      /\ Len(recent[c]) <= n /\ Suffix(kept, recent[c])
      /\ \A i \in DOMAIN kept : kept[i].interval = CurrentInterval
  BY DEF TypeInv, SamplesInv
<1>2. CASE c \in DOMAIN performance
  <2>1. /\ Collected(performance)[c] = LastOf(Append(kept, x), n)
        /\ recent'[c] = LastOf(Append(recent[c], x), n)
    BY <1>2 DEF Collected, Remember, Polls
  <2>2. x \in PollSamples /\ x.interval = CurrentInterval
    BY <1>2 DEF Polls
  <2>3. Suffix(Collected(performance)[c], recent'[c])
    BY <1>1, <2>1, <2>2, SampleCount, SuffixGrows
  <2> DEFINE r == Collected(performance)[c]
  <2>4. Len(kept) <= n
    BY <1>1, SampleCount DEF Suffix
  <2>5. r = LastOf(Append(kept, x), n) /\ n \in Nat \ {0} /\ kept \in Seq(PollSamples)
    BY <1>1, <2>1, SampleCount
  <2> HIDE DEF r, kept, x, n
  <2>6. /\ r \in Seq(PollSamples) /\ Len(r) = IF Len(kept) < n THEN Len(kept) + 1 ELSE n
        /\ \A k \in 0 .. Len(r) - 1 :
             r[Len(r) - k] = IF k = 0 THEN x ELSE kept[Len(kept) + 1 - k]
    BY <2>2, <2>4, <2>5, LastOfAppend
  <2>7. ASSUME NEW i \in DOMAIN r PROVE r[i].interval = CurrentInterval
    <3> DEFINE k == Len(r) - i
    <3>1. k \in 0 .. Len(r) - 1 /\ Len(r) - k = i
      BY <2>6
    <3>2. r[i] = IF k = 0 THEN x ELSE kept[Len(kept) + 1 - k]
      BY <2>6, <3>1
    <3>3. k # 0 => Len(kept) + 1 - k \in DOMAIN kept
      <4>1. Len(kept) \in Nat /\ DOMAIN kept = 1 .. Len(kept) /\ Len(r) <= Len(kept) + 1
            /\ Len(r) \in Nat
        BY <2>4, <2>5, <2>6
      <4> HIDE DEF k
      <4>2. QED  BY <3>1, <4>1
    <3>4. QED  BY <1>1, <2>2, <3>2, <3>3
  <2>8. QED  BY <2>3, <2>6, <2>7 DEF r
<1>3. CASE c \notin DOMAIN performance
  <2>1. Collected(performance)[c] = kept /\ recent'[c] = recent[c]
    BY <1>3 DEF Collected, Remember
  <2>2. QED  BY <1>1, <2>1
<1>4. QED  BY <1>2, <1>3

LEMMA RememberedFits ==
  ASSUME TypeInv, SamplesInv, NEW performance, Polls(performance), Remember(performance)
  PROVE  /\ recent' \in [Controllers -> Seq(PollSamples)]
         /\ \A c \in Controllers : Len(recent'[c]) <= SamplesPerInterval
         /\ \A c \in Controllers : earned[c] \subseteq earned'[c]
<1>1. ASSUME NEW c \in Controllers
      PROVE  recent'[c] \in Seq(PollSamples) /\ Len(recent'[c]) <= SamplesPerInterval
  <2>0. recent[c] \in Seq(PollSamples) /\ Len(recent[c]) <= SamplesPerInterval
    BY DEF TypeInv, SamplesInv
  <2>1. CASE c \in DOMAIN performance
    <3>1. recent'[c] = LastOf(Append(recent[c], performance[c]), SamplesPerInterval)
      BY <2>1 DEF Remember
    <3>2. performance[c] \in PollSamples
      BY <2>1 DEF Polls
    <3>3. /\ recent'[c] \in Seq(PollSamples)
          /\ Len(recent'[c]) = IF Len(recent[c]) < SamplesPerInterval
                               THEN Len(recent[c]) + 1 ELSE SamplesPerInterval
      BY <2>0, <3>1, <3>2, SampleCount, LastOfAppend
    <3>4. QED  BY <2>0, <3>3, SampleCount
  <2>2. CASE c \notin DOMAIN performance
    BY <2>0, <2>2 DEF Remember
  <2>3. QED  BY <2>1, <2>2
<1>2. recent' \in [Controllers -> Seq(PollSamples)]
  BY <1>1 DEF Remember
<1>3. \A c \in Controllers : earned[c] \subseteq earned'[c]
  BY DEF Remember
<1>4. QED  BY <1>1, <1>2, <1>3

\* A stage judged safe was passed by every controller present, in its last polls.
LEMMA SafeStageEarned ==
  ASSUME TypeInv, SamplesInv, locked = None, NEW performance, Polls(performance),
         Remember(performance), StageComplete(Collected(performance)),
         StageSafe(Collected(performance)), NEW c \in Present
  PROVE  CurrentInterval \in earned'[c]
<1>0. c \in Controllers
  BY DEF Present
<1> DEFINE r == Collected(performance)[c]
<1>1. /\ r \in Seq(PollSamples) /\ Suffix(r, recent'[c])
      /\ \A i \in DOMAIN r : r[i].interval = CurrentInterval
  BY <1>0, CollectedFits
<1>2. Len(r) = SamplesPerInterval /\ StagePassed(CurrentInterval, r)
  BY DEF StageComplete, StageSafe
<1>3. recent'[c] \in Seq(PollSamples) /\ Len(recent'[c]) <= SamplesPerInterval
  BY <1>0, RememberedFits
<1> HIDE DEF r
<1>4. r = recent'[c]
  BY <1>1, <1>2, <1>3, FullSuffix
<1>5. recent'[c] = IF c \in DOMAIN performance
                   THEN LastOf(Append(recent[c], performance[c]), SamplesPerInterval)
                   ELSE recent[c]
  BY <1>0 DEF Remember
<1> DEFINE w == IF c \in DOMAIN performance
                THEN LastOf(Append(recent[c], performance[c]), SamplesPerInterval)
                ELSE recent[c]
<1>6. /\ Len(w) = SamplesPerInterval /\ \A i \in DOMAIN w : w[i].interval = CurrentInterval
      /\ StagePassed(CurrentInterval, w)
  BY <1>1, <1>2, <1>4, <1>5
<1>7. QED  BY <1>0, <1>6 DEF Remember

\* What a pass does to the calibration.
LEMMA ObserveCases ==
  ASSUME NEW performance, Observe(performance)
  PROVE  \/ (locked # None \/ Present = {}) /\ UNCHANGED autoVars
         \/ /\ locked = None /\ samples' = Collected(performance)
            /\ UNCHANGED <<stage, lastSafe, locked, report>>
         \/ /\ locked = None /\ Present # {} /\ StageComplete(Collected(performance))
            /\ Judge(Collected(performance))
  BY DEF Observe

-----------------------------------------------------------------------------
(* Every step keeps the invariant                                            *)

LEMMA CadenceInit == Init => IInv
<1> SUFFICES ASSUME Init PROVE IInv
  OBVIOUS
<1> USE DEF Init, NoSamples
<1>1. TypeInv
  BY StagesFromFallback DEF TypeInv
<1>2. SamplesInv
  BY SampleCount DEF SamplesInv, Suffix
<1>3. SelectionInv /\ EvidenceInv /\ ReportInv /\ BenchmarkAgrees
  BY DEF SelectionInv, EvidenceInv, Present, ReportInv, BenchmarkAgrees
<1>4. QED  BY <1>1, <1>2, <1>3 DEF IInv

\* Another selection ends the calibration: nothing earned over a connection
\* that is gone counts any more.
LEMMA RefreshKeeps ==
  ASSUME IInv, NEW selection \in [Controllers -> Connections \cup {None}], Refresh(selection)
  PROVE  IInv'
<1>0. TypeInv /\ SelectionInv /\ SamplesInv /\ EvidenceInv /\ ReportInv /\ BenchmarkAgrees
  BY DEF IInv
<1>1. \/ stage' = 1 /\ lastSafe' = None /\ locked' = None /\ samples' = NoSamples /\ report' = <<>>
      \/ signature # None /\ selection = selected /\ UNCHANGED autoVars
  BY <1>0 DEF Refresh, Reset, Signature, SelectionInv, autoVars
<1>2. recent' \in [Controllers -> Seq(PollSamples)]
      /\ \A c \in Controllers : Len(recent'[c]) <= SamplesPerInterval
  BY <1>0, SampleCount DEF Refresh, TypeInv, SamplesInv
<1>3. signature' = selection /\ selected' = selection
  BY DEF Refresh, Signature
<1>4. CASE stage' = 1 /\ lastSafe' = None /\ locked' = None /\ samples' = NoSamples
           /\ report' = <<>>
  <2>1. TypeInv'
    BY <1>2, <1>4, StagesFromFallback DEF TypeInv, NoSamples
  <2>2. SamplesInv'
    BY <1>2, <1>4 DEF SamplesInv, Suffix, NoSamples, TypeInv
  <2>3. SelectionInv' /\ EvidenceInv' /\ ReportInv' /\ BenchmarkAgrees'
    BY <1>3, <1>4 DEF SelectionInv, EvidenceInv, ReportInv, BenchmarkAgrees
  <2>4. QED  BY <2>1, <2>2, <2>3 DEF IInv
<1>5. CASE signature # None /\ selection = selected /\ UNCHANGED autoVars
  <2>1. recent' = recent /\ UNCHANGED selected /\ signature' = signature
        /\ \A c \in Controllers : earned'[c] = earned[c]
    BY <1>0, <1>3, <1>5 DEF Refresh, TypeInv, SelectionInv
  <2> USE <1>5, <2>1 DEF autoVars
  <2>2. TypeInv' /\ SelectionInv'
    BY <1>0 DEF TypeInv, SelectionInv
  <2>3. SamplesInv'
    BY <1>0 DEF SamplesInv, Suffix, CurrentInterval
  <2>4. EvidenceInv'
    BY <1>0 DEF EvidenceInv, Present
  <2>5. ReportInv' /\ BenchmarkAgrees'
    BY <1>0 DEF ReportInv, BenchmarkAgrees
  <2>6. QED  BY <2>2, <2>3, <2>4, <2>5 DEF IInv
<1>6. QED  BY <1>1, <1>4, <1>5

\* What benchmark-polling recommends from stages that passed, and from stages
\* of which only the last did not.
LEMMA RecommendedOfPassed ==
  ASSUME NEW stages \in Seq(Stages), \A i \in DOMAIN stages : stages[i].passed
  PROVE  Recommended(stages) = IF stages = <<>> THEN None ELSE Last(stages).interval
<1>1. {i \in 1 .. Len(stages) : ~stages[i].passed} = {}
  OBVIOUS
<1>2. SelectInSeq(stages, LAMBDA st : ~st.passed) = 0
  BY <1>1 DEF SelectInSeq
<1>3. QED  BY <1>2 DEF Recommended

LEMMA RecommendedOfFailed ==
  ASSUME NEW stages \in Seq(Stages), \A i \in DOMAIN stages : stages[i].passed,
         NEW st \in Stages, ~st.passed
  PROVE  Recommended(Append(stages, st)) =
           IF stages = <<>> THEN None ELSE Last(stages).interval
<1> DEFINE a == Append(stages, st)
           n == Len(stages) + 1
<1>1. /\ a \in Seq(Stages) /\ Len(a) = n /\ n \in Nat \ {0} /\ a[n] = st
      /\ \A i \in 1 .. Len(stages) : a[i] = stages[i]
  OBVIOUS
<1> HIDE DEF a
<1>2. {i \in 1 .. Len(a) : ~a[i].passed} = {n}
  BY <1>1
<1>3. SelectInSeq(a, LAMBDA s : ~s.passed) = n
  BY <1>1, <1>2 DEF SelectInSeq, Min
<1>4. SubSeq(a, 1, n - 1) = stages
  <2>1. n - 1 = Len(stages) /\ \A i \in 1 .. n - 1 : a[i] \in Stages
    BY <1>1
  <2>2. /\ SubSeq(a, 1, n - 1) \in Seq(Stages) /\ Len(SubSeq(a, 1, n - 1)) = Len(stages)
        /\ \A i \in 1 .. Len(stages) : SubSeq(a, 1, n - 1)[i] = stages[i]
    BY <1>1, <2>1, SubSeqProperties
  <2>3. QED  BY <2>2, SeqEqual
<1>5. QED  BY <1>1, <1>3, <1>4 DEF Recommended, a

\* The judgement of a stage, with what the pass has earned.
LEMMA JudgeKeeps ==
  ASSUME IInv, NEW performance, Polls(performance), Remember(performance), locked = None,
         Present # {}, StageComplete(Collected(performance)), Judge(Collected(performance)),
         UNCHANGED <<selected, signature>>, signature # None
  PROVE  IInv'
<1> DEFINE safe == StageSafe(Collected(performance))
<1>0. TypeInv /\ SelectionInv /\ SamplesInv /\ EvidenceInv /\ ReportInv
  BY DEF IInv
<1>1. /\ samples' = NoSamples /\ report' = Append(report, Stage(CurrentInterval, safe))
      /\ lastSafe' = IF safe THEN CurrentInterval ELSE lastSafe
  BY DEF Judge
<1>2. \/ safe /\ stage < Len(Intervals) /\ stage' = stage + 1 /\ locked' = None
      \/ safe /\ stage' = stage /\ locked' = CurrentInterval
      \/ ~safe /\ stage' = stage /\ locked' = LockSafe
  BY DEF Judge
<1>3. CurrentInterval = Intervals[stage] /\ CurrentInterval \in Rates
  BY <1>0, CurrentType DEF CurrentInterval
<1>4. \A c \in Controllers : earned[c] \subseteq earned'[c]
  BY <1>0, RememberedFits
<1>5. ASSUME safe, NEW c \in Present PROVE CurrentInterval \in earned'[c]
  BY <1>0, <1>5, SafeStageEarned
<1>6. Present' = Present /\ Present \subseteq Controllers
  BY DEF Present
<1>7. safe \in BOOLEAN
  BY DEF StageSafe
<1> HIDE DEF safe
<1>8. Stage(CurrentInterval, safe) \in Stages
  BY <1>3, <1>7 DEF Stage, Stages
<1>9. TypeInv'
  <2>1. stage \in 1 .. Len(Intervals) /\ Len(Intervals) \in Nat /\ LockSafe \in Rates
    BY <1>0, StagesFromFallback DEF TypeInv, LockSafe
  <2>2. stage' \in DOMAIN Intervals
    BY <1>2, <2>1, StagesFromFallback
  <2>3. lastSafe' \in Rates \cup {None} /\ locked' \in Rates \cup {None}
    BY <1>0, <1>1, <1>2, <1>3, <2>1 DEF TypeInv
  <2>4. samples' \in [Controllers -> Seq(PollSamples)]
    BY <1>1 DEF NoSamples
  <2>5. report' \in Seq(Stages)
    BY <1>0, <1>1, <1>8 DEF TypeInv
  <2>6. QED  BY <1>0, <2>2, <2>3, <2>4, <2>5, RememberedFits DEF TypeInv
<1>10. SelectionInv'
  BY <1>0 DEF SelectionInv
<1>11. SamplesInv'
  <2>1. \A c \in Controllers : recent'[c] \in Seq(PollSamples)
                               /\ Len(recent'[c]) <= SamplesPerInterval
    BY <1>0, RememberedFits
  <2>2. QED  BY <1>1, <2>1 DEF SamplesInv, Suffix, NoSamples
<1>12. EvidenceInv'
  <2> SUFFICES ASSUME NEW c \in Present
               PROVE  /\ lastSafe' # None => lastSafe' \in earned'[c]
                      /\ stage' > 1 => Intervals[stage' - 1] \in earned'[c]
                      /\ locked' \notin {None, Fallback} => locked' \in earned'[c]
    BY <1>6 DEF EvidenceInv
  <2>1. /\ lastSafe # None => lastSafe \in earned'[c]
        /\ stage > 1 => Intervals[stage - 1] \in earned'[c]
    BY <1>0, <1>4, <1>6 DEF EvidenceInv
  <2>2. lastSafe' # None => lastSafe' \in earned'[c]
    BY <1>1, <1>5, <2>1
  <2>3. stage' > 1 => Intervals[stage' - 1] \in earned'[c]
    <3>1. CASE stage' = stage
      BY <2>1, <3>1
    <3>2. CASE safe /\ stage' = stage + 1
      <4>1. stage \in Nat
        BY <1>0, StagesFromFallback DEF TypeInv
      <4>2. stage' - 1 = stage
        BY <3>2, <4>1
      <4>3. QED  BY <1>3, <1>5, <3>2, <4>2
    <3>3. QED  BY <1>2, <3>1, <3>2
  <2>4. locked' \notin {None, Fallback} => locked' \in earned'[c]
    BY <1>2, <1>5, <2>1 DEF LockSafe
  <2>5. QED  BY <2>2, <2>3, <2>4
<1> DEFINE st == Stage(CurrentInterval, safe)
<1>13. /\ st \in Stages /\ st.passed = safe /\ st.interval = CurrentInterval
       /\ report \in Seq(Stages) /\ report' = Append(report, st)
       /\ \A i \in DOMAIN report : report[i].passed
       /\ lastSafe = IF report = <<>> THEN None ELSE Last(report).interval
  BY <1>0, <1>1, <1>8 DEF ReportInv, Stage, TypeInv
<1> HIDE DEF st
<1>14. CASE safe
  <2>1. /\ report' \in Seq(Stages) /\ \A i \in DOMAIN report' : report'[i].passed
        /\ report' # <<>> /\ Last(report') = st
    <3>1. /\ report' \in Seq(Stages) /\ Len(report') = Len(report) + 1 /\ Len(report) \in Nat
          /\ \A i \in 1 .. Len(report') :
               report'[i] = IF i = Len(report') THEN st ELSE report[i]
      BY <1>13
    <3>2. ASSUME NEW i \in DOMAIN report' PROVE report'[i].passed
      <4>1. i \in 1 .. Len(report') /\ DOMAIN report = 1 .. Len(report)
        BY <1>13, <3>1
      <4>2. CASE i = Len(report')
        BY <1>13, <1>14, <3>1, <4>1, <4>2
      <4>3. CASE i # Len(report')
        <5>1. i \in DOMAIN report /\ report'[i] = report[i]
          BY <3>1, <4>1, <4>3
        <5>2. QED  BY <1>13, <5>1
      <4>4. QED  BY <4>2, <4>3
    <3>3. Last(report') = st /\ report' # <<>>
      BY <3>1 DEF Last
    <3>4. QED  BY <3>1, <3>2, <3>3
  <2>2. ReportInv'
    BY <1>1, <1>13, <1>14, <2>1 DEF ReportInv
  <2>3. Recommended(report') = CurrentInterval
    BY <1>13, <2>1, RecommendedOfPassed
  <2>4. BenchmarkAgrees'
    BY <1>2, <1>14, <2>3 DEF BenchmarkAgrees
  <2>5. QED  BY <1>9, <1>10, <1>11, <1>12, <2>2, <2>4 DEF IInv
<1>15. CASE ~safe
  <2>1. Recommended(report') = lastSafe
    BY <1>13, <1>15, RecommendedOfFailed
  <2>2. locked' = LockSafe /\ lastSafe' = lastSafe
    BY <1>1, <1>2, <1>15
  <2>3. BenchmarkAgrees'
    BY <2>1, <2>2 DEF BenchmarkAgrees, LockSafe
  <2>4. locked' # None
    BY <2>2, CadenceAssumption DEF LockSafe
  <2>5. ReportInv'
    BY <2>4 DEF ReportInv
  <2>6. QED  BY <1>9, <1>10, <1>11, <1>12, <2>3, <2>5 DEF IInv
<1>16. QED  BY <1>7, <1>14, <1>15

LEMMA CycleKeeps == ASSUME IInv, Cycle PROVE IInv'
<1>0. TypeInv /\ SelectionInv /\ SamplesInv /\ EvidenceInv /\ ReportInv /\ BenchmarkAgrees
  BY DEF IInv
<1>1. PICK answers \in Answers :
        /\ Observe([c \in CanPoll |-> Sample(answers[c], CurrentInterval)])
        /\ Remember([c \in CanPoll |-> Sample(answers[c], CurrentInterval)])
  BY DEF Cycle
<1> DEFINE performance == [c \in CanPoll |-> Sample(answers[c], CurrentInterval)]
<1>2. Polls(performance) /\ Observe(performance) /\ Remember(performance)
  BY <1>0, <1>1, PollsOfPass
<1> HIDE DEF performance
<1>3. UNCHANGED <<selected, signature>> /\ signature # None
  BY DEF Cycle
<1>4. /\ recent' \in [Controllers -> Seq(PollSamples)]
      /\ \A c \in Controllers : Len(recent'[c]) <= SamplesPerInterval
      /\ \A c \in Controllers : earned[c] \subseteq earned'[c]
  BY <1>0, <1>2, RememberedFits
<1>5. CASE UNCHANGED <<stage, lastSafe, locked, report>> /\ TypeInv' /\ SamplesInv'
  <2>1. SelectionInv'
    BY <1>0, <1>3 DEF SelectionInv
  <2>2. EvidenceInv'
    BY <1>0, <1>3, <1>4, <1>5 DEF EvidenceInv, Present
  <2>3. ReportInv' /\ BenchmarkAgrees'
    BY <1>0, <1>5 DEF ReportInv, BenchmarkAgrees
  <2>4. QED  BY <1>5, <2>1, <2>2, <2>3 DEF IInv
<1>6. CASE (locked # None \/ Present = {}) /\ UNCHANGED autoVars
  <2>1. TypeInv'
    BY <1>0, <1>4, <1>6 DEF TypeInv, autoVars
  <2>2. SamplesInv'
    <3>1. CASE locked # None
      BY <1>0, <1>4, <1>6, <3>1 DEF SamplesInv, autoVars, Suffix, NoSamples
    <3>2. CASE Present = {}
      <4>1. \A c \in Controllers : recent'[c] = recent[c]
        BY <1>2, <3>2 DEF Remember, Polls
      <4>2. QED  BY <1>0, <1>6, <4>1 DEF SamplesInv, autoVars, Suffix, CurrentInterval
    <3>3. QED  BY <1>6, <3>1, <3>2
  <2>3. QED  BY <1>5, <1>6, <2>1, <2>2 DEF autoVars
<1>7. CASE /\ locked = None /\ samples' = Collected(performance)
           /\ UNCHANGED <<stage, lastSafe, locked, report>>
  <2>1. ASSUME NEW c \in Controllers
        PROVE  /\ samples'[c] \in Seq(PollSamples) /\ Suffix(samples'[c], recent'[c])
               /\ \A i \in DOMAIN samples'[c] : samples'[c][i].interval = CurrentInterval
    BY <1>0, <1>2, <1>7, CollectedFits
  <2>2. samples' \in [Controllers -> Seq(PollSamples)]
    BY <1>7, <2>1 DEF Collected
  <2>3. TypeInv'
    BY <1>0, <1>4, <1>7, <2>2 DEF TypeInv
  <2>4. SamplesInv'
    BY <1>4, <1>7, <2>1 DEF SamplesInv, CurrentInterval
  <2>5. QED  BY <1>5, <1>7, <2>3, <2>4
<1>8. CASE /\ locked = None /\ Present # {} /\ StageComplete(Collected(performance))
           /\ Judge(Collected(performance))
  BY <1>2, <1>3, <1>8, JudgeKeeps
<1>9. QED  BY <1>2, <1>6, <1>7, <1>8, ObserveCases

LEMMA Inductive == Spec => []IInv
<1>1. IInv /\ [Next]_vars => IInv'
  <2> SUFFICES ASSUME IInv, [Next]_vars PROVE IInv'
    OBVIOUS
  <2>1. CASE Next
    BY <2>1, RefreshKeeps, CycleKeeps DEF Next
  <2>2. CASE UNCHANGED vars
    <3> USE <2>2 DEF vars, IInv
    <3>1. TypeInv' /\ SelectionInv'
      BY DEF TypeInv, SelectionInv
    <3>2. SamplesInv' /\ EvidenceInv'
      BY DEF SamplesInv, Suffix, CurrentInterval, EvidenceInv, Present
    <3>3. ReportInv' /\ BenchmarkAgrees'
      BY DEF ReportInv, BenchmarkAgrees
    <3>4. QED  BY <3>1, <3>2, <3>3
  <2>3. QED  BY <2>1, <2>2
<1>2. QED  BY <1>1, CadenceInit, PTL DEF Spec

-----------------------------------------------------------------------------
(* The theorems                                                              *)

\* The interval the watcher polls at is the fallback, or one that every
\* controller present passed over the connection it has now: the locked one,
\* or the stage before the one under trial (polling/service.py:264-314).
THEOREM NeverFasterThanEarned == Spec => []SafeInterval
<1>1. IInv => SafeInterval
  <2> SUFFICES ASSUME IInv, CurrentInterval # Fallback, NEW c \in Present
               PROVE  IF locked # None THEN locked \in earned[c]
                      ELSE Intervals[stage - 1] \in earned[c]
    BY DEF SafeInterval
  <2>1. TypeInv /\ EvidenceInv
    BY DEF IInv
  <2>2. CASE locked # None
    BY <2>1, <2>2 DEF EvidenceInv, CurrentInterval
  <2>3. CASE locked = None
    <3>1. stage # 1 /\ stage \in 1 .. Len(Intervals)
      BY <2>1, <2>3, StagesFromFallback DEF CurrentInterval, TypeInv
    <3>2. stage > 1
      BY <3>1, StagesFromFallback
    <3>3. QED  BY <2>1, <2>3, <3>2 DEF EvidenceInv
  <2>4. QED  BY <2>2, <2>3
<1>2. QED  BY <1>1, Inductive, PTL

\* The interval auto mode locks is the one benchmark-polling recommends from
\* the same stages, or the fallback where it recommends none
\* (polling/service.py:300-314 against performance.py).
THEOREM AutoModeAgrees == Spec => []BenchmarkAgrees
<1>1. IInv => BenchmarkAgrees
  BY DEF IInv
<1>2. QED  BY <1>1, Inductive, PTL

=============================================================================
