--------------------------- MODULE StorageProofs ---------------------------
(***************************************************************************)
(* Proofs about StorageMaintenance for every day length, every retention   *)
(* policy and any number of runs, kills and disk faults.                   *)
(***************************************************************************)
EXTENDS StorageMaintenance, TLAPS

----------------------------------------------------------------------------
(* Days and times *)

\* A day starts at a natural time.
LEMMA DayStartType == ASSUME NEW d \in Nat PROVE DayStart(d) \in Nat
BY StorageAssumption DEF DayStart

\* A time lies within its day.
LEMMA DayBounds ==
  ASSUME NEW s \in Nat
  PROVE  /\ DayOf(s) \in Nat
         /\ DayStart(DayOf(s)) <= s /\ s < DayStart(DayOf(s) + 1)
<1>1. DayLength * (s \div DayLength) <= s
  BY StorageAssumption, SMTT(30)
<1>2. s < DayLength * (s \div DayLength) + DayLength
  BY StorageAssumption, SMTT(30)
<1>3. s \div DayLength \in Nat
  BY StorageAssumption
<1> QED
  BY <1>1, <1>2, <1>3, StorageAssumption DEF DayOf, DayStart

\* Days do not overlap.
LEMMA DayOrder ==
  ASSUME NEW d \in Nat, NEW e \in Nat, d < e
  PROVE  DayStart(d + 1) <= DayStart(e)
<1>1. PICK k \in Nat : e = (d + 1) + k
  <2>1. e - (d + 1) \in Nat
    OBVIOUS
  <2> QED
    BY <2>1
<1>2. e * DayLength = (d + 1) * DayLength + k * DayLength /\ k * DayLength \in Nat
  BY <1>1, StorageAssumption
<1>3. (d + 1) * DayLength \in Nat
  BY StorageAssumption
<1> QED
  BY <1>2, <1>3 DEF DayStart

\* A time lies in one day only.
LEMMA DayUnique ==
  ASSUME NEW s \in Nat, NEW d \in Nat, DayStart(d) <= s, s < DayStart(d + 1)
  PROVE  DayOf(s) = d
<1>1. ~(DayOf(s) < d)
  BY DayBounds, DayOrder, DayStartType
<1>2. ~(d < DayOf(s))
  BY DayBounds, DayOrder, DayStartType
<1> QED
  BY <1>1, <1>2, DayBounds

\* The days of the model are those of its times.
LEMMA DaysType == Days \subseteq Nat /\ \A s \in Times : DayOf(s) \in Days
<1>1. Days \subseteq Nat
  BY DEF Days
<1>2. ASSUME NEW s \in Times PROVE DayOf(s) \in Days
  <2>1. s \in Nat /\ MaxClock \in Nat /\ s <= MaxClock
    BY StorageAssumption DEF Times
  <2>2. ~(DayOf(MaxClock) < DayOf(s))
    BY <2>1, DayBounds, DayOrder, DayStartType
  <2> QED
    BY <2>1, <2>2, DayBounds DEF Days
<1> QED
  BY <1>1, <1>2

\* A run never reaches the present.
LEMMA CutoffPast ==
  ASSUME TypeOK
  PROVE  HotCutoff \in Int /\ HotCutoff < started /\ started <= clock /\ clock \in Nat
<1>1. TierDays["warm"] * DayLength \in Nat \ {0}
  BY StorageAssumption DEF Tiers
<1> QED
  BY <1>1 DEF TypeOK, HotCutoff, Cutoff, Times

\* The range of a day ends within the day and before the cutoff.
LEMMA RangeEndBounds ==
  ASSUME TypeOK, NEW d \in Days
  PROVE  /\ RangeEnd(d) \in Int
         /\ RangeEnd(d) <= HotCutoff /\ RangeEnd(d) <= DayStart(d + 1)
BY CutoffPast, DaysType, DayStartType DEF RangeEnd

----------------------------------------------------------------------------
(* Type correctness *)

\* The initial state is well-typed.
LEMMA TypeInit == Init => TypeOK
BY StorageAssumption, DaysType DEF Init, TypeOK, Times, Stages, Days

\* Every step keeps the tables well-typed.
LEMMA TypeNext == TypeOK /\ ProgressInv /\ [Next]_vars => TypeOK'
<1> SUFFICES ASSUME TypeOK, ProgressInv, [Next]_vars PROVE TypeOK'
  OBVIOUS
<1> USE StorageAssumption DEF dataVars, runVars
<1>1. ASSUME NEW saved \in BOOLEAN, Tick(saved) PROVE TypeOK'
  BY <1>1 DEF TypeOK, Tick, Times
<1>2. CASE BeginMaintain
  BY <1>2 DEF TypeOK, BeginMaintain, Stages, Times
<1>3. ASSUME NEW t \in Tiers, BuildTier(t) PROVE TypeOK'
  BY <1>3 DEF TypeOK, BuildTier, Summarised, Aged, Stages, Tiers
<1>4. CASE PlanArchive
  BY <1>4, DaysType DEF TypeOK, PlanArchive, AfterArchive, Aged, Stages
<1>5. CASE SkipDay
  BY <1>5 DEF TypeOK, SkipDay
<1>6. ASSUME NEW intact \in BOOLEAN, ReplaceFile(intact) PROVE TypeOK'
  BY <1>6 DEF TypeOK, ReplaceFile, InRange, Stages
<1>7. CASE RecordArchive
  <2>1. day \in Days /\ day \in Nat
    <3>1. DayOf(MaxClock) \in Nat
      BY DayBounds
    <3> QED
      BY <1>7, <3>1 DEF TypeOK, ProgressInv, RecordArchive, Days
  <2>2. RangeEnd(day) \in DayStart(day) + 1 .. DayStart(day + 1)
    <3>1. PICK s \in raw : DayStart(day) <= s /\ s < RangeEnd(day)
      BY <1>7 DEF ProgressInv, RecordArchive, InRange
    <3> QED
      BY <2>1, <3>1, RangeEndBounds, DayStartType DEF TypeOK, Times
  <2>3. DOMAIN rows' = Days
    BY <1>7 DEF TypeOK, RecordArchive
  <2>4. ASSUME NEW d \in Days, rows'[d] # None
        PROVE  /\ rows'[d].verified \in BOOLEAN
               /\ rows'[d].end \in DayStart(d) + 1 .. DayStart(d + 1)
    BY <1>7, <2>1, <2>2, <2>4 DEF TypeOK, RecordArchive, Recorded
  <2>5. stage' \in Stages /\ day' \in Nat
    BY <1>7, <2>1 DEF RecordArchive, Stages
  <2> QED
    BY <1>7, <2>3, <2>4, <2>5 DEF TypeOK, RecordArchive
<1>8. CASE LeaveDays
  BY <1>8 DEF TypeOK, LeaveDays, AfterArchive, Stages
<1>9. CASE PlanPrune
  BY <1>9 DEF TypeOK, PlanPrune, Stages
<1>10. ASSUME NEW d \in Days, PruneRange(d) PROVE TypeOK'
  BY <1>10 DEF TypeOK, PruneRange
<1>11. CASE FinishPrune
  BY <1>11 DEF TypeOK, FinishPrune, Stages
<1>12. CASE EndMaintain
  BY <1>12 DEF TypeOK, EndMaintain, Stages
<1>13. CASE Interrupt
  BY <1>13 DEF TypeOK, Interrupt, Stages
<1>14. CASE UNCHANGED vars
  BY <1>14 DEF TypeOK, vars
<1> QED
  BY <1>1, <1>2, <1>3, <1>4, <1>5, <1>6, <1>7, <1>8, <1>9, <1>10, <1>11, <1>12,
     <1>13, <1>14
  DEF Next

\* Samples are never from the future.
LEMMA PastNext == TypeOK /\ PastInv /\ [Next]_vars => PastInv'
<1> SUFFICES ASSUME TypeOK, PastInv, [Next]_vars PROVE PastInv'
  OBVIOUS
<1>1. \/ clock' = clock + 1 /\ raw' \subseteq raw \cup {clock}
      \/ clock' = clock /\ raw' \subseteq raw
  <2>1. ASSUME NEW saved \in BOOLEAN, Tick(saved)
        PROVE  clock' = clock + 1 /\ raw' \subseteq raw \cup {clock}
    BY <2>1 DEF Tick
  <2>2. ASSUME NEW d \in Days, PruneRange(d)
        PROVE  clock' = clock /\ raw' \subseteq raw
    BY <2>2 DEF PruneRange
  <2>3. ASSUME BeginMaintain \/ (\E t \in Tiers : BuildTier(t)) \/ PlanArchive \/ SkipDay
               \/ (\E intact \in BOOLEAN : ReplaceFile(intact))
        PROVE  clock' = clock /\ raw' = raw
    BY <2>3 DEF BeginMaintain, BuildTier, PlanArchive, SkipDay, ReplaceFile, dataVars
  <2>4. ASSUME RecordArchive \/ LeaveDays \/ PlanPrune \/ FinishPrune \/ EndMaintain
               \/ Interrupt \/ UNCHANGED vars
        PROVE  clock' = clock /\ raw' = raw
    BY <2>4 DEF RecordArchive, LeaveDays, PlanPrune, FinishPrune, EndMaintain,
                Interrupt, vars, dataVars
  <2> QED
    BY <2>1, <2>2, <2>3, <2>4 DEF Next
<1>2. clock \in Int /\ raw \subseteq Int
  BY DEF TypeOK, Times
<1>3. ASSUME NEW s \in raw' PROVE s < clock'
  <2>1. \A x \in raw : x < clock /\ x \in Int
    BY <1>2 DEF PastInv
  <2>2. CASE clock' = clock + 1 /\ raw' \subseteq raw \cup {clock}
    <3>1. CASE s \in raw
      BY <1>2, <2>1, <2>2, <3>1
    <3>2. CASE s = clock
      BY <1>2, <2>2, <3>2
    <3> QED
      BY <1>3, <2>2, <3>1, <3>2
  <2>3. CASE clock' = clock /\ raw' \subseteq raw
    BY <1>3, <2>1, <2>3
  <2> QED
    BY <1>1, <2>2, <2>3
<1> QED
  BY <1>3 DEF PastInv

----------------------------------------------------------------------------
(* What a verified row is worth *)

\* A sample saved now is outside of every range of the run.
LEMMA FreshOutside ==
  ASSUME TypeOK, NEW saved \in BOOLEAN, Tick(saved)
  PROVE  {s \in raw' : s < HotCutoff} = {s \in raw : s < HotCutoff}
BY CutoffPast DEF Tick, TypeOK, Times

\* A recorded range ends no later than the range of its day does now.
LEMMA RowEnds ==
  ASSUME TypeOK, RowsInv, NEW d \in Days, rows[d] # None
  PROVE  rows[d].end \in Int /\ rows[d].end <= RangeEnd(d)
BY DaysType, DayStartType, CutoffPast DEF TypeOK, RowsInv, RangeEnd

\* The initial state satisfies RowsInv.
LEMMA RowsInit == Init => RowsInv
BY DEF Init, RowsInv

\* Every step keeps verified rows trustworthy, or due to be rewritten.
LEMMA RowsNext == TypeOK /\ RowsInv /\ ProgressInv /\ [Next]_vars => RowsInv'
<1> SUFFICES ASSUME TypeOK, RowsInv, ProgressInv, [Next]_vars,
                    NEW d \in Days, rows'[d] # None
             PROVE  /\ rows'[d].end <= HotCutoff'
                    /\ rows'[d].verified => \/ InRange(d, rows[d].end)' \subseteq files'[d]
                                            \/ rows'[d].end < RangeEnd(d)'
  BY DEF RowsInv
<1> USE StorageAssumption DEF dataVars, runVars
<1>a. CASE /\ rows' = rows /\ files' = files /\ started' = started
           /\ raw' \subseteq raw
  BY <1>a DEF RowsInv, InRange, RangeEnd, HotCutoff, Cutoff
<1>1. ASSUME NEW saved \in BOOLEAN, Tick(saved)
      PROVE  /\ rows'[d].end <= HotCutoff'
             /\ rows'[d].verified => \/ InRange(d, rows[d].end)' \subseteq files'[d]
                                     \/ rows'[d].end < RangeEnd(d)'
  <2>1. InRange(d, rows[d].end)' = {s \in raw' : DayStart(d) <= s /\ s < rows[d].end}
    BY <1>1 DEF InRange, Tick
  <2>2. {s \in raw' : DayStart(d) <= s /\ s < rows[d].end} = InRange(d, rows[d].end)
    <3>1. rows' = rows /\ rows[d].end \in Int /\ rows[d].end <= HotCutoff
      BY <1>1, RowEnds DEF Tick, RowsInv
    <3>2. raw \subseteq Int /\ raw' \subseteq Int
      BY <1>1 DEF Tick, TypeOK, Times
    <3>3. \A s \in raw \cup raw' : s < rows[d].end => s < HotCutoff
      <4>1. HotCutoff \in Int
        BY CutoffPast
      <4> QED
        BY <3>1, <3>2, <4>1
    <3> QED
      BY <1>1, <3>3, FreshOutside DEF InRange
  <2> QED
    BY <1>1, <2>1, <2>2 DEF RowsInv, Tick, RangeEnd, HotCutoff, Cutoff
<1>2. ASSUME BeginMaintain
      PROVE  /\ rows'[d].end <= HotCutoff'
             /\ rows'[d].verified => \/ InRange(d, rows[d].end)' \subseteq files'[d]
                                     \/ rows'[d].end < RangeEnd(d)'
  <2>1. TierDays["warm"] * DayLength \in Nat
    BY DEF Tiers
  <2>2. HotCutoff' \in Int /\ HotCutoff <= HotCutoff'
    BY <1>2, <2>1 DEF BeginMaintain, HotCutoff, Cutoff, TypeOK, Times
  <2>3. RangeEnd(d) <= RangeEnd(d)' /\ RangeEnd(d)' \in Int
    BY <2>2, CutoffPast, DaysType, DayStartType DEF RangeEnd
  <2> QED
    BY <1>2, <2>2, <2>3, RowEnds, RangeEndBounds, CutoffPast DEF RowsInv, BeginMaintain, InRange
<1>6. ASSUME NEW intact \in BOOLEAN, ReplaceFile(intact)
      PROVE  /\ rows'[d].end <= HotCutoff'
             /\ rows'[d].verified => \/ InRange(d, rows[d].end)' \subseteq files'[d]
                                     \/ rows'[d].end < RangeEnd(d)'
  <2>1. CASE d # day
    BY <1>6, <2>1 DEF RowsInv, ReplaceFile, InRange, RangeEnd, HotCutoff, Cutoff, TypeOK
  <2>2. CASE d = day
    <3>1. rows[d].verified => rows[d].end < RangeEnd(d)
      BY <1>6, <2>2, RowEnds, RangeEndBounds DEF ReplaceFile, AlreadyArchived, TypeOK
    <3> QED
      BY <1>6, <3>1 DEF RowsInv, ReplaceFile, RangeEnd, HotCutoff, Cutoff
  <2> QED
    BY <2>1, <2>2
<1>7. ASSUME RecordArchive
      PROVE  /\ rows'[d].end <= HotCutoff'
             /\ rows'[d].verified => \/ InRange(d, rows[d].end)' \subseteq files'[d]
                                     \/ rows'[d].end < RangeEnd(d)'
  <2>1. HotCutoff' = HotCutoff /\ RangeEnd(d)' = RangeEnd(d) /\ raw' = raw /\ files' = files
    BY <1>7 DEF RecordArchive, HotCutoff, Cutoff, RangeEnd
  <2>2. CASE d # day
    BY <1>7, <2>1, <2>2 DEF RecordArchive, RowsInv, InRange, TypeOK
  <2>3. CASE d = day
    <3>1. rows'[d] = Recorded(d, files[d] # {})
      BY <1>7, <2>3 DEF RecordArchive, TypeOK
    <3>2. rows'[d].end \in Int /\ rows'[d].end <= RangeEnd(d)
      BY <3>1, RowEnds, RangeEndBounds DEF Recorded
    <3>3. files[d] # {} => files[d] = InRange(d, RangeEnd(d))
      BY <1>7, <2>3 DEF ProgressInv, RecordArchive
    <3>4. rows'[d].verified => InRange(d, rows[d].end)' \subseteq files'[d]
      <4>1. rows'[d].verified => files'[d] = InRange(d, RangeEnd(d))
        <5>1. rows'[d].verified = (files[d] # {})
          BY <3>1 DEF Recorded
        <5> QED
          BY <2>1, <3>3, <5>1
      <4>2. InRange(d, rows[d].end)' = {s \in raw : DayStart(d) <= s /\ s < rows'[d].end}
        BY <2>1 DEF InRange
      <4>3. \A s \in raw : s < rows'[d].end => s < RangeEnd(d)
        BY <3>2, RangeEndBounds DEF TypeOK, Times
      <4> QED
        BY <4>1, <4>2, <4>3 DEF InRange
    <3> QED
      BY <2>1, <3>2, <3>4, RangeEndBounds, CutoffPast
  <2> QED
    BY <2>2, <2>3
<1> QED
  BY <1>a, <1>1, <1>2, <1>6, <1>7
  DEF Next, BuildTier, PlanArchive, SkipDay, LeaveDays, PlanPrune, PruneRange,
      FinishPrune, EndMaintain, Interrupt, vars

----------------------------------------------------------------------------
(* What the run has been through *)

\* The initial state satisfies ProgressInv.
LEMMA ProgressInit == Init => ProgressInv
BY DEF Init, ProgressInv

\* The days of the loop: before the first and after the last there is nothing.
LEMMA NothingOutside ==
  ASSUME TypeOK, PlanArchive, stage' = "days", NEW d \in Days,
         d < day' \/ d > lastDay'
  PROVE  InRange(d, RangeEnd(d)) = {}
<1>1. PICK first \in Aged(raw, HotCutoff), last \in Aged(raw, HotCutoff) :
        /\ \A s \in Aged(raw, HotCutoff) : first <= s /\ s <= last
        /\ day' = DayOf(first) /\ lastDay' = DayOf(last)
  BY DEF PlanArchive, AfterArchive
<1>2. raw \subseteq Nat /\ first \in Nat /\ last \in Nat /\ d \in Nat
  BY DaysType DEF Aged, TypeOK, Times
<1>3. SUFFICES ASSUME NEW s \in raw, DayStart(d) <= s, s < RangeEnd(d) PROVE FALSE
  BY DEF InRange
<1>4. first <= s /\ s <= last
  BY <1>1, <1>2, <1>3, RangeEndBounds, CutoffPast DEF Aged
<1>5. DayStart(d) <= s /\ s < DayStart(d + 1)
  BY <1>2, <1>3, RangeEndBounds, DayStartType
<1>6. DayOf(first) <= d /\ d <= DayOf(last)
  <2>1. /\ DayOf(first) \in Nat /\ DayStart(DayOf(first)) <= first
        /\ DayOf(last) \in Nat /\ last < DayStart(DayOf(last) + 1)
    BY <1>2, DayBounds
  <2>2. ~(d < DayOf(first))
    BY <1>2, <1>4, <1>5, <2>1, DayOrder, DayStartType
  <2>3. ~(DayOf(last) < d)
    BY <1>2, <1>4, <1>5, <2>1, DayOrder, DayStartType
  <2> QED
    BY <1>2, <2>1, <2>2, <2>3
<1> QED
  BY <1>1, <1>2, <1>6, DayBounds

\* Every step keeps the days the run is past held by their files.
LEMMA ProgressNext ==
  TypeOK /\ PastInv /\ RowsInv /\ ProgressInv /\ [Next]_vars => ProgressInv'
<1> SUFFICES ASSUME TypeOK, PastInv, RowsInv, ProgressInv, [Next]_vars
             PROVE  ProgressInv'
  OBVIOUS
<1> USE StorageAssumption DEF dataVars, runVars
<1>1. ASSUME NEW saved \in BOOLEAN, Tick(saved) PROVE ProgressInv'
  <2>1. \A d \in Days : InRange(d, RangeEnd(d))' = InRange(d, RangeEnd(d))
    <3> SUFFICES ASSUME NEW d \in Days
                 PROVE  InRange(d, RangeEnd(d))' = InRange(d, RangeEnd(d))
      OBVIOUS
    <3>1. RangeEnd(d)' = RangeEnd(d)
      BY <1>1 DEF Tick, RangeEnd, HotCutoff, Cutoff
    <3>2. raw \subseteq Int /\ raw' \subseteq Int
      BY <1>1 DEF Tick, TypeOK, Times
    <3>3. \A s \in raw \cup raw' : s < RangeEnd(d) => s < HotCutoff
      BY <3>2, RangeEndBounds, CutoffPast
    <3> QED
      BY <1>1, <3>1, <3>3, FreshOutside DEF InRange
  <2>2. stage = "record" => day \in Days
    BY <1>1, DayBounds DEF ProgressInv, TypeOK, Days
  <2> QED
    BY <1>1, <2>1, <2>2 DEF Tick, ProgressInv, Held
<1>2. CASE BeginMaintain
  BY <1>2 DEF ProgressInv, BeginMaintain
<1>3. ASSUME NEW t \in Tiers, BuildTier(t) PROVE ProgressInv'
  BY <1>3 DEF ProgressInv, BuildTier, Tiers
<1>4. CASE PlanArchive
  <2>1. CASE stage' = "days"
    <3>1. \A d \in Days : d < day' \/ d > lastDay' => InRange(d, RangeEnd(d)) = {}
      BY <1>4, <2>1, NothingOutside
    <3> QED
      BY <1>4, <2>1, <3>1 DEF ProgressInv, PlanArchive, Held, InRange, RangeEnd, HotCutoff, Cutoff
  <2>2. CASE stage' # "days"
    <3>1. Aged(raw, HotCutoff) = {} /\ stage' \in {"prune", "done"}
      BY <1>4, <2>2 DEF PlanArchive, AfterArchive
    <3>2. \A d \in Days : InRange(d, RangeEnd(d)) = {}
      <4>1. HotCutoff \in Int /\ raw \subseteq Int
        BY CutoffPast DEF TypeOK, Times
      <4>2. ASSUME NEW d \in Days, NEW s \in InRange(d, RangeEnd(d)) PROVE FALSE
        <5>1. s \in raw /\ s < RangeEnd(d)
          BY <4>2 DEF InRange
        <5>2. RangeEnd(d) \in Int /\ RangeEnd(d) <= HotCutoff
          BY <4>2, RangeEndBounds
        <5>3. s < HotCutoff
          BY <4>1, <5>1, <5>2
        <5> QED
          BY <3>1, <5>1, <5>3 DEF Aged
      <4> QED
        BY <4>2
    <3> QED
      BY <1>4, <3>1, <3>2 DEF ProgressInv, PlanArchive, Held, InRange, RangeEnd, HotCutoff, Cutoff
  <2> QED
    BY <2>1, <2>2
<1>5. CASE SkipDay
  <2>1. day \in Nat /\ day \in Days
    BY <1>5, DayBounds DEF SkipDay, TypeOK, Days
  <2>2. Held(day)
    BY <1>5, <2>1, RangeEndBounds DEF SkipDay, Held, AlreadyArchived, RowsInv
  <2>3. ASSUME NEW d \in Days, d < day + 1 \/ d > lastDay PROVE Held(d)
    <3>1. d \in Nat /\ (d < day \/ d = day \/ d > lastDay)
      BY <2>1, <2>3, DaysType
    <3>2. d < day \/ d > lastDay => Held(d)
      BY <1>5 DEF SkipDay, ProgressInv
    <3> QED
      BY <2>2, <3>1, <3>2
  <2> QED
    BY <1>5, <2>3 DEF SkipDay, ProgressInv, Held, InRange, RangeEnd, HotCutoff, Cutoff
<1>6. ASSUME NEW intact \in BOOLEAN, ReplaceFile(intact) PROVE ProgressInv'
  <2>1. day \in Nat /\ day \in Days
    <3>1. day \in Nat /\ day <= lastDay /\ lastDay \in Days
      BY <1>6 DEF ReplaceFile, TypeOK
    <3> QED
      BY <3>1, DayBounds DEF Days
  <2>2. \A d \in Days : d < day \/ d > lastDay => Held(d)' /\ d # day
    BY <1>6, <2>1, DaysType
    DEF ReplaceFile, ProgressInv, TypeOK, Held, InRange, RangeEnd, HotCutoff, Cutoff
  <2>3. files'[day] \in {{}, InRange(day, RangeEnd(day))}
    BY <1>6, <2>1 DEF ReplaceFile, TypeOK
  <2> QED
    BY <1>6, <2>2, <2>3 DEF ReplaceFile, ProgressInv, InRange, RangeEnd, HotCutoff, Cutoff
<1>7. CASE RecordArchive
  <2>1. day \in Nat /\ day \in Days
    BY <1>7, DayBounds DEF RecordArchive, ProgressInv, TypeOK, Days
  <2>2. files[day] # {} => Held(day)
    BY <1>7 DEF RecordArchive, ProgressInv, Held
  <2>3. files[day] # {} => \A d \in Days : d < day + 1 \/ d > lastDay => Held(d)
    BY <1>7, <2>1, <2>2, DaysType DEF RecordArchive, ProgressInv
  <2> QED
    BY <1>7, <2>3 DEF RecordArchive, ProgressInv, Held, InRange, RangeEnd, HotCutoff, Cutoff
<1>8. CASE LeaveDays
  <2>1. \A d \in Days : Held(d)
    BY <1>8, DaysType DEF LeaveDays, ProgressInv, TypeOK
  <2> QED
    BY <1>8, <2>1 DEF LeaveDays, AfterArchive, ProgressInv, Held, InRange, RangeEnd, HotCutoff, Cutoff
<1>9. CASE PlanPrune
  BY <1>9 DEF PlanPrune, ProgressInv, Held, InRange, RangeEnd, HotCutoff, Cutoff
<1>10. ASSUME NEW d \in Days, PruneRange(d) PROVE ProgressInv'
  BY <1>10 DEF PruneRange, ProgressInv, Held, InRange, RangeEnd, HotCutoff, Cutoff
<1>11. CASE FinishPrune
  BY <1>11 DEF FinishPrune, ProgressInv, Held, InRange, RangeEnd, HotCutoff, Cutoff
<1>12. CASE EndMaintain
  BY <1>12 DEF EndMaintain, ProgressInv
<1>13. CASE Interrupt
  BY <1>13 DEF Interrupt, ProgressInv
<1>14. CASE UNCHANGED vars
  BY <1>14 DEF vars, ProgressInv, Held, InRange, RangeEnd, HotCutoff, Cutoff
<1> QED
  BY <1>1, <1>2, <1>3, <1>4, <1>5, <1>6, <1>7, <1>8, <1>9, <1>10, <1>11, <1>12,
     <1>13, <1>14
  DEF Next

----------------------------------------------------------------------------
(* What the tiers represent *)

\* The cutoff of every tier is before the start of the run.
LEMMA TierCutoff ==
  ASSUME TypeOK, NEW t \in Tiers PROVE Cutoff(t) \in Int /\ Cutoff(t) <= started
<1>1. TierDays[t] * DayLength \in Nat
  BY StorageAssumption
<1> QED
  BY <1>1 DEF TypeOK, Cutoff, Times

\* The initial state satisfies RollupsInv.
LEMMA RollupsInit == Init => RollupsInv
BY DEF Init, RollupsInv, Built

\* Every step keeps the rows of a rebuilt tier represented in it.
LEMMA RollupsNext == TypeOK /\ RollupsInv /\ [Next]_vars => RollupsInv'
<1> SUFFICES ASSUME TypeOK, RollupsInv, [Next]_vars, NEW t \in Tiers, Built(t)'
             PROVE  (Aged(raw, Cutoff(t)) \subseteq rollups[t])'
  BY DEF RollupsInv
<1> USE DEF dataVars, runVars
<1>1. ASSUME NEW saved \in BOOLEAN, Tick(saved)
      PROVE  (Aged(raw, Cutoff(t)) \subseteq rollups[t])'
  <2>1. Built(t) /\ Cutoff(t)' = Cutoff(t) /\ rollups' = rollups
    BY <1>1 DEF Tick, Built, Cutoff
  <2>2. raw' \subseteq raw \cup {clock} /\ ~(clock < Cutoff(t))
    BY <1>1, TierCutoff DEF Tick, TypeOK, Times
  <2> QED
    BY <2>1, <2>2 DEF RollupsInv, Aged
<1>2. ASSUME NEW u \in Tiers, BuildTier(u)
      PROVE  (Aged(raw, Cutoff(t)) \subseteq rollups[t])'
  <2>1. Cutoff(t)' = Cutoff(t) /\ raw' = raw
    BY <1>2 DEF BuildTier, Cutoff
  <2>2. CASE t = u
    <3>1. rollups'[u] = (rollups[u] \ Aged(rollups[u], Cutoff(u))) \cup Summarised(u)
      BY <1>2 DEF BuildTier, TypeOK
    <3> QED
      BY <2>1, <2>2, <3>1 DEF Summarised
  <2>3. CASE t # u
    <3>1. rollups'[t] = rollups[t]
      BY <1>2, <2>3 DEF BuildTier, TypeOK
    <3>2. Built(t)
      BY <1>2, <2>3 DEF BuildTier, Built, Tiers
    <3> QED
      BY <2>1, <3>1, <3>2 DEF RollupsInv
  <2> QED
    BY <2>2, <2>3
<1>3. ASSUME started' = started, rollups' = rollups, raw' \subseteq raw, Built(t)
      PROVE  (Aged(raw, Cutoff(t)) \subseteq rollups[t])'
  BY <1>3 DEF RollupsInv, Aged, Cutoff
<1>4. CASE BeginMaintain \/ Interrupt
  BY <1>4 DEF BeginMaintain, Interrupt, Built
<1>5. CASE PlanArchive
  BY <1>3, <1>5 DEF PlanArchive, Built
<1>6. CASE SkipDay \/ LeaveDays \/ PlanPrune \/ FinishPrune \/ EndMaintain
  BY <1>3, <1>6 DEF SkipDay, LeaveDays, PlanPrune, FinishPrune, EndMaintain, Built
<1>7. ASSUME NEW intact \in BOOLEAN, ReplaceFile(intact)
      PROVE  (Aged(raw, Cutoff(t)) \subseteq rollups[t])'
  BY <1>3, <1>7 DEF ReplaceFile, Built
<1>8. CASE RecordArchive
  BY <1>3, <1>8 DEF RecordArchive, Built
<1>9. ASSUME NEW d \in Days, PruneRange(d)
      PROVE  (Aged(raw, Cutoff(t)) \subseteq rollups[t])'
  BY <1>3, <1>9 DEF PruneRange, Built
<1>10. CASE UNCHANGED vars
  BY <1>3, <1>10 DEF vars, Built
<1> QED
  BY <1>1, <1>2, <1>4, <1>5, <1>6, <1>7, <1>8, <1>9, <1>10 DEF Next

----------------------------------------------------------------------------
(* The theorems *)

\* The inductive invariant holds in every reachable state.
LEMMA InductiveInvariant == Spec => []IInv
<1>1. Init => IInv
  BY TypeInit, RowsInit, ProgressInit, RollupsInit DEF IInv, PastInv, Init
<1>2. IInv /\ [Next]_vars => IInv'
  BY TypeNext, PastNext, RowsNext, ProgressNext, RollupsNext DEF IInv
<1> QED
  BY <1>1, <1>2, PTL DEF Spec

\* Pruning deletes a raw row only while the file of its day holds it, for every
\* day length and retention policy and whatever was killed or damaged before.
THEOREM PruneSafe == Spec => PrunedWhileArchived
<1>1. IInv /\ [Next]_vars => [\A s \in raw \ raw' : s \in files[DayOf(s)]]_vars
  <2> SUFFICES ASSUME IInv, [Next]_vars, NEW s \in raw, s \notin raw'
               PROVE  s \in files[DayOf(s)]
    BY DEF IInv
  <2>1. PICK d \in Days : PruneRange(d)
    BY DEF Next, Tick, BeginMaintain, BuildTier, PlanArchive, SkipDay, ReplaceFile,
           RecordArchive, LeaveDays, PlanPrune, FinishPrune, EndMaintain, Interrupt,
           vars, dataVars
  <2>2. DayStart(d) <= s /\ s < rows[d].end
    BY <2>1 DEF PruneRange, PrunedRange, InRange
  <2>3. s \in InRange(d, RangeEnd(d)) /\ s \in Nat
    BY <2>1, <2>2, RowEnds, RangeEndBounds
    DEF PruneRange, IInv, ProgressInv, InRange, TypeOK, Times
  <2>4. s \in files[d]
    BY <2>1, <2>3 DEF PruneRange, IInv, ProgressInv, Held
  <2>5. s < DayStart(d + 1)
    BY <2>3, RangeEndBounds, DayStartType, DaysType DEF IInv, InRange
  <2> QED
    BY <2>2, <2>3, <2>4, <2>5, DayUnique, DaysType
<1> QED
  BY <1>1, InductiveInvariant, PTL DEF Spec, PrunedWhileArchived

\* When a run completes, the file of a day holds every row of that day past the
\* hot window, whatever runs before it left half done.
THEOREM ArchiveComplete == Spec => []AgedArchived
<1>1. IInv => AgedArchived
  <2> SUFFICES ASSUME IInv, stage = "done", NEW s \in Aged(raw, HotCutoff)
               PROVE  s \in files[DayOf(s)]
    BY DEF AgedArchived
  <2>1. s \in raw /\ s < HotCutoff /\ s \in Times /\ s \in Nat
    BY DEF Aged, IInv, TypeOK, Times
  <2>2. DayOf(s) \in Days /\ DayStart(DayOf(s)) <= s /\ s < DayStart(DayOf(s) + 1)
    BY <2>1, DayBounds, DaysType
  <2>3. s \in InRange(DayOf(s), RangeEnd(DayOf(s)))
    BY <2>1, <2>2 DEF InRange, RangeEnd
  <2> QED
    BY <2>2, <2>3 DEF IInv, ProgressInv, Held
<1> QED
  BY <1>1, InductiveInvariant, PTL

\* When a run completes, every tier represents every row of its age.
THEOREM RollupsComplete == Spec => []AgedInRollups
<1>1. IInv => AgedInRollups
  BY DEF IInv, RollupsInv, AgedInRollups, Built
<1> QED
  BY <1>1, InductiveInvariant, PTL

\* The tables keep their shape and a recorded range lies within its day.
THEOREM TypeCorrect == Spec => []TypeOK
BY InductiveInvariant, PTL DEF IInv
=============================================================================
