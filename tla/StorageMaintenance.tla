------------------------- MODULE StorageMaintenance -------------------------
(***************************************************************************)
(* Storage v2 (persistence/storage_v2.py, class StorageV2Manager): raw     *)
(* poll samples age in SQLite; a maintenance run rebuilds the rollup tiers *)
(* and state runs, writes one Parquet file per UTC day, records it, and    *)
(* deletes the raw rows of recorded ranges.  Runs follow one another; each *)
(* may be killed, or left by an exception, between any two steps, and the  *)
(* poll loop of another process keeps saving samples meanwhile.            *)
(*                                                                         *)
(* A sample stands for the poll_samples row of one time unit with its      *)
(* register_values rows, which are joined, archived and deleted together.  *)
(* The contents of a rollup tier or of a file are the samples they stand   *)
(* for.                                                                    *)
(***************************************************************************)
EXTENDS Integers

CONSTANTS
  DayLength,   \* time units in a UTC day
  TierDays,    \* tier -> age in days from which it represents samples
  MayPrune,    \* prune_archived_raw, without --no-prune
  DiskFaults,  \* may a file read back differently from what was written?
  None,        \* no storage_archives row
  MaxClock     \* BOUND: the clock stops here

Tiers == {"warm", "cool", "cold", "states"}

ASSUME StorageAssumption ==
  /\ DayLength \in Nat \ {0}
  /\ TierDays \in [Tiers -> Nat \ {0}]
  /\ TierDays["states"] = TierDays["warm"]
  /\ {MayPrune, DiskFaults} \subseteq BOOLEAN
  /\ MaxClock \in Nat
  /\ None \notin [end : Int, verified : BOOLEAN]

Times == 0 .. MaxClock
DayOf(s) == s \div DayLength
Days == 0 .. DayOf(MaxClock)
DayStart(d) == d * DayLength

VARIABLES
  clock,
  taken,     \* every sample ever saved
  raw,       \* poll_samples
  rollups,   \* tier -> samples represented in it
  files,     \* day -> contents of telemetry-<day>.parquet
  rows,      \* day -> storage_archives row of that path (start_ms is the day's)
  stage,     \* what the maintenance run does next
  started,   \* the time its cutoffs are computed from
  day,       \* loop variable of archive_before
  lastDay,   \* last_day of archive_before
  ranges     \* days whose ranges prune_verified_archives still has to delete

dataVars == <<raw, rollups, files, rows>>
runVars == <<started, day, lastDay, ranges>>
vars == <<clock, taken, dataVars, stage, runVars>>

Stages == {"idle", "warm", "cool", "cold", "states", "plan", "days", "record",
           "prune", "ranges", "done"}

Init ==
  /\ clock = 0 /\ taken = {} /\ raw = {}
  /\ rollups = [t \in Tiers |-> {}]
  /\ files = [d \in Days |-> {}]
  /\ rows = [d \in Days |-> None]
  /\ stage = "idle" /\ started = 0 /\ day = 0 /\ lastDay = 0 /\ ranges = {}

\* A time unit passes, with or without a poll being saved.
Tick(saved) ==
  /\ clock < MaxClock
  /\ clock' = clock + 1
  /\ taken' = IF saved THEN taken \cup {clock} ELSE taken
  /\ raw' = IF saved THEN raw \cup {clock} ELSE raw
  /\ UNCHANGED <<rollups, files, rows, stage, runVars>>

----------------------------------------------------------------------------
(* maintain() *)

Cutoff(t) == started - TierDays[t] * DayLength
HotCutoff == Cutoff("warm")
Aged(S, cutoff) == {s \in S : s < cutoff}

BeginMaintain ==
  /\ stage = "idle"
  /\ stage' = "warm" /\ started' = clock
  /\ UNCHANGED <<clock, taken, dataVars, day, lastDay, ranges>>

\* The samples a tier is rebuilt from; a version with the wrong cutoff.
SummarisedLate(t) == Aged(raw, Cutoff("cold"))
Summarised(t) == Aged(raw, Cutoff(t))

\* One transaction: what the tier says about aged time is replaced.
BuildTier(t) ==
  /\ stage = t
  /\ rollups' = [rollups EXCEPT ![t] = (@ \ Aged(@, Cutoff(t))) \cup Summarised(t)]
  /\ stage' = CASE t = "warm" -> "cool" [] t = "cool" -> "cold"
                [] t = "cold" -> "states" [] t = "states" -> "plan"
  /\ UNCHANGED <<clock, taken, raw, files, rows, runVars>>

AfterArchive == IF MayPrune THEN "prune" ELSE "done"

\* archive_before: the days from the oldest to the newest aged raw sample.
PlanArchive ==
  /\ stage = "plan"
  /\ \/ /\ Aged(raw, HotCutoff) = {}
        /\ stage' = AfterArchive
        /\ UNCHANGED <<day, lastDay>>
     \/ \E first, last \in Aged(raw, HotCutoff) :
          /\ \A s \in Aged(raw, HotCutoff) : first <= s /\ s <= last
          /\ stage' = "days" /\ day' = DayOf(first) /\ lastDay' = DayOf(last)
  /\ UNCHANGED <<clock, taken, dataVars, started, ranges>>

\* The end of the range of day d; a version without the day's own end.
RangeEndAtCutoff(d) == HotCutoff
RangeEnd(d) ==
  IF DayStart(d + 1) <= HotCutoff THEN DayStart(d + 1) ELSE HotCutoff

InRange(d, end) == {s \in raw : DayStart(d) <= s /\ s < end}

\* A verified row of the very same range; a version that accepts any range.
AnyArchive(d) == rows[d] # None /\ rows[d].verified
AlreadyArchived(d) == rows[d] # None /\ rows[d].verified /\ rows[d].end = RangeEnd(d)

SkipDay ==
  /\ stage = "days" /\ day <= lastDay
  /\ AlreadyArchived(day) \/ InRange(day, RangeEnd(day)) = {}
  /\ day' = day + 1
  /\ UNCHANGED <<clock, taken, dataVars, stage, started, lastDay, ranges>>

\* The range is written to a temporary file that then replaces the day's file.
\* A disk fault leaves something else there (intact = FALSE).
ReplaceFile(intact) ==
  /\ stage = "days" /\ day <= lastDay
  /\ intact \/ DiskFaults
  /\ ~AlreadyArchived(day) /\ InRange(day, RangeEnd(day)) # {}
  /\ files' = [files EXCEPT ![day] =
                 IF intact THEN InRange(day, RangeEnd(day)) ELSE {}]
  /\ stage' = "record"
  /\ UNCHANGED <<clock, taken, raw, rollups, rows, runVars>>

\* The upsert on path: a row that is there keeps its start_ms and end_ms.
Recorded(d, ok) ==
  [end |-> IF rows[d] = None THEN RangeEnd(d) ELSE rows[d].end, verified |-> ok]

\* An archive that does not verify is recorded as such and ends the run.
RecordArchive ==
  LET ok == files[day] # {} IN
  /\ stage = "record"
  /\ rows' = [rows EXCEPT ![day] = Recorded(day, ok)]
  /\ IF ok THEN stage' = "days" /\ day' = day + 1
           ELSE stage' = "idle" /\ day' = day
  /\ UNCHANGED <<clock, taken, raw, rollups, files, started, lastDay, ranges>>

LeaveDays ==
  /\ stage = "days" /\ day > lastDay
  /\ stage' = AfterArchive
  /\ UNCHANGED <<clock, taken, dataVars, runVars>>

\* prune_verified_archives reads the ranges once.
PlanPrune ==
  /\ stage = "prune"
  /\ ranges' = {d \in Days : /\ rows[d] # None /\ rows[d].verified
                             /\ rows[d].end <= HotCutoff}
  /\ stage' = "ranges"
  /\ UNCHANGED <<clock, taken, dataVars, started, day, lastDay>>

\* The samples one range deletes; a version that deletes the file's whole day.
DayOfRange(d) == InRange(d, DayStart(d + 1))
PrunedRange(d) == InRange(d, rows[d].end)

PruneRange(d) ==
  /\ stage = "ranges" /\ d \in ranges /\ \A e \in ranges : d <= e
  /\ raw' = raw \ PrunedRange(d)
  /\ ranges' = ranges \ {d}
  /\ UNCHANGED <<clock, taken, rollups, files, rows, stage, started, day, lastDay>>

FinishPrune ==
  /\ stage = "ranges" /\ ranges = {}
  /\ stage' = "done"
  /\ UNCHANGED <<clock, taken, dataVars, runVars>>

\* Checkpoint, vacuum and the report; the process exits.
EndMaintain ==
  /\ stage = "done"
  /\ stage' = "idle"
  /\ UNCHANGED <<clock, taken, dataVars, runVars>>

\* The process is killed, or an exception leaves maintain().
Interrupt ==
  /\ stage # "idle"
  /\ stage' = "idle" /\ ranges' = {}
  /\ UNCHANGED <<clock, taken, dataVars, started, day, lastDay>>

Next ==
  \/ \E saved \in BOOLEAN : Tick(saved)
  \/ BeginMaintain \/ (\E t \in Tiers : BuildTier(t))
  \/ PlanArchive \/ SkipDay \/ (\E intact \in BOOLEAN : ReplaceFile(intact))
  \/ RecordArchive \/ LeaveDays
  \/ PlanPrune \/ (\E d \in Days : PruneRange(d)) \/ FinishPrune
  \/ EndMaintain \/ Interrupt

Spec == Init /\ [][Next]_vars

----------------------------------------------------------------------------
(* Properties *)

\* Every table keeps its shape, and the range recorded for a day lies within
\* that day (archive_before clips it at the day's end and at the cutoff).
TypeOK ==
  /\ clock \in Times /\ started \in 0 .. clock
  /\ taken \subseteq Times /\ raw \subseteq Times
  /\ rollups \in [Tiers -> SUBSET Times]
  /\ files \in [Days -> SUBSET Times]
  /\ DOMAIN rows = Days
  /\ \A d \in Days : rows[d] # None =>
       /\ rows[d].verified \in BOOLEAN
       /\ rows[d].end \in DayStart(d) + 1 .. DayStart(d + 1)
  /\ stage \in Stages
  /\ day \in Nat /\ lastDay \in Days /\ ranges \subseteq Days

\* A raw row is only deleted while the file of its day holds it, whatever run
\* was killed before, between writing a file, recording it and pruning.
PrunedWhileArchived == [][\A s \in raw \ raw' : s \in files[DayOf(s)]]_vars

\* Nothing is lost: a saved sample is in SQLite or in its day's archive.
LosslessArchive == \A s \in taken : s \in raw \/ s \in files[DayOf(s)]

\* When a run completes, every row past the hot window that is still in SQLite
\* is in its day's file, also when the file had been written while the day was
\* incomplete or an earlier run was killed between the file and its record.
AgedArchived ==
  stage = "done" => \A s \in Aged(raw, HotCutoff) : s \in files[DayOf(s)]

\* When a run completes, each tier represents every row of its age that is
\* still in SQLite, whatever earlier runs left half done.
AgedInRollups ==
  stage = "done" => \A t \in Tiers : Aged(raw, Cutoff(t)) \subseteq rollups[t]

----------------------------------------------------------------------------
(* The inductive invariant behind PrunedWhileArchived *)

\* The file of day d holds what the latest run may delete of that day.
Held(d) == InRange(d, RangeEnd(d)) \subseteq files[d]

\* A verified row can be trusted unless its range is smaller than the one the
\* latest run archives: then that run, or the next one, writes the file again.
RowsInv ==
  \A d \in Days : rows[d] # None =>
    /\ rows[d].end <= HotCutoff
    /\ rows[d].verified =>
         InRange(d, rows[d].end) \subseteq files[d] \/ rows[d].end < RangeEnd(d)

\* The days the run has been through, or need not go through, are held.
ProgressInv ==
  /\ stage \in {"days", "record"} =>
       \A d \in Days : d < day \/ d > lastDay => Held(d)
  /\ stage = "record" => /\ day <= lastDay /\ InRange(day, RangeEnd(day)) # {}
                         /\ files[day] \in {{}, InRange(day, RangeEnd(day))}
  /\ stage \in {"prune", "ranges", "done"} => \A d \in Days : Held(d)
  /\ stage = "ranges" => \A d \in ranges : rows[d] # None

PastInv == \A s \in raw : s < clock

\* The tiers this run has rebuilt represent every row of their age.
Built(t) ==
  /\ stage \notin {"idle", "warm"}
  /\ t = "cool" => stage # "cool"
  /\ t = "cold" => stage \notin {"cool", "cold"}
  /\ t = "states" => stage \notin {"cool", "cold", "states"}
RollupsInv ==
  \A t \in Tiers : Built(t) => Aged(raw, Cutoff(t)) \subseteq rollups[t]

IInv == TypeOK /\ PastInv /\ RowsInv /\ ProgressInv /\ RollupsInv
=============================================================================
