--------------------------- MODULE TelemetryStore ---------------------------
(***************************************************************************)
(* What the watcher writes while it runs: poll samples and errors, the     *)
(* device rows (persistence/store.py and controllers/inventory.py), and    *)
(* the daily history a controller keeps itself, fetched from its LiveView  *)
(* page by a task beside the poll loop (history/retained).  A sample holds *)
(* the value of every register the poll decoded: a number, a text, or null.*)
(***************************************************************************)
EXTENDS Integers, Sequences, FiniteSets

CONSTANTS
  Devices, Controllers,
  OwnerOf,       \* device -> the controller it is a connection of
  ReadingsOf,    \* device -> what its polls can decode: register -> value
  Texts, Null,   \* values that are no number
  Retaining,     \* devices with a LiveView page: TriStar MPPT over TCP
  LoggedWh,      \* the charge a controller's log tells of its day, or None
  DayLength,     \* time units of a UTC day
  Shift,         \* the calendar time zone is this much ahead of UTC
  OldestOffset,  \* how many past days the page shows
  Flaky,         \* BOUND: devices whose polls fail, that go missing and come back
  MaxClock,      \* BOUND: the clock stops here
  MaxWrites,     \* BOUND: writes of device rows, and fetches, of a behaviour
  None

ASSUME TelemetryAssumption ==
  /\ IsFiniteSet(Devices)
  /\ OwnerOf \in [Devices -> Controllers]
  /\ DOMAIN ReadingsOf = Devices
  /\ \A d \in Devices : \A values \in ReadingsOf[d] :
       \A r \in DOMAIN values : values[r] \in Int \cup Texts \cup {Null}
  /\ {Retaining, Flaky} \subseteq SUBSET Devices
  /\ DayLength \in Nat \ {0} /\ Shift \in Nat /\ OldestOffset \in Nat
  /\ MaxClock \in Nat /\ MaxWrites \in Nat
  /\ None \notin Int

VARIABLES
  clock,
  samples,   \* poll_samples with their register_values; `at` identifies one
  errors,    \* poll_errors
  devices,   \* device -> status and last_seen of its row, and the time of the
             \* error whose text last_error holds
  daily,     \* controller_daily_history
  syncs,     \* controller_history_syncs
  fetch,     \* the task fetching the page of one device, or None
  writes     \* writes of device rows, and fetches, so far

vars == <<clock, samples, errors, devices, daily, syncs, fetch, writes>>

\* Every connection was found by the discovery before the first cycle.
Init ==
  /\ clock = 0 /\ writes = 0
  /\ samples = {} /\ errors = {} /\ daily = {} /\ syncs = {}
  /\ devices = [d \in Devices |-> [status |-> "online", seen |-> 0, lastError |-> None]]
  /\ fetch = None

\* One thing happens at a time, and each has a time of its own.
At(table) ==
  /\ clock < MaxClock /\ clock' = clock + 1
  /\ writes < MaxWrites /\ writes' = writes + 1
  /\ UNCHANGED <<daily, table>>

Pass ==
  /\ clock < MaxClock /\ clock' = clock + 1
  /\ UNCHANGED <<samples, errors, devices, daily, syncs, fetch, writes>>

-----------------------------------------------------------------------------
(* The poll loop                                                             *)

\* The device row after an answer; a version that keeps the error.
KeepsError(d) == [devices EXCEPT ![d].status = "online", ![d].seen = clock]
Answered(d) ==
  [devices EXCEPT ![d] = [status |-> "online", seen |-> clock, lastError |-> None]]

\* A refresh has found the device (again).
UpdateCanonicalDevice(d) ==
  /\ d \in Flaky
  /\ devices' = Answered(d)
  /\ At(<<samples, errors, syncs, fetch>>)

SavePoll(d, values) ==
  /\ samples' = samples \cup {[dev |-> d, at |-> clock, values |-> values]}
  /\ devices' = Answered(d)
  /\ At(<<errors, syncs, fetch>>)

SaveError(d) ==
  /\ d \in Flaky
  /\ errors' = errors \cup {[dev |-> d, at |-> clock]}
  /\ devices' = [devices EXCEPT ![d].status = "error", ![d].lastError = clock]
  /\ At(<<samples, syncs, fetch>>)

\* A refresh has found the controller missing, or the watcher is stopped: then
\* a poll of the device may still be under way and be saved afterwards.
MarkDeviceOffline(d) ==
  /\ d \in Flaky
  /\ devices' = [devices EXCEPT ![d].status = "offline"]
  /\ At(<<samples, errors, syncs, fetch>>)

\* The program starts again: a fetch that was under way is lost.
MarkAllOffline ==
  /\ devices' = [d \in Devices |->
       IF devices[d].status \in {"online", "error"} THEN [devices[d] EXCEPT !.status = "offline"]
       ELSE devices[d]]
  /\ fetch' = None
  /\ At(<<samples, errors, syncs>>)

-----------------------------------------------------------------------------
(* The history the controller retains                                        *)

UtcDay(t) == t \div DayLength
LocalDay(t) == (t + Shift) \div DayLength

\* The page is rendered in this instant: its columns are days back from the
\* controller's own date.
BeginSync(d) ==
  /\ fetch = None /\ d \in Retaining /\ writes < MaxWrites
  /\ fetch' = [dev |-> d, attempted |-> clock, today |-> LocalDay(clock), filed |-> None]
  /\ writes' = writes + 1
  /\ UNCHANGED <<clock, samples, errors, devices, daily, syncs>>

\* Samples of the device in one day of the calendar; a version by UTC day.
LiveOnUtcDay(d, day) == {s \in samples : s.dev = d /\ UtcDay(s.at) = day}
LiveOn(d, day) == {s \in samples : s.dev = d /\ LocalDay(s.at) = day}

\* A column tells a day that is over; a version that takes today's for one.
OverToday(offset) == offset <= 0
Over(offset) == offset < 0

\* The columns, dated from the time the page was parsed at.
Records ==
  {[dev |-> fetch.dev, day |-> LocalDay(clock) + offset, complete |-> Over(offset),
    live |-> Cardinality(LiveOn(fetch.dev, LocalDay(clock) + offset)),
    retrieved |-> clock, about |-> fetch.today + offset,
    wh |-> LoggedWh[fetch.today + offset]] : offset \in -OldestOffset .. 0}

\* The rows the upsert replaces; a version without the conflict clause.
Appended(new) == daily \cup new
Upserted(new) ==
  {r \in daily : ~\E n \in new : n.dev = r.dev /\ n.day = r.day} \cup new

FileDays ==
  /\ fetch # None /\ fetch.filed = None
  /\ daily' = Upserted(Records)
  /\ fetch' = [fetch EXCEPT !.filed = clock]
  /\ UNCHANGED <<clock, samples, errors, devices, syncs, writes>>

\* A fetch that raises, in the request, the parser or a write, is recorded as
\* an error; what it filed stays.
RecordSync(status) ==
  /\ fetch # None
  /\ status = "ok" => fetch.filed # None
  /\ syncs' = syncs \cup {[dev |-> fetch.dev, at |-> fetch.attempted, status |-> status]}
  /\ fetch' = None
  /\ UNCHANGED <<clock, samples, errors, devices, daily, writes>>

\* Cancelled by a shutdown: nothing is recorded.
CancelSync ==
  /\ fetch # None
  /\ fetch' = None
  /\ UNCHANGED <<clock, samples, errors, devices, daily, syncs, writes>>

Next ==
  \/ Pass
  \/ \E d \in Devices :
       \/ UpdateCanonicalDevice(d) \/ SaveError(d) \/ MarkDeviceOffline(d) \/ BeginSync(d)
       \/ \E values \in ReadingsOf[d] : SavePoll(d, values)
  \/ MarkAllOffline
  \/ FileDays \/ CancelSync \/ (\E status \in {"ok", "error"} : RecordSync(status))

Spec == Init /\ [][Next]_vars

-----------------------------------------------------------------------------
(* Properties                                                                *)

\* Types, and one row for a device and day (the primary key the upsert needs).
TypeOK ==
  /\ clock \in 0 .. MaxClock /\ writes \in 0 .. MaxWrites
  /\ \A s \in samples : s.dev \in Devices /\ s.at \in 0 .. clock
  /\ \A e \in errors : e.dev \in Devices /\ e.at \in 0 .. clock
  /\ \A d \in Devices : /\ devices[d].status \in {"online", "error", "offline"}
                        /\ devices[d].seen \in 0 .. clock
                        /\ devices[d].lastError \in 0 .. clock \cup {None}
  /\ \A r, other \in daily : r.dev = other.dev /\ r.day = other.day => r = other

\* The errors of a device since its last answer.
ErrorsSince(d) == {e.at : e \in {x \in errors : x.dev = d /\ x.at >= devices[d].seen}}

\* A device row and the two tables beside it tell the same story, also when the
\* device was marked offline in between: last_error is the newest error since the
\* last answer, if there was one; a row is never "error" without nor "online"
\* with one; and no sample of the device is newer than last_seen.
StatusTells ==
  \A d \in Devices :
    LET row == devices[d] IN
    /\ IF ErrorsSince(d) = {} THEN row.lastError = None
       ELSE row.lastError \in ErrorsSince(d) /\ \A t \in ErrorsSince(d) : t <= row.lastError
    /\ row.status = "error" => row.lastError # None
    /\ row.status = "online" => row.lastError = None
    /\ \A s \in samples : s.dev = d => s.at <= row.seen

\* A day stored as complete is what the controller said of a day that was over
\* when it rendered the page: the day it is filed under or, when midnight fell
\* between the answer and its parsing, an earlier one.
CompleteDays ==
  \A r \in daily : /\ r.about <= r.day
                   /\ r.complete => r.about < LocalDay(r.retrieved)
                   /\ r.complete => r.day < LocalDay(r.retrieved)

\* A row said to fill a full-day gap fills one: no poll of that device was ever
\* saved in that calendar day, also not after the row was written.
GapsFilled ==
  \A r \in daily : r.complete /\ r.live = 0 => LiveOn(r.dev, r.day) = {}

\* What the retained days claim is true: which were over, and which were missed.
RetainedDaysTrue == CompleteDays /\ GapsFilled
=============================================================================
