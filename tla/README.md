# A formal model of the Morningstar Modbus API

This directory holds TLA+ specifications of the daemon in `src/src/morningstar_modbus`
(paths below are relative to that package unless they start with `docs/` or `tests/`),
the TLC configurations that check them on small instances, and TLAPS proofs of the
properties that matter most for every size of the system. `PROJECT.json` lists the
components, the runs, which source lines every definition models (`map`), the
places where a run contradicts the documentation (`findings`), the hazards the
properties were written for, and the mutated definitions each property detects.

## 1. The system and its parts

`morningstar-modbus run` is one process with an asyncio loop: the **watcher**
discovers controllers, polls each through one endpoint and stores telemetry in
SQLite; the **HTTP API** serves the same database, in the same process or in
another (`cli/main.py`). `maintain-storage` (cron) ages the database from a third
process, and `benchmark-polling` registers and polls from a fourth.

| component | state | operations | hard behaviour | correct when |
|---|---|---|---|---|
| Watcher loop (`runtime/watcher.py`) | a dozen dictionaries keyed by endpoint or by controller UID, open clients, history tasks, `_stopping` | `run`, `_refresh_devices`, `_poll_all`/`_poll_one`, `_schedule_history_sync`, `_backfill_history`, `stop` | concurrent polls, `stop()` at any await, a controller seen at several endpoints, moving, disappearing | one polled endpoint per present controller; no stale client; the database says what the watcher knows; shutdown leaves nothing behind; nobody starves |
| Device lifecycle (`controllers/lifecycle.py`) | state, failure count, backoff deadline, outage start | `mark_*`, `can_poll` | long outages, exponential backoff | an outage begins and ends once; backoff bounded |
| Controller inventory and scope (`controllers/inventory.py`, `scope.py`) | identities, members, connections, evidence; UIDs and aliases | `register_observation`, `_promote_identity`, `record_success`, `_sync_current_identities`, `resolve` | weak and strong evidence in any order; several processes synchronising the same tables | a UID never changes; controllers are neither merged nor split |
| Storage v2 (`persistence/storage_v2.py`) | raw samples, rollup tiers, Parquet files, archive rows | `maintain`: rollups, archive, verify, prune | kill between any two steps; a day archived while incomplete | no sample is deleted before its file holds it |
| Telemetry store, events (`persistence/store.py`, `events.py`) | samples, errors, device rows, deduplicated event log | `save_poll`, `save_error`, the inventory's writes of device rows, `record`, the history queries | writers in several processes and in any order; a query at its limit | device rows agree with the rows beside them; every query tells the same story; an event is recorded once |
| Polling cadence (`polling/service.py`) | stage, last safe interval, samples of the stage, last write times | `observe`, `reset`, `should_persist`, the benchmark's report | one bad cycle of one controller; a changing set of controllers; a write that fails after it was counted | never polls faster than was measured for every present controller; rows keep coming |
| Incidents (`persistence/incidents.py`, `intelligence/incidents.py`) | active/resolved incidents | `reconcile`, `scan`, `health_score` | two scans at a time; commit and event apart; cancelled streams | one active incident per key; resolved only on evidence; each transition has its event |
| Retained history (`history/retained/*`) | daily records, sync log | `sync`: fetch, parse, upsert, record | a page rendered before midnight and dated after it; cancellation; two zones | a complete day was over; a gap said to be filled was one |
| Transports, codec (`transports/modbus.py`, `protocol/codec.py`) | socket or port, lock, executor, closed flag | `read_*`, `close` | a late answer after a timeout, close and cancellation during an exchange | an answer belongs to its request; close leaves nothing open |
| Catalog profile, capture (`catalog/profile.py`, `capture/*`) | cached metadata words, recorded exchanges | `poll`, observer, replay | optional blocks that fail; polls that fail half way | a replay returns what the poll returned |
| Systems and history views (`systems/*`, `history/*.py`, `forecasting/service.py`) | none: readers of the tables | latest, history, events, power flow, ledger, graph, coverage, energy, forecasts | several connections of a controller, nulls, window edges, disagreeing reporters | two views of the same rows never contradict each other |
| Discovery, catalog tables, SNMP, configuration, HTTP routing, catalog maintenance tool, device intelligence | none or append-only | pure functions, I/O | numeric edges | see `PROJECT.json` |

Interactions: discovery results go to `ControllerRegistry.register_observation`,
whose UID and device id key everything in the watcher; the watcher writes device
status and connections, samples and events; the API and the maintenance run read
and write the same SQLite file; controller-side history is fetched over HTTP by
background tasks the watcher starts. Readers (views, forecasts, incident scans) keep
no state of their own: what they say is a function of the tables.

## 2. Modules

| module | models |
|---|---|
| `DeviceLifecycle` | `DeviceLifecycle` as records and operators (one operator per `mark_*`) |
| `Watcher` (extends it) | the loop, its polls, history tasks and stops |
| `ControllerSession` | abstract: what the watcher promises about one controller |
| `StorageMaintenance` | a maintenance run beside the poll loop |
| `ControllerRegistry` | identity resolution and UID synchronisation |
| `IncidentDetectors` | the detectors and the health score, pure operators |
| `Incidents` (extends it) | scans, reconciliation, events, cancellation |
| `PollingCadence` | automatic poll interval, benchmark report, persistence limiter |
| `PollSession` | one profile over one client: transport, metadata cache, recorder, replay |
| `TelemetryStore` | the tables the poll loop and the history sync write |
| `HistoryQueries` (extends it) | every register and daily history query |
| `EnergyAnalytics` (extends that) | coverage, gaps and energy by day |
| `SystemViews`, `PowerViews`, `Forecasts` (each extends the one before; the first `HistoryQueries`) | the system's values, histories, health, events; power flow, ledger, component graph; forecasts and their backtest |
| `MC*` | instances for TLC; `MCTelemetry` joins both chains over one database |
| `WatcherProofs`, `RegistryProofs`, `IncidentProofs`, `CadenceProofs`, `SessionProofs`, `StorageProofs` | the theorems about the module each extends |
| `TelemetryProofs` | the theorems about the tables, the history queries and the analytics |
| `ViewProofs` (extends it) | the theorems about the views and the forecasts |

A definition with a comment "a version that ..." beside a definition of the code is
the mutated form `PROJECT.json` names for a property; nothing else uses it.

### Watcher

`pc` is where `run()` is: `start` (before `mark_all_offline`), `top` (the loop
condition), `discovering`/`registering`/`missing`/`binding` (the four parts of
`_refresh_devices`), `dispatch` (before `_poll_all`), `polling` (its task group),
`final` (the `finally: await self.stop()`), `returned`. The dictionaries of the
class are the variables of the same name; `bound` is `_devices`, `_device_ids` and
`_controller_ids`, which the code always writes and pops together. `polls[k]` is the
`_poll_one` task of endpoint `k`: created, reading, saving or handling a failure;
`backfills` are the history tasks; `stops` are the two concurrent `stop()` calls, the
signal's and `run()`'s own. An action is the code between two awaits at which
another task can see or change what it touches. `status` and `active` are the two
database columns the API's presence is computed from.

Inputs: a discovery result is any set of sightings that `discover()` can return
(at most one per stable key), each attributed to a controller in `Home[key]`. Any
poll may fail at any time, may or may not be persisted (the poll persistence
limiter), and the loop sleeps any time from 1 to `MaxElapsed` units (the polling
cadence). `RefreshFaults` lets an unguarded await of a refresh raise, `WriteFaults`
lets a guarded write fail and be logged, `Signals` lets a signal arrive, `MaxCrashes`
bounds process kills; after a kill only `status` and `active` survive.

Simplifications: time is relative (`nextDiscovery` and backoff count down), at
least one unit passes between two iterations, and all of it passes between `_poll_all` and
the next loop test; one signal at most is modelled (a second is the same call with less to do);
locators (`Paths`) stand for host/port or device node.

### StorageMaintenance

A sample is a time unit; a day has `DayLength` units. Rollup tiers, files and the
raw table are sets of the samples they represent. A run goes through `stage`:
the four rebuilds, `plan`/`days`/`record` (one day: replace the file, then verify and
record it), `prune`/`ranges`, `done`. `Tick` is the poll loop. `Interrupt` is a kill or
an exception in any stage; `ReplaceFile(FALSE)` leaves a file that does not verify.
Runs follow one another; two at a time (a cron job that overtakes itself) share a
temporary file and are not modelled.

### ControllerRegistry

`canonical`, `older`, `members` and `lastOwner` are the identity tables (`older` orders
the identities by `last_seen`), `physical` and `aliases` the UID tables. A registry call is a
small program: synchronise, register, synchronise, synchronise, answer (the last
synchronisation is `resolve`'s own). `_sync_current_identities` is two steps, because SQLite
opens the write transaction at the first INSERT: `SyncRead` reads the identities and
looks up the first, `SyncWrite` does the rest, and `SyncRaises` is the UNIQUE
violation. `register_observation` has one action for each branch; every branch ends in `Commit`.
An endpoint stands for its key and the fallback identity derived from it; the serial
number is read only after the profile is known, so a serial implies a profile and there
is one profile. The observations are arbitrary: any endpoint, any serial or none.
`Init` is every database `_bootstrap_legacy_rows` can produce. `told` is what the watcher
remembers of the answers, the session at each endpoint.

### Incidents

An actor is whoever scans: an open event stream, which scans again and again, or a
request for incidents or the health score. A scan takes its service's lock, evaluates
the detectors (`Detections`), reads the active rows, commits the new rows in one
transaction and then records one event for each change: these are its phases, and
other processes, a change of the evidence or a cancelled client may come between any
two. `Conflict` is the UNIQUE index on active fingerprints, which rejects a whole
transaction. Evidence is a record per controller at the detectors' resolution
(hundredths of volts, percent). `SiteIntelligenceService.start()` has no caller in the
repository: no timer is modelled. `unannounced` and `overtaken` are history variables: the
incidents whose announcement was cancelled, and those whose row was given a severity
behind the events. A severity is overtaken when a scan commits a change that is older than
one announced already, or commits a severity that differs from the row's and is no change
to it because it had read the row before; the next change announced in order takes the
incident off the list.

### PollingCadence

A `Cycle` is one pass of the loop: the present controllers out of their backoff answer
(`OutcomesOf`), each answer becomes a sample by the arithmetic of `PollTrafficTracker`,
`Observe` judges the stage, `Persist` decides and performs the writes. `Refresh` is the
part of a discovery that may reset the calibration. `recent` and `earned` are history
variables: which intervals a controller passed over its present connection, computed
without looking at the controller's own stage.

### PollSession

The event loop and the RTU client's worker thread take turns. A request is a job in the
executor's queue; its exchange clears the input, sends, reads bytes until it has a frame
or the deadline. `inbox` and `air` are answers received and answers under way, each with
the request it answers and the exchange during which it was received, so a late answer
to an older request can be read by a newer one. `Cancel` leaves the worker running;
`Close` queues the closing of the port behind it. The TCP client shares the actions: it
opens a connection for each request and checks the transaction id. `log` is what the
observer was told, and `Replay` runs the profile over it.

### TelemetryStore and its readers

`samples`, `errors`, `devices`, `daily` and `syncs` are the tables. A sample maps register
names to a number, a text or null. A sync is three steps: the page is rendered in one
instant, parsed and filed in another, recorded in a third; midnight or a failure may come
between. `Shift` is the difference between the calendar zone and UTC. A device row has five
writers: `SavePoll`, `SaveError`, `UpdateCanonicalDevice` (a refresh that sees the device; the store's
`upsert_device` does the same to the row and has no caller), `MarkDeviceOffline` (a refresh that misses it, or
`stop()`) and `MarkAllOffline` (a restart, which also loses the fetch under way). They come in any order here,
so also an answer or an error that is saved after the device was marked offline; `Watcher` says which orders its loop allows.
Tolerances are in hundredths of the quantity's unit (50 for 0.5 A and 0.5 Ah, 5 for 0.05 kWh) and in percent.
`SerialOf` is the serial number the graph uses for a controller: that of its row or, without one, the one its newest
sample holds (`systems/components.py:208`), taken as fixed. Readers are
operators on the tables; every state of the tables is a database they are asked about, so
an invariant over them is a reference check of two independent ways to one number.
Numbers are multiples of twelve in the instances, so that means and medians are exact.

## 3. The runs

### Runs that pass

* `watcher_refresh`: two controllers, one with two endpoints and two locators; every
  discovery result, move, disappearance, poll outcome, failed guarded write and failing refresh.
  `TypeOK`, `OneEndpointPerController`, `StaleClientsClosed`, `PersistedPresence` and the refinement
  `LifecycleFollowsController` (`Watcher` implements `ControllerSession`). Two endpoints of one
  controller are what a move needs, a second controller is what interference needs, the
  threshold of 2 separates degraded from offline, and the second failure already meets the
  greatest backoff.
* `watcher_shutdown`: a signal at every step, both `stop()` calls, history tasks, a process
  kill and an exception that escapes a poll (`FloatExponents` 1 makes the backoff overflow
  at once): `CleanShutdown`, `HistoryAttempted`, `PersistedPresence` after a restart, and
  `StopEndsRun` and `PresentGetsPolled` under fairness.
* `storage`: days of three units, so that a cutoff may leave a day in three different stages,
  tiers of 1, 1 and 2 days, runs that prune, damaged files, kills at any step:
  `TypeOK`, `PrunedWhileArchived`, `AgedArchived`, `AgedInRollups`.
* `registry_alone`: two endpoints, two serials, one process: `ScopesCurrent`, `SerialsApart`.
  Two of each are what a conflict or a promotion involves.
* `registry_readers`: two endpoints, one serial and an API process that synchronises at any time:
  `UidImmutable`, `OneUidPerSerial`.
* `incidents`: a stream and a request of one service and a request of another process, evidence
  that changes twice between three pictures of the site in which every detector is seen with
  a finding, without one and without evidence. `EventsTellIncidents` (the newest event that claims a severity
  claims the row's, unless it was overtaken or its announcement cancelled; an incident is resolved once),
  `ResolvedOnEvidence` and `HealthHonest`, and `IncidentsSettle` under fairness. Two changes are
  what it takes to open and resolve with a stale scan in between.
* `polling`: two controllers, two connections, intervals of 1, 0.5 and 2 seconds, stages of three samples (the
  least the code accepts), one change of selection after the first, one failed write: `SafeInterval`, `BenchmarkAgrees`,
  `RowsKeepComing`, `CalibrationEnds`.
* `session`: four blocks (cached, two optional, required; two of one shape, so that a late
  answer can be mistaken for another), three polls over two clients, two answers in the air, both media:
  `AnswersBelong` (`AnswerFits` and `FreshAnswer`), `PortReleased`, `Replayed`, and `WaitsEnd`
  (`CallsEnd` and `ClosesEnd`) under fairness.
* `telemetry`: one controller with two connections, days of three units in a zone one unit
  ahead of UTC, four instants over two days, three writes:
  `StatusTells`, `RetainedDaysTrue` (`CompleteDays` and `GapsFilled`), `AnalyticsAgree` (`EvidenceAgrees`
  and `EnergyBounded`).
* `views`: four controllers with five connections (two TriStar connections, two GenStars that
  disagree, a gateway), three writes over three days: `QueriesAgree`, `MetricsFollowRows` (`LatestIsLastPoint`
  and `BucketsFollowRaw`), `EventsChain`, `HealthTold`, `ConflictsStay`, `OneComponentPerDevice`, `NoHindsight`
  (`ForecastsBlind` and `BacktestBlind`). Three writes
  are two values and one between, a training day and today, or two reporters and one reading of another kind.

The type invariants run where a type can be lost by arithmetic or by an interrupted run
(`watcher_refresh`, `storage`); every module states one.

Endpoints and serials are symmetric in the registry (nothing orders them), so its two runs use
symmetry. Deadlock is checked except in `session`, `telemetry` and `views`, which stop when their
bounded number of polls or instants is used up.

### Runs that show a disagreement with the documentation

| run | what happens |
|---|---|
| `watcher_overflow` | the 1025th failed poll in a row raises OverflowError inside the failure handler and ends the daemon |
| `storage_lossless` | a day archived in part and pruned; the next run's file for the rest replaces the first part |

### Known divergences without a run of their own

Each was seen as a counterexample or follows from a definition; the passing properties are
worded so that they exclude exactly these.

* `runtime/watcher.py:211`: an address passes from controller A to B; B is bound first, then A's move pops the
  entries at its previous key, which are B's, and B is unpolled until the next discovery. The watcher's runs and
  theorems assume `NoEndpointReuse`. The new controller also continues the failure count kept under the endpoint (215).
* `runtime/watcher.py:145`: an exception after `register_observation` and before the binding loop ends the run
  with a row online that `stop()` does not know: it marks the controllers it holds. The row stays online until the
  next daemon's `mark_all_offline`. `CleanShutdown` fails with `RefreshFaults`, so its run and theorem exclude them.
* `persistence/storage_v2.py:214`: tiers are rebuilt from the raw rows left after pruning, so what was pruned disappears
  from them (`docs/storage-v2.md:34`). The row of a day archived in part keeps its first end, so its rest is never pruned.
* `controllers/scope.py:117`: two processes generate a UID for the first identity; the second INSERT raises IntegrityError
  out of `register_observation`. `inventory.py:274`: a fallback identity older than the endpoint's owner is looked up
  first, so one endpoint can be answered with two UIDs in turn.
* `intelligence/incidents.py:258`: a scan cancelled after the commit never records its events, and no later scan does
  (`docs/site-intelligence.md:20` lists the events as the history of incidents). `EventsTellIncidents` excludes
  `unannounced`, the incidents this happened to.
* `persistence/incidents.py:202`: two services read an incident at "warning"; one commits and announces "critical"; the other, whose
  finding is what it had read, writes "warning" back, computes no change and announces nothing, against `docs/site-intelligence.md:15`
  ("severity or explanation changes produce an `INCIDENT_UPDATED` lifecycle event"): the stream's last word is "critical", the table
  says "warning". Also, a scan that is slow to commit may announce a severity with an older stamp than the event of another
  service. `EventsTellIncidents` excludes both (`overtaken`) until the next change that is announced in order; with `overtaken` left out
  of `Told` its run finds them.
* `persistence/incidents.py:208`: the UPDATE names the row by its uid alone, so a scan that read a row as active
  changes the stamp of the row after another scan resolved it. Of three processes that scan at a time, the third then
  resolves it with a stamp of its own and tells the recovery a second time. The API makes one service per process;
  `EventsTell` is proved for two services, the run has two.
* `systems/data.py:626`: a bucket is averaged by connection and the first row stands for the controller, while the
  docstring (573) says by controller.
* `systems/data.py:925`: a state decoded as null counts as cleared and hides the transition after it. `latest` (255)
  skips a null register for the next alias, the raw history does not.
* `history/retained/storage.py:157`: raw rows that were pruned before a sync are not counted, so an archived day
  is said to be a gap filled.
* `history/analytics.py`: live days are UTC days, retained ones calendar days.
* `systems/data.py:844` reads the newest syncs and applies the window afterwards, so an early window shows none once there are more
  than the limit. `:500` and `:633` refuse a history over 20000 rows or groups; `BucketsFollowRaw` is about histories that are
  not refused, `LatestIsLastPoint` about the raw series itself, and a forecast whose history exceeds the limit of its policy fails as a whole, which is not modelled.
* `forecasting/service.py:434` reads the oldest rows up to its limit; `:130` leaves controllers without evidence out of the
  probability that all of them float.
* `systems/power.py:399`: in a system of Wh and kWh counters the first kind supplies the ledger, with the quality of
  that kind alone.
* `systems/components.py:252`: two gateways that report the same device that is not polled list it twice.
* `transports/modbus.py:299`: an RTU answer carries no transaction id, so a late answer of the same function and
  length, received during a later exchange, is taken for its answer. `AnswerFits` and `FreshAnswer` say what is guaranteed.

## 4. Fairness

`Fairness` in `Watcher` is weak fairness of the steps of `run()`, of every poll,
history task and `stop()` once started. The code justifies it: asyncio runs whatever
is ready; every Modbus exchange, HTTP fetch and database call ends or raises by a timeout; the
task group and `gather` wait only for those. Nothing assumes that a signal comes, that a poll succeeds, that a
controller is ever seen or that a fault stops occurring. Weak fairness is enough: no step of
the loop is disabled by another task once it is its turn.

`Incidents`: weak fairness of the steps of a scan that has begun in the service of a stream, strong fairness of beginning one for
a stream (the lock is taken and released by others; asyncio's lock is first come, first served). Nothing is assumed of the
services without a stream: their scans may stop anywhere.
`PollingCadence`: weak fairness of a pass of the loop; discoveries may come at any time in between.
`PollSession`: weak fairness of the task and of the worker thread. No module assumes that an answer arrives or a write succeeds.
The other modules have safety properties only.

## 5. Proofs

`WatcherProofs` proves, for every set of controllers, endpoints and locators, all
thresholds and intervals, faults, signals and crashes:

* `TypeCorrect`: `Spec => []TypeOK`.
* `OneEndpoint`: `NoEndpointReuse => (Spec => []OneEndpointPerController)`.
* `NoStaleClients`: `NoEndpointReuse => (Spec => []StaleClientsClosed)`.

The property speaks of settled states only; in the middle of a refresh the maps disagree.
The inductive invariant `IInv` says what each stage may rely on: `StageInv` (a running
poll's key is bound and in `presentKeys`, the controllers still to process are known),
`BindingInv` (a controller the binding loop has been through has its selected key),
`OwnershipInv` (controllers and keys match one to one even in mid-refresh; this is where
`NoEndpointReuse` is needed: without it a step of the loop can pop another
controller's entry), and `ClientInv` (an open client belongs to a controller that is present
or still to be processed, and talks to the locator bound at its key). Type correctness
needs `StageInv` and `BindingInv`, not the assumption.

* `PresencePersisted`: `NoEndpointReuse => (Spec => []PersistedPresence)`.
* `StopReleases`: `Spec => []Released` (the part of `CleanShutdown` about clients and tasks, whatever fails).
* `CleanStop`: `~RefreshFaults => (Spec => []CleanShutdown)`.

The columns agree with the maps only between refreshes, so `PresenceInv` says for each stage which rows may already, or
may still, be presented. A stop takes the maps first and writes later: `ShutdownInv` says which stop holds which task and
that nothing it took is opened again; `PresentedInv` says that whoever is presented is in a map, is about to be bound, or
is on the list of the `stop()` that will mark it. The middle case is what an exception in a refresh breaks.

It proves that the watcher implements `ControllerSession`:

* `Refinement`: `NoEndpointReuse => (Spec => LifecycleFollowsController)`.
* `SyncAttempted`: `NoEndpointReuse => (Spec => []HistoryAttempted)`.

Each action maps to a failed or a successful poll or the loss of one controller, to a discovery, a restart or a stutter. What is hard is
that the concrete state is kept by endpoint and the abstract by controller: `BindMoves` shows that binding moves a lifecycle with
its controller and leaves the others alone, from `OwnershipInv` and `LossInv` (no lifecycle lies under a key that is not bound,
and a controller the refresh did not see is marked before the refresh ends). `SyncInv` is `HistoryAttempted` with the poll that is being saved.

`RegistryProofs` proves of the registry, for every finite set of endpoints, every set of serial numbers and any number of processes:

* `UidsForGood`: `Spec => UidImmutable`, an action property; `RegistryTyped`: `Spec => []TypeOK`.
* `SerialsKnown`: `Spec => []OneUidPerSerial`, and `SerialsSeparate`: `Spec => []SerialsApart`.
* `ScopesResolve`: `Readers = {} => (Spec => []ScopesCurrent)`.

A synchronisation writes from a lookup that may be old. The argument is that a lookup is old at worst, never wrong: an
identity that was seen is not made anew (`SeenInv`), an identity and its device stay together (`DeviceInv`, `MemberInv`), so a
row read by anyone at any time names the device its alias still has (`RowsInv`), two snapshots agree (`AgreeInv`), and the write for the
first identity either repeats what is there or clashes with the UNIQUE device and rolls back (`FirstInv`, `AliasInv`). `ToldInv` carries
that over to the answers. `SyncedInv` adds, for the watcher alone, that its snapshot is the table.
That `Keys` is finite is used once: of the device rows a migrated identity takes over, one is the newest (`NewestInGroup`).

`IncidentProofs` proves, for every site, sequence of evidence and set of scanning processes:

* `ResolvedOnEvidenceOnly`: `Spec => ResolvedOnEvidence`, an action property.
* `EveryIncidentTold`: `Spec => []AllTold`.
* `EventsTell`: `TwoServices => (Spec => []EventsTellIncidents)`.

Two scans with one time stamp write the same event key, and the second is dropped as a duplicate: `DetectInv` says that they read the same evidence,
`ClaimsInv` that what they announce is then the same, so nothing is lost. `AllTold` is inductive with them (`ReconcileKeeps`): a scan that
announces a change in order makes it the newest claim of its incident, one that announces none leaves the severity as the row
had it, and in every other case the incident is overtaken. `Exclusive` (the lock) and `StampInv` (of a
resolved incident at most one scan still holds the row, and it finds the stamp of the recovery) give `RecoveryToldOnce`; with a third
service `StampInv` is false, and so is the property (section 3).

* `HealthScoreHonest`: `Spec => []HealthHonest`.

The score counts the active findings by category. That it is full only of no finding needs every finding to be of a category and a
severity that is counted, and finitely many of them: `HealthInv` says so of the rows and, since a scan may commit at any time,
of what every scan under way has detected (`SoundDetections`, from the definitions of the detectors).

`CadenceProofs` proves, for every list of intervals, stage length, fallback and set of controllers:

* `NeverFasterThanEarned`: `Spec => []SafeInterval`.
* `AutoModeAgrees`: `Spec => []BenchmarkAgrees`.

`earned` is computed from the last polls of each controller, the stage from its own list that begins anew with each stage:
`SamplesInv` says that the list is always the end of the last polls, at the interval under trial. `EvidenceInv` is the property
for all that may become the interval next (the one last found safe, the one before the stage under trial, the locked one), for
the controllers of the present selection (`SelectionInv`). `ReportInv` connects the report with the calibration: no stage failed
before an interval is locked.

`SessionProofs` proves, for every profile, both media and any number of polls and answers:

* `ClosedForGood`: `Spec => []PortReleased`.
* `AnswersOfTheirOwn`: `Spec => []AnswersBelong`.
* `ExchangesToldOnce`: `Spec => []RecordedOnce`.

`QueueInv` says what the executor's queue can hold: the request that waits, then the close. `WorkInv` says that the worker reads for the
request under way or for one whose task was cancelled. From both, nothing is left to open the port when the close has run (`CloseInv`).
`LineInv` says that clearing the input leaves nothing of an earlier exchange, `AnswerInv` and `WordsInv` follow an answer from
the line through the observer to the words and the cached metadata.

* `CaptureReplays`: `Spec => []Replayed`.

`ReplayInv` says that the capture so far, replayed from the metadata the poll began with, stands where the poll does: the same blocks
left, the same words. It needs that the request under way is one the profile allows next and that a poll that has ended has nothing
left to ask. A step that records an exchange adds one place to the replay (`ReplaysBy` lists the states the replay goes through, so no
induction over the operator is needed in a step); that `Replay` computes just these is induction over the capture, from a least counterexample.

`StorageProofs` proves, for every day length, retention policy and clock bound:

* `PruneSafe`: `Spec => PrunedWhileArchived`, an action property.
* `TypeCorrect`: `Spec => []TypeOK`; every recorded range lies within its day.
* `ArchiveComplete`: `Spec => []AgedArchived`, and `RollupsComplete`: `Spec => []AgedInRollups`.

The argument: `RowsInv` says that a verified row either still describes its file or is
*shorter* than the range the present cutoff demands, in which case the next run must
write the file again; `ProgressInv` says that when pruning begins every day's range is held by
its file, because each day was skipped for a good reason or rewritten by this run, and
that pruning a recorded range stays within it. Both need the facts about days and
cutoffs proved first (`DayBounds`, `DayOrder`, `RangeEndBounds`) and `PastInv`: new samples are never aged. `PastInv` and
`RollupsInv` (each tier rebuilt so far in this run represents the rows of its age) give the two completeness theorems.

`TelemetryProofs` proves of the tables, for every set of devices, readings, day length, zone and page depth:

* `StatusCorrect`: `Spec => []StatusTells`;
* `RetainedDaysCorrect`: `Spec => []RetainedDaysTrue`.

Neither property is inductive. `PastInv` adds that everything written is older than now: a sample
saved now is then newer than any `last_seen`, an error newer than those before it (`StatusNext`, with one step for each writer of a
device row), and the sample falls on no day that was over when a record was
filed (`LocalDayMonotone`: the calendar never runs backwards). `FetchInv` adds that the page under
way was rendered no later than today, so a column that its own date calls over is over. `DailyInv` is
the second property with the time each record was retrieved at, which is not after now: a sample saved later
falls on that day or a later one, never on the record's.

* `QueriesTellTheSame`: `Spec => [](FewSamples => QueriesAgree)`.

`StoreInv` (`PastInv` with `SampleInv`: no two samples of one instant, every reading one its device can give) is all the queries and the views
need of the tables; the rest is about the operators. A query's order is a CHOOSE by place, so `PlaceIn` and `ByPlace` are proved
to be a bijection first (`RowsInOrder`), and that dropping rows keeps the order. A sum over a set is a fold: `TotalRemove` takes one
term from it, `SetInduction` is induction over a finite set, proved from a least counterexample because the library's induction theorems
cannot be instantiated. `CountByKey` then says that how many there are of each key adds up to how many there are, which gives the
buckets of a register (keys: cells), its statistics (keys: kinds) and a controller (keys: devices). The series of a register is a recursive function
of the length of the answer, followed place by place (`PointsOfRows`). `FewSamples` says that one page of 5000 samples holds them all: the page
is cut without notice, so a device list and a summary differ beyond it.

* `AnalyticsTellTheSame`: `Spec => []AnalyticsAgree`.

`DayTable` (each record is of a calendar day, and they are finitely many) is what coverage, gaps and energy need beside `StoreInv`. A gap is a
run of consecutive days of one status: each day that is not live lies in the run of exactly one first day (`RunExists`, `RunUnique`), so the
lengths of the gaps of a status add up to the days of it (`GapDays`, by `CountByKey` with the gaps as keys). The readings of a day lie in the order of time; the times between
neighbours telescope to the time between the first and the last (`Telescope`), and a pair that is joined adds at most `MaxGap` at the highest
value. Powers may be negative; `EnergyAssumption` says that `MaxGap` is a natural number.

`ViewProofs` proves of the views and the forecasts, for every system, metric table and reading:

* `EventsTellCourse`: `Spec => [](FewRows => EventsChain)`, and `TransitionsTellCourse`: its first part without the condition.
* `HealthAndEventsAgree`: `Spec => [](FewRows => HealthTold)`.
* `MetricsAreRows`: `Spec => []MetricsFollowRows`.
* `ConflictsNeverResolved`: `Spec => []ConflictsStay`.
* `DevicesAreOneComponent`: `SerialsIdentify => (Spec => [](ReportedOnce => OneComponentPerDevice))`.
* `ForecastsKnowNoFuture`: `Spec => []NoHindsight`.

`FewRows` says that the events query, which reads the newest 1000 state rows for one event, reads them all: what it does not read it does
not tell. `SerialsIdentify` (no two controllers have one serial number) and `ReportedOnce` (no two gateways report one device that is not polled)
exclude what section 3 lists. The rows of one register of a controller are a *course*, in which no two have one instant (`SampleInv`); a transition is
a row that differs from the newest before it, and by induction over the times the last transition ends with the newest value. A mean lies between the lowest
and the highest of its rows (`TotalBounds`). For `ConflictsStay`, an unknown quantity is followed through every derivation of the flow and the ledger.
For `NoHindsight`, each quantity a forecast reads is shown to be the same over the rows before the training day alone.

The conjuncts of every inductive invariant were model-checked before they were proved. The assumptions
are the named ASSUMEs of the modules, which TLC evaluates for each instance; `RegisterAssumption` and `MetricAssumption` say that registers are
distinct, that the readings of a device are of registers of the database, and that a metric names its aliases once.
Records are written out where `@@` would be shorter, and `PointsOf` is a recursive function rather than `SelectSeq`: the prover cannot look into either.

Only model-checked:

* `StopEndsRun`, `PresentGetsPolled`, `IncidentsSettle`, `RowsKeepComing`, `CalibrationEnds`, `WaitsEnd`: liveness
  is out of the prover's reach.
* `ScopesCurrent` beside readers: `ScopesResolve` has the watcher alone. A reader that wakes up with an old snapshot
  may set `current` back to the identity it had read, until the next synchronisation.

## 6. Not modelled

* Contents of telemetry beyond number, text and null; names, addresses, evidence confidence, formatting, logging.
* SQLite itself: a transaction is atomic and a committed one survives a kill; a lock
  timeout is one of the failing writes.
* A second registering process (`benchmark-polling` beside the watcher) and two overlapping maintenance runs; both are listed as hazards.
* Bytes on the wire: CRC, PDU and MBAP layout; device identification parsing.
* Reads that repeat modelled ones in another layout: `topology`, `energy`, `polling_history`, `polling_summary`, lists of
  incidents, events and devices. Bulk and paging of the HTTP API.
* Discovery's probing, the catalog's tables and scaling formulas, SNMP, device intelligence and the offline
  document tooling: I/O or data without protocol.
* Floating point: powers and energies are integers in the instances; rounding is out of the model.

## 7. Plan

Done: everything section 2 lists. What a continuation would take up, in this order:

1. A second registering process and overlapping maintenance runs.
2. The composition of `StorageMaintenance` with `TelemetryStore`, where pruning meets the counts of a sync.
