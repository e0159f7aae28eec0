------------------------------ MODULE Watcher ------------------------------
(***************************************************************************)
(* The continuous discovery/polling loop (runtime/watcher.py, class        *)
(* Watcher): one asyncio task that refreshes the set of controllers, polls *)
(* the selected endpoint of every present controller in concurrent         *)
(* subtasks, sleeps and repeats; background retained-history tasks; and    *)
(* stop(), which a signal may run concurrently with all of it and which    *)
(* run() itself executes on the way out.                                   *)
(*                                                                         *)
(* An action is the code between two awaits at which another task can      *)
(* observe or change what the step touches.                                *)
(*                                                                         *)
(* controller_id here is the immutable UID ControllerRegistry resolves an  *)
(* observation to; the resolution itself (which endpoint belongs to whom)  *)
(* is an input: Home.  A controller has one canonical device row.          *)
(***************************************************************************)
EXTENDS DeviceLifecycle, FiniteSets

CONSTANTS
  Controllers,          \* controller UIDs
  Keys,                 \* Endpoint.stable_key values
  Paths,                \* concrete locators a stable key may stand for
  Home,                 \* key -> controllers the registry may resolve it to
  Preference,           \* key -> rank, the order of _endpoint_preference
  None,                 \* an absent dictionary entry
  Supported,            \* controllers whose retained history can be read
  BackfillOnStartup,    \* backfill.on_startup
  BackfillOnReconnect,  \* backfill.on_reconnect
  DiscoveryInterval,    \* watch.discovery_interval_seconds, in time units
  MaxElapsed,           \* BOUND: longest time between two loop iterations
  RefreshFaults,        \* may an unguarded await of a refresh raise?
  WriteFaults,          \* may a guarded database write fail?
  Signals,              \* may SIGINT/SIGTERM start a concurrent stop()?
  MaxCrashes            \* BOUND: process kills

ASSUME WatcherAssumption ==
  /\ Home \in [Keys -> SUBSET Controllers]
  /\ Preference \in [Keys -> Nat]
  /\ \A k, l \in Keys : Preference[k] = Preference[l] => k = l
  /\ Supported \subseteq Controllers
  /\ {BackfillOnStartup, BackfillOnReconnect} \subseteq BOOLEAN
  /\ {RefreshFaults, WriteFaults, Signals} \subseteq BOOLEAN
  /\ DiscoveryInterval \in Nat \ {0} /\ MaxElapsed \in Nat \ {0}
  /\ MaxCrashes \in Nat
  /\ None \notin Keys \cup Paths \cup Lifecycle
  /\ None \notin [uid : Controllers, key : Keys, path : Paths]
  /\ None \notin [uid : Controllers, path : Paths]

Sighting == [uid : Controllers, key : Keys, path : Paths]
Binding == [uid : Controllers, path : Paths]

\* One discovery result: discover() merges by stable_key.
Discoveries ==
  {S \in SUBSET {s \in Sighting : s.uid \in Home[s.key]} :
     \A s, t \in S : s.key = t.key => s = t}

VARIABLES
  pc,             \* where run() is
  stopping,       \* _stopping
  nextDiscovery,  \* time until next_discovery
  sightings,      \* the result of this refresh's discover()
  unregistered,   \* sightings not yet given to register_observation
  selected,       \* controller -> its selected sighting in this refresh
  toMiss,         \* controllers of the missing loop still to process
  toBind,         \* controllers of the selected loop still to process
  present,        \* _present_controller_ids
  presentKeys,    \* _present_keys
  controllerKey,  \* _controller_keys (same domain as _canonical_device_ids)
  bound,          \* _devices, _device_ids, _controller_ids: key -> entry
  lifecycles,     \* _lifecycles
  clients,        \* _clients: key -> the locator the client talks to
  polls,          \* key -> its _poll_one task
  attempted,      \* _history_attempted_controllers
  backfills,      \* live history tasks: who holds a reference to each
  stops,          \* the stop() calls
  status,         \* devices.status of the canonical row
  active,         \* controller_connections rows with active=1
  crashes

volatile == <<pc, stopping, nextDiscovery, sightings, unregistered, selected,
              toMiss, toBind, present, presentKeys, controllerKey, bound,
              lifecycles, clients, polls, attempted, backfills, stops>>
vars == <<volatile, status, active, crashes>>

refreshVars == <<sightings, unregistered, selected, toMiss, toBind>>
mapVars == <<present, presentKeys, controllerKey, bound>>
historyVars == <<attempted, backfills>>
dbVars == <<status, active>>

Stages == {"start", "top", "discovering", "registering", "missing", "binding",
           "dispatch", "polling", "final", "returned"}
Stoppers == {"signal", "finally"}
PollStages == {"idle", "created", "reading", "saving", "failing"}
StopStages == {"unused", "marking", "gathering", "closing", "done"}

Idle == [stage |-> "idle", reconnected |-> FALSE]
Unused == [stage |-> "unused", todo |-> {}]
PollAt(stage, reconnected) == [stage |-> stage, reconnected |-> reconnected]
StopAt(stage, todo) == [stage |-> stage, todo |-> todo]

\* Outside these stages a refresh is rewriting the maps.
Settled == pc \in {"top", "dispatch", "polling"}
Known == {u \in Controllers : controllerKey[u] # None}
Presented == {"online", "error"}   \* what the API may report as current

----------------------------------------------------------------------------
\* An empty database; earlier daemon sessions are reached through Crash.
Init ==
  /\ pc = "start" /\ stopping = FALSE /\ nextDiscovery = 0
  /\ sightings = {} /\ unregistered = {}
  /\ selected = [u \in Controllers |-> None] /\ toMiss = {} /\ toBind = {}
  /\ present = {} /\ presentKeys = {}
  /\ controllerKey = [u \in Controllers |-> None]
  /\ bound = [k \in Keys |-> None]
  /\ lifecycles = [k \in Keys |-> None]
  /\ clients = [k \in Keys |-> None]
  /\ polls = [k \in Keys |-> Idle]
  /\ attempted = {} /\ backfills = {}
  /\ stops = [s \in Stoppers |-> Unused]
  /\ status = [u \in Controllers |-> "none"]
  /\ active = {}
  /\ crashes = 0

\* mark_all_offline, and a version that forgets the rows left in error.
OfflineUnlessError(s) == IF s = "online" THEN "offline" ELSE s
AtStartup(s) == IF s \in Presented THEN "offline" ELSE s

\* run() up to the loop: the stores are initialised, then mark_all_offline.
Start ==
  /\ pc = "start"
  /\ pc' = "top"
  /\ status' = [u \in Controllers |-> AtStartup(status[u])]
  /\ active' = {}
  /\ UNCHANGED <<stopping, nextDiscovery, refreshVars, mapVars, lifecycles,
                 clients, polls, historyVars, stops, crashes>>

\* The loop condition, and a loop that does not look at _stopping.
LoopForever == TRUE
KeepRunning == ~stopping

LeaveLoop ==
  /\ pc = "top" /\ ~KeepRunning
  /\ pc' = "final"
  /\ UNCHANGED <<stopping, nextDiscovery, refreshVars, mapVars, lifecycles,
                 clients, polls, historyVars, stops, dbVars, crashes>>

----------------------------------------------------------------------------
(* _refresh_devices *)

BeginRefresh ==
  /\ pc = "top" /\ KeepRunning /\ nextDiscovery = 0
  /\ pc' = "discovering"
  /\ UNCHANGED <<stopping, nextDiscovery, refreshVars, mapVars, lifecycles,
                 clients, polls, historyVars, stops, dbVars, crashes>>

Discover(S) ==
  /\ pc = "discovering"
  /\ sightings' = S /\ unregistered' = S
  /\ pc' = "registering"
  /\ UNCHANGED <<stopping, nextDiscovery, selected, toMiss, toBind, mapVars,
                 lifecycles, clients, polls, historyVars, stops, dbVars, crashes>>

\* register_observation commits the device row and the connection row.
Register(s) ==
  /\ pc = "registering" /\ s \in unregistered
  /\ unregistered' = unregistered \ {s}
  /\ status' = [status EXCEPT ![s.uid] = "online"]
  /\ active' = active \cup {<<s.uid, s.key>>}
  /\ UNCHANGED <<pc, stopping, nextDiscovery, sightings, selected, toMiss,
                 toBind, mapVars, lifecycles, clients, polls, historyVars,
                 stops, crashes>>

\* The endpoint kept for u: the current one while it is still seen,
\* otherwise the preferred one.
Choice(u) ==
  LET candidates == {s \in sightings : s.uid = u}
      current == {s \in candidates : s.key = controllerKey[u]}
  IN  IF candidates = {} THEN None
      ELSE IF current # {} THEN CHOOSE s \in current : TRUE
      ELSE CHOOSE s \in candidates :
             \A t \in candidates : Preference[s.key] <= Preference[t.key]

\* reconcile_presence clears active everywhere, then sets it on the selected
\* connections; a version that forgets the first half.
AddedConnections(sel) ==
  active \cup {<<u, sel[u].key>> : u \in {v \in Controllers : sel[v] # None}}
SelectedConnections(sel) ==
  {<<u, sel[u].key>> : u \in {v \in Controllers : sel[v] # None}}

Reconcile ==
  /\ pc = "registering" /\ unregistered = {}
  /\ selected' = [u \in Controllers |-> Choice(u)]
  /\ active' = SelectedConnections(selected')
  /\ toMiss' = {u \in present : selected'[u] = None}
  /\ toBind' = {u \in Controllers : selected'[u] # None}
  /\ pc' = "missing"
  /\ UNCHANGED <<stopping, nextDiscovery, sightings, unregistered, mapVars,
                 lifecycles, clients, polls, historyVars, stops, status, crashes>>

LifecycleAt(k) == IF lifecycles[k] = None THEN FreshLifecycle ELSE lifecycles[k]

\* A guarded database write: it commits, or (WriteFaults) it fails and is logged.
SetStatus(u, s) ==
  \/ status' = [status EXCEPT ![u] = s]
  \/ WriteFaults /\ UNCHANGED status

\* One controller of the missing loop: every present controller has a key.
MarkAbsent(u) ==
  /\ pc = "missing" /\ u \in toMiss
  /\ toMiss' = toMiss \ {u}
  /\ LET k == controllerKey[u] IN
       /\ lifecycles' = [lifecycles EXCEPT ![k] = MarkMissing(LifecycleAt(k))]
       /\ clients' = [clients EXCEPT ![k] = None]
  /\ SetStatus(u, "offline")
  /\ UNCHANGED <<pc, stopping, nextDiscovery, sightings, unregistered, selected,
                 toBind, mapVars, polls, historyVars, stops, active, crashes>>

BeginBinding ==
  /\ pc = "missing" /\ toMiss = {}
  /\ pc' = "binding"
  /\ UNCHANGED <<stopping, nextDiscovery, refreshVars, mapVars, lifecycles,
                 clients, polls, historyVars, stops, dbVars, crashes>>

\* The keys a controller leaves when it is bound to key.
LeftKeys(u, key) ==
  IF controllerKey[u] = None THEN {} ELSE {controllerKey[u]} \ {key}

\* The lifecycle that continues at key; a version that starts a new one there.
LifecycleOfKey(u, key) == LifecycleAt(key)
LifecycleOf(u, key) ==
  IF LeftKeys(u, key) # {} THEN LifecycleAt(controllerKey[u]) ELSE LifecycleAt(key)

EndpointMoved(u, key, path) ==
  LeftKeys(u, key) # {} \/ (bound[key] # None /\ bound[key].path # path)

\* The keys whose client is closed; a version that only looks at the key.
ClosedWithKey(u, key, path) == LeftKeys(u, key)
ClosedKeys(u, key, path) ==
  LeftKeys(u, key) \cup
    (IF EndpointMoved(u, key, path) /\ controllerKey[u] = key THEN {key} ELSE {})

\* One controller of the selected loop.  Its lifecycle and client are taken
\* from its previous key; what was kept under a key it left is dropped, and a
\* client is closed when its key now stands for another locator.
Bind(u) ==
  LET key == selected[u].key
      path == selected[u].path
  IN
  /\ pc = "binding" /\ u \in toBind
  /\ toBind' = toBind \ {u}
  /\ lifecycles' = [k \in Keys |->
       IF k = key THEN MarkDiscovered(LifecycleOf(u, key))
       ELSE IF k \in LeftKeys(u, key) THEN None ELSE lifecycles[k]]
  /\ clients' = [k \in Keys |-> IF k \in ClosedKeys(u, key, path) THEN None
                                ELSE clients[k]]
  /\ bound' = [k \in Keys |->
       IF k = key THEN [uid |-> u, path |-> path]
       ELSE IF k \in LeftKeys(u, key) THEN None ELSE bound[k]]
  /\ controllerKey' = [controllerKey EXCEPT ![u] = key]
  /\ UNCHANGED <<pc, stopping, nextDiscovery, sightings, unregistered, selected,
                 toMiss, present, presentKeys, polls, historyVars, stops,
                 dbVars, crashes>>

\* The keys to poll: the selected ones; a version that keeps every key seen.
SightedKeys(P) == {s.key : s \in {t \in sightings : t.uid \in P}}
SelectedKeys(P) == {selected[u].key : u \in P}

EndRefresh ==
  /\ pc = "binding" /\ toBind = {}
  /\ present' = {u \in Controllers : selected[u] # None}
  /\ presentKeys' = SelectedKeys(present')
  /\ nextDiscovery' = DiscoveryInterval
  /\ pc' = "dispatch"
  /\ sightings' = {} /\ selected' = [u \in Controllers |-> None]
  /\ UNCHANGED <<stopping, unregistered, toMiss, toBind, controllerKey, bound,
                 lifecycles, clients, polls, historyVars, stops, dbVars, crashes>>

\* discover, register_observation, reconcile_presence and
\* save_device_intelligence are not guarded: an exception leaves run().
RefreshFails ==
  /\ RefreshFaults
  /\ pc \in {"discovering", "registering", "binding"}
  /\ pc' = "final"
  /\ UNCHANGED <<stopping, nextDiscovery, refreshVars, mapVars, lifecycles,
                 clients, polls, historyVars, stops, dbVars, crashes>>

----------------------------------------------------------------------------
(* _poll_all and _poll_one *)

Pollable(k) ==
  /\ k \in presentKeys /\ bound[k] # None
  /\ CanPoll(LifecycleAt(k))

BeginPolls ==
  /\ \/ pc = "dispatch"
     \/ pc = "top" /\ KeepRunning /\ nextDiscovery > 0
  /\ pc' = "polling"
  /\ lifecycles' = [k \in Keys |-> IF k \in presentKeys THEN LifecycleAt(k)
                                   ELSE lifecycles[k]]
  /\ polls' = [k \in Keys |-> IF Pollable(k) THEN PollAt("created", FALSE)
                              ELSE Idle]
  /\ UNCHANGED <<stopping, nextDiscovery, refreshVars, mapVars, clients,
                 historyVars, stops, dbVars, crashes>>

StartPoll(k) ==
  /\ polls[k].stage = "created"
  /\ polls' = [polls EXCEPT ![k] =
                 PollAt("reading", WouldReconnect(lifecycles[k]))]
  /\ lifecycles' = [lifecycles EXCEPT ![k] = MarkConnecting(@)]
  /\ clients' = [clients EXCEPT ![k] = IF @ = None THEN bound[k].path ELSE @]
  /\ UNCHANGED <<pc, stopping, nextDiscovery, refreshVars, mapVars, historyVars,
                 stops, dbVars, crashes>>

HeldTask(u) == [uid |-> u, holder |-> "watcher"]

\* should_sync, and a version without the initial sync.
SyncOnReconnect(u, reconnected) == reconnected /\ BackfillOnReconnect
ShouldSync(u, reconnected) ==
  \/ u \notin attempted /\ BackfillOnStartup
  \/ reconnected /\ BackfillOnReconnect

\* _schedule_history_backfill: no second task while one is held.
ScheduleBackfill(u, reconnected) ==
  IF u \in Supported /\ ShouldSync(u, reconnected) /\ HeldTask(u) \notin backfills
  THEN /\ attempted' = attempted \cup {u}
       /\ backfills' = backfills \cup {HeldTask(u)}
  ELSE UNCHANGED historyVars

\* The poll succeeds; the persistence limiter (a clock) says whether to save.
PollSucceeds(k, persist) ==
  /\ polls[k].stage = "reading"
  /\ lifecycles' = [lifecycles EXCEPT ![k] = MarkSuccess(@)]
  /\ IF persist
     THEN /\ polls' = [polls EXCEPT ![k] = PollAt("saving", polls[k].reconnected)]
          /\ UNCHANGED historyVars
     ELSE /\ polls' = [polls EXCEPT ![k] = Idle]
          /\ ScheduleBackfill(bound[k].uid, polls[k].reconnected)
  /\ UNCHANGED <<pc, stopping, nextDiscovery, refreshVars, mapVars, clients,
                 stops, dbVars, crashes>>

\* _persist_success: record_success only follows a saved poll.
SaveSuccess(k) ==
  LET u == bound[k].uid IN
  /\ polls[k].stage = "saving"
  /\ polls' = [polls EXCEPT ![k] = Idle]
  /\ \/ /\ status' = [status EXCEPT ![u] = "online"]
        /\ active' = active \cup {<<u, k>>}
     \/ WriteFaults /\ UNCHANGED dbVars
  /\ ScheduleBackfill(u, polls[k].reconnected)
  /\ UNCHANGED <<pc, stopping, nextDiscovery, refreshVars, mapVars, lifecycles,
                 clients, stops, crashes>>

PollFails(k, persist) ==
  /\ polls[k].stage = "reading"
  /\ ~BackoffOverflows(lifecycles[k])
  /\ lifecycles' = [lifecycles EXCEPT ![k] = MarkFailure(@)]
  /\ clients' = [clients EXCEPT ![k] = None]
  /\ polls' = [polls EXCEPT ![k] = IF persist
                                   THEN PollAt("failing", polls[k].reconnected)
                                   ELSE Idle]
  /\ UNCHANGED <<pc, stopping, nextDiscovery, refreshVars, mapVars, historyVars,
                 stops, dbVars, crashes>>

SaveFailure(k) ==
  /\ polls[k].stage = "failing"
  /\ polls' = [polls EXCEPT ![k] = Idle]
  /\ SetStatus(bound[k].uid, "error")
  /\ UNCHANGED <<pc, stopping, nextDiscovery, refreshVars, mapVars, lifecycles,
                 clients, historyVars, stops, active, crashes>>

\* mark_failure raises inside the handler: the task group cancels the other
\* polls and the exception leaves run().
PollRaises(k) ==
  /\ polls[k].stage = "reading"
  /\ BackoffOverflows(lifecycles[k])
  /\ polls' = [l \in Keys |-> Idle]
  /\ pc' = "final"
  /\ UNCHANGED <<stopping, nextDiscovery, refreshVars, mapVars, lifecycles,
                 clients, historyVars, stops, dbVars, crashes>>

\* The task group is done; the loop waits and d time units have passed since
\* its last iteration.
Sleep(d) ==
  /\ pc = "polling" /\ \A k \in Keys : polls[k] = Idle
  /\ pc' = "top"
  /\ nextDiscovery' = IF nextDiscovery > d THEN nextDiscovery - d ELSE 0
  /\ lifecycles' = [k \in Keys |-> IF lifecycles[k] = None THEN None
                                   ELSE Elapse(lifecycles[k], d)]
  /\ UNCHANGED <<stopping, refreshVars, mapVars, clients, polls, historyVars,
                 stops, dbVars, crashes>>

\* _backfill_history ends, by itself or cancelled, and drops its own entry.
FinishBackfill(b) ==
  /\ b \in backfills
  /\ backfills' = backfills \ {b}
  /\ UNCHANGED <<pc, stopping, nextDiscovery, refreshVars, mapVars, lifecycles,
                 clients, polls, attempted, stops, dbVars, crashes>>

----------------------------------------------------------------------------
(* stop(), called by the signal handler or by the end of run() *)

BeginStop(s) ==
  /\ stops[s].stage = "unused"
  /\ \/ s = "signal" /\ Signals /\ pc # "returned"
     \/ s = "finally" /\ pc = "final"
  /\ stopping' = TRUE
  /\ stops' = [stops EXCEPT ![s] = StopAt("marking", Known)]
  /\ UNCHANGED <<pc, nextDiscovery, refreshVars, mapVars, lifecycles, clients,
                 polls, historyVars, dbVars, crashes>>

StopMarks(s, u) ==
  /\ stops[s].stage = "marking" /\ u \in stops[s].todo
  /\ stops' = [stops EXCEPT ![s] = StopAt("marking", stops[s].todo \ {u})]
  /\ SetStatus(u, "offline")
  /\ UNCHANGED <<pc, stopping, nextDiscovery, refreshVars, mapVars, lifecycles,
                 clients, polls, historyVars, active, crashes>>

\* stop() cancels the task it takes out of the dictionary, and a version that
\* only clears the dictionary.
Dropped(b, s) == IF b.holder = "watcher" THEN [b EXCEPT !.holder = "nobody"] ELSE b
Taken(b, s) == IF b.holder = "watcher" THEN [b EXCEPT !.holder = s] ELSE b

\* The tasks and clients are taken out of the dictionaries and the tasks are
\* cancelled, without an await in between.
StopTakes(s) ==
  /\ stops[s].stage = "marking" /\ stops[s].todo = {}
  /\ backfills' = {Taken(b, s) : b \in backfills}
  /\ clients' = [k \in Keys |-> None]
  /\ stops' = [stops EXCEPT ![s] = StopAt("gathering", {})]
  /\ UNCHANGED <<pc, stopping, nextDiscovery, refreshVars, mapVars, lifecycles,
                 polls, attempted, dbVars, crashes>>

StopGathers(s) ==
  /\ stops[s].stage = "gathering"
  /\ \A b \in backfills : b.holder # s
  /\ stops' = [stops EXCEPT ![s] = StopAt("closing", {})]
  /\ UNCHANGED <<pc, stopping, nextDiscovery, refreshVars, mapVars, lifecycles,
                 clients, polls, historyVars, dbVars, crashes>>

StopCloses(s) ==
  /\ stops[s].stage = "closing"
  /\ stops' = [stops EXCEPT ![s] = StopAt("done", {})]
  /\ pc' = IF s = "finally" THEN "returned" ELSE pc
  /\ UNCHANGED <<stopping, nextDiscovery, refreshVars, mapVars, lifecycles,
                 clients, polls, historyVars, dbVars, crashes>>

\* The process is killed and started again: only the database survives.
Crash ==
  /\ crashes < MaxCrashes
  /\ crashes' = crashes + 1
  /\ pc' = "start" /\ stopping' = FALSE /\ nextDiscovery' = 0
  /\ sightings' = {} /\ unregistered' = {}
  /\ selected' = [u \in Controllers |-> None] /\ toMiss' = {} /\ toBind' = {}
  /\ present' = {} /\ presentKeys' = {}
  /\ controllerKey' = [u \in Controllers |-> None]
  /\ bound' = [k \in Keys |-> None]
  /\ lifecycles' = [k \in Keys |-> None]
  /\ clients' = [k \in Keys |-> None]
  /\ polls' = [k \in Keys |-> Idle]
  /\ attempted' = {} /\ backfills' = {}
  /\ stops' = [s \in Stoppers |-> Unused]
  /\ UNCHANGED dbVars

\* The process has ended.
Ended ==
  /\ pc = "returned" /\ \A s \in Stoppers : stops[s].stage \in {"unused", "done"}
  /\ backfills = {}
  /\ UNCHANGED vars

----------------------------------------------------------------------------
Refresh ==
  \/ BeginRefresh \/ Reconcile \/ BeginBinding \/ EndRefresh
  \/ \E S \in Discoveries : Discover(S)
  \/ \E s \in Sighting : Register(s)
  \/ \E u \in Controllers : MarkAbsent(u) \/ Bind(u)

Poll(k) ==
  \/ StartPoll(k) \/ SaveSuccess(k) \/ SaveFailure(k) \/ PollRaises(k)
  \/ \E persist \in BOOLEAN : PollSucceeds(k, persist) \/ PollFails(k, persist)

Loop ==
  Start \/ LeaveLoop \/ Refresh \/ BeginPolls \/ (\E d \in 1 .. MaxElapsed : Sleep(d))

BackfillTask == [uid : Controllers, holder : Stoppers \cup {"watcher", "nobody"}]

Stop(s) ==
  \/ StopTakes(s) \/ StopGathers(s) \/ StopCloses(s)
  \/ \E u \in Controllers : StopMarks(s, u)

Next ==
  \/ Loop \/ RefreshFails \/ Crash \/ Ended
  \/ \E k \in Keys : Poll(k)
  \/ \E b \in BackfillTask : FinishBackfill(b)
  \/ \E s \in Stoppers : BeginStop(s) \/ Stop(s)

\* The event loop runs what is ready; every Modbus request, HTTP fetch and
\* database call is under a timeout, so a started poll, backfill or stop ends.
Fairness ==
  /\ WF_vars(Loop)
  /\ \A k \in Keys : WF_vars(Poll(k))
  /\ \A b \in BackfillTask : WF_vars(FinishBackfill(b))
  /\ \A s \in Stoppers : WF_vars(Stop(s))
  /\ WF_vars(BeginStop("finally"))

Spec == Init /\ [][Next]_vars
FairSpec == Spec /\ Fairness

----------------------------------------------------------------------------
(* Properties *)

\* Every variable keeps the shape the watcher's dictionaries and the two
\* database columns have.
TypeOK ==
  /\ pc \in Stages /\ stopping \in BOOLEAN
  /\ nextDiscovery \in 0 .. DiscoveryInterval
  /\ sightings \subseteq Sighting /\ unregistered \subseteq Sighting
  /\ selected \in [Controllers -> Sighting \cup {None}]
  /\ toMiss \subseteq Controllers /\ toBind \subseteq Controllers
  /\ present \subseteq Controllers /\ presentKeys \subseteq Keys
  /\ controllerKey \in [Controllers -> Keys \cup {None}]
  /\ bound \in [Keys -> Binding \cup {None}]
  /\ lifecycles \in [Keys -> Lifecycle \cup {None}]
  /\ clients \in [Keys -> Paths \cup {None}]
  /\ polls \in [Keys -> [stage : PollStages, reconnected : BOOLEAN]]
  /\ attempted \subseteq Controllers /\ backfills \subseteq BackfillTask
  /\ stops \in [Stoppers -> [stage : StopStages, todo : SUBSET Controllers]]
  /\ status \in [Controllers -> {"none", "online", "error", "offline"}]
  /\ active \subseteq Controllers \X Keys
  /\ crashes \in 0 .. MaxCrashes

\* No endpoint is ever resolved to two controllers: no address is handed over.
NoEndpointReuse == \A k \in Keys : \A u, v \in Home[k] : u = v

\* Between refreshes every present controller has one polling endpoint that is
\* its own: the keys _poll_all walks are exactly the present controllers' keys,
\* and what is stored under each belongs to that controller.
OneEndpointPerController ==
  Settled =>
    /\ presentKeys = {controllerKey[u] : u \in present}
    /\ \A u \in present : /\ bound[controllerKey[u]] # None
                          /\ bound[controllerKey[u]].uid = u

\* Stale-client cleanup: between refreshes a client is open only at an endpoint
\* that is polled, and it talks to the locator discovery last saw there.
StaleClientsClosed ==
  Settled => \A k \in Keys : clients[k] # None =>
               /\ k \in presentKeys /\ bound[k] # None
               /\ clients[k] = bound[k].path

\* What the API reads agrees with the watcher between refreshes: a present
\* controller's row is online or error, an absent one's never is (whatever an
\* earlier daemon session left there), unless the write that says so failed;
\* and the active connections are the selected ones.
PersistedPresence ==
  Settled /\ ~stopping =>
    /\ \A u \in present : status[u] \in Presented
    /\ WriteFaults \/ \A u \in Controllers \ present : status[u] \notin Presented
    /\ active = {<<u, controllerKey[u]>> : u \in present}

\* A controller that has been polled successfully had its initial retained
\* history sync attempted, however the poll was persisted.
HistoryAttempted ==
  pc = "top" /\ BackfillOnStartup =>
    \A u \in present \cap Supported :
      LifecycleAt(controllerKey[u]).state = "online" => u \in attempted

\* When run() has returned and no stop() is left running, no client is open, no
\* history task is alive and every controller the watcher knew is offline.
CleanShutdown ==
  pc = "returned" /\ (\A s \in Stoppers : stops[s].stage \in {"unused", "done"}) =>
    /\ \A k \in Keys : clients[k] = None
    /\ backfills = {}
    /\ WriteFaults \/ \A u \in Controllers : status[u] \notin Presented

\* Failed polls are handled inside the poll: only stop() ends the loop.
FailuresContained == pc = "final" => stopping

\* The session of each controller, whatever endpoint it is polled through.
Held(u) ==
  IF controllerKey[u] = None THEN FreshLifecycle ELSE LifecycleAt(controllerKey[u])
SessionFails == [u \in Controllers |-> Held(u).fails]
SessionDown == [u \in Controllers |-> Held(u).offline]

Session == INSTANCE ControllerSession WITH fails <- SessionFails, down <- SessionDown

\* The watcher implements ControllerSession: a lifecycle follows its controller
\* from endpoint to endpoint and no other controller touches it.
LifecycleFollowsController == Session!Spec

----------------------------------------------------------------------------
(* The inductive invariants behind the safety properties *)

\* Which variables a stage of the loop may rely on.
StageInv ==
  /\ present \subseteq Known /\ toMiss \subseteq present
  /\ pc = "registering" => unregistered \subseteq sightings
  /\ toMiss # {} => pc = "missing"
  /\ \A u \in toMiss : selected[u] = None
  /\ \A u \in toBind : selected[u] # None
  /\ \A k \in Keys : polls[k] # Idle =>
       /\ pc = "polling" /\ k \in presentKeys
       /\ bound[k] # None /\ lifecycles[k] # None
  /\ stops["finally"].stage \notin {"unused", "done"} => pc = "final"

\* Controllers and keys are matched one to one, also in the middle of a refresh.
OwnershipInv ==
  /\ \A s \in sightings : s.uid \in Home[s.key]
  /\ \A u \in Controllers : selected[u] # None =>
       selected[u].uid = u /\ u \in Home[selected[u].key]
  /\ \A u \in Known : /\ u \in Home[controllerKey[u]]
                      /\ bound[controllerKey[u]] # None
                      /\ bound[controllerKey[u]].uid = u
  /\ \A k \in Keys : bound[k] # None => controllerKey[bound[k].uid] = k

\* What the loop over the selected controllers has done so far.
BindingInv ==
  /\ Settled \/ pc = "start" => presentKeys = {controllerKey[u] : u \in present}
  /\ pc = "binding" => \A u \in Controllers \ toBind :
       selected[u] # None => controllerKey[u] = selected[u].key
  /\ pc = "missing" => toBind = {u \in Controllers : selected[u] # None}

\* An open client belongs to a controller that is present or being processed.
ClientInv ==
  \A k \in Keys : clients[k] # None =>
    /\ bound[k] # None /\ clients[k] = bound[k].path
    /\ bound[k].uid \in present
    /\ pc \in {"missing", "binding"} =>
         bound[k].uid \in toMiss \/ selected[bound[k].uid] # None

IInv == TypeOK /\ StageInv /\ OwnershipInv /\ BindingInv /\ ClientInv

\* What the database says of presence, stage by stage, until a stop begins.
PresenceInv ==
  /\ pc = "start" => present = {}
  /\ ~stopping =>
       /\ \A s \in Stoppers : stops[s].stage = "unused"
       /\ pc \in {"top", "dispatch", "polling", "discovering"} =>
            /\ \A u \in present : status[u] \in Presented
            /\ WriteFaults \/ \A u \in Controllers \ present : status[u] \notin Presented
            /\ active = {<<u, controllerKey[u]>> : u \in present}
       /\ pc = "registering" =>
            /\ \A u \in present : status[u] \in Presented
            /\ \A s \in sightings \ unregistered : status[s.uid] \in Presented
            /\ WriteFaults \/ \A u \in Controllers \ present :
                 status[u] \in Presented => \E s \in sightings : s.uid = u
       /\ pc \in {"missing", "binding"} =>
            /\ \A u \in Controllers : selected[u] # None => status[u] \in Presented
            /\ WriteFaults \/ \A u \in Controllers \ toMiss :
                 selected[u] = None => status[u] \notin Presented
            /\ active = SelectedConnections(selected)

\* The initial history sync of a controller in service was attempted, or the
\* poll that will attempt it is being saved.
SyncInv ==
  /\ \A b \in backfills : b.holder = "watcher" => b.uid \in attempted
  /\ BackfillOnStartup /\ pc \notin {"final", "returned"} =>
       \A u \in Supported : Held(u).state = "online" =>
         \/ u \in attempted
         \/ polls[controllerKey[u]].stage = "saving"

\* Who holds what while stop() runs, and whom the database still presents.
ShutdownInv ==
  /\ pc = "returned" <=> stops["finally"].stage = "done"
  /\ stops["finally"].stage # "unused" => pc \in {"final", "returned"}
  /\ stops["finally"].todo # {} => stops["finally"].stage = "marking"
  /\ \A b \in backfills : b.holder # "watcher" =>
       b.holder \in Stoppers /\ stops[b.holder].stage = "gathering"
  /\ stops["finally"].stage \in {"gathering", "closing", "done"} =>
       /\ \A k \in Keys : clients[k] = None
       /\ \A b \in backfills : b.holder # "watcher"
  /\ \A k \in Keys : bound[k] # None => bound[k].uid \in Known

\* Without an exception in a refresh, only known controllers are presented once
\* the loop has ended, and stop() marks them.
PresentedInv ==
  /\ \A u \in Controllers : status[u] \in Presented /\ pc # "start" =>
       \/ u \in Known
       \/ pc = "registering" /\ \E s \in sightings : s.uid = u
       \/ pc \in {"missing", "binding"} /\ u \in toBind
  /\ WriteFaults \/ \A u \in Controllers :
       status[u] \in Presented /\ stops["finally"].stage # "unused"
         => u \in stops["finally"].todo

\* A requested stop ends the run (or the process is killed).
StopEndsRun == stopping ~> pc \in {"returned", "start"}

\* Backoff and discovery never starve a controller: one that stays present is
\* polled again.
PresentGetsPolled ==
  \A u \in Controllers :
    (u \in present /\ pc = "top") ~>
      \/ u \notin present \/ stopping \/ pc = "final"
      \/ polls[controllerKey[u]].stage = "reading"
=============================================================================
