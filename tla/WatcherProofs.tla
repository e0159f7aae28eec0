--------------------------- MODULE WatcherProofs ---------------------------
(***************************************************************************)
(* Proofs about Watcher for every set of controllers and endpoints and     *)
(* every value of the timing constants: first its invariants, then that it *)
(* implements ControllerSession.                                           *)
(***************************************************************************)
EXTENDS Watcher, WellFoundedInduction, TLAPS

----------------------------------------------------------------------------
(* The lifecycle functions stay within the lifecycle's shape. *)

\* A controller starts with a well-formed lifecycle.
LEMMA FreshLifecycleType == FreshLifecycle \in Lifecycle
BY LifecycleAssumption DEF FreshLifecycle, Lifecycle, LifecycleStates

\* The delay is the doubled one or the maximum, never more than the maximum.
LEMMA BackoffBounded == ASSUME NEW n \in Nat PROVE BackoffDelay(n) \in 0 .. MaxBackoff
BY LifecycleAssumption DEF BackoffDelay

\* mark_discovered keeps a lifecycle well-formed.
LEMMA MarkDiscoveredType ==
  ASSUME NEW l \in Lifecycle PROVE MarkDiscovered(l) \in Lifecycle
<1>1. StateWhenSeen(l.state) \in LifecycleStates
  BY DEF StateWhenSeen, LifecycleStates
<1> QED
  BY <1>1, LifecycleAssumption DEF MarkDiscovered, Lifecycle

\* mark_missing keeps a lifecycle well-formed.
LEMMA MarkMissingType ==
  ASSUME NEW l \in Lifecycle PROVE MarkMissing(l) \in Lifecycle
BY DEF MarkMissing, Lifecycle, LifecycleStates

\* mark_connecting keeps a lifecycle well-formed.
LEMMA MarkConnectingType ==
  ASSUME NEW l \in Lifecycle PROVE MarkConnecting(l) \in Lifecycle
BY DEF MarkConnecting, Lifecycle, LifecycleStates

\* mark_success keeps a lifecycle well-formed.
LEMMA MarkSuccessType ==
  ASSUME NEW l \in Lifecycle PROVE MarkSuccess(l) \in Lifecycle
BY LifecycleAssumption DEF MarkSuccess, Lifecycle, LifecycleStates

\* The failure count stays a natural number (and saturates in the model).
LEMMA CountFailureType ==
  ASSUME NEW n \in 0 .. FailCap PROVE CountFailure(n) \in 0 .. FailCap
BY LifecycleAssumption DEF CountFailure

\* mark_failure keeps a lifecycle well-formed.
LEMMA MarkFailureType ==
  ASSUME NEW l \in Lifecycle PROVE MarkFailure(l) \in Lifecycle
<1> DEFINE n == CountFailure(l.fails)
<1>1. n \in 0 .. FailCap
  BY CountFailureType DEF Lifecycle
<1>2. BackoffDelay(n) \in 0 .. MaxBackoff
  BY <1>1, BackoffBounded, LifecycleAssumption
<1>3. (l.offline \/ n >= FailureThreshold) \in BOOLEAN
  OBVIOUS
<1> HIDE DEF n
<1> QED
  BY <1>1, <1>2, <1>3 DEF MarkFailure, n, Lifecycle, LifecycleStates

\* Waiting never makes next_attempt_at negative.
LEMMA ElapseType ==
  ASSUME NEW l \in Lifecycle, NEW d \in 1 .. MaxElapsed
  PROVE  Elapse(l, d) \in Lifecycle
BY LifecycleAssumption DEF Elapse, Lifecycle

----------------------------------------------------------------------------
(* Type correctness *)

\* setdefault returns a well-formed lifecycle.
LEMMA LifecycleAtType ==
  ASSUME TypeOK, NEW k \in Keys PROVE LifecycleAt(k) \in Lifecycle
BY FreshLifecycleType DEF LifecycleAt, TypeOK

\* A non-empty set of naturals has a least element.
LEMMA NatSetHasLeast ==
  ASSUME NEW N \in SUBSET Nat, N # {}
  PROVE  \E m \in N : \A n \in N : m <= n
<1>1. IsWellFoundedOn(OpToRel(<, Nat), Nat)
  BY NatLessThanWellFounded
<1>2. PICK m \in N : \A n \in N : <<n, m>> \notin OpToRel(<, Nat)
  BY <1>1, WFMin
<1>3. \A n \in N : ~ (n < m)
  BY <1>2 DEF OpToRel
<1> QED
  BY <1>3

\* The endpoint selected for a controller is one it was sighted at, and a
\* controller that was sighted is selected.
LEMMA ChoiceSighted ==
  ASSUME TypeOK, NEW u \in Controllers, {s \in sightings : s.uid = u} # {}
  PROVE  Choice(u) \in {s \in sightings : s.uid = u}
<1> DEFINE candidates == {s \in sightings : s.uid = u}
           current == {s \in candidates : s.key = controllerKey[u]}
           Least(s) == \A t \in candidates : Preference[s.key] <= Preference[t.key]
           ranks == {Preference[s.key] : s \in candidates}
<1>1. CASE current # {}
  BY <1>1 DEF Choice
<1>2. CASE current = {}
  <2>1. ranks \subseteq Nat /\ ranks # {}
    BY WatcherAssumption DEF TypeOK, Sighting
  <2>2. PICK r \in ranks : \A n \in ranks : r <= n
    BY <2>1, NatSetHasLeast
  <2>3. \E s \in candidates : Least(s)
    BY <2>2
  <2>4. Choice(u) = CHOOSE s \in candidates : Least(s)
    BY <1>2 DEF Choice
  <2> QED
    BY <2>3, <2>4
<1> QED
  BY <1>1, <1>2

LEMMA ChoiceType ==
  ASSUME TypeOK, NEW u \in Controllers
  PROVE  /\ Choice(u) \in {s \in sightings : s.uid = u} \cup {None}
         /\ Choice(u) = None <=> {s \in sightings : s.uid = u} = {}
<1>1. CASE {s \in sightings : s.uid = u} = {}
  BY <1>1 DEF Choice
<1>2. CASE {s \in sightings : s.uid = u} # {}
  <2>1. Choice(u) \in Sighting
    BY <1>2, ChoiceSighted DEF TypeOK
  <2> QED
    BY <1>2, <2>1, ChoiceSighted, WatcherAssumption DEF Sighting
<1> QED
  BY <1>1, <1>2

\* Scheduling a backfill yields a well-formed set of tasks.
LEMMA BackfillType ==
  ASSUME TypeOK, NEW u \in Controllers, NEW r \in BOOLEAN, ScheduleBackfill(u, r)
  PROVE  attempted' \subseteq Controllers /\ backfills' \subseteq BackfillTask
BY DEF TypeOK, ScheduleBackfill, HeldTask, BackfillTask, historyVars

\* What the refresh works on is empty outside of it.
LEMMA IdleType ==
  /\ Idle \in [stage : PollStages, reconnected : BOOLEAN]
  /\ Unused \in [stage : StopStages, todo : SUBSET Controllers]
BY DEF Idle, Unused, PollStages, StopStages

\* The initial state is well-typed.
LEMMA TypeInit == Init => TypeOK
<1> SUFFICES ASSUME Init PROVE TypeOK
  OBVIOUS
<1> USE WatcherAssumption
<1>1. /\ selected \in [Controllers -> Sighting \cup {None}]
      /\ controllerKey \in [Controllers -> Keys \cup {None}]
  BY IdleType DEF Init
<1>2. /\ bound \in [Keys -> Binding \cup {None}]
      /\ lifecycles \in [Keys -> Lifecycle \cup {None}]
      /\ clients \in [Keys -> Paths \cup {None}]
  BY IdleType DEF Init
<1>3. /\ polls \in [Keys -> [stage : PollStages, reconnected : BOOLEAN]]
      /\ stops \in [Stoppers -> [stage : StopStages, todo : SUBSET Controllers]]
  BY IdleType DEF Init
<1>4. /\ pc \in Stages /\ stopping \in BOOLEAN
  BY DEF Init, Stages
<1>5. nextDiscovery \in 0 .. DiscoveryInterval
  BY DEF Init, Stages
<1>6. crashes \in 0 .. MaxCrashes
  BY DEF Init, Stages
<1>7. /\ sightings \subseteq Sighting /\ unregistered \subseteq Sighting
      /\ toMiss \subseteq Controllers /\ toBind \subseteq Controllers
      /\ present \subseteq Controllers /\ presentKeys \subseteq Keys
      /\ attempted \subseteq Controllers /\ backfills \subseteq BackfillTask
  BY DEF Init, Stages
<1>8. /\ status \in [Controllers -> {"none", "online", "error", "offline"}]
      /\ active \subseteq Controllers \X Keys
  BY DEF Init
<1> QED
  BY <1>1, <1>2, <1>3, <1>7, <1>8, <1>5, <1>6, <1>4
  DEF TypeOK

\* Every step keeps the state well-typed.
LEMMA TypeNext == TypeOK /\ StageInv /\ [Next]_vars => TypeOK'
<1> SUFFICES ASSUME TypeOK, StageInv, [Next]_vars PROVE TypeOK'
  OBVIOUS
<1> USE WatcherAssumption, LifecycleAssumption
      DEF refreshVars, mapVars, historyVars, dbVars
<1>1. CASE Start
  BY <1>1 DEF TypeOK, Start, AtStartup, Stages
<1>2. CASE LeaveLoop
  BY <1>2 DEF TypeOK, LeaveLoop, Stages
<1>3. CASE BeginRefresh
  BY <1>3 DEF TypeOK, BeginRefresh, Stages
<1>4. ASSUME NEW S \in Discoveries, Discover(S) PROVE TypeOK'
  BY <1>4 DEF TypeOK, Discover, Discoveries, Stages
<1>5. ASSUME NEW s \in Sighting, Register(s) PROVE TypeOK'
  BY <1>5 DEF TypeOK, Register, Sighting
<1>6. CASE Reconcile
  BY <1>6, ChoiceType DEF TypeOK, Reconcile, SelectedConnections, Stages, Sighting
<1>7. ASSUME NEW u \in Controllers, MarkAbsent(u) PROVE TypeOK'
  BY <1>7, LifecycleAtType, MarkMissingType
     DEF TypeOK, StageInv, MarkAbsent, SetStatus, Known
<1>8. CASE BeginBinding
  BY <1>8 DEF TypeOK, BeginBinding, Stages
<1>9. ASSUME NEW u \in Controllers, Bind(u) PROVE TypeOK'
  <2> DEFINE key == selected[u].key
             path == selected[u].path
  <2>1. /\ selected[u] \in Sighting /\ key \in Keys /\ path \in Paths
        /\ [uid |-> u, path |-> path] \in Binding
    BY <1>9 DEF TypeOK, StageInv, Bind, Sighting, Binding
  <2>2. LifecycleOf(u, key) \in Lifecycle
    BY <2>1, LifecycleAtType DEF LifecycleOf, LeftKeys, TypeOK
  <2>3. MarkDiscovered(LifecycleOf(u, key)) \in Lifecycle
    BY <2>2, MarkDiscoveredType
  <2>4. lifecycles' \in [Keys -> Lifecycle \cup {None}]
    BY <1>9, <2>3 DEF TypeOK, Bind
  <2>5. bound' \in [Keys -> Binding \cup {None}]
    BY <1>9, <2>1 DEF TypeOK, Bind
  <2>6. clients' \in [Keys -> Paths \cup {None}]
    BY <1>9, <2>1 DEF TypeOK, Bind
  <2>7. controllerKey' \in [Controllers -> Keys \cup {None}]
    BY <1>9, <2>1 DEF TypeOK, Bind
  <2>8. toBind' \subseteq Controllers
    BY <1>9 DEF TypeOK, Bind
  <2> QED
    BY <1>9, <2>4, <2>5, <2>6, <2>7, <2>8 DEF TypeOK, Bind
<1>10. CASE EndRefresh
  BY <1>10 DEF TypeOK, EndRefresh, SelectedKeys, Stages, Sighting
<1>11. CASE RefreshFails
  BY <1>11 DEF TypeOK, RefreshFails, Stages
<1>12. CASE BeginPolls
  BY <1>12, LifecycleAtType DEF TypeOK, BeginPolls, Stages, PollAt, Idle, PollStages
<1>13. ASSUME NEW k \in Keys, StartPoll(k) PROVE TypeOK'
  BY <1>13, MarkConnectingType
     DEF TypeOK, StageInv, StartPoll, Binding, Idle, PollAt, PollStages, WouldReconnect, Lifecycle
<1>14. ASSUME NEW k \in Keys, NEW p \in BOOLEAN, PollSucceeds(k, p) PROVE TypeOK'
  <2>1. bound[k] \in Binding /\ lifecycles[k] \in Lifecycle
    BY <1>14 DEF TypeOK, StageInv, PollSucceeds, Idle
  <2>2. MarkSuccess(lifecycles[k]) \in Lifecycle
    BY <2>1, MarkSuccessType
  <2>3. attempted' \subseteq Controllers /\ backfills' \subseteq BackfillTask
    BY <1>14, <2>1, BackfillType DEF TypeOK, PollSucceeds, Binding
  <2>4. polls' \in [Keys -> [stage : PollStages, reconnected : BOOLEAN]]
    <3>1. polls \in [Keys -> [stage : PollStages, reconnected : BOOLEAN]]
      BY DEF TypeOK
    <3>2. PollAt("saving", polls[k].reconnected) \in [stage : PollStages, reconnected : BOOLEAN]
      BY <3>1 DEF PollAt, PollStages
    <3>3. \/ polls' = [polls EXCEPT ![k] = Idle]
          \/ polls' = [polls EXCEPT ![k] = PollAt("saving", polls[k].reconnected)]
      BY <1>14 DEF PollSucceeds
    <3> QED
      BY <3>1, <3>2, <3>3, IdleType
  <2> QED
    BY <1>14, <2>2, <2>3, <2>4 DEF TypeOK, PollSucceeds
<1>15. ASSUME NEW k \in Keys, SaveSuccess(k) PROVE TypeOK'
  <2>1. bound[k] \in Binding
    BY <1>15 DEF TypeOK, StageInv, SaveSuccess, Idle
  <2>2. attempted' \subseteq Controllers /\ backfills' \subseteq BackfillTask
    BY <1>15, <2>1, BackfillType DEF TypeOK, SaveSuccess, Binding
  <2>3. status' \in [Controllers -> {"none", "online", "error", "offline"}]
    BY <1>15, <2>1 DEF TypeOK, SaveSuccess, Binding
  <2>4. active' \subseteq Controllers \X Keys
    BY <1>15, <2>1 DEF TypeOK, SaveSuccess, Binding
  <2> QED
    BY <1>15, <2>2, <2>3, <2>4, IdleType DEF TypeOK, SaveSuccess
<1>16. ASSUME NEW k \in Keys, NEW p \in BOOLEAN, PollFails(k, p) PROVE TypeOK'
  BY <1>16, MarkFailureType
     DEF TypeOK, StageInv, PollFails, PollAt, Idle, PollStages
<1>17. ASSUME NEW k \in Keys, SaveFailure(k) PROVE TypeOK'
  <2>1. bound[k].uid \in Controllers /\ Idle \in [stage : PollStages, reconnected : BOOLEAN]
    BY <1>17, IdleType DEF TypeOK, StageInv, SaveFailure, Idle, Binding
  <2>2. status' \in [Controllers -> {"none", "online", "error", "offline"}]
    BY <1>17, <2>1 DEF TypeOK, SaveFailure, SetStatus
  <2> QED
    BY <1>17, <2>1, <2>2 DEF TypeOK, SaveFailure
<1>18. ASSUME NEW k \in Keys, PollRaises(k) PROVE TypeOK'
  BY <1>18 DEF TypeOK, PollRaises, Stages, PollStages, Idle
<1>19. ASSUME NEW d \in 1 .. MaxElapsed, Sleep(d) PROVE TypeOK'
  BY <1>19, ElapseType DEF TypeOK, Sleep, Stages
<1>20. ASSUME NEW b \in BackfillTask, FinishBackfill(b) PROVE TypeOK'
  BY <1>20 DEF TypeOK, FinishBackfill
<1>21. ASSUME NEW s \in Stoppers, BeginStop(s) PROVE TypeOK'
  BY <1>21 DEF TypeOK, BeginStop, StopStages, StopAt, Known
<1>22. ASSUME NEW s \in Stoppers, NEW u \in Controllers, StopMarks(s, u) PROVE TypeOK'
  BY <1>22 DEF TypeOK, StopMarks, SetStatus, StopAt, StopStages
<1>23. ASSUME NEW s \in Stoppers, StopTakes(s) PROVE TypeOK'
  <2>1. \A b \in backfills : Taken(b, s) \in BackfillTask
    BY DEF TypeOK, Taken, BackfillTask
  <2> QED
    BY <1>23, <2>1 DEF TypeOK, StopTakes, StopAt, StopStages
<1>24. ASSUME NEW s \in Stoppers, StopGathers(s) PROVE TypeOK'
  BY <1>24 DEF TypeOK, StopGathers, StopAt, StopStages
<1>25. ASSUME NEW s \in Stoppers, StopCloses(s) PROVE TypeOK'
  BY <1>25 DEF TypeOK, StopCloses, StopAt, StopStages, Stages
<1>26. CASE Crash
  <2>1. /\ selected' \in [Controllers -> Sighting \cup {None}]
        /\ controllerKey' \in [Controllers -> Keys \cup {None}]
    BY <1>26, IdleType DEF Crash
  <2>2. /\ bound' \in [Keys -> Binding \cup {None}]
        /\ lifecycles' \in [Keys -> Lifecycle \cup {None}]
        /\ clients' \in [Keys -> Paths \cup {None}]
    BY <1>26, IdleType DEF Crash
  <2>3. /\ polls' \in [Keys -> [stage : PollStages, reconnected : BOOLEAN]]
        /\ stops' \in [Stoppers -> [stage : StopStages, todo : SUBSET Controllers]]
    BY <1>26, IdleType DEF Crash
  <2>4. /\ pc' \in Stages /\ stopping' \in BOOLEAN
    BY <1>26 DEF Crash, Stages, TypeOK
  <2>5. nextDiscovery' \in 0 .. DiscoveryInterval
    BY <1>26 DEF Crash, Stages, TypeOK
  <2>6. crashes' \in 0 .. MaxCrashes
    BY <1>26 DEF Crash, Stages, TypeOK
  <2>7. /\ sightings' \subseteq Sighting /\ unregistered' \subseteq Sighting
        /\ toMiss' \subseteq Controllers /\ toBind' \subseteq Controllers
        /\ present' \subseteq Controllers /\ presentKeys' \subseteq Keys
        /\ attempted' \subseteq Controllers /\ backfills' \subseteq BackfillTask
    BY <1>26 DEF Crash, Stages, TypeOK
  <2>8. /\ status' \in [Controllers -> {"none", "online", "error", "offline"}]
        /\ active' \subseteq Controllers \X Keys
    BY <1>26 DEF Crash, TypeOK
  <2> QED
    BY <2>1, <2>2, <2>3, <2>7, <2>8, <2>5, <2>6, <2>4
    DEF TypeOK
<1>27. CASE UNCHANGED vars
  BY <1>27 DEF TypeOK, vars, volatile
<1> QED
  BY <1>1, <1>2, <1>3, <1>4, <1>5, <1>6, <1>7, <1>8, <1>9, <1>10, <1>11, <1>12,
     <1>13, <1>14, <1>15, <1>16, <1>17, <1>18, <1>19, <1>20, <1>21, <1>22, <1>23,
     <1>24, <1>25, <1>26, <1>27
  DEF Next, Loop, Refresh, Poll, Stop, Ended

----------------------------------------------------------------------------
(* What the stages of the loop rely on *)

\* The initial state satisfies StageInv.
LEMMA StageInit == Init => StageInv
BY DEF Init, StageInv, Known, Unused, Stoppers

\* Every step keeps what holds at each stage of run() and stop().
LEMMA StageNext == TypeOK /\ StageInv /\ BindingInv /\ [Next]_vars => StageInv'
<1> SUFFICES ASSUME TypeOK, StageInv, BindingInv, [Next]_vars PROVE StageInv'
  OBVIOUS
<1> USE WatcherAssumption DEF TypeOK, refreshVars, mapVars, historyVars, dbVars, Known
<1>1. CASE Start
  BY <1>1 DEF StageInv, Start
<1>2. CASE LeaveLoop
  BY <1>2 DEF StageInv, LeaveLoop
<1>3. CASE BeginRefresh
  BY <1>3 DEF StageInv, BeginRefresh
<1>4. ASSUME NEW S \in Discoveries, Discover(S) PROVE StageInv'
  BY <1>4 DEF StageInv, Discover
<1>5. ASSUME NEW s \in Sighting, Register(s) PROVE StageInv'
  BY <1>5 DEF StageInv, Register
<1>6. CASE Reconcile
  BY <1>6 DEF StageInv, Reconcile
<1>7. ASSUME NEW u \in Controllers, MarkAbsent(u) PROVE StageInv'
  BY <1>7, LifecycleAtType DEF StageInv, MarkAbsent, Known
<1>8. CASE BeginBinding
  BY <1>8 DEF StageInv, BeginBinding
<1>9. ASSUME NEW u \in Controllers, Bind(u) PROVE StageInv'
  BY <1>9 DEF StageInv, Bind, Known, Sighting, LeftKeys, Binding
<1>10. CASE EndRefresh
  <2>1. present' \subseteq Known'
    BY <1>10 DEF EndRefresh, BindingInv, Sighting
  <2>2. toMiss' = {} /\ toBind' = {} /\ \A k \in Keys : polls'[k] = Idle
    BY <1>10 DEF EndRefresh, StageInv
  <2>3. stops'["finally"].stage \in {"unused", "done"} /\ pc' = "dispatch"
    BY <1>10 DEF EndRefresh, StageInv
  <2> QED
    BY <2>1, <2>2, <2>3 DEF StageInv
<1>11. CASE RefreshFails
  BY <1>11 DEF StageInv, RefreshFails
<1>12. CASE BeginPolls
  BY <1>12, LifecycleAtType DEF StageInv, BeginPolls, Pollable, Settled, PollAt, Idle
<1>13. ASSUME NEW k \in Keys, StartPoll(k) PROVE StageInv'
  <2>1. /\ pc = "polling" /\ polls[k] # Idle
        /\ lifecycles[k] \in Lifecycle
    BY <1>13 DEF StartPoll, StageInv, Idle
  <2>2. MarkConnecting(lifecycles[k]) \in Lifecycle
    BY <2>1, MarkConnectingType
  <2>3. ASSUME NEW l \in Keys, polls'[l] # Idle
        PROVE  /\ pc' = "polling" /\ l \in presentKeys'
               /\ bound'[l] # None /\ lifecycles'[l] # None
    BY <1>13, <2>1, <2>2, <2>3 DEF StartPoll, StageInv
  <2> QED
    BY <1>13, <2>1, <2>3 DEF StartPoll, StageInv
<1>14. ASSUME NEW k \in Keys, NEW p \in BOOLEAN, PollSucceeds(k, p) PROVE StageInv'
  <2>1. /\ pc = "polling" /\ polls[k] # Idle
        /\ lifecycles[k] \in Lifecycle
    BY <1>14 DEF PollSucceeds, StageInv, Idle
  <2>2. MarkSuccess(lifecycles[k]) \in Lifecycle
    BY <2>1, MarkSuccessType
  <2>3. ASSUME NEW l \in Keys, polls'[l] # Idle
        PROVE  /\ pc' = "polling" /\ l \in presentKeys'
               /\ bound'[l] # None /\ lifecycles'[l] # None
    BY <1>14, <2>1, <2>2, <2>3 DEF PollSucceeds, StageInv
  <2> QED
    BY <1>14, <2>1, <2>3 DEF PollSucceeds, StageInv
<1>15. ASSUME NEW k \in Keys, SaveSuccess(k) PROVE StageInv'
  BY <1>15 DEF StageInv, SaveSuccess, Idle
<1>16. ASSUME NEW k \in Keys, NEW p \in BOOLEAN, PollFails(k, p) PROVE StageInv'
  <2>1. /\ pc = "polling" /\ polls[k] # Idle
        /\ lifecycles[k] \in Lifecycle
    BY <1>16 DEF PollFails, StageInv, Idle
  <2>2. MarkFailure(lifecycles[k]) \in Lifecycle
    BY <2>1, MarkFailureType
  <2>3. ASSUME NEW l \in Keys, polls'[l] # Idle
        PROVE  /\ pc' = "polling" /\ l \in presentKeys'
               /\ bound'[l] # None /\ lifecycles'[l] # None
    BY <1>16, <2>1, <2>2, <2>3 DEF PollFails, StageInv
  <2> QED
    BY <1>16, <2>1, <2>3 DEF PollFails, StageInv
<1>17. ASSUME NEW k \in Keys, SaveFailure(k) PROVE StageInv'
  BY <1>17 DEF StageInv, SaveFailure, Idle
<1>18. ASSUME NEW k \in Keys, PollRaises(k) PROVE StageInv'
  BY <1>18 DEF StageInv, PollRaises, Idle
<1>19. ASSUME NEW d \in 1 .. MaxElapsed, Sleep(d) PROVE StageInv'
  BY <1>19 DEF StageInv, Sleep, Idle
<1>20. ASSUME NEW b \in BackfillTask, FinishBackfill(b) PROVE StageInv'
  BY <1>20 DEF StageInv, FinishBackfill
<1>21. ASSUME NEW s \in Stoppers, BeginStop(s) PROVE StageInv'
  BY <1>21 DEF StageInv, BeginStop, StopAt
<1>22. ASSUME NEW s \in Stoppers, NEW u \in Controllers, StopMarks(s, u) PROVE StageInv'
  BY <1>22 DEF StageInv, StopMarks, StopAt
<1>23. ASSUME NEW s \in Stoppers, StopTakes(s) PROVE StageInv'
  BY <1>23 DEF StageInv, StopTakes, StopAt
<1>24. ASSUME NEW s \in Stoppers, StopGathers(s) PROVE StageInv'
  BY <1>24 DEF StageInv, StopGathers, StopAt
<1>25. ASSUME NEW s \in Stoppers, StopCloses(s) PROVE StageInv'
  BY <1>25 DEF StageInv, StopCloses, StopAt, Stoppers
<1>26. CASE Crash
  BY <1>26 DEF StageInv, Crash, Known, Unused, Stoppers
<1>27. CASE UNCHANGED vars
  BY <1>27 DEF StageInv, vars, volatile
<1> QED
  BY <1>1, <1>2, <1>3, <1>4, <1>5, <1>6, <1>7, <1>8, <1>9, <1>10, <1>11, <1>12,
     <1>13, <1>14, <1>15, <1>16, <1>17, <1>18, <1>19, <1>20, <1>21, <1>22, <1>23,
     <1>24, <1>25, <1>26, <1>27
  DEF Next, Loop, Refresh, Poll, Stop, Ended

\* The initial state satisfies BindingInv.
LEMMA BindingInit == Init => BindingInv
BY DEF Init, BindingInv, Settled

\* Every step keeps the maps of bound endpoints in agreement.
LEMMA BindingNext == TypeOK /\ StageInv /\ BindingInv /\ [Next]_vars => BindingInv'
<1> SUFFICES ASSUME TypeOK, StageInv, BindingInv, [Next]_vars PROVE BindingInv'
  OBVIOUS
<1> USE WatcherAssumption DEF TypeOK, refreshVars, mapVars, historyVars, dbVars, Known, Settled
<1>1. CASE Start
  BY <1>1 DEF BindingInv, Start
<1>2. CASE LeaveLoop
  BY <1>2 DEF BindingInv, LeaveLoop
<1>3. CASE BeginRefresh
  BY <1>3 DEF BindingInv, BeginRefresh
<1>4. ASSUME NEW S \in Discoveries, Discover(S) PROVE BindingInv'
  BY <1>4 DEF BindingInv, Discover
<1>5. ASSUME NEW s \in Sighting, Register(s) PROVE BindingInv'
  BY <1>5 DEF BindingInv, Register
<1>6. CASE Reconcile
  BY <1>6 DEF BindingInv, Reconcile
<1>7. ASSUME NEW u \in Controllers, MarkAbsent(u) PROVE BindingInv'
  BY <1>7 DEF BindingInv, MarkAbsent
<1>8. CASE BeginBinding
  BY <1>8 DEF BindingInv, BeginBinding
<1>9. ASSUME NEW u \in Controllers, Bind(u) PROVE BindingInv'
  BY <1>9 DEF BindingInv, Bind, StageInv
<1>10. CASE EndRefresh
  BY <1>10 DEF BindingInv, EndRefresh, SelectedKeys, StageInv
<1>11. CASE RefreshFails
  BY <1>11 DEF BindingInv, RefreshFails
<1>12. CASE BeginPolls
  BY <1>12 DEF BindingInv, BeginPolls, StageInv
<1>13. ASSUME NEW k \in Keys, StartPoll(k) PROVE BindingInv'
  BY <1>13 DEF BindingInv, StartPoll
<1>14. ASSUME NEW k \in Keys, NEW p \in BOOLEAN, PollSucceeds(k, p) PROVE BindingInv'
  BY <1>14 DEF BindingInv, PollSucceeds
<1>15. ASSUME NEW k \in Keys, SaveSuccess(k) PROVE BindingInv'
  BY <1>15 DEF BindingInv, SaveSuccess
<1>16. ASSUME NEW k \in Keys, NEW p \in BOOLEAN, PollFails(k, p) PROVE BindingInv'
  BY <1>16 DEF BindingInv, PollFails
<1>17. ASSUME NEW k \in Keys, SaveFailure(k) PROVE BindingInv'
  BY <1>17 DEF BindingInv, SaveFailure
<1>18. ASSUME NEW k \in Keys, PollRaises(k) PROVE BindingInv'
  BY <1>18 DEF BindingInv, PollRaises
<1>19. ASSUME NEW d \in 1 .. MaxElapsed, Sleep(d) PROVE BindingInv'
  BY <1>19 DEF BindingInv, Sleep
<1>20. ASSUME NEW b \in BackfillTask, FinishBackfill(b) PROVE BindingInv'
  BY <1>20 DEF BindingInv, FinishBackfill
<1>21. ASSUME NEW s \in Stoppers, BeginStop(s) PROVE BindingInv'
  BY <1>21 DEF BindingInv, BeginStop
<1>22. ASSUME NEW s \in Stoppers, NEW u \in Controllers, StopMarks(s, u) PROVE BindingInv'
  BY <1>22 DEF BindingInv, StopMarks
<1>23. ASSUME NEW s \in Stoppers, StopTakes(s) PROVE BindingInv'
  BY <1>23 DEF BindingInv, StopTakes
<1>24. ASSUME NEW s \in Stoppers, StopGathers(s) PROVE BindingInv'
  BY <1>24 DEF BindingInv, StopGathers
<1>25. ASSUME NEW s \in Stoppers, StopCloses(s) PROVE BindingInv'
  BY <1>25 DEF BindingInv, StopCloses
<1>26. CASE Crash
  BY <1>26 DEF BindingInv, Crash
<1>27. CASE UNCHANGED vars
  BY <1>27 DEF BindingInv, vars, volatile
<1> QED
  BY <1>1, <1>2, <1>3, <1>4, <1>5, <1>6, <1>7, <1>8, <1>9, <1>10, <1>11, <1>12,
     <1>13, <1>14, <1>15, <1>16, <1>17, <1>18, <1>19, <1>20, <1>21, <1>22, <1>23,
     <1>24, <1>25, <1>26, <1>27
  DEF Next, Loop, Refresh, Poll, Stop, Ended

\* The initial state satisfies OwnershipInv.
LEMMA OwnershipInit == Init => OwnershipInv
BY DEF Init, OwnershipInv, Known

\* Without address reuse every step keeps each key with its controller.
LEMMA OwnershipNext == NoEndpointReuse /\ TypeOK /\ StageInv /\ OwnershipInv /\ [Next]_vars => OwnershipInv'
<1> SUFFICES ASSUME NoEndpointReuse, TypeOK, StageInv, OwnershipInv, [Next]_vars PROVE OwnershipInv'
  OBVIOUS
<1> USE WatcherAssumption DEF TypeOK, refreshVars, mapVars, historyVars, dbVars, Known, Settled
<1>1. CASE Start
  BY <1>1 DEF OwnershipInv, Start
<1>2. CASE LeaveLoop
  BY <1>2 DEF OwnershipInv, LeaveLoop
<1>3. CASE BeginRefresh
  BY <1>3 DEF OwnershipInv, BeginRefresh
<1>4. ASSUME NEW S \in Discoveries, Discover(S) PROVE OwnershipInv'
  BY <1>4 DEF OwnershipInv, Discover, Discoveries
<1>5. ASSUME NEW s \in Sighting, Register(s) PROVE OwnershipInv'
  BY <1>5 DEF OwnershipInv, Register
<1>6. CASE Reconcile
  <2>1. \A u \in Controllers : selected'[u] # None =>
          selected'[u].uid = u /\ u \in Home[selected'[u].key]
    <3> SUFFICES ASSUME NEW u \in Controllers, Choice(u) # None
                 PROVE  Choice(u).uid = u /\ u \in Home[Choice(u).key]
      BY <1>6 DEF Reconcile
    <3>1. Choice(u) \in {s \in sightings : s.uid = u}
      BY ChoiceType
    <3> QED
      BY <3>1 DEF OwnershipInv
  <2> QED
    BY <1>6, <2>1 DEF OwnershipInv, Reconcile
<1>7. ASSUME NEW u \in Controllers, MarkAbsent(u) PROVE OwnershipInv'
  BY <1>7 DEF OwnershipInv, MarkAbsent
<1>8. CASE BeginBinding
  BY <1>8 DEF OwnershipInv, BeginBinding
<1>9. ASSUME NEW u \in Controllers, Bind(u) PROVE OwnershipInv'
  BY <1>9 DEF OwnershipInv, Bind, StageInv, LeftKeys, NoEndpointReuse, Sighting, Binding
<1>10. CASE EndRefresh
  BY <1>10 DEF OwnershipInv, EndRefresh
<1>11. CASE RefreshFails
  BY <1>11 DEF OwnershipInv, RefreshFails
<1>12. CASE BeginPolls
  BY <1>12 DEF OwnershipInv, BeginPolls
<1>13. ASSUME NEW k \in Keys, StartPoll(k) PROVE OwnershipInv'
  BY <1>13 DEF OwnershipInv, StartPoll
<1>14. ASSUME NEW k \in Keys, NEW p \in BOOLEAN, PollSucceeds(k, p) PROVE OwnershipInv'
  BY <1>14 DEF OwnershipInv, PollSucceeds
<1>15. ASSUME NEW k \in Keys, SaveSuccess(k) PROVE OwnershipInv'
  BY <1>15 DEF OwnershipInv, SaveSuccess
<1>16. ASSUME NEW k \in Keys, NEW p \in BOOLEAN, PollFails(k, p) PROVE OwnershipInv'
  BY <1>16 DEF OwnershipInv, PollFails
<1>17. ASSUME NEW k \in Keys, SaveFailure(k) PROVE OwnershipInv'
  BY <1>17 DEF OwnershipInv, SaveFailure
<1>18. ASSUME NEW k \in Keys, PollRaises(k) PROVE OwnershipInv'
  BY <1>18 DEF OwnershipInv, PollRaises
<1>19. ASSUME NEW d \in 1 .. MaxElapsed, Sleep(d) PROVE OwnershipInv'
  BY <1>19 DEF OwnershipInv, Sleep
<1>20. ASSUME NEW b \in BackfillTask, FinishBackfill(b) PROVE OwnershipInv'
  BY <1>20 DEF OwnershipInv, FinishBackfill
<1>21. ASSUME NEW s \in Stoppers, BeginStop(s) PROVE OwnershipInv'
  BY <1>21 DEF OwnershipInv, BeginStop
<1>22. ASSUME NEW s \in Stoppers, NEW u \in Controllers, StopMarks(s, u) PROVE OwnershipInv'
  BY <1>22 DEF OwnershipInv, StopMarks
<1>23. ASSUME NEW s \in Stoppers, StopTakes(s) PROVE OwnershipInv'
  BY <1>23 DEF OwnershipInv, StopTakes
<1>24. ASSUME NEW s \in Stoppers, StopGathers(s) PROVE OwnershipInv'
  BY <1>24 DEF OwnershipInv, StopGathers
<1>25. ASSUME NEW s \in Stoppers, StopCloses(s) PROVE OwnershipInv'
  BY <1>25 DEF OwnershipInv, StopCloses
<1>26. CASE Crash
  BY <1>26 DEF OwnershipInv, Crash
<1>27. CASE UNCHANGED vars
  BY <1>27 DEF OwnershipInv, vars, volatile
<1> QED
  BY <1>1, <1>2, <1>3, <1>4, <1>5, <1>6, <1>7, <1>8, <1>9, <1>10, <1>11, <1>12,
     <1>13, <1>14, <1>15, <1>16, <1>17, <1>18, <1>19, <1>20, <1>21, <1>22, <1>23,
     <1>24, <1>25, <1>26, <1>27
  DEF Next, Loop, Refresh, Poll, Stop, Ended

\* The initial state satisfies ClientInv.
LEMMA ClientInit == Init => ClientInv
BY DEF Init, ClientInv

\* Without address reuse every step keeps open clients current.
LEMMA ClientNext == NoEndpointReuse /\ TypeOK /\ StageInv /\ OwnershipInv /\ BindingInv /\ ClientInv /\ [Next]_vars => ClientInv'
<1> SUFFICES ASSUME NoEndpointReuse, TypeOK, StageInv, OwnershipInv, BindingInv, ClientInv, [Next]_vars PROVE ClientInv'
  OBVIOUS
<1> USE WatcherAssumption DEF TypeOK, refreshVars, mapVars, historyVars, dbVars, Known, Settled
<1>1. CASE Start
  BY <1>1 DEF ClientInv, Start
<1>2. CASE LeaveLoop
  BY <1>2 DEF ClientInv, LeaveLoop
<1>3. CASE BeginRefresh
  BY <1>3 DEF ClientInv, BeginRefresh
<1>4. ASSUME NEW S \in Discoveries, Discover(S) PROVE ClientInv'
  BY <1>4 DEF ClientInv, Discover
<1>5. ASSUME NEW s \in Sighting, Register(s) PROVE ClientInv'
  BY <1>5 DEF ClientInv, Register
<1>6. CASE Reconcile
  BY <1>6 DEF ClientInv, Reconcile
<1>7. ASSUME NEW u \in Controllers, MarkAbsent(u) PROVE ClientInv'
  BY <1>7 DEF ClientInv, MarkAbsent, OwnershipInv, StageInv
<1>8. CASE BeginBinding
  BY <1>8 DEF ClientInv, BeginBinding, StageInv
<1>9. ASSUME NEW u \in Controllers, Bind(u) PROVE ClientInv'
  BY <1>9 DEF ClientInv, Bind, OwnershipInv, StageInv, LeftKeys, ClosedKeys, EndpointMoved, NoEndpointReuse, Sighting, Binding
<1>10. CASE EndRefresh
  BY <1>10 DEF ClientInv, EndRefresh, StageInv
<1>11. CASE RefreshFails
  BY <1>11 DEF ClientInv, RefreshFails
<1>12. CASE BeginPolls
  BY <1>12 DEF ClientInv, BeginPolls
<1>13. ASSUME NEW k \in Keys, StartPoll(k) PROVE ClientInv'
  BY <1>13 DEF ClientInv, StartPoll, OwnershipInv, BindingInv, StageInv, Idle
<1>14. ASSUME NEW k \in Keys, NEW p \in BOOLEAN, PollSucceeds(k, p) PROVE ClientInv'
  BY <1>14 DEF ClientInv, PollSucceeds
<1>15. ASSUME NEW k \in Keys, SaveSuccess(k) PROVE ClientInv'
  BY <1>15 DEF ClientInv, SaveSuccess
<1>16. ASSUME NEW k \in Keys, NEW p \in BOOLEAN, PollFails(k, p) PROVE ClientInv'
  BY <1>16 DEF ClientInv, PollFails
<1>17. ASSUME NEW k \in Keys, SaveFailure(k) PROVE ClientInv'
  BY <1>17 DEF ClientInv, SaveFailure
<1>18. ASSUME NEW k \in Keys, PollRaises(k) PROVE ClientInv'
  BY <1>18 DEF ClientInv, PollRaises
<1>19. ASSUME NEW d \in 1 .. MaxElapsed, Sleep(d) PROVE ClientInv'
  BY <1>19 DEF ClientInv, Sleep
<1>20. ASSUME NEW b \in BackfillTask, FinishBackfill(b) PROVE ClientInv'
  BY <1>20 DEF ClientInv, FinishBackfill
<1>21. ASSUME NEW s \in Stoppers, BeginStop(s) PROVE ClientInv'
  BY <1>21 DEF ClientInv, BeginStop
<1>22. ASSUME NEW s \in Stoppers, NEW u \in Controllers, StopMarks(s, u) PROVE ClientInv'
  BY <1>22 DEF ClientInv, StopMarks
<1>23. ASSUME NEW s \in Stoppers, StopTakes(s) PROVE ClientInv'
  BY <1>23 DEF ClientInv, StopTakes
<1>24. ASSUME NEW s \in Stoppers, StopGathers(s) PROVE ClientInv'
  BY <1>24 DEF ClientInv, StopGathers
<1>25. ASSUME NEW s \in Stoppers, StopCloses(s) PROVE ClientInv'
  BY <1>25 DEF ClientInv, StopCloses
<1>26. CASE Crash
  BY <1>26 DEF ClientInv, Crash
<1>27. CASE UNCHANGED vars
  BY <1>27 DEF ClientInv, vars, volatile
<1> QED
  BY <1>1, <1>2, <1>3, <1>4, <1>5, <1>6, <1>7, <1>8, <1>9, <1>10, <1>11, <1>12,
     <1>13, <1>14, <1>15, <1>16, <1>17, <1>18, <1>19, <1>20, <1>21, <1>22, <1>23,
     <1>24, <1>25, <1>26, <1>27
  DEF Next, Loop, Refresh, Poll, Stop, Ended

\* An empty database presents nobody.
LEMMA PresenceInit == Init => PresenceInv
BY DEF Init, PresenceInv, Unused

\* Every step keeps what the database says of presence, until a stop begins.
LEMMA PresenceNext ==
  TypeOK /\ StageInv /\ OwnershipInv /\ BindingInv /\ PresenceInv /\ [Next]_vars => PresenceInv'
<1> SUFFICES ASSUME TypeOK, StageInv, OwnershipInv, BindingInv, PresenceInv, [Next]_vars PROVE PresenceInv'
  OBVIOUS
<1> USE WatcherAssumption DEF TypeOK, refreshVars, mapVars, historyVars, dbVars, Known, Settled
<1>1. CASE Start
  BY <1>1 DEF PresenceInv, Start, SetStatus, Presented, AtStartup
<1>2. CASE LeaveLoop
  BY <1>2 DEF PresenceInv, LeaveLoop, SetStatus, Presented
<1>3. CASE BeginRefresh
  BY <1>3 DEF PresenceInv, BeginRefresh, SetStatus, Presented
<1>4. ASSUME NEW S \in Discoveries, Discover(S) PROVE PresenceInv'
  BY <1>4 DEF PresenceInv, Discover, SetStatus, Presented
<1>5. ASSUME NEW s \in Sighting, Register(s) PROVE PresenceInv'
  BY <1>5 DEF PresenceInv, Register, SetStatus, Presented, StageInv, Sighting
<1>6. CASE Reconcile
  <2>1. /\ UNCHANGED <<present, status, stops, stopping>> /\ pc = "registering"
        /\ pc' = "missing" /\ unregistered = {} /\ active' = SelectedConnections(selected')
        /\ selected' = [u \in Controllers |-> Choice(u)]
        /\ toMiss' = {u \in present : selected'[u] = None}
    BY <1>6 DEF Reconcile
  <2>2. ASSUME NEW u \in Controllers
        PROVE  selected'[u] # None <=> \E s \in sightings : s.uid = u
    BY <2>1, ChoiceType
  <2>3. ~stopping => /\ \A s \in Stoppers : stops[s].stage = "unused"
                     /\ \A s \in sightings : status[s.uid] \in Presented
                     /\ WriteFaults \/ \A u \in Controllers \ present :
                          status[u] \in Presented => \E s \in sightings : s.uid = u
    BY <2>1 DEF PresenceInv
  <2> QED
    BY <2>1, <2>2, <2>3 DEF PresenceInv, SelectedConnections
<1>7. ASSUME NEW u \in Controllers, MarkAbsent(u) PROVE PresenceInv'
  BY <1>7 DEF PresenceInv, MarkAbsent, SetStatus, Presented, StageInv
<1>8. CASE BeginBinding
  BY <1>8 DEF PresenceInv, BeginBinding, SetStatus, Presented
<1>9. ASSUME NEW u \in Controllers, Bind(u) PROVE PresenceInv'
  BY <1>9 DEF PresenceInv, Bind, SetStatus, Presented, StageInv
<1>10. CASE EndRefresh
  BY <1>10 DEF PresenceInv, EndRefresh, SetStatus, Presented, StageInv, BindingInv, SelectedConnections
<1>11. CASE RefreshFails
  BY <1>11 DEF PresenceInv, RefreshFails, SetStatus, Presented
<1>12. CASE BeginPolls
  BY <1>12 DEF PresenceInv, BeginPolls, SetStatus, Presented
<1>13. ASSUME NEW k \in Keys, StartPoll(k) PROVE PresenceInv'
  BY <1>13 DEF PresenceInv, StartPoll, SetStatus, Presented
<1>14. ASSUME NEW k \in Keys, NEW p \in BOOLEAN, PollSucceeds(k, p) PROVE PresenceInv'
  BY <1>14 DEF PresenceInv, PollSucceeds, SetStatus, Presented
<1>15. ASSUME NEW k \in Keys, SaveSuccess(k) PROVE PresenceInv'
  <2>1. pc = "polling" /\ k \in presentKeys /\ bound[k] # None
    BY <1>15 DEF SaveSuccess, SaveFailure, StageInv, Idle
  <2>2. PICK u \in present : controllerKey[u] = k
    BY <2>1 DEF BindingInv
  <2>3. bound[k].uid = u /\ u \in Controllers
    BY <2>2 DEF StageInv, OwnershipInv
  <2> QED
    BY <1>15, <2>1, <2>2, <2>3 DEF PresenceInv, SaveSuccess, SetStatus, Presented
<1>16. ASSUME NEW k \in Keys, NEW p \in BOOLEAN, PollFails(k, p) PROVE PresenceInv'
  BY <1>16 DEF PresenceInv, PollFails, SetStatus, Presented
<1>17. ASSUME NEW k \in Keys, SaveFailure(k) PROVE PresenceInv'
  <2>1. pc = "polling" /\ k \in presentKeys /\ bound[k] # None
    BY <1>17 DEF SaveSuccess, SaveFailure, StageInv, Idle
  <2>2. PICK u \in present : controllerKey[u] = k
    BY <2>1 DEF BindingInv
  <2>3. bound[k].uid = u /\ u \in Controllers
    BY <2>2 DEF StageInv, OwnershipInv
  <2> QED
    BY <1>17, <2>1, <2>2, <2>3 DEF PresenceInv, SaveFailure, SetStatus, Presented
<1>18. ASSUME NEW k \in Keys, PollRaises(k) PROVE PresenceInv'
  BY <1>18 DEF PresenceInv, PollRaises, SetStatus, Presented
<1>19. ASSUME NEW d \in 1 .. MaxElapsed, Sleep(d) PROVE PresenceInv'
  BY <1>19 DEF PresenceInv, Sleep, SetStatus, Presented
<1>20. ASSUME NEW b \in BackfillTask, FinishBackfill(b) PROVE PresenceInv'
  BY <1>20 DEF PresenceInv, FinishBackfill, SetStatus, Presented
<1>21. ASSUME NEW s \in Stoppers, BeginStop(s) PROVE PresenceInv'
  BY <1>21 DEF PresenceInv, BeginStop, SetStatus, Presented
<1>22. ASSUME NEW s \in Stoppers, NEW u \in Controllers, StopMarks(s, u) PROVE PresenceInv'
  BY <1>22 DEF PresenceInv, StopMarks, SetStatus, Presented
<1>23. ASSUME NEW s \in Stoppers, StopTakes(s) PROVE PresenceInv'
  BY <1>23 DEF PresenceInv, StopTakes, SetStatus, Presented
<1>24. ASSUME NEW s \in Stoppers, StopGathers(s) PROVE PresenceInv'
  BY <1>24 DEF PresenceInv, StopGathers, SetStatus, Presented
<1>25. ASSUME NEW s \in Stoppers, StopCloses(s) PROVE PresenceInv'
  BY <1>25 DEF PresenceInv, StopCloses, SetStatus, Presented
<1>26. CASE Crash
  BY <1>26 DEF PresenceInv, Crash, SetStatus, Presented, Unused
<1>27. CASE UNCHANGED vars
  BY <1>27 DEF PresenceInv, vars, volatile, SetStatus, Presented
<1> QED
  BY <1>1, <1>2, <1>3, <1>4, <1>5, <1>6, <1>7, <1>8, <1>9, <1>10, <1>11, <1>12,
     <1>13, <1>14, <1>15, <1>16, <1>17, <1>18, <1>19, <1>20, <1>21, <1>22, <1>23,
     <1>24, <1>25, <1>26, <1>27
  DEF Next, Loop, Refresh, Poll, Stop, Ended

\* Nothing is open and nobody holds a task.
LEMMA ShutdownInit == Init => ShutdownInv
BY DEF Init, ShutdownInv, Unused, Stoppers

\* What stop() took stays taken.
LEMMA ShutdownNext ==
  TypeOK /\ StageInv /\ ShutdownInv /\ [Next]_vars => ShutdownInv'
<1> SUFFICES ASSUME TypeOK, StageInv, ShutdownInv, [Next]_vars PROVE ShutdownInv'
  OBVIOUS
<1> USE WatcherAssumption DEF TypeOK, refreshVars, mapVars, historyVars, dbVars, Known, Settled
<1>1. CASE Start
  BY <1>1 DEF ShutdownInv, Start, StopAt, Stoppers, Idle
<1>2. CASE LeaveLoop
  BY <1>2 DEF ShutdownInv, LeaveLoop, StopAt, Stoppers, Idle
<1>3. CASE BeginRefresh
  BY <1>3 DEF ShutdownInv, BeginRefresh, StopAt, Stoppers, Idle
<1>4. ASSUME NEW S \in Discoveries, Discover(S) PROVE ShutdownInv'
  BY <1>4 DEF ShutdownInv, Discover, StopAt, Stoppers, Idle
<1>5. ASSUME NEW s \in Sighting, Register(s) PROVE ShutdownInv'
  BY <1>5 DEF ShutdownInv, Register, StopAt, Stoppers, Idle
<1>6. CASE Reconcile
  BY <1>6 DEF ShutdownInv, Reconcile, StopAt, Stoppers, Idle
<1>7. ASSUME NEW u \in Controllers, MarkAbsent(u) PROVE ShutdownInv'
  BY <1>7 DEF ShutdownInv, MarkAbsent, StopAt, Stoppers, Idle
<1>8. CASE BeginBinding
  BY <1>8 DEF ShutdownInv, BeginBinding, StopAt, Stoppers, Idle
<1>9. ASSUME NEW u \in Controllers, Bind(u) PROVE ShutdownInv'
  <2>1. u \in Controllers /\ selected[u] \in Sighting /\ selected[u].key \in Keys
    BY <1>9 DEF Bind, StageInv, Sighting
  <2>2. controllerKey'[u] = selected[u].key /\ u \in Known' /\ Known \subseteq Known'
    BY <1>9, <2>1 DEF Bind
  <2>3. ASSUME NEW k \in Keys, bound'[k] # None PROVE bound'[k].uid \in Known'
    <3>1. CASE k = selected[u].key
      BY <1>9, <2>2, <3>1 DEF Bind
    <3>2. CASE k # selected[u].key
      BY <1>9, <2>2, <2>3, <3>2 DEF Bind, ShutdownInv
    <3> QED
      BY <3>1, <3>2
  <2>4. UNCHANGED <<pc, stops, backfills>> /\ \A k \in Keys : clients[k] = None => clients'[k] = None
    BY <1>9 DEF Bind
  <2> QED
    BY <2>3, <2>4 DEF ShutdownInv
<1>10. CASE EndRefresh
  BY <1>10 DEF ShutdownInv, EndRefresh, StopAt, Stoppers, Idle
<1>11. CASE RefreshFails
  BY <1>11 DEF ShutdownInv, RefreshFails, StopAt, Stoppers, Idle
<1>12. CASE BeginPolls
  BY <1>12 DEF ShutdownInv, BeginPolls, StopAt, Stoppers, Idle
<1>13. ASSUME NEW k \in Keys, StartPoll(k) PROVE ShutdownInv'
  BY <1>13 DEF ShutdownInv, StartPoll, StopAt, Stoppers, Idle, StageInv
<1>14. ASSUME NEW k \in Keys, NEW p \in BOOLEAN, PollSucceeds(k, p) PROVE ShutdownInv'
  BY <1>14 DEF ShutdownInv, PollSucceeds, StopAt, Stoppers, Idle, StageInv, ScheduleBackfill, HeldTask
<1>15. ASSUME NEW k \in Keys, SaveSuccess(k) PROVE ShutdownInv'
  <2>1. stops["finally"].stage = "unused" /\ pc = "polling"
    BY <1>15 DEF ShutdownInv, StageInv, SaveSuccess, Idle
  <2>2. \A b \in backfills' : b \in backfills \/ b.holder = "watcher"
    BY <1>15 DEF SaveSuccess, ScheduleBackfill, HeldTask
  <2> QED
    BY <1>15, <2>1, <2>2 DEF ShutdownInv, SaveSuccess
<1>16. ASSUME NEW k \in Keys, NEW p \in BOOLEAN, PollFails(k, p) PROVE ShutdownInv'
  BY <1>16 DEF ShutdownInv, PollFails, StopAt, Stoppers, Idle
<1>17. ASSUME NEW k \in Keys, SaveFailure(k) PROVE ShutdownInv'
  BY <1>17 DEF ShutdownInv, SaveFailure, StopAt, Stoppers, Idle
<1>18. ASSUME NEW k \in Keys, PollRaises(k) PROVE ShutdownInv'
  BY <1>18 DEF ShutdownInv, PollRaises, StopAt, Stoppers, Idle, StageInv
<1>19. ASSUME NEW d \in 1 .. MaxElapsed, Sleep(d) PROVE ShutdownInv'
  BY <1>19 DEF ShutdownInv, Sleep, StopAt, Stoppers, Idle
<1>20. ASSUME NEW b \in BackfillTask, FinishBackfill(b) PROVE ShutdownInv'
  BY <1>20 DEF ShutdownInv, FinishBackfill, StopAt, Stoppers, Idle
<1>21. ASSUME NEW s \in Stoppers, BeginStop(s) PROVE ShutdownInv'
  BY <1>21 DEF ShutdownInv, BeginStop, StopAt, Stoppers, Idle
<1>22. ASSUME NEW s \in Stoppers, NEW u \in Controllers, StopMarks(s, u) PROVE ShutdownInv'
  BY <1>22 DEF ShutdownInv, StopMarks, StopAt, Stoppers, Idle
<1>23. ASSUME NEW s \in Stoppers, StopTakes(s) PROVE ShutdownInv'
  <2>1. /\ UNCHANGED <<pc, bound, controllerKey>> /\ s \in Stoppers
        /\ stops[s].stage = "marking" /\ stops' = [stops EXCEPT ![s] = StopAt("gathering", {})]
        /\ \A k \in Keys : clients'[k] = None
    BY <1>23 DEF StopTakes
  <2>2. stops'[s].stage = "gathering" /\ stops'[s].todo = {}
        /\ \A t \in Stoppers : t # s => stops'[t] = stops[t]
    BY <2>1 DEF StopAt
  <2>3. ASSUME NEW c \in backfills'
        PROVE  \/ c.holder = s
               \/ c \in backfills /\ c.holder # "watcher" /\ c.holder # s
    <3>1. PICK b \in backfills : c = Taken(b, s)
      BY <1>23 DEF StopTakes
    <3>2. CASE b.holder = "watcher"
      BY <3>1, <3>2 DEF Taken, BackfillTask
    <3>3. CASE b.holder # "watcher"
      BY <2>1, <3>1, <3>3 DEF Taken, ShutdownInv
    <3> QED
      BY <3>2, <3>3
  <2>4. ASSUME NEW c \in backfills'
        PROVE  c.holder # "watcher" /\ c.holder \in Stoppers
               /\ stops'[c.holder].stage = "gathering"
    <3>1. CASE c.holder = s
      BY <2>2, <3>1 DEF Stoppers
    <3>2. CASE c \in backfills /\ c.holder # "watcher" /\ c.holder # s
      BY <2>2, <3>2 DEF ShutdownInv
    <3> QED
      BY <2>3, <3>1, <3>2
  <2>5. /\ pc' = "returned" <=> stops'["finally"].stage = "done"
        /\ stops'["finally"].stage # "unused" => pc' \in {"final", "returned"}
        /\ stops'["finally"].todo # {} => stops'["finally"].stage = "marking"
    BY <2>1, <2>2 DEF ShutdownInv, Stoppers
  <2> QED
    BY <2>1, <2>4, <2>5 DEF ShutdownInv
<1>24. ASSUME NEW s \in Stoppers, StopGathers(s) PROVE ShutdownInv'
  BY <1>24 DEF ShutdownInv, StopGathers, StopAt, Stoppers, Idle
<1>25. ASSUME NEW s \in Stoppers, StopCloses(s) PROVE ShutdownInv'
  BY <1>25 DEF ShutdownInv, StopCloses, StopAt, Stoppers, Idle
<1>26. CASE Crash
  BY <1>26 DEF ShutdownInv, Crash, StopAt, Stoppers, Idle, Unused
<1>27. CASE UNCHANGED vars
  BY <1>27 DEF ShutdownInv, vars, volatile, StopAt, Stoppers, Idle
<1> QED
  BY <1>1, <1>2, <1>3, <1>4, <1>5, <1>6, <1>7, <1>8, <1>9, <1>10, <1>11, <1>12,
     <1>13, <1>14, <1>15, <1>16, <1>17, <1>18, <1>19, <1>20, <1>21, <1>22, <1>23,
     <1>24, <1>25, <1>26, <1>27
  DEF Next, Loop, Refresh, Poll, Stop, Ended

\* An empty database presents nobody.
LEMMA PresentedInit == Init => PresentedInv
BY DEF Init, PresentedInv, Presented

\* Without an exception in a refresh every presented controller is known to stop().
LEMMA PresentedNext ==
  ~RefreshFaults /\ TypeOK /\ StageInv /\ ShutdownInv /\ PresentedInv /\ [Next]_vars => PresentedInv'
<1> SUFFICES ASSUME ~RefreshFaults, TypeOK, StageInv, ShutdownInv, PresentedInv, [Next]_vars PROVE PresentedInv'
  OBVIOUS
<1> USE WatcherAssumption DEF TypeOK, refreshVars, mapVars, historyVars, dbVars, Known, Settled
<1>1. CASE Start
  BY <1>1 DEF PresentedInv, Start, SetStatus, Presented, StopAt, Stoppers, AtStartup
<1>2. CASE LeaveLoop
  BY <1>2 DEF PresentedInv, LeaveLoop, SetStatus, Presented, StopAt, Stoppers
<1>3. CASE BeginRefresh
  BY <1>3 DEF PresentedInv, BeginRefresh, SetStatus, Presented, StopAt, Stoppers
<1>4. ASSUME NEW S \in Discoveries, Discover(S) PROVE PresentedInv'
  BY <1>4 DEF PresentedInv, Discover, SetStatus, Presented, StopAt, Stoppers
<1>5. ASSUME NEW s \in Sighting, Register(s) PROVE PresentedInv'
  BY <1>5 DEF PresentedInv, Register, SetStatus, Presented, StopAt, Stoppers, StageInv, ShutdownInv, Sighting
<1>6. CASE Reconcile
  <2>1. /\ UNCHANGED <<status, stops, controllerKey>> /\ pc = "registering" /\ pc' = "missing"
        /\ selected' = [u \in Controllers |-> Choice(u)]
        /\ toBind' = {u \in Controllers : selected'[u] # None}
    BY <1>6 DEF Reconcile
  <2>2. ASSUME NEW u \in Controllers, \E s \in sightings : s.uid = u PROVE u \in toBind'
    BY <2>1, <2>2, ChoiceType
  <2> QED
    BY <2>1, <2>2 DEF PresentedInv
<1>7. ASSUME NEW u \in Controllers, MarkAbsent(u) PROVE PresentedInv'
  BY <1>7 DEF PresentedInv, MarkAbsent, SetStatus, Presented, StopAt, Stoppers
<1>8. CASE BeginBinding
  BY <1>8 DEF PresentedInv, BeginBinding, SetStatus, Presented, StopAt, Stoppers
<1>9. ASSUME NEW u \in Controllers, Bind(u) PROVE PresentedInv'
  BY <1>9 DEF PresentedInv, Bind, SetStatus, Presented, StopAt, Stoppers, StageInv, Sighting
<1>10. CASE EndRefresh
  BY <1>10 DEF PresentedInv, EndRefresh, SetStatus, Presented, StopAt, Stoppers
<1>11. CASE RefreshFails
  BY <1>11 DEF PresentedInv, RefreshFails, SetStatus, Presented, StopAt, Stoppers
<1>12. CASE BeginPolls
  BY <1>12 DEF PresentedInv, BeginPolls, SetStatus, Presented, StopAt, Stoppers
<1>13. ASSUME NEW k \in Keys, StartPoll(k) PROVE PresentedInv'
  BY <1>13 DEF PresentedInv, StartPoll, SetStatus, Presented, StopAt, Stoppers
<1>14. ASSUME NEW k \in Keys, NEW p \in BOOLEAN, PollSucceeds(k, p) PROVE PresentedInv'
  BY <1>14 DEF PresentedInv, PollSucceeds, SetStatus, Presented, StopAt, Stoppers
<1>15. ASSUME NEW k \in Keys, SaveSuccess(k) PROVE PresentedInv'
  BY <1>15 DEF PresentedInv, SaveSuccess, SetStatus, Presented, StopAt, Stoppers, StageInv, ShutdownInv, Idle
<1>16. ASSUME NEW k \in Keys, NEW p \in BOOLEAN, PollFails(k, p) PROVE PresentedInv'
  BY <1>16 DEF PresentedInv, PollFails, SetStatus, Presented, StopAt, Stoppers
<1>17. ASSUME NEW k \in Keys, SaveFailure(k) PROVE PresentedInv'
  BY <1>17 DEF PresentedInv, SaveFailure, SetStatus, Presented, StopAt, Stoppers, StageInv, ShutdownInv, Idle
<1>18. ASSUME NEW k \in Keys, PollRaises(k) PROVE PresentedInv'
  <2>1. stops["finally"].stage = "unused" /\ pc = "polling"
    BY <1>18 DEF ShutdownInv, StageInv, PollRaises, Idle
  <2> QED
    BY <1>18, <2>1 DEF PresentedInv, PollRaises
<1>19. ASSUME NEW d \in 1 .. MaxElapsed, Sleep(d) PROVE PresentedInv'
  BY <1>19 DEF PresentedInv, Sleep, SetStatus, Presented, StopAt, Stoppers
<1>20. ASSUME NEW b \in BackfillTask, FinishBackfill(b) PROVE PresentedInv'
  BY <1>20 DEF PresentedInv, FinishBackfill, SetStatus, Presented, StopAt, Stoppers
<1>21. ASSUME NEW s \in Stoppers, BeginStop(s) PROVE PresentedInv'
  BY <1>21 DEF PresentedInv, BeginStop, SetStatus, Presented, StopAt, Stoppers
<1>22. ASSUME NEW s \in Stoppers, NEW u \in Controllers, StopMarks(s, u) PROVE PresentedInv'
  BY <1>22 DEF PresentedInv, StopMarks, SetStatus, Presented, StopAt, Stoppers
<1>23. ASSUME NEW s \in Stoppers, StopTakes(s) PROVE PresentedInv'
  BY <1>23 DEF PresentedInv, StopTakes, SetStatus, Presented, StopAt, Stoppers
<1>24. ASSUME NEW s \in Stoppers, StopGathers(s) PROVE PresentedInv'
  BY <1>24 DEF PresentedInv, StopGathers, SetStatus, Presented, StopAt, Stoppers, ShutdownInv
<1>25. ASSUME NEW s \in Stoppers, StopCloses(s) PROVE PresentedInv'
  BY <1>25 DEF PresentedInv, StopCloses, SetStatus, Presented, StopAt, Stoppers, ShutdownInv
<1>26. CASE Crash
  BY <1>26 DEF PresentedInv, Crash, SetStatus, Presented, StopAt, Stoppers, Unused
<1>27. CASE UNCHANGED vars
  BY <1>27 DEF PresentedInv, vars, volatile, SetStatus, Presented, StopAt, Stoppers
<1> QED
  BY <1>1, <1>2, <1>3, <1>4, <1>5, <1>6, <1>7, <1>8, <1>9, <1>10, <1>11, <1>12,
     <1>13, <1>14, <1>15, <1>16, <1>17, <1>18, <1>19, <1>20, <1>21, <1>22, <1>23,
     <1>24, <1>25, <1>26, <1>27
  DEF Next, Loop, Refresh, Poll, Stop, Ended

----------------------------------------------------------------------------
(* The theorems *)

\* What holds at each stage, whatever is discovered.
LEMMA StageCorrect == Spec => [](TypeOK /\ StageInv /\ BindingInv)
<1>1. Init => TypeOK /\ StageInv /\ BindingInv
  BY TypeInit, StageInit, BindingInit
<1>2. TypeOK /\ StageInv /\ BindingInv /\ [Next]_vars
        => (TypeOK /\ StageInv /\ BindingInv)'
  BY TypeNext, StageNext, BindingNext
<1> QED
  BY <1>1, <1>2, PTL DEF Spec

\* Every variable keeps the shape the watcher's dictionaries and database
\* columns have, whatever is discovered, fails, stops or crashes.
THEOREM TypeCorrect == Spec => []TypeOK
BY StageCorrect, PTL

\* The inductive invariant holds as long as no address is handed over.
LEMMA InductiveInvariant == NoEndpointReuse => (Spec => []IInv)
<1> SUFFICES ASSUME NoEndpointReuse PROVE Spec => []IInv
  OBVIOUS
<1>1. Init => IInv
  BY TypeInit, StageInit, BindingInit, OwnershipInit, ClientInit DEF IInv
<1>2. IInv /\ [Next]_vars => IInv'
  BY TypeNext, StageNext, BindingNext, OwnershipNext, ClientNext DEF IInv
<1> QED
  BY <1>1, <1>2, PTL DEF Spec

\* The keys _poll_all walks are the present controllers' own keys, and each
\* holds its controller's binding, as long as no address is handed over.
THEOREM OneEndpoint == NoEndpointReuse => (Spec => []OneEndpointPerController)
<1> SUFFICES ASSUME NoEndpointReuse PROVE Spec => []OneEndpointPerController
  OBVIOUS
<1>1. IInv => OneEndpointPerController
  BY DEF IInv, TypeOK, StageInv, OwnershipInv, BindingInv, OneEndpointPerController
<1> QED
  BY <1>1, InductiveInvariant, PTL

\* No client stays open at an endpoint that is not polled or that now stands
\* for another locator.
THEOREM NoStaleClients == NoEndpointReuse => (Spec => []StaleClientsClosed)
<1> SUFFICES ASSUME NoEndpointReuse PROVE Spec => []StaleClientsClosed
  OBVIOUS
<1>1. IInv => StaleClientsClosed
  BY DEF IInv, TypeOK, OwnershipInv, BindingInv, ClientInv, StaleClientsClosed, Binding
<1> QED
  BY <1>1, InductiveInvariant, PTL

\* Between refreshes the database presents exactly the present controllers, at
\* their selected endpoints, whatever an earlier session left there.  A poll
\* that ends is saved for a controller that is still present.
THEOREM PresencePersisted == NoEndpointReuse => (Spec => []PersistedPresence)
<1> SUFFICES ASSUME NoEndpointReuse PROVE Spec => []PersistedPresence
  OBVIOUS
<1>1. IInv /\ PresenceInv /\ [Next]_vars => PresenceInv'
  BY PresenceNext DEF IInv
<1>2. PresenceInv => PersistedPresence
  BY DEF PresenceInv, PersistedPresence, Settled
<1> QED
  BY <1>1, <1>2, PresenceInit, InductiveInvariant, PTL DEF Spec

\* Whatever runs when stop() begins, and however often it is called: what it
\* took is closed when run() has returned and nothing was opened again.
Stopped == pc = "returned" /\ \A s \in Stoppers : stops[s].stage \in {"unused", "done"}
Released == Stopped => backfills = {} /\ \A k \in Keys : clients[k] = None

THEOREM StopReleases == Spec => []Released
<1>1. ShutdownInv => Released
  <2> SUFFICES ASSUME ShutdownInv, Stopped
               PROVE  backfills = {} /\ \A k \in Keys : clients[k] = None
    BY DEF Released
  <2>1. stops["finally"].stage = "done"
    BY DEF Stopped, ShutdownInv
  <2>2. \A b \in backfills : b.holder # "watcher"
    BY <2>1 DEF ShutdownInv
  <2> QED
    BY <2>1, <2>2 DEF Stopped, ShutdownInv
<1>2. TypeOK /\ StageInv /\ ShutdownInv /\ [Next]_vars => ShutdownInv'
  BY ShutdownNext
<1> QED
  BY <1>1, <1>2, ShutdownInit, StageCorrect, PTL DEF Spec

\* Nor does the database present anybody, unless a refresh raised between
\* register_observation and the binding of what it registered.
THEOREM CleanStop == ~RefreshFaults => (Spec => []CleanShutdown)
<1> SUFFICES ASSUME ~RefreshFaults PROVE Spec => []CleanShutdown
  OBVIOUS
<1>1. TypeOK /\ StageInv /\ ShutdownInv /\ PresentedInv /\ [Next]_vars
        => ShutdownInv' /\ PresentedInv'
  BY ShutdownNext, PresentedNext
<1>2. Released /\ ShutdownInv /\ PresentedInv => CleanShutdown
  <2> SUFFICES ASSUME Released, ShutdownInv, PresentedInv, Stopped PROVE CleanShutdown
    BY DEF CleanShutdown, Stopped
  <2>1. stops["finally"].stage = "done" /\ stops["finally"].todo = {}
    BY DEF Stopped, ShutdownInv
  <2> QED
    BY <2>1 DEF Released, PresentedInv, CleanShutdown
<1> QED
  BY <1>1, <1>2, ShutdownInit, PresentedInit, StopReleases, StageCorrect, PTL DEF Spec

----------------------------------------------------------------------------
(* The watcher implements ControllerSession: what a lifecycle counts follows *)
(* its controller from endpoint to endpoint, and so does the initial history *)
(* sync its first successful poll calls for.                                 *)

\* A lifecycle is kept under a bound key only, and a controller that this
\* refresh did not see is marked as out of service before the refresh ends.
LossInv ==
  /\ \A k \in Keys : lifecycles[k] # None => bound[k] # None
  /\ pc \in {"missing", "binding"} =>
       \A u \in present : selected[u] = None => u \in toMiss \/ Held(u).offline
  /\ pc = "binding" => toMiss = {}

RInv == IInv /\ LossInv

\* What a step leaves alone: the counts, and being in service or not.
SameHeld(u) ==
  /\ Held(u)'.fails = Held(u).fails /\ Held(u)'.offline = Held(u).offline
  /\ Held(u)'.state = "online" => Held(u).state = "online"

----------------------------------------------------------------------------
(* The step that moves a lifecycle with its controller *)

LEMMA HeldType ==
  ASSUME TypeOK, NEW u \in Controllers
  PROVE  Held(u) \in Lifecycle
BY FreshLifecycleType, LifecycleAtType DEF Held, TypeOK

\* Two controllers never hold the lifecycle of one key.
LEMMA KeysApart ==
  ASSUME OwnershipInv, NEW u \in Known, NEW v \in Known, controllerKey[u] = controllerKey[v]
  PROVE  u = v
BY DEF OwnershipInv

\* The key a controller is about to be bound to is nobody else's.
LEMMA KeyFree ==
  ASSUME NoEndpointReuse, TypeOK, StageInv, OwnershipInv, NEW u \in toBind
  PROVE  /\ u \in Controllers /\ selected[u] # None /\ selected[u].key \in Keys
         /\ \A v \in Known : controllerKey[v] = selected[u].key => v = u
<1>1. u \in Controllers /\ selected[u] # None
  BY DEF TypeOK, StageInv
<1>2. selected[u].key \in Keys /\ u \in Home[selected[u].key]
  BY <1>1 DEF TypeOK, OwnershipInv, Sighting
<1>3. QED  BY <1>1, <1>2 DEF OwnershipInv, NoEndpointReuse, Known

\* Binding moves a lifecycle with its controller, as seen again, and leaves the
\* others alone.
LEMMA BindMoves ==
  ASSUME NoEndpointReuse, TypeOK, StageInv, OwnershipInv, LossInv,
         NEW u \in Controllers, Bind(u), NEW w \in Controllers
  PROVE  Held(w)' = IF w = u THEN MarkDiscovered(Held(u)) ELSE Held(w)
<1> USE WatcherAssumption
<1> DEFINE key == selected[u].key
<1>0. u \in toBind
  BY DEF Bind
<1>1. /\ key \in Keys /\ key # None
      /\ \A v \in Known : controllerKey[v] = key => v = u
  BY <1>0, KeyFree
<1>2. /\ lifecycles' = [k \in Keys |->
           IF k = key THEN MarkDiscovered(LifecycleOf(u, key))
           ELSE IF k \in LeftKeys(u, key) THEN None ELSE lifecycles[k]]
      /\ controllerKey' = [controllerKey EXCEPT ![u] = key]
  BY DEF Bind
<1> HIDE DEF key
<1>3. LifecycleOf(u, key) \in Lifecycle
  BY <1>1, LifecycleAtType DEF LifecycleOf, LeftKeys, TypeOK
<1>4. MarkDiscovered(LifecycleOf(u, key)) \in Lifecycle
  BY <1>3, MarkDiscoveredType
<1>5. CASE w = u
  <2>1. controllerKey'[u] = key /\ lifecycles'[key] = MarkDiscovered(LifecycleOf(u, key))
    BY <1>1, <1>2 DEF TypeOK
  <2>2. Held(u)' = MarkDiscovered(LifecycleOf(u, key))
    BY <1>1, <1>4, <2>1 DEF Held, LifecycleAt
  <2>3. LifecycleOf(u, key) = Held(u)
    <3>1. CASE controllerKey[u] # None
      BY <3>1 DEF LifecycleOf, LeftKeys, Held
    <3>2. CASE controllerKey[u] = None
      <4>1. lifecycles[key] = None
        BY <1>1, <3>2 DEF LossInv, OwnershipInv, TypeOK, Binding, Known
      <4>2. QED  BY <3>2, <4>1 DEF LifecycleOf, LeftKeys, Held, LifecycleAt
    <3>3. QED  BY <3>1, <3>2
  <2>4. QED  BY <1>5, <2>2, <2>3
<1>6. CASE w # u
  <2>1. controllerKey'[w] = controllerKey[w]
    BY <1>2, <1>6 DEF TypeOK
  <2>2. CASE controllerKey[w] = None
    BY <1>6, <2>1, <2>2 DEF Held
  <2>3. CASE controllerKey[w] # None
    <3>1. controllerKey[w] \in Keys /\ controllerKey[w] # key
      BY <1>1, <1>6, <2>3 DEF TypeOK, Known
    <3>2. controllerKey[w] \notin LeftKeys(u, key)
      BY <1>6, <2>3, KeysApart DEF LeftKeys, Known
    <3>3. lifecycles'[controllerKey[w]] = lifecycles[controllerKey[w]]
      BY <1>2, <3>1, <3>2
    <3>4. QED  BY <1>6, <2>1, <2>3, <3>3 DEF Held, LifecycleAt
  <2>4. QED  BY <2>2, <2>3
<1>7. QED  BY <1>5, <1>6

\* The counts stay.
LEMMA BindHeld ==
  ASSUME NoEndpointReuse, TypeOK, StageInv, OwnershipInv, LossInv,
         NEW u \in Controllers, Bind(u), NEW w \in Controllers
  PROVE  SameHeld(w)
<1>1. Held(w)' = IF w = u THEN MarkDiscovered(Held(u)) ELSE Held(w)
  BY BindMoves
<1>2. QED  BY <1>1 DEF SameHeld, MarkDiscovered, StateWhenSeen
----------------------------------------------------------------------------
(* Steps that leave the counts of every controller alone *)

\* Setting aside what is not counted: the clock and "connecting".
LEMMA ConnectingHeld ==
  ASSUME NEW l \in Lifecycle
  PROVE  /\ MarkConnecting(l).fails = l.fails /\ MarkConnecting(l).offline = l.offline
         /\ MarkConnecting(l).state = "online" => l.state = "online"
BY DEF MarkConnecting, Lifecycle

LEMMA ElapseHeld ==
  ASSUME NEW l \in Lifecycle, NEW d
  PROVE  /\ Elapse(l, d).fails = l.fails /\ Elapse(l, d).offline = l.offline
         /\ Elapse(l, d).state = l.state
BY DEF Elapse, Lifecycle

\* A step that changes nothing of a lifecycle but the clock and its state.
LEMMA KeyedHeld ==
  ASSUME TypeOK, UNCHANGED controllerKey, NEW u \in Controllers,
         \A k \in Keys : /\ LifecycleAt(k)'.fails = LifecycleAt(k).fails
                         /\ LifecycleAt(k)'.offline = LifecycleAt(k).offline
                         /\ LifecycleAt(k)'.state = "online" => LifecycleAt(k).state = "online"
  PROVE  SameHeld(u)
BY DEF SameHeld, Held, TypeOK

LEMMA BeginPollsHeld ==
  ASSUME TypeOK, BeginPolls, NEW u \in Controllers
  PROVE  SameHeld(u)
<1>1. \A k \in Keys : LifecycleAt(k)' = LifecycleAt(k)
  BY WatcherAssumption, LifecycleAtType DEF BeginPolls, LifecycleAt, TypeOK
<1>2. QED  BY <1>1, KeyedHeld DEF BeginPolls, mapVars

LEMMA StartPollHeld ==
  ASSUME TypeOK, StageInv, NEW k \in Keys, StartPoll(k), NEW u \in Controllers
  PROVE  SameHeld(u)
<1>1. lifecycles[k] \in Lifecycle /\ lifecycles[k] # None
  BY DEF StartPoll, StageInv, Idle, TypeOK
<1>2. MarkConnecting(lifecycles[k]) \in Lifecycle
  BY <1>1, MarkConnectingType
<1>3. ASSUME NEW l \in Keys
      PROVE  /\ LifecycleAt(l)'.fails = LifecycleAt(l).fails
             /\ LifecycleAt(l)'.offline = LifecycleAt(l).offline
             /\ LifecycleAt(l)'.state = "online" => LifecycleAt(l).state = "online"
  <2>1. CASE l = k
    <3>1. lifecycles'[k] = MarkConnecting(lifecycles[k])
      BY DEF StartPoll, TypeOK
    <3>2. LifecycleAt(k)' = MarkConnecting(lifecycles[k]) /\ LifecycleAt(k) = lifecycles[k]
      BY <1>1, <1>2, <3>1, WatcherAssumption DEF LifecycleAt
    <3>3. QED  BY <1>1, <2>1, <3>2, ConnectingHeld
  <2>2. CASE l # k
    BY <2>2 DEF StartPoll, TypeOK, LifecycleAt
  <2>3. QED  BY <2>1, <2>2
<1>4. QED  BY <1>3, KeyedHeld DEF StartPoll, mapVars

LEMMA SleepHeld ==
  ASSUME TypeOK, NEW d \in 1 .. MaxElapsed, Sleep(d), NEW u \in Controllers
  PROVE  SameHeld(u)
<1>1. ASSUME NEW k \in Keys
      PROVE  /\ LifecycleAt(k)'.fails = LifecycleAt(k).fails
             /\ LifecycleAt(k)'.offline = LifecycleAt(k).offline
             /\ LifecycleAt(k)'.state = "online" => LifecycleAt(k).state = "online"
  <2>1. lifecycles'[k] = IF lifecycles[k] = None THEN None ELSE Elapse(lifecycles[k], d)
    BY DEF Sleep
  <2>2. CASE lifecycles[k] = None
    BY <2>1, <2>2 DEF LifecycleAt
  <2>3. CASE lifecycles[k] # None
    <3>1. lifecycles[k] \in Lifecycle
      BY <2>3 DEF TypeOK
    <3>2. Elapse(lifecycles[k], d) # None
      BY <3>1, ElapseType, WatcherAssumption
    <3>3. QED  BY <2>1, <2>3, <3>1, <3>2, ElapseHeld DEF LifecycleAt
  <2>4. QED  BY <2>2, <2>3
<1>2. QED  BY <1>1, KeyedHeld DEF Sleep, mapVars

----------------------------------------------------------------------------
(* Steps that count *)

\* A key in the map belongs to one controller: what happens to its lifecycle
\* happens to that controller and to no other.
LEMMA OneHeld ==
  ASSUME TypeOK, OwnershipInv, UNCHANGED controllerKey, NEW u \in Known, NEW l \in Lifecycle,
         lifecycles' = [lifecycles EXCEPT ![controllerKey[u]] = l]
  PROVE  Held(u)' = l /\ \A v \in Controllers : v # u => Held(v)' = Held(v)
<1>0. u \in Controllers /\ controllerKey[u] \in Keys /\ controllerKey[u] # None /\ l # None
  BY WatcherAssumption DEF Known, TypeOK
<1>1. Held(u)' = l
  BY <1>0 DEF Held, LifecycleAt, TypeOK
<1>2. ASSUME NEW v \in Controllers, v # u PROVE Held(v)' = Held(v)
  <2>1. CASE controllerKey[v] = None
    BY <2>1 DEF Held
  <2>2. CASE controllerKey[v] # None
    <3>1. controllerKey[v] # controllerKey[u] /\ controllerKey[v] \in Keys
      BY <1>2, <2>2, KeysApart DEF Known, TypeOK
    <3>2. QED  BY <1>0, <2>2, <3>1 DEF Held, LifecycleAt, TypeOK
  <2>3. QED  BY <2>1, <2>2
<1>3. QED  BY <1>1, <1>2

\* The controller whose poll is under way: present, and bound to the polled key.
LEMMA PolledController ==
  ASSUME IInv, NEW k \in Keys, polls[k] # Idle
  PROVE  \E u \in present \cap Known : controllerKey[u] = k /\ Held(u) = lifecycles[k]
                                       /\ lifecycles[k] \in Lifecycle
<1>1. pc = "polling" /\ k \in presentKeys /\ lifecycles[k] # None /\ present \subseteq Known
  BY DEF IInv, StageInv
<1>2. presentKeys = {controllerKey[u] : u \in present}
  BY <1>1 DEF IInv, BindingInv, Settled
<1>3. PICK u \in present : controllerKey[u] = k
  BY <1>1, <1>2
<1>4. u \in Known /\ Held(u) = lifecycles[k] /\ lifecycles[k] \in Lifecycle
  BY <1>1, <1>3 DEF Held, LifecycleAt, Known, IInv, TypeOK
<1>5. QED  BY <1>1, <1>3, <1>4

LEMMA MissedController ==
  ASSUME IInv, NEW u \in Controllers, MarkAbsent(u)
  PROVE  u \in present /\ Held(u)' = MarkMissing(Held(u))
         /\ \A v \in Controllers : v # u => Held(v)' = Held(v)
<1>1. u \in present /\ u \in Known
  BY DEF MarkAbsent, IInv, StageInv
<1>2. Held(u) = LifecycleAt(controllerKey[u]) /\ MarkMissing(Held(u)) \in Lifecycle
  BY <1>1, HeldType, MarkMissingType DEF Held, Known, IInv
<1>3. lifecycles' = [lifecycles EXCEPT ![controllerKey[u]] = MarkMissing(Held(u))]
      /\ UNCHANGED controllerKey
  BY <1>2 DEF MarkAbsent, mapVars
<1>4. QED  BY <1>1, <1>2, <1>3, OneHeld DEF IInv

----------------------------------------------------------------------------
(* LossInv *)

LEMMA LossInit == Init => LossInv
BY DEF Init, LossInv

\* A step that keeps what LossInv says of the counts.
LEMMA LossFrame ==
  ASSUME IInv, LossInv, \A u \in Controllers : SameHeld(u),
         \A k \in Keys : lifecycles'[k] # None => bound'[k] # None,
         UNCHANGED <<present, selected, toMiss>>,
         pc' \in {"missing", "binding"} => pc' = pc
  PROVE  LossInv'
<1>1. present \subseteq Controllers
  BY DEF IInv, TypeOK
<1>2. \A u \in present : Held(u)'.offline = Held(u).offline
  BY <1>1 DEF SameHeld
<1>3. QED  BY <1>2 DEF LossInv
----------------------------------------------------------------------------
(* Every step is a step of ControllerSession or changes nothing of it *)

Simulated == [Session!Next]_(Session!sessionVars)

LEMMA SameCounts ==
  ASSUME \A u \in Controllers : SameHeld(u)
  PROVE  UNCHANGED <<SessionFails, SessionDown>>
BY DEF SameHeld, SessionFails, SessionDown

LEMMA Stutter ==
  ASSUME UNCHANGED present, \A u \in Controllers : SameHeld(u)
  PROVE  Simulated
BY SameCounts DEF Simulated, Session!sessionVars

\* Most steps touch neither a lifecycle nor a key of a controller.
LEMMA QuietStep ==
  ASSUME IInv, LossInv, UNCHANGED <<present, controllerKey, lifecycles, selected, toMiss, bound>>,
         pc' \in {"missing", "binding"} => pc' = pc
  PROVE  LossInv' /\ Simulated
<1>1. \A u \in Controllers : SameHeld(u)
  BY DEF SameHeld, Held, LifecycleAt
<1>2. \A k \in Keys : lifecycles'[k] # None => bound'[k] # None
  BY DEF LossInv
<1>3. QED  BY <1>1, <1>2, LossFrame, Stutter

LEMMA ReconcileStep ==
  ASSUME IInv, LossInv, Reconcile
  PROVE  LossInv' /\ Simulated
<1>1. UNCHANGED <<present, controllerKey, lifecycles, bound>>
  BY DEF Reconcile, mapVars
<1>2. \A u \in Controllers : SameHeld(u)
  BY <1>1 DEF SameHeld, Held, LifecycleAt
<1>3. LossInv'
  BY <1>1 DEF Reconcile, LossInv
<1>4. QED  BY <1>1, <1>2, <1>3, Stutter

LEMMA BeginBindingStep ==
  ASSUME IInv, LossInv, BeginBinding
  PROVE  LossInv' /\ Simulated
<1>1. UNCHANGED <<present, controllerKey, lifecycles, bound, selected, toMiss>>
  BY DEF BeginBinding, mapVars, refreshVars
<1>2. \A u \in Controllers : SameHeld(u) /\ Held(u)' = Held(u)
  BY <1>1 DEF SameHeld, Held, LifecycleAt
<1>3. LossInv'
  BY <1>1, <1>2 DEF BeginBinding, LossInv, IInv, TypeOK
<1>4. QED  BY <1>1, <1>2, <1>3, Stutter

LEMMA BindStep ==
  ASSUME NoEndpointReuse, IInv, LossInv, NEW u \in Controllers, Bind(u)
  PROVE  LossInv' /\ Simulated
<1>1. UNCHANGED <<present, selected, toMiss, pc>>
  BY DEF Bind
<1>2. \A w \in Controllers : SameHeld(w)
  BY BindHeld DEF IInv
<1>3. \A k \in Keys : lifecycles'[k] # None => bound'[k] # None
  <2>1. [uid |-> u, path |-> selected[u].path] \in Binding
    BY DEF Bind, IInv, TypeOK, StageInv, Sighting, Binding
  <2>2. QED  BY <2>1, WatcherAssumption DEF Bind, LossInv, Binding
<1>4. QED  BY <1>1, <1>2, <1>3, LossFrame, Stutter

LEMMA BeginPollsStep ==
  ASSUME IInv, LossInv, BeginPolls
  PROVE  LossInv' /\ Simulated
<1>1. UNCHANGED <<present, selected, toMiss, bound, controllerKey>> /\ pc' = "polling"
      /\ pc \in {"dispatch", "top"}
  BY DEF BeginPolls, mapVars, refreshVars
<1>2. \A u \in Controllers : SameHeld(u)
  BY BeginPollsHeld DEF IInv
<1>3. \A k \in presentKeys : bound[k] # None
  BY <1>1 DEF IInv, BindingInv, Settled, StageInv, OwnershipInv
<1>4. \A k \in Keys : lifecycles'[k] # None => bound'[k] # None
  BY <1>1, <1>3 DEF BeginPolls, LossInv
<1>5. QED  BY <1>1, <1>2, <1>4, LossFrame, Stutter

LEMMA StartPollStep ==
  ASSUME IInv, LossInv, NEW k \in Keys, StartPoll(k)
  PROVE  LossInv' /\ Simulated
<1>1. UNCHANGED <<present, selected, toMiss, bound, pc>>
  BY DEF StartPoll, mapVars, refreshVars
<1>2. \A u \in Controllers : SameHeld(u)
  BY StartPollHeld DEF IInv
<1>3. bound[k] # None
  BY DEF StartPoll, IInv, StageInv, Idle
<1>4. \A l \in Keys : lifecycles'[l] # None => bound'[l] # None
  BY <1>1, <1>3 DEF StartPoll, LossInv, IInv, TypeOK
<1>5. QED  BY <1>1, <1>2, <1>4, LossFrame, Stutter

LEMMA SleepStep ==
  ASSUME IInv, LossInv, NEW d \in 1 .. MaxElapsed, Sleep(d)
  PROVE  LossInv' /\ Simulated
<1>1. UNCHANGED <<present, selected, toMiss, bound>> /\ pc' = "top"
  BY DEF Sleep, mapVars, refreshVars
<1>2. \A u \in Controllers : SameHeld(u)
  BY SleepHeld DEF IInv
<1>3. \A k \in Keys : lifecycles'[k] # None => bound'[k] # None
  BY <1>1 DEF Sleep, LossInv
<1>4. QED  BY <1>1, <1>2, <1>3, LossFrame, Stutter

\* A controller that is not seen is out of service before the refresh ends.
LEMMA EndRefreshStep ==
  ASSUME IInv, LossInv, EndRefresh
  PROVE  LossInv' /\ Simulated
<1>1. UNCHANGED <<controllerKey, lifecycles, bound>> /\ pc' = "dispatch"
      /\ present' = {u \in Controllers : selected[u] # None}
  BY DEF EndRefresh
<1>2. LossInv'
  BY <1>1 DEF LossInv
<1>3. \A u \in Controllers : SameHeld(u)
  BY <1>1 DEF SameHeld, Held, LifecycleAt
<1>4. \A u \in present \ present' : SessionDown[u]
  BY <1>1 DEF EndRefresh, LossInv, SessionDown, IInv, TypeOK
<1>5. Session!Sight(present')
  BY <1>3, <1>4, SameCounts DEF Session!Sight
<1>6. present' \in SUBSET Controllers
  BY <1>1
<1>7. QED  BY <1>2, <1>5, <1>6 DEF Simulated, Session!Next

LEMMA MarkAbsentStep ==
  ASSUME IInv, LossInv, NEW u \in Controllers, MarkAbsent(u)
  PROVE  LossInv' /\ Simulated
<1>1. /\ UNCHANGED <<present, selected, bound, controllerKey, pc>> /\ pc = "missing"
      /\ toMiss' = toMiss \ {u}
  BY DEF MarkAbsent, mapVars
<1>2. /\ u \in present /\ Held(u)' = MarkMissing(Held(u))
      /\ \A v \in Controllers : v # u => Held(v)' = Held(v)
  BY MissedController
<1>3. Held(u)'.fails = Held(u).fails /\ Held(u)'.offline = TRUE
  BY <1>2, HeldType DEF MarkMissing, Lifecycle, IInv
<1>4. LossInv'
  <2>1. \A k \in Keys : lifecycles'[k] # None => bound'[k] # None
    <3>1. controllerKey[u] \in Keys /\ bound[controllerKey[u]] # None
      BY <1>2 DEF IInv, StageInv, OwnershipInv, Known, TypeOK
    <3>2. QED  BY <1>1, <3>1 DEF MarkAbsent, LossInv, IInv, TypeOK
  <2>2. ASSUME NEW v \in present', selected'[v] = None
        PROVE  v \in toMiss' \/ Held(v)'.offline
    <3>1. v \in Controllers /\ (v \in toMiss \/ Held(v).offline)
      BY <1>1, <2>2 DEF LossInv, IInv, TypeOK
    <3>2. QED  BY <1>1, <1>2, <1>3, <3>1
  <2>3. QED  BY <1>1, <2>1, <2>2 DEF LossInv
<1>5. /\ SessionFails' = SessionFails
      /\ SessionDown' = [SessionDown EXCEPT ![u] = TRUE]
  BY <1>2, <1>3 DEF SessionFails, SessionDown
<1>6. Session!Lose(u)
  BY <1>1, <1>2, <1>5 DEF Session!Lose
<1>7. QED  BY <1>4, <1>6 DEF Simulated, Session!Next

\* What a poll that ends changes of the counts of its controller.
LEMMA PollEnds ==
  ASSUME IInv, LossInv, NEW k \in Keys, polls[k] # Idle, NEW l \in Lifecycle,
         lifecycles' = [lifecycles EXCEPT ![k] = l],
         UNCHANGED <<present, controllerKey, bound, selected, toMiss, pc>>
  PROVE  /\ LossInv'
         /\ \E u \in present \cap Controllers :
              /\ Held(u) = lifecycles[k] /\ lifecycles[k] \in Lifecycle
              /\ SessionFails' = [SessionFails EXCEPT ![u] = l.fails]
              /\ SessionDown' = [SessionDown EXCEPT ![u] = l.offline]
<1>1. PICK u \in present \cap Known :
        controllerKey[u] = k /\ Held(u) = lifecycles[k] /\ lifecycles[k] \in Lifecycle
  BY PolledController
<1>2. Held(u)' = l /\ \A v \in Controllers : v # u => Held(v)' = Held(v)
  BY <1>1, OneHeld DEF IInv
<1>3. u \in Controllers
  BY <1>1 DEF Known
<1>4. /\ SessionFails' = [SessionFails EXCEPT ![u] = l.fails]
      /\ SessionDown' = [SessionDown EXCEPT ![u] = l.offline]
  BY <1>2, <1>3 DEF SessionFails, SessionDown
<1>5. LossInv'
  <2>1. pc = "polling" /\ bound[k] # None
    BY DEF IInv, StageInv
  <2>2. QED  BY <2>1 DEF LossInv, IInv, TypeOK
<1>6. QED  BY <1>1, <1>3, <1>4, <1>5

LEMMA PollSucceedsStep ==
  ASSUME IInv, LossInv, NEW k \in Keys, NEW persist \in BOOLEAN, PollSucceeds(k, persist)
  PROVE  LossInv' /\ Simulated
<1> DEFINE l == MarkSuccess(lifecycles[k])
<1>1. /\ UNCHANGED <<present, controllerKey, bound, selected, toMiss, pc>>
      /\ polls[k] # Idle /\ lifecycles' = [lifecycles EXCEPT ![k] = l]
  BY DEF PollSucceeds, mapVars, refreshVars, Idle, IInv, TypeOK
<1>2. lifecycles[k] \in Lifecycle
  BY <1>1, PolledController
<1>3. l \in Lifecycle
  BY <1>2, MarkSuccessType
<1>4. l.fails = 0 /\ l.offline = FALSE
  BY DEF MarkSuccess
<1> HIDE DEF l
<1>5. LossInv' /\ \E v \in present \cap Controllers :
                    /\ SessionFails' = [SessionFails EXCEPT ![v] = l.fails]
                    /\ SessionDown' = [SessionDown EXCEPT ![v] = l.offline]
  BY <1>1, <1>3, PollEnds
<1>6. \E v \in Controllers : Session!Succeed(v)
  BY <1>1, <1>4, <1>5 DEF Session!Succeed
<1>7. QED  BY <1>5, <1>6 DEF Simulated, Session!Next

LEMMA PollFailsStep ==
  ASSUME IInv, LossInv, NEW k \in Keys, NEW persist \in BOOLEAN, PollFails(k, persist)
  PROVE  LossInv' /\ Simulated
<1> DEFINE l == MarkFailure(lifecycles[k])
<1>1. /\ UNCHANGED <<present, controllerKey, bound, selected, toMiss, pc>>
      /\ polls[k] # Idle /\ lifecycles' = [lifecycles EXCEPT ![k] = l]
  BY DEF PollFails, mapVars, refreshVars, Idle, IInv, TypeOK
<1>2. lifecycles[k] \in Lifecycle
  BY <1>1, PolledController
<1>3. l \in Lifecycle
  BY <1>2, MarkFailureType
<1>4. l.fails = CountFailure(lifecycles[k].fails)
      /\ l.offline = (lifecycles[k].offline \/ l.fails >= FailureThreshold)
  BY DEF MarkFailure
<1> HIDE DEF l
<1>5. PICK v \in present \cap Controllers :
        /\ Held(v) = lifecycles[k]
        /\ SessionFails' = [SessionFails EXCEPT ![v] = l.fails]
        /\ SessionDown' = [SessionDown EXCEPT ![v] = l.offline]
  BY <1>1, <1>3, PollEnds
<1>6. SessionFails[v] = lifecycles[k].fails /\ SessionDown[v] = lifecycles[k].offline
  BY <1>5 DEF SessionFails, SessionDown
<1>7. SessionFails' =
        [SessionFails EXCEPT ![v] = IF @ < FailCap THEN @ + 1 ELSE @]
  BY <1>4, <1>5, <1>6 DEF CountFailure
<1>8. SessionFails'[v] = l.fails
  BY <1>5 DEF SessionFails
<1>9. SessionDown' =
        [SessionDown EXCEPT ![v] = @ \/ SessionFails'[v] >= FailureThreshold]
  BY <1>4, <1>5, <1>6, <1>8
<1>10. Session!Fail(v)
  BY <1>1, <1>5, <1>7, <1>9 DEF Session!Fail
<1>11. LossInv'
  BY <1>1, <1>3, PollEnds
<1>12. QED  BY <1>5, <1>10, <1>11 DEF Simulated, Session!Next

LEMMA CrashStep ==
  ASSUME Crash
  PROVE  LossInv' /\ Simulated
<1>1. LossInv'
  BY DEF Crash, LossInv
<1>2. \A u \in Controllers : Held(u)'.fails = 0 /\ Held(u)'.offline = FALSE
  BY DEF Crash, Held, FreshLifecycle
<1>3. /\ SessionFails' = [u \in Controllers |-> 0]
      /\ SessionDown' = [u \in Controllers |-> FALSE]
  BY <1>2 DEF SessionFails, SessionDown
<1>4. Session!Restart
  BY <1>3 DEF Session!Restart, Crash
<1>5. QED  BY <1>1, <1>4 DEF Simulated, Session!Next
----------------------------------------------------------------------------
(* The theorem *)

LEMMA Simulation ==
  ASSUME NoEndpointReuse, IInv, LossInv, [Next]_vars
  PROVE  LossInv' /\ Simulated
<1> USE DEF refreshVars, mapVars
<1>1. CASE Start
  BY <1>1, QuietStep DEF Start
<1>2. CASE LeaveLoop
  BY <1>2, QuietStep DEF LeaveLoop
<1>3. CASE BeginRefresh
  BY <1>3, QuietStep DEF BeginRefresh
<1>4. ASSUME NEW S \in Discoveries, Discover(S) PROVE LossInv' /\ Simulated
  BY <1>4, QuietStep DEF Discover
<1>5. ASSUME NEW s \in Sighting, Register(s) PROVE LossInv' /\ Simulated
  BY <1>5, QuietStep DEF Register
<1>6. CASE RefreshFails
  BY <1>6, QuietStep DEF RefreshFails
<1>7. ASSUME NEW k \in Keys, Poll(k) PROVE LossInv' /\ Simulated
  <2>1. CASE SaveSuccess(k)
    BY <2>1, QuietStep DEF SaveSuccess
  <2>2. CASE SaveFailure(k)
    BY <2>2, QuietStep DEF SaveFailure
  <2>3. CASE PollRaises(k)
    BY <2>3, QuietStep DEF PollRaises
  <2>4. QED
    BY <1>7, <2>1, <2>2, <2>3, StartPollStep, PollSucceedsStep, PollFailsStep DEF Poll
<1>8. ASSUME NEW b \in BackfillTask, FinishBackfill(b) PROVE LossInv' /\ Simulated
  BY <1>8, QuietStep DEF FinishBackfill
<1>9. ASSUME NEW s \in Stoppers, BeginStop(s) PROVE LossInv' /\ Simulated
  BY <1>9, QuietStep DEF BeginStop
<1>10. ASSUME NEW s \in Stoppers, Stop(s) PROVE LossInv' /\ Simulated
  <2>1. UNCHANGED <<present, controllerKey, lifecycles, selected, toMiss, bound>>
        /\ (pc' = pc \/ pc' = "returned")
    BY <1>10 DEF Stop, StopMarks, StopTakes, StopGathers, StopCloses
  <2>2. QED  BY <2>1, QuietStep
<1>11. CASE Ended \/ UNCHANGED vars
  BY <1>11, QuietStep DEF Ended, vars, volatile
<1>12. QED
  BY <1>1, <1>2, <1>3, <1>4, <1>5, <1>6, <1>7, <1>8, <1>9, <1>10, <1>11, ReconcileStep,
     BeginBindingStep, BindStep, MarkAbsentStep, EndRefreshStep, BeginPollsStep, SleepStep,
     CrashStep DEF Next, Loop, Refresh

LEMMA RefinementInit == Init => Session!Init
<1> SUFFICES ASSUME Init PROVE Session!Init
  OBVIOUS
<1>1. \A u \in Controllers : Held(u).fails = 0 /\ Held(u).offline = FALSE
  BY DEF Init, Held, FreshLifecycle
<1>2. QED  BY <1>1 DEF Init, Session!Init, SessionFails, SessionDown

\* The watcher is a ControllerSession as long as no address is handed over: the
\* failures counted and the outage under way belong to the controller, wherever
\* its next poll goes; none is lost and none is another controller's; and it is
\* marked as out of service before it leaves the present controllers.
THEOREM Refinement == NoEndpointReuse => (Spec => LifecycleFollowsController)
<1> SUFFICES ASSUME NoEndpointReuse PROVE Spec => LifecycleFollowsController
  OBVIOUS
<1>1. IInv /\ LossInv /\ [Next]_vars => LossInv' /\ Simulated
  BY Simulation
<1>2. QED
  BY <1>1, LossInit, RefinementInit, InductiveInvariant, PTL
  DEF Spec, LifecycleFollowsController, Session!Spec, Simulated

----------------------------------------------------------------------------
(* The initial history sync: what a lifecycle says follows its controller,   *)
(* so a controller in service has been through a successful poll of its own. *)

Ending == pc \in {"final", "returned"}
Saving(u) == controllerKey[u] \in Keys /\ polls[controllerKey[u]].stage = "saving"

LEMMA OnlineKey ==
  ASSUME TypeOK, NEW u \in Controllers, Held(u).state = "online"
  PROVE  controllerKey[u] \in Keys
BY DEF TypeOK, Held, FreshLifecycle

LEMMA SyncInit == Init => SyncInv
BY WatcherAssumption DEF Init, SyncInv, Held, FreshLifecycle

\* A step that puts no controller in service and drops no attempt.
LEMMA SyncFrame ==
  ASSUME TypeOK, SyncInv, attempted \subseteq attempted', Ending => Ending',
         \A b \in backfills' : b \in backfills \/ b.holder # "watcher" \/ b.uid \in attempted',
         ~Ending' => \A u \in Supported :
           /\ Held(u)'.state = "online" => Held(u).state = "online"
           /\ Held(u)'.state = "online" /\ Saving(u) => Saving(u)' \/ u \in attempted'
  PROVE  SyncInv'
<1>1. \A b \in backfills' : b.holder = "watcher" => b.uid \in attempted'
  BY DEF SyncInv
<1>2. ASSUME BackfillOnStartup, ~Ending', NEW u \in Supported, Held(u)'.state = "online"
      PROVE  u \in attempted' \/ Saving(u)'
  <2>1. u \in Controllers /\ Held(u).state = "online" /\ ~Ending
    BY <1>2, WatcherAssumption
  <2>2. u \in attempted \/ Saving(u)
    BY <1>2, <2>1, OnlineKey DEF SyncInv, Saving, Ending
  <2>3. QED  BY <1>2, <2>2
<1>3. QED  BY <1>1, <1>2 DEF SyncInv, Ending, Saving

\* No poll is saved outside of the polling stage.
LEMMA NotSaving ==
  ASSUME StageInv, pc # "polling", NEW u
  PROVE  ~Saving(u)
BY DEF StageInv, Saving, Idle

\* A step that leaves the tasks, the attempts and the saved polls alone.
LEMMA SyncSame ==
  ASSUME TypeOK, StageInv, SyncInv, UNCHANGED attempted, backfills' \subseteq backfills,
         Ending => Ending', \A u \in Controllers : SameHeld(u),
         pc = "polling" /\ ~Ending' =>
           \A u \in Controllers : Saving(u) => Saving(u)' \/ u \in attempted
  PROVE  SyncInv'
<1>1. \A u \in Supported : u \in Controllers
  BY WatcherAssumption
<1>2. QED  BY <1>1, NotSaving, SyncFrame DEF SameHeld

\* The keys and lifecycles stay as they are.
LEMMA SyncQuiet ==
  ASSUME TypeOK, StageInv, SyncInv,
         UNCHANGED <<attempted, controllerKey, lifecycles>>, backfills' \subseteq backfills,
         Ending => Ending', ~Ending' => polls' = polls
  PROVE  SyncInv'
<1>1. \A u \in Controllers : SameHeld(u)
  BY DEF SameHeld, Held, LifecycleAt
<1>2. \A u \in Controllers : ~Ending' /\ Saving(u) => Saving(u)'
  BY DEF Saving
<1>3. QED  BY <1>1, <1>2, SyncSame

\* _schedule_history_backfill after a successful poll.
LEMMA Scheduled ==
  ASSUME SyncInv, NEW u \in Supported, NEW r \in BOOLEAN, BackfillOnStartup,
         ScheduleBackfill(u, r)
  PROVE  u \in attempted'
BY DEF SyncInv, ScheduleBackfill, ShouldSync, HeldTask, historyVars

LEMMA ScheduledKeeps ==
  ASSUME NEW u, NEW r, ScheduleBackfill(u, r)
  PROVE  /\ attempted \subseteq attempted'
         /\ \A b \in backfills' : b \in backfills \/ b.holder # "watcher" \/ b.uid \in attempted'
BY DEF ScheduleBackfill, HeldTask, historyVars

\* A poll that is over, saved or not: its controller's sync is attempted.
LEMMA PollOverSync ==
  ASSUME IInv, SyncInv, BackfillOnStartup, NEW k \in Keys, polls[k] # Idle,
         polls' = [polls EXCEPT ![k] = Idle],
         ScheduleBackfill(bound[k].uid, polls[k].reconnected),
         UNCHANGED <<controllerKey, pc>>,
         \A u \in Controllers : controllerKey[u] # k => Held(u)' = Held(u)
  PROVE  SyncInv'
<1>1. PICK v \in present \cap Known : controllerKey[v] = k
  BY PolledController
<1>2. bound[k].uid = v /\ v \in Controllers
  BY <1>1 DEF IInv, OwnershipInv, Known
<1>3. polls[k].reconnected \in BOOLEAN
  BY DEF IInv, TypeOK
<1>4. v \in Supported => v \in attempted'
  BY <1>2, <1>3, Scheduled
<1>5. /\ attempted \subseteq attempted'
      /\ \A b \in backfills' : b \in backfills \/ b.holder # "watcher" \/ b.uid \in attempted'
  BY <1>2, ScheduledKeeps
<1>6. ASSUME NEW u \in Supported, Held(u)'.state = "online"
      PROVE  u \in attempted' \/ Saving(u)'
  <2>1. CASE u = v
    BY <1>4, <2>1
  <2>2. CASE u # v
    <3>1. u \in Controllers /\ controllerKey[u] # k
      <4>1. controllerKey[u] # None => u \in Known
        BY WatcherAssumption DEF Known
      <4>2. QED  BY <1>1, <2>2, <4>1, KeysApart, WatcherAssumption DEF IInv
    <3>2. Held(u).state = "online" /\ pc = "polling"
      BY <1>6, <3>1 DEF IInv, StageInv
    <3>3. u \in attempted \/ Saving(u)
      BY <3>1, <3>2, OnlineKey DEF SyncInv, Saving, IInv
    <3>4. Saving(u) => Saving(u)'
      BY <3>1 DEF Saving, IInv, TypeOK
    <3>5. QED  BY <1>5, <3>3, <3>4
  <2>3. QED  BY <2>1, <2>2
<1>7. QED  BY <1>5, <1>6 DEF SyncInv, Saving

\* Without backfill.on_startup the invariant only speaks of tasks.
LEMMA NoStartupSync ==
  ASSUME SyncInv, ~BackfillOnStartup,
         \A b \in backfills' : b \in backfills \/ b.holder # "watcher" \/ b.uid \in attempted',
         attempted \subseteq attempted'
  PROVE  SyncInv'
BY DEF SyncInv

LEMMA PollSucceedsSync ==
  ASSUME IInv, SyncInv, NEW k \in Keys, NEW persist \in BOOLEAN, PollSucceeds(k, persist)
  PROVE  SyncInv'
<1>1. PICK v \in present \cap Known :
        controllerKey[v] = k /\ Held(v) = lifecycles[k] /\ lifecycles[k] \in Lifecycle
  BY PolledController DEF PollSucceeds, Idle
<1>2. MarkSuccess(lifecycles[k]) \in Lifecycle
  BY <1>1, MarkSuccessType
<1>3. /\ lifecycles' = [lifecycles EXCEPT ![k] = MarkSuccess(lifecycles[k])]
      /\ UNCHANGED <<controllerKey, pc>> /\ polls[k] # Idle
  BY DEF PollSucceeds, mapVars, Idle, IInv, TypeOK
<1>4. \A u \in Controllers : u # v => Held(u)' = Held(u)
  BY <1>1, <1>2, <1>3, OneHeld DEF IInv
<1>5. CASE persist
  <2>1. polls' = [polls EXCEPT ![k] = PollAt("saving", polls[k].reconnected)]
        /\ UNCHANGED <<attempted, backfills>>
    BY <1>5 DEF PollSucceeds, historyVars
  <2>2. \A u \in Controllers : Saving(u) \/ u = v => Saving(u)'
    BY <1>1, <1>3, <2>1 DEF Saving, PollAt, IInv, TypeOK
  <2>3. \A u \in Supported : u \in Controllers
    BY WatcherAssumption
  <2>4. ASSUME BackfillOnStartup, ~Ending', NEW u \in Supported, Held(u)'.state = "online"
        PROVE  u \in attempted' \/ Saving(u)'
    <3>1. CASE u = v
      BY <2>2, <2>3, <3>1
    <3>2. CASE u # v
      <4>1. Held(u).state = "online" /\ ~Ending
        BY <1>3, <1>4, <2>3, <2>4, <3>2 DEF Ending
      <4>2. u \in attempted \/ Saving(u)
        BY <2>3, <2>4, <4>1, OnlineKey DEF SyncInv, Saving, Ending, IInv
      <4>3. QED  BY <2>1, <2>2, <2>3, <4>2
    <3>3. QED  BY <3>1, <3>2
  <2>5. QED  BY <2>1, <2>4 DEF SyncInv, Saving, Ending
<1>6. CASE ~persist
  <2>1. polls' = [polls EXCEPT ![k] = Idle]
        /\ ScheduleBackfill(bound[k].uid, polls[k].reconnected)
    BY <1>6 DEF PollSucceeds
  <2>2. CASE BackfillOnStartup
    BY <1>1, <1>3, <1>4, <2>1, <2>2, PollOverSync
  <2>3. CASE ~BackfillOnStartup
    BY <2>1, <2>3, ScheduledKeeps, NoStartupSync
  <2>4. QED  BY <2>2, <2>3
<1>7. QED  BY <1>5, <1>6

LEMMA SaveSuccessSync ==
  ASSUME IInv, SyncInv, NEW k \in Keys, SaveSuccess(k)
  PROVE  SyncInv'
<1>1. /\ polls' = [polls EXCEPT ![k] = Idle] /\ polls[k] # Idle
      /\ ScheduleBackfill(bound[k].uid, polls[k].reconnected)
      /\ UNCHANGED <<pc, controllerKey, lifecycles>>
  BY DEF SaveSuccess, mapVars, Idle
<1>2. \A u \in Controllers : Held(u)' = Held(u)
  BY <1>1 DEF Held, LifecycleAt
<1>3. CASE BackfillOnStartup
  BY <1>1, <1>2, <1>3, PollOverSync
<1>4. CASE ~BackfillOnStartup
  BY <1>1, <1>4, ScheduledKeeps, NoStartupSync
<1>5. QED  BY <1>3, <1>4

LEMMA PollFailsSync ==
  ASSUME IInv, SyncInv, NEW k \in Keys, NEW persist \in BOOLEAN, PollFails(k, persist)
  PROVE  SyncInv'
<1>1. PICK v \in present \cap Known :
        controllerKey[v] = k /\ Held(v) = lifecycles[k] /\ lifecycles[k] \in Lifecycle
  BY PolledController DEF PollFails, Idle
<1> DEFINE l == MarkFailure(lifecycles[k])
<1>2. l \in Lifecycle
  BY <1>1, MarkFailureType
<1>3. /\ lifecycles' = [lifecycles EXCEPT ![k] = l] /\ polls[k].stage = "reading"
      /\ UNCHANGED <<controllerKey, pc, attempted, backfills>>
      /\ \A j \in Keys : j # k => polls'[j] = polls[j]
  BY DEF PollFails, mapVars, historyVars, IInv, TypeOK
<1>4. l.state # "online"
  BY DEF MarkFailure
<1> HIDE DEF l
<1>5. Held(v)' = l /\ \A u \in Controllers : u # v => Held(u)' = Held(u)
  BY <1>1, <1>2, <1>3, OneHeld DEF IInv
<1>6. \A u \in Supported : u \in Controllers
  BY WatcherAssumption
<1>7. \A u \in Controllers : Saving(u) => Saving(u)'
  BY <1>3 DEF Saving
<1>8. \A u \in Supported : Held(u)'.state = "online" => Held(u).state = "online"
  BY <1>4, <1>5, <1>6
<1>9. QED  BY <1>3, <1>6, <1>7, <1>8, SyncFrame DEF Ending, IInv

LEMMA MarkAbsentSync ==
  ASSUME IInv, SyncInv, NEW u \in Controllers, MarkAbsent(u)
  PROVE  SyncInv'
<1>1. /\ UNCHANGED <<pc, attempted, backfills>> /\ pc = "missing"
  BY DEF MarkAbsent, historyVars
<1>2. /\ Held(u)' = MarkMissing(Held(u))
      /\ \A v \in Controllers : v # u => Held(v)' = Held(v)
  BY MissedController
<1>3. Held(u)'.state # "online"
  BY <1>2, HeldType DEF MarkMissing, Lifecycle, IInv
<1>4. \A v \in Supported : v \in Controllers /\ ~Saving(v)
  BY <1>1, NotSaving, WatcherAssumption DEF IInv
<1>5. QED  BY <1>1, <1>2, <1>3, <1>4, SyncFrame DEF Ending, IInv
LEMMA StopTakesSync ==
  ASSUME IInv, SyncInv, NEW s \in Stoppers, StopTakes(s)
  PROVE  SyncInv'
<1>1. /\ UNCHANGED <<pc, attempted, controllerKey, lifecycles, polls>>
      /\ backfills' = {Taken(b, s) : b \in backfills}
  BY DEF StopTakes, mapVars
<1>2. \A b \in backfills' : b \in backfills \/ b.holder # "watcher"
  <2>1. ASSUME NEW b \in backfills, b.holder = "watcher" PROVE Taken(b, s).holder = s
    BY <2>1 DEF Taken, BackfillTask, IInv, TypeOK
  <2>2. s # "watcher"
    BY DEF Stoppers
  <2>3. QED  BY <1>1, <2>1, <2>2 DEF Taken
<1>3. \A u \in Supported : Held(u)' = Held(u) /\ (Saving(u) => Saving(u)')
  BY <1>1 DEF Held, LifecycleAt, Saving
<1>4. QED  BY <1>1, <1>2, <1>3, SyncFrame DEF Ending, IInv

LEMMA CrashSync ==
  ASSUME Crash
  PROVE  SyncInv'
<1>1. \A u \in Supported : Held(u)'.state = "discovered"
  BY WatcherAssumption DEF Crash, Held, FreshLifecycle
<1>2. backfills' = {}
  BY DEF Crash
<1>3. QED  BY <1>1, <1>2 DEF SyncInv

LEMMA SyncNext ==
  ASSUME NoEndpointReuse, IInv, LossInv, SyncInv, [Next]_vars
  PROVE  SyncInv'
<1> USE DEF refreshVars, mapVars, historyVars, Ending
<1>0. TypeOK /\ StageInv
  BY DEF IInv
<1>1. CASE Start
  BY <1>0, <1>1, SyncQuiet DEF Start
<1>2. CASE LeaveLoop
  BY <1>0, <1>2, SyncQuiet DEF LeaveLoop
<1>3. CASE BeginRefresh
  BY <1>0, <1>3, SyncQuiet DEF BeginRefresh
<1>4. ASSUME NEW S \in Discoveries, Discover(S) PROVE SyncInv'
  BY <1>0, <1>4, SyncQuiet DEF Discover
<1>5. ASSUME NEW s \in Sighting, Register(s) PROVE SyncInv'
  BY <1>0, <1>5, SyncQuiet DEF Register
<1>6. CASE Reconcile
  BY <1>0, <1>6, SyncQuiet DEF Reconcile
<1>7. CASE BeginBinding
  BY <1>0, <1>7, SyncQuiet DEF BeginBinding
<1>8. ASSUME NEW u \in Controllers, Bind(u) PROVE SyncInv'
  <2>1. \A w \in Controllers : SameHeld(w)
    BY <1>8, BindHeld DEF IInv
  <2>2. pc = "binding" /\ UNCHANGED <<pc, attempted, backfills>>
    BY <1>8 DEF Bind
  <2>3. QED  BY <1>0, <2>1, <2>2, SyncSame
<1>9. CASE EndRefresh
  BY <1>0, <1>9, SyncQuiet DEF EndRefresh
<1>10. CASE RefreshFails
  BY <1>0, <1>10, SyncQuiet DEF RefreshFails
<1>11. CASE BeginPolls
  <2>1. \A u \in Controllers : SameHeld(u)
    BY <1>0, <1>11, BeginPollsHeld
  <2>2. pc \in {"dispatch", "top"} /\ pc' = "polling" /\ UNCHANGED <<attempted, backfills>>
    BY <1>11 DEF BeginPolls
  <2>3. QED  BY <1>0, <2>1, <2>2, SyncSame
<1>12. ASSUME NEW k \in Keys, StartPoll(k) PROVE SyncInv'
  <2>1. \A u \in Controllers : SameHeld(u)
    BY <1>0, <1>12, StartPollHeld
  <2>2. /\ UNCHANGED <<pc, attempted, backfills, controllerKey>>
        /\ polls[k].stage = "created"
        /\ \A j \in Keys : j # k => polls'[j] = polls[j]
    BY <1>0, <1>12 DEF StartPoll, TypeOK
  <2>3. \A u \in Controllers : Saving(u) => Saving(u)'
    BY <2>2 DEF Saving
  <2>4. QED  BY <1>0, <2>1, <2>2, <2>3, SyncSame
<1>13. ASSUME NEW k \in Keys, SaveFailure(k) PROVE SyncInv'
  <2>1. /\ UNCHANGED <<pc, attempted, backfills, controllerKey, lifecycles>>
        /\ polls[k].stage = "failing"
        /\ \A j \in Keys : j # k => polls'[j] = polls[j]
    BY <1>0, <1>13 DEF SaveFailure, TypeOK
  <2>2. \A u \in Controllers : SameHeld(u) /\ (Saving(u) => Saving(u)')
    BY <2>1 DEF SameHeld, Held, LifecycleAt, Saving
  <2>3. QED  BY <1>0, <2>1, <2>2, SyncSame
<1>14. ASSUME NEW k \in Keys, PollRaises(k) PROVE SyncInv'
  BY <1>0, <1>14, SyncQuiet DEF PollRaises
<1>15. ASSUME NEW d \in 1 .. MaxElapsed, Sleep(d) PROVE SyncInv'
  <2>1. \A u \in Controllers : SameHeld(u) /\ ~Saving(u)
    BY <1>0, <1>15, SleepHeld DEF Sleep, Saving, Idle
  <2>2. pc' = "top" /\ pc = "polling" /\ UNCHANGED <<attempted, backfills>>
    BY <1>15 DEF Sleep
  <2>3. QED  BY <1>0, <2>1, <2>2, SyncSame
<1>16. ASSUME NEW b \in BackfillTask, FinishBackfill(b) PROVE SyncInv'
  BY <1>0, <1>16, SyncQuiet DEF FinishBackfill
<1>17. ASSUME NEW s \in Stoppers, BeginStop(s) PROVE SyncInv'
  BY <1>0, <1>17, SyncQuiet DEF BeginStop
<1>18. ASSUME NEW s \in Stoppers, NEW u \in Controllers, StopMarks(s, u) PROVE SyncInv'
  BY <1>0, <1>18, SyncQuiet DEF StopMarks
<1>19. ASSUME NEW s \in Stoppers, StopGathers(s) PROVE SyncInv'
  BY <1>0, <1>19, SyncQuiet DEF StopGathers
<1>20. ASSUME NEW s \in Stoppers, StopCloses(s) PROVE SyncInv'
  BY <1>0, <1>20, SyncQuiet DEF StopCloses
<1>21. CASE Ended \/ UNCHANGED vars
  BY <1>0, <1>21, SyncQuiet DEF Ended, vars, volatile
<1>22. QED
  BY <1>1, <1>2, <1>3, <1>4, <1>5, <1>6, <1>7, <1>8, <1>9, <1>10, <1>11, <1>12, <1>13,
     <1>14, <1>15, <1>16, <1>17, <1>18, <1>19, <1>20, <1>21, MarkAbsentSync,
     PollSucceedsSync, SaveSuccessSync, PollFailsSync, StopTakesSync, CrashSync
  DEF Next, Loop, Refresh, Poll, Stop

\* A controller in service between two iterations of the loop has had its
\* retained history sync attempted in this process, however its polls were
\* persisted and whatever endpoint it has moved to since.
THEOREM SyncAttempted == NoEndpointReuse => (Spec => []HistoryAttempted)
<1> SUFFICES ASSUME NoEndpointReuse PROVE Spec => []HistoryAttempted
  OBVIOUS
<1>1. IInv /\ LossInv /\ SyncInv /\ [Next]_vars => LossInv' /\ SyncInv'
  BY Simulation, SyncNext
<1>2. IInv /\ SyncInv => HistoryAttempted
  <2> SUFFICES ASSUME IInv, SyncInv, pc = "top", BackfillOnStartup,
                      NEW u \in present \cap Supported,
                      LifecycleAt(controllerKey[u]).state = "online"
               PROVE  u \in attempted
    BY DEF HistoryAttempted
  <2>1. u \in Known /\ Held(u).state = "online" /\ controllerKey[u] \in Keys
    BY DEF IInv, StageInv, TypeOK, Known, Held
  <2>2. polls[controllerKey[u]] = Idle
    BY <2>1 DEF IInv, StageInv
  <2>3. QED  BY <2>1, <2>2 DEF SyncInv, Idle
<1>3. QED
  BY <1>1, <1>2, LossInit, SyncInit, InductiveInvariant, PTL DEF Spec
=============================================================================
