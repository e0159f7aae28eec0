--------------------------- MODULE TelemetryProofs ---------------------------
(***************************************************************************)
(* Proofs about TelemetryStore, HistoryQueries and EnergyAnalytics for any *)
(* number of devices and polls, every day length, every calendar zone      *)
(* ahead of UTC and every reading: what the tables say of each other, that *)
(* the queries over the same window tell the same rows, and that coverage, *)
(* gaps and energy are told of the same days.                              *)
(***************************************************************************)
EXTENDS EnergyAnalytics, FiniteSetTheorems, WellFoundedInduction, TLAPS

-----------------------------------------------------------------------------
(* Time and days                                                             *)

\* The calendar never runs backwards.
LEMMA LocalDayMonotone ==
  ASSUME NEW s \in Nat, NEW t \in Nat, s <= t
  PROVE  LocalDay(s) \in Int /\ LocalDay(t) \in Int /\ LocalDay(s) <= LocalDay(t)
<1>1. DayLength \in Nat /\ DayLength > 0 /\ Shift \in Nat
  BY TelemetryAssumption
<1> DEFINE x == s + Shift
           y == t + Shift
<1>2. x \in Nat /\ y \in Nat /\ x <= y
  BY <1>1
<1> HIDE DEF x, y
<1>3. x \div DayLength \in Int /\ y \div DayLength \in Int
  BY <1>1, <1>2
<1>4. DayLength * (x \div DayLength) <= x /\ y < DayLength * (y \div DayLength) + DayLength
  BY <1>1, <1>2, SMTT(30)
<1>5. x \div DayLength <= y \div DayLength
  <2> DEFINE p == x \div DayLength
             q == y \div DayLength
  <2>1. p \in Int /\ q \in Int /\ DayLength * p < DayLength * q + DayLength
    BY <1>1, <1>2, <1>3, <1>4, SMTT(30)
  <2> HIDE DEF p, q
  <2>2. DayLength * p < DayLength * (q + 1)
    BY <2>1, <1>1, SMTT(30)
  <2>3. p < q + 1
    BY <2>1, <2>2, <1>1, SMTT(30)
  <2> QED
    BY <2>1, <2>3 DEF p, q
<1> QED
  BY <1>3, <1>5 DEF LocalDay, x, y

-----------------------------------------------------------------------------
(* The inductive invariant                                                   *)

\* Everything written so far was written before now.
PastInv ==
  /\ clock \in Nat
  /\ IsFiniteSet(samples)
  /\ \A s \in samples : s.at \in Nat /\ s.at < clock
  /\ \A e \in errors : e.at \in Nat /\ e.at < clock
  /\ devices \in [Devices -> [status : {"online", "error", "offline"}, seen : Nat,
                            lastError : Nat \cup {None}]]
  /\ \A d \in Devices : devices[d].seen <= clock

\* A page under way was rendered on a day that is not after today.
FetchInv ==
  fetch # None =>
    /\ fetch \in [dev : Devices, attempted : Nat, today : Int, filed : Nat \cup {None}]
    /\ fetch.today <= LocalDay(clock)

\* The records of retained days.
DailyInv ==
  \A r \in daily :
    /\ r.retrieved \in Nat /\ r.retrieved <= clock
    /\ r.day \in Int /\ r.about \in Int /\ r.about <= r.day
    /\ r.complete => r.day < LocalDay(r.retrieved)
    /\ r.complete /\ r.live = 0 => LiveOn(r.dev, r.day) = {}

IInv == PastInv /\ FetchInv /\ DailyInv /\ StatusTells

-----------------------------------------------------------------------------
(* It holds initially and every step preserves it                            *)

LEMMA InitInv == Init => IInv
<1> SUFFICES ASSUME Init PROVE IInv
  OBVIOUS
<1>1. PastInv
  BY FS_EmptySet DEF Init, PastInv
<1>2. FetchInv /\ DailyInv
  BY DEF Init, FetchInv, DailyInv
<1>3. StatusTells
  BY DEF Init, StatusTells, ErrorsSince
<1> QED
  BY <1>1, <1>2, <1>3 DEF IInv

\* The clock never runs backwards.
LEMMA ClockNext == ASSUME PastInv, [Next]_vars PROVE clock' \in Nat /\ clock <= clock'
<1>1. clock' \in {clock, clock + 1}
  <2>1. CASE UNCHANGED vars
    BY <2>1 DEF vars
  <2>2. CASE Pass \/ MarkAllOffline
    BY <2>2 DEF Pass, MarkAllOffline, At
  <2>3. ASSUME NEW d \in Devices,
               \/ UpdateCanonicalDevice(d) \/ SaveError(d) \/ MarkDeviceOffline(d)
               \/ \E values \in ReadingsOf[d] : SavePoll(d, values)
        PROVE  clock' \in {clock, clock + 1}
    BY <2>3 DEF UpdateCanonicalDevice, SaveError, MarkDeviceOffline, SavePoll, At
  <2>4. CASE \/ FileDays \/ CancelSync \/ \E status \in {"ok", "error"} : RecordSync(status)
             \/ \E d \in Devices : BeginSync(d)
    BY <2>4 DEF FileDays, CancelSync, RecordSync, BeginSync
  <2> QED
    BY <2>1, <2>2, <2>3, <2>4 DEF Next
<1> QED
  BY <1>1 DEF PastInv

LEMMA PastNext == PastInv /\ [Next]_vars => PastInv'
<1> SUFFICES ASSUME PastInv, [Next]_vars PROVE PastInv'
  OBVIOUS
<1> USE DEF PastInv
<1>1. CASE UNCHANGED vars
  BY <1>1 DEF vars
<1>2. CASE Pass
  BY <1>2 DEF Pass
<1>3. ASSUME NEW d \in Devices, UpdateCanonicalDevice(d) \/ MarkDeviceOffline(d) PROVE PastInv'
  BY <1>3 DEF UpdateCanonicalDevice, MarkDeviceOffline, At, Answered
<1>4. ASSUME NEW d \in Devices, SaveError(d) PROVE PastInv'
  <2>1. /\ clock' = clock + 1 /\ samples' = samples
        /\ errors' = errors \cup {[dev |-> d, at |-> clock]}
        /\ devices' = [devices EXCEPT ![d].status = "error", ![d].lastError = clock]
    BY <1>4 DEF SaveError, At
  <2>2. ASSUME NEW c \in Devices
        PROVE  /\ devices'[c] \in [status : {"online", "error", "offline"}, seen : Nat,
                                   lastError : Nat \cup {None}]
               /\ devices'[c].seen <= clock
    BY <2>1
  <2>3. devices' \in [Devices -> [status : {"online", "error", "offline"}, seen : Nat,
                                  lastError : Nat \cup {None}]]
    BY <2>1, <2>2
  <2> QED
    BY <2>1, <2>2, <2>3
<1>5. ASSUME NEW d \in Devices, NEW values \in ReadingsOf[d], SavePoll(d, values) PROVE PastInv'
  <2>1. IsFiniteSet(samples')
    BY <1>5, FS_AddElement DEF SavePoll
  <2> QED
    BY <2>1, <1>5 DEF SavePoll, At, Answered
<1>6. ASSUME NEW d \in Devices, BeginSync(d) PROVE PastInv'
  BY <1>6 DEF BeginSync
<1>7. CASE FileDays \/ CancelSync \/ \E status \in {"ok", "error"} : RecordSync(status)
  BY <1>7 DEF FileDays, CancelSync, RecordSync
<1>8. CASE MarkAllOffline
  BY <1>8 DEF MarkAllOffline, At
<1> QED
  BY <1>1, <1>2, <1>3, <1>4, <1>5, <1>6, <1>7, <1>8 DEF Next

LEMMA FetchNext == PastInv /\ FetchInv /\ [Next]_vars => FetchInv'
<1> SUFFICES ASSUME PastInv, FetchInv, [Next]_vars, fetch' # None PROVE FetchInv'
  BY DEF FetchInv
<1>1. clock \in Nat /\ clock' \in Nat /\ LocalDay(clock) \in Int /\ LocalDay(clock') \in Int
      /\ LocalDay(clock) <= LocalDay(clock')
  BY ClockNext, LocalDayMonotone DEF PastInv
<1>2. LocalDay(clock)' = LocalDay(clock')
  BY DEF LocalDay
<1>3. CASE fetch' = fetch
  BY <1>1, <1>2, <1>3 DEF FetchInv
<1>4. ASSUME NEW d \in Devices, BeginSync(d) PROVE FetchInv'
  BY <1>1, <1>2, <1>4 DEF BeginSync, FetchInv
<1>5. CASE FileDays
  BY <1>1, <1>2, <1>5 DEF FileDays, FetchInv
<1> QED
  BY <1>3, <1>4, <1>5
  DEF Next, vars, Pass, UpdateCanonicalDevice, SaveError, MarkDeviceOffline, MarkAllOffline,
      SavePoll, At, CancelSync, RecordSync

\* What the records of one page claim is true when they are filed.
LEMMA RecordsOfPage ==
  ASSUME PastInv, FetchInv, fetch # None, NEW r \in Records
  PROVE  /\ r.retrieved = clock
         /\ r.day \in Int /\ r.about \in Int /\ r.about <= r.day
         /\ r.complete => r.day < LocalDay(clock)
         /\ r.complete /\ r.live = 0 => LiveOn(r.dev, r.day) = {}
<1>1. clock \in Nat /\ LocalDay(clock) \in Int
  BY LocalDayMonotone DEF PastInv
<1>2. PICK offset \in -OldestOffset .. 0 :
        r = [dev |-> fetch.dev, day |-> LocalDay(clock) + offset, complete |-> Over(offset),
             live |-> Cardinality(LiveOn(fetch.dev, LocalDay(clock) + offset)),
             retrieved |-> clock, about |-> fetch.today + offset,
             wh |-> LoggedWh[fetch.today + offset]]
  BY DEF Records
<1>3. offset \in Int
  BY TelemetryAssumption
<1>4. fetch.today \in Int /\ fetch.today <= LocalDay(clock)
  BY DEF FetchInv
<1>5. r.live = Cardinality(LiveOn(r.dev, r.day))
  BY <1>2
<1>6. IsFiniteSet(LiveOn(r.dev, r.day))
  BY FS_Subset DEF PastInv, LiveOn
<1>7. r.live = 0 => LiveOn(r.dev, r.day) = {}
  BY <1>5, <1>6, FS_EmptySet
<1>8. r.complete => r.day < LocalDay(clock)
  <2>1. r.day = LocalDay(clock) + offset
    BY <1>2
  <2>2. r.complete = Over(offset)
    BY <1>2, Zenon
  <2>3. Over(offset) => LocalDay(clock) + offset < LocalDay(clock)
    BY <1>1, <1>3 DEF Over
  <2>4. r.complete => Over(offset)
    BY <2>2, Zenon
  <2>5. r.complete => LocalDay(clock) + offset < LocalDay(clock)
    BY <2>3, <2>4, Zenon
  <2> QED
    BY <2>1, <2>5
<1> QED
  BY <1>1, <1>2, <1>3, <1>4, <1>7, <1>8

LEMMA DailyNext == PastInv /\ FetchInv /\ DailyInv /\ [Next]_vars => DailyInv'
<1> SUFFICES ASSUME PastInv, FetchInv, DailyInv, [Next]_vars, NEW r \in daily'
             PROVE  /\ r.retrieved \in Nat /\ r.retrieved <= clock'
                    /\ r.day \in Int /\ r.about \in Int /\ r.about <= r.day
                    /\ r.complete => r.day < LocalDay(r.retrieved)
                    /\ r.complete /\ r.live = 0 => LiveOn(r.dev, r.day)' = {}
  BY DEF DailyInv, LocalDay
<1>1. clock \in Nat /\ clock' \in Nat /\ clock <= clock'
  BY ClockNext DEF PastInv
<1>2. CASE FileDays
  <2>1. clock' = clock /\ samples' = samples /\ daily' = Upserted(Records) /\ fetch # None
    BY <1>2 DEF FileDays
  <2>2. LiveOn(r.dev, r.day)' = LiveOn(r.dev, r.day)
    BY <2>1 DEF LiveOn
  <2>3. CASE r \in daily
    BY <2>1, <2>2, <2>3 DEF DailyInv
  <2>4. CASE r \in Records
    BY <1>1, <2>1, <2>2, <2>4, RecordsOfPage
  <2> QED
    BY <2>1, <2>3, <2>4 DEF Upserted
<1>3. ASSUME NEW d \in Devices, NEW values \in ReadingsOf[d], SavePoll(d, values)
      PROVE  r.complete /\ r.live = 0 => LiveOn(r.dev, r.day)' = {}
  <2> SUFFICES ASSUME r.complete, r.live = 0, NEW s \in LiveOn(r.dev, r.day)' PROVE FALSE
    OBVIOUS
  <2>1. r \in daily /\ samples' = samples \cup {[dev |-> d, at |-> clock, values |-> values]}
    BY <1>3 DEF SavePoll, At
  <2>2. LiveOn(r.dev, r.day) = {} /\ r.day \in Int /\ r.day < LocalDay(r.retrieved)
        /\ r.retrieved \in Nat /\ r.retrieved <= clock
    BY <2>1 DEF DailyInv
  <2>3. s \in samples' /\ s.dev = r.dev /\ LocalDay(s.at) = r.day
    BY DEF LiveOn, LocalDay
  <2>4. s \notin samples
    BY <2>2, <2>3 DEF LiveOn
  <2>5. LocalDay(clock) = r.day
    BY <2>1, <2>3, <2>4
  <2>6. LocalDay(r.retrieved) <= LocalDay(clock) /\ LocalDay(r.retrieved) \in Int
    BY <1>1, <2>2, LocalDayMonotone
  <2> QED
    BY <2>2, <2>5, <2>6
<1>4. ASSUME daily' = daily, samples' = samples
      PROVE  r.complete /\ r.live = 0 => LiveOn(r.dev, r.day)' = {}
  BY <1>4 DEF DailyInv, LiveOn
<1>5. ASSUME daily' = daily
      PROVE  /\ r.retrieved \in Nat /\ r.retrieved <= clock'
             /\ r.day \in Int /\ r.about \in Int /\ r.about <= r.day
             /\ r.complete => r.day < LocalDay(r.retrieved)
  BY <1>1, <1>5 DEF DailyInv
<1>6. ASSUME NEW d \in Devices, NEW values \in ReadingsOf[d], SavePoll(d, values) PROVE daily' = daily
  BY <1>6 DEF SavePoll, At
<1> QED
  BY <1>2, <1>3, <1>4, <1>5, <1>6
  DEF Next, vars, Pass, UpdateCanonicalDevice, SaveError, MarkDeviceOffline, MarkAllOffline,
      At, BeginSync, CancelSync, RecordSync

\* What StatusTells says of one device.
RowTells(d) ==
  /\ IF ErrorsSince(d) = {} THEN devices[d].lastError = None
     ELSE /\ devices[d].lastError \in ErrorsSince(d)
          /\ \A t \in ErrorsSince(d) : t <= devices[d].lastError
  /\ devices[d].status = "error" => devices[d].lastError # None
  /\ devices[d].status = "online" => devices[d].lastError = None
  /\ \A s \in samples : s.dev = d => s.at <= devices[d].seen

LEMMA StatusTellsRows == StatusTells <=> \A d \in Devices : RowTells(d)
BY DEF StatusTells, RowTells

\* An answer leaves no error behind, an error is the newest of those since, and
\* marking a device offline touches neither.
LEMMA StatusNext == PastInv /\ StatusTells /\ [Next]_vars => StatusTells'
<1> SUFFICES ASSUME PastInv, StatusTells, [Next]_vars, NEW c \in Devices PROVE RowTells(c)'
  BY StatusTellsRows DEF StatusTells, RowTells
<1>0. /\ RowTells(c)
      /\ clock \in Nat /\ None \notin Nat
      /\ devices[c] \in [status : {"online", "error", "offline"}, seen : Nat,
                         lastError : Nat \cup {None}]
  BY StatusTellsRows, TelemetryAssumption DEF PastInv
<1>1. ASSUME devices'[c].seen = devices[c].seen, devices'[c].lastError = devices[c].lastError,
             devices'[c].status \in {devices[c].status, "offline"},
             samples' = samples, errors' = errors
      PROVE  RowTells(c)'
  <2>1. ErrorsSince(c)' = ErrorsSince(c)
    BY <1>1 DEF ErrorsSince
  <2> QED
    BY <1>0, <1>1, <2>1 DEF RowTells
<1>2. ASSUME NEW d \in Devices, devices' = Answered(d), errors' = errors,
             \A s \in samples' : s \in samples \/ (s.dev = d /\ s.at = clock)
      PROVE  RowTells(c)'
  <2>1. CASE c = d
    <3>1. devices'[c] = [status |-> "online", seen |-> clock, lastError |-> None]
      BY <1>2, <2>1 DEF Answered, PastInv
    <3>2. ErrorsSince(c)' = {}
      BY <1>2, <3>1 DEF PastInv, ErrorsSince
    <3>3. \A s \in samples' : s.at <= devices'[c].seen
      BY <1>2, <3>1 DEF PastInv
    <3> QED
      BY <3>1, <3>2, <3>3 DEF RowTells
  <2>2. CASE c # d
    <3>1. devices'[c] = devices[c]
      BY <1>2, <2>2 DEF Answered, PastInv
    <3>2. ErrorsSince(c)' = ErrorsSince(c)
      BY <1>2, <3>1 DEF ErrorsSince
    <3> QED
      BY <1>0, <1>2, <2>2, <3>1, <3>2 DEF RowTells
  <2> QED
    BY <2>1, <2>2
<1>3. ASSUME NEW d \in Devices, SaveError(d) PROVE RowTells(c)'
  <2>1. errors' = errors \cup {[dev |-> d, at |-> clock]} /\ samples' = samples
    BY <1>3 DEF SaveError, At
  <2>2. CASE c = d
    <3>1. /\ devices'[c].status = "error" /\ devices'[c].lastError = clock
          /\ devices'[c].seen = devices[c].seen
      BY <1>3, <2>2 DEF SaveError, PastInv
    <3>2. clock \in ErrorsSince(c)'
      <4>1. clock >= devices'[c].seen
        BY <3>1 DEF PastInv
      <4> DEFINE e == [dev |-> d, at |-> clock]
      <4>2. e \in errors' /\ e.dev = c /\ e.at = clock
        BY <2>1, <2>2
      <4> QED
        BY <4>1, <4>2 DEF ErrorsSince
    <3>3. \A t \in ErrorsSince(c)' : t <= clock
      BY <1>0, <2>1 DEF PastInv, ErrorsSince
    <3>4. ErrorsSince(c)' # {} /\ clock # None
      BY <1>0, <3>2
    <3> QED
      BY <1>0, <2>1, <3>1, <3>2, <3>3, <3>4 DEF RowTells
  <2>3. CASE c # d
    <3>1. devices'[c] = devices[c]
      BY <1>3, <2>3 DEF SaveError, PastInv
    <3>2. ErrorsSince(c)' = ErrorsSince(c)
      BY <2>1, <2>3, <3>1 DEF ErrorsSince
    <3> QED
      BY <1>0, <2>1, <3>1, <3>2 DEF RowTells
  <2> QED
    BY <2>2, <2>3
<1>4. ASSUME NEW d \in Devices, MarkDeviceOffline(d) PROVE RowTells(c)'
  <2>1. UNCHANGED <<samples, errors>>
    BY <1>4 DEF MarkDeviceOffline, At
  <2>2. /\ devices'[c].seen = devices[c].seen /\ devices'[c].lastError = devices[c].lastError
        /\ devices'[c].status \in {devices[c].status, "offline"}
    BY <1>4 DEF MarkDeviceOffline, PastInv
  <2> QED
    BY <1>1, <2>1, <2>2
<1>5. CASE MarkAllOffline
  <2>1. UNCHANGED <<samples, errors>>
    BY <1>5 DEF MarkAllOffline, At
  <2>2. devices'[c] = devices[c] \/ devices'[c] = [devices[c] EXCEPT !.status = "offline"]
    BY <1>5 DEF MarkAllOffline
  <2>3. /\ devices'[c].seen = devices[c].seen /\ devices'[c].lastError = devices[c].lastError
        /\ devices'[c].status \in {devices[c].status, "offline"}
    BY <1>0, <2>2
  <2> QED
    BY <1>1, <2>1, <2>3
<1>6. ASSUME NEW d \in Devices, UpdateCanonicalDevice(d)
      PROVE  devices' = Answered(d) /\ errors' = errors /\ samples' = samples
  BY <1>6 DEF UpdateCanonicalDevice, At
<1>7. ASSUME NEW d \in Devices, NEW values \in ReadingsOf[d], SavePoll(d, values)
      PROVE  /\ devices' = Answered(d) /\ errors' = errors
             /\ \A s \in samples' : s \in samples \/ (s.dev = d /\ s.at = clock)
  BY <1>7 DEF SavePoll, At
<1>8. CASE \E d \in Devices : UpdateCanonicalDevice(d)
  BY <1>2, <1>6, <1>8
<1>9. CASE \E d \in Devices : \E values \in ReadingsOf[d] : SavePoll(d, values)
  BY <1>2, <1>7, <1>9
<1>10. CASE \E d \in Devices : SaveError(d) \/ MarkDeviceOffline(d)
  BY <1>3, <1>4, <1>10
<1>11. CASE UNCHANGED <<samples, errors, devices>>
  BY <1>1, <1>11
<1> QED
  BY <1>5, <1>8, <1>9, <1>10, <1>11
  DEF Next, vars, Pass, BeginSync, FileDays, CancelSync, RecordSync

LEMMA InductiveInvariant == Spec => []IInv
<1>1. IInv /\ [Next]_vars => IInv'
  BY PastNext, FetchNext, DailyNext, StatusNext DEF IInv
<1> QED
  BY <1>1, InitInv, PTL DEF Spec

-----------------------------------------------------------------------------
(* Samples                                                                   *)

\* Every sample is a reading of its device, and its time is its own.
SampleInv ==
  \A s \in samples :
    /\ s.dev \in Devices /\ s.values \in ReadingsOf[s.dev]
    /\ \A t \in samples : s.at = t.at => s = t
StoreInv == PastInv /\ SampleInv

LEMMA StoreInductive == Spec => []StoreInv
<1>1. Init => SampleInv
  BY DEF Init, SampleInv
<1>2. PastInv /\ SampleInv /\ [Next]_vars => SampleInv'
  <2> SUFFICES ASSUME PastInv, SampleInv, [Next]_vars PROVE SampleInv'
    OBVIOUS
  <2>1. CASE samples' = samples
    BY <2>1 DEF SampleInv
  <2>2. ASSUME NEW d \in Devices, NEW values \in ReadingsOf[d], SavePoll(d, values)
        PROVE  SampleInv'
    <3> DEFINE new == [dev |-> d, at |-> clock, values |-> values]
    <3>1. samples' = samples \cup {new}
      BY <2>2 DEF SavePoll
    <3>2. new.dev = d /\ new.at = clock /\ new.values = values
      OBVIOUS
    <3> HIDE DEF new
    <3>3. \A s \in samples : s.at # new.at
      BY <3>2 DEF PastInv
    <3>4. QED
      BY <2>2, <3>1, <3>2, <3>3 DEF SampleInv
  <2>3. QED
    BY <2>1, <2>2
    DEF Next, vars, Pass, At, UpdateCanonicalDevice, SaveError, MarkDeviceOffline,
        MarkAllOffline, BeginSync, FileDays, CancelSync, RecordSync
<1>3. QED
  BY <1>1, <1>2, InductiveInvariant, PTL DEF Spec, StoreInv, IInv

-----------------------------------------------------------------------------
(* Least and greatest                                                        *)

LEMMA LeastNat ==
  ASSUME NEW S \in SUBSET Nat, S # {}
  PROVE  \E m \in S : \A n \in S : m <= n
<1>1. PICK m \in S : \A n \in S : ~(<<n, m>> \in OpToRel(<, Nat))
  BY NatLessThanWellFounded, WFMin
<1>2. \A n \in S : ~(n < m)
  BY <1>1 DEF OpToRel
<1>3. QED
  BY <1>2

LEMMA GreatestNat ==
  ASSUME NEW S \in SUBSET Nat, S # {}, NEW b \in Nat, \A n \in S : n <= b
  PROVE  \E m \in S : \A n \in S : n <= m
<1> DEFINE D == {b - n : n \in S}
<1>0. D \subseteq Nat /\ D # {}
  <2>1. \A n \in S : n \in Nat /\ b - n \in Nat
    OBVIOUS
  <2>2. QED
    BY <2>1
<1>1. PICK k \in D : \A j \in D : k <= j
  <2> HIDE DEF D
  <2>1. QED
    BY <1>0, LeastNat
<1>2. PICK m \in S : k = b - m
  OBVIOUS
<1>3. ASSUME NEW n \in S PROVE n <= m
  <2>1. k <= b - n
    BY <1>1
  <2>2. QED
    BY <1>2, <2>1
<1>4. QED
  BY <1>3

\* A finite set of numbers has a least and a greatest one.
LEMMA LeastAndGreatest ==
  ASSUME NEW S \in SUBSET Int, IsFiniteSet(S), S # {}
  PROVE  \E m, n \in S : \A x \in S : m <= x /\ x <= n
<1> DEFINE Bounded(T) == \E m, n \in T : \A x \in T : m <= x /\ x <= n
           K == {Cardinality(T) : T \in {U \in SUBSET S : U # {} /\ ~Bounded(U)}}
<1> SUFFICES ASSUME K # {} PROVE FALSE
  OBVIOUS
<1>1. K \subseteq Nat
  BY FS_Subset, FS_CardinalityType
<1>2. PICK k \in K : \A j \in K : k <= j
  BY <1>1, LeastNat
<1>3. PICK T \in SUBSET S : T # {} /\ ~Bounded(T) /\ k = Cardinality(T)
  OBVIOUS
<1>4. PICK t \in T : TRUE
  BY <1>3
<1> DEFINE R == T \ {t}
<1>5. IsFiniteSet(T) /\ Cardinality(R) = k - 1 /\ Cardinality(R) \in Nat
  BY <1>3, <1>4, FS_Subset, FS_RemoveElement, FS_CardinalityType
<1>6. Cardinality(R) \notin K
  <2>1. k \in Nat
    BY <1>1, <1>2
  <2> HIDE DEF K
  <2>2. QED
    BY <1>2, <1>3, <1>5, <2>1
<1>7. R = {} \/ Bounded(R)
  BY <1>6
<1>8. CASE R = {}
  <2>1. T = {t} /\ t \in Int
    BY <1>4, <1>8
  <2>2. Bounded(T)
    BY <2>1
  <2>3. QED
    BY <1>3, <2>2
<1>9. CASE Bounded(R)
  <2>1. PICK m \in R, n \in R : \A x \in R : m <= x /\ x <= n
    BY <1>9
  <2> DEFINE low == IF t < m THEN t ELSE m
             high == IF t > n THEN t ELSE n
  <2>2. low \in T /\ high \in T /\ \A x \in T : low <= x /\ x <= high
    BY <1>4, <2>1
  <2>3. QED
    BY <1>3, <2>2
<1>10. QED
  BY <1>7, <1>8, <1>9

LEMMA MaxOfTwo ==
  ASSUME NEW a \in Int, NEW b \in Int
  PROVE  Max({a, b}) \in Int /\ Max({a, b}) >= a /\ Max({a, b}) >= b /\ Max({a, b}) \in {a, b}
<1> DEFINE S == {a, b}
<1>1. \E x \in S : \A y \in S : x >= y
  OBVIOUS
<1>2. Max(S) \in S /\ \A y \in S : Max(S) >= y
  BY <1>1 DEF Max
<1>3. QED
  BY <1>2

LEMMA MaxOfThree ==
  ASSUME NEW a \in Int, NEW b \in Int, NEW c \in Int
  PROVE  Max({a, b, c}) \in Int /\ Max({a, b, c}) >= a /\ Max({a, b, c}) >= b /\ Max({a, b, c}) >= c
<1> DEFINE S == {a, b, c}
<1>1. \E x \in S : \A y \in S : x >= y
  OBVIOUS
<1>2. Max(S) \in S /\ \A y \in S : Max(S) >= y
  BY <1>1 DEF Max
<1>3. QED
  BY <1>2

LEMMA Quotient ==
  ASSUME NEW D \in Nat \ {0}, NEW t \in Int
  PROVE  /\ t \div D \in Int /\ t % D \in Nat /\ t % D < D /\ t = D * (t \div D) + (t % D)
         /\ t - (t % D) = D * (t \div D)
         /\ \A k \in Int : t >= D * k <=> t \div D >= k
<1> DEFINE q == t \div D
           r == t % D
<1>1. q \in Int /\ r \in Int /\ 0 <= r /\ r < D /\ t = D * q + r
  OBVIOUS
<1> HIDE DEF q, r
<1>2. ASSUME NEW k \in Int PROVE t >= D * k <=> q >= k
  <2>1. \A a \in Int : a >= 0 => D * a >= 0 /\ D * a \in Int
    OBVIOUS
  <2>2. D * q - D * k = D * (q - k) /\ D * k - D * (q + 1) = D * (k - (q + 1))
    BY <1>1
  <2>3. CASE q >= k
    <3>1. D * (q - k) >= 0
      BY <1>1, <2>1, <2>3
    <3>2. D * q \in Int /\ D * k \in Int
      BY <1>1
    <3>3. QED
      BY <1>1, <2>2, <2>3, <3>1, <3>2
  <2>4. CASE ~(q >= k)
    <3>1. D * (k - (q + 1)) >= 0
      BY <1>1, <2>1, <2>4
    <3>2. D * (q + 1) = D * q + D /\ D * q \in Int /\ D * k \in Int
      BY <1>1
    <3>3. QED
      BY <1>1, <2>2, <2>4, <3>1, <3>2
  <2>5. QED
    BY <2>3, <2>4
<1>3. QED
  BY <1>1, <1>2 DEF q, r

-----------------------------------------------------------------------------
(* Rows                                                                      *)

RowOf(s, r) == [dev |-> s.dev, at |-> s.at, reg |-> r, value |-> s.values[r]]

LEMMA RowMember ==
  ASSUME NEW ids, NEW names, NEW w, NEW x \in RowsOf(ids, names, w)
  PROVE  \E s \in samples : /\ s.dev \in ids /\ InWindow(s.at, w)
                            /\ x.reg \in names /\ x.reg \in DOMAIN s.values
                            /\ x = RowOf(s, x.reg)
<1>1. PICK s \in {t \in samples : t.dev \in ids /\ InWindow(t.at, w)} :
        x \in {[dev |-> s.dev, at |-> s.at, reg |-> r, value |-> s.values[r]] :
                 r \in names \cap DOMAIN s.values}
  BY Zenon DEF RowsOf
<1>2. PICK r \in names \cap DOMAIN s.values :
        x = [dev |-> s.dev, at |-> s.at, reg |-> r, value |-> s.values[r]]
  BY <1>1
<1>3. x.reg = r
  BY <1>2
<1>4. QED
  BY <1>1, <1>2, <1>3 DEF RowOf

LEMMA RowOfSample ==
  ASSUME NEW ids, NEW names, NEW w, NEW s \in samples, s.dev \in ids, InWindow(s.at, w),
         NEW r \in names, r \in DOMAIN s.values
  PROVE  RowOf(s, r) \in RowsOf(ids, names, w)
<1> DEFINE own(t) == {[dev |-> t.dev, at |-> t.at, reg |-> q, value |-> t.values[q]] :
                        q \in names \cap DOMAIN t.values}
           found == {x \in samples : x.dev \in ids /\ InWindow(x.at, w)}
<1>1. RowsOf(ids, names, w) = UNION {own(t) : t \in found}
  BY Zenon DEF RowsOf
<1>2. RowOf(s, r) \in own(s)
  BY DEF RowOf
<1>3. s \in found
  OBVIOUS
<1> HIDE DEF own, found
<1>4. QED
  BY <1>1, <1>2, <1>3, Zenon

LEMMA RowFields ==
  ASSUME NEW s, NEW r
  PROVE  /\ RowOf(s, r).dev = s.dev /\ RowOf(s, r).at = s.at /\ RowOf(s, r).reg = r
         /\ RowOf(s, r).value = s.values[r]
BY DEF RowOf

\* What is known of any row: its shape, its time, and that time and register
\* identify it.
IsRow(x) ==
  /\ x.dev \in Devices /\ x.at \in Nat /\ x.at < clock
  /\ x.reg \in ToSet(Registers) /\ x.value \in Int \cup Texts \cup {Null}
  /\ \E s \in samples : x.reg \in DOMAIN s.values /\ x = RowOf(s, x.reg)

LEMMA RowsAreRows ==
  ASSUME StoreInv, NEW ids, NEW names, NEW w, NEW x \in RowsOf(ids, names, w)
  PROVE  IsRow(x) /\ x.dev \in ids /\ x.reg \in names /\ InWindow(x.at, w)
<1>1. PICK s \in samples : /\ s.dev \in ids /\ InWindow(s.at, w)
                           /\ x.reg \in names /\ x.reg \in DOMAIN s.values
                           /\ x = RowOf(s, x.reg)
  BY RowMember
<1>2. x.dev = s.dev /\ x.at = s.at /\ x.value = s.values[x.reg]
  BY <1>1, RowFields
<1>3. s.dev \in Devices /\ s.values \in ReadingsOf[s.dev] /\ s.at \in Nat /\ s.at < clock
  BY DEF StoreInv, PastInv, SampleInv
<1>4. QED
  BY <1>1, <1>2, <1>3, TelemetryAssumption, RegisterAssumption DEF IsRow

LEMMA RowIdentity ==
  ASSUME StoreInv, NEW x, NEW y, IsRow(x), IsRow(y), x.at = y.at, x.reg = y.reg
  PROVE  x = y
<1>1. PICK s \in samples : x = RowOf(s, x.reg)
  BY DEF IsRow
<1>2. PICK t \in samples : y = RowOf(t, y.reg)
  BY DEF IsRow
<1>3. s.at = t.at
  BY <1>1, <1>2, RowFields
<1>4. s = t
  BY <1>3 DEF StoreInv, SampleInv
<1>5. QED
  BY <1>1, <1>2, <1>4

\* A row is found by any query for its device, register and time.
LEMMA RowFound ==
  ASSUME NEW x, IsRow(x), NEW ids, x.dev \in ids, NEW names, x.reg \in names,
         NEW w, InWindow(x.at, w)
  PROVE  x \in RowsOf(ids, names, w)
<1>1. PICK s \in samples : x.reg \in DOMAIN s.values /\ x = RowOf(s, x.reg)
  BY DEF IsRow
<1>2. s.dev = x.dev /\ s.at = x.at
  BY <1>1, RowFields
<1>3. RowOf(s, x.reg) \in RowsOf(ids, names, w)
  BY <1>1, <1>2, RowOfSample
<1>4. QED
  BY <1>1, <1>3

LEMMA RowsFinite ==
  ASSUME StoreInv, NEW ids, NEW names, NEW w
  PROVE  IsFiniteSet(RowsOf(ids, names, w))
<1> DEFINE T == samples \X (1 .. Len(Registers))
           R == RowsOf(ids, names, w)
           f == [p \in T |-> RowOf(p[1], Registers[p[2]])]
           range == {RowOf(p[1], Registers[p[2]]) : p \in T}
<1>1. IsFiniteSet(T)
  <2>1. IsFiniteSet(samples)
    BY DEF StoreInv, PastInv
  <2>2. IsFiniteSet(1 .. Len(Registers))
    BY RegisterAssumption, FS_Interval
  <2>3. QED
    BY <2>1, <2>2, FS_Product
<1>2. f \in Surjection(T, range)
  BY DEF Surjection
<1>3. IsFiniteSet(range)
  BY <1>1, <1>2, FS_Surjection
<1>4. ASSUME NEW x \in R PROVE x \in range
  <2>1. PICK s \in samples : x = RowOf(s, x.reg)
    BY RowMember
  <2>2. x.reg \in ToSet(Registers)
    BY RowsAreRows DEF IsRow
  <2>3. PICK i \in 1 .. Len(Registers) : x.reg = Registers[i]
    BY <2>2, RegisterAssumption DEF ToSet
  <2>4. <<s, i>> \in T /\ x = RowOf(<<s, i>>[1], Registers[<<s, i>>[2]])
    BY <2>1, <2>3
  <2>5. QED
    BY <2>4
<1>5. QED
  BY <1>3, <1>4, FS_Subset

LEMMA RankIsNat ==
  ASSUME NEW r \in ToSet(Registers)
  PROVE  RankOf[r] \in Nat
<1>1. \E i \in DOMAIN Registers : Registers[i] = r
  BY DEF ToSet
<1>2. (CHOOSE i \in DOMAIN Registers : Registers[i] = r) \in DOMAIN Registers
  BY <1>1
<1>3. QED
  BY <1>2, RegisterAssumption DEF RankOf

-----------------------------------------------------------------------------
(* The oldest and the newest of the rows, or events, of one register         *)

Course(R) ==
  /\ \A x \in R : x.at \in Nat /\ x.at < clock /\ x.reg \in ToSet(Registers)
  /\ \A x, y \in R : x.at = y.at => x = y

LEMMA NewestOfCourse ==
  ASSUME clock \in Nat, NEW R, Course(R), R # {}
  PROVE  Newest(R) \in R /\ \A y \in R : y.at <= Newest(R).at
<1> DEFINE T == {x.at : x \in R}
<1>1. T \in SUBSET Nat /\ T # {} /\ \A t \in T : t <= clock
  BY DEF Course
<1>2. PICK t \in T : \A u \in T : u <= t
  <2> HIDE DEF T
  <2>1. QED
    BY <1>1, GreatestNat
<1>3. PICK m \in R : \A y \in R : y.at <= m.at
  BY <1>2
<1>4. \A y \in R : ~Earlier(m, y)
  BY <1>3, RankIsNat DEF Course, Earlier
<1>5. Newest(R) \in R /\ \A y \in R : ~Earlier(Newest(R), y)
  BY <1>3, <1>4 DEF Newest
<1>6. QED
  BY <1>5 DEF Earlier, Course

LEMMA OldestOfCourse ==
  ASSUME NEW R, Course(R), R # {}
  PROVE  Oldest(R) \in R /\ \A y \in R : Oldest(R).at <= y.at
<1> DEFINE T == {x.at : x \in R}
<1>1. T \in SUBSET Nat /\ T # {}
  BY DEF Course
<1>2. PICK t \in T : \A u \in T : t <= u
  <2> HIDE DEF T
  <2>1. QED
    BY <1>1, LeastNat
<1>3. PICK m \in R : \A y \in R : m.at <= y.at
  BY <1>2
<1>4. \A y \in R : ~Earlier(y, m)
  BY <1>3, RankIsNat DEF Course, Earlier
<1>5. Oldest(R) \in R /\ \A y \in R : ~Earlier(y, Oldest(R))
  BY <1>3, <1>4 DEF Oldest
<1>6. QED
  BY <1>5 DEF Earlier, Course

\* There is one newest.
LEMMA NewestIs ==
  ASSUME clock \in Nat, NEW R, Course(R), NEW x \in R, \A y \in R : y.at <= x.at
  PROVE  Newest(R) = x
<1>1. Newest(R) \in R /\ \A y \in R : y.at <= Newest(R).at
  BY NewestOfCourse
<1>2. QED
  BY <1>1 DEF Course

LEMMA OldestIs ==
  ASSUME NEW R, Course(R), NEW x \in R, \A y \in R : x.at <= y.at
  PROVE  Oldest(R) = x
<1>1. Oldest(R) \in R /\ \A y \in R : Oldest(R).at <= y.at
  BY OldestOfCourse
<1>2. QED
  BY <1>1 DEF Course

\* The rows of one register of a set of connections are such a course.
LEMMA RowsAreCourse ==
  ASSUME StoreInv, NEW R, \A x \in R : IsRow(x), \A x, y \in R : x.reg = y.reg
  PROVE  Course(R)
<1>1. \A x, y \in R : x.at = y.at => x = y
  BY RowIdentity
<1>2. QED
  BY <1>1 DEF Course, IsRow

-----------------------------------------------------------------------------
(* Sorting                                                                   *)

\* The elements before one, for an order given as a set of pairs.
Preceding(S, R, x) == {y \in S : <<y, x>> \in R}
PlaceIn(S, R) == [x \in S |-> 1 + Cardinality(Preceding(S, R, x))]
IsOrder(S, R) ==
  /\ \A x \in S : <<x, x>> \notin R
  /\ \A x, y \in S : x = y \/ <<x, y>> \in R \/ <<y, x>> \in R
  /\ \A x, y, z \in S : <<x, y>> \in R /\ <<y, z>> \in R => <<x, z>> \in R

\* Every place is taken by one element.
LEMMA PlacesAre ==
  ASSUME NEW S, IsFiniteSet(S), NEW R, IsOrder(S, R)
  PROVE  /\ Cardinality(S) \in Nat
         /\ PlaceIn(S, R) \in Injection(S, 1 .. Cardinality(S))
         /\ PlaceIn(S, R) \in Surjection(S, 1 .. Cardinality(S))
         /\ \A x, y \in S : <<x, y>> \in R <=> PlaceIn(S, R)[x] < PlaceIn(S, R)[y]
<1> DEFINE N == Cardinality(S)
           p == PlaceIn(S, R)
           before(x) == Preceding(S, R, x)
<1>1. N \in Nat
  BY FS_CardinalityType
<1>2. ASSUME NEW x \in S
      PROVE  IsFiniteSet(before(x)) /\ Cardinality(before(x)) \in Nat /\ Cardinality(before(x)) < N
  <2>1. before(x) \subseteq S \ {x}
    BY DEF Preceding, IsOrder
  <2>2. IsFiniteSet(S \ {x}) /\ Cardinality(S \ {x}) = N - 1
    BY FS_RemoveElement
  <2> HIDE DEF before, N
  <2>3. IsFiniteSet(before(x)) /\ Cardinality(before(x)) <= N - 1 /\ Cardinality(before(x)) \in Nat
    BY <2>1, <2>2, FS_Subset, FS_CardinalityType
  <2>4. QED
    BY <1>1, <2>3
<1>3. ASSUME NEW x \in S, NEW y \in S, <<x, y>> \in R PROVE p[x] < p[y]
  <2>1. before(x) \cup {x} \subseteq before(y) /\ x \notin before(x)
    BY <1>3 DEF Preceding, IsOrder
  <2> HIDE DEF before
  <2>2. Cardinality(before(x) \cup {x}) = Cardinality(before(x)) + 1
    BY <1>2, <2>1, FS_AddElement
  <2>3. Cardinality(before(x)) + 1 <= Cardinality(before(y))
    BY <1>2, <2>1, <2>2, FS_Subset
  <2>4. p[x] = 1 + Cardinality(before(x)) /\ p[y] = 1 + Cardinality(before(y))
    BY DEF PlaceIn, before
  <2>5. QED
    BY <1>2, <2>3, <2>4
<1>4. p \in [S -> 1 .. N]
  <2>1. \A x \in S : 1 + Cardinality(before(x)) \in 1 .. N
    <3> HIDE DEF before, N
    <3>1. QED
      BY <1>1, <1>2
  <2>2. p = [x \in S |-> 1 + Cardinality(before(x))]
    BY DEF PlaceIn
  <2> HIDE DEF p, before, N
  <2>3. QED
    BY <2>1, <2>2
<1>5. \A x, y \in S : <<x, y>> \in R <=> p[x] < p[y]
  <2> SUFFICES ASSUME NEW x \in S, NEW y \in S, p[x] < p[y] PROVE <<x, y>> \in R
    BY <1>3
  <2>1. p[x] \in Nat /\ p[y] \in Nat
    BY <1>1, <1>4
  <2>2. x # y /\ <<y, x>> \notin R
    BY <1>3, <2>1
  <2>3. QED
    BY <2>2 DEF IsOrder
<1>6. p \in Injection(S, 1 .. N)
  <2> HIDE DEF p, N
  <2>1. \A x, y \in S : p[x] = p[y] => x = y
    <3> SUFFICES ASSUME NEW x \in S, NEW y \in S, p[x] = p[y], x # y PROVE FALSE
      OBVIOUS
    <3>1. <<x, y>> \in R \/ <<y, x>> \in R
      BY DEF IsOrder
    <3>2. p[x] \in Nat /\ p[y] \in Nat
      BY <1>1, <1>4
    <3>3. QED
      BY <1>3, <3>1, <3>2
  <2>2. QED
    BY <1>4, <2>1 DEF Injection, IsInjective
<1>7. p \in Surjection(S, 1 .. N)
  <2>1. IsFiniteSet(1 .. N) /\ Cardinality(1 .. N) = N
    <3> HIDE DEF N
    <3>1. QED
      BY <1>1, FS_Interval
  <2> HIDE DEF p
  <2>2. QED
    BY <1>6, <2>1, FS_Injection
<1>8. QED
  BY <1>1, <1>5, <1>6, <1>7

\* The sequence of the elements by their places.
ByPlace(S, R) == [i \in 1 .. Cardinality(S) |-> CHOOSE x \in S : PlaceIn(S, R)[x] = i]

LEMMA ByPlaceIs ==
  ASSUME NEW S, IsFiniteSet(S), NEW R, IsOrder(S, R)
  PROVE  LET N == Cardinality(S) IN
         /\ N \in Nat /\ ByPlace(S, R) \in Seq(S) /\ Len(ByPlace(S, R)) = N
         /\ \A i \in 1 .. N : ByPlace(S, R)[i] \in S /\ PlaceIn(S, R)[ByPlace(S, R)[i]] = i
         /\ \A x \in S : /\ PlaceIn(S, R)[x] \in 1 .. N
                         /\ ByPlace(S, R)[PlaceIn(S, R)[x]] = x
<1> DEFINE N == Cardinality(S)
           p == PlaceIn(S, R)
           seq == ByPlace(S, R)
<1>1. N \in Nat /\ p \in Injection(S, 1 .. N) /\ p \in Surjection(S, 1 .. N)
  BY PlacesAre
<1>2. seq = [i \in 1 .. N |-> CHOOSE x \in S : p[x] = i]
  BY DEF ByPlace
<1> HIDE DEF N, p, seq
<1>3. \A i \in 1 .. N : \E x \in S : p[x] = i
  BY <1>1 DEF Surjection
<1>4. \A i \in 1 .. N : seq[i] \in S /\ p[seq[i]] = i
  BY <1>2, <1>3
<1>5. ASSUME NEW x \in S PROVE p[x] \in 1 .. N /\ seq[p[x]] = x
  <2>1. p[x] \in 1 .. N
    BY <1>1 DEF Injection
  <2>2. seq[p[x]] \in S /\ p[seq[p[x]]] = p[x]
    BY <1>4, <2>1
  <2>3. QED
    BY <1>1, <2>1, <2>2 DEF Injection, IsInjective
<1>6. seq \in [1 .. N -> S]
  BY <1>2, <1>4
<1>7. seq \in Seq(S) /\ Len(seq) = N
  BY <1>1, <1>6
<1>8. QED
  BY <1>1, <1>4, <1>5, <1>7 DEF N, p, seq

-----------------------------------------------------------------------------
(* The history of one register, oldest first                                 *)

EarlierIn(S) == {p \in S \X S : Earlier(p[1], p[2])}

LEMMA CourseIsOrder ==
  ASSUME NEW S, Course(S)
  PROVE  /\ IsOrder(S, EarlierIn(S))
         /\ \A x \in S : Preceding(S, EarlierIn(S), x) = {y \in S : y.at < x.at}
<1>1. \A x \in S : x.at \in Nat /\ RankOf[x.reg] \in Nat
  BY RankIsNat DEF Course
<1>2. \A x, y \in S : x.at = y.at => x = y
  BY DEF Course
<1>3. \A x, y \in S : <<x, y>> \in EarlierIn(S) <=> x.at < y.at
  <2>1. ASSUME NEW x \in S, NEW y \in S PROVE Earlier(x, y) <=> x.at < y.at
    BY <1>1, <1>2 DEF Earlier
  <2>2. QED
    BY <2>1 DEF EarlierIn
<1>4. IsOrder(S, EarlierIn(S))
  BY <1>1, <1>2, <1>3 DEF IsOrder
<1>5. QED
  BY <1>3, <1>4 DEF Preceding

\* ORDER BY asc is the sequence by place.
LEMMA RowsInOrder ==
  ASSUME NEW S
  PROVE  Sorted(S, Earlier, "asc") = ByPlace(S, EarlierIn(S))
<1> DEFINE place == [x \in S |-> 1 + Cardinality({y \in S : Earlier(y, x)})]
<1>1. Sorted(S, Earlier, "asc") = [i \in 1 .. Cardinality(S) |-> CHOOSE x \in S : place[x] = i]
  BY Zenon DEF Sorted
<1>2. \A x \in S : {y \in S : Earlier(y, x)} = Preceding(S, EarlierIn(S), x)
  BY DEF Preceding, EarlierIn
<1>3. place = PlaceIn(S, EarlierIn(S))
  BY <1>2, Zenon DEF PlaceIn
<1> HIDE DEF place
<1>4. QED
  BY <1>1, <1>3 DEF ByPlace

LEMMA LimitedIs ==
  ASSUME NEW S, NEW seq \in Seq(S), NEW limit \in Nat
  PROVE  LET k == IF Len(seq) < limit THEN Len(seq) ELSE limit IN
         /\ k \in Nat /\ Limited(seq, limit) \in Seq(S) /\ DOMAIN Limited(seq, limit) = 1 .. k
         /\ Len(Limited(seq, limit)) = k
         /\ \A i \in 1 .. k : Limited(seq, limit)[i] = seq[i]
<1> DEFINE k == IF Len(seq) < limit THEN Len(seq) ELSE limit
<1>1. Limited(seq, limit) = SubSeq(seq, 1, k)
  BY DEF Limited
<1>2. k \in Nat /\ k <= Len(seq) /\ Len(seq) \in Nat
  OBVIOUS
<1> HIDE DEF k
<1>3. /\ SubSeq(seq, 1, k) \in Seq(S) /\ Len(SubSeq(seq, 1, k)) = k
      /\ \A i \in 1 .. k : SubSeq(seq, 1, k)[i] = seq[i]
  BY <1>2
<1>4. DOMAIN SubSeq(seq, 1, k) = 1 .. k
  BY <1>2, <1>3
<1>5. QED
  BY <1>1, <1>2, <1>3, <1>4 DEF k

LEMMA HistoryIs ==
  ASSUME StoreInv, NEW ids, NEW reg, NEW w
  PROVE  LET S == RowsOf(ids, {reg}, w) IN
         ToSet(RegisterHistory(ids, reg, w, "asc", MaxRegisterRows))
           = {Normalized(x) : x \in {y \in S : Cardinality({z \in S : z.at < y.at}) < MaxRegisterRows}}
<1> DEFINE S == RowsOf(ids, {reg}, w)
           R == EarlierIn(S)
           seq == ByPlace(S, R)
           first == {y \in S : Cardinality({z \in S : z.at < y.at}) < MaxRegisterRows}
           cut == Limited(seq, MaxRegisterRows)
<1>1. IsFiniteSet(S) /\ Course(S)
  BY RowsFinite, RowsAreRows, RowsAreCourse
<1>2. IsOrder(S, R) /\ \A x \in S : Preceding(S, R, x) = {y \in S : y.at < x.at}
  BY <1>1, CourseIsOrder
<1>3. /\ Cardinality(S) \in Nat /\ seq \in Seq(S) /\ Len(seq) = Cardinality(S)
      /\ \A i \in 1 .. Cardinality(S) : seq[i] \in S /\ PlaceIn(S, R)[seq[i]] = i
      /\ \A x \in S : PlaceIn(S, R)[x] \in 1 .. Cardinality(S) /\ seq[PlaceIn(S, R)[x]] = x
  <2> HIDE DEF S, R
  <2>1. QED
    BY <1>1, <1>2, ByPlaceIs
<1>4. \A x \in S : PlaceIn(S, R)[x] = 1 + Cardinality({z \in S : z.at < x.at})
  <2> HIDE DEF S, R
  <2>1. QED
    BY <1>2 DEF PlaceIn
<1>5. Max({1, Min({MaxRegisterRows, MaxRegisterRows})}) = MaxRegisterRows
  <2>1. Min({MaxRegisterRows}) = MaxRegisterRows
    BY DEF Min, MaxRegisterRows
  <2>2. Max({1, MaxRegisterRows}) = MaxRegisterRows
    <3>1. 1 \in Int /\ MaxRegisterRows \in Int /\ MaxRegisterRows > 1
      BY DEF MaxRegisterRows
    <3>2. Max({1, MaxRegisterRows}) >= MaxRegisterRows
          /\ Max({1, MaxRegisterRows}) \in {1, MaxRegisterRows}
      BY <3>1, MaxOfTwo, Zenon
    <3>3. QED
      BY <3>1, <3>2
  <2>3. QED
    BY <2>1, <2>2
<1>6. RegisterHistory(ids, reg, w, "asc", MaxRegisterRows) = [i \in DOMAIN cut |-> Normalized(cut[i])]
  <2>1. RegisterHistory(ids, reg, w, "asc", MaxRegisterRows)
          = RawRows(ids, {reg}, w, "asc", MaxRegisterRows)
    BY <1>5 DEF RegisterHistory
  <2>2. Sorted(S, Earlier, "asc") = seq
    BY RowsInOrder
  <2>3. QED
    BY <2>1, <2>2, Zenon DEF RawRows
<1> DEFINE k == IF Len(seq) < MaxRegisterRows THEN Len(seq) ELSE MaxRegisterRows
<1>7. k \in Nat /\ DOMAIN cut = 1 .. k /\ \A i \in 1 .. k : cut[i] = seq[i]
  <2>1. MaxRegisterRows \in Nat
    BY DEF MaxRegisterRows
  <2> HIDE DEF seq, S
  <2>2. QED
    BY <1>3, <2>1, LimitedIs
<1>8. ToSet(RegisterHistory(ids, reg, w, "asc", MaxRegisterRows)) = {Normalized(seq[i]) : i \in 1 .. k}
  <2> HIDE DEF cut, k, seq, S
  <2>1. QED
    BY <1>6, <1>7 DEF ToSet
<1>9. ASSUME NEW i \in 1 .. k PROVE seq[i] \in first
  <2>0. k <= Cardinality(S) /\ k <= MaxRegisterRows
    <3> HIDE DEF seq, S
    <3>1. QED
      BY <1>3 DEF MaxRegisterRows
  <2>1. i \in 1 .. Cardinality(S) /\ i <= MaxRegisterRows
    <3> HIDE DEF k, seq, S
    <3>1. QED
      BY <1>3, <1>7, <2>0 DEF MaxRegisterRows
  <2>2. seq[i] \in S /\ PlaceIn(S, R)[seq[i]] = i
    <3> HIDE DEF S, R
    <3>1. QED
      BY <1>3, <2>1
  <2> DEFINE n == Cardinality({z \in S : z.at < seq[i].at})
  <2>3. n \in Nat
    <3> HIDE DEF S, seq
    <3>1. QED
      BY <1>1, FS_Subset, FS_CardinalityType
  <2>4. 1 + n = i
    <3> HIDE DEF S, R, seq
    <3>1. QED
      BY <1>4, <2>2
  <2>5. n < MaxRegisterRows
    <3> HIDE DEF n
    <3>1. QED
      BY <2>1, <2>3, <2>4 DEF MaxRegisterRows
  <2>6. QED
    BY <2>2, <2>5
<1>10. ASSUME NEW x \in first PROVE \E i \in 1 .. k : x = seq[i]
  <2> DEFINE n == Cardinality({z \in S : z.at < x.at})
             i == PlaceIn(S, R)[x]
  <2>1. x \in S /\ n < MaxRegisterRows
    OBVIOUS
  <2>2. n \in Nat
    <3> HIDE DEF S
    <3>1. QED
      BY <1>1, FS_Subset, FS_CardinalityType
  <2>3. i = 1 + n /\ i \in 1 .. Cardinality(S) /\ seq[i] = x
    <3> HIDE DEF S, R, seq
    <3>1. QED
      BY <1>3, <1>4, <2>1
  <2>4. i \in 1 .. k
    <3> HIDE DEF i, n, S, seq
    <3>1. QED
      BY <1>3, <2>1, <2>2, <2>3 DEF MaxRegisterRows
  <2>5. QED
    BY <2>3, <2>4
<1>11. {Normalized(seq[i]) : i \in 1 .. k} = {Normalized(x) : x \in first}
  <2> HIDE DEF k, seq, first
  <2>1. QED
    BY <1>9, <1>10, Zenon
<1>12. QED
  BY <1>8, <1>11

-----------------------------------------------------------------------------
(* The newest sample                                                         *)

LEMMA FunctionIsSequence ==
  ASSUME NEW N \in Nat, NEW f, f = [i \in 1 .. N |-> f[i]]
  PROVE  f \in Seq({f[i] : i \in 1 .. N}) /\ Len(f) = N /\ DOMAIN f = 1 .. N
<1> DEFINE S == {f[i] : i \in 1 .. N}
<1>1. f \in [1 .. N -> S]
  OBVIOUS
<1> HIDE DEF S
<1>2. f \in Seq(S) /\ Len(f) = N
  BY <1>1
<1>3. QED
  BY <1>1, <1>2 DEF S

LEMMA ReverseIs ==
  ASSUME NEW S, NEW f \in Seq(S)
  PROVE  /\ Reverse(f) \in Seq(S) /\ Len(Reverse(f)) = Len(f)
         /\ \A i \in 1 .. Len(f) : Reverse(f)[i] = f[(Len(f) - i) + 1]
<1>1. Len(f) \in Nat /\ f \in [1 .. Len(f) -> S]
  OBVIOUS
<1>2. Reverse(f) \in [1 .. Len(f) -> S]
  BY <1>1 DEF Reverse
<1>3. Reverse(f) \in Seq(S) /\ Len(Reverse(f)) = Len(f)
  BY <1>1, <1>2
<1>4. QED
  BY <1>1, <1>3 DEF Reverse

LEMMA FirstOf ==
  ASSUME NEW S, NEW f \in Seq(S)
  PROVE  IF Len(f) = 0 THEN Limited(f, 1) = <<>>
         ELSE Limited(f, 1) # <<>> /\ Limited(f, 1)[1] = f[1]
<1>1. Len(f) \in Nat
  OBVIOUS
<1>2. CASE Len(f) = 0
  <2>1. Limited(f, 1) = SubSeq(f, 1, 0)
    BY <1>2 DEF Limited
  <2>2. QED
    BY <1>2, <2>1
<1>3. CASE Len(f) # 0
  <2>1. Limited(f, 1) = SubSeq(f, 1, 1)
    BY <1>1, <1>3 DEF Limited
  <2>2. SubSeq(f, 1, 1) \in Seq(S) /\ Len(SubSeq(f, 1, 1)) = 1 /\ SubSeq(f, 1, 1)[1] = f[1]
    BY <1>1, <1>3
  <2>3. QED
    BY <1>3, <2>1, <2>2
<1>4. QED
  BY <1>2, <1>3

\* latest_sample: the one with no newer sample of those devices.
LEMMA LatestIsNewest ==
  ASSUME StoreInv, NEW ids
  PROVE  LET found == {s \in samples : s.dev \in ids} IN
         /\ found = {} => LatestSample(ids) = None
         /\ found # {} => /\ LatestSample(ids) \in found
                          /\ \A s \in found : s.at <= LatestSample(ids).at
<1> DEFINE found == {s \in samples : s.dev \in ids /\ InWindow(s.at, Always)}
           N == Cardinality(found)
           older(x) == {y \in found : y.at < x.at}
           place == [x \in found |-> 1 + Cardinality(older(x))]
           pick(i) == CHOOSE x \in found : place[x] = i
           asc == [i \in 1 .. N |-> pick(i)]
<1>0. found = {s \in samples : s.dev \in ids}
  BY DEF InWindow, Always
<1>1. IsFiniteSet(found) /\ N \in Nat /\ \A x \in found : x.at \in Nat /\ x.at < clock
  BY FS_Subset, FS_CardinalityType DEF StoreInv, PastInv
<1>2. SamplesOf(ids, Always, "desc", 1) = Limited(Reverse(asc), Max({1, Min({1, MaxSamples})}))
  BY Zenon DEF SamplesOf, Sorted
<1>3. Max({1, Min({1, MaxSamples})}) = 1
  <2>1. Min({1, MaxSamples}) = 1
    <3>1. 1 \in {1, MaxSamples} /\ \A y \in {1, MaxSamples} : 1 =< y
      BY DEF MaxSamples
    <3>2. Min({1, MaxSamples}) \in {1, MaxSamples}
          /\ \A y \in {1, MaxSamples} : Min({1, MaxSamples}) =< y
      BY <3>1 DEF Min
    <3>3. QED
      BY <3>1, <3>2 DEF MaxSamples
  <2>2. Max({1}) = 1
    BY DEF Max
  <2>3. QED
    BY <2>1, <2>2
<1> DEFINE r == Reverse(asc)
           values == {asc[i] : i \in 1 .. N}
<1>4. asc \in Seq(values) /\ Len(asc) = N
  <2>1. asc = [i \in 1 .. N |-> asc[i]]
    <3> HIDE DEF N, pick
    <3>1. QED
      OBVIOUS
  <2> HIDE DEF asc, N
  <2>2. QED
    BY <1>1, <2>1, FunctionIsSequence
<1>5. r \in Seq(values) /\ Len(r) = N /\ \A i \in 1 .. N : r[i] = asc[(N - i) + 1]
  <2> HIDE DEF asc, N, values
  <2>1. QED
    BY <1>4, ReverseIs
<1>6. CASE found = {}
  <2>1. N = 0
    BY <1>6, FS_EmptySet
  <2>2. Limited(r, 1) = <<>>
    <3> HIDE DEF r, N, values
    <3>1. QED
      BY <1>5, <2>1, FirstOf
  <2>3. LatestSample(ids) = None
    BY <1>2, <1>3, <2>2 DEF LatestSample
  <2>4. QED
    BY <1>0, <1>6, <2>3
<1>7. CASE found # {}
  <2> DEFINE T == {s.at : s \in found}
  <2>1. T \in SUBSET Nat /\ T # {} /\ clock \in Nat /\ \A t \in T : t <= clock
    BY <1>1, <1>7 DEF StoreInv, PastInv
  <2>2. PICK t \in T : \A u \in T : u <= t
    <3> HIDE DEF T
    <3>1. QED
      BY <2>1, GreatestNat
  <2>3. PICK m \in found : \A s \in found : s.at <= m.at
    BY <2>2
  <2>4. \A s \in found : s.at = m.at => s = m
    BY DEF StoreInv, SampleInv
  <2>5. N >= 1 /\ Cardinality(found \ {m}) = N - 1 /\ IsFiniteSet(found \ {m})
    <3>1. N # 0
      BY <1>1, <1>7, FS_EmptySet
    <3>2. QED
      BY <1>1, <2>3, <3>1, FS_RemoveElement
  <2>6. older(m) = found \ {m}
    BY <1>1, <2>3, <2>4
  <2>7. place[m] = N
    <3>1. place[m] = 1 + Cardinality(older(m))
      BY <2>3
    <3>2. QED
      BY <1>1, <2>5, <2>6, <3>1
  <2>8. ASSUME NEW x \in found, place[x] = N PROVE x = m
    <3> SUFFICES ASSUME x # m PROVE FALSE
      OBVIOUS
    <3>1. older(x) \subseteq (found \ {m}) \ {x}
      BY <1>1, <2>3
    <3> DEFINE others == found \ {m}
    <3>2. IsFiniteSet(others \ {x}) /\ Cardinality(others \ {x}) = N - 2
      <4>1. x \in others /\ IsFiniteSet(others) /\ Cardinality(others) = N - 1
        BY <2>5
      <4> HIDE DEF others, N
      <4>2. IsFiniteSet(others \ {x}) /\ Cardinality(others \ {x}) = Cardinality(others) - 1
        BY <4>1, FS_RemoveElement
      <4>3. QED
        BY <1>1, <4>1, <4>2
    <3>3. Cardinality(older(x)) <= N - 2 /\ Cardinality(older(x)) \in Nat
      BY <3>1, <3>2, FS_Subset, FS_CardinalityType
    <3>4. place[x] = 1 + Cardinality(older(x))
      OBVIOUS
    <3>5. QED
      BY <1>1, <2>8, <3>3, <3>4
  <2> DEFINE last == CHOOSE x \in found : place[x] = N
  <2>9. last = m
    <3>1. last \in found /\ place[last] = N
      BY <2>3, <2>7
    <3> HIDE DEF last
    <3>2. QED
      BY <2>8, <3>1
  <2>10. asc[N] = m
    <3>1. N \in 1 .. N
      BY <1>1, <2>5
    <3>2. asc[N] = last
      BY <3>1
    <3>3. QED
      BY <2>9, <3>2
  <2>11. r[1] = m
    <3>1. 1 \in 1 .. N /\ (N - 1) + 1 = N
      BY <1>1, <2>5
    <3> HIDE DEF asc, N, r, values
    <3>2. QED
      BY <1>5, <2>10, <3>1
  <2>12. Limited(r, 1) # <<>> /\ Limited(r, 1)[1] = m
    <3> HIDE DEF r, N, values
    <3>1. QED
      BY <1>1, <1>5, <2>5, <2>11, FirstOf
  <2>13. LatestSample(ids) = m
    BY <1>2, <1>3, <2>12 DEF LatestSample
  <2>14. QED
    BY <1>0, <1>7, <2>3, <2>13
<1>8. QED
  BY <1>6, <1>7

-----------------------------------------------------------------------------
(* Sums                                                                      *)

\* Of some subsets of a finite set one is least.
LEMMA LeastSubset ==
  ASSUME NEW S, IsFiniteSet(S), NEW B \in SUBSET (SUBSET S), B # {}
  PROVE  \E T \in B : \A x \in T : T \ {x} \notin B
<1> DEFINE N == {Cardinality(T) : T \in B}
<1>1. \A T \in B : IsFiniteSet(T) /\ Cardinality(T) \in Nat
  BY FS_Subset, FS_CardinalityType
<1>2. PICK n \in N : \A m \in N : n <= m
  <2>1. N \in SUBSET Nat /\ N # {}
    BY <1>1
  <2> HIDE DEF N
  <2>2. QED
    BY <2>1, LeastNat
<1>3. PICK T \in B : Cardinality(T) = n
  BY <1>2
<1>4. ASSUME NEW x \in T, T \ {x} \in B PROVE FALSE
  <2>1. Cardinality(T \ {x}) = Cardinality(T) - 1
    BY <1>1, FS_RemoveElement
  <2>2. n <= Cardinality(T \ {x})
    BY <1>2, <1>4
  <2>3. QED
    BY <1>1, <1>3, <2>1, <2>2
<1>5. QED
  BY <1>4

\* The sum of a function over a set, as the folds of the library compute it.
One(s) == CHOOSE x \in s : TRUE
SumStep(f, it, s) == IF s = {} THEN 0 ELSE f[One(s)] + it[s \ {One(s)}]
Sums(f, S, it) == it = [s \in SUBSET S |-> SumStep(f, it, s)]
Total(f, S) == (CHOOSE it : Sums(f, S, it))[S]

LEMMA SumIs == ASSUME NEW f, NEW S PROVE MapThenSumSet(LAMBDA x : f[x], S) = Total(f, S)
BY ZenonT(40) DEF Total, Sums, SumStep, One, MapThenSumSet, MapThenFoldSet

LEMMA OneOf == ASSUME NEW S, S # {} PROVE One(S) \in S
BY DEF One

\* There is such a function.
LEMMA SumsExist ==
  ASSUME NEW f, NEW S, IsFiniteSet(S)
  PROVE  \E it : Sums(f, S, it)
<1> DEFINE upTo(n, it) == \A s \in SUBSET S : Cardinality(s) <= n => it[s] = SumStep(f, it, s)
           next(it) == [s \in SUBSET S |-> SumStep(f, it, s)]
           bad == {n \in Nat : ~\E it : upTo(n, it)}
<1>1. \A s \in SUBSET S : IsFiniteSet(s) /\ Cardinality(s) \in Nat /\ Cardinality(s) <= Cardinality(S)
  BY FS_Subset, FS_CardinalityType
<1>2. ASSUME NEW s \in SUBSET S, s # {}
      PROVE  s \ {One(s)} \in SUBSET S /\ Cardinality(s \ {One(s)}) = Cardinality(s) - 1
  BY <1>1, <1>2, OneOf, FS_RemoveElement
<1>3. 0 \notin bad
  <2>1. ASSUME NEW s \in SUBSET S, Cardinality(s) <= 0 PROVE s = {}
    <3>1. Cardinality(s) = 0
      BY <1>1, <2>1
    <3>2. QED
      BY <1>1, <3>1, FS_EmptySet
  <2>2. upTo(0, [s \in SUBSET S |-> 0])
    BY <2>1 DEF SumStep
  <2> HIDE DEF upTo
  <2>3. QED
    BY <2>2
<1>4. ASSUME NEW n \in Nat, NEW it, upTo(n, it) PROVE upTo(n + 1, next(it))
  <2> SUFFICES ASSUME NEW s \in SUBSET S, Cardinality(s) <= n + 1
               PROVE  next(it)[s] = SumStep(f, next(it), s)
    OBVIOUS
  <2>1. next(it)[s] = SumStep(f, it, s)
    OBVIOUS
  <2>2. CASE s = {}
    BY <2>1, <2>2 DEF SumStep
  <2>3. CASE s # {}
    <3> DEFINE t == s \ {One(s)}
    <3>1. t \in SUBSET S /\ Cardinality(t) <= n
      BY <1>1, <1>2, <2>3
    <3>2. it[t] = SumStep(f, it, t)
      BY <1>4, <3>1
    <3>3. next(it)[t] = it[t]
      BY <3>1, <3>2
    <3> HIDE DEF next
    <3>4. QED
      BY <2>1, <2>3, <3>3 DEF SumStep
  <2>4. QED
    BY <2>2, <2>3
<1>5. bad = {}
  <2> SUFFICES ASSUME bad # {} PROVE FALSE
    OBVIOUS
  <2>1. bad \in SUBSET Nat
    OBVIOUS
  <2>2. PICK n \in bad : \A m \in bad : n <= m
    <3> HIDE DEF bad
    <3>1. QED
      BY <2>1, LeastNat
  <2>3. n \in Nat /\ n # 0
    <3> HIDE DEF bad
    <3>1. QED
      BY <1>3, <2>1
  <2>4. n - 1 \in Nat /\ n - 1 \notin bad
    <3>1. n - 1 \in Nat /\ ~(n <= n - 1)
      BY <2>3
    <3> HIDE DEF bad
    <3>2. QED
      BY <2>2, <3>1
  <2>5. PICK it : upTo(n - 1, it)
    <3> HIDE DEF upTo
    <3>1. QED
      BY <2>4
  <2>6. upTo(n, next(it))
    <3>1. upTo((n - 1) + 1, next(it))
      <4> HIDE DEF upTo, next
      <4>1. QED
        BY <1>4, <2>4, <2>5
    <3>2. (n - 1) + 1 = n
      BY <2>3
    <3> HIDE DEF upTo, next
    <3>3. QED
      BY <3>1, <3>2
  <2> HIDE DEF upTo, next
  <2>7. QED
    BY <2>6
<1>6. PICK it : upTo(Cardinality(S), it)
  <2>1. Cardinality(S) \in Nat
    BY FS_CardinalityType
  <2> HIDE DEF upTo
  <2>2. QED
    BY <1>5, <2>1
<1>7. \A s \in SUBSET S : it[s] = SumStep(f, it, s)
  BY <1>1, <1>6
<1>8. Sums(f, S, next(it))
  <2>1. ASSUME NEW s \in SUBSET S PROVE SumStep(f, it, s) = SumStep(f, next(it), s)
    <3>1. CASE s = {}
      BY <3>1 DEF SumStep
    <3>2. CASE s # {}
      <4> DEFINE t == s \ {One(s)}
      <4>1. next(it)[t] = SumStep(f, it, t) /\ SumStep(f, it, t) = it[t]
        BY <1>7
      <4> HIDE DEF next
      <4>2. QED
        BY <3>2, <4>1 DEF SumStep
    <3>3. QED
      BY <3>1, <3>2
  <2> DEFINE g == next(it)
  <2>2. g = [s \in SUBSET S |-> SumStep(f, it, s)]
    OBVIOUS
  <2>3. \A s \in SUBSET S : SumStep(f, it, s) = SumStep(f, g, s)
    BY <2>1
  <2> HIDE DEF g
  <2>4. g = [s \in SUBSET S |-> SumStep(f, g, s)]
    BY <2>2, <2>3
  <2>5. QED
    BY <2>4 DEF Sums, g
<1>9. QED
  BY <1>8

\* Functions alike on a set have the same sums over it.
LEMMA SumsAlike ==
  ASSUME NEW f, NEW g, NEW S, IsFiniteSet(S), NEW T \in SUBSET S, \A x \in T : f[x] = g[x],
         NEW a, Sums(f, S, a), NEW b, Sums(g, T, b)
  PROVE  a[T] = b[T]
<1> DEFINE bad == {s \in SUBSET T : a[s] # b[s]}
<1>1. IsFiniteSet(T)
  BY FS_Subset
<1>2. bad = {}
  <2> SUFFICES ASSUME bad # {} PROVE FALSE
    OBVIOUS
  <2>1. bad \in SUBSET (SUBSET T)
    OBVIOUS
  <2>2. PICK s \in bad : \A x \in s : s \ {x} \notin bad
    <3> HIDE DEF bad
    <3>1. QED
      BY <1>1, <2>1, LeastSubset
  <2>3. a[s] = SumStep(f, a, s) /\ b[s] = SumStep(g, b, s)
    BY DEF Sums
  <2>4. s # {}
    BY <2>3 DEF SumStep
  <2>5. One(s) \in s /\ f[One(s)] = g[One(s)]
    BY <2>4, OneOf
  <2>6. s \ {One(s)} \in SUBSET T /\ s \ {One(s)} \notin bad
    BY <2>2, <2>5
  <2>7. a[s \ {One(s)}] = b[s \ {One(s)}]
    BY <2>6
  <2>8. a[s] = b[s]
    BY <2>3, <2>4, <2>5, <2>7 DEF SumStep
  <2>9. QED
    BY <2>8
<1>3. QED
  BY <1>2

LEMMA TotalIs ==
  ASSUME NEW f, NEW S, IsFiniteSet(S)
  PROVE  \E it : Sums(f, S, it) /\ Total(f, S) = it[S]
<1>1. \E it : Sums(f, S, it)
  BY SumsExist
<1>2. Sums(f, S, CHOOSE it : Sums(f, S, it))
  BY <1>1, Zenon
<1>3. QED
  BY <1>2 DEF Total

LEMMA TotalAlike ==
  ASSUME NEW f, NEW g, NEW S, IsFiniteSet(S), \A x \in S : f[x] = g[x]
  PROVE  Total(f, S) = Total(g, S)
<1>1. PICK a : Sums(f, S, a) /\ Total(f, S) = a[S]
  BY TotalIs
<1>2. PICK b : Sums(g, S, b) /\ Total(g, S) = b[S]
  BY TotalIs
<1>3. QED
  BY <1>1, <1>2, SumsAlike

LEMMA TotalEmpty == ASSUME NEW f PROVE Total(f, {}) = 0
<1>1. IsFiniteSet({})
  BY FS_EmptySet
<1>2. PICK it : Sums(f, {}, it) /\ Total(f, {}) = it[{}]
  BY <1>1, TotalIs
<1>3. QED
  BY <1>2 DEF Sums, SumStep

LEMMA TotalChosen ==
  ASSUME NEW f, NEW S, IsFiniteSet(S), S # {}
  PROVE  Total(f, S) = f[One(S)] + Total(f, S \ {One(S)})
<1> DEFINE T == S \ {One(S)}
<1>1. PICK a : Sums(f, S, a) /\ Total(f, S) = a[S]
  BY TotalIs
<1>2. IsFiniteSet(T)
  BY FS_Subset
<1>3. PICK b : Sums(f, T, b) /\ Total(f, T) = b[T]
  BY <1>2, TotalIs
<1>4. a[T] = b[T]
  BY <1>1, <1>3, SumsAlike
<1>5. a[S] = f[One(S)] + a[T]
  BY <1>1 DEF Sums, SumStep
<1>6. QED
  BY <1>1, <1>3, <1>4, <1>5

LEMMA TotalType ==
  ASSUME NEW f, NEW S, IsFiniteSet(S), \A x \in S : f[x] \in Int
  PROVE  Total(f, S) \in Int
<1> DEFINE bad == {T \in SUBSET S : Total(f, T) \notin Int}
<1>1. bad = {}
  <2> SUFFICES ASSUME bad # {} PROVE FALSE
    OBVIOUS
  <2>1. bad \in SUBSET (SUBSET S)
    OBVIOUS
  <2>2. PICK T \in bad : \A x \in T : T \ {x} \notin bad
    <3> HIDE DEF bad
    <3>1. QED
      BY <2>1, LeastSubset
  <2>0. Total(f, T) \notin Int /\ T \in SUBSET S
    OBVIOUS
  <2>3. IsFiniteSet(T) /\ T # {} /\ T \in SUBSET S
    <3>1. IsFiniteSet(T)
      BY <2>0, FS_Subset
    <3>2. T # {}
      BY <2>0, TotalEmpty
    <3>3. QED
      BY <2>0, <3>1, <3>2
  <2>4. One(T) \in T /\ Total(f, T) = f[One(T)] + Total(f, T \ {One(T)})
    BY <2>3, OneOf, TotalChosen
  <2>5. T \ {One(T)} \in SUBSET S /\ T \ {One(T)} \notin bad
    BY <2>2, <2>3, <2>4
  <2>6. Total(f, T \ {One(T)}) \in Int
    BY <2>5
  <2>7. QED
    BY <2>3, <2>4, <2>6
<1>2. QED
  BY <1>1

\* Any element may be taken out first.
LEMMA TotalRemove ==
  ASSUME NEW f, NEW S, IsFiniteSet(S), \A x \in S : f[x] \in Int, NEW x \in S
  PROVE  Total(f, S) = f[x] + Total(f, S \ {x})
<1> DEFINE wrong(T) == \E y \in T : Total(f, T) # f[y] + Total(f, T \ {y})
           bad == {T \in SUBSET S : wrong(T)}
<1>1. bad = {}
  <2> SUFFICES ASSUME bad # {} PROVE FALSE
    OBVIOUS
  <2>1. bad \in SUBSET (SUBSET S)
    OBVIOUS
  <2>2. PICK T \in bad : \A z \in T : T \ {z} \notin bad
    <3> HIDE DEF bad
    <3>1. QED
      BY <2>1, LeastSubset
  <2>3. IsFiniteSet(T) /\ T \in SUBSET S
    BY FS_Subset
  <2>4. PICK y \in T : Total(f, T) # f[y] + Total(f, T \ {y})
    BY <2>2
  <2> DEFINE c == One(T)
  <2>5. c \in T /\ Total(f, T) = f[c] + Total(f, T \ {c})
    BY <2>3, <2>4, OneOf, TotalChosen
  <2> HIDE DEF c
  <2>6. c # y
    BY <2>4, <2>5
  <2>7. Total(f, T \ {c}) = f[y] + Total(f, (T \ {c}) \ {y})
    <3>1. T \ {c} \in SUBSET S /\ T \ {c} \notin bad /\ y \in T \ {c}
      BY <2>2, <2>3, <2>5, <2>6
    <3>2. QED
      BY <3>1
  <2>8. Total(f, T \ {y}) = f[c] + Total(f, (T \ {y}) \ {c})
    <3>1. T \ {y} \in SUBSET S /\ T \ {y} \notin bad /\ c \in T \ {y}
      BY <2>2, <2>3, <2>4, <2>5, <2>6
    <3>2. QED
      BY <3>1
  <2>9. (T \ {c}) \ {y} = (T \ {y}) \ {c}
    OBVIOUS
  <2>10. Total(f, (T \ {c}) \ {y}) \in Int /\ f[c] \in Int /\ f[y] \in Int
    <3>1. IsFiniteSet((T \ {c}) \ {y}) /\ (T \ {c}) \ {y} \subseteq S
      BY <2>3, FS_Subset
    <3>2. QED
      BY <2>3, <2>4, <2>5, <3>1, TotalType
  <2>11. QED
    BY <2>4, <2>5, <2>7, <2>8, <2>9, <2>10
<1>2. QED
  BY <1>1

LEMMA TotalAdd ==
  ASSUME NEW f, NEW S, IsFiniteSet(S), NEW x, x \notin S, \A y \in S \cup {x} : f[y] \in Int
  PROVE  Total(f, S \cup {x}) = f[x] + Total(f, S)
<1>1. IsFiniteSet(S \cup {x})
  BY FS_AddElement
<1>2. (S \cup {x}) \ {x} = S
  OBVIOUS
<1>3. QED
  BY <1>1, <1>2, TotalRemove

\* A property that a set built up element by element keeps holds of every
\* finite set.
LEMMA SetInduction ==
  ASSUME NEW S, IsFiniteSet(S), NEW P, {} \in P,
         \A T \in SUBSET S : \A x \in S \ T : T \in P => T \cup {x} \in P
  PROVE  S \in P
<1> DEFINE bad == {T \in SUBSET S : T \notin P}
<1>1. bad = {}
  <2> SUFFICES ASSUME bad # {} PROVE FALSE
    OBVIOUS
  <2>1. bad \in SUBSET (SUBSET S)
    OBVIOUS
  <2>2. PICK T \in bad : \A x \in T : T \ {x} \notin bad
    <3> HIDE DEF bad
    <3>1. QED
      BY <2>1, LeastSubset
  <2>3. PICK x \in T : TRUE
    BY <2>2
  <2>4. T \ {x} \in SUBSET S /\ T \ {x} \in P /\ x \in S \ (T \ {x})
    BY <2>2, <2>3
  <2>5. (T \ {x}) \cup {x} = T
    BY <2>3
  <2>6. QED
    BY <2>2, <2>4, <2>5
<1>2. QED
  BY <1>1

\* The sum of numbers between two bounds.
LEMMA TotalBounds ==
  ASSUME NEW f, NEW S, IsFiniteSet(S), NEW low \in Int, NEW high \in Int,
         \A x \in S : f[x] \in Int /\ low <= f[x] /\ f[x] <= high
  PROVE  /\ low * Cardinality(S) <= Total(f, S) /\ Total(f, S) <= high * Cardinality(S)
         /\ Total(f, S) \in Int /\ Cardinality(S) \in Nat
<1> DEFINE ok(T) == low * Cardinality(T) <= Total(f, T) /\ Total(f, T) <= high * Cardinality(T)
           P == {T \in SUBSET S : ok(T)}
<1>1. {} \in P
  <2>1. Cardinality({}) = 0 /\ Total(f, {}) = 0
    BY FS_EmptySet, TotalEmpty
  <2>2. QED
    BY <2>1
<1>2. ASSUME NEW T \in SUBSET S, NEW x \in S \ T, T \in P PROVE T \cup {x} \in P
  <2>1. IsFiniteSet(T)
    BY FS_Subset
  <2>2. Cardinality(T) \in Nat /\ Cardinality(T \cup {x}) = Cardinality(T) + 1
    BY <2>1, FS_CardinalityType, FS_AddElement
  <2>3. Total(f, T) \in Int
    BY <2>1, TotalType
  <2>4. Total(f, T \cup {x}) = f[x] + Total(f, T)
    BY <2>1, TotalAdd
  <2> DEFINE n == Cardinality(T)
  <2>5. low * (n + 1) = low * n + low /\ high * (n + 1) = high * n + high
        /\ low * n \in Int /\ high * n \in Int
    <3> HIDE DEF n
    <3>1. n \in Int
      BY <2>2 DEF n
    <3>2. QED
      BY <3>1
  <2>6. low * n <= Total(f, T) /\ Total(f, T) <= high * n
    BY <1>2
  <2> HIDE DEF n
  <2>7. low * (n + 1) <= f[x] + Total(f, T) /\ f[x] + Total(f, T) <= high * (n + 1)
    BY <2>3, <2>5, <2>6
  <2>8. QED
    BY <2>2, <2>4, <2>7 DEF n
<1> HIDE DEF P
<1>3. S \in P
  BY <1>1, <1>2, SetInduction
<1>4. QED
  BY <1>3, TotalType, FS_CardinalityType DEF P

-----------------------------------------------------------------------------
(* The lowest, the highest and the mean of some numbers                      *)

Numeric(R) == IsFiniteSet(R) /\ \A x \in R : x.value \in Int /\ x.at \in Nat

LEMMA LowestIs ==
  ASSUME NEW R, Numeric(R), R # {}
  PROVE  /\ Lowest(R) \in R /\ \A y \in R : Lowest(R).value <= y.value
         /\ \A y \in R : \/ Lowest(R).value < y.value
                         \/ Lowest(R).value = y.value /\ Lowest(R).at <= y.at
<1> DEFINE V == {x.value : x \in R}
<1>1. PICK low \in V : \A v \in V : low <= v
  <2>1. V \in SUBSET Int /\ V # {}
    BY DEF Numeric
  <2>2. IsFiniteSet(V)
    <3> DEFINE f == [x \in R |-> x.value]
    <3>1. f \in Surjection(R, V)
      BY DEF Surjection
    <3>2. QED
      BY <3>1, FS_Surjection DEF Numeric
  <2> HIDE DEF V
  <2>3. QED
    BY <2>1, <2>2, LeastAndGreatest
<1> DEFINE T == {x.at : x \in {y \in R : y.value = low}}
<1>2. PICK t \in T : \A u \in T : t <= u
  <2>1. T \in SUBSET Nat /\ T # {}
    BY DEF Numeric
  <2> HIDE DEF T
  <2>2. QED
    BY <2>1, LeastNat
<1>3. PICK x \in R : x.value = low /\ x.at = t
  BY <1>2
<1>4. \A y \in R : x.value < y.value \/ (x.value = y.value /\ x.at <= y.at)
  <2> SUFFICES ASSUME NEW y \in R, y.value = low PROVE x.at <= y.at
    BY <1>1, <1>3 DEF Numeric
  <2>1. QED
    BY <1>2, <1>3
<1>5. Lowest(R) \in R
      /\ \A y \in R : Lowest(R).value < y.value
                      \/ (Lowest(R).value = y.value /\ Lowest(R).at <= y.at)
  BY <1>3, <1>4 DEF Lowest
<1>6. QED
  BY <1>5 DEF Numeric

LEMMA HighestIs ==
  ASSUME NEW R, Numeric(R), R # {}
  PROVE  Highest(R) \in R /\ \A y \in R : y.value <= Highest(R).value
<1> DEFINE V == {x.value : x \in R}
<1>1. PICK high \in V : \A v \in V : v <= high
  <2>1. V \in SUBSET Int /\ V # {}
    BY DEF Numeric
  <2>2. IsFiniteSet(V)
    <3> DEFINE f == [x \in R |-> x.value]
    <3>1. f \in Surjection(R, V)
      BY DEF Surjection
    <3>2. QED
      BY <3>1, FS_Surjection DEF Numeric
  <2> HIDE DEF V
  <2>3. QED
    BY <2>1, <2>2, LeastAndGreatest
<1> DEFINE T == {x.at : x \in {y \in R : y.value = high}}
<1>2. PICK t \in T : \A u \in T : t <= u
  <2>1. T \in SUBSET Nat /\ T # {}
    BY DEF Numeric
  <2> HIDE DEF T
  <2>2. QED
    BY <2>1, LeastNat
<1>3. PICK x \in R : x.value = high /\ x.at = t
  BY <1>2
<1>4. \A y \in R : x.value > y.value \/ (x.value = y.value /\ x.at <= y.at)
  <2>0. \A y \in R : y.value \in Int /\ x.value \in Int /\ y.value <= x.value
    BY <1>1, <1>3 DEF Numeric
  <2> SUFFICES ASSUME NEW y \in R, y.value = high PROVE x.at <= y.at
    <3>1. \A y \in R : y.value # high => x.value > y.value
      BY <1>3, <2>0
    <3>2. QED
      BY <1>3, <3>1
  <2>1. QED
    BY <1>2, <1>3
<1>5. Highest(R) \in R
      /\ \A y \in R : Highest(R).value > y.value
                      \/ (Highest(R).value = y.value /\ Highest(R).at <= y.at)
  BY <1>3, <1>4 DEF Highest
<1>6. QED
  BY <1>5 DEF Numeric

\* A mean, rounded down, lies between the bounds of its numbers.
LEMMA MeanBetween ==
  ASSUME NEW R, IsFiniteSet(R), R # {}, NEW low \in Int, NEW high \in Int,
         \A x \in R : x.value \in Int /\ low <= x.value /\ x.value <= high
  PROVE  MeanOf(R) \in Int /\ low <= MeanOf(R) /\ MeanOf(R) <= high
<1> DEFINE f == [x \in R |-> x.value]
           n == Cardinality(R)
           t == Total(f, R)
<1>1. MeanOf(R) = t \div n
  <2>1. MapThenSumSet(LAMBDA x : x.value, R) = t
    BY ZenonT(40) DEF Total, Sums, SumStep, One, MapThenSumSet, MapThenFoldSet
  <2> HIDE DEF t, n
  <2>2. QED
    BY <2>1, Zenon DEF MeanOf, n
<1>2. low * n <= t /\ t <= high * n /\ t \in Int /\ n \in Nat
  <2>1. \A x \in R : f[x] \in Int /\ low <= f[x] /\ f[x] <= high
    OBVIOUS
  <2> HIDE DEF f
  <2>2. QED
    BY <2>1, TotalBounds
<1>3. n # 0
  BY FS_EmptySet
<1> HIDE DEF n, t
<1>4. n * low <= t /\ ~(t >= n * (high + 1)) /\ n \in Nat \ {0}
  <2>1. n * low = low * n /\ n * (high + 1) = high * n + n /\ high * n \in Int
    BY <1>2
  <2>2. QED
    BY <1>2, <1>3, <2>1
<1>5. /\ t \div n \in Int
      /\ \A k \in Int : t >= n * k <=> t \div n >= k
  BY Zenon, <1>2, <1>4, Quotient
<1> DEFINE q == t \div n
<1>6. q \in Int /\ q >= low /\ ~(q >= high + 1)
  <2>1. t >= n * low /\ high + 1 \in Int
    <3>1. n * low \in Int
      BY <1>2
    <3>2. QED
      BY <1>2, <1>4, <3>1
  <2>2. QED
    BY Zenon, <1>4, <1>5, <2>1
<1> HIDE DEF q
<1>7. MeanOf(R) = q
  BY <1>1 DEF q
<1>8. QED
  BY <1>6, <1>7

-----------------------------------------------------------------------------
(* Counting by a key                                                         *)

LEMMA ImageFinite ==
  ASSUME NEW S, IsFiniteSet(S), NEW k, NEW D, D = {k[x] : x \in S}
  PROVE  IsFiniteSet(D) /\ Cardinality(D) <= Cardinality(S)
<1> DEFINE f == [x \in S |-> k[x]]
<1>1. f \in Surjection(S, D)
  BY DEF Surjection
<1> HIDE DEF f
<1>2. QED
  BY <1>1, FS_Surjection

Keyed(S, k, d) == {x \in S : k[x] = d}

\* How many there are of each key adds up to how many there are.
LEMMA CountByKey ==
  ASSUME NEW S, IsFiniteSet(S), NEW D, IsFiniteSet(D), NEW k, \A x \in S : k[x] \in D,
         NEW f, \A d \in D : f[d] = Cardinality(Keyed(S, k, d))
  PROVE  Total(f, D) = Cardinality(S)
<1> DEFINE of(T, d) == {x \in T : k[x] = d}
           counts(T) == [d \in D |-> Cardinality(of(T, d))]
           P == {T \in SUBSET S : Total(counts(T), D) = Cardinality(T)}
<1>1. {} \in P
  <2> DEFINE g == counts({})
  <2>1. \A d \in D : g[d] \in Int /\ 0 <= g[d] /\ g[d] <= 0
    BY FS_EmptySet
  <2> HIDE DEF g
  <2>2. Total(g, D) = 0
    <3>1. 0 * Cardinality(D) <= Total(g, D) /\ Total(g, D) <= 0 * Cardinality(D)
          /\ Total(g, D) \in Int /\ Cardinality(D) \in Nat
      BY <2>1, TotalBounds
    <3>2. QED
      BY <3>1
  <2>3. QED
    BY <2>2, FS_EmptySet DEF g
<1>2. ASSUME NEW T \in SUBSET S, NEW x \in S \ T, T \in P PROVE T \cup {x} \in P
  <2> DEFINE a == counts(T)
             b == counts(T \cup {x})
             d == k[x]
             rest == D \ {d}
  <2>1. IsFiniteSet(T) /\ Cardinality(T) \in Nat /\ Cardinality(T \cup {x}) = Cardinality(T) + 1
    BY FS_Subset, FS_CardinalityType, FS_AddElement
  <2>2. d \in D /\ IsFiniteSet(rest)
    BY FS_Subset
  <2>3. ASSUME NEW e \in D
        PROVE  /\ IsFiniteSet(of(T, e)) /\ a[e] = Cardinality(of(T, e)) /\ a[e] \in Nat
               /\ b[e] = Cardinality(of(T \cup {x}, e)) /\ b[e] \in Nat
    <3>1. IsFiniteSet(of(T, e)) /\ IsFiniteSet(of(T \cup {x}, e))
      BY FS_Subset
    <3> HIDE DEF of
    <3>2. QED
      BY <3>1, FS_CardinalityType
  <2>4. ASSUME NEW e \in rest PROVE a[e] = b[e]
    <3>1. of(T, e) = of(T \cup {x}, e)
      OBVIOUS
    <3>2. QED
      BY <2>3, <3>1
  <2>5. b[d] = a[d] + 1
    <3>1. of(T \cup {x}, d) = of(T, d) \cup {x} /\ x \notin of(T, d)
      OBVIOUS
    <3>2. /\ IsFiniteSet(of(T, d)) /\ a[d] = Cardinality(of(T, d))
          /\ b[d] = Cardinality(of(T \cup {x}, d))
      BY <2>2, <2>3
    <3> HIDE DEF of, a, b, d
    <3>3. Cardinality(of(T, d) \cup {x}) = Cardinality(of(T, d)) + 1
      BY <3>1, <3>2, FS_AddElement
    <3>4. QED
      BY <3>1, <3>2, <3>3
  <2>11. \A e \in D : a[e] \in Int /\ b[e] \in Int
    <3>1. \A e \in D : a[e] \in Nat /\ b[e] \in Nat
      BY <2>3
    <3> HIDE DEF a, b
    <3>2. QED
      BY <3>1
  <2> HIDE DEF a, b, d
  <2>6. Total(a, D) = a[d] + Total(a, rest) /\ Total(b, D) = b[d] + Total(b, rest)
    BY <2>2, <2>11, TotalRemove
  <2>7. Total(a, rest) = Total(b, rest) /\ Total(a, rest) \in Int
    <3> HIDE DEF rest
    <3>1. Total(a, rest) = Total(b, rest)
      BY <2>2, <2>4, TotalAlike
    <3>2. \A e \in rest : a[e] \in Int
      BY <2>11 DEF rest
    <3>3. QED
      BY <2>2, <3>1, <3>2, TotalType
  <2>8. Total(a, D) = Cardinality(T)
    BY <1>2 DEF a
  <2>9. Total(b, D) = Cardinality(T \cup {x})
    <3>1. a[d] \in Int
      BY <2>2, <2>11
    <3> HIDE DEF rest
    <3>2. QED
      BY <2>1, <2>5, <2>6, <2>7, <2>8, <3>1
  <2>10. QED
    BY <2>9 DEF b
<1> HIDE DEF P
<1>3. S \in P
  BY <1>1, <1>2, SetInduction
<1>4. Total(counts(S), D) = Cardinality(S)
  BY <1>3 DEF P
<1>5. \A d \in D : f[d] = counts(S)[d]
  <2>1. \A d \in D : Keyed(S, k, d) = of(S, d)
    BY DEF Keyed
  <2>2. QED
    BY <2>1
<1> HIDE DEF counts
<1>6. QED
  BY <1>4, <1>5, TotalAlike

\* The same of a part of what has these keys.
LEMMA CountOfPart ==
  ASSUME NEW B, NEW Q, NEW D, NEW k, NEW f, IsFiniteSet(B), Q \subseteq B,
         \A x \in B : k[x] \in D, \A d \in D : \E x \in B : k[x] = d,
         \A x \in B : f[k[x]] = Cardinality(Keyed(Q, k, k[x]))
  PROVE  Total(f, D) = Cardinality(Q)
<1>1. IsFiniteSet(D) /\ IsFiniteSet(Q)
  <2>1. D = {k[x] : x \in B}
    OBVIOUS
  <2>2. QED
    BY <2>1, ImageFinite, FS_Subset
<1>2. \A x \in Q : k[x] \in D
  OBVIOUS
<1>3. \A d \in D : f[d] = Cardinality(Keyed(Q, k, d))
  OBVIOUS
<1>4. QED
  BY <1>1, <1>2, <1>3, CountByKey

-----------------------------------------------------------------------------
(* How long an answer is                                                     *)

FewSamples == Cardinality(samples) <= MaxSamples

\* The rows of one register are no more than the samples.
LEMMA RowsOfRegister ==
  ASSUME StoreInv, NEW ids, NEW reg, NEW w
  PROVE  LET S == RowsOf(ids, {reg}, w) IN
         IsFiniteSet(S) /\ Cardinality(S) \in Nat /\ Cardinality(S) <= Cardinality(samples)
<1> DEFINE S == RowsOf(ids, {reg}, w)
           k == [s \in samples |-> RowOf(s, reg)]
           D == {k[s] : s \in samples}
<1>1. IsFiniteSet(samples)
  BY DEF StoreInv, PastInv
<1>2. IsFiniteSet(D) /\ Cardinality(D) <= Cardinality(samples)
  <2> HIDE DEF k
  <2>1. QED
    BY <1>1, ImageFinite
<1>3. S \subseteq D
  <2> SUFFICES ASSUME NEW x \in S PROVE x \in D
    OBVIOUS
  <2>1. PICK s \in samples : x.reg \in {reg} /\ x = RowOf(s, x.reg)
    BY RowMember
  <2>2. x = k[s]
    BY <2>1
  <2> HIDE DEF k
  <2>3. QED
    BY <2>2
<1> HIDE DEF D, S
<1>4. IsFiniteSet(S) /\ Cardinality(S) <= Cardinality(D)
  BY <1>2, <1>3, FS_Subset
<1>5. Cardinality(S) \in Nat /\ Cardinality(D) \in Nat /\ Cardinality(samples) \in Nat
  BY <1>1, <1>2, <1>4, FS_CardinalityType
<1>6. Cardinality(S) <= Cardinality(samples)
  BY <1>2, <1>4, <1>5
<1>7. QED
  BY <1>4, <1>5, <1>6 DEF S

-----------------------------------------------------------------------------
(* Answers, whole or cut                                                     *)

Arranged(S, place) == [i \in 1 .. Cardinality(S) |-> CHOOSE x \in S : place[x] = i]
Ordered(S, place, order) ==
  IF order = "asc" THEN Arranged(S, place) ELSE Reverse(Arranged(S, place))

\* Whatever the order, the sequence is as long as the set is large.
LEMMA OrderedLength ==
  ASSUME NEW S, IsFiniteSet(S), NEW place, NEW order
  PROVE  \E V : /\ Ordered(S, place, order) \in Seq(V)
                /\ Len(Ordered(S, place, order)) = Cardinality(S)
<1> DEFINE N == Cardinality(S)
           asc == Arranged(S, place)
           V == {asc[i] : i \in 1 .. N}
<1>1. N \in Nat
  BY FS_CardinalityType
<1>2. asc \in Seq(V) /\ Len(asc) = N
  <2>1. asc = [i \in 1 .. N |-> asc[i]]
    BY DEF Arranged
  <2> HIDE DEF asc, N
  <2>2. QED
    BY <1>1, <2>1, FunctionIsSequence
<1>3. Reverse(asc) \in Seq(V) /\ Len(Reverse(asc)) = N
  <2> HIDE DEF asc, N, V
  <2>1. QED
    BY <1>2, ReverseIs
<1> HIDE DEF V
<1>4. Ordered(S, place, order) \in Seq(V) /\ Len(Ordered(S, place, order)) = N
  BY <1>2, <1>3 DEF Ordered
<1>5. QED
  BY <1>4

LEMMA LimitedWhole ==
  ASSUME NEW V, NEW seq \in Seq(V), NEW limit \in Nat, Len(seq) <= limit
  PROVE  Limited(seq, limit) = seq
<1>1. Limited(seq, limit) = SubSeq(seq, 1, Len(seq))
  <2>1. Len(seq) \in Nat
    OBVIOUS
  <2>2. (IF Len(seq) < limit THEN Len(seq) ELSE limit) = Len(seq)
    BY <2>1
  <2>3. QED
    BY <2>2, Zenon DEF Limited
<1>2. QED
  BY <1>1

\* A response that takes one row more than it may show is refused exactly when
\* there are more, and whole otherwise.
LEMMA RefusedOrWhole ==
  ASSUME NEW V, NEW seq \in Seq(V), MaxPoints \in Nat
  PROVE  /\ Len(seq) > MaxPoints => Len(Limited(seq, MaxPoints + 1)) > MaxPoints
         /\ ~(Len(seq) > MaxPoints) => /\ Limited(seq, MaxPoints + 1) = seq
                                       /\ ~(Len(Limited(seq, MaxPoints + 1)) > MaxPoints)
<1>1. Len(seq) \in Nat /\ MaxPoints + 1 \in Nat
  OBVIOUS
<1>2. CASE Len(seq) > MaxPoints
  <2> DEFINE k == IF Len(seq) < MaxPoints + 1 THEN Len(seq) ELSE MaxPoints + 1
  <2>1. k = MaxPoints + 1
    BY <1>1, <1>2
  <2>2. Len(Limited(seq, MaxPoints + 1)) = k
    BY <1>1, LimitedIs
  <2> HIDE DEF k
  <2>3. QED
    BY <1>2, <2>1, <2>2
<1>3. CASE ~(Len(seq) > MaxPoints)
  <2>1. Limited(seq, MaxPoints + 1) = seq
    BY <1>1, <1>3, LimitedWhole
  <2>2. QED
    BY <1>3, <2>1
<1>4. QED
  BY <1>2, <1>3

\* The rows in their order, each normalized.
LEMMA RawRowsAre ==
  ASSUME NEW ids, NEW names, NEW w, NEW order, NEW limit \in Nat,
         IsFiniteSet(RowsOf(ids, names, w))
  PROVE  LET S == RowsOf(ids, names, w)
             N == Cardinality(S)
             k == IF N < limit THEN N ELSE limit
             ordered == Sorted(S, Earlier, order)
         IN /\ N \in Nat /\ k \in Nat
            /\ RawRows(ids, names, w, order, limit) = [i \in 1 .. k |-> Normalized(ordered[i])]
            /\ Len(RawRows(ids, names, w, order, limit)) = k
<1> DEFINE S == RowsOf(ids, names, w)
           N == Cardinality(S)
           k == IF N < limit THEN N ELSE limit
           ordered == Sorted(S, Earlier, order)
           place == [x \in S |-> 1 + Cardinality({y \in S : Earlier(y, x)})]
           cut == Limited(ordered, limit)
           rows == RawRows(ids, names, w, order, limit)
<1>1. ordered = Ordered(S, place, order)
  BY Zenon DEF Sorted, Ordered, Arranged
<1>2. PICK V : ordered \in Seq(V) /\ Len(ordered) = N
  <2> HIDE DEF ordered, S, place
  <2>1. QED
    BY <1>1, OrderedLength DEF S
<1>3. N \in Nat /\ k \in Nat
  <2>1. N \in Nat
    BY FS_CardinalityType
  <2> HIDE DEF N
  <2>2. QED
    BY <2>1
<1>4. DOMAIN cut = 1 .. k /\ \A i \in 1 .. k : cut[i] = ordered[i]
  <2> HIDE DEF ordered, N
  <2>1. QED
    BY <1>2, LimitedIs
<1>5. rows = [i \in DOMAIN cut |-> Normalized(cut[i])]
  BY Zenon DEF RawRows
<1> HIDE DEF ordered, cut, k, rows, N
<1>6. rows = [i \in 1 .. k |-> Normalized(ordered[i])]
  BY <1>4, <1>5
<1>7. rows = [i \in 1 .. k |-> rows[i]]
  BY <1>6
<1>8. Len(rows) = k
  BY <1>3, <1>7, FunctionIsSequence
<1>9. QED
  BY <1>3, <1>6, <1>8 DEF ordered, k, rows, N

-----------------------------------------------------------------------------
(* The rows by kind and bucket                                               *)

FoundRows(ids, names, w) == {x \in RowsOf(ids, names, w) : x.value # Null}
OfKind(found, c) == {x \in found : x.reg = c.reg /\ KindOf(x.value) = c.kind}

CellKey(x, seconds) == [reg |-> x.reg, kind |-> KindOf(x.value), start |-> BucketOf(x.at, seconds)]
InCell(found, c, seconds) == {x \in OfKind(found, c) : CellKey(x, seconds) = c}
CellRow(found, c, seconds) ==
  [start |-> c.start, reg |-> c.reg, kind |-> c.kind,
   of |-> Summary(c.kind, InCell(found, c, seconds), OfKind(found, c))]

StatKey(x) == [reg |-> x.reg, kind |-> KindOf(x.value)]
StatRow(found, c) ==
  LET all == OfKind(found, c) IN
  [reg |-> c.reg, kind |-> c.kind, of |-> Summary(c.kind, all, all),
   duration |-> Newest(all).at - Oldest(all).at,
   delta |-> IF c.kind = "numeric" THEN Newest(all).value - Oldest(all).value ELSE None,
   seen |-> IF c.kind = "numeric" THEN None
            ELSE [v \in {x.value : x \in all} |-> Cardinality({x \in all : x.value = v})]]

LEMMA CellsAre ==
  ASSUME NEW ids, NEW names, NEW w, NEW seconds
  PROVE  LET found == FoundRows(ids, names, w) IN
         AggregatedRows(ids, names, w, seconds)
           = {CellRow(found, CellKey(x, seconds), seconds) : x \in found}
<1> DEFINE found == FoundRows(ids, names, w)
           keys == {CellKey(x, seconds) : x \in found}
<1>1. AggregatedRows(ids, names, w, seconds) = {CellRow(found, c, seconds) : c \in keys}
  BY Zenon DEF AggregatedRows, FoundRows, CellRow, CellKey, InCell, OfKind
<1> HIDE DEF found
<1>2. {CellRow(found, c, seconds) : c \in keys}
        = {CellRow(found, CellKey(x, seconds), seconds) : x \in found}
  BY Zenon
<1>3. QED
  BY <1>1, <1>2 DEF found

LEMMA StatsAre ==
  ASSUME NEW ids, NEW names, NEW w
  PROVE  LET found == FoundRows(ids, names, w) IN
         RegisterStats(ids, names, w) = {StatRow(found, StatKey(x)) : x \in found}
<1> DEFINE found == FoundRows(ids, names, w)
           keys == {StatKey(x) : x \in found}
<1>1. RegisterStats(ids, names, w) = {StatRow(found, c) : c \in keys}
  BY Zenon DEF RegisterStats, FoundRows, StatRow, StatKey, OfKind
<1> HIDE DEF found
<1>2. {StatRow(found, c) : c \in keys} = {StatRow(found, StatKey(x)) : x \in found}
  BY Zenon
<1>3. QED
  BY <1>1, <1>2 DEF found

TransitionsIn(bucket, all) == Cardinality({x \in bucket : Changed(x, bucket, all)})

LEMMA SummaryFields ==
  ASSUME NEW kind, NEW bucket, NEW all
  PROVE  /\ Summary(kind, bucket, all).count = Cardinality(bucket)
         /\ Summary(kind, bucket, all).first = Oldest(bucket)
         /\ Summary(kind, bucket, all).last = Newest(bucket)
         /\ kind = "numeric" => Summary(kind, bucket, all).low = Lowest(bucket)
         /\ kind # "numeric" => Summary(kind, bucket, all).transitions = TransitionsIn(bucket, all)
BY DEF Summary, TransitionsIn

LEMMA CellFields ==
  ASSUME NEW found, NEW c, NEW seconds
  PROVE  /\ CellRow(found, c, seconds).start = c.start
         /\ CellRow(found, c, seconds).reg = c.reg
         /\ CellRow(found, c, seconds).kind = c.kind
         /\ CellRow(found, c, seconds).of = Summary(c.kind, InCell(found, c, seconds), OfKind(found, c))
BY DEF CellRow

LEMMA StatFields ==
  ASSUME NEW found, NEW c
  PROVE  /\ StatRow(found, c).reg = c.reg /\ StatRow(found, c).kind = c.kind
         /\ StatRow(found, c).of = Summary(c.kind, OfKind(found, c), OfKind(found, c))
BY DEF StatRow

LEMMA KeyFields ==
  ASSUME NEW x, NEW seconds
  PROVE  /\ StatKey(x).reg = x.reg /\ StatKey(x).kind = KindOf(x.value)
         /\ CellKey(x, seconds).reg = x.reg /\ CellKey(x, seconds).kind = KindOf(x.value)
         /\ CellKey(x, seconds).start = BucketOf(x.at, seconds)
BY DEF StatKey, CellKey

LEMMA FoundFinite ==
  ASSUME StoreInv, NEW ids, NEW names, NEW w
  PROVE  LET found == FoundRows(ids, names, w) IN
         /\ IsFiniteSet(found) /\ Cardinality(found) \in Nat
         /\ \A x \in found : x \in RowsOf(ids, names, w) /\ IsRow(x) /\ x.dev \in ids /\ x.value # Null
<1>1. IsFiniteSet(RowsOf(ids, names, w))
  BY RowsFinite
<1>2. FoundRows(ids, names, w) \subseteq RowsOf(ids, names, w)
  BY DEF FoundRows
<1>3. IsFiniteSet(FoundRows(ids, names, w))
  BY <1>1, <1>2, FS_Subset
<1>4. Cardinality(FoundRows(ids, names, w)) \in Nat
  BY <1>3, FS_CardinalityType
<1>5. \A x \in FoundRows(ids, names, w) : x.value # Null
  BY DEF FoundRows
<1>6. QED
  BY <1>2, <1>3, <1>4, <1>5, RowsAreRows

LEMMA CellsFinite ==
  ASSUME StoreInv, NEW ids, NEW names, NEW w, NEW seconds
  PROVE  IsFiniteSet(AggregatedRows(ids, names, w, seconds))
<1> DEFINE found == FoundRows(ids, names, w)
           k == [x \in found |-> CellRow(found, CellKey(x, seconds), seconds)]
<1>1. IsFiniteSet(found)
  BY FoundFinite
<1>2. AggregatedRows(ids, names, w, seconds) = {k[x] : x \in found}
  <2>1. \A x \in found : k[x] = CellRow(found, CellKey(x, seconds), seconds)
    BY Zenon
  <2>2. AggregatedRows(ids, names, w, seconds)
          = {CellRow(found, CellKey(x, seconds), seconds) : x \in found}
    BY CellsAre
  <2> HIDE DEF found, k
  <2>3. QED
    BY <2>1, <2>2, Zenon
<1> HIDE DEF found, k
<1>3. QED
  BY <1>1, <1>2, ImageFinite

\* A response is refused or whole.
LEMMA NeverCutHolds ==
  ASSUME StoreInv, NEW ids, NEW w, NEW order, NEW seconds
  PROVE  NeverCut(ids, w, order, seconds)
<1> DEFINE names == ToSet(Registers)
           exported == Exported(ids, names, w, order, seconds)
           response == MultiHistory(ids, names, w, order, seconds, MaxPoints)
<1>0. MaxPoints \in Nat
  BY RegisterAssumption
<1>1. CASE seconds = None
  <2> DEFINE S == RowsOf(ids, names, w)
             N == Cardinality(S)
             ordered == Sorted(S, Earlier, order)
             k == IF N < MaxPoints + 1 THEN N ELSE MaxPoints + 1
             rows == RawRows(ids, names, w, order, MaxPoints + 1)
  <2>1. IsFiniteSet(S) /\ N \in Nat
    BY RowsFinite, FS_CardinalityType
  <2>2. exported = [i \in 1 .. N |-> Normalized(ordered[i])] /\ Len(exported) = N
    <3>1. exported = RawRows(ids, names, w, order, N)
      BY <1>1 DEF Exported
    <3>2. (IF N < N THEN N ELSE N) = N
      OBVIOUS
    <3> HIDE DEF exported, names
    <3>3. QED
      BY <2>1, <3>1, <3>2, RawRowsAre
  <2>3. rows = [i \in 1 .. k |-> Normalized(ordered[i])] /\ Len(rows) = k
    <3>1. MaxPoints + 1 \in Nat
      BY <1>0
    <3> HIDE DEF rows, names
    <3>2. QED
      BY <2>1, <3>1, RawRowsAre DEF rows
  <2>4. response = Response(rows, MaxPoints)
    BY <1>1 DEF MultiHistory
  <2>5. CASE N > MaxPoints
    <3>1. k > MaxPoints
      <4> HIDE DEF N
      <4>1. QED
        BY <1>0, <2>1, <2>5
    <3>2. response = TooLarge
      <4> HIDE DEF rows, response, k
      <4>1. QED
        BY <2>3, <2>4, <3>1 DEF Response
    <3> HIDE DEF exported, response, N
    <3>3. QED
      BY <2>2, <2>5, <3>2 DEF NeverCut, exported, response
  <2>6. CASE ~(N > MaxPoints)
    <3>1. k = N
      <4> HIDE DEF N
      <4>1. QED
        BY <1>0, <2>1, <2>6
    <3>2. rows = exported /\ Len(rows) = N
      <4> HIDE DEF rows, exported, ordered, N, k
      <4>1. QED
        BY <2>2, <2>3, <3>1
    <3>3. response.points = exported
      <4>1. response = [points |-> rows]
        <5> HIDE DEF rows, response, N
        <5>1. QED
          BY <2>4, <2>6, <3>2 DEF Response
      <4> HIDE DEF rows, response, exported
      <4>2. QED
        BY <3>2, <4>1
    <3> HIDE DEF exported, response, N
    <3>4. QED
      BY <2>2, <2>6, <3>3 DEF NeverCut, exported, response
  <2>7. QED
    BY <2>5, <2>6
<1>2. CASE seconds # None
  <2> DEFINE A == AggregatedRows(ids, names, w, seconds)
             place == [x \in A |-> 1 + Cardinality({y \in A : CellBefore(y, x)})]
             rows == Limited(exported, MaxPoints + 1)
  <2>1. exported = Ordered(A, place, order)
    <3>1. exported = Sorted(A, CellBefore, order)
      BY <1>2, Zenon DEF Exported
    <3>2. Sorted(A, CellBefore, order) = Ordered(A, place, order)
      BY Zenon DEF Sorted, Ordered, Arranged
    <3>3. QED
      BY <3>1, <3>2
  <2>2. PICK V : exported \in Seq(V)
    <3>1. IsFiniteSet(A)
      BY CellsFinite
    <3> HIDE DEF A, place, exported
    <3>2. QED
      BY <2>1, <3>1, OrderedLength
  <2>3. response = Response(rows, MaxPoints)
    <3>1. response = Response(Limited(Sorted(A, CellBefore, order), MaxPoints + 1), MaxPoints)
      BY <1>2, Zenon DEF MultiHistory
    <3>2. exported = Sorted(A, CellBefore, order)
      BY <1>2, Zenon DEF Exported
    <3> HIDE DEF A, exported, response
    <3>3. QED
      BY <3>1, <3>2
  <2>4. /\ Len(exported) > MaxPoints => Len(rows) > MaxPoints
        /\ ~(Len(exported) > MaxPoints) => rows = exported /\ ~(Len(rows) > MaxPoints)
    <3> HIDE DEF exported
    <3>1. QED
      BY <1>0, <2>2, RefusedOrWhole
  <2>5. IF Len(exported) > MaxPoints THEN response = TooLarge ELSE response.points = exported
    <3> HIDE DEF exported, response, rows
    <3>1. QED
      BY <2>3, <2>4 DEF Response
  <2> HIDE DEF exported, response
  <2>6. QED
    BY <2>5 DEF NeverCut, exported, response
<1>3. QED
  BY <1>1, <1>2

-----------------------------------------------------------------------------
(* The devices of a controller                                               *)

CountsOf(cells) == [x \in cells |-> x.of.count]
LEMMA CountsAre ==
  ASSUME NEW cells
  PROVE  MapThenSumSet(LAMBDA x : x.of.count, cells) = Total(CountsOf(cells), cells)
BY ZenonT(40) DEF CountsOf, Total, Sums, SumStep, One, MapThenSumSet, MapThenFoldSet

SameBucket(found, x, seconds) == {y \in found : CellKey(y, seconds) = CellKey(x, seconds)}
Kin(found, x) == {y \in found : StatKey(y) = StatKey(x)}

LEMMA CellIs ==
  ASSUME NEW found, NEW seconds, NEW x \in found
  PROVE  /\ InCell(found, CellKey(x, seconds), seconds) = SameBucket(found, x, seconds)
         /\ OfKind(found, CellKey(x, seconds)) = OfKind(found, StatKey(x))
         /\ OfKind(found, StatKey(x)) = Kin(found, x)
         /\ \A y \in found :
              CellRow(found, CellKey(y, seconds), seconds) = CellRow(found, CellKey(x, seconds), seconds)
                <=> CellKey(y, seconds) = CellKey(x, seconds)
         /\ \A y \in found :
              StatRow(found, StatKey(y)) = StatRow(found, StatKey(x)) <=> StatKey(y) = StatKey(x)
<1>1. OfKind(found, CellKey(x, seconds)) = OfKind(found, StatKey(x))
  <2>1. CellKey(x, seconds).reg = StatKey(x).reg /\ CellKey(x, seconds).kind = StatKey(x).kind
    BY KeyFields
  <2>2. QED
    BY <2>1, Zenon DEF OfKind
<1>2. OfKind(found, StatKey(x)) = Kin(found, x)
  <2>1. \A y \in found : StatKey(y) = StatKey(x) <=> y.reg = x.reg /\ KindOf(y.value) = KindOf(x.value)
    BY DEF StatKey
  <2>2. OfKind(found, StatKey(x)) = {y \in found : y.reg = x.reg /\ KindOf(y.value) = KindOf(x.value)}
    BY KeyFields, Zenon DEF OfKind
  <2>3. QED
    BY <2>1, <2>2, Zenon DEF Kin
<1>3. \A y \in found : CellKey(y, seconds) = CellKey(x, seconds) => y \in OfKind(found, CellKey(x, seconds))
  <2> SUFFICES ASSUME NEW y \in found, CellKey(y, seconds) = CellKey(x, seconds)
               PROVE  y \in OfKind(found, CellKey(x, seconds))
    OBVIOUS
  <2>1. y.reg = CellKey(x, seconds).reg /\ KindOf(y.value) = CellKey(x, seconds).kind
    BY KeyFields
  <2>2. QED
    BY <2>1, Zenon DEF OfKind
<1>4. InCell(found, CellKey(x, seconds), seconds) = SameBucket(found, x, seconds)
  <2>1. OfKind(found, CellKey(x, seconds)) \subseteq found
    BY Zenon DEF OfKind
  <2>2. QED
    BY <1>3, <2>1, Zenon DEF InCell, SameBucket
<1>5. ASSUME NEW y \in found,
             CellRow(found, CellKey(y, seconds), seconds) = CellRow(found, CellKey(x, seconds), seconds)
      PROVE  CellKey(y, seconds) = CellKey(x, seconds)
  <2>1. /\ CellKey(y, seconds).start = CellKey(x, seconds).start
        /\ CellKey(y, seconds).reg = CellKey(x, seconds).reg
        /\ CellKey(y, seconds).kind = CellKey(x, seconds).kind
    BY <1>5, CellFields
  <2>2. QED
    BY <2>1 DEF CellKey
<1>6. ASSUME NEW y \in found, StatRow(found, StatKey(y)) = StatRow(found, StatKey(x))
      PROVE  StatKey(y) = StatKey(x)
  <2>1. StatKey(y).reg = StatKey(x).reg /\ StatKey(y).kind = StatKey(x).kind
    BY <1>6, StatFields
  <2>2. QED
    BY <2>1 DEF StatKey
<1>7. QED
  BY <1>1, <1>2, <1>4, <1>5, <1>6, Zenon

\* The counts of the buckets, and those of the statistics, add up to the rows
\* that have a value.
LEMMA CellsCounted ==
  ASSUME StoreInv, NEW ids, NEW names, NEW w, NEW seconds
  PROVE  MapThenSumSet(LAMBDA x : x.of.count, AggregatedRows(ids, names, w, seconds))
           = Cardinality(FoundRows(ids, names, w))
<1> DEFINE found == FoundRows(ids, names, w)
           D == AggregatedRows(ids, names, w, seconds)
           k == [x \in found |-> CellRow(found, CellKey(x, seconds), seconds)]
           f == CountsOf(D)
<1>1. IsFiniteSet(found)
  BY FoundFinite
<1>2. D = {CellRow(found, CellKey(x, seconds), seconds) : x \in found}
  BY CellsAre
<1>3. \A x \in found : k[x] = CellRow(found, CellKey(x, seconds), seconds)
  BY Zenon
<1> HIDE DEF found, k, D
<1>4. D = {k[x] : x \in found}
  BY <1>2, <1>3, Zenon
<1>5. ASSUME NEW x \in found PROVE f[k[x]] = Cardinality(Keyed(found, k, k[x]))
  <2> DEFINE c == CellKey(x, seconds)
             cell == CellRow(found, c, seconds)
             bucket == InCell(found, c, seconds)
  <2>1. cell.of = Summary(c.kind, bucket, OfKind(found, c))
    BY CellFields
  <2>2. cell.of.count = Cardinality(bucket)
    <3> HIDE DEF cell, bucket, c
    <3>1. Summary(c.kind, bucket, OfKind(found, c)).count = Cardinality(bucket)
      BY SummaryFields
    <3>2. QED
      BY <2>1, <3>1
  <2>3. k[x] = cell /\ k[x] \in D
    BY <1>3, <1>4
  <2>4. f[k[x]] = k[x].of.count
    BY <2>3, Zenon DEF CountsOf
  <2>5. bucket = {y \in found : CellKey(y, seconds) = CellKey(x, seconds)}
    BY CellIs DEF SameBucket
  <2>6. \A y \in found : k[y] = k[x] <=> CellKey(y, seconds) = CellKey(x, seconds)
    BY <1>3, CellIs
  <2>7. bucket = Keyed(found, k, k[x])
    BY <2>5, <2>6, Zenon DEF Keyed
  <2> HIDE DEF bucket, cell, f
  <2>8. QED
    BY <2>2, <2>3, <2>4, <2>7
<1>6. Total(f, D) = Cardinality(found)
  <2> HIDE DEF f
  <2>1. found \subseteq found
    OBVIOUS
  <2>2. \A x \in found : f[k[x]] = Cardinality(Keyed(found, k, k[x]))
    BY <1>5
  <2>3. (\A x \in found : k[x] \in D) /\ \A d \in D : \E x \in found : k[x] = d
    BY <1>4
  <2>4. QED
    BY <1>1, <2>1, <2>2, <2>3, CountOfPart
<1>7. QED
  BY <1>6, CountsAre DEF D, found

LEMMA StatsCounted ==
  ASSUME StoreInv, NEW ids, NEW names, NEW w
  PROVE  MapThenSumSet(LAMBDA x : x.of.count, RegisterStats(ids, names, w))
           = Cardinality(FoundRows(ids, names, w))
<1> DEFINE found == FoundRows(ids, names, w)
           D == RegisterStats(ids, names, w)
           k == [x \in found |-> StatRow(found, StatKey(x))]
           f == CountsOf(D)
<1>1. IsFiniteSet(found)
  BY FoundFinite
<1>2. D = {StatRow(found, StatKey(x)) : x \in found}
  BY StatsAre
<1>3. \A x \in found : k[x] = StatRow(found, StatKey(x))
  BY Zenon
<1> HIDE DEF found, k, D
<1>4. D = {k[x] : x \in found}
  BY <1>2, <1>3, Zenon
<1>5. ASSUME NEW x \in found PROVE f[k[x]] = Cardinality(Keyed(found, k, k[x]))
  <2> DEFINE c == StatKey(x)
             row == StatRow(found, c)
             all == OfKind(found, c)
  <2>1. row.of = Summary(c.kind, all, all)
    BY StatFields
  <2>2. row.of.count = Cardinality(all)
    <3> HIDE DEF row, all, c
    <3>1. Summary(c.kind, all, all).count = Cardinality(all)
      BY SummaryFields
    <3>2. QED
      BY <2>1, <3>1
  <2>3. k[x] = row /\ k[x] \in D
    BY <1>3, <1>4
  <2>4. f[k[x]] = k[x].of.count
    BY <2>3, Zenon DEF CountsOf
  <2>5. all = {y \in found : StatKey(y) = StatKey(x)}
    BY CellIs DEF Kin
  <2>6. \A y \in found : k[y] = k[x] <=> StatKey(y) = StatKey(x)
    BY <1>3, CellIs
  <2>7. all = Keyed(found, k, k[x])
    BY <2>5, <2>6, Zenon DEF Keyed
  <2> HIDE DEF all, row, f
  <2>8. QED
    BY <2>2, <2>3, <2>4, <2>7
<1>6. Total(f, D) = Cardinality(found)
  <2> HIDE DEF f
  <2>1. found \subseteq found
    OBVIOUS
  <2>2. \A x \in found : f[k[x]] = Cardinality(Keyed(found, k, k[x]))
    BY <1>5
  <2>3. (\A x \in found : k[x] \in D) /\ \A d \in D : \E x \in found : k[x] = d
    BY <1>4
  <2>4. QED
    BY <1>1, <2>1, <2>2, <2>3, CountOfPart
<1>7. QED
  BY <1>6, CountsAre DEF D, found

OfDevice(S, d) == {x \in S : x.dev = d}

LEMMA RowsOfDevice ==
  ASSUME StoreInv, NEW ids, NEW d \in ids, NEW names, NEW w
  PROVE  /\ RowsOf({d}, names, w) = OfDevice(RowsOf(ids, names, w), d)
         /\ FoundRows({d}, names, w) = OfDevice(FoundRows(ids, names, w), d)
<1>1. ASSUME NEW x \in RowsOf({d}, names, w) PROVE x \in RowsOf(ids, names, w) /\ x.dev = d
  <2>1. IsRow(x) /\ x.dev \in {d} /\ x.reg \in names /\ InWindow(x.at, w)
    BY RowsAreRows
  <2>2. x.dev = d /\ x.dev \in ids
    BY <2>1
  <2>3. QED
    BY <2>1, <2>2, RowFound
<1>2. ASSUME NEW x \in RowsOf(ids, names, w), x.dev = d PROVE x \in RowsOf({d}, names, w)
  <2>1. IsRow(x) /\ x.reg \in names /\ InWindow(x.at, w)
    BY RowsAreRows
  <2>2. x.dev \in {d}
    BY <1>2
  <2>3. QED
    BY <2>1, <2>2, RowFound
<1>3. RowsOf({d}, names, w) = OfDevice(RowsOf(ids, names, w), d)
  BY <1>1, <1>2, Zenon DEF OfDevice
<1>4. QED
  BY <1>3, Zenon DEF FoundRows, OfDevice

\* What the devices have adds up to what they have together.
LEMMA ByDevice ==
  ASSUME NEW all \in SUBSET Devices, NEW S, IsFiniteSet(S), \A x \in S : x.dev \in all,
         NEW f, \A d \in all : f[d] = Cardinality(OfDevice(S, d))
  PROVE  Total(f, all) = Cardinality(S)
<1> DEFINE k == [x \in S |-> x.dev]
<1>1. IsFiniteSet(all)
  BY TelemetryAssumption, FS_Subset
<1>2. \A x \in S : k[x] \in all
  OBVIOUS
<1>3. \A d \in all : f[d] = Cardinality(Keyed(S, k, d))
  <2>1. \A d \in all : Keyed(S, k, d) = OfDevice(S, d)
    BY DEF Keyed, OfDevice
  <2>2. QED
    BY <2>1
<1> HIDE DEF k
<1>4. Total(f, all) = Cardinality(S)
  BY <1>1, <1>2, <1>3, CountByKey
<1>5. QED
  BY <1>4

Polled(ids, w) == {s \in samples : s.dev \in ids /\ InWindow(s.at, w)}

LEMMA PolledFinite ==
  ASSUME StoreInv, NEW ids, NEW w
  PROVE  /\ IsFiniteSet(Polled(ids, w)) /\ Cardinality(Polled(ids, w)) \in Nat
         /\ Cardinality(Polled(ids, w)) <= Cardinality(samples)
<1>1. IsFiniteSet(samples)
  BY DEF StoreInv, PastInv
<1>2. Polled(ids, w) \subseteq samples
  BY DEF Polled
<1>3. QED
  BY <1>1, <1>2, FS_Subset, FS_CardinalityType

\* The summary counts the rows of all registers.
LEMMA SummaryCounts ==
  ASSUME StoreInv, NEW ids, NEW w
  PROVE  /\ HistorySummary(ids, w).samples = Cardinality(Polled(ids, w))
         /\ HistorySummary(ids, w).observations = Cardinality(RowsOf(ids, ToSet(Registers), w))
<1> DEFINE names == UNION {DOMAIN s.values : s \in Polled(ids, w)}
           S == RowsOf(ids, names, w)
           T == RowsOf(ids, ToSet(Registers), w)
<1>1. HistorySummary(ids, w).samples = Cardinality(Polled(ids, w))
  BY DEF HistorySummary, Polled
<1>2. HistorySummary(ids, w).observations = Cardinality(S)
  BY DEF HistorySummary, Polled
<1>3. ASSUME NEW x \in S PROVE x \in T
  <2>1. IsRow(x) /\ x.dev \in ids /\ InWindow(x.at, w)
    BY RowsAreRows
  <2>2. x.reg \in ToSet(Registers)
    BY <2>1 DEF IsRow
  <2>3. QED
    BY <2>1, <2>2, RowFound
<1>4. ASSUME NEW x \in T PROVE x \in S
  <2>1. IsRow(x) /\ x.dev \in ids /\ InWindow(x.at, w)
    BY RowsAreRows
  <2>2. PICK s \in samples : x.reg \in DOMAIN s.values /\ x = RowOf(s, x.reg)
    BY <2>1 DEF IsRow
  <2>3. s.dev = x.dev /\ s.at = x.at
    BY <2>2, RowFields
  <2>4. s \in Polled(ids, w)
    BY <2>1, <2>3 DEF Polled
  <2>5. x.reg \in names
    BY <2>2, <2>4
  <2> HIDE DEF names
  <2>6. QED
    BY <2>1, <2>5, RowFound
<1>5. S = T
  BY <1>3, <1>4, Zenon
<1> HIDE DEF S, T
<1>6. HistorySummary(ids, w).observations = Cardinality(T)
  BY <1>2, <1>5
<1>7. QED
  BY <1>1, <1>6 DEF T

LEMMA SamplesCounted ==
  ASSUME StoreInv, FewSamples, NEW ids, NEW w
  PROVE  Len(SamplesOf(ids, w, "asc", MaxSamples)) = Cardinality(Polled(ids, w))
<1> DEFINE S == Polled(ids, w)
           place == [x \in S |-> 1 + Cardinality({y \in S : y.at < x.at})]
           ordered == Ordered(S, place, "asc")
           limit == Max({1, Min({MaxSamples, MaxSamples})})
<1>1. SamplesOf(ids, w, "asc", MaxSamples) = Limited(ordered, limit)
  BY Zenon DEF SamplesOf, Sorted, Ordered, Arranged, Polled
<1>2. limit = MaxSamples
  <2>1. Min({MaxSamples}) = MaxSamples
    BY DEF Min, MaxSamples
  <2>2. 1 \in Int /\ MaxSamples \in Int /\ MaxSamples > 1
    BY DEF MaxSamples
  <2>3. Max({1, MaxSamples}) >= MaxSamples /\ Max({1, MaxSamples}) \in {1, MaxSamples}
    BY <2>2, MaxOfTwo, Zenon
  <2>4. Max({1, MaxSamples}) = MaxSamples
    BY <2>2, <2>3
  <2>5. QED
    BY <2>1, <2>4
<1>3. IsFiniteSet(S) /\ Cardinality(S) \in Nat /\ Cardinality(S) <= Cardinality(samples)
  BY PolledFinite
<1>4. PICK V : ordered \in Seq(V) /\ Len(ordered) = Cardinality(S)
  <2> HIDE DEF S, place
  <2>1. QED
    BY <1>3, OrderedLength
<1>5. Cardinality(samples) \in Nat /\ Cardinality(samples) <= MaxSamples /\ MaxSamples \in Nat
  <2>1. IsFiniteSet(samples)
    BY DEF StoreInv, PastInv
  <2>2. MaxSamples \in Nat
    BY DEF MaxSamples
  <2>3. QED
    BY <2>1, <2>2, FS_CardinalityType DEF FewSamples
<1> HIDE DEF ordered, limit, S
<1>6. Len(ordered) <= MaxSamples
  BY <1>3, <1>4, <1>5
<1>7. Limited(ordered, MaxSamples) = ordered
  BY <1>4, <1>5, <1>6, LimitedWhole
<1>8. QED
  BY <1>1, <1>2, <1>4, <1>7 DEF S

\* The history of one register is whole, as long as the samples are few.
LEMMA RegisterHistoryWhole ==
  ASSUME StoreInv, FewSamples, NEW ids, NEW reg, NEW w
  PROVE  LET S == RowsOf(ids, {reg}, w) IN
         /\ Cardinality(S) \in Nat
         /\ Len(RegisterHistory(ids, reg, w, "asc", MaxRegisterRows)) = Cardinality(S)
         /\ RegisterHistory(ids, reg, w, "asc", MaxRegisterRows)
              = [i \in 1 .. Cardinality(S) |-> Normalized(ByPlace(S, EarlierIn(S))[i])]
<1> DEFINE names == {reg}
           S == RowsOf(ids, names, w)
           N == Cardinality(S)
           limit == Max({1, Min({MaxRegisterRows, MaxRegisterRows})})
           ordered == Sorted(S, Earlier, "asc")
           k == IF N < MaxRegisterRows THEN N ELSE MaxRegisterRows
           own == RegisterHistory(ids, reg, w, "asc", MaxRegisterRows)
<1>1. limit = MaxRegisterRows
  <2>1. Min({MaxRegisterRows}) = MaxRegisterRows
    BY DEF Min, MaxRegisterRows
  <2>2. 1 \in Int /\ MaxRegisterRows \in Int /\ MaxRegisterRows > 1
    BY DEF MaxRegisterRows
  <2>3. Max({1, MaxRegisterRows}) >= MaxRegisterRows
        /\ Max({1, MaxRegisterRows}) \in {1, MaxRegisterRows}
    BY <2>2, MaxOfTwo, Zenon
  <2>4. Max({1, MaxRegisterRows}) = MaxRegisterRows
    BY <2>2, <2>3
  <2>5. QED
    BY <2>1, <2>4
<1>2. own = RawRows(ids, names, w, "asc", MaxRegisterRows)
  BY <1>1 DEF RegisterHistory
<1>3. IsFiniteSet(S) /\ N \in Nat /\ N <= Cardinality(samples)
  BY RowsOfRegister
<1> HIDE DEF names
<1>4. k = N
  <2>1. Cardinality(samples) <= MaxSamples /\ Cardinality(samples) \in Nat
    <3>1. IsFiniteSet(samples)
      BY DEF StoreInv, PastInv
    <3>2. QED
      BY <3>1, FS_CardinalityType DEF FewSamples
  <2> HIDE DEF N
  <2>2. QED
    BY <1>3, <2>1 DEF MaxSamples, MaxRegisterRows
<1>5. /\ RawRows(ids, names, w, "asc", MaxRegisterRows) = [i \in 1 .. k |-> Normalized(ordered[i])]
      /\ Len(RawRows(ids, names, w, "asc", MaxRegisterRows)) = k
  <2>1. MaxRegisterRows \in Nat
    BY DEF MaxRegisterRows
  <2>2. QED
    BY <1>3, <2>1, RawRowsAre
<1>6. ordered = ByPlace(S, EarlierIn(S))
  BY RowsInOrder
<1> HIDE DEF own, k, ordered, N
<1>7. own = [i \in 1 .. N |-> Normalized(ByPlace(S, EarlierIn(S))[i])] /\ Len(own) = N
  BY <1>2, <1>4, <1>5, <1>6
<1>8. QED
  BY <1>3, <1>7 DEF own, N, names

LEMMA ExportLength ==
  ASSUME StoreInv, NEW ids, NEW names, NEW w, NEW order
  PROVE  /\ Cardinality(RowsOf(ids, names, w)) \in Nat
         /\ Len(Exported(ids, names, w, order, None)) = Cardinality(RowsOf(ids, names, w))
<1> DEFINE N == Cardinality(RowsOf(ids, names, w))
<1>1. IsFiniteSet(RowsOf(ids, names, w)) /\ N \in Nat
  BY RowsFinite, FS_CardinalityType
<1>2. Exported(ids, names, w, order, None) = RawRows(ids, names, w, order, N)
  BY DEF Exported
<1>3. Len(RawRows(ids, names, w, order, N)) = IF N < N THEN N ELSE N
  <2> HIDE DEF N
  <2>1. QED
    BY <1>1, RawRowsAre DEF N
<1>4. QED
  BY <1>1, <1>2, <1>3

\* The newest sample of the controller is the newest of one of its devices.
LEMMA LatestOfDevice ==
  ASSUME StoreInv, NEW ids, LatestSample(ids) # None
  PROVE  \E d \in ids : LatestSample({d}) = LatestSample(ids)
<1> DEFINE found == {s \in samples : s.dev \in ids}
           m == LatestSample(ids)
           own == {s \in samples : s.dev \in {m.dev}}
<1>1. m \in found /\ \A s \in found : s.at <= m.at
  <2>1. found # {}
    BY LatestIsNewest
  <2>2. QED
    BY <2>1, LatestIsNewest
<1> HIDE DEF m
<1>2. m \in samples /\ m.dev \in ids /\ m \in own
  BY <1>1
<1>3. LatestSample({m.dev}) \in own /\ \A s \in own : s.at <= LatestSample({m.dev}).at
  <2>1. own # {}
    BY <1>2
  <2>2. QED
    BY <2>1, LatestIsNewest
<1>4. LatestSample({m.dev}) \in found
  BY <1>2, <1>3
<1>5. LatestSample({m.dev}).at = m.at
  <2>1. m.at <= LatestSample({m.dev}).at /\ LatestSample({m.dev}).at <= m.at
    BY <1>1, <1>2, <1>3, <1>4
  <2>2. m.at \in Nat /\ LatestSample({m.dev}).at \in Nat
    BY <1>2, <1>3 DEF StoreInv, PastInv
  <2>3. QED
    BY <2>1, <2>2
<1>6. LatestSample({m.dev}) = m
  BY <1>2, <1>3, <1>5 DEF StoreInv, SampleInv
<1>7. QED
  BY <1>2, <1>6 DEF m

LEMMA DevicesHold ==
  ASSUME StoreInv, FewSamples, NEW c, NEW w
  PROVE  DevicesAddUp(c, w)
<1> DEFINE all == DevicesOf(c)
           names == ToSet(Registers)
           observed == [d \in all |-> Len(DeviceExport(d, names, w, "desc", None))]
           rowsOf == [d \in all |-> DeviceSummary(d, w).observations]
           sampled == [d \in all |-> Len(DeviceSamples(d, w, "asc", MaxSamples))]
           counted == [d \in all |-> MapThenSumSet(LAMBDA x : x.of.count, DeviceStats(d, names, w))]
           states == [d \in all |-> Len(DeviceRegister(d, "charge_state", w, "asc", MaxRegisterRows))]
           S == RowsOf(all, names, w)
           P == Polled(all, w)
           F == FoundRows(all, names, w)
           C == RowsOf(all, {"charge_state"}, w)
           told(d) == DeviceHistory(d, names, w, "desc", None, MaxPoints)
<1>0. all \in SUBSET Devices
  BY DEF DevicesOf
<1>1. IsFiniteSet(S) /\ IsFiniteSet(P) /\ IsFiniteSet(F) /\ IsFiniteSet(C)
  BY RowsFinite, PolledFinite, FoundFinite
<1>2. /\ \A x \in S : x.dev \in all
      /\ \A x \in P : x.dev \in all
      /\ \A x \in F : x.dev \in all
      /\ \A x \in C : x.dev \in all
  BY RowsAreRows, FoundFinite DEF Polled
<1>3. ASSUME NEW d \in all
      PROVE  observed[d] = Cardinality(OfDevice(S, d)) /\ observed[d] = Len(DeviceExport(d, names, w, "desc", None))
  <2>1. Len(DeviceExport(d, names, w, "desc", None)) = Cardinality(RowsOf({d}, names, w))
    BY ExportLength DEF DeviceExport
  <2>2. RowsOf({d}, names, w) = OfDevice(S, d)
    <3> HIDE DEF all
    <3>1. QED
      BY RowsOfDevice
  <2>3. QED
    BY <2>1, <2>2
<1>4. ASSUME NEW d \in all PROVE rowsOf[d] = Cardinality(OfDevice(S, d))
  <2>1. DeviceSummary(d, w).observations = Cardinality(RowsOf({d}, names, w))
    BY SummaryCounts DEF DeviceSummary
  <2>2. RowsOf({d}, names, w) = OfDevice(S, d)
    <3> HIDE DEF all
    <3>1. QED
      BY RowsOfDevice
  <2>3. QED
    BY <2>1, <2>2
<1>5. ASSUME NEW d \in all PROVE sampled[d] = Cardinality(OfDevice(P, d))
  <2>1. Len(DeviceSamples(d, w, "asc", MaxSamples)) = Cardinality(Polled({d}, w))
    BY SamplesCounted DEF DeviceSamples
  <2>2. Polled({d}, w) = OfDevice(P, d)
    BY DEF Polled, OfDevice
  <2>3. QED
    BY <2>1, <2>2
<1>6. ASSUME NEW d \in all
      PROVE  /\ counted[d] = Cardinality(OfDevice(F, d))
             /\ MapThenSumSet(LAMBDA x : x.of.count, DeviceStats(d, names, w))
                  = MapThenSumSet(LAMBDA x : x.of.count, DeviceAggregated(d, names, w, 2))
  <2>1. MapThenSumSet(LAMBDA x : x.of.count, DeviceStats(d, names, w))
          = Cardinality(FoundRows({d}, names, w))
    BY StatsCounted, Zenon DEF DeviceStats
  <2>2. MapThenSumSet(LAMBDA x : x.of.count, DeviceAggregated(d, names, w, 2))
          = Cardinality(FoundRows({d}, names, w))
    BY CellsCounted, Zenon DEF DeviceAggregated
  <2>3. FoundRows({d}, names, w) = OfDevice(F, d)
    <3> HIDE DEF all
    <3>1. QED
      BY RowsOfDevice
  <2>4. counted[d] = MapThenSumSet(LAMBDA x : x.of.count, DeviceStats(d, names, w))
    BY Zenon
  <2> HIDE DEF counted
  <2>5. QED
    BY Zenon, <2>1, <2>2, <2>3, <2>4
<1>7. ASSUME NEW d \in all PROVE states[d] = Cardinality(OfDevice(C, d))
  <2>1. Len(DeviceRegister(d, "charge_state", w, "asc", MaxRegisterRows))
          = Cardinality(RowsOf({d}, {"charge_state"}, w))
    BY RegisterHistoryWhole DEF DeviceRegister
  <2>2. RowsOf({d}, {"charge_state"}, w) = OfDevice(C, d)
    <3> HIDE DEF all
    <3>1. QED
      BY RowsOfDevice
  <2>3. QED
    BY <2>1, <2>2
<1>8. ASSUME NEW d \in all
      PROVE  IF observed[d] > MaxPoints THEN told(d) = TooLarge ELSE Len(told(d).points) = observed[d]
  <2> DEFINE exported == Exported({d}, names, w, "desc", None)
  <2>1. told(d) = MultiHistory({d}, names, w, "desc", None, MaxPoints)
    BY DEF DeviceHistory
  <2>2. observed[d] = Len(exported)
    BY <1>3 DEF DeviceExport
  <2>3. NeverCut({d}, w, "desc", None)
    BY NeverCutHolds
  <2>4. IF Len(exported) > MaxPoints THEN told(d) = TooLarge ELSE told(d).points = exported
    BY <2>1, <2>3 DEF NeverCut
  <2> HIDE DEF exported, told, observed
  <2>5. QED
    BY <2>2, <2>4
<1>9. /\ Cardinality(S) = Len(Exported(all, names, w, "desc", None))
      /\ Cardinality(S) = HistorySummary(all, w).observations
      /\ Cardinality(P) = HistorySummary(all, w).samples
      /\ Cardinality(F) = MapThenSumSet(LAMBDA x : x.of.count, RegisterStats(all, names, w))
      /\ Cardinality(C) = Len(RegisterHistory(all, "charge_state", w, "asc", MaxRegisterRows))
  <2>1. Cardinality(F) = MapThenSumSet(LAMBDA x : x.of.count, RegisterStats(all, names, w))
    BY StatsCounted, Zenon
  <2>2. Cardinality(S) = Len(Exported(all, names, w, "desc", None))
    BY ExportLength
  <2>3. /\ Cardinality(S) = HistorySummary(all, w).observations
        /\ Cardinality(P) = HistorySummary(all, w).samples
    BY SummaryCounts
  <2>4. Cardinality(C) = Len(RegisterHistory(all, "charge_state", w, "asc", MaxRegisterRows))
    BY RegisterHistoryWhole
  <2>5. QED
    BY <2>1, <2>2, <2>3, <2>4, Zenon
<1>10. ASSUME LatestSample(all) # None PROVE \E d \in all : DeviceLatest(d) = LatestSample(all)
  <2> HIDE DEF all
  <2>1. QED
    BY <1>10, LatestOfDevice DEF DeviceLatest
<1>11. /\ MapThenSumSet(LAMBDA d : observed[d], all) = Cardinality(S)
       /\ MapThenSumSet(LAMBDA d : rowsOf[d], all) = Cardinality(S)
       /\ MapThenSumSet(LAMBDA d : sampled[d], all) = Cardinality(P)
       /\ MapThenSumSet(LAMBDA d : counted[d], all) = Cardinality(F)
       /\ MapThenSumSet(LAMBDA d : states[d], all) = Cardinality(C)
  <2> HIDE DEF observed, rowsOf, sampled, counted, states, all, S, P, F, C
  <2>1. MapThenSumSet(LAMBDA d : observed[d], all) = Cardinality(S)
    <3>1. \A d \in all : observed[d] = Cardinality(OfDevice(S, d))
      BY <1>3
    <3>2. Total(observed, all) = Cardinality(S)
      BY <1>0, <1>1, <1>2, <3>1, ByDevice
    <3>3. QED
      BY <3>2, SumIs, Zenon
  <2>2. MapThenSumSet(LAMBDA d : rowsOf[d], all) = Cardinality(S)
    <3>1. \A d \in all : rowsOf[d] = Cardinality(OfDevice(S, d))
      BY <1>4
    <3>2. Total(rowsOf, all) = Cardinality(S)
      BY <1>0, <1>1, <1>2, <3>1, ByDevice
    <3>3. QED
      BY <3>2, SumIs, Zenon
  <2>3. MapThenSumSet(LAMBDA d : sampled[d], all) = Cardinality(P)
    <3>1. \A d \in all : sampled[d] = Cardinality(OfDevice(P, d))
      BY <1>5
    <3>2. Total(sampled, all) = Cardinality(P)
      BY <1>0, <1>1, <1>2, <3>1, ByDevice
    <3>3. QED
      BY <3>2, SumIs, Zenon
  <2>4. MapThenSumSet(LAMBDA d : counted[d], all) = Cardinality(F)
    <3>1. \A d \in all : counted[d] = Cardinality(OfDevice(F, d))
      BY <1>6
    <3>2. Total(counted, all) = Cardinality(F)
      BY <1>0, <1>1, <1>2, <3>1, ByDevice
    <3>3. QED
      BY <3>2, SumIs, Zenon
  <2>5. MapThenSumSet(LAMBDA d : states[d], all) = Cardinality(C)
    <3>1. \A d \in all : states[d] = Cardinality(OfDevice(C, d))
      BY <1>7
    <3>2. Total(states, all) = Cardinality(C)
      BY <1>0, <1>1, <1>2, <3>1, ByDevice
    <3>3. QED
      BY <3>2, SumIs, Zenon
  <2>6. QED
    BY Zenon, <2>1, <2>2, <2>3, <2>4, <2>5
<1>12. \A d \in all :
         /\ MapThenSumSet(LAMBDA x : x.of.count, DeviceStats(d, names, w))
              = MapThenSumSet(LAMBDA x : x.of.count, DeviceAggregated(d, names, w, 2))
         /\ IF observed[d] > MaxPoints THEN told(d) = TooLarge ELSE Len(told(d).points) = observed[d]
  BY Zenon, <1>6, <1>8
<1>13. QED
  BY Zenon, <1>9, <1>10, <1>11, <1>12 DEF DevicesAddUp

-----------------------------------------------------------------------------
(* The buckets of a register                                                 *)

LEMMA BucketsInOrder ==
  ASSUME NEW D \in Nat \ {0}, NEW a \in Nat, NEW b \in Nat, a <= b
  PROVE  BucketOf(a, D) \in Int /\ BucketOf(a, D) <= BucketOf(b, D)
<1> DEFINE p == a \div D
           q == b \div D
<1>1. /\ p \in Int /\ a - (a % D) = D * p /\ a % D \in Nat
      /\ \A k \in Int : a >= D * k <=> p >= k
  <2>1. a \in Int
    OBVIOUS
  <2>2. QED
    BY Zenon, <2>1, Quotient
<1>2. /\ q \in Int /\ b - (b % D) = D * q
      /\ \A k \in Int : b >= D * k <=> q >= k
  <2>1. b \in Int
    OBVIOUS
  <2>2. QED
    BY Zenon, <2>1, Quotient
<1> HIDE DEF p, q
<1>3. D * p <= a /\ D * p \in Int /\ D * q \in Int
  BY <1>1, <1>2
<1>4. q >= p
  <2>1. b >= D * p
    BY <1>3
  <2>2. QED
    BY Zenon, <1>1, <1>2, <2>1
<1>5. D * p <= D * q
  <2>1. \A i \in Nat : D * i >= 0
    OBVIOUS
  <2>2. q - p \in Nat /\ D * (q - p) = D * q - D * p
    BY <1>1, <1>2, <1>4
  <2>3. D * (q - p) >= 0
    BY <2>1, <2>2
  <2>4. QED
    BY <1>3, <2>2, <2>3
<1>6. BucketOf(a, D) = D * p /\ BucketOf(b, D) = D * q
  BY <1>1, <1>2 DEF BucketOf
<1>7. QED
  BY <1>3, <1>5, <1>6

LEMMA NumbersAreNumeric ==
  ASSUME NEW x, IsRow(x), KindOf(x.value) = "numeric"
  PROVE  x.value \in Int
BY DEF IsRow, KindOf, IsNumber, IsText

\* What one cell of a register says, for the rows of that register and kind.
LEMMA CellSays ==
  ASSUME NEW found, NEW seconds, NEW x \in found
  PROVE  /\ CellRow(found, CellKey(x, seconds), seconds).start = BucketOf(x.at, seconds)
         /\ CellRow(found, CellKey(x, seconds), seconds).reg = x.reg
         /\ CellRow(found, CellKey(x, seconds), seconds).kind = KindOf(x.value)
         /\ CellRow(found, CellKey(x, seconds), seconds).of
              = Summary(KindOf(x.value), SameBucket(found, x, seconds), OfKind(found, StatKey(x)))
         /\ x \in SameBucket(found, x, seconds)
         /\ SameBucket(found, x, seconds) \subseteq OfKind(found, StatKey(x))
<1> DEFINE c == CellKey(x, seconds)
           cell == CellRow(found, c, seconds)
           all == OfKind(found, StatKey(x))
           bucket == SameBucket(found, x, seconds)
<1>1. cell.start = c.start /\ cell.reg = c.reg /\ cell.kind = c.kind
      /\ cell.of = Summary(c.kind, InCell(found, c, seconds), OfKind(found, c))
  BY CellFields
<1>2. c.start = BucketOf(x.at, seconds) /\ c.reg = x.reg /\ c.kind = KindOf(x.value)
  BY KeyFields
<1>3. InCell(found, c, seconds) = bucket /\ OfKind(found, c) = all
  BY CellIs
<1>4. InCell(found, c, seconds) \subseteq OfKind(found, c)
  BY Zenon DEF InCell
<1>5. x \in bucket
  BY DEF SameBucket
<1> HIDE DEF c, cell, all, bucket
<1>6. bucket \subseteq all
  BY <1>3, <1>4
<1>7. cell.of = Summary(KindOf(x.value), bucket, all)
  BY <1>1, <1>2, <1>3
<1>8. QED
  BY <1>1, <1>2, <1>5, <1>6, <1>7 DEF c, cell, all, bucket

TransitionsOf(cells) == [x \in cells |-> x.of.transitions]
LEMMA TransitionSum ==
  ASSUME NEW cells
  PROVE  MapThenSumSet(LAMBDA x : x.of.transitions, cells) = Total(TransitionsOf(cells), cells)
BY ZenonT(40) DEF TransitionsOf, Total, Sums, SumStep, One, MapThenSumSet, MapThenFoldSet

LEMMA ChangedIs ==
  ASSUME NEW x, NEW bucket, NEW all
  PROVE  Changed(x, bucket, all) = Changed(x, all, all)
BY DEF Changed

LEMMA BucketsPartition ==
  ASSUME StoreInv, NEW ids, NEW w, NEW seconds \in Nat \ {0}
  PROVE  BucketsAddUp(ids, w, seconds)
<1> DEFINE names == ToSet(Registers)
           found == FoundRows(ids, names, w)
           Agg == AggregatedRows(ids, names, w, seconds)
           key(y) == CellKey(y, seconds)
           cellOf(y) == CellRow(found, key(y), seconds)
           cellsOf(stat) == {x \in Agg : x.reg = stat.reg /\ x.kind = stat.kind}
           goal(stat, cells) ==
             /\ MapThenSumSet(LAMBDA x : x.of.count, cells) = stat.of.count
             /\ \E x \in cells : x.of.first = stat.of.first /\ \A y \in cells : x.start <= y.start
             /\ \E x \in cells : x.of.last = stat.of.last /\ \A y \in cells : x.start >= y.start
             /\ IF stat.kind = "numeric"
                THEN \E x \in cells : x.of.low = stat.of.low /\ \A y \in cells : x.of.low.value <= y.of.low.value
                ELSE MapThenSumSet(LAMBDA x : x.of.transitions, cells) = stat.of.transitions
<1>1. BucketsAddUp(ids, w, seconds)
        <=> \A stat \in RegisterStats(ids, names, w) : goal(stat, cellsOf(stat))
  BY Zenon DEF BucketsAddUp
<1>2. ASSUME NEW stat \in RegisterStats(ids, names, w) PROVE goal(stat, cellsOf(stat))
  <2>1. PICK x \in found : stat = StatRow(found, StatKey(x))
    <3>1. stat \in {StatRow(found, StatKey(x)) : x \in found}
      BY StatsAre
    <3> HIDE DEF found
    <3>2. QED
      BY <3>1
  <2> DEFINE all == OfKind(found, StatKey(x))
             kind == KindOf(x.value)
             cells == cellsOf(stat)
             k == [y \in all |-> cellOf(y)]
             bucket(y) == SameBucket(found, y, seconds)
  <2>2. stat.reg = x.reg /\ stat.kind = kind /\ stat.of = Summary(kind, all, all)
    <3> HIDE DEF found
    <3>1. QED
      BY <2>1, StatFields, KeyFields
  <2>3. /\ IsFiniteSet(found)
        /\ \A y \in found : y \in RowsOf(ids, names, w) /\ IsRow(y)
    BY FoundFinite
  <2>4. all = {y \in found : y.reg = x.reg /\ KindOf(y.value) = kind}
    BY KeyFields, Zenon DEF OfKind
  <2> HIDE DEF found, all
  <2>5. x \in all /\ all \subseteq found /\ \A y \in all : y.reg = x.reg /\ KindOf(y.value) = kind
    BY <2>4
  <2>6. IsFiniteSet(all) /\ Course(all) /\ clock \in Nat /\ \A y \in all : IsRow(y) /\ y.at \in Nat
    <3>1. IsFiniteSet(all) /\ \A y \in all : IsRow(y)
      BY <2>3, <2>5, FS_Subset
    <3>2. \A y, z \in all : y.reg = z.reg
      BY <2>5
    <3>3. Course(all)
      BY <3>1, <3>2, RowsAreCourse
    <3>4. clock \in Nat
      BY DEF StoreInv, PastInv
    <3>5. QED
      BY <3>1, <3>3, <3>4 DEF IsRow
  <2>7. ASSUME NEW y \in all
        PROVE  /\ k[y] = cellOf(y) /\ StatKey(y) = StatKey(x)
               /\ k[y].start = BucketOf(y.at, seconds) /\ k[y].reg = x.reg /\ k[y].kind = kind
               /\ y \in bucket(y) /\ bucket(y) \subseteq all
               /\ k[y].of = Summary(kind, bucket(y), all)
    <3>1. StatKey(y) = StatKey(x)
      BY <2>5 DEF StatKey
    <3>2. k[y] = cellOf(y)
      BY Zenon
    <3>3. y \in found /\ y.reg = x.reg /\ KindOf(y.value) = kind
      BY <2>5
    <3>4. OfKind(found, StatKey(y)) = all
      BY <3>1 DEF all
    <3>5. /\ cellOf(y).start = BucketOf(y.at, seconds) /\ cellOf(y).reg = y.reg
          /\ cellOf(y).kind = KindOf(y.value)
          /\ y \in bucket(y) /\ bucket(y) \subseteq OfKind(found, StatKey(y))
          /\ cellOf(y).of = Summary(KindOf(y.value), bucket(y), OfKind(found, StatKey(y)))
      BY <3>3, CellSays
    <3> HIDE DEF cellOf, k, bucket
    <3>6. QED
      BY <3>1, <3>2, <3>3, <3>4, <3>5
  <2>8. cells = {k[y] : y \in all}
    <3>1. Agg = {cellOf(y) : y \in found}
      BY CellsAre DEF found
    <3>2. ASSUME NEW y \in found, cellOf(y).reg = x.reg, cellOf(y).kind = kind PROVE y \in all
      <4>1. cellOf(y).reg = y.reg /\ cellOf(y).kind = KindOf(y.value)
        BY CellSays
      <4>2. y.reg = x.reg /\ KindOf(y.value) = kind
        BY <3>2, <4>1
      <4>3. QED
        BY <2>4, <4>2
    <3>3. \A z \in cells : z \in Agg /\ z.reg = x.reg /\ z.kind = kind
      BY <2>2
    <3>4. ASSUME NEW z \in cells PROVE z \in {k[y] : y \in all}
      <4>1. PICK y \in found : z = cellOf(y)
        <5> HIDE DEF cellOf, Agg
        <5>1. QED
          BY <3>1, <3>3
      <4>2. y \in all
        <5> HIDE DEF cellOf
        <5>1. QED
          BY <3>2, <3>3, <4>1
      <4>3. z = k[y]
        BY <2>7, <4>1, <4>2
      <4> HIDE DEF k
      <4>4. QED
        BY <4>2, <4>3
    <3>5. ASSUME NEW y \in all PROVE k[y] \in cells
      <4>1. k[y] = cellOf(y) /\ k[y].reg = x.reg /\ k[y].kind = kind
        BY <2>7
      <4>2. k[y] \in Agg
        <5> HIDE DEF cellOf, Agg, k
        <5>1. QED
          BY <2>5, <3>1, <4>1
      <4> HIDE DEF k, Agg
      <4>3. QED
        BY <2>2, <4>1, <4>2
    <3> HIDE DEF cells, k
    <3>6. QED
      BY <3>4, <3>5
  <2> HIDE DEF cells
  <2>9. ASSUME NEW y \in all, NEW z \in all PROVE k[y] = k[z] <=> key(y) = key(z)
    <3>1. y \in found /\ z \in found /\ k[y] = cellOf(y) /\ k[z] = cellOf(z)
      BY <2>5, <2>7
    <3>2. cellOf(y) = cellOf(z) <=> key(y) = key(z)
      BY <3>1, CellIs
    <3> HIDE DEF k, cellOf, key
    <3>3. QED
      BY <3>1, <3>2
  <2>10. ASSUME NEW y \in all PROVE bucket(y) = Keyed(all, k, k[y])
    <3>1. bucket(y) \subseteq all /\ all \subseteq found
      BY <2>5, <2>7
    <3>2. bucket(y) = {z \in found : key(z) = key(y)}
      BY DEF SameBucket
    <3> HIDE DEF k, key, bucket
    <3>3. QED
      BY <2>9, <3>1, <3>2, Zenon DEF Keyed
  <2> HIDE DEF k
  \* the counts
  <2>11. MapThenSumSet(LAMBDA z : z.of.count, cells) = stat.of.count
    <3> DEFINE f == CountsOf(cells)
    <3>1. ASSUME NEW y \in all PROVE f[k[y]] = Cardinality(Keyed(all, k, k[y]))
      <4>1. k[y] \in cells
        BY <2>8
      <4>2. f[k[y]] = k[y].of.count
        BY <4>1 DEF CountsOf
      <4>3. k[y].of.count = Cardinality(bucket(y))
        <5> HIDE DEF bucket, kind
        <5>1. QED
          BY <2>7, SummaryFields
      <4> HIDE DEF f, bucket
      <4>4. QED
        BY <2>10, <4>2, <4>3
    <3>2. Total(f, cells) = Cardinality(all)
      <4>1. (\A y \in all : k[y] \in cells) /\ \A z \in cells : \E y \in all : k[y] = z
        BY <2>8
      <4>2. \A y \in all : f[k[y]] = Cardinality(Keyed(all, k, k[y]))
        BY <3>1
      <4> HIDE DEF f
      <4>3. QED
        BY <2>6, <4>1, <4>2, CountOfPart
    <3>3. stat.of.count = Cardinality(all)
      <4> HIDE DEF kind
      <4>1. QED
        BY <2>2, SummaryFields
    <3>4. QED
      BY <3>2, <3>3, CountsAre
  \* the oldest and the newest
  <2>12. \E z \in cells : z.of.first = stat.of.first /\ \A y \in cells : z.start <= y.start
    <3> DEFINE m == Oldest(all)
    <3>1. m \in all /\ \A y \in all : m.at <= y.at
      BY <2>5, <2>6, OldestOfCourse
    <3>2. stat.of.first = m
      <4> HIDE DEF kind
      <4>1. QED
        BY <2>2, SummaryFields
    <3> HIDE DEF m
    <3>3. k[m].of.first = Oldest(bucket(m))
      <4> HIDE DEF kind, bucket
      <4>1. QED
        BY <2>7, <3>1, SummaryFields
    <3>4. Oldest(bucket(m)) = m
      <4> DEFINE B == bucket(m)
      <4>1. m \in B /\ B \subseteq all
        BY <2>7, <3>1
      <4> HIDE DEF B
      <4>2. Course(B)
        BY <2>6, <4>1 DEF Course
      <4>3. QED
        BY <3>1, <4>1, <4>2, OldestIs DEF B
    <3>5. ASSUME NEW y \in all PROVE k[m].start <= k[y].start
      <4>1. m.at \in Nat /\ y.at \in Nat /\ m.at <= y.at
        BY <2>6, <3>1
      <4>2. BucketOf(m.at, seconds) <= BucketOf(y.at, seconds)
        BY <4>1, BucketsInOrder
      <4>3. QED
        BY <2>7, <3>1, <4>2
    <3>6. QED
      BY <2>8, <3>1, <3>2, <3>3, <3>4, <3>5
  <2>13. \E z \in cells : z.of.last = stat.of.last /\ \A y \in cells : z.start >= y.start
    <3> DEFINE m == Newest(all)
    <3>1. m \in all /\ \A y \in all : y.at <= m.at
      BY <2>5, <2>6, NewestOfCourse
    <3>2. stat.of.last = m
      <4> HIDE DEF kind
      <4>1. QED
        BY <2>2, SummaryFields
    <3> HIDE DEF m
    <3>3. k[m].of.last = Newest(bucket(m))
      <4> HIDE DEF kind, bucket
      <4>1. QED
        BY <2>7, <3>1, SummaryFields
    <3>4. Newest(bucket(m)) = m
      <4> DEFINE B == bucket(m)
      <4>1. m \in B /\ B \subseteq all
        BY <2>7, <3>1
      <4> HIDE DEF B
      <4>2. Course(B)
        BY <2>6, <4>1 DEF Course
      <4>3. QED
        BY <2>6, <3>1, <4>1, <4>2, NewestIs DEF B
    <3>5. ASSUME NEW y \in all PROVE k[m].start >= k[y].start
      <4>1. m.at \in Nat /\ y.at \in Nat /\ y.at <= m.at
        BY <2>6, <3>1
      <4>2. /\ BucketOf(y.at, seconds) <= BucketOf(m.at, seconds)
            /\ BucketOf(y.at, seconds) \in Int /\ BucketOf(m.at, seconds) \in Int
        BY <4>1, BucketsInOrder
      <4>3. QED
        BY <2>7, <3>1, <4>2
    <3>6. QED
      BY <2>8, <3>1, <3>2, <3>3, <3>4, <3>5
  \* the lowest
  <2>14. ASSUME kind = "numeric"
         PROVE  \E z \in cells : /\ z.of.low = stat.of.low
                                 /\ \A y \in cells : z.of.low.value <= y.of.low.value
    <3> DEFINE m == Lowest(all)
    <3>1. \A y \in all : y.value \in Int /\ y.at \in Nat
      BY <2>5, <2>6, <2>14, NumbersAreNumeric
    <3>2. m \in all /\ \A y \in all : m.value < y.value \/ (m.value = y.value /\ m.at <= y.at)
      <4>1. Numeric(all)
        BY <2>6, <3>1 DEF Numeric
      <4>2. QED
        BY <2>5, <4>1, LowestIs
    <3>3. stat.of.low = m
      <4> HIDE DEF kind
      <4>1. QED
        BY <2>2, <2>14, SummaryFields
    <3> HIDE DEF m
    <3>4. ASSUME NEW y \in all
          PROVE  /\ k[y].of.low \in all
                 /\ \A z \in bucket(y) : \/ k[y].of.low.value < z.value
                                         \/ k[y].of.low.value = z.value /\ k[y].of.low.at <= z.at
      <4> DEFINE B == bucket(y)
      <4>1. y \in B /\ B \subseteq all
        BY <2>7
      <4>2. k[y].of.low = Lowest(B)
        <5> HIDE DEF kind, B
        <5>1. QED
          BY <2>7, <2>14, SummaryFields DEF B
      <4> HIDE DEF B
      <4>3. Numeric(B)
        BY <2>6, <3>1, <4>1, FS_Subset DEF Numeric
      <4>4. Lowest(B) \in B
            /\ \A z \in B : Lowest(B).value < z.value \/ (Lowest(B).value = z.value /\ Lowest(B).at <= z.at)
        BY <4>1, <4>3, LowestIs
      <4>5. QED
        BY <4>1, <4>2, <4>4 DEF B
    <3>5. k[m].of.low = m
      <4> DEFINE l == k[m].of.low
      <4>1. l \in all /\ m \in bucket(m)
        BY <2>7, <3>2, <3>4
      <4>2. l.value < m.value \/ (l.value = m.value /\ l.at <= m.at)
        <5> HIDE DEF bucket
        <5>1. QED
          BY <3>2, <3>4, <4>1
      <4>3. m.value < l.value \/ (m.value = l.value /\ m.at <= l.at)
        BY <3>2, <4>1
      <4> HIDE DEF l
      <4>4. l.at = m.at
        BY <3>1, <3>2, <4>1, <4>2, <4>3
      <4>5. l = m
        BY <2>6, <3>2, <4>1, <4>4 DEF Course
      <4>6. QED
        BY <4>5 DEF l
    <3>6. ASSUME NEW y \in all PROVE k[m].of.low.value <= k[y].of.low.value
      <4>1. k[y].of.low \in all
        BY <3>4
      <4>2. m.value <= k[y].of.low.value
        BY <3>1, <3>2, <4>1
      <4>3. QED
        BY <3>5, <4>2
    <3>7. QED
      BY <2>8, <3>2, <3>3, <3>5, <3>6
  \* the transitions
  <2>15. ASSUME kind # "numeric"
         PROVE  MapThenSumSet(LAMBDA z : z.of.transitions, cells) = stat.of.transitions
    <3> DEFINE f == TransitionsOf(cells)
               Q == {y \in all : Changed(y, all, all)}
    <3>1. ASSUME NEW y \in all PROVE f[k[y]] = Cardinality(Keyed(Q, k, k[y]))
      <4>1. k[y] \in cells
        BY <2>8
      <4>2. f[k[y]] = k[y].of.transitions
        BY <4>1 DEF TransitionsOf
      <4> DEFINE B == bucket(y)
      <4>3. k[y].of.transitions = TransitionsIn(B, all)
        <5> HIDE DEF B, kind
        <5>1. QED
          BY <2>7, <2>15, SummaryFields DEF B
      <4>4. {z \in B : Changed(z, B, all)} = Keyed(Q, k, k[y])
        <5>1. B = Keyed(all, k, k[y])
          BY <2>10
        <5> HIDE DEF B
        <5>2. {z \in B : Changed(z, B, all)} = {z \in B : Changed(z, all, all)}
          BY ChangedIs, Zenon
        <5>3. {z \in B : Changed(z, all, all)} = Keyed(Q, k, k[y])
          BY <5>1, Zenon DEF Keyed
        <5>4. QED
          BY <5>2, <5>3
      <4> HIDE DEF f, B, Q
      <4>5. QED
        BY <4>2, <4>3, <4>4 DEF TransitionsIn
    <3>2. Total(f, cells) = Cardinality(Q)
      <4>1. (\A y \in all : k[y] \in cells) /\ \A z \in cells : \E y \in all : k[y] = z
        BY <2>8
      <4>2. \A y \in all : f[k[y]] = Cardinality(Keyed(Q, k, k[y]))
        BY <3>1
      <4>3. Q \subseteq all
        OBVIOUS
      <4>4. IsFiniteSet(all)
        BY <2>6
      <4> HIDE DEF f, Q
      <4>5. QED
        BY <4>1, <4>2, <4>3, <4>4, CountOfPart
    <3>3. stat.of.transitions = Cardinality(Q)
      <4> HIDE DEF kind
      <4>1. stat.of.transitions = TransitionsIn(all, all)
        BY <2>2, <2>15, SummaryFields
      <4>2. QED
        BY <4>1, Zenon DEF TransitionsIn
    <3>4. QED
      BY <3>2, <3>3, TransitionSum
  <2>16. goal(stat, cells)
    <3>1. stat.kind = kind
      BY <2>2
    <3> HIDE DEF kind
    <3>2. QED
      BY Zenon, <2>11, <2>12, <2>13, <2>14, <2>15, <3>1
  <2>17. QED
    BY <2>16 DEF cells
<1> HIDE DEF goal, cellsOf
<1>3. QED
  BY <1>1, <1>2

-----------------------------------------------------------------------------
(* The series of a register                                                  *)

PointsStep(points, reg, it, n) ==
  IF n = 0 THEN <<>>
  ELSE IF points[n].reg = reg THEN Append(it[n - 1], points[n]) ELSE it[n - 1]
PointsUpTo(points, reg, it) == it = [n \in 0 .. Len(points) |-> PointsStep(points, reg, it, n)]

LEMMA PointsOfIs ==
  ASSUME NEW points, Len(points) \in Nat, NEW reg, NEW it, PointsUpTo(points, reg, it)
  PROVE  PointsOf(points, reg) = it[Len(points)]
<1> DEFINE N == Len(points)
           a == CHOOSE f : PointsUpTo(points, reg, f)
           bad == {n \in 0 .. N : a[n] # it[n]}
<1>1. PointsOf(points, reg) = a[N]
  BY Zenon DEF PointsOf, PointsUpTo, PointsStep
<1>2. PointsUpTo(points, reg, a)
  BY Zenon
<1> HIDE DEF a
<1>3. ASSUME NEW n \in 0 .. N
      PROVE  a[n] = PointsStep(points, reg, a, n) /\ it[n] = PointsStep(points, reg, it, n)
  BY <1>2 DEF PointsUpTo
<1>4. bad = {}
  <2> SUFFICES ASSUME bad # {} PROVE FALSE
    OBVIOUS
  <2>1. bad \in SUBSET Nat
    OBVIOUS
  <2>2. PICK n \in bad : \A m \in bad : n <= m
    <3> HIDE DEF bad
    <3>1. QED
      BY <2>1, LeastNat
  <2>3. n \in 0 .. N /\ a[n] # it[n]
    OBVIOUS
  <2>4. n # 0
    BY <1>3, <2>3 DEF PointsStep
  <2>5. n - 1 \in 0 .. N /\ ~(n <= n - 1)
    BY <2>3, <2>4
  <2>6. n - 1 \notin bad
    <3> HIDE DEF bad
    <3>1. QED
      BY <2>2, <2>5
  <2>7. a[n - 1] = it[n - 1]
    BY <2>5, <2>6
  <2>8. a[n] = it[n]
    BY <1>3, <2>3, <2>4, <2>7 DEF PointsStep
  <2>9. QED
    BY <2>3, <2>8
<1>5. QED
  BY <1>1, <1>4

\* All rows have an order: by time, then by register.
LEMMA RowsAreOrdered ==
  ASSUME StoreInv, NEW S, \A x \in S : IsRow(x)
  PROVE  /\ IsOrder(S, EarlierIn(S))
         /\ \A x, y \in S : <<x, y>> \in EarlierIn(S) <=> Earlier(x, y)
<1>1. \A x \in S : x.at \in Nat /\ x.reg \in ToSet(Registers) /\ RankOf[x.reg] \in Nat
  BY RankIsNat DEF IsRow
<1>2. \A r, q \in ToSet(Registers) : RankOf[r] = RankOf[q] => r = q
  <2>1. ASSUME NEW r \in ToSet(Registers) PROVE Registers[RankOf[r]] = r
    <3>1. \E i \in DOMAIN Registers : Registers[i] = r
      BY DEF ToSet
    <3>2. RankOf[r] = CHOOSE i \in DOMAIN Registers : Registers[i] = r
      BY DEF RankOf
    <3>3. QED
      BY <3>1, <3>2
  <2>2. QED
    BY <2>1
<1>3. \A x, y \in S : <<x, y>> \in EarlierIn(S) <=> Earlier(x, y)
  BY DEF EarlierIn
<1>4. ASSUME NEW x \in S PROVE ~Earlier(x, x)
  BY <1>1 DEF Earlier
<1>5. ASSUME NEW x \in S, NEW y \in S, ~Earlier(x, y), ~Earlier(y, x) PROVE x = y
  <2>1. x.at = y.at /\ RankOf[x.reg] = RankOf[y.reg]
    BY <1>1, <1>5 DEF Earlier
  <2>2. x.reg = y.reg
    BY <1>1, <1>2, <2>1
  <2>3. QED
    BY <2>1, <2>2, RowIdentity
<1>6. ASSUME NEW x \in S, NEW y \in S, NEW z \in S, Earlier(x, y), Earlier(y, z) PROVE Earlier(x, z)
  BY <1>1, <1>6 DEF Earlier
<1>7. QED
  BY <1>3, <1>4, <1>5, <1>6 DEF IsOrder

\* What a series holds is the history of its register.
HistoryOf(S) == [i \in 1 .. Cardinality(S) |-> Normalized(ByPlace(S, EarlierIn(S))[i])]

LEMMA PointsOfRows ==
  ASSUME StoreInv, NEW ids, NEW names, NEW w, NEW reg \in names
  PROVE  /\ PointsOf(HistoryOf(RowsOf(ids, names, w)), reg) = HistoryOf(RowsOf(ids, {reg}, w))
         /\ RowsOf(ids, {reg}, w) # {}
              => \E i \in 1 .. Cardinality(RowsOf(ids, names, w)) : HistoryOf(RowsOf(ids, names, w))[i].reg = reg
         /\ DOMAIN HistoryOf(RowsOf(ids, names, w)) = 1 .. Cardinality(RowsOf(ids, names, w))
<1> DEFINE S == RowsOf(ids, names, w)
           T == RowsOf(ids, {reg}, w)
           N == Cardinality(S)
           E == EarlierIn(S)
           F == EarlierIn(T)
           seq == ByPlace(S, E)
           own == ByPlace(T, F)
           p == PlaceIn(S, E)
           q == PlaceIn(T, F)
           points == [i \in 1 .. N |-> Normalized(seq[i])]
           upTo(n) == {x \in T : p[x] <= n}
           part(n) == [j \in 1 .. Cardinality(upTo(n)) |-> Normalized(own[j])]
           it == [n \in 0 .. N |-> part(n)]
<1>1. IsFiniteSet(S) /\ IsFiniteSet(T) /\ N \in Nat /\ Cardinality(T) \in Nat
  BY RowsFinite, FS_CardinalityType
<1>2. (\A x \in S : IsRow(x)) /\ (\A x \in T : IsRow(x) /\ x.reg = reg)
  BY RowsAreRows
<1>3. T = {x \in S : x.reg = reg}
  <2>1. ASSUME NEW x \in T PROVE x \in S /\ x.reg = reg
    <3>1. IsRow(x) /\ x.dev \in ids /\ x.reg \in {reg} /\ InWindow(x.at, w)
      BY RowsAreRows
    <3>2. x.reg \in names
      BY <3>1
    <3>3. QED
      BY <3>1, <3>2, RowFound
  <2>2. ASSUME NEW x \in S, x.reg = reg PROVE x \in T
    <3>1. IsRow(x) /\ x.dev \in ids /\ InWindow(x.at, w)
      BY RowsAreRows
    <3>2. x.reg \in {reg}
      BY <2>2
    <3>3. QED
      BY <3>1, <3>2, RowFound
  <2> HIDE DEF S, T
  <2>3. QED
    BY <2>1, <2>2
<1> HIDE DEF S, T
<1>4. IsOrder(S, E) /\ \A x, y \in S : <<x, y>> \in E <=> Earlier(x, y)
  BY <1>2, RowsAreOrdered
<1>5. IsOrder(T, F) /\ \A x, y \in T : <<x, y>> \in F <=> Earlier(x, y)
  BY <1>2, RowsAreOrdered
<1> HIDE DEF E, F
<1>6. /\ Len(seq) = N
      /\ \A i \in 1 .. N : seq[i] \in S /\ p[seq[i]] = i
      /\ \A x \in S : p[x] \in 1 .. N /\ seq[p[x]] = x
  BY <1>1, <1>4, ByPlaceIs
<1>7. \A x, y \in S : Earlier(x, y) <=> p[x] < p[y]
  BY <1>1, <1>4, PlacesAre
<1>8. \A x \in T : own[q[x]] = x
  BY <1>1, <1>5, ByPlaceIs
<1>9. \A x \in T : q[x] = 1 + Cardinality({y \in T : Earlier(y, x)})
  <2> SUFFICES ASSUME NEW x \in T PROVE q[x] = 1 + Cardinality({y \in T : Earlier(y, x)})
    OBVIOUS
  <2>1. Preceding(T, F, x) = {y \in T : Earlier(y, x)}
    BY <1>5 DEF Preceding
  <2>2. q[x] = 1 + Cardinality(Preceding(T, F, x))
    BY DEF PlaceIn
  <2>3. QED
    BY <2>1, <2>2
<1> HIDE DEF N, seq, own, p, q
<1>10. ASSUME NEW n \in 0 .. N
       PROVE  IsFiniteSet(upTo(n)) /\ Cardinality(upTo(n)) \in Nat
  BY <1>1, FS_Subset, FS_CardinalityType
<1>11. DOMAIN points = 1 .. N /\ Len(points) = N
  <2>1. points = [i \in 1 .. N |-> points[i]]
    OBVIOUS
  <2> HIDE DEF points
  <2>2. QED
    BY <1>1, <2>1, FunctionIsSequence DEF N
<1>12. \A i \in 1 .. N : points[i] = Normalized(seq[i]) /\ points[i].reg = seq[i].reg
  BY DEF Normalized
<1> HIDE DEF points
<1>13. it[0] = <<>>
  <2>1. upTo(0) = {}
    <3>1. \A x \in T : p[x] \in 1 .. N
      BY <1>3, <1>6
    <3>2. \A x \in T : ~(p[x] <= 0)
      BY <1>1, <3>1 DEF N
    <3>3. QED
      BY <3>2
  <2>2. Cardinality(upTo(0)) = 0
    BY <2>1, FS_EmptySet
  <2>3. part(0) = <<>>
    <3> HIDE DEF upTo
    <3>1. QED
      BY <2>2
  <2>4. 0 \in 0 .. N
    BY <1>1 DEF N
  <2>5. QED
    BY <2>3, <2>4
<1>14. ASSUME NEW n \in 1 .. N
       PROVE  it[n] = IF points[n].reg = reg THEN Append(it[n - 1], points[n]) ELSE it[n - 1]
  <2>0. n \in Nat /\ n - 1 \in 0 .. N /\ n \in 0 .. N /\ N \in Nat
    BY <1>1 DEF N
  <2> DEFINE x == seq[n]
             m == Cardinality(upTo(n - 1))
  <2>1. x \in S /\ p[x] = n /\ points[n] = Normalized(x) /\ points[n].reg = x.reg
    BY <1>6, <1>12
  <2>2. it[n] = part(n) /\ it[n - 1] = part(n - 1)
    BY <2>0
  <2>3. \A y \in T : p[y] \in Nat /\ (p[y] = n => y = x)
    BY <1>3, <1>6, <2>0
  <2>4. IsFiniteSet(upTo(n - 1)) /\ m \in Nat
    BY <1>10, <2>0
  <2> HIDE DEF x, it
  <2>5. CASE x.reg = reg
    <3>1. x \in T
      BY <1>3, <2>1, <2>5
    <3>2. upTo(n) = upTo(n - 1) \cup {x} /\ x \notin upTo(n - 1)
      BY <2>0, <2>1, <2>3, <3>1
    <3>3. Cardinality(upTo(n)) = m + 1
      <4> HIDE DEF upTo
      <4>1. QED
        BY <2>4, <3>2, FS_AddElement
    <3>4. upTo(n - 1) = {y \in T : Earlier(y, x)}
      <4>1. ASSUME NEW y \in T PROVE Earlier(y, x) <=> p[y] <= n - 1
        <5>1. Earlier(y, x) <=> p[y] < p[x]
          BY <1>3, <1>7, <2>1
        <5>2. QED
          BY <2>0, <2>1, <2>3, <5>1
      <4>2. QED
        BY <4>1
    <3>5. own[m + 1] = x
      <4>1. q[x] = 1 + m
        <5> HIDE DEF upTo
        <5>1. QED
          BY <1>9, <3>1, <3>4
      <4>2. 1 + m = m + 1
        BY <2>4
      <4>3. QED
        BY <1>8, <3>1, <4>1, <4>2
    <3> HIDE DEF m, upTo
    <3>6. part(n) = [j \in 1 .. m + 1 |-> Normalized(own[j])]
      BY <3>3
    <3>7. part(n - 1) = [j \in 1 .. m |-> Normalized(own[j])]
      BY DEF m
    <3> DEFINE V == {Normalized(own[j]) : j \in 1 .. m + 1}
               short == part(n - 1)
    <3>8. short \in Seq(V) /\ Len(short) = m /\ \A j \in 1 .. m : short[j] = Normalized(own[j])
      <4>1. \A j \in 1 .. m : Normalized(own[j]) \in V
        BY <2>4
      <4>2. short \in [1 .. m -> V]
        <5> HIDE DEF V
        <5>1. QED
          BY <3>7, <4>1
      <4>3. \A j \in 1 .. m : short[j] = Normalized(own[j])
        BY <3>7
      <4> HIDE DEF V, short
      <4>4. QED
        BY <2>4, <4>2, <4>3
    <3>9. Normalized(x) \in V /\ Normalized(x) = Normalized(own[m + 1])
      BY <2>4, <3>5
    <3>10. part(n) = Append(short, Normalized(x))
      <4> DEFINE e == Normalized(x)
                 long == Append(short, e)
      <4>1. long \in Seq(V) /\ Len(long) = m + 1 /\ long[m + 1] = e
            /\ \A j \in 1 .. m : long[j] = short[j]
        <5> HIDE DEF V, short, e
        <5>1. QED
          BY <2>4, <3>8, <3>9 DEF e
      <4>2. \A j \in 1 .. m + 1 : long[j] = Normalized(own[j])
        <5> HIDE DEF V, short, long
        <5>1. \A j \in 1 .. m + 1 : j = m + 1 \/ j \in 1 .. m
          BY <2>4
        <5>2. QED
          BY <3>8, <3>9, <4>1, <5>1
      <4>3. long = [j \in 1 .. m + 1 |-> long[j]]
        <5> HIDE DEF V, short, long
        <5>1. QED
          BY <2>4, <4>1
      <4>4. QED
        <5> HIDE DEF V, short, long
        <5>1. [j \in 1 .. m + 1 |-> long[j]] = [j \in 1 .. m + 1 |-> Normalized(own[j])]
          BY <4>2
        <5>2. part(n) = long
          BY <3>6, <4>3, <5>1
        <5>3. QED
          BY <5>2 DEF long
    <3>11. QED
      BY <2>1, <2>2, <2>5, <3>10
  <2>6. CASE x.reg # reg
    <3>1. x \notin T
      BY <1>3, <2>6
    <3>2. upTo(n) = upTo(n - 1)
      BY <2>0, <2>3, <3>1
    <3> HIDE DEF upTo
    <3>3. QED
      BY <2>1, <2>2, <2>6, <3>2
  <2>7. QED
    BY <2>5, <2>6
<1>15. PointsUpTo(points, reg, it)
  <2>1. ASSUME NEW n \in 0 .. N PROVE it[n] = PointsStep(points, reg, it, n)
    <3> HIDE DEF it
    <3>1. CASE n = 0
      BY <1>13, <3>1 DEF PointsStep
    <3>2. CASE n # 0
      <4>1. n \in 1 .. N
        BY <1>1, <3>2 DEF N
      <4>2. QED
        BY <1>14, <3>2, <4>1 DEF PointsStep
    <3>3. QED
      BY <3>1, <3>2
  <2>2. it = [n \in 0 .. N |-> it[n]]
    OBVIOUS
  <2> HIDE DEF it
  <2>3. it = [n \in 0 .. N |-> PointsStep(points, reg, it, n)]
    BY <2>1, <2>2
  <2>4. QED
    BY <1>11, <2>3 DEF PointsUpTo
<1>16. PointsOf(points, reg) = it[N]
  <2> HIDE DEF it
  <2>1. Len(points) \in Nat
    BY <1>1, <1>11 DEF N
  <2>2. QED
    BY <1>11, <1>15, <2>1, PointsOfIs
<1>17. it[N] = [j \in 1 .. Cardinality(T) |-> Normalized(own[j])]
  <2>1. upTo(N) = T
    <3>1. \A x \in T : p[x] <= N
      BY <1>1, <1>3, <1>6 DEF N
    <3>2. QED
      BY <3>1
  <2>2. N \in 0 .. N
    BY <1>1 DEF N
  <2>3. it[N] = part(N)
    BY <2>2
  <2> HIDE DEF upTo, it
  <2>4. QED
    BY <2>1, <2>3
<1>18. ASSUME T # {} PROVE \E i \in 1 .. N : points[i].reg = reg
  <2>1. PICK x \in T : TRUE
    BY <1>18
  <2>2. x \in S /\ x.reg = reg /\ p[x] \in 1 .. N /\ seq[p[x]] = x
    BY <1>3, <1>6, <2>1
  <2>3. QED
    BY <1>12, <2>2
<1>19. QED
  <2>1. points = HistoryOf(S)
    BY Zenon DEF HistoryOf, points, seq, E, N
  <2>2. [j \in 1 .. Cardinality(T) |-> Normalized(own[j])] = HistoryOf(T)
    BY Zenon DEF HistoryOf, own, F
  <2>3. QED
    BY <1>11, <1>16, <1>17, <1>18, <2>1, <2>2 DEF S, T, N

LEMMA SeriesHold ==
  ASSUME StoreInv, FewSamples, NEW ids, NEW w
  PROVE  SeriesAddUp(ids, w)
<1> DEFINE names == ToSet(Registers)
           S == RowsOf(ids, names, w)
           points == Exported(ids, names, w, "asc", None)
           rows == HistoryOf(S)
           series == Series(points)
           own(reg) == RegisterHistory(ids, reg, w, "asc", MaxRegisterRows)
           regs == {points[i].reg : i \in DOMAIN points}
<1>1. points = rows
  <2> DEFINE N == Cardinality(S)
             ordered == Sorted(S, Earlier, "asc")
  <2>1. IsFiniteSet(S) /\ N \in Nat
    BY RowsFinite, FS_CardinalityType
  <2>2. points = RawRows(ids, names, w, "asc", N)
    BY DEF Exported
  <2>3. (IF N < N THEN N ELSE N) = N
    OBVIOUS
  <2>4. RawRows(ids, names, w, "asc", N) = [i \in 1 .. N |-> Normalized(ordered[i])]
    <3> HIDE DEF names
    <3>1. QED
      BY <2>1, <2>3, RawRowsAre
  <2>5. ordered = ByPlace(S, EarlierIn(S))
    BY RowsInOrder
  <2> HIDE DEF points, S, N, ordered
  <2>6. points = [i \in 1 .. N |-> Normalized(ByPlace(S, EarlierIn(S))[i])]
    BY <2>2, <2>4, <2>5
  <2>7. QED
    BY <2>6 DEF N, HistoryOf
<1>2. /\ DOMAIN series = regs
      /\ \A reg \in regs : series[reg].points = PointsOf(points, reg)
  <2> HIDE DEF points
  <2>1. QED
    BY Zenon DEF Series
<1>3. ASSUME NEW reg \in names
      PROVE  IF reg \in DOMAIN series THEN series[reg].points = own(reg) ELSE own(reg) = <<>>
  <2> DEFINE T == RowsOf(ids, {reg}, w)
             history == HistoryOf(T)
  <2>1. own(reg) = history
    BY RegisterHistoryWhole DEF HistoryOf
  <2>2. /\ PointsOf(rows, reg) = history
        /\ T # {} => \E i \in 1 .. Cardinality(S) : rows[i].reg = reg
        /\ DOMAIN rows = 1 .. Cardinality(S)
    <3> HIDE DEF names
    <3>1. QED
      BY PointsOfRows
  <2> HIDE DEF history, rows, points, series, own, T, S
  <2>3. CASE reg \in regs
    BY <1>1, <1>2, <2>1, <2>2, <2>3
  <2>4. CASE reg \notin regs
    <3>1. T = {}
      BY <1>1, <2>2, <2>4
    <3>2. Cardinality(T) = 0
      BY <3>1, FS_EmptySet
    <3>3. history = <<>>
      BY <3>2 DEF history, HistoryOf
    <3>4. QED
      BY <1>2, <2>1, <2>4, <3>3
  <2>5. QED
    BY <2>3, <2>4
<1>4. QED
  BY Zenon, <1>3 DEF SeriesAddUp

\* The queries over the same window tell the same rows, as long as one page
\* holds all samples (5000; a raw history of one register stops at ten
\* thousand rows): the response and the export, the series of many registers
\* and that of one, the buckets and the statistics, the controller and its
\* devices (persistence/store.py, history/controller_data.py, history/query.py).
LEMMA QueriesHold == ASSUME StoreInv, FewSamples PROVE QueriesAgree
<1> SUFFICES ASSUME NEW c \in Controllers, NEW w \in Spans
             PROVE  /\ \A s \in {None} \cup Resolutions : NeverCut(DevicesOf(c), w, "desc", s)
                    /\ SeriesAddUp(DevicesOf(c), w) /\ DevicesAddUp(c, w)
                    /\ \A s \in Resolutions : BucketsAddUp(DevicesOf(c), w, s)
  BY DEF QueriesAgree
<1>1. \A s \in {None} \cup Resolutions : NeverCut(DevicesOf(c), w, "desc", s)
  BY NeverCutHolds
<1>2. SeriesAddUp(DevicesOf(c), w)
  BY SeriesHold
<1>3. DevicesAddUp(c, w)
  BY DevicesHold
<1>4. \A s \in Resolutions : BucketsAddUp(DevicesOf(c), w, s)
  <2>1. \A s \in Resolutions : s \in Nat \ {0}
    BY DEF Resolutions
  <2>2. QED
    BY <2>1, BucketsPartition
<1>5. QED
  BY <1>1, <1>2, <1>3, <1>4

-----------------------------------------------------------------------------
(* The days of a report                                                      *)

\* Every record is of a calendar day, and there are finitely many.
DayTable ==
  /\ IsFiniteSet(daily)
  /\ \A r \in daily : r.day \in Int /\ r.retrieved \in Nat

LEMMA TableInductive == Spec => []DayTable
<1>1. Init => IsFiniteSet(daily)
  BY FS_EmptySet DEF Init
<1>2. IsFiniteSet(daily) /\ IInv /\ [Next]_vars => IsFiniteSet(daily)'
  <2> SUFFICES ASSUME IsFiniteSet(daily), IInv, [Next]_vars PROVE IsFiniteSet(daily')
    OBVIOUS
  <2>1. CASE daily' = daily
    BY <2>1
  <2>2. CASE FileDays
    <3> DEFINE record(offset) ==
                 [dev |-> fetch.dev, day |-> LocalDay(clock) + offset, complete |-> Over(offset),
                  live |-> Cardinality(LiveOn(fetch.dev, LocalDay(clock) + offset)),
                  retrieved |-> clock, about |-> fetch.today + offset,
                  wh |-> LoggedWh[fetch.today + offset]]
               k == [offset \in -OldestOffset .. 0 |-> record(offset)]
    <3>1. Records = {k[offset] : offset \in -OldestOffset .. 0}
      BY DEF Records
    <3> HIDE DEF k
    <3>2. IsFiniteSet(-OldestOffset .. 0)
      <4>1. -OldestOffset \in Int /\ 0 \in Int
        BY TelemetryAssumption
      <4>2. QED
        BY <4>1, FS_Interval, ZenonT(30)
    <3>3. IsFiniteSet(Records)
      BY <3>1, <3>2, ImageFinite
    <3> DEFINE kept == {r \in daily : ~\E n \in Records : n.dev = r.dev /\ n.day = r.day}
    <3>4. IsFiniteSet(kept)
      BY FS_Subset
    <3>5. daily' = kept \cup Records
      BY <2>2 DEF FileDays, Upserted
    <3> HIDE DEF kept
    <3>6. QED
      BY <3>3, <3>4, <3>5, FS_Union
  <2>3. QED
    BY <2>1, <2>2
    DEF Next, vars, Pass, At, UpdateCanonicalDevice, SavePoll, SaveError, MarkDeviceOffline,
        MarkAllOffline, BeginSync, RecordSync, CancelSync
<1>3. IsFiniteSet(daily) /\ IInv => DayTable
  BY DEF DayTable, IInv, DailyInv
<1>4. QED
  BY <1>1, <1>2, <1>3, InductiveInvariant, PTL DEF Spec

LEMMA MaxIs ==
  ASSUME NEW S \in SUBSET Int, IsFiniteSet(S), S # {}
  PROVE  Max(S) \in S /\ \A x \in S : x <= Max(S)
<1>1. PICK n \in S : \A x \in S : x <= n
  BY LeastAndGreatest
<1>2. \A x \in S : n >= x
  BY <1>1
<1>3. QED
  BY <1>2 DEF Max

LEMMA MinIs ==
  ASSUME NEW S \in SUBSET Int, IsFiniteSet(S), S # {}
  PROVE  Min(S) \in S /\ \A x \in S : Min(S) <= x
<1>1. PICK n \in S : \A x \in S : n <= x
  BY LeastAndGreatest
<1>2. QED
  BY <1>1 DEF Min

\* The days some evidence is of.
EvidenceDays(ids) ==
  {UtcDay(s.at) : s \in {x \in samples : x.dev \in ids}} \cup {r.day : r \in {x \in daily : x.dev \in ids}}

\* The days with a sample or a record are finitely many.
LEMMA EvidenceFinite ==
  ASSUME StoreInv, DayTable, NEW ids
  PROVE  EvidenceDays(ids) \in SUBSET Int /\ IsFiniteSet(EvidenceDays(ids))
<1> DEFINE polled == {x \in samples : x.dev \in ids}
           filed == {x \in daily : x.dev \in ids}
           k == [s \in polled |-> UtcDay(s.at)]
           h == [r \in filed |-> r.day]
           K == {UtcDay(s.at) : s \in polled}
           H == {r.day : r \in filed}
<1>1. IsFiniteSet(polled) /\ IsFiniteSet(filed)
  BY FS_Subset DEF StoreInv, PastInv, DayTable
<1>2. K = {k[s] : s \in polled} /\ H = {h[r] : r \in filed}
  OBVIOUS
<1>3. K \in SUBSET Int /\ H \in SUBSET Int
  <2>1. \A s \in samples : UtcDay(s.at) \in Int
    BY TelemetryAssumption DEF StoreInv, PastInv, UtcDay
  <2>2. QED
    BY <2>1 DEF DayTable
<1>4. EvidenceDays(ids) = K \cup H
  BY DEF EvidenceDays
<1> HIDE DEF k, h, polled, filed, K, H
<1>5. IsFiniteSet(K) /\ IsFiniteSet(H)
  BY <1>1, <1>2, ImageFinite
<1>6. QED
  BY <1>3, <1>4, <1>5, FS_Union

\* The days of a report are consecutive, and those of the one over all time hold
\* every day some evidence is of.
LEMMA DaysAre ==
  ASSUME StoreInv, DayTable, NEW ids, NEW w \in Windows
  PROVE  /\ \E a, b \in Int : DaysOf(Period(ids, w)) = a .. b
         /\ w = Always => EvidenceDays(ids) \subseteq DaysOf(Period(ids, w))
<1> DEFINE E == EvidenceDays(ids)
           first == IF w.from # None THEN w.from ELSE IF E = {} THEN None ELSE Min(E)
           end == IF w.to # None THEN w.to ELSE IF E = {} THEN None ELSE Max(E) + 1
<1>1. None \notin Int
  BY TelemetryAssumption
<1>2. w.from \in {0, 1, None} /\ w.to \in {0, 1, None}
  BY DEF Windows, Always
<1>3. E \in SUBSET Int /\ IsFiniteSet(E)
  BY EvidenceFinite
<1>4. Period(ids, w) = IF first = None /\ end = None THEN NoPeriod
                       ELSE [from |-> IF first = None THEN end - 1 ELSE first,
                             to |-> IF end = None THEN first + 1 ELSE end]
  BY DEF Period, EvidenceDays
<1> HIDE DEF E
<1>5. E # {} => Min(E) \in Int /\ Max(E) \in Int /\ \A x \in E : Min(E) <= x /\ x <= Max(E)
  BY <1>3, MinIs, MaxIs
<1>6. first \in Int \cup {None} /\ end \in Int \cup {None}
  BY <1>2, <1>5
<1>7. CASE first = None /\ end = None
  <2>1. DaysOf(Period(ids, w)) = {}
    BY <1>4, <1>7 DEF DaysOf
  <2>2. {} = 0 .. -1
    OBVIOUS
  <2>3. E = {}
    BY <1>1, <1>5, <1>7
  <2>4. QED
    BY <2>1, <2>2, <2>3 DEF E
<1>8. CASE ~(first = None /\ end = None)
  <2> DEFINE a == IF first = None THEN end - 1 ELSE first
             b == (IF end = None THEN first + 1 ELSE end) - 1
             p == Period(ids, w)
  <2>1. a \in Int /\ b \in Int
    BY <1>6, <1>8
  <2>2. p = [from |-> a, to |-> IF end = None THEN first + 1 ELSE end]
    BY <1>4, <1>8
  <2>3. p.from = a /\ p.from # None /\ p.to - 1 = b
    BY <1>1, <2>1, <2>2
  <2> HIDE DEF p
  <2>4. p # NoPeriod
    BY <2>3 DEF NoPeriod
  <2>5. DaysOf(p) = a .. b
    BY <2>3, <2>4 DEF DaysOf
  <2>6. w = Always => E \subseteq a .. b
    <3> SUFFICES ASSUME w = Always, NEW x \in E PROVE x \in a .. b
      OBVIOUS
    <3>1. first = Min(E) /\ end = Max(E) + 1
      BY DEF Always
    <3>2. a = Min(E) /\ b = Max(E)
      BY <1>1, <1>5, <3>1
    <3>3. QED
      BY <1>3, <1>5, <3>2
  <2> HIDE DEF a, b
  <2>7. QED
    BY <2>1, <2>5, <2>6 DEF p, E
<1>9. QED
  BY <1>7, <1>8

-----------------------------------------------------------------------------
(* The gaps between them                                                     *)

Starts(ids, days) ==
  {d \in days : Evidence(ids, d) # "live" /\ ~(d - 1 \in days /\ SameGap(ids, d - 1, d))}
RunOf(ids, days, d) == {e \in days : e >= d /\ \A x \in d .. e - 1 : SameGap(ids, x, x + 1)}
GapOf(ids, days, d) ==
  [from |-> d, to |-> Max(RunOf(ids, days, d)) + 1, days |-> Cardinality(RunOf(ids, days, d)),
   status |-> Evidence(ids, d), recoverable |-> Evidence(ids, d) # "missing"]

LEMMA GapsAre ==
  ASSUME NEW ids, NEW w
  PROVE  Gaps(ids, w) = {GapOf(ids, DaysOf(Period(ids, w)), d) : d \in Starts(ids, DaysOf(Period(ids, w)))}
BY Zenon DEF Gaps, Starts, RunOf, GapOf

LEMMA GapFields ==
  ASSUME NEW ids, NEW days, NEW d
  PROVE  /\ GapOf(ids, days, d).from = d /\ GapOf(ids, days, d).to = Max(RunOf(ids, days, d)) + 1
         /\ GapOf(ids, days, d).days = Cardinality(RunOf(ids, days, d))
         /\ GapOf(ids, days, d).status = Evidence(ids, d)
BY DEF GapOf

\* A run has the evidence it starts with.
LEMMA RunAlike ==
  ASSUME NEW ids, NEW days \in SUBSET Int, NEW d \in days, Evidence(ids, d) # "live",
         NEW e \in RunOf(ids, days, d)
  PROVE  Evidence(ids, e) = Evidence(ids, d)
<1> DEFINE bad == {x \in 0 .. e - d : Evidence(ids, d + x) # Evidence(ids, d)}
<1>1. e \in Int /\ d \in Int /\ e >= d
  BY DEF RunOf
<1>2. bad = {}
  <2> SUFFICES ASSUME bad # {} PROVE FALSE
    OBVIOUS
  <2>1. bad \in SUBSET Nat
    BY <1>1
  <2>2. PICK n \in bad : \A m \in bad : n <= m
    <3> HIDE DEF bad
    <3>1. QED
      BY <2>1, LeastNat
  <2>3. n \in 0 .. e - d /\ Evidence(ids, d + n) # Evidence(ids, d)
    OBVIOUS
  <2>4. n # 0
    BY <1>1, <2>3
  <2>5. n - 1 \in 0 .. e - d /\ ~(n <= n - 1)
    BY <1>1, <2>3, <2>4
  <2>6. n - 1 \notin bad
    <3> HIDE DEF bad
    <3>1. QED
      BY <2>2, <2>5
  <2>7. Evidence(ids, d + (n - 1)) = Evidence(ids, d)
    BY <2>5, <2>6
  <2> DEFINE x == d + (n - 1)
  <2>8. x \in d .. e - 1 /\ x + 1 = d + n
    BY <1>1, <2>3, <2>4
  <2> HIDE DEF x
  <2>9. SameGap(ids, x, x + 1)
    BY <2>8 DEF RunOf
  <2>10. Evidence(ids, d + n) = Evidence(ids, x)
    BY <2>8, <2>9 DEF SameGap
  <2>11. QED
    BY <2>3, <2>7, <2>10 DEF x
<1>3. e - d \in 0 .. e - d /\ d + (e - d) = e
  BY <1>1
<1> QED
  BY <1>2, <1>3

\* A run of days has a last day.
LEMMA RunFinite ==
  ASSUME NEW ids, NEW a \in Int, NEW b \in Int, NEW d \in a .. b
  PROVE  LET run == RunOf(ids, a .. b, d) IN
         /\ d \in run /\ run \in SUBSET Int /\ IsFiniteSet(run)
         /\ Max(run) \in run /\ \A e \in run : e <= Max(run)
<1> DEFINE run == RunOf(ids, a .. b, d)
<1>1. d \in run /\ run \in SUBSET Int /\ run \in SUBSET (a .. b)
  BY DEF RunOf
<1> HIDE DEF run
<1>2. IsFiniteSet(run)
  BY <1>1, FS_Interval, FS_Subset
<1>3. Max(run) \in run /\ \A e \in run : e <= Max(run)
  BY <1>1, <1>2, MaxIs
<1>4. QED
  BY <1>1, <1>2, <1>3 DEF run

\* Every day without a sample is in one run.
LEMMA RunExists ==
  ASSUME NEW ids, NEW a \in Int, NEW b \in Int, NEW e \in a .. b, Evidence(ids, e) # "live"
  PROVE  \E s \in Starts(ids, a .. b) : e \in RunOf(ids, a .. b, s)
<1> DEFINE back == {n \in 0 .. e - a : \A x \in e - n .. e - 1 : SameGap(ids, x, x + 1)}
<1>1. 0 \in back
  OBVIOUS
<1>2. back \in SUBSET Nat /\ \A n \in back : n <= e - a /\ e - a \in Nat
  OBVIOUS
<1>3. PICK m \in back : \A n \in back : n <= m
  <2> HIDE DEF back
  <2>1. QED
    BY <1>1, <1>2, GreatestNat
<1> DEFINE s == e - m
<1>4. s \in a .. b /\ s <= e /\ m \in 0 .. e - a /\ \A x \in s .. e - 1 : SameGap(ids, x, x + 1)
  BY <1>3
<1>5. Evidence(ids, s) # "live"
  <2>1. CASE s = e
    BY <2>1
  <2>2. CASE s # e
    <3>1. s \in s .. e - 1
      BY <1>4, <2>2
    <3>2. SameGap(ids, s, s + 1)
      BY <1>4, <3>1
    <3>3. QED
      BY <3>2 DEF SameGap
  <2>3. QED
    BY <2>1, <2>2
<1>6. ~(s - 1 \in a .. b /\ SameGap(ids, s - 1, s))
  <2> SUFFICES ASSUME s - 1 \in a .. b, SameGap(ids, s - 1, s) PROVE FALSE
    OBVIOUS
  <2>1. m + 1 \in 0 .. e - a /\ e - (m + 1) = s - 1
    BY <1>4
  <2>2. ASSUME NEW x \in s - 1 .. e - 1 PROVE SameGap(ids, x, x + 1)
    <3>1. CASE x = s - 1
      <4>1. x + 1 = s
        BY <1>4, <3>1
      <4>2. QED
        BY <3>1, <4>1
    <3>2. CASE x # s - 1
      <4>1. x \in s .. e - 1
        BY <1>4, <3>2
      <4>2. QED
        BY <1>4, <4>1
    <3>3. QED
      BY <3>1, <3>2
  <2>3. m + 1 \in back
    BY <2>1, <2>2
  <2>4. m \in Int
    BY <1>4
  <2> HIDE DEF back
  <2>5. m + 1 <= m
    BY <1>3, <2>3
  <2>6. QED
    BY <2>4, <2>5
<1> HIDE DEF s, back
<1>7. s \in Starts(ids, a .. b)
  BY <1>4, <1>5, <1>6 DEF Starts
<1>8. e \in RunOf(ids, a .. b, s)
  BY <1>4 DEF RunOf
<1>9. QED
  BY <1>7, <1>8

\* A day lies in one run only.
LEMMA RunUnique ==
  ASSUME NEW ids, NEW days \in SUBSET Int, NEW s \in Starts(ids, days), NEW t \in Starts(ids, days),
         NEW e, e \in RunOf(ids, days, s), e \in RunOf(ids, days, t), s < t,
         \A x \in Int : s <= x /\ x <= e => x \in days
  PROVE  FALSE
<1>1. s \in Int /\ t \in Int /\ e \in Int /\ t <= e
  BY DEF Starts, RunOf
<1>2. t - 1 \in s .. e - 1 /\ (t - 1) + 1 = t
  BY <1>1
<1>3. SameGap(ids, t - 1, (t - 1) + 1)
  BY <1>2 DEF RunOf
<1>4. t - 1 \in days
  BY <1>1, <1>2
<1>5. QED
  BY <1>2, <1>3, <1>4 DEF Starts

DaysTold(D) == [g \in D |-> g.days]
LEMMA DaysTotal ==
  ASSUME NEW D
  PROVE  MapThenSumSet(LAMBDA g : g.days, D) = Total(DaysTold(D), D)
BY ZenonT(40) DEF DaysTold, Total, Sums, SumStep, One, MapThenSumSet, MapThenFoldSet

\* The gaps of some kinds last as long as there are days of these kinds.
GapsOf(ids, w, kinds) == {g \in Gaps(ids, w) : g.status \in kinds}
DaysWith(ids, days, kinds) == {d \in days : Evidence(ids, d) \in kinds}

\* The gaps of some kinds are as long as there are days of those kinds: each
\* such day lies in the run of one first day.
LEMMA GapDays ==
  ASSUME NEW ids, NEW w, NEW a \in Int, NEW b \in Int, DaysOf(Period(ids, w)) = a .. b,
         NEW kinds, "live" \notin kinds
  PROVE  MapThenSumSet(LAMBDA g : g.days, GapsOf(ids, w, kinds)) = Cardinality(DaysWith(ids, a .. b, kinds))
<1> DEFINE days == a .. b
           Q == DaysWith(ids, days, kinds)
           D == GapsOf(ids, w, kinds)
           startOf == [e \in Q |-> CHOOSE s \in Starts(ids, days) : e \in RunOf(ids, days, s)]
           k == [e \in Q |-> GapOf(ids, days, startOf[e])]
           f == [g \in D |-> g.days]
<1>1. days \in SUBSET Int /\ Q \subseteq days
  BY DEF DaysWith
<1>2. IsFiniteSet(Q)
  BY <1>1, FS_Interval, FS_Subset
<1>3. ASSUME NEW e \in Q
      PROVE  startOf[e] \in Starts(ids, days) /\ e \in RunOf(ids, days, startOf[e])
  <2>1. e \in days /\ Evidence(ids, e) # "live"
    BY DEF DaysWith
  <2>2. \E s \in Starts(ids, days) : e \in RunOf(ids, days, s)
    BY <2>1, RunExists
  <2>3. QED
    BY <2>2
<1>4. \A s \in Starts(ids, days) : s \in days /\ s \in Int /\ Evidence(ids, s) # "live"
  BY <1>1 DEF Starts
<1>5. ASSUME NEW s \in Starts(ids, days), NEW t \in Starts(ids, days), NEW e,
             e \in RunOf(ids, days, s), e \in RunOf(ids, days, t)
      PROVE  s = t
  <2>1. e \in days
    BY <1>5 DEF RunOf
  <2>2. /\ \A x \in Int : s <= x /\ x <= e => x \in days
        /\ \A x \in Int : t <= x /\ x <= e => x \in days
    BY <1>4, <2>1
  <2> HIDE DEF days
  <2>3. ~(s < t) /\ ~(t < s)
    BY <1>1, <1>5, <2>2, RunUnique
  <2>4. QED
    BY <1>4, <2>3
<1>6. ASSUME NEW s \in Starts(ids, days), Evidence(ids, s) \in kinds, NEW e \in RunOf(ids, days, s)
      PROVE  e \in Q /\ startOf[e] = s
  <2>1. Evidence(ids, e) = Evidence(ids, s)
    <3> HIDE DEF days
    <3>1. QED
      BY <1>1, <1>4, <1>6, RunAlike
  <2>2. e \in days
    BY <1>6 DEF RunOf
  <2>3. e \in Q
    BY <1>6, <2>1, <2>2 DEF DaysWith
  <2>4. startOf[e] \in Starts(ids, days) /\ e \in RunOf(ids, days, startOf[e])
    BY <1>3, <2>3
  <2> HIDE DEF startOf, days, Q
  <2>5. QED
    BY <1>5, <1>6, <2>3, <2>4
<1>7. Gaps(ids, w) = {GapOf(ids, days, d) : d \in Starts(ids, days)}
  BY GapsAre
<1>8. ASSUME NEW e \in Q PROVE k[e] = GapOf(ids, days, startOf[e]) /\ k[e] \in D
  <2> DEFINE s == startOf[e]
  <2>1. s \in Starts(ids, days) /\ e \in RunOf(ids, days, s)
    BY <1>3
  <2>2. Evidence(ids, e) \in kinds
    BY DEF DaysWith
  <2>3. k[e] = GapOf(ids, days, s)
    OBVIOUS
  <2> HIDE DEF s, k, days, Q, startOf
  <2>4. Evidence(ids, s) \in kinds
    BY <1>1, <1>4, <2>1, <2>2, RunAlike
  <2>5. GapOf(ids, days, s).status \in kinds
    BY <2>4, GapFields
  <2>6. GapOf(ids, days, s) \in Gaps(ids, w)
    BY <1>7, <2>1
  <2>7. QED
    BY <2>3, <2>5, <2>6 DEF GapsOf, s
<1>9. ASSUME NEW g \in D
      PROVE  \E s \in Starts(ids, days) : Evidence(ids, s) \in kinds /\ g = GapOf(ids, days, s)
  <2> HIDE DEF days
  <2>1. g \in Gaps(ids, w) /\ g.status \in kinds
    BY DEF GapsOf
  <2>2. PICK s \in Starts(ids, days) : g = GapOf(ids, days, s)
    BY <1>7, <2>1
  <2>3. QED
    BY <2>1, <2>2, GapFields
<1>10. ASSUME NEW g \in D PROVE \E e \in Q : k[e] = g
  <2>1. PICK s \in Starts(ids, days) : Evidence(ids, s) \in kinds /\ g = GapOf(ids, days, s)
    BY <1>9
  <2>2. s \in days
    BY <1>4
  <2>3. s \in RunOf(ids, days, s)
    BY <2>2, RunFinite
  <2> HIDE DEF days, Q, D, startOf, k
  <2>4. s \in Q /\ startOf[s] = s
    BY <1>6, <2>1, <2>3
  <2>5. k[s] = GapOf(ids, days, s)
    BY <1>8, <2>4
  <2>6. QED
    BY <2>1, <2>4, <2>5
<1>11. ASSUME NEW e \in Q PROVE f[k[e]] = Cardinality(Keyed(Q, k, k[e]))
  <2> DEFINE s == startOf[e]
  <2>1. s \in Starts(ids, days) /\ e \in RunOf(ids, days, s)
    BY <1>3
  <2>2. k[e] \in D /\ k[e] = GapOf(ids, days, s)
    BY <1>8
  <2>3. f[k[e]] = k[e].days
    BY <2>2
  <2>4. Evidence(ids, s) \in kinds
    <3>1. Evidence(ids, e) \in kinds
      BY DEF DaysWith
    <3> HIDE DEF days, s
    <3>2. QED
      BY <1>1, <1>4, <2>1, <3>1, RunAlike
  <2> HIDE DEF days, Q, D, startOf, k, f, s
  <2>5. ASSUME NEW x \in RunOf(ids, days, s) PROVE x \in Keyed(Q, k, k[e])
    <3>1. x \in Q /\ startOf[x] = s
      BY <1>6, <2>1, <2>4, <2>5
    <3>2. k[x] = k[e]
      BY <1>8, <2>2, <3>1
    <3>3. QED
      BY <3>1, <3>2 DEF Keyed
  <2>6. ASSUME NEW x \in Keyed(Q, k, k[e]) PROVE x \in RunOf(ids, days, s)
    <3>1. x \in Q /\ k[x] = k[e]
      BY DEF Keyed
    <3>2. GapOf(ids, days, startOf[x]) = GapOf(ids, days, s)
      BY <1>8, <2>2, <3>1
    <3>3. GapOf(ids, days, startOf[x]).from = startOf[x] /\ GapOf(ids, days, s).from = s
      BY GapFields
    <3>4. startOf[x] = s
      BY <3>2, <3>3
    <3>5. QED
      BY <1>3, <3>1, <3>4
  <2>7. Keyed(Q, k, k[e]) = RunOf(ids, days, s)
    BY <2>5, <2>6
  <2>8. GapOf(ids, days, s).days = Cardinality(RunOf(ids, days, s))
    BY GapFields
  <2>9. QED
    BY <2>2, <2>3, <2>7, <2>8
<1>12. Total(f, D) = Cardinality(Q)
  <2> HIDE DEF Q, D, k, f, startOf
  <2>1. \A x \in Q : k[x] \in D
    BY <1>8
  <2>2. \A d \in D : \E x \in Q : k[x] = d
    BY <1>10
  <2>3. \A x \in Q : f[k[x]] = Cardinality(Keyed(Q, k, k[x]))
    BY <1>11
  <2>4. QED
    BY <1>2, <2>1, <2>2, <2>3, CountOfPart
<1>13. MapThenSumSet(LAMBDA g : g.days, D) = Total(f, D)
  <2> HIDE DEF D
  <2>1. f = DaysTold(D)
    BY DEF DaysTold
  <2> HIDE DEF f
  <2>2. QED
    BY <2>1, DaysTotal
<1>14. QED
  BY <1>12, <1>13

-----------------------------------------------------------------------------
(* Coverage, gaps and the retained days                                      *)

LEMMA CoverageFields ==
  ASSUME NEW ids, NEW w
  PROVE  LET days == DaysOf(Period(ids, w)) IN
         /\ Coverage(ids, w).days = Cardinality(days)
         /\ Coverage(ids, w).live = Cardinality(DaysWith(ids, days, {"live"}))
         /\ Coverage(ids, w).recovered = Cardinality(DaysWith(ids, days, {"recovered"}))
         /\ Coverage(ids, w).missing
              = Cardinality(days) - Cardinality(DaysWith(ids, days, {"live", "recovered"}))
         /\ Coverage(ids, w).completed = Cardinality({d \in days : Completed(ids, d)})
BY Zenon DEF Coverage, DaysWith

LEMMA EvidenceKinds ==
  ASSUME NEW ids, NEW d
  PROVE  Evidence(ids, d) \in {"live", "missing", "recovered", "partial"}
BY DEF Evidence

\* The days of two sets of kinds add up.
LEMMA DaysSplit ==
  ASSUME NEW ids, NEW days, IsFiniteSet(days), NEW K, NEW L, NEW M,
         \A x \in K : x \in M /\ x \notin L, \A x \in L : x \in M, \A x \in M : x \in K \/ x \in L
  PROVE  /\ Cardinality(DaysWith(ids, days, M))
              = Cardinality(DaysWith(ids, days, K)) + Cardinality(DaysWith(ids, days, L))
         /\ Cardinality(DaysWith(ids, days, K)) \in Nat
         /\ Cardinality(DaysWith(ids, days, L)) \in Nat
<1> DEFINE A == DaysWith(ids, days, K)
           B == DaysWith(ids, days, L)
<1>1. DaysWith(ids, days, M) = A \cup B /\ A \cap B = {} /\ A \subseteq days /\ B \subseteq days
  BY DEF DaysWith
<1> HIDE DEF A, B
<1>2. IsFiniteSet(A) /\ IsFiniteSet(B)
  BY <1>1, FS_Subset
<1>3. Cardinality(A) \in Nat /\ Cardinality(B) \in Nat
  BY <1>2, FS_CardinalityType
<1>4. Cardinality(A \cup B) = Cardinality(A) + Cardinality(B) - Cardinality(A \cap B)
  BY <1>2, FS_Union
<1>5. Cardinality(A \cap B) = 0
  BY <1>1, FS_EmptySet
<1>6. Cardinality(DaysWith(ids, days, M)) = Cardinality(A) + Cardinality(B)
  BY <1>1, <1>3, <1>4, <1>5
<1>7. QED
  BY <1>3, <1>6 DEF A, B

\* Of the records of a day, the one told is one of them.
LEMMA NewestFiled ==
  ASSUME DayTable, NEW ids, NEW r \in daily, r.dev \in ids
  PROVE  /\ NewestRecord(ids, r.day) \in daily /\ NewestRecord(ids, r.day).dev \in ids
         /\ NewestRecord(ids, r.day).day = r.day
<1> DEFINE filed == {x \in daily : x.dev \in ids /\ x.day = r.day}
           k == [x \in filed |-> x.retrieved]
           times == {k[x] : x \in filed}
<1>1. r \in filed /\ IsFiniteSet(filed)
  BY FS_Subset DEF DayTable
<1>2. times \in SUBSET Int /\ times # {}
  <2>1. \A x \in filed : k[x] \in Int
    BY DEF DayTable
  <2> HIDE DEF filed, k
  <2>2. QED
    BY <1>1, <2>1
<1>3. IsFiniteSet(times)
  <2> HIDE DEF filed, k
  <2>1. QED
    BY <1>1, ImageFinite
<1>4. PICK m \in times : \A t \in times : t <= m
  <2> HIDE DEF times
  <2>1. QED
    BY <1>2, <1>3, LeastAndGreatest
<1>5. \E x \in filed : \A other \in filed : other.retrieved <= x.retrieved
  BY <1>4
<1>6. NewestRecord(ids, r.day) \in filed
  <2>1. NewestRecord(ids, r.day) = CHOOSE x \in filed : \A other \in filed : other.retrieved <= x.retrieved
    BY DEF NewestRecord
  <2> HIDE DEF filed
  <2>2. QED
    BY <1>5, <2>1
<1>7. QED
  BY <1>6

\* The daily history has one record per day.
LEMMA DailyRowsAre ==
  ASSUME DayTable, NEW ids
  PROVE  /\ DailyRows(ids) \subseteq daily /\ IsFiniteSet(DailyRows(ids))
         /\ \A x \in DailyRows(ids) : x.dev \in ids /\ x.day \in Int
         /\ \A x, y \in DailyRows(ids) : x.day = y.day => x = y
<1>1. ASSUME NEW x \in DailyRows(ids)
      PROVE  x \in daily /\ x.dev \in ids /\ x.day \in Int /\ x = NewestRecord(ids, x.day)
  <2>1. PICK r \in daily : r.dev \in ids /\ x = NewestRecord(ids, r.day)
    BY DEF DailyRows
  <2>2. x \in daily /\ x.dev \in ids /\ x.day = r.day
    BY <2>1, NewestFiled
  <2>3. QED
    BY <2>1, <2>2 DEF DayTable
<1>2. DailyRows(ids) \subseteq daily
  BY <1>1
<1>3. IsFiniteSet(DailyRows(ids))
  BY <1>2, FS_Subset DEF DayTable
<1>4. ASSUME NEW x \in DailyRows(ids), NEW y \in DailyRows(ids), x.day = y.day PROVE x = y
  <2>1. x = NewestRecord(ids, x.day) /\ y = NewestRecord(ids, y.day)
    BY <1>1
  <2>2. QED
    BY <1>4, <2>1
<1>5. QED
  BY <1>1, <1>2, <1>3, <1>4

\* A set has as many members as it has keys that tell them apart.
LEMMA OneToOne ==
  ASSUME NEW S, IsFiniteSet(S), NEW k, \A x, y \in S : k[x] = k[y] => x = y,
         NEW T, T = {k[x] : x \in S}
  PROVE  IsFiniteSet(T) /\ Cardinality(T) = Cardinality(S)
<1> DEFINE f == [x \in S |-> k[x]]
<1>1. f \in Surjection(S, T) /\ f \in Injection(S, T)
  BY DEF Surjection, Injection, IsInjective
<1>2. QED
  BY <1>1, FS_Surjection

\* Over all time, the days with a complete record are the complete records.
LEMMA CompletedDays ==
  ASSUME StoreInv, DayTable, NEW ids
  PROVE  Cardinality({d \in DaysOf(Period(ids, Always)) : Completed(ids, d)})
           = Cardinality({r \in DailyRows(ids) : r.complete})
<1> DEFINE days == DaysOf(Period(ids, Always))
           R == {r \in DailyRows(ids) : r.complete}
           T == {d \in days : Completed(ids, d)}
           k == [r \in R |-> r.day]
<1>1. IsFiniteSet(R) /\ \A x, y \in R : k[x] = k[y] => x = y
  <2>1. /\ IsFiniteSet(DailyRows(ids))
        /\ \A x, y \in DailyRows(ids) : x.day = y.day => x = y
    BY DailyRowsAre
  <2>2. IsFiniteSet(R)
    BY <2>1, FS_Subset
  <2>3. \A x, y \in R : k[x] = k[y] => x = y
    BY <2>1
  <2>4. QED
    BY <2>2, <2>3
<1>2. ASSUME NEW r \in R PROVE k[r] \in T
  <2>1. r \in DailyRows(ids) /\ r.complete /\ k[r] = r.day
    OBVIOUS
  <2>2. r \in daily /\ r.dev \in ids
    BY <2>1, DailyRowsAre
  <2>3. r.day \in EvidenceDays(ids)
    BY <2>2 DEF EvidenceDays
  <2>4. Always \in Windows
    BY DEF Windows
  <2>5. r.day \in days
    BY <2>3, <2>4, DaysAre
  <2>6. Completed(ids, r.day)
    BY <2>1 DEF Completed, RecordsOf
  <2> HIDE DEF days
  <2>7. QED
    BY <2>1, <2>5, <2>6
<1>3. ASSUME NEW d \in T PROVE \E r \in R : k[r] = d
  <2>1. Completed(ids, d)
    OBVIOUS
  <2>2. PICK r \in DailyRows(ids) : r.day = d /\ r.complete
    BY <2>1 DEF Completed, RecordsOf
  <2>3. QED
    BY <2>2
<1> HIDE DEF R, T, k
<1>4. T = {k[r] : r \in R}
  BY <1>2, <1>3
<1>5. Cardinality(T) = Cardinality(R)
  BY <1>1, <1>4, OneToOne
<1>6. QED
  BY <1>5 DEF T, R

LEMMA MinOfTwo ==
  ASSUME NEW a \in Int, NEW b \in Int
  PROVE  Min({a, b}) = IF a <= b THEN a ELSE b
<1>1. CASE a <= b
  BY <1>1 DEF Min
<1>2. CASE ~(a <= b)
  BY <1>2 DEF Min
<1>3. QED
  BY <1>1, <1>2

NewerIn(R) == {p \in R \X R : p[1].day > p[2].day}

\* As many days are told as there are records, or as one response holds.
LEMMA DailyCounted ==
  ASSUME DayTable, NEW ids
  PROVE  Cardinality(DailyHistory(ids, Always, MaxDays)) = Min({DailySummary(ids).records, MaxDays})
<1> DEFINE R == DailyRows(ids)
           N == Cardinality(R)
           order == NewerIn(R)
           limit == Max({1, Min({MaxDays, MaxDays})})
           told == {r \in R : Cardinality({x \in R : x.day > r.day}) < limit}
           n == IF N <= MaxDays THEN N ELSE MaxDays
           k == [r \in told |-> PlaceIn(R, order)[r]]
<1>1. MaxDays = 500 /\ limit = 500
  <2>1. Min({MaxDays, MaxDays}) = 500
    BY DEF Min, MaxDays
  <2>2. Max({1, 500}) \in {1, 500} /\ Max({1, 500}) >= 500
    BY MaxOfTwo
  <2>3. QED
    BY <2>1, <2>2 DEF MaxDays
<1>2. DailyHistory(ids, Always, MaxDays) = told
  <2>1. DaysIn(R, Always) = R
    BY DEF DaysIn, InWindow, Always
  <2>2. DailyHistory(ids, Always, MaxDays)
          = {r \in DaysIn(R, Always) : Cardinality({x \in DaysIn(R, Always) : x.day > r.day}) < limit}
    BY DEF DailyHistory
  <2> HIDE DEF R, limit
  <2>3. QED
    BY <2>1, <2>2
<1>3. /\ IsFiniteSet(R) /\ \A r \in R : r.day \in Int
      /\ \A x, y \in R : x.day = y.day => x = y
  BY DailyRowsAre
<1>4. DailySummary(ids).records = N
  BY DEF DailySummary
<1> HIDE DEF R, limit
<1>5. IsOrder(R, order) /\ \A r \in R : Preceding(R, order, r) = {x \in R : x.day > r.day}
  <2>1. \A x, y \in R : <<x, y>> \in order <=> x.day > y.day
    BY DEF NewerIn
  <2> HIDE DEF order
  <2>2. QED
    BY <1>3, <2>1 DEF IsOrder, Preceding
<1> HIDE DEF order
<1>6. /\ N \in Nat
      /\ \A i \in 1 .. N : ByPlace(R, order)[i] \in R /\ PlaceIn(R, order)[ByPlace(R, order)[i]] = i
      /\ \A x \in R : /\ PlaceIn(R, order)[x] \in 1 .. N
                      /\ ByPlace(R, order)[PlaceIn(R, order)[x]] = x
  BY <1>3, <1>5, ByPlaceIs
<1>7. ASSUME NEW r \in R
      PROVE  Cardinality({x \in R : x.day > r.day}) < limit <=> PlaceIn(R, order)[r] <= MaxDays
  <2> DEFINE m == Cardinality(Preceding(R, order, r))
  <2>1. PlaceIn(R, order)[r] = 1 + m
    BY DEF PlaceIn
  <2>2. Preceding(R, order, r) \in SUBSET R
    BY DEF Preceding
  <2>3. m \in Nat
    BY <1>3, <2>2, FS_Subset, FS_CardinalityType
  <2>4. Cardinality({x \in R : x.day > r.day}) = m
    BY <1>5
  <2> HIDE DEF m
  <2>5. QED
    BY <1>1, <2>1, <2>3, <2>4
<1>8. told = {r \in R : PlaceIn(R, order)[r] <= MaxDays}
  BY <1>7
<1> HIDE DEF told
<1>9. IsFiniteSet(told)
  BY <1>3, <1>8, FS_Subset
<1>10. \A x, y \in told : k[x] = k[y] => x = y
  <2>1. ASSUME NEW x \in told, NEW y \in told, k[x] = k[y] PROVE x = y
    <3>1. x \in R /\ y \in R /\ k[x] = PlaceIn(R, order)[x] /\ k[y] = PlaceIn(R, order)[y]
      BY <1>8
    <3>2. x = ByPlace(R, order)[PlaceIn(R, order)[x]] /\ y = ByPlace(R, order)[PlaceIn(R, order)[y]]
      BY <1>6, <3>1
    <3> HIDE DEF k
    <3>3. QED
      BY <2>1, <3>1, <3>2
  <2>2. QED
    BY <2>1
<1>11. n \in Nat /\ \A i \in Int : i \in 1 .. n <=> i \in 1 .. N /\ i <= MaxDays
  BY <1>1, <1>6
<1>12. 1 .. n = {k[r] : r \in told}
  <2>1. ASSUME NEW r \in told PROVE k[r] \in 1 .. n
    <3>1. r \in R /\ k[r] = PlaceIn(R, order)[r] /\ k[r] <= MaxDays
      BY <1>8
    <3> HIDE DEF k, n
    <3>2. k[r] \in 1 .. N
      BY <1>6, <3>1
    <3>3. QED
      BY <1>11, <3>1, <3>2
  <2>2. ASSUME NEW i \in 1 .. n PROVE \E r \in told : k[r] = i
    <3>1. i \in 1 .. N /\ i <= MaxDays
      <4> HIDE DEF n
      <4>1. QED
        BY <1>11
    <3> DEFINE r == ByPlace(R, order)[i]
    <3>2. r \in R /\ PlaceIn(R, order)[r] = i
      BY <1>6, <3>1
    <3> HIDE DEF r
    <3>3. r \in told
      BY <1>8, <3>1, <3>2
    <3>4. QED
      BY <3>2, <3>3
  <2> HIDE DEF k, n
  <2>3. QED
    BY <2>1, <2>2
<1> DEFINE T == 1 .. n
<1>13. Cardinality(T) = n
  <2>1. Cardinality(1 .. n) = IF 1 > n THEN 0 ELSE n - 1 + 1
    <3> HIDE DEF n
    <3>1. QED
      BY <1>11, FS_Interval
  <2> HIDE DEF n
  <2>2. QED
    BY <1>11, <2>1
<1>14. Cardinality(T) = Cardinality(told)
  <2>1. T = {k[r] : r \in told}
    BY <1>12
  <2> HIDE DEF T, k
  <2>2. QED
    BY <1>9, <1>10, <2>1, OneToOne
<1>15. Min({N, MaxDays}) = n
  <2>1. MaxDays \in Int
    BY <1>1
  <2>2. N \in Int
    BY <1>6
  <2>3. QED
    BY <2>1, <2>2, MinOfTwo
<1> HIDE DEF n, N, T
<1>16. QED
  BY <1>2, <1>4, <1>13, <1>14, <1>15

\* Two gaps that touch differ.
LEMMA GapsApart ==
  ASSUME NEW ids, NEW w, NEW a \in Int, NEW b \in Int, DaysOf(Period(ids, w)) = a .. b,
         NEW g \in Gaps(ids, w), NEW h \in Gaps(ids, w), g.to = h.from
  PROVE  g.status # h.status
<1> DEFINE days == a .. b
<1>1. Gaps(ids, w) = {GapOf(ids, days, d) : d \in Starts(ids, days)}
  BY GapsAre
<1>2. days \in SUBSET Int
  OBVIOUS
<1>3. PICK s \in Starts(ids, days), t \in Starts(ids, days) : g = GapOf(ids, days, s) /\ h = GapOf(ids, days, t)
  <2> HIDE DEF days
  <2>1. QED
    BY <1>1
<1>4. s \in days /\ t \in days /\ Evidence(ids, s) # "live"
      /\ ~(t - 1 \in days /\ SameGap(ids, t - 1, t))
  <2> HIDE DEF days
  <2>1. QED
    BY DEF Starts
<1> DEFINE m == Max(RunOf(ids, days, s))
<1>5. m \in RunOf(ids, days, s)
  BY <1>4, RunFinite
<1> HIDE DEF m
<1>6. m \in days
  BY <1>5 DEF RunOf
<1>7. g.to = m + 1 /\ h.from = t /\ g.status = Evidence(ids, s) /\ h.status = Evidence(ids, t)
  BY <1>3, GapFields DEF m
<1>8. Evidence(ids, m) = Evidence(ids, s)
  <2> HIDE DEF days
  <2>1. QED
    BY <1>2, <1>4, <1>5, RunAlike
<1>9. t - 1 = m
  <2>1. m + 1 = t
    BY <1>7
  <2>2. m \in Int
    BY <1>2, <1>6
  <2>3. QED
    BY <2>1, <2>2
<1>10. ~SameGap(ids, m, t)
  BY <1>4, <1>6, <1>9
<1>11. QED
  BY <1>4, <1>7, <1>8, <1>10 DEF SameGap

LEMMA EvidenceHolds == ASSUME StoreInv, DayTable PROVE EvidenceAgrees
<1> SUFFICES ASSUME NEW c \in Controllers, NEW w \in Windows, ~RefusedPeriod(Period(DevicesOf(c), w))
             PROVE  LET ids == DevicesOf(c)
                        coverage == Coverage(ids, w)
                    IN /\ coverage.live + coverage.recovered + coverage.missing = coverage.days
                       /\ MapThenSumSet(LAMBDA g : g.days, GapsOf(ids, w, {"recovered"})) = coverage.recovered
                       /\ MapThenSumSet(LAMBDA g : g.days, GapsOf(ids, w, {"missing", "partial"})) = coverage.missing
                       /\ \A g, h \in Gaps(ids, w) : g.to = h.from => g.status # h.status
                       /\ w = Always => /\ coverage.completed = DailySummary(ids).complete
                                        /\ Cardinality(DailyHistory(ids, w, MaxDays))
                                             = Min({DailySummary(ids).records, MaxDays})
                                        /\ \A d \in ids : Cardinality(DeviceDaily(d, w, MaxDays))
                                                          = Min({DeviceDailySummary(d).records, MaxDays})
  BY Zenon DEF EvidenceAgrees, GapsOf
<1> DEFINE ids == DevicesOf(c)
           days == DaysOf(Period(ids, w))
           share(kinds) == Cardinality(DaysWith(ids, days, kinds))
           coverage == Coverage(ids, w)
<1>1. PICK a \in Int, b \in Int : days = a .. b
  BY DaysAre
<1>2. IsFiniteSet(days)
  BY <1>1, FS_Interval
<1>3. /\ coverage.days = Cardinality(days) /\ coverage.live = share({"live"})
      /\ coverage.recovered = share({"recovered"})
      /\ coverage.missing = Cardinality(days) - share({"live", "recovered"})
      /\ coverage.completed = Cardinality({d \in days : Completed(ids, d)})
  BY CoverageFields
<1>4. /\ share({"live", "recovered"}) = share({"live"}) + share({"recovered"})
      /\ share({"live"}) \in Nat /\ share({"recovered"}) \in Nat
  <2> HIDE DEF ids, days
  <2> DEFINE K == {"live"}
             L == {"recovered"}
             M == {"live", "recovered"}
  <2>1. /\ \A x \in K : x \in M /\ x \notin L
        /\ \A x \in L : x \in M
        /\ \A x \in M : x \in K \/ x \in L
    OBVIOUS
  <2> HIDE DEF K, L, M
  <2>2. /\ Cardinality(DaysWith(ids, days, M))
             = Cardinality(DaysWith(ids, days, K)) + Cardinality(DaysWith(ids, days, L))
        /\ Cardinality(DaysWith(ids, days, K)) \in Nat
        /\ Cardinality(DaysWith(ids, days, L)) \in Nat
    BY <1>2, <2>1, DaysSplit
  <2>3. QED
    BY <2>2 DEF K, L, M
<1>5. DaysWith(ids, days, {"live", "missing", "recovered", "partial"}) = days
  <2> HIDE DEF ids, days
  <2>1. QED
    BY EvidenceKinds DEF DaysWith
<1>6. /\ Cardinality(days) = share({"live", "recovered"}) + share({"missing", "partial"})
      /\ share({"live", "recovered"}) \in Nat /\ share({"missing", "partial"}) \in Nat
  <2> HIDE DEF ids, days
  <2> DEFINE K == {"live", "recovered"}
             L == {"missing", "partial"}
             M == {"live", "missing", "recovered", "partial"}
  <2>1. /\ \A x \in K : x \in M /\ x \notin L
        /\ \A x \in L : x \in M
        /\ \A x \in M : x \in K \/ x \in L
    OBVIOUS
  <2> HIDE DEF K, L, M
  <2>2. /\ Cardinality(DaysWith(ids, days, M))
             = Cardinality(DaysWith(ids, days, K)) + Cardinality(DaysWith(ids, days, L))
        /\ Cardinality(DaysWith(ids, days, K)) \in Nat
        /\ Cardinality(DaysWith(ids, days, L)) \in Nat
    BY <1>2, <2>1, DaysSplit
  <2>3. Cardinality(days) = Cardinality(DaysWith(ids, days, M))
    BY <1>5 DEF M
  <2>4. QED
    BY <2>2, <2>3 DEF K, L, M
<1>7. MapThenSumSet(LAMBDA g : g.days, GapsOf(ids, w, {"recovered"})) = share({"recovered"})
  <2> HIDE DEF ids
  <2>1. QED
    BY <1>1, GapDays
<1>8. MapThenSumSet(LAMBDA g : g.days, GapsOf(ids, w, {"missing", "partial"})) = share({"missing", "partial"})
  <2> HIDE DEF ids
  <2>1. QED
    BY <1>1, GapDays
<1>9. \A g, h \in Gaps(ids, w) : g.to = h.from => g.status # h.status
  <2> HIDE DEF ids
  <2>1. QED
    BY <1>1, GapsApart
<1>10. ASSUME w = Always
       PROVE  /\ coverage.completed = DailySummary(ids).complete
              /\ Cardinality(DailyHistory(ids, w, MaxDays)) = Min({DailySummary(ids).records, MaxDays})
              /\ \A d \in ids : Cardinality(DeviceDaily(d, w, MaxDays))
                                = Min({DeviceDailySummary(d).records, MaxDays})
  <2> HIDE DEF ids
  <2>1. DailySummary(ids).complete = Cardinality({r \in DailyRows(ids) : r.complete})
    BY DEF DailySummary
  <2>2. coverage.completed = DailySummary(ids).complete
    BY <1>3, <1>10, <2>1, CompletedDays
  <2>3. \A d \in ids : Cardinality(DeviceDaily(d, w, MaxDays)) = Min({DeviceDailySummary(d).records, MaxDays})
    BY <1>10, DailyCounted DEF DeviceDailySummary, DeviceDaily
  <2>4. QED
    BY <1>10, <2>2, <2>3, DailyCounted
<1> HIDE DEF ids, days, share, coverage
<1>11. coverage.live + coverage.recovered + coverage.missing = coverage.days
       /\ coverage.missing = share({"missing", "partial"})
  BY <1>3, <1>4, <1>6
<1>12. QED
  BY <1>3, <1>7, <1>8, <1>9, <1>10, <1>11 DEF ids, coverage

-----------------------------------------------------------------------------
(* The energy of a day                                                       *)

\* A sum over a set is that over a part of it and over the rest.
LEMMA TotalSplit ==
  ASSUME NEW f, NEW S, IsFiniteSet(S), \A x \in S : f[x] \in Int, NEW T \in SUBSET S
  PROVE  Total(f, S) = Total(f, T) + Total(f, S \ T)
<1> DEFINE P == {U \in SUBSET S : Total(f, S) = Total(f, U) + Total(f, S \ U)}
<1>1. {} \in P
  <2>1. S \ {} = S
    OBVIOUS
  <2>2. Total(f, S) \in Int
    BY TotalType
  <2>3. Total(f, {}) = 0
    BY TotalEmpty
  <2>4. QED
    BY <2>1, <2>2, <2>3
<1>2. ASSUME NEW U \in SUBSET T, NEW x \in T \ U, U \in P PROVE U \cup {x} \in P
  <2> DEFINE rest == S \ U
  <2>1. U \in SUBSET S /\ x \in rest /\ x \notin U /\ x \in S /\ rest \subseteq S
    OBVIOUS
  <2>2. IsFiniteSet(U) /\ IsFiniteSet(rest)
    BY <2>1, FS_Subset
  <2> DEFINE left == S \ (U \cup {x})
  <2>3. rest \ {x} = left
    OBVIOUS
  <2>4. Total(f, S) = Total(f, U) + Total(f, rest)
    BY <1>2
  <2> HIDE DEF rest, left, P
  <2>5. Total(f, rest) = f[x] + Total(f, rest \ {x})
    <3>1. \A y \in rest : f[y] \in Int
      BY <2>1
    <3>2. QED
      BY <2>1, <2>2, <3>1, TotalRemove
  <2>6. Total(f, U \cup {x}) = f[x] + Total(f, U)
    <3>1. \A y \in U \cup {x} : f[y] \in Int
      BY <2>1
    <3>2. QED
      BY <2>1, <2>2, <3>1, TotalAdd
  <2>7. Total(f, U) \in Int /\ Total(f, rest \ {x}) \in Int /\ f[x] \in Int
    <3>1. IsFiniteSet(rest \ {x})
      BY <2>2, FS_RemoveElement
    <3>2. \A y \in rest \ {x} : f[y] \in Int
      BY <2>1
    <3>3. \A y \in U : f[y] \in Int
      BY <2>1
    <3>4. QED
      BY <2>1, <2>2, <3>1, <3>2, <3>3, TotalType
  <2> DEFINE more == U \cup {x}
  <2>8. Total(f, more) = f[x] + Total(f, U)
    BY <2>6
  <2>9. more \in SUBSET S
    BY <2>1
  <2> HIDE DEF more
  <2>10. Total(f, S) = Total(f, more) + Total(f, left)
    <3>1. Total(f, rest \ {x}) = Total(f, left)
      BY <2>3, Zenon
    <3>2. Total(f, rest) = f[x] + Total(f, left) /\ Total(f, left) \in Int
      BY <2>5, <2>7, <3>1, Zenon
    <3>3. Total(f, U) \in Int /\ f[x] \in Int
      BY <2>7
    <3>4. QED
      BY <2>4, <2>8, <3>2, <3>3
  <2>11. QED
    BY <2>9, <2>10 DEF P, left, more
<1>3. IsFiniteSet(T)
  BY FS_Subset
<1>4. \A U \in SUBSET T : \A x \in T \ U : U \in P => U \cup {x} \in P
  BY <1>2
<1> HIDE DEF P
<1>5. T \in P
  BY <1>1, <1>3, <1>4, SetInduction
<1>6. QED
  BY <1>5 DEF P

\* A sum is at most the highest term as often as there are terms.
LEMMA TotalAtMost ==
  ASSUME NEW f, NEW S, IsFiniteSet(S), NEW high \in Int, \A x \in S : f[x] \in Int /\ f[x] <= high
  PROVE  Total(f, S) <= high * Cardinality(S) /\ Total(f, S) \in Int /\ Cardinality(S) \in Nat
<1> DEFINE D == {f[x] : x \in S}
<1>1. PICK low \in Int : \A x \in S : low <= f[x]
  <2>1. CASE S = {}
    BY <2>1
  <2>2. CASE S # {}
    <3>1. D \in SUBSET Int /\ D # {}
      BY <2>2
    <3>2. \A x \in S : f[x] \in D
      OBVIOUS
    <3>3. IsFiniteSet(D)
      BY ImageFinite
    <3> HIDE DEF D
    <3>4. PICK m \in D : \A y \in D : m <= y
      BY <3>1, <3>3, LeastAndGreatest
    <3>5. QED
      BY <3>1, <3>2, <3>4
  <2>3. QED
    BY <2>1, <2>2
<1>2. \A x \in S : f[x] \in Int /\ low <= f[x] /\ f[x] <= high
  BY <1>1
<1>3. QED
  BY <1>2, TotalBounds

\* The times between neighbours add up to the time between first and last.
LEMMA Telescope ==
  ASSUME NEW N \in Nat \ {0}, NEW at, \A i \in 1 .. N : at[i] \in Int,
         NEW f, \A i \in 1 .. N - 1 : f[i] = at[i + 1] - at[i]
  PROVE  Total(f, 1 .. N - 1) = at[N] - at[1]
<1> DEFINE bad == {n \in 0 .. N - 1 : Total(f, 1 .. n) # at[n + 1] - at[1]}
<1>1. bad = {}
  <2> SUFFICES ASSUME bad # {} PROVE FALSE
    OBVIOUS
  <2>1. bad \in SUBSET Nat
    OBVIOUS
  <2>2. PICK n \in bad : \A m \in bad : n <= m
    <3> HIDE DEF bad
    <3>1. QED
      BY <2>1, LeastNat
  <2>3. n \in 0 .. N - 1 /\ Total(f, 1 .. n) # at[n + 1] - at[1]
    OBVIOUS
  <2>4. n # 0
    <3> SUFFICES ASSUME n = 0 PROVE FALSE
      OBVIOUS
    <3>1. 1 .. 0 = {}
      OBVIOUS
    <3>2. Total(f, 1 .. 0) = 0
      BY <3>1, TotalEmpty
    <3>3. at[1] \in Int
      OBVIOUS
    <3>4. QED
      BY <2>3, <3>2, <3>3
  <2>5. n - 1 \in 0 .. N - 1 /\ ~(n <= n - 1) /\ n \in 1 .. N - 1
    BY <2>3, <2>4
  <2>6. n - 1 \notin bad
    <3> HIDE DEF bad
    <3>1. QED
      BY <2>2, <2>5
  <2>7. Total(f, 1 .. n - 1) = at[n] - at[1]
    <3>1. (n - 1) + 1 = n
      BY <2>5
    <3>2. QED
      BY <2>5, <2>6, <3>1
  <2>8. 1 .. n = (1 .. n - 1) \cup {n} /\ n \notin 1 .. n - 1
    BY <2>5
  <2>9. Total(f, (1 .. n - 1) \cup {n}) = f[n] + Total(f, 1 .. n - 1)
    <3>1. IsFiniteSet(1 .. n - 1)
      BY <2>5, FS_Interval
    <3>2. \A y \in (1 .. n - 1) \cup {n} : f[y] \in Int
      <4>1. ASSUME NEW y \in 1 .. N - 1 PROVE f[y] \in Int
        <5>1. y \in 1 .. N /\ y + 1 \in 1 .. N
          OBVIOUS
        <5>2. at[y] \in Int /\ at[y + 1] \in Int
          BY <5>1
        <5>3. f[y] = at[y + 1] - at[y]
          OBVIOUS
        <5>4. QED
          BY <5>2, <5>3
      <4>2. (1 .. n - 1) \cup {n} \subseteq 1 .. N - 1
        BY <2>5
      <4>3. QED
        BY <4>1, <4>2
    <3> DEFINE V == 1 .. n - 1
    <3>3. IsFiniteSet(V) /\ n \notin V /\ \A y \in V \cup {n} : f[y] \in Int
      BY <2>8, <3>1, <3>2
    <3> HIDE DEF V
    <3>4. Total(f, V \cup {n}) = f[n] + Total(f, V)
      BY <3>3, TotalAdd
    <3>5. QED
      BY <3>4 DEF V
  <2>10. f[n] = at[n + 1] - at[n]
    BY <2>5
  <2>11. at[n] \in Int /\ at[n + 1] \in Int /\ at[1] \in Int
    BY <2>5
  <2> DEFINE before == Total(f, 1 .. n - 1)
             upTo == Total(f, 1 .. n)
  <2>12. upTo = f[n] + before
    BY <2>8, <2>9
  <2>13. before = at[n] - at[1] /\ upTo # at[n + 1] - at[1]
    BY <2>3, <2>7
  <2> HIDE DEF before, upTo
  <2>14. QED
    BY <2>10, <2>11, <2>12, <2>13, SMTT(30)
<1>2. N - 1 \in 0 .. N - 1 /\ (N - 1) + 1 = N
  OBVIOUS
<1>3. QED
  BY <1>1, <1>2

\* What is scaled by a natural number keeps its order.
LEMMA TimesMonotone ==
  ASSUME NEW a \in Int, NEW b \in Int, a <= b, NEW n \in Nat
  PROVE  a * n <= b * n /\ a * n \in Int /\ b * n \in Int
OBVIOUS

\* Twice a trapezoid is at most the longest time at the highest value.
LEMMA AreaBound ==
  ASSUME NEW x \in Int, NEW y \in Int, NEW top \in Nat, x <= top, y <= top,
         NEW span \in Nat, NEW gap \in Nat, span <= gap
  PROVE  (x + y) * span \in Int /\ (x + y) * span <= 2 * top * gap
<1>1. x + y \in Int /\ 2 * top \in Nat /\ x + y <= 2 * top
  OBVIOUS
<1> DEFINE a == x + y
           b == 2 * top
<1> HIDE DEF a, b
<1>2. a \in Int /\ b \in Nat /\ a <= b
  BY <1>1 DEF a, b
<1>3. a * span <= b * span /\ a * span \in Int /\ b * span \in Int
  BY <1>2, TimesMonotone
<1>4. span * b <= gap * b /\ span * b \in Int /\ gap * b \in Int
  BY <1>2, TimesMonotone
<1>5. b * span = span * b /\ b * gap = gap * b
  BY <1>2
<1>6. a * span \in Int /\ a * span <= b * gap
  BY <1>3, <1>4, <1>5
<1>7. QED
  BY <1>6 DEF a, b

PowerOf(ids, day) ==
  {x \in RowsOf(ids, {"output_power"}, Always) : IsNumber(x.value) /\ UtcDay(x.at) = day}
Pairs(seq) == {i \in 1 .. Len(seq) - 1 : Joined(seq[i], seq[i + 1])}
Waits(seq, D) == [i \in D |-> seq[i + 1].at - seq[i].at]
Areas(seq, D) == [i \in D |-> (seq[i].value + seq[i + 1].value) * (seq[i + 1].at - seq[i].at)]

LEMMA WaitSum ==
  ASSUME NEW seq, NEW D
  PROVE  MapThenSumSet(LAMBDA i : seq[i + 1].at - seq[i].at, D) = Total(Waits(seq, D), D)
BY ZenonT(40) DEF Waits, Total, Sums, SumStep, One, MapThenSumSet, MapThenFoldSet

LEMMA AreaSum ==
  ASSUME NEW seq, NEW D
  PROVE  MapThenSumSet(LAMBDA i : (seq[i].value + seq[i + 1].value) * (seq[i + 1].at - seq[i].at), D)
           = Total(Areas(seq, D), D)
BY ZenonT(40) DEF Areas, Total, Sums, SumStep, One, MapThenSumSet, MapThenFoldSet

LEMMA EnergyFields ==
  ASSUME NEW ids, NEW day
  PROVE  LET seq == Sorted(PowerOf(ids, day), Earlier, "asc")
             e == DailyEnergy(ids, day)
         IN /\ e.day = day /\ e.readings = PowerOf(ids, day)
            /\ e.integrated = IF Len(seq) < 2 THEN None
                 ELSE MapThenSumSet(LAMBDA i : (seq[i].value + seq[i + 1].value) * (seq[i + 1].at - seq[i].at),
                                    Pairs(seq))
            /\ e.joined = MapThenSumSet(LAMBDA i : seq[i + 1].at - seq[i].at, Pairs(seq))
            /\ e.skipped = MapThenSumSet(LAMBDA i : seq[i + 1].at - seq[i].at, (1 .. Len(seq) - 1) \ Pairs(seq))
BY Zenon DEF DailyEnergy, PowerOf, Pairs

\* The readings of a day in the order they were made.
InTurn(ids, day) == ByPlace(PowerOf(ids, day), EarlierIn(PowerOf(ids, day)))

\* The readings of a day in the order they are integrated in.
LEMMA ReadingsInTurn ==
  ASSUME StoreInv, NEW ids, NEW day
  PROVE  LET R == PowerOf(ids, day)
             N == Cardinality(R)
             seq == InTurn(ids, day)
         IN /\ IsFiniteSet(R) /\ N \in Nat /\ Len(seq) = N
            /\ Sorted(R, Earlier, "asc") = seq
            /\ \A x \in R : x.value \in Int /\ x.at \in Nat
            /\ \A i \in 1 .. N : seq[i] \in R
            /\ \A i \in 1 .. N - 1 : seq[i].at <= seq[i + 1].at
            /\ N > 0 => Oldest(R) = seq[1] /\ Newest(R) = seq[N]
<1> DEFINE R == PowerOf(ids, day)
           N == Cardinality(R)
           seq == InTurn(ids, day)
           order == EarlierIn(R)
<1>1. ASSUME NEW x \in R
      PROVE  IsRow(x) /\ x.reg = "output_power" /\ x.value \in Int /\ x.at \in Nat
  <2>1. x \in RowsOf(ids, {"output_power"}, Always) /\ IsNumber(x.value)
    BY DEF PowerOf
  <2>2. IsRow(x) /\ x.reg = "output_power"
    BY <2>1, RowsAreRows
  <2>3. x.value \in Int
    BY <2>1, <2>2 DEF IsNumber, IsRow
  <2>4. QED
    BY <2>2, <2>3 DEF IsRow
<1>2. IsFiniteSet(R)
  <2>1. IsFiniteSet(RowsOf(ids, {"output_power"}, Always))
    BY RowsFinite
  <2>2. R \subseteq RowsOf(ids, {"output_power"}, Always)
    BY DEF PowerOf
  <2> HIDE DEF R
  <2>3. QED
    BY <2>1, <2>2, FS_Subset
<1> HIDE DEF R
<1>3. Course(R)
  <2>1. \A x \in R : IsRow(x)
    BY <1>1
  <2>2. \A x, y \in R : x.reg = y.reg
    BY <1>1
  <2>3. QED
    BY <2>1, <2>2, RowsAreCourse
<1>4. IsOrder(R, order) /\ \A x \in R : Preceding(R, order, x) = {y \in R : y.at < x.at}
  BY <1>3, CourseIsOrder
<1> HIDE DEF order
<1>5. seq = ByPlace(R, order)
  BY DEF InTurn, R, order
<1>6. Sorted(R, Earlier, "asc") = seq
  BY <1>5, RowsInOrder DEF order
<1> HIDE DEF seq
<1>7. /\ N \in Nat /\ Len(seq) = N
      /\ \A i \in 1 .. N : seq[i] \in R /\ PlaceIn(R, order)[seq[i]] = i
      /\ \A x \in R : PlaceIn(R, order)[x] \in 1 .. N /\ seq[PlaceIn(R, order)[x]] = x
  BY <1>2, <1>4, <1>5, ByPlaceIs
<1>8. \A x, y \in R : <<x, y>> \in order <=> PlaceIn(R, order)[x] < PlaceIn(R, order)[y]
  BY <1>2, <1>4, PlacesAre
<1>9. ASSUME NEW i \in 1 .. N, NEW j \in 1 .. N, i < j PROVE seq[i].at < seq[j].at
  <2>1. seq[i] \in R /\ seq[j] \in R /\ <<seq[i], seq[j]>> \in order
    BY <1>7, <1>8, <1>9
  <2>2. seq[i] \in Preceding(R, order, seq[j])
    BY <2>1 DEF Preceding
  <2>3. QED
    BY <1>4, <2>1, <2>2
<1>10. ASSUME NEW i \in 1 .. N - 1 PROVE seq[i].at <= seq[i + 1].at
  <2>1. i \in 1 .. N /\ i + 1 \in 1 .. N /\ i < i + 1
    BY <1>7
  <2>2. seq[i].at < seq[i + 1].at
    BY <1>9, <2>1
  <2>3. seq[i].at \in Nat /\ seq[i + 1].at \in Nat
    BY <1>1, <1>7, <2>1
  <2>4. QED
    BY <2>2, <2>3
<1>11. ASSUME N > 0 PROVE Oldest(R) = seq[1] /\ Newest(R) = seq[N]
  <2>1. 1 \in 1 .. N /\ N \in 1 .. N
    BY <1>7, <1>11
  <2>2. ASSUME NEW y \in R PROVE seq[1].at <= y.at /\ y.at <= seq[N].at
    <3> DEFINE i == PlaceIn(R, order)[y]
    <3>1. i \in 1 .. N /\ seq[i] = y
      BY <1>7
    <3> HIDE DEF i
    <3>2. i = 1 \/ seq[1].at < seq[i].at
      BY <1>9, <2>1, <3>1
    <3>3. i = N \/ seq[i].at < seq[N].at
      BY <1>7, <1>9, <2>1, <3>1
    <3>4. seq[1].at \in Nat /\ seq[i].at \in Nat /\ seq[N].at \in Nat
      BY <1>1, <1>7, <2>1, <3>1
    <3>5. seq[1].at <= seq[i].at /\ seq[i].at <= seq[N].at
      BY <3>2, <3>3, <3>4
    <3>6. QED
      BY <3>1, <3>5
  <2>3. seq[1] \in R /\ seq[N] \in R
    BY <1>7, <2>1
  <2>4. clock \in Nat
    BY DEF StoreInv, PastInv
  <2>5. QED
    BY <1>3, <2>2, <2>3, <2>4, OldestIs, NewestIs
<1>12. QED
  BY <1>1, <1>2, <1>6, <1>7, <1>10, <1>11 DEF R, seq

\* The bound for one day: the times between neighbours telescope, and each
\* joined pair adds at most the longest time at the highest value.
LEMMA EnergyOfDay ==
  ASSUME StoreInv, NEW ids, NEW day, DailyEnergy(ids, day).integrated # None
  PROVE  LET e == DailyEnergy(ids, day)
             top == Max({0} \cup {x.value : x \in e.readings})
         IN /\ e.readings # {}
            /\ e.integrated <= 2 * top * MaxGap * (Cardinality(e.readings) - 1)
            /\ e.joined + e.skipped = Newest(e.readings).at - Oldest(e.readings).at
<1> DEFINE e == DailyEnergy(ids, day)
           R == PowerOf(ids, day)
           N == Cardinality(R)
           seq == InTurn(ids, day)
           values == {0} \cup {x.value : x \in R}
           top == Max(values)
           all == 1 .. N - 1
           pairs == Pairs(seq)
           rest == all \ pairs
           waits == Waits(seq, all)
           areas == Areas(seq, all)
<1>1. /\ IsFiniteSet(R) /\ N \in Nat /\ Len(seq) = N
      /\ Sorted(R, Earlier, "asc") = seq
      /\ \A x \in R : x.value \in Int /\ x.at \in Nat
      /\ \A i \in 1 .. N : seq[i] \in R
      /\ \A i \in 1 .. N - 1 : seq[i].at <= seq[i + 1].at
      /\ N > 0 => Oldest(R) = seq[1] /\ Newest(R) = seq[N]
  BY ReadingsInTurn
<1>2. /\ e.readings = R
      /\ e.integrated = IF Len(seq) < 2 THEN None ELSE Total(Areas(seq, pairs), pairs)
      /\ e.joined = Total(Waits(seq, pairs), pairs)
      /\ e.skipped = Total(Waits(seq, (1 .. Len(seq) - 1) \ pairs), (1 .. Len(seq) - 1) \ pairs)
  <2> DEFINE sorted == Sorted(R, Earlier, "asc")
  <2>1. /\ e.readings = R
        /\ e.integrated = IF Len(sorted) < 2 THEN None
             ELSE MapThenSumSet(LAMBDA i : (sorted[i].value + sorted[i + 1].value)
                                             * (sorted[i + 1].at - sorted[i].at), Pairs(sorted))
        /\ e.joined = MapThenSumSet(LAMBDA i : sorted[i + 1].at - sorted[i].at, Pairs(sorted))
        /\ e.skipped = MapThenSumSet(LAMBDA i : sorted[i + 1].at - sorted[i].at,
                                     (1 .. Len(sorted) - 1) \ Pairs(sorted))
    BY EnergyFields, Zenon
  <2>2. sorted = seq
    BY <1>1
  <2> HIDE DEF sorted, e, R, seq
  <2>3. /\ e.readings = R
        /\ e.integrated = IF Len(sorted) < 2 THEN None ELSE Total(Areas(sorted, Pairs(sorted)), Pairs(sorted))
        /\ e.joined = Total(Waits(sorted, Pairs(sorted)), Pairs(sorted))
        /\ e.skipped = Total(Waits(sorted, (1 .. Len(sorted) - 1) \ Pairs(sorted)),
                             (1 .. Len(sorted) - 1) \ Pairs(sorted))
    BY <2>1, WaitSum, AreaSum, Zenon
  <2>4. QED
    BY <2>2, <2>3, Zenon
<1> HIDE DEF e, R, seq
<1>3. N >= 2
  <2>1. ~(Len(seq) < 2)
    BY <1>2 DEF e
  <2>2. QED
    BY <1>1, <2>1
<1>4. /\ pairs \subseteq all /\ rest \subseteq all /\ IsFiniteSet(all)
      /\ IsFiniteSet(pairs) /\ IsFiniteSet(rest) /\ (1 .. Len(seq) - 1) \ pairs = rest
  <2>1. pairs \subseteq all /\ (1 .. Len(seq) - 1) \ pairs = rest
    BY <1>1 DEF Pairs
  <2>2. IsFiniteSet(all)
    BY <1>1, FS_Interval
  <2> HIDE DEF all, pairs
  <2>3. rest \subseteq all
    OBVIOUS
  <2>4. QED
    BY <2>1, <2>2, <2>3, FS_Subset
<1>5. ASSUME NEW i \in all
      PROVE  /\ seq[i] \in R /\ seq[i + 1] \in R
             /\ waits[i] = seq[i + 1].at - seq[i].at /\ waits[i] \in Nat
             /\ areas[i] = (seq[i].value + seq[i + 1].value) * waits[i]
  <2>1. i \in 1 .. N /\ i + 1 \in 1 .. N
    BY <1>1
  <2>2. seq[i] \in R /\ seq[i + 1] \in R
    BY <1>1, <2>1
  <2>3. seq[i].at \in Nat /\ seq[i + 1].at \in Nat /\ seq[i].at <= seq[i + 1].at
    BY <1>1, <2>2
  <2>4. waits[i] = seq[i + 1].at - seq[i].at
    BY DEF Waits
  <2>5. areas[i] = (seq[i].value + seq[i + 1].value) * (seq[i + 1].at - seq[i].at)
    BY DEF Areas
  <2> HIDE DEF waits, areas
  <2>6. waits[i] \in Nat
    BY <2>3, <2>4
  <2>7. QED
    BY <2>2, <2>4, <2>5, <2>6
<1>6. values \in SUBSET Int /\ IsFiniteSet(values) /\ values # {} /\ 0 \in values
      /\ \A x \in R : x.value \in values
  <2> DEFINE k == [x \in R |-> x.value]
             told == {x.value : x \in R}
  <2>1. told = {k[x] : x \in R}
    OBVIOUS
  <2>2. told \in SUBSET Int /\ \A x \in R : x.value \in told
    BY <1>1
  <2> HIDE DEF k, told
  <2>3. IsFiniteSet(told)
    BY <1>1, <2>1, ImageFinite
  <2>4. IsFiniteSet({0})
    BY FS_Singleton
  <2>5. IsFiniteSet({0} \cup told)
    BY <2>3, <2>4, FS_Union
  <2>6. {0} \cup told \in SUBSET Int /\ 0 \in {0} \cup told /\ \A x \in R : x.value \in {0} \cup told
    BY <2>2
  <2>7. QED
    BY <2>5, <2>6 DEF told
<1> HIDE DEF values
<1>7. top \in Nat /\ \A x \in R : x.value <= top
  <2>1. Max(values) \in values /\ \A v \in values : v <= Max(values)
    BY <1>6, MaxIs
  <2>2. top \in values /\ top \in Int /\ 0 <= top
    BY <1>6, <2>1
  <2>3. \A x \in R : x.value <= top
    BY <1>6, <2>1
  <2> HIDE DEF top
  <2>4. QED
    BY <2>2, <2>3
<1> HIDE DEF top
<1> DEFINE high == 2 * top * MaxGap
<1>8. MaxGap \in Nat /\ high \in Nat
  <2>1. MaxGap \in Nat
    BY EnergyAssumption
  <2>2. QED
    BY <1>7, <2>1
<1>9. ASSUME NEW i \in pairs PROVE areas[i] \in Int /\ areas[i] <= high
  <2>1. i \in all /\ seq[i + 1].at - seq[i].at <= MaxGap
    BY <1>4 DEF Pairs, Joined
  <2>2. seq[i] \in R /\ seq[i + 1] \in R /\ waits[i] \in Nat /\ waits[i] <= MaxGap
        /\ areas[i] = (seq[i].value + seq[i + 1].value) * waits[i]
    <3> HIDE DEF all, pairs, waits, areas
    <3>1. QED
      BY <1>5, <2>1
  <2>3. /\ seq[i].value \in Int /\ seq[i + 1].value \in Int
        /\ seq[i].value <= top /\ seq[i + 1].value <= top
    BY <1>1, <1>7, <2>2
  <2> HIDE DEF waits, areas
  <2>4. QED
    BY <1>7, <1>8, <2>2, <2>3, AreaBound
<1>10. e.integrated = Total(areas, pairs)
  <2>1. e.integrated = Total(Areas(seq, pairs), pairs)
    BY <1>1, <1>2, <1>3
  <2>2. \A i \in pairs : Areas(seq, pairs)[i] = areas[i]
    BY <1>4 DEF Areas
  <2> DEFINE own == Areas(seq, pairs)
  <2> HIDE DEF own, areas, pairs
  <2>3. Total(own, pairs) = Total(areas, pairs)
    BY <1>4, <2>2, TotalAlike DEF own
  <2>4. QED
    BY <2>1, <2>3 DEF own
<1>11. e.joined = Total(waits, pairs) /\ e.skipped = Total(waits, rest)
  <2>1. e.joined = Total(Waits(seq, pairs), pairs) /\ e.skipped = Total(Waits(seq, rest), rest)
    BY <1>2, <1>4
  <2> DEFINE own == Waits(seq, pairs)
             others == Waits(seq, rest)
  <2>2. /\ \A i \in pairs : own[i] = waits[i]
        /\ \A i \in rest : others[i] = waits[i]
    BY <1>4 DEF Waits
  <2> HIDE DEF own, others, waits, pairs, rest
  <2>3. Total(own, pairs) = Total(waits, pairs)
    BY <1>4, <2>2, TotalAlike
  <2>4. Total(others, rest) = Total(waits, rest)
    BY <1>4, <2>2, TotalAlike
  <2>5. QED
    BY <2>1, <2>3, <2>4 DEF own, others
<1>12. e.integrated <= high * (N - 1)
  <2>1. /\ Total(areas, pairs) <= high * Cardinality(pairs) /\ Cardinality(pairs) \in Nat
        /\ Total(areas, pairs) \in Int
    <3>1. \A i \in pairs : areas[i] \in Int /\ areas[i] <= high
      BY <1>9
    <3>2. high \in Int
      BY <1>8
    <3> HIDE DEF areas, pairs, high
    <3>3. QED
      BY <1>4, <3>1, <3>2, TotalAtMost
  <2>2. Cardinality(pairs) <= N - 1
    <3>1. Cardinality(all) = N - 1
      BY <1>1, <1>3, FS_Interval
    <3> HIDE DEF all, pairs
    <3>2. QED
      BY <1>4, <3>1, FS_Subset
  <2> DEFINE n == Cardinality(pairs)
             m == N - 1
  <2>3. n \in Nat /\ m \in Nat /\ n <= m
    BY <1>1, <1>3, <2>1, <2>2
  <2> HIDE DEF n, m, high
  <2>5. n * high <= m * high /\ n * high = high * n /\ m * high = high * m
        /\ n * high \in Int /\ m * high \in Int
    BY <1>8, <2>3, TimesMonotone
  <2>6. Total(areas, pairs) <= high * m
    <3> HIDE DEF areas, pairs
    <3>1. Total(areas, pairs) <= high * n
      BY <2>1 DEF n
    <3>2. QED
      BY <2>1, <2>5, <3>1
  <2>7. QED
    BY <1>10, <2>6 DEF m
<1>13. e.joined + e.skipped = seq[N].at - seq[1].at
  <2> DEFINE at == [i \in 1 .. N |-> seq[i].at]
  <2>1. \A i \in 1 .. N : at[i] = seq[i].at /\ at[i] \in Int
    BY <1>1
  <2>2. \A i \in 1 .. N - 1 : waits[i] = at[i + 1] - at[i]
    <3>1. ASSUME NEW i \in 1 .. N - 1 PROVE waits[i] = at[i + 1] - at[i]
      <4>1. i \in 1 .. N /\ i + 1 \in 1 .. N
        BY <1>1
      <4>2. at[i] = seq[i].at /\ at[i + 1] = seq[i + 1].at
        BY <2>1, <4>1
      <4> HIDE DEF at, waits
      <4>3. QED
        BY <1>5, <4>2
    <3>2. QED
      BY <3>1
  <2>3. N \in Nat \ {0} /\ 1 \in 1 .. N /\ N \in 1 .. N
    BY <1>1, <1>3
  <2> HIDE DEF at, waits, pairs, e
  <2>4. Total(waits, all) = at[N] - at[1]
    BY <2>1, <2>2, <2>3, Telescope
  <2> HIDE DEF all
  <2>5. \A i \in all : waits[i] \in Int
    BY <1>5
  <2>6. Total(waits, all) = Total(waits, pairs) + Total(waits, rest)
    BY <1>4, <2>5, TotalSplit
  <2>7. QED
    BY <1>11, <2>1, <2>3, <2>4, <2>6
<1>14. R # {}
  BY <1>3, FS_EmptySet
<1>15. /\ e.readings # {}
       /\ e.integrated <= 2 * top * MaxGap * (Cardinality(e.readings) - 1)
       /\ e.joined + e.skipped = Newest(e.readings).at - Oldest(e.readings).at
  BY <1>1, <1>2, <1>3, <1>12, <1>13, <1>14
<1>16. top = Max({0} \cup {x.value : x \in e.readings})
  BY <1>2 DEF top, values
<1>17. QED
  BY <1>15, <1>16 DEF e

MeasuredDays(ids, w) == {e \in EnergyDaily(ids, w) : e.integrated # None}

\* A day that is measured is live.
LEMMA MeasuredIsLive ==
  ASSUME StoreInv, NEW ids, NEW day, DailyEnergy(ids, day).integrated # None
  PROVE  Evidence(ids, day) = "live"
<1> DEFINE live == {s \in samples : s.dev \in ids /\ UtcDay(s.at) = day}
<1>1. PowerOf(ids, day) # {}
  <2>1. DailyEnergy(ids, day).readings # {}
    BY EnergyOfDay
  <2>2. QED
    BY <2>1, EnergyFields, ZenonT(40)
<1>2. PICK x \in RowsOf(ids, {"output_power"}, Always) : UtcDay(x.at) = day
  BY <1>1 DEF PowerOf
<1>3. PICK s \in samples : s.dev \in ids /\ x = RowOf(s, x.reg)
  BY <1>2, RowMember
<1>4. s \in live
  BY <1>2, <1>3, RowFields
<1>5. IsFiniteSet(live)
  BY FS_Subset DEF StoreInv, PastInv
<1>6. LiveCount(ids, day) = Cardinality(live)
  BY DEF LiveCount
<1> HIDE DEF live
<1>7. Cardinality(live) \in Nat /\ Cardinality(live) # 0
  BY <1>4, <1>5, FS_EmptySet, FS_CardinalityType
<1>8. LiveCount(ids, day) > 0
  BY <1>6, <1>7
<1>9. QED
  BY <1>8 DEF Evidence

\* The summary measures no day that the coverage does not call live.
LEMMA SummaryBounded ==
  ASSUME StoreInv, DayTable, NEW ids, NEW w \in Windows
  PROVE  EnergySummary(ids, w).integratedDays <= Coverage(ids, w).live
<1> DEFINE days == DaysOf(Period(ids, w))
           M == MeasuredDays(ids, w)
           L == DaysWith(ids, days, {"live"})
           k == [e \in M |-> e.day]
           T == {k[e] : e \in M}
<1>1. EnergySummary(ids, w).integratedDays = Cardinality(M)
  BY Zenon DEF EnergySummary, MeasuredDays
<1>2. Coverage(ids, w).live = Cardinality(L)
  BY CoverageFields
<1>3. IsFiniteSet(days)
  <2>1. PICK a \in Int, b \in Int : days = a .. b
    BY DaysAre
  <2>2. QED
    BY <2>1, FS_Interval
<1>4. ASSUME NEW e \in M
      PROVE  e.day \in days /\ e = DailyEnergy(ids, e.day) /\ e.integrated # None
  <2>1. e \in EnergyDaily(ids, w) /\ e.integrated # None
    BY DEF MeasuredDays
  <2>2. PICK d \in days : e = DailyEnergy(ids, d)
    BY <2>1 DEF EnergyDaily
  <2>3. e.day = d
    BY <2>2, EnergyFields
  <2>4. QED
    BY <2>1, <2>2, <2>3
<1>5. IsFiniteSet(M)
  <2> DEFINE f == [d \in days |-> DailyEnergy(ids, d)]
             all == {f[d] : d \in days}
  <2>1. M \subseteq all
    <3>1. ASSUME NEW e \in M PROVE e \in all
      <4>1. e.day \in days /\ e = DailyEnergy(ids, e.day)
        BY <1>4
      <4>2. f[e.day] = e
        BY <4>1
      <4> HIDE DEF f, M, days
      <4>3. QED
        BY <4>1, <4>2
    <3>2. QED
      BY <3>1
  <2> HIDE DEF f, M, days
  <2>2. IsFiniteSet(all)
    BY <1>3, ImageFinite
  <2> HIDE DEF all
  <2>3. QED
    BY <2>1, <2>2, FS_Subset
<1>6. \A x, y \in M : k[x] = k[y] => x = y
  <2>1. ASSUME NEW x \in M, NEW y \in M, k[x] = k[y] PROVE x = y
    <3>1. x.day = y.day
      BY <2>1
    <3>2. x = DailyEnergy(ids, x.day) /\ y = DailyEnergy(ids, y.day)
      BY <1>4
    <3>3. QED
      BY <3>1, <3>2
  <2>2. QED
    BY <2>1
<1>7. T \subseteq L
  <2>1. ASSUME NEW e \in M PROVE k[e] \in L
    <3>1. /\ e.day \in days /\ e = DailyEnergy(ids, e.day) /\ e.integrated # None
          /\ k[e] = e.day
      BY <1>4
    <3>2. DailyEnergy(ids, e.day).integrated # None
      BY <3>1
    <3>3. Evidence(ids, e.day) = "live"
      BY <3>2, MeasuredIsLive
    <3>4. QED
      BY <3>1, <3>3 DEF DaysWith
  <2>2. QED
    BY <2>1
<1> HIDE DEF M, k, T, L, days
<1>8. IsFiniteSet(T) /\ Cardinality(T) = Cardinality(M)
  BY <1>5, <1>6, OneToOne DEF T
<1>9. IsFiniteSet(L)
  BY <1>3, FS_Subset DEF L, DaysWith
<1>10. Cardinality(T) <= Cardinality(L)
  BY <1>7, <1>9, FS_Subset
<1>11. QED
  BY <1>1, <1>2, <1>8, <1>10 DEF M, L, days

LEMMA EnergyHolds == ASSUME StoreInv, DayTable PROVE EnergyBounded
<1> SUFFICES ASSUME NEW c \in Controllers, NEW w \in Windows
             PROVE  /\ \A e \in EnergyDaily(DevicesOf(c), w) : e.integrated # None =>
                         LET top == Max({0} \cup {x.value : x \in e.readings}) IN
                         /\ e.integrated <= 2 * top * MaxGap * (Cardinality(e.readings) - 1)
                         /\ e.joined + e.skipped = Newest(e.readings).at - Oldest(e.readings).at
                    /\ EnergySummary(DevicesOf(c), w).integratedDays <= Coverage(DevicesOf(c), w).live
  BY Zenon DEF EnergyBounded
<1> DEFINE ids == DevicesOf(c)
<1> HIDE DEF ids
<1>1. ASSUME NEW e \in EnergyDaily(ids, w), e.integrated # None
      PROVE  LET top == Max({0} \cup {x.value : x \in e.readings}) IN
             /\ e.integrated <= 2 * top * MaxGap * (Cardinality(e.readings) - 1)
             /\ e.joined + e.skipped = Newest(e.readings).at - Oldest(e.readings).at
  <2>1. PICK d \in DaysOf(Period(ids, w)) : e = DailyEnergy(ids, d)
    BY DEF EnergyDaily
  <2>2. DailyEnergy(ids, d).integrated # None
    BY <1>1, <2>1
  <2>3. LET told == DailyEnergy(ids, d)
            top == Max({0} \cup {x.value : x \in told.readings})
        IN /\ told.integrated <= 2 * top * MaxGap * (Cardinality(told.readings) - 1)
           /\ told.joined + told.skipped = Newest(told.readings).at - Oldest(told.readings).at
    BY <2>2, EnergyOfDay
  <2>4. QED
    BY <2>1, <2>3, Zenon
<1>2. EnergySummary(ids, w).integratedDays <= Coverage(ids, w).live
  BY SummaryBounded
<1>3. QED
  BY <1>1, <1>2 DEF ids

-----------------------------------------------------------------------------
(* The theorems                                                              *)

\* A device row and the tables beside it tell the same story, in whatever order
\* its writers come (save_poll, save_error, _update_canonical_device,
\* mark_device_offline, mark_all_offline): last_error is the newest error since
\* the last answer, and there is one only if there was; a row in error has one,
\* a row online has none; and no sample is newer than last_seen.
THEOREM StatusCorrect == Spec => []StatusTells
BY InductiveInvariant, PTL DEF IInv

\* A retained day stored as complete was over when its page was rendered, also
\* when midnight fell between the answer and its parsing, and a day said to
\* fill a gap never had nor gets a sample (history/retained).
THEOREM RetainedDaysCorrect == Spec => []RetainedDaysTrue
<1>1. IInv => RetainedDaysTrue
  <2> SUFFICES ASSUME IInv, NEW r \in daily
               PROVE  /\ r.about <= r.day
                      /\ r.complete => r.about < LocalDay(r.retrieved)
                      /\ r.complete => r.day < LocalDay(r.retrieved)
                      /\ r.complete /\ r.live = 0 => LiveOn(r.dev, r.day) = {}
    BY DEF RetainedDaysTrue, CompleteDays, GapsFilled
  <2>1. r.day \in Int /\ r.about \in Int /\ LocalDay(r.retrieved) \in Int
    BY LocalDayMonotone DEF IInv, DailyInv
  <2> QED
    BY <2>1 DEF IInv, DailyInv
<1> QED
  BY <1>1, InductiveInvariant, PTL

\* The response and the export, the series of many registers and that of one,
\* the buckets and the statistics, the controller and its devices tell the same
\* rows of the same window, as long as one page of samples holds them all
\* (persistence/store.py, history/controller_data.py, history/query.py).
THEOREM QueriesTellTheSame == Spec => [](FewSamples => QueriesAgree)
<1>1. StoreInv => (FewSamples => QueriesAgree)
  BY QueriesHold
<1>2. QED
  BY <1>1, StoreInductive, PTL

\* Coverage, gaps and energy of a controller are told of the same days and of
\* the same rows: the gaps add up to what the coverage misses, no two of them
\* should have been one, and no day is credited with more energy than its
\* readings support (history/analytics.py, history/controller_data.py:525-600).
THEOREM AnalyticsTellTheSame == Spec => []AnalyticsAgree
<1>1. StoreInv /\ DayTable => AnalyticsAgree
  BY EvidenceHolds, EnergyHolds DEF AnalyticsAgree
<1>2. QED
  BY <1>1, StoreInductive, TableInductive, PTL
=============================================================================
