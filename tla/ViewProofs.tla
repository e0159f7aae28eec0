------------------------------ MODULE ViewProofs ------------------------------
(***************************************************************************)
(* Proofs about the read side of the telemetry tables, for every set of    *)
(* devices, every reading and any number of rows: what the queries sort    *)
(* and pick, and what the system's views and events tell of it.            *)
(***************************************************************************)
EXTENDS Forecasts, TelemetryProofs

-----------------------------------------------------------------------------
(* Transitions                                                               *)

\* Every device is a connection of a member.
LEMMA EveryDevice == ASSUME NEW d \in Devices PROVE d \in AllDevices
<1>1. OwnerOf[d] \in Members /\ d \in DevicesOf(OwnerOf[d])
  BY DEF Members, DevicesOf
<1>2. QED
  BY <1>1 DEF AllDevices

StateNames == ChargeNames \cup FaultNames \cup AlarmNames
StateRows(w) == RowsOf(AllDevices, StateNames, w)

\* The rows the events are made from, and how a row becomes an event.
Read(w) == {x \in StateRows(w) : Cardinality({y \in StateRows(w) : y.at > x.at}) < TransitionRows(1)}
Before(x, w) == {y \in Read(w) : SameKey(y, x) /\ y.at < x.at}
Old(x, w) == Newest(Before(x, w)).value
IsTransition(x, w) ==
  x \in Read(w) /\ Before(x, w) # {} /\ Old(x, w) # Null /\ Old(x, w) # x.value
EventOf(x, w) ==
  [type |-> TypeOf(x.reg, x.value), uid |-> OwnerOf[x.dev], at |-> x.at, reg |-> x.reg,
   previous |-> Old(x, w), value |-> x.value]

\* All state rows are read.
FewRows == Cardinality(StateRows(Always)) <= TransitionRows(1)

LEMMA TransitionsAre ==
  ASSUME NEW w
  PROVE  /\ \A x : IsTransition(x, w) => EventOf(x, w) \in Transitions(w, 1)
         /\ \A e \in Transitions(w, 1) : \E x : IsTransition(x, w) /\ e = EventOf(x, w)
<1> DEFINE found == Read(w)
           before(x) == {y \in found : SameKey(y, x) /\ y.at < x.at}
           changed(x) == LET old == Newest(before(x)).value IN old # Null /\ old # x.value
<1>1. Transitions(w, 1) =
        {[type |-> TypeOf(x.reg, x.value), uid |-> OwnerOf[x.dev], at |-> x.at, reg |-> x.reg,
          previous |-> Newest(before(x)).value, value |-> x.value] :
            x \in {y \in found : before(y) # {} /\ changed(y)}}
  BY Zenon DEF Transitions, Read, StateRows, StateNames
<1>2. Transitions(w, 1) = {EventOf(x, w) : x \in {y \in Read(w) : IsTransition(y, w)}}
  BY <1>1, Zenon DEF EventOf, IsTransition, Before, Old
<1>3. QED
  BY <1>2, Zenon DEF IsTransition

LEMMA EventFields ==
  ASSUME NEW x, NEW w
  PROVE  /\ EventOf(x, w).type = TypeOf(x.reg, x.value)
         /\ EventOf(x, w).uid = OwnerOf[x.dev] /\ EventOf(x, w).at = x.at
         /\ EventOf(x, w).reg = x.reg
         /\ EventOf(x, w).previous = Old(x, w) /\ EventOf(x, w).value = x.value
BY DEF EventOf

LEMMA ReadRows ==
  ASSUME StoreInv, NEW w, NEW x \in Read(w)
  PROVE  /\ IsRow(x) /\ x.reg \in StateNames /\ x.dev \in AllDevices /\ InWindow(x.at, w)
         /\ x \in StateRows(w)
BY RowsAreRows DEF Read, StateRows

LEMMA TransitionLimit == TransitionRows(1) = 1000
<1> DEFINE S == {10 * 1, 1000}
<1>1. 1000 \in S /\ \A y \in S : 1000 >= y
  OBVIOUS
<1>2. Max(S) = 1000
  <2>1. Max(S) \in S /\ \A y \in S : Max(S) >= y
    BY <1>1 DEF Max
  <2>2. QED
    BY <1>1, <2>1
<1>3. QED
  BY <1>2 DEF TransitionRows

\* The newest rows are read: with a row all rows from its time on.
LEMMA ReadUpwards ==
  ASSUME StoreInv, NEW w, NEW x \in Read(w), NEW y \in StateRows(w), y.at >= x.at
  PROVE  y \in Read(w)
<1> DEFINE newer(z) == {v \in StateRows(w) : v.at > z.at}
<1>1. IsFiniteSet(StateRows(w)) /\ \A v \in StateRows(w) : v.at \in Nat
  BY RowsFinite, RowsAreRows DEF StateRows, IsRow
<1>2. newer(y) \subseteq newer(x)
  BY <1>1 DEF Read
<1>3. IsFiniteSet(newer(x)) /\ IsFiniteSet(newer(y))
  BY <1>1, FS_Subset
<1>4. Cardinality(newer(y)) <= Cardinality(newer(x))
      /\ Cardinality(newer(y)) \in Nat /\ Cardinality(newer(x)) \in Nat
  BY <1>2, <1>3, FS_Subset, FS_CardinalityType
<1>5. Cardinality(newer(x)) < TransitionRows(1)
  BY DEF Read
<1>6. QED
  BY <1>4, <1>5, TransitionLimit DEF Read

LEMMA FewRowsRead ==
  ASSUME StoreInv, FewRows, NEW w
  PROVE  Read(w) = StateRows(w)
<1> SUFFICES ASSUME NEW x \in StateRows(w) PROVE x \in Read(w)
  BY DEF Read
<1> DEFINE newer == {v \in StateRows(w) : v.at > x.at}
<1>1. IsFiniteSet(StateRows(Always)) /\ \A v \in StateRows(w) : v.at \in Nat
  BY RowsFinite, RowsAreRows DEF StateRows, IsRow
<1>2. StateRows(w) \subseteq StateRows(Always)
  <2>1. ASSUME NEW v \in StateRows(w) PROVE v \in StateRows(Always)
    <3>1. IsRow(v) /\ v.dev \in AllDevices /\ v.reg \in StateNames
      BY RowsAreRows DEF StateRows
    <3>2. InWindow(v.at, Always)
      BY DEF InWindow, Always
    <3>3. QED
      BY <3>1, <3>2, RowFound DEF StateRows
  <2>2. QED
    BY <2>1
<1>3. newer \subseteq StateRows(Always) \ {x} /\ x \in StateRows(Always)
  BY <1>1, <1>2
<1>4. IsFiniteSet(StateRows(Always) \ {x})
      /\ Cardinality(StateRows(Always) \ {x}) = Cardinality(StateRows(Always)) - 1
  BY <1>1, <1>3, FS_RemoveElement
<1>5. Cardinality(newer) <= Cardinality(StateRows(Always) \ {x})
      /\ Cardinality(newer) \in Nat /\ Cardinality(StateRows(Always)) \in Nat
  BY <1>1, <1>3, <1>4, FS_Subset, FS_CardinalityType
<1>6. Cardinality(newer) < TransitionRows(1)
  BY <1>4, <1>5, TransitionLimit DEF FewRows
<1>7. QED
  BY <1>6 DEF Read

\* The rows of the key of a row.
LEMMA KeyIsCourse ==
  ASSUME StoreInv, NEW w, NEW x, NEW R, R \subseteq {y \in Read(w) : SameKey(y, x)}
  PROVE  Course(R)
<1>1. \A y \in R : IsRow(y)
  BY ReadRows
<1>2. \A y, z \in R : y.reg = z.reg
  BY DEF SameKey
<1>3. QED
  BY <1>1, <1>2, RowsAreCourse

LEMMA NewestBefore ==
  ASSUME StoreInv, NEW w, NEW x \in Read(w), Before(x, w) # {}
  PROVE  LET p == Newest(Before(x, w)) IN
         /\ p \in Read(w) /\ SameKey(p, x) /\ p.at < x.at
         /\ \A y \in Before(x, w) : y.at <= p.at
<1>1. Course(Before(x, w)) /\ clock \in Nat
  BY KeyIsCourse DEF Before, StoreInv, PastInv
<1>2. Newest(Before(x, w)) \in Before(x, w)
      /\ \A y \in Before(x, w) : y.at <= Newest(Before(x, w)).at
  BY <1>1, NewestOfCourse
<1>3. QED
  BY <1>2 DEF Before

\* Where no transition lies between two rows of a key, both hold one value.
LEMMA NoTransitionNoChange ==
  ASSUME StoreInv, NEW w, NEW x \in Read(w), x.value # Null,
         NEW z \in Read(w), SameKey(z, x), x.at <= z.at,
         \A y \in Read(w) : SameKey(y, x) /\ x.at < y.at /\ y.at <= z.at => ~IsTransition(y, w)
  PROVE  z.value = x.value
<1> DEFINE B == {y \in Read(w) : SameKey(y, x) /\ x.at <= y.at /\ y.at <= z.at /\ y.value # x.value}
<1>0. x.at \in Nat /\ z.at \in Nat
  BY ReadRows DEF IsRow
<1> SUFFICES ASSUME B # {} PROVE FALSE
  BY <1>0
<1>1. Course(B)
  BY KeyIsCourse
<1>2. PICK y \in B : \A v \in B : y.at <= v.at
  <2> HIDE DEF B
  <2>1. QED
    BY <1>1, OldestOfCourse
<1>3. IsRow(x) /\ IsRow(y) /\ IsRow(z) /\ x.at \in Nat /\ y.at \in Nat /\ z.at \in Nat
  BY ReadRows DEF IsRow
<1>4. x.at < y.at
  <2>1. x.reg = y.reg
    BY DEF SameKey
  <2>2. x # y
    OBVIOUS
  <2>3. x.at # y.at
    BY <1>3, <2>1, <2>2, RowIdentity
  <2>4. QED
    BY <1>3, <2>3
<1>5. x \in Before(y, w)
  BY <1>4 DEF Before, SameKey
<1> DEFINE p == Newest(Before(y, w))
<1>6. p \in Read(w) /\ SameKey(p, y) /\ p.at < y.at /\ x.at <= p.at
  BY <1>5, NewestBefore
<1>7. p.at \in Nat
  BY <1>6, ReadRows DEF IsRow
<1>8. SameKey(p, x)
  BY <1>6 DEF SameKey
<1> HIDE DEF p
<1>9. p \notin B
  BY <1>2, <1>3, <1>6, <1>7
<1>10. p.value = x.value
  BY <1>3, <1>6, <1>7, <1>8, <1>9
<1>11. IsTransition(y, w)
  BY <1>5, <1>10 DEF IsTransition, Old, p
<1>12. QED
  BY <1>4, <1>11

\* Transitions of one key: their events, in the order of their rows.
OfKey(events, e) == {f \in events : f.uid = e.uid /\ f.reg = e.reg}

LEMMA EventsAreCourse ==
  ASSUME StoreInv, NEW w, NEW e, NEW R, R \subseteq OfKey(Transitions(w, 1), e)
  PROVE  Course(R)
<1>1. \A f \in R : \E x : IsTransition(x, w) /\ f = EventOf(x, w)
  BY TransitionsAre DEF OfKey
<1>2. ASSUME NEW x, IsTransition(x, w) PROVE IsRow(x)
  BY <1>2, ReadRows DEF IsTransition
<1>3. \A f \in R : f.at \in Nat /\ f.at < clock /\ f.reg \in ToSet(Registers)
  BY <1>1, <1>2, EventFields DEF IsRow
<1>4. ASSUME NEW f \in R, NEW g \in R, f.at = g.at PROVE f = g
  <2>1. PICK x : IsTransition(x, w) /\ f = EventOf(x, w)
    BY <1>1
  <2>2. PICK y : IsTransition(y, w) /\ g = EventOf(y, w)
    BY <1>1
  <2>3. x.at = y.at /\ x.reg = y.reg
    BY <1>4, <2>1, <2>2, EventFields DEF OfKey
  <2>4. x = y
    BY <1>2, <2>1, <2>2, <2>3, RowIdentity
  <2>5. QED
    BY <2>1, <2>2, <2>4
<1>5. QED
  BY <1>3, <1>4 DEF Course

\* Two rows whose events have a key in common have the same key.
LEMMA SameEventKey ==
  ASSUME NEW w, NEW x, NEW y, EventOf(x, w).uid = EventOf(y, w).uid,
         EventOf(x, w).reg = EventOf(y, w).reg
  PROVE  SameKey(x, y) /\ SameKey(y, x)
BY EventFields DEF SameKey

LEMMA ChainHolds == StoreInv => TransitionsChain
<1> SUFFICES ASSUME StoreInv, NEW e \in Transitions(Always, 1)
             PROVE  LET all == Transitions(Always, 1)
                        earlier == {f \in all : f.uid = e.uid /\ f.reg = e.reg /\ f.at < e.at}
                        later == {f \in all : f.uid = e.uid /\ f.reg = e.reg /\ f.at > e.at}
                    IN /\ earlier # {} => Newest(earlier).value \in {e.previous, Null}
                       /\ later = {} => \/ e.value = Null
                                        \/ e.value = Newest(RowsOf(DevicesOf(e.uid), {e.reg}, Always)).value
  BY Zenon DEF TransitionsChain
<1> DEFINE all == Transitions(Always, 1)
           earlier == {f \in all : f.uid = e.uid /\ f.reg = e.reg /\ f.at < e.at}
           later == {f \in all : f.uid = e.uid /\ f.reg = e.reg /\ f.at > e.at}
<1>0. clock \in Nat
  BY DEF StoreInv, PastInv
<1>1. PICK x : IsTransition(x, Always) /\ e = EventOf(x, Always)
  BY TransitionsAre
<1>2. x \in Read(Always) /\ IsRow(x) /\ x.at \in Nat /\ e.at = x.at /\ e.uid = OwnerOf[x.dev]
      /\ e.reg = x.reg /\ e.value = x.value /\ e.previous = Old(x, Always)
  BY <1>1, ReadRows, EventFields DEF IsTransition, IsRow
<1>3. ASSUME NEW y, IsTransition(y, Always), SameKey(y, x)
      PROVE  /\ EventOf(y, Always) \in all /\ EventOf(y, Always).at = y.at
             /\ EventOf(y, Always).uid = e.uid /\ EventOf(y, Always).reg = e.reg
  BY <1>2, <1>3, TransitionsAre, EventFields DEF SameKey
<1>4. ASSUME earlier # {}, Newest(earlier).value # Null PROVE Newest(earlier).value = e.previous
  <2>1. Course(earlier)
    BY EventsAreCourse DEF OfKey
  <2>2. PICK f \in earlier : f = Newest(earlier) /\ \A g \in earlier : g.at <= f.at
    <3> HIDE DEF earlier
    <3>1. QED
      BY <1>0, <1>4, <2>1, NewestOfCourse
  <2>3. PICK y : IsTransition(y, Always) /\ f = EventOf(y, Always)
    BY TransitionsAre
  <2>4. y \in Read(Always) /\ SameKey(y, x) /\ y.at \in Nat /\ f.at = y.at /\ y.at < x.at
        /\ f.value = y.value
    BY <1>1, <1>2, <2>3, ReadRows, EventFields, SameEventKey DEF IsTransition, IsRow
  <2>5. y \in Before(x, Always)
    BY <2>4 DEF Before
  <2> DEFINE p == Newest(Before(x, Always))
  <2>6. p \in Read(Always) /\ SameKey(p, x) /\ p.at < x.at /\ y.at <= p.at
    BY <1>2, <2>5, NewestBefore
  <2>7. p.at \in Nat
    BY <2>6, ReadRows DEF IsRow
  <2>8. SameKey(p, y)
    BY <2>4, <2>6 DEF SameKey
  <2> HIDE DEF p
  <2>9. ASSUME NEW v \in Read(Always), SameKey(v, y), y.at < v.at, v.at <= p.at,
               IsTransition(v, Always)
        PROVE  FALSE
    <3>1. v.at \in Nat
      BY ReadRows DEF IsRow
    <3>2. SameKey(v, x)
      BY <2>4, <2>9 DEF SameKey
    <3>3. EventOf(v, Always) \in earlier /\ EventOf(v, Always).at = v.at
      BY <1>2, <1>3, <2>6, <2>7, <2>9, <3>1, <3>2
    <3>4. v.at <= y.at
      BY <2>2, <2>4, <3>3
    <3>5. QED
      BY <2>4, <2>9, <3>1, <3>4
  <2>10. y.value # Null
    BY <1>4, <2>2, <2>4
  <2>11. p.value = y.value
    BY <2>4, <2>6, <2>8, <2>9, <2>10, NoTransitionNoChange
  <2>12. QED
    BY <1>2, <2>2, <2>4, <2>11 DEF Old, p
<1>5. ASSUME later = {}, e.value # Null
      PROVE  e.value = Newest(RowsOf(DevicesOf(e.uid), {e.reg}, Always)).value
  <2> DEFINE own == RowsOf(DevicesOf(e.uid), {e.reg}, Always)
  <2>1. \A v \in own : IsRow(v) /\ v.reg = x.reg /\ v.dev \in Devices /\ OwnerOf[v.dev] = OwnerOf[x.dev]
    BY <1>2, RowsAreRows DEF DevicesOf
  <2>2. Course(own)
    BY <2>1, RowsAreCourse
  <2>3. x \in own
    BY <1>2, RowFound DEF IsRow, DevicesOf, InWindow, Always
  <2>4. PICK z \in own : z = Newest(own) /\ \A v \in own : v.at <= z.at
    <3> HIDE DEF own
    <3>1. QED
      BY <1>0, <2>2, <2>3, NewestOfCourse
  <2>5. SameKey(z, x) /\ z.at \in Nat /\ x.at <= z.at
    BY <2>1, <2>3, <2>4 DEF SameKey, IsRow
  <2>6. z \in StateRows(Always)
    <3>1. x.reg \in StateNames
      BY <1>2, ReadRows
    <3>2. z.dev \in AllDevices
      BY <2>1, EveryDevice
    <3>3. QED
      BY <2>1, <3>1, <3>2, RowFound DEF StateRows, InWindow, Always
  <2>7. z \in Read(Always)
    BY <1>2, <2>5, <2>6, ReadUpwards
  <2>8. ASSUME NEW v \in Read(Always), SameKey(v, x), x.at < v.at, v.at <= z.at,
               IsTransition(v, Always)
        PROVE  FALSE
    <3>1. v.at \in Nat
      BY ReadRows DEF IsRow
    <3>2. EventOf(v, Always) \in later
      BY <1>2, <1>3, <2>8, <3>1
    <3>3. QED
      BY <1>5, <3>2
  <2>9. z.value = x.value
    BY <1>2, <1>5, <2>5, <2>7, <2>8, NoTransitionNoChange
  <2>10. QED
    BY <1>2, <2>4, <2>9
<1>6. QED
  BY <1>4, <1>5

\* A window shows what all time shows, as long as it holds the row before.
LEMMA WindowBefore ==
  ASSUME StoreInv, FewRows, NEW w \in Spans, NEW x \in Read(w)
  PROVE  /\ x \in Read(Always)
         /\ Before(x, w) # {} => /\ Before(x, Always) # {}
                                 /\ Old(x, Always) = Old(x, w)
<1>0. clock \in Nat
  BY DEF StoreInv, PastInv
<1>1. Read(w) = StateRows(w) /\ Read(Always) = StateRows(Always)
  BY FewRowsRead
<1>2. \A v : v \in StateRows(w) <=> v \in StateRows(Always) /\ InWindow(v.at, w)
  <2>1. ASSUME NEW v \in StateRows(w) PROVE v \in StateRows(Always) /\ InWindow(v.at, w)
    BY RowsAreRows, RowFound DEF StateRows, InWindow, Always
  <2>2. ASSUME NEW v \in StateRows(Always), InWindow(v.at, w) PROVE v \in StateRows(w)
    BY <2>2, RowsAreRows, RowFound DEF StateRows
  <2>3. QED
    BY <2>1, <2>2
<1>3. ASSUME Before(x, w) # {}
      PROVE  Before(x, Always) # {} /\ Old(x, Always) = Old(x, w)
  <2> DEFINE p == Newest(Before(x, w))
  <2>1. p \in Read(w) /\ SameKey(p, x) /\ p.at < x.at /\ \A y \in Before(x, w) : y.at <= p.at
    BY <1>3, NewestBefore
  <2> HIDE DEF p
  <2>2. p \in Before(x, Always)
    BY <1>1, <1>2, <2>1 DEF Before
  <2>3. InWindow(p.at, w) /\ InWindow(x.at, w) /\ p.at \in Nat /\ x.at \in Nat
    BY <2>1, ReadRows DEF IsRow
  <2>4. ASSUME NEW y \in Before(x, Always) PROVE y.at <= p.at
    <3> SUFFICES ASSUME y.at > p.at PROVE FALSE
      BY <2>3, <1>0, ReadRows DEF Before, IsRow
    <3>1. y \in Read(Always) /\ SameKey(y, x) /\ y.at < x.at /\ y.at \in Nat
      BY ReadRows DEF Before, IsRow
    <3>2. (w.from = None \/ w.from = 2) /\ (w.to = None \/ w.to \in Int)
      BY DEF Spans, Always
    <3>3. InWindow(y.at, w)
      BY <2>3, <3>1, <3>2 DEF InWindow
    <3>4. y \in Before(x, w)
      BY <1>1, <1>2, <3>1, <3>3 DEF Before
    <3>5. QED
      BY <2>1, <2>3, <3>1, <3>4
  <2>5. Course(Before(x, Always))
    BY KeyIsCourse DEF Before
  <2>6. Newest(Before(x, Always)) = p
    BY <1>0, <2>2, <2>4, <2>5, NewestIs
  <2>7. QED
    BY <2>2, <2>6 DEF Old, p
<1>4. QED
  BY <1>1, <1>2, <1>3

LEMMA WindowsHold == StoreInv /\ FewRows => WindowsShowTransitions
<1> SUFFICES ASSUME StoreInv, FewRows, NEW w \in Spans
             PROVE  /\ Transitions(w, 1) \subseteq Transitions(Always, 1)
                    /\ \A e \in Transitions(Always, 1) :
                         InWindow(e.at, w) /\ e \notin Transitions(w, 1) =>
                           e.at = Oldest(RowsOf(DevicesOf(e.uid), {e.reg}, w)).at
  BY DEF WindowsShowTransitions
<1>1. ASSUME NEW e \in Transitions(w, 1) PROVE e \in Transitions(Always, 1)
  <2>1. PICK x : IsTransition(x, w) /\ e = EventOf(x, w)
    BY TransitionsAre
  <2>2. IsTransition(x, Always) /\ Old(x, Always) = Old(x, w)
    BY <2>1, WindowBefore DEF IsTransition
  <2>3. EventOf(x, Always) = e
    BY <2>1, <2>2 DEF EventOf
  <2>4. QED
    BY <2>2, <2>3, TransitionsAre
<1>2. ASSUME NEW e \in Transitions(Always, 1), InWindow(e.at, w), e \notin Transitions(w, 1)
      PROVE  e.at = Oldest(RowsOf(DevicesOf(e.uid), {e.reg}, w)).at
  <2>1. PICK x : IsTransition(x, Always) /\ e = EventOf(x, Always)
    BY TransitionsAre
  <2>2. IsRow(x) /\ x.at \in Nat /\ e.at = x.at /\ e.uid = OwnerOf[x.dev] /\ e.reg = x.reg
        /\ x.reg \in StateNames /\ x.dev \in AllDevices
    BY <2>1, ReadRows, EventFields DEF IsTransition, IsRow
  <2>3. x \in Read(w)
    BY <1>2, <2>2, RowFound, FewRowsRead DEF StateRows
  <2>4. Before(x, w) = {}
    <3> SUFFICES ASSUME Before(x, w) # {} PROVE FALSE
      OBVIOUS
    <3>1. Old(x, Always) = Old(x, w)
      BY <2>3, WindowBefore
    <3>2. IsTransition(x, w) /\ EventOf(x, w) = e
      BY <2>1, <2>3, <3>1 DEF IsTransition, EventOf
    <3>3. QED
      BY <1>2, <3>2, TransitionsAre
  <2> DEFINE own == RowsOf(DevicesOf(e.uid), {e.reg}, w)
  <2>5. \A v \in own : IsRow(v) /\ v.reg = x.reg /\ v.dev \in DevicesOf(e.uid) /\ InWindow(v.at, w)
    BY <2>2, RowsAreRows
  <2>6. Course(own)
    BY <2>5, RowsAreCourse
  <2>7. x \in own
    BY <1>2, <2>2, RowFound DEF DevicesOf, IsRow
  <2>8. ASSUME NEW v \in own PROVE x.at <= v.at
    <3>0. v.at \in Nat
      BY <2>5 DEF IsRow
    <3> SUFFICES ASSUME v.at < x.at PROVE FALSE
      BY <2>2, <3>0
    <3>1. OwnerOf[v.dev] = OwnerOf[x.dev] /\ v.dev \in Devices
      BY <2>2, <2>5 DEF DevicesOf
    <3>2. v.dev \in AllDevices
      BY <3>1 DEF AllDevices, Members, DevicesOf
    <3>3. v \in Read(w)
      BY <2>2, <2>5, <3>2, RowFound, FewRowsRead DEF StateRows
    <3>4. v \in Before(x, w)
      BY <2>5, <3>1, <3>3 DEF Before, SameKey
    <3>5. QED
      BY <2>4, <3>4
  <2>9. Oldest(own) = x
    <3> HIDE DEF own
    <3>1. QED
      BY <2>6, <2>7, <2>8, OldestIs
  <2>10. QED
    BY <2>2, <2>9
<1>3. QED
  BY <1>1, <1>2

-----------------------------------------------------------------------------
(* What the newest samples show                                              *)

LEMMA PriorityIs ==
  ASSUME NEW m \in DOMAIN Metrics, NEW r \in NamesOf(m)
  PROVE  /\ PriorityOf(m, r) \in Nat /\ Metrics[m].registers[PriorityOf(m, r)] = r
         /\ \A i \in DOMAIN Metrics[m].registers :
              Metrics[m].registers[i] = r => PriorityOf(m, r) = i
<1>1. \E i \in DOMAIN Metrics[m].registers : Metrics[m].registers[i] = r
  BY DEF NamesOf, ToSet
<1>2. PriorityOf(m, r) \in DOMAIN Metrics[m].registers
      /\ Metrics[m].registers[PriorityOf(m, r)] = r
  BY <1>1 DEF PriorityOf
<1>3. QED
  BY <1>2, MetricAssumption

PresentIn(sample, m) ==
  {r \in NamesOf(m) \cap DOMAIN sample.values : sample.values[r] # Null}

\* _select_value takes the best of the registers that have a value.
LEMMA SelectIs ==
  ASSUME NEW m \in DOMAIN Metrics, NEW s
  PROVE  IF PresentIn(s, m) = {} THEN Select(s, m) = None
         ELSE /\ Select(s, m) \in PresentIn(s, m)
              /\ \A r \in PresentIn(s, m) : PriorityOf(m, Select(s, m)) <= PriorityOf(m, r)
<1> DEFINE P == PresentIn(s, m)
           K == {PriorityOf(m, r) : r \in P}
<1>1. Select(s, m) = IF P = {} THEN None
                     ELSE CHOOSE r \in P : \A q \in P : PriorityOf(m, r) <= PriorityOf(m, q)
  BY Zenon DEF Select, PresentIn
<1>2. ASSUME P # {} PROVE \E r \in P : \A q \in P : PriorityOf(m, r) <= PriorityOf(m, q)
  <2>1. K \in SUBSET Nat /\ K # {}
    BY <1>2, PriorityIs DEF PresentIn
  <2>2. PICK k \in K : \A j \in K : k <= j
    <3> HIDE DEF K
    <3>1. QED
      BY <2>1, LeastNat
  <2>3. QED
    BY <2>2
<1> HIDE DEF P
<1>3. QED
  BY <1>1, <1>2 DEF P

Newer(c) == LatestSample(DevicesOf(c))

LEMMA ViewSources ==
  ASSUME NEW m, NEW o
  PROVE  o \in LatestView(m).sources <=>
           \E c \in Members : /\ Newer(c) # None /\ Select(Newer(c), m) # None
                              /\ o = Observation(c, Newer(c), m)
<1> DEFINE shown == {Observation(n.uid, n.sample, m) :
                       n \in {x \in NewestOf : x.sample # None /\ Select(x.sample, m) # None}}
<1>1. LatestView(m).sources = shown
  BY Zenon DEF LatestView, Aggregate
<1>2. ASSUME NEW c \in Members
      PROVE  /\ [uid |-> c, sample |-> Newer(c)] \in NewestOf
             /\ [uid |-> c, sample |-> Newer(c)].uid = c
             /\ [uid |-> c, sample |-> Newer(c)].sample = Newer(c)
  BY DEF NewestOf, Newer
<1>3. \A n \in NewestOf : n.uid \in Members /\ n.sample = Newer(n.uid)
  BY DEF NewestOf, Newer
<1>4. o \in shown <=>
        \E c \in Members : /\ Newer(c) # None /\ Select(Newer(c), m) # None
                           /\ o = Observation(c, Newer(c), m)
  <2>1. o \in shown <=> \E n \in NewestOf : /\ n.sample # None /\ Select(n.sample, m) # None
                                            /\ o = Observation(n.uid, n.sample, m)
    BY Zenon
  <2>2. ASSUME o \in shown
        PROVE  \E c \in Members : /\ Newer(c) # None /\ Select(Newer(c), m) # None
                                  /\ o = Observation(c, Newer(c), m)
    <3>1. PICK n \in NewestOf : /\ n.sample # None /\ Select(n.sample, m) # None
                                /\ o = Observation(n.uid, n.sample, m)
      BY <2>1, <2>2
    <3>2. QED
      BY Zenon, <1>3, <3>1
  <2>3. ASSUME NEW c \in Members, Newer(c) # None, Select(Newer(c), m) # None,
               o = Observation(c, Newer(c), m)
        PROVE  o \in shown
    <3> DEFINE n == [uid |-> c, sample |-> Newer(c)]
    <3>1. n \in NewestOf /\ n.uid = c /\ n.sample = Newer(c)
      BY <1>2
    <3> HIDE DEF n
    <3>2. QED
      BY Zenon, <2>1, <2>3, <3>1
  <2>4. QED
    BY Zenon, <2>2, <2>3
<1>5. QED
  BY <1>1, <1>4

LEMMA ObservationFields ==
  ASSUME NEW c, NEW s, NEW m
  PROVE  /\ Observation(c, s, m).uid = c /\ Observation(c, s, m).at = s.at
         /\ Observation(c, s, m).reg = Select(s, m)
         /\ Observation(c, s, m).value = s.values[Select(s, m)]
BY DEF Observation

\* The newest sample of a controller that has one.
LEMMA NewerIs ==
  ASSUME StoreInv, NEW c \in Members, Newer(c) # None
  PROVE  /\ Newer(c) \in samples /\ Newer(c).dev \in DevicesOf(c)
         /\ \A s \in samples : s.dev \in DevicesOf(c) => s.at <= Newer(c).at
BY LatestIsNewest DEF Newer

LEMMA FaultActive ==
  ASSUME StoreInv, NEW c \in Members, Newer(c) # None,
         "faults" \in DOMAIN Newer(c).values, Newer(c).values["faults"] # Null
  PROVE  c \in ActiveIn("faults") <=> ~StateClear(Newer(c).values["faults"])
<1> DEFINE m == "faults"
           s == Newer(c)
<1>1. m \in DOMAIN Metrics /\ m \in NamesOf(m)
  BY MetricAssumption DEF NamesOf, ToSet
<1>2. PriorityOf(m, m) = 1
  BY <1>1, PriorityIs, MetricAssumption
<1>3. m \in PresentIn(s, m)
  BY <1>1 DEF PresentIn
<1>4. Select(s, m) \in PresentIn(s, m) /\ PriorityOf(m, Select(s, m)) <= 1
  BY <1>1, <1>2, <1>3, SelectIs
<1>5. Select(s, m) = m
  <2>1. Select(s, m) \in NamesOf(m)
    BY <1>4 DEF PresentIn
  <2>2. PriorityOf(m, Select(s, m)) \in DOMAIN Metrics[m].registers
        /\ Metrics[m].registers[PriorityOf(m, Select(s, m))] = Select(s, m)
    <3>1. \E i \in DOMAIN Metrics[m].registers : Metrics[m].registers[i] = Select(s, m)
      BY <2>1 DEF NamesOf, ToSet
    <3>2. QED
      BY <3>1 DEF PriorityOf
  <2>3. PriorityOf(m, Select(s, m)) = 1
    BY <1>1, <1>4, <2>2, MetricAssumption
  <2>4. QED
    BY <2>2, <2>3, MetricAssumption
<1>6. m # None
  <2>1. m \in ToSet(Registers)
    BY NewerIs, RegisterAssumption DEF StoreInv, SampleInv
  <2>2. QED
    BY <2>1, RegisterAssumption
<1> DEFINE o == Observation(c, s, m)
<1>7. o \in LatestView(m).sources
  BY <1>5, <1>6, ViewSources
<1>8. o.uid = c /\ o.value = s.values[m]
  BY <1>5, ObservationFields
<1>9. ASSUME NEW p \in LatestView(m).sources, p.uid = c PROVE p = o
  BY <1>9, ViewSources, ObservationFields
<1>10. QED
  BY <1>7, <1>8, <1>9, Zenon DEF ActiveIn

-----------------------------------------------------------------------------
(* The health                                                                *)

FaultRows(c) == RowsOf(DevicesOf(c), {"faults"}, Always)
FaultEvents(c) == {e \in Transitions(Always, 1) : e.uid = c /\ e.reg = "faults"}
FaultNow(c) == RowOf(Newer(c), "faults")

LEMMA FaultRowsAre ==
  ASSUME StoreInv, NEW c \in Members, Newer(c) # None, "faults" \in DOMAIN Newer(c).values
  PROVE  /\ Course(FaultRows(c)) /\ FaultNow(c) \in FaultRows(c)
         /\ FaultNow(c).value = Newer(c).values["faults"]
         /\ \A x \in FaultRows(c) : /\ x.at \in Nat /\ x.at <= FaultNow(c).at
                                    /\ x.reg = "faults" /\ OwnerOf[x.dev] = c
                                    /\ x \in StateRows(Always)
<1>1. \A x \in FaultRows(c) : IsRow(x) /\ x.dev \in DevicesOf(c) /\ x.reg = "faults"
  BY RowsAreRows DEF FaultRows
<1>2. Course(FaultRows(c))
  BY <1>1, RowsAreCourse
<1>3. Newer(c) \in samples /\ Newer(c).dev \in DevicesOf(c)
      /\ \A s \in samples : s.dev \in DevicesOf(c) => s.at <= Newer(c).at
  BY NewerIs
<1>4. FaultNow(c) \in FaultRows(c)
  BY <1>3, RowOfSample DEF FaultRows, FaultNow, InWindow, Always
<1>5. FaultNow(c).value = Newer(c).values["faults"] /\ FaultNow(c).at = Newer(c).at
  BY RowFields DEF FaultNow
<1>6. ASSUME NEW x \in FaultRows(c)
      PROVE  /\ x.at \in Nat /\ x.at <= FaultNow(c).at /\ OwnerOf[x.dev] = c
             /\ x \in StateRows(Always)
  <2>1. IsRow(x) /\ x.dev \in DevicesOf(c) /\ x.reg = "faults"
    BY <1>1
  <2>2. PICK s \in samples : x = RowOf(s, x.reg)
    BY <2>1 DEF IsRow
  <2>3. x.at = s.at /\ x.dev = s.dev
    BY <2>2, RowFields
  <2>4. x.dev \in AllDevices
    BY <2>1 DEF AllDevices, Members, DevicesOf
  <2>5. x.reg \in StateNames
    BY <2>1 DEF StateNames, FaultNames
  <2>6. x \in StateRows(Always)
    BY <2>1, <2>4, <2>5, RowFound DEF StateRows, InWindow, Always
  <2>7. QED
    BY <1>3, <1>5, <2>1, <2>3, <2>6 DEF IsRow, DevicesOf
<1>7. QED
  BY <1>1, <1>2, <1>4, <1>5, <1>6

\* From a fault row that no later transition follows, the fault is as it was.
LEMMA FaultStays ==
  ASSUME StoreInv, NEW c \in Members, Newer(c) # None, "faults" \in DOMAIN Newer(c).values,
         NEW x \in FaultRows(c), x \in Read(Always), x.value # Null,
         \A e \in FaultEvents(c) : e.at <= x.at
  PROVE  Newer(c).values["faults"] = x.value
<1> DEFINE z == FaultNow(c)
<1>1. x.at \in Nat /\ z.at \in Nat /\ x.at <= z.at /\ SameKey(z, x) /\ z \in StateRows(Always)
  BY FaultRowsAre DEF SameKey
<1>2. z \in Read(Always)
  BY <1>1, ReadUpwards
<1>3. ASSUME NEW y \in Read(Always), SameKey(y, x), x.at < y.at, IsTransition(y, Always)
      PROVE  FALSE
  <2>1. EventOf(y, Always) \in Transitions(Always, 1)
    BY <1>3, TransitionsAre
  <2>2. EventOf(y, Always).uid = c /\ EventOf(y, Always).reg = "faults"
        /\ EventOf(y, Always).at = y.at
    BY <1>3, FaultRowsAre, EventFields DEF SameKey
  <2>3. y.at \in Nat
    BY ReadRows DEF IsRow
  <2>4. QED
    BY <1>1, <1>3, <2>1, <2>2, <2>3 DEF FaultEvents
<1>4. z.value = x.value
  BY <1>1, <1>2, <1>3, NoTransitionNoChange
<1>5. QED
  BY <1>4, FaultRowsAre

LEMMA FaultTold ==
  ASSUME StoreInv, FewRows, NEW n \in NewestOf, n.sample # None,
         "faults" \in DOMAIN n.sample.values
  PROVE  LET told == {e \in Transitions(Always, 1) : e.uid = n.uid /\ e.reg = "faults"}
             first == Oldest(RowsOf(DevicesOf(n.uid), {"faults"}, Always))
             last == IF told = {} THEN first ELSE Newest(told)
         IN last.value # Null /\ n.sample.values["faults"] # Null =>
              (n.uid \in ActiveIn("faults") <=>
                 IF told = {} THEN ~StateClear(first.value) ELSE last.type = "FAULT_STARTED")
<1> DEFINE c == n.uid
           first == Oldest(FaultRows(c))
           last == IF FaultEvents(c) = {} THEN first ELSE Newest(FaultEvents(c))
<1>1. c \in Members /\ n.sample = Newer(c)
  BY DEF NewestOf, Newer
<1> SUFFICES ASSUME last.value # Null, Newer(c).values["faults"] # Null
             PROVE  c \in ActiveIn("faults") <=>
                      IF FaultEvents(c) = {} THEN ~StateClear(first.value)
                      ELSE last.type = "FAULT_STARTED"
  BY <1>1, Zenon DEF FaultRows, FaultEvents
<1>0. clock \in Nat
  BY DEF StoreInv, PastInv
<1>2. c \in ActiveIn("faults") <=> ~StateClear(Newer(c).values["faults"])
  BY <1>1, FaultActive
<1>3. CASE FaultEvents(c) = {}
  <2>1. first \in FaultRows(c)
    BY <1>1, FaultRowsAre, OldestOfCourse
  <2>2. first \in Read(Always)
    BY <1>1, <2>1, FaultRowsAre, FewRowsRead
  <2>3. Newer(c).values["faults"] = first.value
    BY <1>1, <1>3, <2>1, <2>2, FaultStays
  <2>4. QED
    BY <1>2, <1>3, <2>3
<1>4. CASE FaultEvents(c) # {}
  <2>1. Course(FaultEvents(c))
    <3> DEFINE e == [uid |-> c, reg |-> "faults"]
    <3>1. FaultEvents(c) \subseteq OfKey(Transitions(Always, 1), e)
      BY DEF FaultEvents, OfKey
    <3>2. QED
      BY <3>1, EventsAreCourse
  <2>2. PICK e \in FaultEvents(c) : e = Newest(FaultEvents(c)) /\ \A f \in FaultEvents(c) : f.at <= e.at
    BY <1>0, <1>4, <2>1, NewestOfCourse
  <2>3. PICK y : IsTransition(y, Always) /\ e = EventOf(y, Always)
    BY TransitionsAre DEF FaultEvents
  <2>4. y \in Read(Always) /\ IsRow(y) /\ y.at = e.at /\ y.value = e.value /\ y.reg = "faults"
        /\ OwnerOf[y.dev] = c /\ e.type = TypeOf("faults", y.value)
    BY <2>3, ReadRows, EventFields DEF IsTransition, FaultEvents
  <2>5. y \in FaultRows(c)
    BY <2>4, RowFound DEF FaultRows, DevicesOf, IsRow, InWindow, Always
  <2>6. Newer(c).values["faults"] = y.value
    <3>1. y.value # Null
      BY <1>4, <2>2, <2>4
    <3>2. QED
      BY <1>1, <2>2, <2>4, <2>5, <3>1, FaultStays
  <2>7. e.type = "FAULT_STARTED" <=> ~StateClear(y.value)
    BY <2>4 DEF TypeOf, ChargeNames, FaultNames
  <2>8. QED
    BY <1>2, <1>4, <2>2, <2>6, <2>7
<1>5. QED
  BY <1>3, <1>4

\* A row in the inventory that says online holds no error since its last answer,
\* so no error shown in the events can be newer.
LEMMA WellIsQuiet ==
  ASSUME IInv, HealthView = "ok", NEW c \in Members, NEW e \in SystemEvents(Always, MaxEvents),
         e.type = "COMMUNICATION_ERROR", e.dev = CanonicalOf[c]
  PROVE  ~(e.at >= devices[CanonicalOf[c]].seen)
<1> SUFFICES ASSUME e.at >= devices[CanonicalOf[c]].seen PROVE FALSE
  OBVIOUS
<1> DEFINE d == CanonicalOf[c]
<1>1. d \in Devices
  BY MetricAssumption DEF Members
<1>2. devices[d].status = "online"
  <2>1. StatusOf(c) = "online"
    BY DEF HealthView
  <2>2. QED
    BY <2>1 DEF StatusOf
<1>3. e \in ErrorEvents(Always)
  <2>1. e \in ErrorEvents(Always) \cup SyncEvents(Always, MaxEvents) \cup Transitions(Always, MaxEvents)
    BY Zenon DEF SystemEvents
  <2>2. e \notin SyncEvents(Always, MaxEvents)
    <3> SUFFICES ASSUME e \in SyncEvents(Always, MaxEvents) PROVE FALSE
      OBVIOUS
    <3>1. \E y : e = [type |-> IF y.status = "ok" THEN "HISTORY_BACKFILL_COMPLETED"
                               ELSE "HISTORY_BACKFILL_FAILED",
                      uid |-> OwnerOf[y.dev], at |-> y.at]
      BY Zenon DEF SyncEvents
    <3> QED
      BY <3>1
  <2>3. e \notin Transitions(Always, MaxEvents)
    <3> SUFFICES ASSUME NEW x, e.type = TypeOf(x.reg, x.value) PROVE FALSE
      <4>1. ASSUME e \in Transitions(Always, MaxEvents)
            PROVE  \E x, old : e = [type |-> TypeOf(x.reg, x.value), uid |-> OwnerOf[x.dev],
                                    at |-> x.at, reg |-> x.reg, previous |-> old, value |-> x.value]
        BY <4>1, Zenon DEF Transitions
      <4>2. QED
        BY <4>1
    <3>1. QED
      BY DEF TypeOf
  <2>4. QED
    BY <2>1, <2>2, <2>3
<1>4. PICK f \in errors : f.dev = d /\ f.at = e.at
  BY <1>3 DEF ErrorEvents
<1>5. devices[d].lastError = None /\ ErrorsSince(d) = {}
  <2>1. RowTells(d)
    BY <1>1, StatusTellsRows DEF IInv
  <2>2. devices[d].lastError = None /\ None \notin Nat
    BY <1>2, <2>1, TelemetryAssumption DEF RowTells
  <2>3. ErrorsSince(d) \subseteq Nat
    BY DEF IInv, PastInv, ErrorsSince
  <2> QED
    BY <2>1, <2>2, <2>3 DEF RowTells
<1>6. f.at \in ErrorsSince(d)
  BY <1>4 DEF ErrorsSince
<1>7. QED
  BY <1>5, <1>6

-----------------------------------------------------------------------------
(* The last point of the raw history                                         *)

\* The best register of a sample for a metric, decoded or not.
BestOf(s, m) ==
  CHOOSE r \in NamesOf(m) \cap DOMAIN s.values :
    \A q \in NamesOf(m) \cap DOMAIN s.values : PriorityOf(m, r) <= PriorityOf(m, q)
PointOf(c, s, m) ==
  [uid |-> c, at |-> s.at, reg |-> BestOf(s, m), value |-> s.values[BestOf(s, m)]]

LEMMA BestIs ==
  ASSUME NEW m \in DOMAIN Metrics, NEW s, NamesOf(m) \cap DOMAIN s.values # {}
  PROVE  /\ BestOf(s, m) \in NamesOf(m) \cap DOMAIN s.values
         /\ \A q \in NamesOf(m) \cap DOMAIN s.values : PriorityOf(m, BestOf(s, m)) <= PriorityOf(m, q)
<1> DEFINE N == NamesOf(m) \cap DOMAIN s.values
           K == {PriorityOf(m, r) : r \in N}
<1>1. K \in SUBSET Nat /\ K # {}
  BY PriorityIs
<1>2. PICK k \in K : \A j \in K : k <= j
  <2> HIDE DEF K
  <2>1. QED
    BY <1>1, LeastNat
<1>3. \E r \in N : \A q \in N : PriorityOf(m, r) <= PriorityOf(m, q)
  BY <1>2
<1>4. QED
  BY <1>3 DEF BestOf

\* A sample with a register of the metric is a point of its history.
LEMMA PointIs ==
  ASSUME StoreInv, NEW m \in DOMAIN Metrics, NEW s \in samples,
         NamesOf(m) \cap DOMAIN s.values # {}
  PROVE  PointOf(OwnerOf[s.dev], s, m) \in RawSeries(m, Always)
<1> DEFINE found == RowsOf(AllDevices, NamesOf(m), Always)
           chosen(x) == \A y \in found :
                          y.at = x.at /\ OwnerOf[y.dev] = OwnerOf[x.dev] =>
                            PriorityOf(m, x.reg) <= PriorityOf(m, y.reg)
           point(x) == [uid |-> OwnerOf[x.dev], at |-> x.at, reg |-> x.reg, value |-> x.value]
           x == RowOf(s, BestOf(s, m))
<1>1. RawSeries(m, Always) = {point(y) : y \in {z \in found : chosen(z)}}
  BY Zenon DEF RawSeries
<1>2. BestOf(s, m) \in NamesOf(m) /\ BestOf(s, m) \in DOMAIN s.values
  BY BestIs
<1>3. s.dev \in AllDevices
  BY DEF StoreInv, SampleInv, AllDevices, Members, DevicesOf
<1>4. x \in found
  BY <1>2, <1>3, RowOfSample DEF InWindow, Always
<1>5. x.dev = s.dev /\ x.at = s.at /\ x.reg = BestOf(s, m) /\ x.value = s.values[BestOf(s, m)]
  BY RowFields
<1>6. ASSUME NEW y \in found, y.at = s.at PROVE y.reg \in NamesOf(m) \cap DOMAIN s.values
  <2>1. PICK t \in samples : y.reg \in NamesOf(m) /\ y.reg \in DOMAIN t.values
                             /\ y = RowOf(t, y.reg)
    BY RowMember
  <2>2. t.at = s.at
    BY <1>6, <2>1, RowFields
  <2>3. t = s
    BY <2>2 DEF StoreInv, SampleInv
  <2>4. QED
    BY <2>1, <2>3
<1>7. chosen(x)
  BY <1>5, <1>6, BestIs
<1>8. point(x) = PointOf(OwnerOf[s.dev], s, m)
  BY <1>5 DEF PointOf
<1> HIDE DEF found, chosen, x, point
<1>9. QED
  BY <1>1, <1>4, <1>7, <1>8, Zenon

LEMMA PointTimes ==
  ASSUME StoreInv, NEW m, NEW q \in RawSeries(m, Always)
  PROVE  \E s \in samples : s.dev \in DevicesOf(q.uid) /\ q.at = s.at
<1>1. PICK x \in RowsOf(AllDevices, NamesOf(m), Always) : q.uid = OwnerOf[x.dev] /\ q.at = x.at
  <2>1. PICK x \in RowsOf(AllDevices, NamesOf(m), Always) :
          q = [uid |-> OwnerOf[x.dev], at |-> x.at, reg |-> x.reg, value |-> x.value]
    BY Zenon DEF RawSeries
  <2>2. QED
    BY <2>1
<1>2. PICK s \in samples : x = RowOf(s, x.reg)
  BY RowMember
<1>3. s.dev = x.dev /\ s.at = x.at /\ x.dev \in Devices
  BY <1>2, RowFields, RowsAreRows DEF IsRow
<1>4. QED
  BY <1>1, <1>3 DEF DevicesOf

LEMMA LastPointHolds == StoreInv => LatestIsLastPoint
<1> SUFFICES ASSUME StoreInv, NEW m \in DOMAIN Metrics, NEW o \in LatestView(m).sources
             PROVE  /\ \E p \in {z \in RawSeries(m, Always) : z.uid = o.uid} :
                         /\ \A q \in {z \in RawSeries(m, Always) : z.uid = o.uid} : q.at <= p.at
                         /\ p.at = o.at
                         /\ p.value # Null => p = o
                    /\ \A other \in LatestView(m).sources : other.uid = o.uid => other = o
  BY Zenon DEF LatestIsLastPoint
<1>1. PICK c \in Members : /\ Newer(c) # None /\ Select(Newer(c), m) # None
                           /\ o = Observation(c, Newer(c), m)
  BY ViewSources
<1> DEFINE s == Newer(c)
           p == PointOf(c, s, m)
<1>2. s \in samples /\ s.dev \in DevicesOf(c) /\ OwnerOf[s.dev] = c
      /\ \A t \in samples : t.dev \in DevicesOf(c) => t.at <= s.at
  BY <1>1, NewerIs DEF DevicesOf
<1>3. Select(s, m) \in PresentIn(s, m)
      /\ \A r \in PresentIn(s, m) : PriorityOf(m, Select(s, m)) <= PriorityOf(m, r)
  BY <1>1, SelectIs
<1>4. NamesOf(m) \cap DOMAIN s.values # {}
  BY <1>3 DEF PresentIn
<1>5. p \in RawSeries(m, Always)
  BY <1>2, <1>4, PointIs
<1>6. o.uid = c /\ o.at = s.at /\ p.uid = c /\ p.at = s.at /\ p.value = s.values[BestOf(s, m)]
  BY <1>1, ObservationFields DEF PointOf
<1>7. ASSUME NEW q \in RawSeries(m, Always), q.uid = c PROVE q.at <= s.at
  BY <1>2, <1>7, PointTimes
<1>8. ASSUME p.value # Null PROVE p = o
  <2>1. BestOf(s, m) \in PresentIn(s, m)
        /\ PriorityOf(m, BestOf(s, m)) <= PriorityOf(m, Select(s, m))
    BY <1>3, <1>4, <1>6, <1>8, BestIs DEF PresentIn
  <2>2. PriorityOf(m, BestOf(s, m)) = PriorityOf(m, Select(s, m))
    <3>1. PriorityOf(m, Select(s, m)) <= PriorityOf(m, BestOf(s, m))
      BY <1>3, <2>1
    <3>2. PriorityOf(m, BestOf(s, m)) \in Nat /\ PriorityOf(m, Select(s, m)) \in Nat
      BY <1>3, <2>1, PriorityIs DEF PresentIn
    <3>3. QED
      BY <2>1, <3>1, <3>2
  <2>3. BestOf(s, m) = Select(s, m)
    BY <1>3, <2>1, <2>2, PriorityIs DEF PresentIn
  <2>4. QED
    BY <1>1, <2>3 DEF PointOf, Observation
<1>9. ASSUME NEW other \in LatestView(m).sources, other.uid = o.uid PROVE other = o
  BY <1>1, <1>9, ViewSources, ObservationFields
<1> HIDE DEF p, s
<1>10. QED
  BY <1>5, <1>6, <1>7, <1>8, <1>9

-----------------------------------------------------------------------------
(* Numbers in order                                                          *)

Below(M, x) == Cardinality({y \in M : y.value < x.value})
UpTo(M, x) == Cardinality({y \in M : y.value <= x.value})

\* Among finitely many observations there is one for every place.
LEMMA PlaceTaken ==
  ASSUME NEW M, IsFiniteSet(M), \A x \in M : x.value \in Int,
         NEW i \in 1 .. Cardinality(M)
  PROVE  \E x \in M : Below(M, x) < i /\ i <= UpTo(M, x)
<1> DEFINE S == {x \in M : i <= UpTo(M, x)}
           V == {x.value : x \in S}
<1>1. Cardinality(M) \in Nat
  BY FS_CardinalityType
<1>2. \A P : P \subseteq M => IsFiniteSet(P) /\ Cardinality(P) \in Nat /\ Cardinality(P) <= Cardinality(M)
  BY FS_Subset, FS_CardinalityType
<1>3. \A x \in M : Below(M, x) \in Nat /\ UpTo(M, x) \in Nat
  BY <1>2 DEF Below, UpTo
<1>4. ASSUME NEW P, P \subseteq M, P # {}
      PROVE  \E x, z \in P : \A y \in P : x.value <= y.value /\ y.value <= z.value
  <2> DEFINE W == {x.value : x \in P}
             f == [x \in P |-> x.value]
  <2>1. IsFiniteSet(P)
    BY <1>2, <1>4
  <2>2. f \in Surjection(P, W)
    BY DEF Surjection
  <2>3. IsFiniteSet(W) /\ W \in SUBSET Int /\ W # {}
    BY <1>4, <2>1, <2>2, FS_Surjection
  <2>4. PICK u \in W, v \in W : \A t \in W : u <= t /\ t <= v
    <3> HIDE DEF W
    <3>1. QED
      BY <2>3, LeastAndGreatest
  <2>5. PICK x \in P, z \in P : u = x.value /\ v = z.value
    OBVIOUS
  <2>6. \A y \in P : x.value <= y.value /\ y.value <= z.value
    BY <2>4, <2>5
  <2>7. QED
    BY <2>6
<1>5. S # {}
  <2>1. M # {}
    BY FS_EmptySet
  <2>2. PICK z \in M : \A y \in M : y.value <= z.value
    BY <1>4, <2>1
  <2>3. {y \in M : y.value <= z.value} = M
    BY <2>2
  <2>4. UpTo(M, z) = Cardinality(M)
    BY <2>3 DEF UpTo
  <2>5. QED
    BY <1>1, <2>4
<1>6. PICK x \in S : \A y \in S : x.value <= y.value
  BY <1>4, <1>5
<1>7. Below(M, x) < i
  <2> SUFFICES ASSUME i <= Below(M, x) PROVE FALSE
    BY <1>3
  <2> DEFINE B == {y \in M : y.value < x.value}
  <2>1. B # {}
    BY FS_EmptySet DEF Below
  <2>2. PICK z \in B : \A y \in B : y.value <= z.value
    BY <1>4, <2>1
  <2>3. {y \in M : y.value <= z.value} = B
    BY <2>2
  <2>4. z \in S
    BY <2>2, <2>3 DEF Below, UpTo
  <2>5. QED
    BY <1>6, <2>2, <2>4
<1>8. QED
  BY <1>6, <1>7

NumberAt(observations, i) ==
  CHOOSE x \in Measures(observations) :
    Below(Measures(observations), x) < i /\ i <= UpTo(Measures(observations), x)

\* Numbers lists values of the observations, the lowest first and the highest last.
LEMMA NumbersAre ==
  ASSUME NEW obs, IsFiniteSet(obs), \A x \in Measures(obs) : x.value \in Int
  PROVE  LET N == Cardinality(Measures(obs)) IN
         /\ N \in Nat /\ Len(Numbers(obs)) = N
         /\ Measures(obs) # {} => N >= 1
         /\ \A i \in 1 .. N : \E x \in Measures(obs) : Numbers(obs)[i] = x.value
         /\ \A i \in 1 .. N, x \in Measures(obs) :
              Numbers(obs)[1] <= x.value /\ x.value <= Numbers(obs)[N]
<1> DEFINE M == Measures(obs)
           N == Cardinality(M)
<1>1. IsFiniteSet(M) /\ N \in Nat /\ (M # {} => N >= 1)
  BY FS_Subset, FS_CardinalityType, FS_EmptySet DEF Measures
<1>2. Numbers(obs) = [i \in 1 .. N |-> NumberAt(obs, i).value]
  BY Zenon DEF Numbers, NumberAt, Below, UpTo
<1>3. ASSUME NEW i \in 1 .. N
      PROVE  /\ NumberAt(obs, i) \in M
             /\ Below(M, NumberAt(obs, i)) < i /\ i <= UpTo(M, NumberAt(obs, i))
  <2>1. \E x \in M : Below(M, x) < i /\ i <= UpTo(M, x)
    <3> HIDE DEF M
    <3>1. QED
      BY <1>1, PlaceTaken DEF M
  <2>2. QED
    BY <2>1, Zenon DEF NumberAt
<1>4. Len(Numbers(obs)) = N
  <2>1. Numbers(obs) = [i \in 1 .. N |-> Numbers(obs)[i]]
    BY <1>2
  <2>2. QED
    BY <1>1, <2>1, FunctionIsSequence
<1>5. ASSUME NEW x \in M
      PROVE  Numbers(obs)[1] <= x.value /\ x.value <= Numbers(obs)[N]
  <2>1. 1 \in 1 .. N /\ N \in 1 .. N
    BY <1>1
  <2> DEFINE low == NumberAt(obs, 1)
             high == NumberAt(obs, N)
  <2>2. low \in M /\ Below(M, low) < 1 /\ high \in M /\ N <= UpTo(M, high)
    BY <1>3, <2>1
  <2>3. Numbers(obs)[1] = low.value /\ Numbers(obs)[N] = high.value
    BY <1>2, <2>1
  <2> HIDE DEF low, high, M
  <2>4. low.value \in Int /\ high.value \in Int /\ x.value \in Int
    BY <2>2 DEF M
  <2>5. \A P : P \subseteq M => IsFiniteSet(P) /\ Cardinality(P) \in Nat
    BY <1>1, FS_Subset, FS_CardinalityType
  <2>6. {y \in M : y.value < low.value} = {}
    <3>1. Cardinality({y \in M : y.value < low.value}) = 0
      BY <2>2, <2>5 DEF Below
    <3>2. QED
      BY <2>5, <3>1, FS_EmptySet
  <2>7. {y \in M : y.value <= high.value} = M
    <3>1. UpTo(M, high) = Cardinality({y \in M : y.value <= high.value})
      BY DEF UpTo
    <3>2. QED
      BY <1>1, <2>2, <2>5, <3>1, FS_Subset
  <2>8. QED
    BY <2>3, <2>4, <2>6, <2>7
<1>6. QED
  BY <1>1, <1>2, <1>3, <1>4, <1>5

-----------------------------------------------------------------------------
(* Conflicts                                                                 *)

\* The middle of the numbers lies between the lowest and the highest.
LEMMA MedianBetween ==
  ASSUME NEW N \in Nat, N >= 1, NEW seq, Len(seq) = N, \A i \in 1 .. N : seq[i] \in Int,
         NEW low \in Int, NEW high \in Int, \A i \in 1 .. N : low <= seq[i] /\ seq[i] <= high
  PROVE  MedianOf(seq) \in Int /\ low <= MedianOf(seq) /\ MedianOf(seq) <= high
<1>1. CASE N % 2 = 1
  <2>1. (N + 1) \div 2 \in 1 .. N
    BY <1>1
  <2>2. MedianOf(seq) = seq[(N + 1) \div 2]
    BY <1>1 DEF MedianOf
  <2>3. QED
    BY <2>1, <2>2
<1>2. CASE N % 2 # 1
  <2>1. N \div 2 \in 1 .. N /\ N \div 2 + 1 \in 1 .. N
    BY <1>2
  <2>2. MedianOf(seq) = (seq[N \div 2] + seq[N \div 2 + 1]) \div 2
    BY <1>2 DEF MedianOf
  <2>3. \A a, b \in Int : low <= a /\ a <= high /\ low <= b /\ b <= high =>
          (a + b) \div 2 \in Int /\ low <= (a + b) \div 2 /\ (a + b) \div 2 <= high
    OBVIOUS
  <2>4. QED
    BY <2>1, <2>2, <2>3
<1>3. QED
  BY <1>1, <1>2

\* Values further apart than the tolerance at either of them are so at any
\* value between the lowest and the highest as well.
LEMMA SpreadGrows ==
  ASSUME NEW percent \in {2, 5}, NEW x \in Int, NEW y \in Int, NEW low \in Int, NEW high \in Int,
         NEW middle \in Int, low <= x, x <= high, low <= y, y <= high,
         low <= middle, middle <= high,
         100 * (x - y) > percent * Magnitude(x), 100 * (x - y) > percent * Magnitude(y)
  PROVE  100 * (high - low) > percent * Magnitude(middle)
BY DEF Magnitude

\* The sources of a metric are finitely many, and those with a number one.
LEMMA SourcesAre ==
  ASSUME StoreInv, NEW m \in DOMAIN Metrics
  PROVE  /\ IsFiniteSet(LatestView(m).sources)
         /\ \A o \in Measures(LatestView(m).sources) : o.value \in Int
<1> DEFINE S == LatestView(m).sources
           f == [c \in Members |-> Observation(c, Newer(c), m)]
           range == {Observation(c, Newer(c), m) : c \in Members}
           g == [d \in Devices |-> OwnerOf[d]]
<1>1. g \in Surjection(Devices, Members)
  BY DEF Surjection, Members
<1>2. IsFiniteSet(Members)
  BY <1>1, FS_Surjection, TelemetryAssumption
<1>3. f \in Surjection(Members, range)
  BY DEF Surjection
<1>4. IsFiniteSet(range)
  BY <1>2, <1>3, FS_Surjection
<1>5. S \subseteq range
  BY ViewSources
<1>6. IsFiniteSet(S)
  <2> HIDE DEF S, range
  <2>1. QED
    BY <1>4, <1>5, FS_Subset
<1>7. ASSUME NEW o \in Measures(S) PROVE o.value \in Int
  <2>1. PICK c \in Members : /\ Newer(c) # None /\ Select(Newer(c), m) # None
                             /\ o = Observation(c, Newer(c), m)
    BY ViewSources DEF Measures
  <2>2. o.value = Newer(c).values[Select(Newer(c), m)]
    BY <2>1, ObservationFields
  <2>3. Newer(c) \in samples
    BY <2>1, NewerIs
  <2>4. Select(Newer(c), m) \in DOMAIN Newer(c).values
    BY <2>1, SelectIs DEF PresentIn
  <2>5. o.value \in Int \cup Texts \cup {Null}
    BY <2>2, <2>3, <2>4, TelemetryAssumption DEF StoreInv, SampleInv
  <2>6. QED
    BY <2>5 DEF Measures, IsNumber
<1>8. QED
  BY <1>6, <1>7

\* Where reporters disagree beyond the tolerance, there is no value.
LEMMA ConflictIsUnknown ==
  ASSUME StoreInv, NEW m, NEW absolute \in {5, 50}, NEW percent \in {2, 5},
         Disagree(m, absolute, percent)
  PROVE  /\ Resolved(Metric(m), absolute, percent).value = None
         /\ Resolved(Metric(m), absolute, percent).sources = Metric(m).sources
<1> DEFINE obs == Metric(m).sources
           numbers == Numbers(obs)
           N == Cardinality(Measures(obs))
<1>1. PICK x \in Measures(obs), y \in Measures(obs) :
        100 * (x.value - y.value)
          > Max({absolute, percent * Magnitude(x.value), percent * Magnitude(y.value)})
  BY DEF Disagree
<1>2. m \in DOMAIN Metrics
  <2> SUFFICES ASSUME m \notin DOMAIN Metrics PROVE FALSE
    OBVIOUS
  <2>1. obs = {}
    BY DEF Metric, Empty
  <2>2. QED
    BY <2>1 DEF Measures
<1>3. Metric(m) = LatestView(m)
  BY <1>2 DEF Metric
<1>4. IsFiniteSet(obs) /\ \A o \in Measures(obs) : o.value \in Int
  BY <1>2, <1>3, SourcesAre
<1>5. /\ N \in Nat /\ Len(numbers) = N /\ N >= 1
      /\ \A i \in 1 .. N : \E z \in Measures(obs) : numbers[i] = z.value
      /\ \A i \in 1 .. N, z \in Measures(obs) : numbers[1] <= z.value /\ z.value <= numbers[N]
  <2> HIDE DEF obs
  <2>1. QED
    BY <1>1, <1>4, NumbersAre
<1> DEFINE low == numbers[1]
           high == numbers[N]
           middle == MedianOf(numbers)
<1>6. x.value \in Int /\ y.value \in Int /\ low \in Int /\ high \in Int
      /\ \A i \in 1 .. N : numbers[i] \in Int /\ low <= numbers[i] /\ numbers[i] <= high
  <2> HIDE DEF obs, numbers, N
  <2>1. QED
    BY <1>4, <1>5, SMTT(30)
<1>7. middle \in Int /\ low <= middle /\ middle <= high
  <2> HIDE DEF obs, numbers, N
  <2>1. QED
    BY <1>5, <1>6, MedianBetween
<1>8. /\ 100 * (x.value - y.value) > absolute
      /\ 100 * (x.value - y.value) > percent * Magnitude(x.value)
      /\ 100 * (x.value - y.value) > percent * Magnitude(y.value)
  <2>1. Magnitude(x.value) \in Int /\ Magnitude(y.value) \in Int
    BY <1>6 DEF Magnitude
  <2> DEFINE a == absolute
             b == percent * Magnitude(x.value)
             c == percent * Magnitude(y.value)
  <2>2. a \in Int /\ b \in Int /\ c \in Int
    BY <2>1
  <2>3. 100 * (x.value - y.value) \in Int
    BY <1>6
  <2>4. 100 * (x.value - y.value) > Max({a, b, c})
    BY <1>1
  <2> HIDE DEF a, b, c, obs
  <2>5. Max({a, b, c}) \in Int /\ Max({a, b, c}) >= a /\ Max({a, b, c}) >= b /\ Max({a, b, c}) >= c
    BY <2>2, MaxOfThree
  <2>6. 100 * (x.value - y.value) > a /\ 100 * (x.value - y.value) > b
        /\ 100 * (x.value - y.value) > c
    BY <2>2, <2>3, <2>4, <2>5
  <2>7. QED
    BY <2>6 DEF a, b, c
<1>9. low <= x.value /\ x.value <= high /\ low <= y.value /\ y.value <= high
  <2> HIDE DEF obs, numbers, N
  <2>1. QED
    BY <1>5
<1>10. 100 * (high - low) > percent * Magnitude(middle) /\ 100 * (high - low) > absolute
  <2> DEFINE xv == x.value
             yv == y.value
  <2>1. /\ xv \in Int /\ yv \in Int /\ low \in Int /\ high \in Int /\ middle \in Int
        /\ low <= xv /\ xv <= high /\ low <= yv /\ yv <= high
        /\ low <= middle /\ middle <= high
        /\ 100 * (xv - yv) > absolute
        /\ 100 * (xv - yv) > percent * Magnitude(xv)
        /\ 100 * (xv - yv) > percent * Magnitude(yv)
    BY <1>6, <1>7, <1>8, <1>9
  <2> HIDE DEF obs, low, high, middle, xv, yv
  <2>2. 100 * (high - low) > percent * Magnitude(middle)
    BY <2>1, SpreadGrows
  <2>3. QED
    BY <2>1, <2>2
<1>11. 100 * (numbers[Len(numbers)] - numbers[1]) > Max({absolute, percent * Magnitude(middle)})
  <2>1. percent * Magnitude(middle) \in Int /\ absolute \in Int
    BY <1>7 DEF Magnitude
  <2> HIDE DEF obs, numbers, N, middle
  <2>2. Max({absolute, percent * Magnitude(middle)})
          \in {absolute, percent * Magnitude(middle)}
    BY <2>1, MaxOfTwo
  <2>3. QED
    BY <1>5, <1>10, <2>2
<1>12. numbers # <<>>
  <2> HIDE DEF obs, numbers, N
  <2>1. QED
    BY <1>5
<1>13. Resolved(Metric(m), absolute, percent)
         = [Metric(m) EXCEPT !.value = None, !.quality = "conflict"]
  BY <1>11, <1>12, Zenon DEF Resolved, Magnitude
<1>14. QED
  BY <1>3, <1>13 DEF LatestView, Aggregate

LEMMA ConflictsHold == StoreInv => ConflictsStay
<1> SUFFICES ASSUME StoreInv PROVE ConflictsStay
  OBVIOUS
<1>1. ASSUME Disagree("system_charge_current_a", 50, 5)
      PROVE  /\ PowerFlow.measured.systemCharge.value = None
             /\ PowerFlow.measured.systemCharge.sources = Metric("system_charge_current_a").sources
             /\ \A quantity \in {"chargePower", "currentResidual", "powerResidual"} :
                  PowerFlow[quantity].value = None
  <2> DEFINE charge == Resolved(Metric("system_charge_current_a"), 50, 5)
  <2>1. charge.value = None /\ charge.sources = Metric("system_charge_current_a").sources
    BY <1>1, ConflictIsUnknown
  <2>2. Measured.systemCharge = charge
    BY DEF Measured
  <2> HIDE DEF charge
  <2>3. ASSUME NEW x, NEW y, x.value = None
        PROVE  Product(x, y).value = None /\ Difference(x, y).value = None
    BY <2>3 DEF Product, Difference, Derived, Known
  <2> DEFINE m == Measured
             chargePower == Product(m.systemCharge, m.voltage)
             netPower == Product(m.batteryNet, m.voltage)
             loadPower == Product(m.systemLoad, m.loadVoltage)
  <2>4. /\ PowerFlow.measured = m /\ PowerFlow.chargePower = chargePower
        /\ PowerFlow.currentResidual
             = Difference(Difference(m.systemCharge, m.batteryNet), m.systemLoad)
        /\ PowerFlow.powerResidual = Difference(Difference(chargePower, netPower), loadPower)
    <3> HIDE DEF m
    <3>1. QED
      BY DEF PowerFlow, FlowOf, m
  <2>5. m.systemCharge.value = None
    BY <2>1, <2>2
  <2>6. chargePower.value = None
    BY <2>3, <2>5
  <2> HIDE DEF m, chargePower, netPower, loadPower
  <2>7. /\ Difference(Difference(m.systemCharge, m.batteryNet), m.systemLoad).value = None
        /\ Difference(Difference(chargePower, netPower), loadPower).value = None
    BY <2>3, <2>5, <2>6
  <2>8. m.systemCharge.sources = Metric("system_charge_current_a").sources
    BY <2>1, <2>2 DEF m
  <2>9. QED
    BY <2>4, <2>5, <2>6, <2>7, <2>8
<1>2. ASSUME Disagree("system_charge_kwh_daily", 5, 2)
      PROVE  EnergyLedger.battery.value
               \in {None, Metric("daily_charge_wh").value}
                   \cup {v * 1000 : v \in {Metric("daily_charge_kwh").value} \ {None}}
  <2>1. Resolved(Metric("system_charge_kwh_daily"), 5, 2).value = None
    BY <1>2, ConflictIsUnknown
  <2> DEFINE wh == Metric("daily_charge_wh")
             kwh == Metric("daily_charge_kwh")
             total == Resolved(Metric("system_charge_kwh_daily"), 5, 2)
  <2>2. EnergyLedger.battery = BatteryCharge
    BY DEF EnergyLedger, LedgerOf
  <2>3. BatteryCharge = IF wh.value # None THEN wh
                        ELSE Derived(kwh.value # None, kwh.value * 1000)
    <3>1. BatteryCharge = FirstKnown(total, wh, kwh)
      BY Zenon DEF BatteryCharge
    <3>2. total.value = None
      BY <2>1
    <3> HIDE DEF wh, kwh, total
    <3>3. FirstKnown(total, wh, kwh) = IF total.value # None THEN Derived(TRUE, total.value * 1000)
                                       ELSE IF wh.value # None THEN wh
                                       ELSE Derived(kwh.value # None, kwh.value * 1000)
      BY Zenon DEF FirstKnown
    <3>4. QED
      BY <3>1, <3>2, <3>3
  <2> HIDE DEF wh, kwh
  <2>4. BatteryCharge.value \in {None, wh.value} \cup {v * 1000 : v \in {kwh.value} \ {None}}
    BY <2>3 DEF Derived
  <2>5. QED
    BY <2>2, <2>4 DEF wh, kwh
<1>3. QED
  BY <1>1, <1>2 DEF ConflictsStay

-----------------------------------------------------------------------------
(* Components                                                                *)

\* No two controllers have one serial number, and a product is reported once.
SerialsIdentify ==
  \A c, other \in Members :
    SerialOf[c] # None /\ SerialOf[other] # None /\ Folded[SerialOf[c]] = Folded[SerialOf[other]]
      => c = other
ReportedOnce ==
  \A p, other \in Reported :
    p.serial # None /\ other.serial # None /\ Folded[p.serial] = Folded[other.serial] => p = other

LEMMA ComponentsHold == SerialsIdentify /\ ReportedOnce => OneComponentPerDevice
<1> SUFFICES ASSUME SerialsIdentify, ReportedOnce PROVE OneComponentPerDevice
  OBVIOUS
<1> DEFINE controllerOf(c) == [node |-> "controller", id |-> c, serial |-> SerialOf[c]]
           productOf(p) == [node |-> "product", id |-> p, serial |-> p.serial]
           target(p) == IF SameSerial(p.serial) # {} THEN CHOOSE c \in SameSerial(p.serial) : TRUE ELSE p
           parts == {z \in Graph.components : z.node \in {"controller", "product"}}
<1>1. /\ Graph.components = {[node |-> "system"], [node |-> "battery_bus"]}
                            \cup {controllerOf(c) : c \in Members}
                            \cup {productOf(p) : p \in {q \in Reported : SameSerial(q.serial) = {}}}
      /\ Graph.monitors = {[from |-> p.host, to |-> target(p)] : p \in Reported}
  BY Zenon DEF Graph
<1>2. ASSUME NEW z \in parts
      PROVE  \/ \E c \in Members : z = controllerOf(c)
             \/ \E p \in Reported : SameSerial(p.serial) = {} /\ z = productOf(p)
  BY <1>1
<1>3. /\ \A c \in Members : controllerOf(c) \in parts
      /\ \A p \in Reported : SameSerial(p.serial) = {} => productOf(p) \in parts
  BY <1>1
<1>4. ASSUME NEW x \in parts, NEW y \in parts, x.serial # None, y.serial # None,
             Folded[x.serial] = Folded[y.serial]
      PROVE  x = y
  <2>1. ASSUME NEW c \in Members, NEW p \in Reported, SameSerial(p.serial) = {},
               SerialOf[c] # None, p.serial # None
        PROVE  Folded[SerialOf[c]] # Folded[p.serial]
    BY <2>1 DEF SameSerial
  <2>2. QED
    BY <1>2, <1>4, <2>1 DEF SerialsIdentify, ReportedOnce
<1>5. ASSUME NEW e \in Graph.monitors PROVE \E z \in parts : z.id = e.to
  <2>1. PICK p \in Reported : e.to = target(p)
    <3> HIDE DEF target
    <3>1. PICK p \in Reported : e = [from |-> p.host, to |-> target(p)]
      BY <1>1
    <3>2. QED
      BY <3>1
  <2>2. CASE SameSerial(p.serial) # {}
    <3>1. target(p) \in Members
      BY <2>2 DEF SameSerial
    <3>2. controllerOf(target(p)) \in parts /\ controllerOf(target(p)).id = target(p)
      BY <1>3, <3>1
    <3>3. QED
      BY <2>1, <3>2
  <2>3. CASE SameSerial(p.serial) = {}
    <3>1. target(p) = p
      BY <2>3
    <3>2. productOf(p) \in parts /\ productOf(p).id = p
      BY <1>3, <2>3
    <3>3. QED
      BY <2>1, <3>1, <3>2
  <2>4. QED
    BY <2>2, <2>3
<1> HIDE DEF parts
<1>6. QED
  BY <1>4, <1>5, Zenon DEF OneComponentPerDevice, parts

-----------------------------------------------------------------------------
(* Days and buckets                                                          *)

LEMMA DayIs ==
  ASSUME NEW t \in Int
  PROVE  /\ UtcDay(t) \in Int /\ DayStart(t) = DayLength * UtcDay(t) /\ DayStart(t) \in Int
         /\ \A k \in Int : t >= DayLength * k <=> UtcDay(t) >= k
<1>1. DayLength \in Nat \ {0}
  BY TelemetryAssumption
<1>2. DayStart(t) = t - (t % DayLength)
  BY DEF DayStart, Hour
<1>3. /\ t \div DayLength \in Int /\ t - (t % DayLength) = DayLength * (t \div DayLength)
      /\ \A k \in Int : t >= DayLength * k <=> t \div DayLength >= k
  BY Zenon, <1>1, Quotient
<1> DEFINE d == t \div DayLength
<1>4. UtcDay(t) = d
  BY DEF UtcDay
<1>5. DayStart(t) = DayLength * d
  BY <1>2, <1>3
<1> HIDE DEF d
<1>6. DayLength * d \in Int
  BY <1>1, <1>3 DEF d
<1>7. QED
  BY <1>3, <1>4, <1>5, <1>6 DEF d

\* A bucket lies within a day.
LEMMA BucketDay ==
  ASSUME NEW t \in Nat
  PROVE  /\ BucketOf(t, Bucket) \in Int /\ UtcDay(BucketOf(t, Bucket)) = UtcDay(t)
<1> DEFINE b == BucketOf(t, Bucket)
           d == UtcDay(t)
           n == DayLength \div Bucket
<1>1. Bucket \in Nat \ {0} /\ DayLength \in Nat \ {0} /\ DayLength % Bucket = 0
  BY TelemetryAssumption, ForecastAssumption
<1>2. b = Bucket * (t \div Bucket) /\ t \div Bucket \in Int /\ b \in Int /\ b <= t
  <2>1. b = t - (t % Bucket)
    BY DEF BucketOf
  <2>0. t \in Int
    OBVIOUS
  <2>2. /\ t \div Bucket \in Int /\ t % Bucket \in Nat
        /\ t - (t % Bucket) = Bucket * (t \div Bucket)
    BY Zenon, <1>1, <2>0, Quotient
  <2> HIDE DEF b
  <2>3. QED
    BY <2>1, <2>2
<1>3. n \in Int /\ DayLength = Bucket * n
  <2>1. DayLength \in Int
    BY <1>1
  <2>2. n \in Int /\ DayLength = Bucket * n + 0
    BY <1>1, <2>1, Quotient
  <2> HIDE DEF n
  <2>3. QED
    BY <1>1, <2>2
<1>4. d \in Int /\ t >= DayLength * d
  BY DayIs
<1> HIDE DEF b, d, n
<1>5. DayLength * d = Bucket * (n * d) /\ n * d \in Int
  BY <1>1, <1>3, <1>4
<1>6. t \div Bucket >= n * d
  <2>1. t \in Int /\ t >= Bucket * (n * d)
    BY <1>4, <1>5
  <2>2. QED
    BY Zenon, <1>1, <1>5, <2>1, Quotient
<1>7. b >= DayLength * d
  <2> DEFINE q == t \div Bucket
  <2> HIDE DEF q
  <2>0. q \in Int /\ q >= n * d
    BY <1>2, <1>6 DEF q
  <2>1. Bucket * q - Bucket * (n * d) = Bucket * (q - n * d) /\ q - n * d >= 0
    <3> DEFINE p == n * d
    <3>1. p \in Int
      BY <1>5
    <3> HIDE DEF p
    <3>2. Bucket * q - Bucket * p = Bucket * (q - p) /\ q - p >= 0
      BY <1>1, <2>0, <3>1 DEF p
    <3>3. QED
      BY <3>2 DEF p
  <2>2. Bucket * (q - n * d) >= 0
    <3>1. \A x \in Int : x >= 0 => Bucket * x >= 0
      BY <1>1
    <3>2. q - n * d \in Int
      BY <1>2, <1>5 DEF q
    <3>3. QED
      BY <2>1, <3>1, <3>2
  <2>3. Bucket * q \in Int /\ Bucket * (n * d) \in Int
    BY <1>1, <1>2, <1>5 DEF q
  <2>4. QED
    BY <1>2, <1>5, <2>1, <2>2, <2>3 DEF q
<1>8. UtcDay(b) \in Int /\ UtcDay(b) >= d
  BY <1>2, <1>4, <1>7, DayIs
<1>9. UtcDay(b) <= d
  <2>1. b >= DayLength * UtcDay(b)
    BY <1>2, <1>8, DayIs
  <2>2. DayLength * UtcDay(b) \in Int
    BY <1>1, <1>8
  <2>3. t >= DayLength * UtcDay(b)
    BY <1>2, <2>1, <2>2
  <2>4. QED
    BY <1>8, <2>3, DayIs DEF d
<1>10. QED
  BY <1>2, <1>4, <1>8, <1>9 DEF b, d

-----------------------------------------------------------------------------
(* Solar curves                                                              *)

\* Two windows that hold the same of some days.
Alike(w, v, days) == \A t \in Nat : UtcDay(t) \in days => (InWindow(t, w) <=> InWindow(t, v))

CellOf(m, w, s, b) ==
  {x \in RowsOf(AllDevices, NamesOf(m), w) : IsNumber(x.value) /\ BucketOf(x.at, s) = b}
CellRows(S, b) ==
  {[uid |-> OwnerOf[x.dev], dev |-> x.dev, at |-> b, reg |-> x.reg,
    value |-> MeanOf({y \in S : y.dev = x.dev /\ y.reg = x.reg})] : x \in S}
CellPoint(m, S, b) == PointAt(b, Aggregate(m, OnePerController(m, CellRows(S, b))))

\* A bucket is made of its own rows only.
LEMMA BucketedIs ==
  ASSUME NEW m, NEW w, NEW s, NEW p
  PROVE  p \in Bucketed(m, w, s) <=>
           \E b : CellOf(m, w, s, b) # {} /\ p = CellPoint(m, CellOf(m, w, s, b), b)
<1> DEFINE found == {x \in RowsOf(AllDevices, NamesOf(m), w) : IsNumber(x.value)}
           group(x) == {y \in found : /\ y.dev = x.dev /\ y.reg = x.reg
                                      /\ BucketOf(y.at, s) = BucketOf(x.at, s)}
           rows(b) == {[uid |-> OwnerOf[x.dev], dev |-> x.dev, at |-> b, reg |-> x.reg,
                        value |-> MeanOf(group(x))] : x \in {y \in found : BucketOf(y.at, s) = b}}
           starts == {BucketOf(x.at, s) : x \in found}
           cell(b) == CellOf(m, w, s, b)
<1>1. Bucketed(m, w, s) = {PointAt(b, Aggregate(m, OnePerController(m, rows(b)))) : b \in starts}
  BY Zenon DEF Bucketed
<1>2. ASSUME NEW b PROVE rows(b) = CellRows(cell(b), b)
  <2>1. cell(b) = {y \in found : BucketOf(y.at, s) = b}
    BY DEF CellOf
  <2>2. ASSUME NEW x \in cell(b)
        PROVE  group(x) = {y \in cell(b) : y.dev = x.dev /\ y.reg = x.reg}
    BY <2>1
  <2> DEFINE own(x) == {y \in cell(b) : y.dev = x.dev /\ y.reg = x.reg}
             row(x, S) == [uid |-> OwnerOf[x.dev], dev |-> x.dev, at |-> b, reg |-> x.reg,
                           value |-> MeanOf(S)]
  <2>3. rows(b) = {row(x, group(x)) : x \in cell(b)}
    BY <2>1, Zenon
  <2>4. CellRows(cell(b), b) = {row(x, own(x)) : x \in cell(b)}
    BY Zenon DEF CellRows
  <2>5. \A x \in cell(b) : group(x) = own(x)
    BY <2>2
  <2> HIDE DEF row, group, own, cell
  <2>6. QED
    BY <2>3, <2>4, <2>5, Zenon
<1>3. \A b : b \in starts <=> cell(b) # {}
  BY DEF CellOf
<1> DEFINE point(b) == PointAt(b, Aggregate(m, OnePerController(m, rows(b))))
<1>4. \A b : point(b) = CellPoint(m, cell(b), b)
  BY <1>2, Zenon DEF CellPoint
<1>5. Bucketed(m, w, s) = {point(b) : b \in starts}
  BY <1>1
<1> HIDE DEF starts, cell, point
<1>6. p \in Bucketed(m, w, s) <=> \E b : cell(b) # {} /\ p = CellPoint(m, cell(b), b)
  BY <1>3, <1>4, <1>5, Zenon
<1>7. QED
  BY <1>6, Zenon DEF cell

LEMMA CellsAlike ==
  ASSUME StoreInv, NEW m, NEW w, NEW v, NEW days, Alike(w, v, days), NEW b, UtcDay(b) \in days
  PROVE  CellOf(m, w, Bucket, b) = CellOf(m, v, Bucket, b)
<1>1. ASSUME NEW x, IsRow(x), BucketOf(x.at, Bucket) = b
      PROVE  InWindow(x.at, w) <=> InWindow(x.at, v)
  <2>1. x.at \in Nat /\ UtcDay(x.at) = UtcDay(b)
    BY <1>1, BucketDay DEF IsRow
  <2>2. QED
    BY <2>1 DEF Alike
<1>2. ASSUME NEW x \in CellOf(m, w, Bucket, b) PROVE x \in CellOf(m, v, Bucket, b)
  <2>1. IsRow(x) /\ x.dev \in AllDevices /\ x.reg \in NamesOf(m) /\ InWindow(x.at, w)
        /\ BucketOf(x.at, Bucket) = b /\ IsNumber(x.value)
    BY RowsAreRows DEF CellOf
  <2>2. x \in RowsOf(AllDevices, NamesOf(m), v)
    BY <1>1, <2>1, RowFound
  <2>3. QED
    BY <2>1, <2>2 DEF CellOf
<1>3. ASSUME NEW x \in CellOf(m, v, Bucket, b) PROVE x \in CellOf(m, w, Bucket, b)
  <2>1. IsRow(x) /\ x.dev \in AllDevices /\ x.reg \in NamesOf(m) /\ InWindow(x.at, v)
        /\ BucketOf(x.at, Bucket) = b /\ IsNumber(x.value)
    BY RowsAreRows DEF CellOf
  <2>2. x \in RowsOf(AllDevices, NamesOf(m), w)
    BY <1>1, <2>1, RowFound
  <2>3. QED
    BY <2>1, <2>2 DEF CellOf
<1>4. QED
  BY <1>2, <1>3

LEMMA PointStart == ASSUME NEW m, NEW S, NEW b PROVE CellPoint(m, S, b).start = b
BY DEF CellPoint, PointAt

\* The points of those days are the same.
LEMMA PointsAlike ==
  ASSUME StoreInv, NEW w, NEW v, NEW days, Alike(w, v, days), NEW p \in SolarPoints(w),
         UtcDay(p.start) \in days
  PROVE  p \in SolarPoints(v)
<1> DEFINE m == "solar_input_power_w"
<1>1. p \in Bucketed(m, w, Bucket) /\ p.value # None
  BY DEF SolarPoints
<1>2. PICK b : CellOf(m, w, Bucket, b) # {} /\ p = CellPoint(m, CellOf(m, w, Bucket, b), b)
  BY <1>1, BucketedIs
<1>3. UtcDay(b) \in days
  BY <1>2, PointStart
<1>4. CellOf(m, v, Bucket, b) = CellOf(m, w, Bucket, b)
  BY <1>3, CellsAlike
<1>5. p \in Bucketed(m, v, Bucket)
  BY <1>2, <1>4, BucketedIs
<1>6. QED
  BY <1>1, <1>5 DEF SolarPoints

\* The day of a point is one of its rows'.
LEMMA PointDay ==
  ASSUME StoreInv, NEW w, NEW p \in SolarPoints(w)
  PROVE  \E t \in Nat : InWindow(t, w) /\ t < clock /\ UtcDay(p.start) = UtcDay(t)
<1> DEFINE m == "solar_input_power_w"
<1>1. PICK b : CellOf(m, w, Bucket, b) # {} /\ p = CellPoint(m, CellOf(m, w, Bucket, b), b)
  BY BucketedIs DEF SolarPoints
<1>2. PICK x \in CellOf(m, w, Bucket, b) : TRUE
  BY <1>1
<1>3. x.at \in Nat /\ x.at < clock /\ InWindow(x.at, w) /\ BucketOf(x.at, Bucket) = b
  BY RowsAreRows DEF CellOf, IsRow
<1>4. UtcDay(p.start) = UtcDay(x.at)
  BY <1>1, <1>3, PointStart, BucketDay
<1>5. QED
  BY <1>3, <1>4

PointsOn(points, d) == {b \in points : UtcDay(b.start) = d}
CurveOn(own) == [h \in {Hour(b.start) : b \in own} |-> (CHOOSE b \in own : Hour(b.start) = h).value]

LEMMA CurvesAre ==
  ASSUME NEW points
  PROVE  /\ \A d : d \in DOMAIN Curves(points) <=> PointsOn(points, d) # {}
         /\ \A d \in DOMAIN Curves(points) : Curves(points)[d] = CurveOn(PointsOn(points, d))
<1>1. Curves(points) = [d \in {UtcDay(b.start) : b \in points} |-> CurveOn(PointsOn(points, d))]
  BY Zenon DEF Curves, CurveOn, PointsOn
<1>2. \A d : d \in {UtcDay(b.start) : b \in points} <=> PointsOn(points, d) # {}
  BY DEF PointsOn
<1>3. QED
  BY <1>1, <1>2

SolarOf(w) == Curves(SolarPoints(w))

LEMMA CurvesAlike ==
  ASSUME StoreInv, NEW w, NEW v, NEW days, Alike(w, v, days), NEW d \in days
  PROVE  /\ d \in DOMAIN SolarOf(w) <=> d \in DOMAIN SolarOf(v)
         /\ d \in DOMAIN SolarOf(w) => SolarOf(w)[d] = SolarOf(v)[d]
<1>1. Alike(v, w, days)
  BY DEF Alike
<1>2. PointsOn(SolarPoints(w), d) = PointsOn(SolarPoints(v), d)
  BY <1>1, PointsAlike DEF PointsOn
<1>3. QED
  BY <1>2, CurvesAre DEF SolarOf

-----------------------------------------------------------------------------
(* Forecasts                                                                 *)

\* What a forecast reads, and what of it was there at midnight.
UntilNow(now) == Window(now, HistoryDays)
UntilMidnight(now) == [Window(now, HistoryDays) EXCEPT !.to = DayStart(now)]
OtherDays(now) == Int \ {UtcDay(now)}

LEMMA TodayIs ==
  ASSUME NEW now \in Nat, NEW t \in Nat
  PROVE  /\ UtcDay(t) \in Int
         /\ InWindow(t, UntilMidnight(now)) <=> InWindow(t, UntilNow(now)) /\ t < DayStart(now)
         /\ t < now => (UtcDay(t) # UtcDay(now) <=> t < DayStart(now))
         /\ InWindow(t, UntilNow(now)) => t < now
<1> DEFINE from == DayStart(now) - HistoryDays * DayLength
           start == DayStart(now)
           today == UtcDay(now)
<1>1. today \in Int /\ start = DayLength * today /\ start \in Int /\ now >= start
      /\ UtcDay(t) \in Int /\ (t >= start <=> UtcDay(t) >= today)
      /\ t >= DayLength * UtcDay(t) /\ (now >= DayLength * UtcDay(t) <=> today >= UtcDay(t))
  <2>1. today \in Int /\ start = DayLength * today /\ start \in Int /\ UtcDay(t) \in Int
    BY DayIs
  <2>2. \A k \in Int : now >= DayLength * k <=> today >= k
    BY DayIs
  <2>3. \A k \in Int : t >= DayLength * k <=> UtcDay(t) >= k
    BY DayIs
  <2> DEFINE d == UtcDay(t)
  <2> HIDE DEF start, today, d
  <2>4. today >= today /\ d >= d
    BY <2>1 DEF d
  <2>5. QED
    BY <2>1, <2>2, <2>3, <2>4 DEF d
<1>2. UntilNow(now) = [from |-> from, to |-> now] /\ UntilMidnight(now) = [from |-> from, to |-> start]
  BY DEF UntilNow, UntilMidnight, Window
<1>3. now # None /\ start # None
  BY <1>1, TelemetryAssumption
<1>4. DayLength * UtcDay(t) \in Int
  BY <1>1, TelemetryAssumption
<1> HIDE DEF from, start, today
<1>5. /\ InWindow(t, UntilNow(now)) <=> (from # None => t >= from) /\ t < now
      /\ InWindow(t, UntilMidnight(now)) <=> (from # None => t >= from) /\ t < start
  BY <1>2, <1>3 DEF InWindow
<1>6. QED
  BY <1>1, <1>4, <1>5 DEF start, today

LEMMA MidnightAlike ==
  ASSUME NEW now \in Nat
  PROVE  Alike(UntilNow(now), UntilMidnight(now), OtherDays(now))
<1> SUFFICES ASSUME NEW t \in Nat, UtcDay(t) # UtcDay(now)
             PROVE  InWindow(t, UntilNow(now)) <=> InWindow(t, UntilMidnight(now))
  BY DEF Alike, OtherDays
<1>1. QED
  BY TodayIs

LEMMA PointDayIs ==
  ASSUME StoreInv, NEW w, NEW p \in SolarPoints(w)
  PROVE  UtcDay(p.start) \in Int
BY PointDay, DayIs

\* The days a curve of the history is trained on, and their curves.
LEMMA TrainingAlike ==
  ASSUME StoreInv
  PROVE  LET c == SolarOf(UntilNow(clock))
             e == SolarOf(UntilMidnight(clock))
         IN /\ TrainingOf(c, clock) = TrainingOf(e, clock)
            /\ \A d \in TrainingOf(c, clock) : c[d] = e[d]
<1> DEFINE c == SolarOf(UntilNow(clock))
           e == SolarOf(UntilMidnight(clock))
<1>0. clock \in Nat
  BY DEF StoreInv, PastInv
<1>1. \A w : \A d \in DOMAIN SolarOf(w) : d \in Int
  BY CurvesAre, PointDayIs DEF SolarOf, PointsOn
<1>2. ASSUME NEW d \in OtherDays(clock)
      PROVE  (d \in DOMAIN c <=> d \in DOMAIN e) /\ (d \in DOMAIN c => c[d] = e[d])
  BY <1>0, MidnightAlike, CurvesAlike
<1>3. \A d \in DOMAIN c \cup DOMAIN e : OtherDay(d, clock) <=> d \in OtherDays(clock)
  BY <1>1 DEF OtherDay, OtherDays
<1> HIDE DEF c, e
<1>4. QED
  BY <1>2, <1>3 DEF TrainingOf, c, e

LEMMA BandsAlike ==
  ASSUME StoreInv
  PROVE  SolarForecast(clock, UntilNow(clock)).bands = SolarForecast(clock, UntilMidnight(clock)).bands
<1> DEFINE hours == {x \in 0 .. DayLength - 1 : x % Bucket = 0}
           days(c, h) == {d \in TrainingOf(c, clock) : h \in DOMAIN c[d]}
           c == SolarOf(UntilNow(clock))
           e == SolarOf(UntilMidnight(clock))
<1>1. ASSUME NEW w
      PROVE  SolarForecast(clock, w).bands = [h \in hours |-> BandsAt(SolarOf(w), clock, h)]
  <2> DEFINE curves == SolarOf(w)
             bands == [h \in hours |-> BandsAt(curves, clock, h)]
             today == IF UtcDay(clock) \in DOMAIN curves THEN curves[UtcDay(clock)] ELSE <<>>
  <2>1. SolarForecast(clock, w)
          = DayForecast(today, bands, Cardinality(TrainingOf(curves, clock)), clock)
    BY Zenon DEF SolarForecast, ForecastFrom, SolarOf
  <2> HIDE DEF bands, today
  <2>2. DayForecast(today, bands, Cardinality(TrainingOf(curves, clock)), clock).bands = bands
    BY DEF DayForecast
  <2>3. QED
    BY <2>1, <2>2 DEF bands
<1>2. ASSUME NEW h PROVE BandsAt(c, clock, h) = BandsAt(e, clock, h)
  <2>1. TrainingOf(c, clock) = TrainingOf(e, clock) /\ \A d \in TrainingOf(c, clock) : c[d] = e[d]
    BY TrainingAlike
  <2> HIDE DEF c, e
  <2>2. days(c, h) = days(e, h)
    BY <2>1
  <2>3. [d \in days(c, h) |-> c[d][h]] = [d \in days(e, h) |-> e[d][h]]
    BY <2>1, <2>2
  <2>4. QED
    BY <2>3, Zenon DEF BandsAt
<1>3. QED
  BY <1>1, <1>2

\* The baseline is made of the points of other days.
BaselineOf(near) ==
  LET own(d) == {b \in near : UtcDay(b.start) = d}
      means == [d \in {UtcDay(b.start) : b \in near} |->
                  MapThenSumSet(LAMBDA b : b.value, own(d)) \div Cardinality(own(d))]
  IN [days |-> Cardinality(DOMAIN means), bands |-> Bands(InOrder(means))]
NearPoints(now, w) ==
  {b \in SolarPoints(w) : /\ OtherDay(UtcDay(b.start), now)
                          /\ Hour(b.start) - Hour(now) \in -BaselineReach .. BaselineReach}

LEMMA BaselineAlike ==
  ASSUME StoreInv
  PROVE  SolarBaseline(clock, UntilNow(clock)) = SolarBaseline(clock, UntilMidnight(clock))
<1>0. clock \in Nat
  BY DEF StoreInv, PastInv
<1>1. \A w : SolarBaseline(clock, w) = BaselineOf(NearPoints(clock, w))
  BY Zenon DEF SolarBaseline, BaselineOf, NearPoints
<1>2. Alike(UntilNow(clock), UntilMidnight(clock), OtherDays(clock))
      /\ Alike(UntilMidnight(clock), UntilNow(clock), OtherDays(clock))
  BY <1>0, MidnightAlike DEF Alike
<1>3. \A w : \A p \in NearPoints(clock, w) : p \in SolarPoints(w) /\ UtcDay(p.start) \in OtherDays(clock)
  BY PointDayIs DEF NearPoints, OtherDay, OtherDays
<1>4. NearPoints(clock, UntilNow(clock)) = NearPoints(clock, UntilMidnight(clock))
  <2>1. \A p \in NearPoints(clock, UntilNow(clock)) : p \in SolarPoints(UntilMidnight(clock))
    BY <1>2, <1>3, PointsAlike
  <2>2. \A p \in NearPoints(clock, UntilMidnight(clock)) : p \in SolarPoints(UntilNow(clock))
    BY <1>2, <1>3, PointsAlike
  <2>3. QED
    BY <2>1, <2>2 DEF NearPoints
<1>5. QED
  BY <1>1, <1>4

-----------------------------------------------------------------------------
(* When a controller floats                                                  *)

ChargeRows(c, w) == RowsOf(DevicesOf(c), {"charge_state"}, w)
StatesOf(c, w) ==
  {x \in ToSet(RegisterHistory(DevicesOf(c), "charge_state", w, "asc", MaxRegisterRows)) :
     x.value # Null}
\* The windows of ChargeForecast, with and without today.
ChargeNow == ChargeWindow(clock, UntilNow(clock))
ChargeMidnight == ChargeWindow(clock, UntilMidnight(clock))
OnDay(states, d) == {x \in states : UtcDay(x.at) = d}

\* The rows of the days before today are found whether or not today's are read.
LEMMA RowsBeforeToday ==
  ASSUME StoreInv, NEW c
  PROVE  ChargeRows(c, ChargeMidnight)
           = {y \in ChargeRows(c, ChargeNow) : y.at < DayStart(clock)}
<1>0. clock \in Nat
  BY DEF StoreInv, PastInv
<1>1. ASSUME NEW w, NEW v, NEW y \in ChargeRows(c, w), InWindow(y.at, v)
      PROVE  y \in ChargeRows(c, v)
  BY <1>1, RowsAreRows, RowFound DEF ChargeRows
<1>2. \A w : \A y \in ChargeRows(c, w) : y.at \in Nat /\ InWindow(y.at, w)
  BY RowsAreRows DEF ChargeRows, IsRow
<1>3. \A t \in Nat : InWindow(t, ChargeMidnight)
                       <=> InWindow(t, ChargeNow) /\ t < DayStart(clock)
  <2> DEFINE from == clock - HistoryDays * DayLength
             start == DayStart(clock)
  <2>1. start \in Int /\ start <= clock
    BY <1>0, DayIs
  <2>2. start # None /\ clock # None
    BY <1>0, <2>1, TelemetryAssumption
  <2>3. ChargeNow = [from |-> from, to |-> clock] /\ ChargeMidnight = [from |-> from, to |-> start]
    BY DEF ChargeNow, ChargeMidnight, ChargeWindow, UntilNow, UntilMidnight, Window
  <2> HIDE DEF from, start
  <2>4. \A t \in Nat : /\ InWindow(t, ChargeNow) <=> (from # None => t >= from) /\ t < clock
                       /\ InWindow(t, ChargeMidnight) <=> (from # None => t >= from) /\ t < start
    BY <2>2, <2>3 DEF InWindow
  <2> QED
    BY <1>0, <2>1, <2>4 DEF start
<1>4. QED
  BY <1>1, <1>2, <1>3

LEMMA StatesAlike ==
  ASSUME StoreInv, NEW c, NEW d, d # UtcDay(clock)
  PROVE  OnDay(StatesOf(c, ChargeNow), d) = OnDay(StatesOf(c, ChargeMidnight), d)
<1> DEFINE S == ChargeRows(c, ChargeNow)
           T == ChargeRows(c, ChargeMidnight)
           first(R) == {y \in R : Cardinality({z \in R : z.at < y.at}) < MaxRegisterRows}
<1>0. clock \in Nat
  BY DEF StoreInv, PastInv
<1>1. T = {y \in S : y.at < DayStart(clock)}
  BY RowsBeforeToday
<1>2. \A y \in S : y.at \in Nat /\ y.at < clock
  BY RowsAreRows DEF ChargeRows, IsRow
<1>3. DayStart(clock) \in Int
  BY <1>0, DayIs
<1>4. \A w : StatesOf(c, w) = {x \in {Normalized(y) : y \in first(ChargeRows(c, w))} : x.value # Null}
  BY HistoryIs, Zenon DEF StatesOf, ChargeRows
<1>5. \A y : Normalized(y).at = y.at
  BY DEF Normalized
<1>6. ASSUME NEW y \in T PROVE y \in first(S) <=> y \in first(T)
  <2>1. y \in S /\ y.at \in Nat /\ y.at < DayStart(clock)
    BY <1>1, <1>2
  <2>2. {z \in S : z.at < y.at} = {z \in T : z.at < y.at}
    <3> HIDE DEF S, T
    <3>1. QED
      BY <1>1, <1>2, <1>3, <2>1
  <2> HIDE DEF S, T
  <2>3. QED
    BY <2>1, <2>2
<1>7. ASSUME NEW y \in S, UtcDay(y.at) = d PROVE y \in T
  <2>1. y.at < DayStart(clock)
    BY <1>0, <1>2, <1>7, TodayIs
  <2>2. QED
    BY <1>1, <2>1
<1>8. \A y : UtcDay(y.at) = d => (y \in first(S) <=> y \in first(T))
  BY <1>1, <1>6, <1>7
<1> DEFINE told(R) == {Normalized(y) : y \in first(R)}
<1>9. OnDay(StatesOf(c, ChargeNow), d) = {x \in told(S) : x.value # Null /\ UtcDay(x.at) = d}
      /\ OnDay(StatesOf(c, ChargeMidnight), d)
           = {x \in told(T) : x.value # Null /\ UtcDay(x.at) = d}
  BY <1>4 DEF OnDay
<1>10. \A x : UtcDay(x.at) = d => (x \in told(S) <=> x \in told(T))
  <2> DEFINE A == first(S)
             B == first(T)
  <2>1. \A y : UtcDay(y.at) = d => (y \in A <=> y \in B)
    BY <1>8
  <2> HIDE DEF A, B
  <2>2. \A x : UtcDay(x.at) = d =>
          (x \in {Normalized(y) : y \in A} <=> x \in {Normalized(y) : y \in B})
    BY <1>5, <2>1
  <2>3. QED
    BY <2>2 DEF A, B
<1> HIDE DEF told
<1>11. QED
  BY <1>9, <1>10

\* A float forecast is made of the states of each day that may teach it.
FloatDays(states, now) ==
  {d \in {UtcDay(x.at) : x \in states} : OtherDay(d, now) /\ Cardinality(OnDay(states, d)) >= MinStates}
FloatingOn(states, d) == {x \in OnDay(states, d) : x.value = FloatText}
FloatTimes(states, now) ==
  [d \in {e \in FloatDays(states, now) : FloatingOn(states, e) # {}} |->
     Hour(Oldest(FloatingOn(states, d)).at)]
FloatOf(newest, days, times) ==
  LET ready == Cardinality(days) >= MinTrainingDays
  IN [now |-> newest # None /\ "charge_state" \in DOMAIN newest.values
              /\ newest.values["charge_state"] = FloatText,
      ready |-> ready, days |-> Cardinality(days), floatDays |-> Cardinality(DOMAIN times),
      expected |-> IF ready THEN Bands(InOrder(times)).middle ELSE None]

LEMMA FloatForecastIs ==
  ASSUME NEW states, NEW newest, NEW now
  PROVE  FloatForecast(states, newest, now)
           = FloatOf(newest, FloatDays(states, now), FloatTimes(states, now))
<1> DEFINE days == FloatDays(states, now)
           floated == {d \in days : FloatingOn(states, d) # {}}
           times == [d \in floated |-> Hour(Oldest(FloatingOn(states, d)).at)]
           ready == Cardinality(days) >= MinTrainingDays
<1>1. FloatForecast(states, newest, now) =
        [now |-> newest # None /\ "charge_state" \in DOMAIN newest.values
                 /\ newest.values["charge_state"] = FloatText,
         ready |-> ready, days |-> Cardinality(days), floatDays |-> Cardinality(floated),
         expected |-> IF ready THEN Bands(InOrder(times)).middle ELSE None]
  BY Zenon DEF FloatForecast, FloatDays, FloatingOn, OnDay
<1>2. times = FloatTimes(states, now)
  BY Zenon DEF FloatTimes
<1>3. floated = DOMAIN times
  OBVIOUS
<1> HIDE DEF floated, times, days
<1>4. QED
  BY <1>1, <1>2, <1>3, Zenon DEF FloatOf, days

LEMMA ChargeAlike ==
  ASSUME StoreInv, NEW c
  PROVE  ChargeForecast(c, clock, UntilNow(clock)) = ChargeForecast(c, clock, UntilMidnight(clock))
<1> DEFINE S == StatesOf(c, ChargeNow)
           T == StatesOf(c, ChargeMidnight)
           newest == LatestSample(DevicesOf(c))
<1>1. /\ ChargeForecast(c, clock, UntilNow(clock)) = FloatForecast(S, newest, clock)
      /\ ChargeForecast(c, clock, UntilMidnight(clock)) = FloatForecast(T, newest, clock)
  BY Zenon DEF ChargeForecast, StatesOf, ChargeNow, ChargeMidnight
<1>2. \A d : OtherDay(d, clock) => OnDay(S, d) = OnDay(T, d)
  BY StatesAlike DEF OtherDay
<1>3. \A R, d : d \in {UtcDay(x.at) : x \in R} <=> OnDay(R, d) # {}
  BY DEF OnDay
<1> HIDE DEF S, T, newest
<1>4. FloatDays(S, clock) = FloatDays(T, clock)
  BY <1>2, <1>3 DEF FloatDays
<1>5. \A d \in FloatDays(S, clock) : FloatingOn(S, d) = FloatingOn(T, d)
  BY <1>2 DEF FloatDays, FloatingOn
<1> DEFINE D == {e \in FloatDays(S, clock) : FloatingOn(S, e) # {}}
           E == {e \in FloatDays(T, clock) : FloatingOn(T, e) # {}}
           time(R, d) == Hour(Oldest(FloatingOn(R, d)).at)
<1>6. D = E
  BY <1>4, <1>5
<1>7. \A d \in D : time(S, d) = time(T, d)
  BY <1>5
<1>8. FloatTimes(S, clock) = [d \in D |-> time(S, d)] /\ FloatTimes(T, clock) = [d \in E |-> time(T, d)]
  BY Zenon DEF FloatTimes
<1> HIDE DEF D, E, time
<1>9. FloatTimes(S, clock) = FloatTimes(T, clock)
  BY <1>6, <1>7, <1>8
<1>10. FloatForecast(S, newest, clock) = FloatForecast(T, newest, clock)
  BY <1>4, <1>9, FloatForecastIs
<1>11. QED
  BY <1>1, <1>10 DEF S, T

\* The forecasts are the same with and without today.
LEMMA BlindHolds == StoreInv => ForecastsBlind
<1> SUFFICES ASSUME StoreInv PROVE ForecastsBlind
  OBVIOUS
<1> DEFINE k == UntilNow(clock)
           m == UntilMidnight(clock)
           of(c, w) == [uid |-> c] @@ ChargeForecast(c, clock, w)
           charges(w) == {of(c, w) : c \in Members}
<1>1. \A w : SystemForecast(clock, w) = ForecastOf(SolarForecast(clock, w), charges(w))
  BY Zenon DEF SystemForecast
<1>2. charges(k) = charges(m)
  <2>1. \A c \in Members : ChargeForecast(c, clock, k) = ChargeForecast(c, clock, m)
    BY ChargeAlike
  <2> HIDE DEF k, m
  <2>2. \A c \in Members : of(c, k) = of(c, m)
    BY <2>1, Zenon
  <2> HIDE DEF of
  <2>3. QED
    BY <2>2
<1> DEFINE foretold(solar, set, baseline) ==
             LET f == ForecastOf(solar, set) IN
             [bands |-> f.solar.bands, charges |-> f.charges, all |-> f.all, last |-> f.last,
              baseline |-> baseline]
<1>3. \A solar, set : /\ ForecastOf(solar, set).solar = solar
                      /\ ForecastOf(solar, set).charges = set
                      /\ ForecastOf(solar, set).all = ForecastOf({}, set).all
                      /\ ForecastOf(solar, set).last = ForecastOf({}, set).last
  BY DEF ForecastOf
<1>4. \A w : Foretold(clock, w) = foretold(SolarForecast(clock, w), charges(w), SolarBaseline(clock, w))
  BY <1>1, Zenon DEF Foretold
<1>5. SolarForecast(clock, k).bands = SolarForecast(clock, m).bands
  BY BandsAlike
<1>6. SolarBaseline(clock, k) = SolarBaseline(clock, m)
  BY BaselineAlike
<1> HIDE DEF charges
<1>7. \A s, t, set, b : s.bands = t.bands => foretold(s, set, b) = foretold(t, set, b)
  BY <1>3
<1> HIDE DEF foretold
<1>8. Foretold(clock, k) = Foretold(clock, m)
  BY <1>2, <1>4, <1>5, <1>6, <1>7
<1>9. QED
  BY <1>8, Zenon DEF ForecastsBlind, UntilNow, UntilMidnight

-----------------------------------------------------------------------------
(* The backtest                                                              *)

LessIn(D) == {p \in D \X D : p[1] < p[2]}

LEMMA DaysInOrder ==
  ASSUME NEW D \in SUBSET Int
  PROVE  /\ IsOrder(D, LessIn(D))
         /\ \A x \in D : Preceding(D, LessIn(D), x) = {e \in D : e < x}
         /\ Sorted(D, LAMBDA x, y : x < y, "asc") = ByPlace(D, LessIn(D))
<1>1. \A x, y \in D : <<x, y>> \in LessIn(D) <=> x < y
  BY DEF LessIn
<1>2. \A x \in D : x \in Int
  OBVIOUS
<1>3. IsOrder(D, LessIn(D))
  BY <1>1, <1>2 DEF IsOrder
<1>4. \A x \in D : Preceding(D, LessIn(D), x) = {e \in D : e < x}
  BY <1>1 DEF Preceding
<1> DEFINE place == [x \in D |-> 1 + Cardinality({e \in D : e < x})]
           sorted == Sorted(D, LAMBDA x, y : x < y, "asc")
<1>5. sorted = [i \in 1 .. Cardinality(D) |-> CHOOSE x \in D : place[x] = i]
  BY Zenon DEF Sorted
<1>6. place = PlaceIn(D, LessIn(D))
  BY <1>4, Zenon DEF PlaceIn
<1> HIDE DEF place, sorted
<1>7. sorted = ByPlace(D, LessIn(D))
  BY <1>5, <1>6 DEF ByPlace
<1>8. QED
  BY <1>3, <1>4, <1>7, Zenon DEF sorted

\* The days before one, the newest of them.
Teaching(D, y) == {d \in D : d < y /\ Cardinality({e \in D : d <= e /\ e < y}) <= HistoryDays}

LEMMA PriorIs ==
  ASSUME NEW D \in SUBSET Int, IsFiniteSet(D), NEW i \in 1 .. Cardinality(D)
  PROVE  LET ordered == ByPlace(D, LessIn(D)) IN
         ordered[i] \in D /\ ToSet(Prior(ordered, i)) = Teaching(D, ordered[i])
<1> DEFINE N == Cardinality(D)
           R == LessIn(D)
           ordered == ByPlace(D, R)
           place == PlaceIn(D, R)
           y == ordered[i]
           low == Max({1, i - HistoryDays})
           between(x) == {e \in D : x <= e /\ e < y}
           before(x) == {e \in D : e < x}
<1>1. IsOrder(D, R) /\ \A x \in D : Preceding(D, R, x) = before(x)
  BY DaysInOrder
<1>2. /\ N \in Nat /\ ordered \in Seq(D) /\ Len(ordered) = N
      /\ \A j \in 1 .. N : ordered[j] \in D /\ place[ordered[j]] = j
      /\ \A x \in D : place[x] \in 1 .. N /\ ordered[place[x]] = x
  <2> HIDE DEF R
  <2>1. QED
    BY <1>1, ByPlaceIs
<1>3. y \in D /\ place[y] = i /\ i \in Nat /\ i >= 1 /\ i <= N
  <2> HIDE DEF ordered, place, N
  <2>1. ordered[i] \in D /\ place[ordered[i]] = i
    BY <1>2 DEF N
  <2>2. QED
    BY <1>2, <2>1 DEF N
<1>4. \A x \in D : place[x] = 1 + Cardinality(before(x))
  <2> HIDE DEF R, before
  <2>1. QED
    BY <1>1 DEF PlaceIn
<1>5. \A x \in D : x < y <=> place[x] < i
  <2>1. \A x, z \in D : <<x, z>> \in R <=> place[x] < place[z]
    <3> HIDE DEF R
    <3>1. QED
      BY <1>1, PlacesAre
  <2>2. \A x \in D : <<x, y>> \in R <=> x < y
    <3> HIDE DEF y
    <3>1. QED
      BY <1>3 DEF LessIn
  <2> HIDE DEF R, place, y
  <2>3. QED
    BY <1>3, <2>1, <2>2
<1>6. ASSUME NEW x \in D, x < y PROVE Cardinality(between(x)) = i - place[x]
  <2>1. \A z : IsFiniteSet(before(z)) /\ IsFiniteSet(between(z))
    BY FS_Subset
  <2>2. \A z : Cardinality(before(z)) \in Nat /\ Cardinality(between(z)) \in Nat
    <3> HIDE DEF before, between
    <3>1. QED
      BY <2>1, FS_CardinalityType
  <2>3. before(y) = before(x) \cup between(x) /\ before(x) \cap between(x) = {}
    <3> HIDE DEF y
    <3>1. y \in Int /\ x \in Int /\ \A e \in D : e \in Int
      BY <1>3
    <3>2. \A e \in D : e < y <=> e < x \/ (x <= e /\ e < y)
      BY <1>6, <3>1
    <3>3. \A e \in D : ~(e < x /\ x <= e)
      BY <3>1
    <3>4. QED
      BY <3>2, <3>3
  <2> HIDE DEF before, between
  <2>4. Cardinality(before(x) \cap between(x)) = 0
    BY <2>3, FS_EmptySet
  <2>5. Cardinality(before(y)) = Cardinality(before(x)) + Cardinality(between(x))
    <3>1. Cardinality(before(x) \cup between(x))
            = Cardinality(before(x)) + Cardinality(between(x)) - Cardinality(before(x) \cap between(x))
      BY <2>1, FS_Union
    <3>2. QED
      BY <2>2, <2>3, <2>4, <3>1
  <2>6. place[x] = 1 + Cardinality(before(x)) /\ i = 1 + Cardinality(before(y))
    <3> HIDE DEF place, y
    <3>1. QED
      BY <1>3, <1>4
  <2> HIDE DEF place, y
  <2>7. QED
    BY <2>2, <2>5, <2>6
<1>7. low \in Nat /\ low >= 1 /\ low >= i - HistoryDays /\ low \in {1, i - HistoryDays}
  <2>1. i - HistoryDays \in Int /\ 1 \in Int
    BY <1>3, ForecastAssumption
  <2>2. low >= 1 /\ low >= i - HistoryDays /\ low \in {1, i - HistoryDays}
    <3> DEFINE h == i - HistoryDays
    <3> HIDE DEF h
    <3>1. h \in Int /\ 1 \in Int
      BY <2>1 DEF h
    <3>2. Max({1, h}) >= 1 /\ Max({1, h}) >= h /\ Max({1, h}) \in {1, h}
      BY <3>1, MaxOfTwo, Zenon
    <3>3. QED
      BY <3>2 DEF h
  <2> HIDE DEF low
  <2>3. QED
    BY <2>1, <2>2
<1>8. ToSet(Prior(ordered, i)) = {ordered[j] : j \in low .. i - 1}
  <2>1. Prior(ordered, i) = SubSeq(ordered, low, i - 1)
    BY DEF Prior
  <2> HIDE DEF low, ordered, N
  <2>2. SubSeq(ordered, low, i - 1) = [j \in 1 .. (i - 1) - low + 1 |-> ordered[low + j - 1]]
    BY <1>2, <1>3, <1>7 DEF N
  <2>3. ToSet(Prior(ordered, i)) = {ordered[low + j - 1] : j \in 1 .. (i - 1) - low + 1}
    BY <2>1, <2>2 DEF ToSet
  <2>4. ASSUME NEW j \in 1 .. (i - 1) - low + 1 PROVE low + j - 1 \in low .. i - 1
    BY <1>3, <1>7
  <2>5. ASSUME NEW j \in low .. i - 1
        PROVE  j - low + 1 \in 1 .. (i - 1) - low + 1 /\ low + (j - low + 1) - 1 = j
    BY <1>3, <1>7
  <2>6. QED
    BY <2>3, <2>4, <2>5
<1>9. ASSUME NEW j \in low .. i - 1 PROVE ordered[j] \in Teaching(D, y)
  <2>1. j \in 1 .. N /\ j < i /\ i - j <= HistoryDays
    <3> HIDE DEF low, N
    <3>1. QED
      BY <1>2, <1>3, <1>7, ForecastAssumption
  <2>2. ordered[j] \in D /\ place[ordered[j]] = j
    BY <1>2, <2>1
  <2> DEFINE x == ordered[j]
  <2>3. x \in D /\ x < y /\ Cardinality(between(x)) <= HistoryDays
    <3> HIDE DEF place, x, between, y
    <3>1. place[x] = j /\ x \in D
      BY <2>2 DEF x
    <3>2. x < y
      BY <1>5, <2>1, <3>1
    <3>3. Cardinality(between(x)) = i - j
      BY <1>6, <3>1, <3>2
    <3>4. QED
      BY <2>1, <3>1, <3>2, <3>3
  <2> HIDE DEF y, x
  <2>4. QED
    BY <2>3 DEF Teaching, x
<1>10. ASSUME NEW x \in Teaching(D, y) PROVE \E j \in low .. i - 1 : x = ordered[j]
  <2> DEFINE j == place[x]
  <2>1. x \in D /\ x < y /\ Cardinality(between(x)) <= HistoryDays
    <3> HIDE DEF y
    <3>1. QED
      BY DEF Teaching
  <2>2. j \in 1 .. N /\ ordered[j] = x
    BY <1>2, <2>1
  <2>3. j < i
    <3> HIDE DEF place, y
    <3>1. QED
      BY <1>5, <2>1
  <2>4. i - j <= HistoryDays
    BY <1>6, <2>1
  <2>5. j \in low .. i - 1
    <3> HIDE DEF j, low, N
    <3>1. QED
      BY <1>2, <1>3, <1>7, <2>2, <2>3, <2>4, ForecastAssumption
  <2>6. QED
    BY <2>2, <2>5
<1> HIDE DEF low, ordered, y
<1>11. {ordered[j] : j \in low .. i - 1} = Teaching(D, y)
  BY <1>9, <1>10
<1>12. QED
  BY <1>3, <1>8, <1>11 DEF y, ordered, R

LEMMA TrainedLength ==
  ASSUME NEW f, IsFiniteSet(DOMAIN f)
  PROVE  Len(InOrder(f)) = Cardinality(DOMAIN f)
<1> DEFINE n == Cardinality(DOMAIN f)
           before(x, y) == f[x] < f[y] \/ (f[x] = f[y] /\ x < y)
           days == Sorted(DOMAIN f, before, "asc")
<1>1. n \in Nat
  BY FS_CardinalityType
<1>2. DOMAIN days = 1 .. n
  <2> DEFINE place == [x \in DOMAIN f |-> 1 + Cardinality({y \in DOMAIN f : before(y, x)})]
  <2>1. days = [i \in 1 .. n |-> CHOOSE x \in DOMAIN f : place[x] = i]
    BY Zenon DEF Sorted
  <2> HIDE DEF place, days
  <2>2. QED
    BY <2>1
<1>3. InOrder(f) = [i \in DOMAIN days |-> f[days[i]]]
  BY Zenon DEF InOrder
<1> HIDE DEF n, days
<1>4. InOrder(f) = [i \in 1 .. n |-> f[days[i]]]
  BY <1>2, <1>3
<1>5. DOMAIN InOrder(f) = 1 .. n /\ InOrder(f) \in Seq({f[days[i]] : i \in 1 .. n})
  BY <1>1, <1>4
<1>6. QED
  BY <1>1, <1>5 DEF n

\* A row of the report, from the energies of the days it read.
TrainedOn(E, y) == [d \in Teaching(DOMAIN E, y) |-> E[d]]
ReportedOn(E, y) ==
  [day |-> y, actual |-> E[y], bands |-> Bands(InOrder(TrainedOn(E, y))),
   training |-> Len(InOrder(TrainedOn(E, y)))]

LEMMA BacktestIs ==
  ASSUME NEW E, DOMAIN E \in SUBSET Int, IsFiniteSet(DOMAIN E), NEW r \in BacktestFrom(E)
  PROVE  r.day \in DOMAIN E /\ r = ReportedOn(E, r.day)
<1> DEFINE D == DOMAIN E
           ordered == ByPlace(D, LessIn(D))
           trained(i) == InOrder([d \in ToSet(Prior(ordered, i)) |-> E[d]])
           row(i) == [day |-> ordered[i], actual |-> E[ordered[i]], bands |-> Bands(trained(i)),
                      training |-> Len(trained(i))]
<1>1. BacktestFrom(E) = BacktestOf(E, ordered)
  <2>1. Sorted(D, LAMBDA x, y : x < y, "asc") = ordered
    BY DaysInOrder
  <2> HIDE DEF ordered
  <2>2. QED
    BY <2>1, Zenon DEF BacktestFrom
<1>2. BacktestOf(E, ordered) \subseteq {row(i) : i \in DOMAIN ordered}
  BY Zenon DEF BacktestOf
<1>3. PICK i \in DOMAIN ordered : r = row(i)
  <2> HIDE DEF ordered, row
  <2>1. QED
    BY <1>1, <1>2
<1>4. i \in 1 .. Cardinality(D)
  BY DEF ByPlace
<1>5. ordered[i] \in D /\ ToSet(Prior(ordered, i)) = Teaching(D, ordered[i])
  <2> HIDE DEF D
  <2>1. QED
    BY <1>4, PriorIs DEF D
<1>6. trained(i) = InOrder(TrainedOn(E, ordered[i]))
  BY <1>5, Zenon DEF TrainedOn
<1> HIDE DEF trained, ordered
<1>7. r.day = ordered[i]
  BY <1>3
<1>8. QED
  BY <1>3, <1>5, <1>6, <1>7 DEF ReportedOn

AccuracyWindow(now) ==
  [from |-> DayStart(now) - (HistoryDays + BacktestDays + 2) * DayLength, to |-> DayStart(now)]
Reach == HistoryDays + BacktestDays + 2
EnergyIn(curve) == MapThenSumSet(LAMBDA h : Positive(curve[h]), DOMAIN curve)
EnergyKnown(now) == EnergyOf(SolarOf(AccuracyWindow(now)))

LEMMA AccuracyIs == ASSUME NEW now PROVE ForecastAccuracy(now).days = BacktestFrom(EnergyKnown(now))
<1>1. AccuracyDays(now) = BacktestFrom(EnergyKnown(now))
  BY Zenon DEF AccuracyDays, EnergyKnown, SolarOf, AccuracyWindow
<1>2. ForecastAccuracy(now).days = AccuracyDays(now)
  BY DEF ForecastAccuracy
<1>3. QED
  BY <1>1, <1>2

\* It reads whole days.
LEMMA ReportReads ==
  ASSUME NEW now \in Int, NEW t \in Nat
  PROVE  InWindow(t, AccuracyWindow(now)) <=> UtcDay(t) >= UtcDay(now) - Reach /\ UtcDay(t) < UtcDay(now)
<1> DEFINE q == UtcDay(now)
           d == UtcDay(t)
           from == DayStart(now) - Reach * DayLength
<1>1. Reach \in Nat /\ DayLength \in Nat
  BY ForecastAssumption, TelemetryAssumption DEF Reach
<1>2. q \in Int /\ DayStart(now) = DayLength * q /\ DayStart(now) \in Int
      /\ d \in Int /\ \A k \in Int : t >= DayLength * k <=> d >= k
  BY DayIs
<1>3. from \in Int /\ from = DayLength * (q - Reach) /\ q - Reach \in Int
  <2> HIDE DEF q
  <2>1. \A n, m \in Int : DayLength * n - m * DayLength = DayLength * (n - m)
                          /\ DayLength * n \in Int /\ m * DayLength \in Int
    BY <1>1
  <2>2. DayLength * q - Reach * DayLength = DayLength * (q - Reach)
        /\ DayLength * q \in Int /\ Reach * DayLength \in Int
    BY <1>1, <1>2, <2>1
  <2>3. QED
    BY <1>1, <1>2, <2>2
<1>4. t >= from <=> d >= q - Reach
  <2> HIDE DEF q, d, from
  <2>1. QED
    BY <1>2, <1>3
<1>5. t < DayStart(now) <=> d < q
  <2>1. t >= DayStart(now) <=> d >= q
    <3> HIDE DEF q, d
    <3>1. QED
      BY <1>2
  <2> HIDE DEF q, d
  <2>2. QED
    BY <1>2, <2>1
<1>6. from # None /\ DayStart(now) # None
  <2> HIDE DEF from
  <2>1. QED
    BY <1>2, <1>3, TelemetryAssumption
<1>7. AccuracyWindow(now) = [from |-> from, to |-> DayStart(now)]
  BY DEF AccuracyWindow, Reach
<1> HIDE DEF from
<1>8. InWindow(t, AccuracyWindow(now)) <=> t >= from /\ t < DayStart(now)
  BY <1>6, <1>7 DEF InWindow
<1>9. QED
  BY <1>4, <1>5, <1>8

LEMMA EnergyDays ==
  ASSUME StoreInv, NEW now \in Int
  PROVE  /\ DOMAIN EnergyKnown(now) \in SUBSET Int /\ IsFiniteSet(DOMAIN EnergyKnown(now))
         /\ \A d \in DOMAIN EnergyKnown(now) : d >= UtcDay(now) - Reach /\ d < UtcDay(now)
<1> DEFINE D == DOMAIN EnergyKnown(now)
           w == AccuracyWindow(now)
           q == UtcDay(now)
<1>1. D \subseteq DOMAIN SolarOf(w)
  BY DEF EnergyKnown, EnergyOf
<1>2. ASSUME NEW d \in D PROVE d \in Int /\ d >= q - Reach /\ d < q
  <2>1. PICK p \in SolarPoints(w) : UtcDay(p.start) = d
    BY <1>1, CurvesAre DEF SolarOf, PointsOn
  <2>2. PICK t \in Nat : InWindow(t, w) /\ UtcDay(p.start) = UtcDay(t)
    BY PointDay
  <2>3. UtcDay(t) >= q - Reach /\ UtcDay(t) < q
    BY <2>2, ReportReads
  <2>4. UtcDay(t) \in Int
    BY DayIs
  <2>5. QED
    BY <2>1, <2>2, <2>3, <2>4
<1>3. q \in Int /\ Reach \in Int
  BY DayIs, ForecastAssumption DEF Reach
<1>4. IsFiniteSet((q - Reach) .. q)
  BY <1>3, FS_Interval
<1>5. D \subseteq (q - Reach) .. q
  <2> HIDE DEF D, q
  <2>1. QED
    BY <1>2, <1>3
<1>6. IsFiniteSet(D)
  BY <1>4, <1>5, FS_Subset
<1>7. QED
  BY <1>2, <1>6

\* Two reports read the same energies of the days both read.
LEMMA EnergiesAlike ==
  ASSUME StoreInv, NEW now \in Int, NEW then \in Int, NEW d \in Int,
         d >= UtcDay(now) - Reach, d < UtcDay(now), d >= UtcDay(then) - Reach, d < UtcDay(then)
  PROVE  /\ d \in DOMAIN EnergyKnown(now) <=> d \in DOMAIN EnergyKnown(then)
         /\ d \in DOMAIN EnergyKnown(now) => EnergyKnown(now)[d] = EnergyKnown(then)[d]
<1> DEFINE w == AccuracyWindow(now)
           v == AccuracyWindow(then)
<1>1. Alike(w, v, {d})
  BY ReportReads DEF Alike
<1>2. /\ d \in DOMAIN SolarOf(w) <=> d \in DOMAIN SolarOf(v)
      /\ d \in DOMAIN SolarOf(w) => SolarOf(w)[d] = SolarOf(v)[d]
  BY <1>1, CurvesAlike
<1>3. \A c : EnergyOf(c) = [x \in {y \in DOMAIN c : Cardinality(DOMAIN c[y]) >= MinDailySamples} |->
                              EnergyIn(c[x])]
  BY Zenon DEF EnergyOf, EnergyIn
<1> HIDE DEF w, v
<1>4. \A c : /\ d \in DOMAIN EnergyOf(c) <=> d \in DOMAIN c /\ Cardinality(DOMAIN c[d]) >= MinDailySamples
             /\ d \in DOMAIN EnergyOf(c) => EnergyOf(c)[d] = EnergyIn(c[d])
  BY <1>3
<1>5. EnergyKnown(now) = EnergyOf(SolarOf(w)) /\ EnergyKnown(then) = EnergyOf(SolarOf(v))
  BY DEF EnergyKnown, w, v
<1>6. QED
  BY <1>2, <1>4, <1>5

\* What an earlier report knew of the days before one is what a later one knows,
\* as far as the later one reaches back.
LEMMA BacktestHolds == StoreInv => BacktestBlind
<1> SUFFICES ASSUME StoreInv, NEW r \in ForecastAccuracy(clock).days,
                    NEW s \in ForecastAccuracy((r.day + 1) * DayLength).days,
                    r.day = s.day, r.training = s.training
             PROVE  r = s
  BY DEF BacktestBlind
<1> DEFINE y == r.day
           then == (y + 1) * DayLength
           E == EnergyKnown(clock)
           F == EnergyKnown(then)
           P == Teaching(DOMAIN E, y)
           Q == Teaching(DOMAIN F, y)
<1>0. clock \in Int
  BY DEF StoreInv, PastInv
<1>1. /\ DOMAIN E \in SUBSET Int /\ IsFiniteSet(DOMAIN E)
      /\ \A d \in DOMAIN E : d >= UtcDay(clock) - Reach /\ d < UtcDay(clock)
  BY <1>0, EnergyDays
<1>2. y \in DOMAIN E /\ r = ReportedOn(E, y)
  <2>1. r \in BacktestFrom(E)
    BY AccuracyIs
  <2> HIDE DEF E
  <2>2. QED
    BY <1>1, <2>1, BacktestIs
<1>3. y \in Int /\ y < UtcDay(clock) /\ y >= UtcDay(clock) - Reach /\ UtcDay(clock) \in Int /\ Reach \in Nat
  <2> HIDE DEF E
  <2>1. UtcDay(clock) \in Int /\ Reach \in Nat
    BY <1>0, DayIs, ForecastAssumption DEF Reach
  <2>2. QED
    BY <1>1, <1>2, <2>1
<1>4. then \in Int /\ UtcDay(then) = y + 1
  <2>1. DayLength \in Nat \ {0}
    BY TelemetryAssumption
  <2> HIDE DEF y
  <2>2. then \in Int /\ y + 1 \in Int
    BY <1>3, <2>1
  <2>3. \A k \in Int : then >= DayLength * k <=> UtcDay(then) >= k
    BY <2>2, DayIs
  <2>4. then = DayLength * (y + 1) /\ DayLength * (y + 2) = then + DayLength
        /\ y + 2 \in Int /\ DayLength * (y + 2) \in Int
    BY <1>3, <2>1
  <2>5. UtcDay(then) \in Int
    BY <2>2, DayIs
  <2> HIDE DEF then
  <2>6. UtcDay(then) >= y + 1 /\ ~(UtcDay(then) >= y + 2)
    BY <2>1, <2>2, <2>3, <2>4
  <2>7. QED
    BY <1>3, <2>2, <2>5, <2>6
<1>5. /\ DOMAIN F \in SUBSET Int /\ IsFiniteSet(DOMAIN F)
      /\ \A d \in DOMAIN F : d >= UtcDay(then) - Reach /\ d < UtcDay(then)
  BY <1>4, EnergyDays
<1>6. y \in DOMAIN F /\ s = ReportedOn(F, y)
  <2>1. s \in BacktestFrom(F)
    BY AccuracyIs
  <2>2. s.day = y
    OBVIOUS
  <2> HIDE DEF F, y
  <2>3. QED
    BY <1>5, <2>1, <2>2, BacktestIs
<1> HIDE DEF y, then
<1>7. ASSUME NEW d \in Int, d <= y, d >= UtcDay(clock) - Reach
      PROVE  (d \in DOMAIN E <=> d \in DOMAIN F) /\ (d \in DOMAIN E => E[d] = F[d])
  <2>1. d < UtcDay(clock) /\ d >= UtcDay(then) - Reach /\ d < UtcDay(then)
    BY <1>3, <1>4, <1>7
  <2>2. QED
    BY <1>0, <1>4, <1>7, <2>1, EnergiesAlike
<1> HIDE DEF E, F
<1>8. ASSUME NEW d \in P PROVE d \in Q /\ E[d] = F[d]
  <2>1. d \in DOMAIN E /\ d < y /\ Cardinality({e \in DOMAIN E : d <= e /\ e < y}) <= HistoryDays
    BY DEF Teaching
  <2>2. d \in Int /\ d >= UtcDay(clock) - Reach
    BY <1>1, <2>1
  <2>3. d \in DOMAIN F /\ E[d] = F[d]
    BY <1>3, <1>7, <2>1, <2>2
  <2>4. {e \in DOMAIN E : d <= e /\ e < y} = {e \in DOMAIN F : d <= e /\ e < y}
    <3>1. \A e \in DOMAIN E \cup DOMAIN F : e \in Int
      BY <1>1, <1>5
    <3>2. \A e \in Int : d <= e /\ e < y => e <= y /\ e >= UtcDay(clock) - Reach
      BY <1>3, <2>2
    <3>3. \A e \in Int : d <= e /\ e < y => (e \in DOMAIN E <=> e \in DOMAIN F)
      BY <1>7, <3>2
    <3>4. QED
      BY <3>1, <3>3
  <2>5. QED
    BY <2>1, <2>3, <2>4 DEF Teaching
<1>9. IsFiniteSet(P) /\ IsFiniteSet(Q)
  BY <1>1, <1>5, FS_Subset DEF Teaching
<1> HIDE DEF P, Q
<1>10. TrainedOn(E, y) = [d \in P |-> E[d]] /\ TrainedOn(F, y) = [d \in Q |-> F[d]]
  BY DEF TrainedOn, P, Q
<1>11. Cardinality(P) = Cardinality(Q)
  <2>1. r.training = Len(InOrder(TrainedOn(E, y))) /\ s.training = Len(InOrder(TrainedOn(F, y)))
    BY <1>2, <1>6 DEF ReportedOn
  <2> DEFINE f == TrainedOn(E, y)
             g == TrainedOn(F, y)
  <2>2. DOMAIN f = P /\ DOMAIN g = Q
    BY <1>10
  <2> HIDE DEF f, g
  <2>3. Len(InOrder(f)) = Cardinality(P) /\ Len(InOrder(g)) = Cardinality(Q)
    BY <1>9, <2>2, TrainedLength
  <2>4. QED
    BY <2>1, <2>3 DEF f, g
<1>12. P = Q
  <2>1. P \subseteq Q
    BY <1>8
  <2>2. QED
    BY <1>9, <1>11, <2>1, FS_Subset
<1>13. TrainedOn(E, y) = TrainedOn(F, y)
  BY <1>8, <1>10, <1>12
<1>14. E[y] = F[y]
  BY <1>2, <1>3, <1>7
<1>15. ReportedOn(E, y) = ReportedOn(F, y)
  BY <1>13, <1>14, Zenon DEF ReportedOn
<1>16. QED
  BY <1>2, <1>6, <1>15

-----------------------------------------------------------------------------
(* The points of a bucketed history                                          *)

\* The rows a point of a bucket is made of.
OwnRows(m, w, s, b, c) ==
  {x \in RowsOf(DevicesOf(c), NamesOf(m), w) :
     (Metrics[m].aggregation = "state_set" \/ IsNumber(x.value)) /\ BucketOf(x.at, s) = b}

LEMMA OwnRowsAre ==
  ASSUME StoreInv, NEW m, NEW w, NEW s, NEW b, NEW c, NEW x
  PROVE  x \in OwnRows(m, w, s, b, c) <=>
           /\ x \in RowsOf(AllDevices, NamesOf(m), w) /\ OwnerOf[x.dev] = c
           /\ Metrics[m].aggregation = "state_set" \/ IsNumber(x.value)
           /\ BucketOf(x.at, s) = b
<1>1. x \in RowsOf(DevicesOf(c), NamesOf(m), w)
        <=> x \in RowsOf(AllDevices, NamesOf(m), w) /\ OwnerOf[x.dev] = c
  <2>1. ASSUME x \in RowsOf(DevicesOf(c), NamesOf(m), w)
        PROVE  x \in RowsOf(AllDevices, NamesOf(m), w) /\ OwnerOf[x.dev] = c
    <3>1. IsRow(x) /\ x.dev \in DevicesOf(c) /\ x.reg \in NamesOf(m) /\ InWindow(x.at, w)
      BY <2>1, RowsAreRows
    <3>2. x.dev \in AllDevices
      BY <3>1, EveryDevice DEF DevicesOf
    <3>3. QED
      BY <3>1, <3>2, RowFound DEF DevicesOf
  <2>2. ASSUME x \in RowsOf(AllDevices, NamesOf(m), w), OwnerOf[x.dev] = c
        PROVE  x \in RowsOf(DevicesOf(c), NamesOf(m), w)
    <3>1. IsRow(x) /\ x.reg \in NamesOf(m) /\ InWindow(x.at, w)
      BY <2>2, RowsAreRows
    <3>2. x.dev \in DevicesOf(c)
      BY <2>2, <3>1 DEF DevicesOf, IsRow
    <3>3. QED
      BY <3>1, <3>2, RowFound
  <2>3. QED
    BY <2>1, <2>2
<1>2. QED
  BY <1>1 DEF OwnRows

\* The rows of the best register a controller decoded at a time.
IsChosen(m, found, x) ==
  \A y \in found : y.at = x.at /\ OwnerOf[y.dev] = OwnerOf[x.dev] =>
                     PriorityOf(m, x.reg) <= PriorityOf(m, y.reg)
PointOfRow(x) == [uid |-> OwnerOf[x.dev], at |-> x.at, reg |-> x.reg, value |-> x.value]

LEMMA RawSeriesIs ==
  ASSUME NEW m, NEW w, NEW p
  PROVE  p \in RawSeries(m, w) <=>
           \E x \in RowsOf(AllDevices, NamesOf(m), w) :
             IsChosen(m, RowsOf(AllDevices, NamesOf(m), w), x) /\ p = PointOfRow(x)
<1> DEFINE found == RowsOf(AllDevices, NamesOf(m), w)
<1>1. RawSeries(m, w) = {PointOfRow(x) : x \in {y \in found : IsChosen(m, found, y)}}
  BY Zenon DEF RawSeries, IsChosen, PointOfRow
<1> HIDE DEF found
<1>2. p \in RawSeries(m, w) <=> \E x \in found : IsChosen(m, found, x) /\ p = PointOfRow(x)
  BY <1>1
<1>3. QED
  BY <1>2 DEF found

\* One point for each controller and time.
LEMMA OnePoint ==
  ASSUME StoreInv, NEW m \in DOMAIN Metrics, NEW w, NEW p \in RawSeries(m, w), NEW q \in RawSeries(m, w),
         p.uid = q.uid, p.at = q.at
  PROVE  p = q
<1> DEFINE found == RowsOf(AllDevices, NamesOf(m), w)
<1>1. PICK x \in found : IsChosen(m, found, x) /\ p = PointOfRow(x)
  BY RawSeriesIs
<1>2. PICK y \in found : IsChosen(m, found, y) /\ q = PointOfRow(y)
  BY RawSeriesIs
<1>3. x.at = y.at /\ OwnerOf[x.dev] = OwnerOf[y.dev]
  BY <1>1, <1>2 DEF PointOfRow
<1>4. IsRow(x) /\ IsRow(y) /\ x.reg \in NamesOf(m) /\ y.reg \in NamesOf(m)
  BY RowsAreRows
<1>5. PriorityOf(m, x.reg) <= PriorityOf(m, y.reg) /\ PriorityOf(m, y.reg) <= PriorityOf(m, x.reg)
  BY <1>1, <1>2, <1>3 DEF IsChosen
<1>6. x.reg = y.reg
  BY <1>4, <1>5, PriorityIs
<1>7. QED
  BY <1>1, <1>2, <1>3, <1>4, <1>6, RowIdentity

\* A row is one of a sample of which the best register is a point.
LEMMA BestPoint ==
  ASSUME StoreInv, NEW m \in DOMAIN Metrics, NEW w, NEW y \in RowsOf(AllDevices, NamesOf(m), w)
  PROVE  \E p \in RawSeries(m, w) : p.uid = OwnerOf[y.dev] /\ p.at = y.at
<1> DEFINE found == RowsOf(AllDevices, NamesOf(m), w)
           K == {PriorityOf(m, x.reg) : x \in {z \in found : z.at = y.at /\ OwnerOf[z.dev] = OwnerOf[y.dev]}}
<1>1. K \in SUBSET Nat /\ K # {}
  BY RowsAreRows, PriorityIs
<1>2. PICK k \in K : \A j \in K : k <= j
  <2> HIDE DEF K
  <2>1. QED
    BY <1>1, LeastNat
<1>3. PICK x \in found : x.at = y.at /\ OwnerOf[x.dev] = OwnerOf[y.dev] /\ k = PriorityOf(m, x.reg)
  OBVIOUS
<1>4. IsChosen(m, found, x)
  BY <1>2, <1>3 DEF IsChosen
<1>5. PointOfRow(x) \in RawSeries(m, w)
  BY <1>4, RawSeriesIs
<1>6. PointOfRow(x).uid = OwnerOf[y.dev] /\ PointOfRow(x).at = y.at
  BY <1>3 DEF PointOfRow
<1>7. QED
  BY <1>5, <1>6

\* What a point of a bucketed history owes its rows.
FollowsRaw(m, w, s, b) ==
  LET own(c) == OwnRows(m, w, s, b.start, c) IN
  /\ {o.uid : o \in b.sources} = {c \in Members : own(c) # {}}
  /\ \A o \in b.sources :
       /\ \A p \in b.sources : p.uid = o.uid => p = o
       /\ IF Metrics[m].aggregation = "state_set" THEN o.value \in {x.value : x \in own(o.uid)}
          ELSE Lowest(own(o.uid)).value <= o.value /\ o.value <= Highest(own(o.uid)).value

LEMMA FollowsIs ==
  BucketsFollowRaw <=>
    \A m \in DOMAIN Metrics, w \in Spans, s \in Resolutions : \A b \in History(m, w, s) : FollowsRaw(m, w, s, b)
BY Zenon DEF BucketsFollowRaw, FollowsRaw, OwnRows

\* The owner of a row is a member.
LEMMA OwnerIsMember ==
  ASSUME StoreInv, NEW ids, NEW names, NEW w, NEW x \in RowsOf(ids, names, w)
  PROVE  OwnerOf[x.dev] \in Members
BY RowsAreRows DEF IsRow, Members

LEMMA StateBucketFollows ==
  ASSUME StoreInv, NEW m \in DOMAIN Metrics, NEW w, NEW s, Metrics[m].aggregation = "state_set",
         NEW b \in StateBuckets(m, w, s)
  PROVE  FollowsRaw(m, w, s, b)
<1> DEFINE found == RawSeries(m, w)
           rows == RowsOf(AllDevices, NamesOf(m), w)
           last(o) == \A p \in found : p.uid = o.uid /\ BucketOf(p.at, s) = BucketOf(o.at, s) => p.at <= o.at
           of(t) == {o \in found : last(o) /\ BucketOf(o.at, s) = t}
<1>1. PICK t \in {BucketOf(o.at, s) : o \in found} : b = PointAt(t, Aggregate(m, of(t)))
  BY Zenon DEF StateBuckets
<1>2. b.start = t /\ b.sources = of(t)
  BY <1>1 DEF PointAt, Aggregate
<1> DEFINE own(c) == OwnRows(m, w, s, t, c)
<1>3. \A c, x : x \in own(c) <=> x \in rows /\ OwnerOf[x.dev] = c /\ BucketOf(x.at, s) = t
  BY OwnRowsAre
<1>4. \A x \in rows : x.at \in Nat /\ x.at < clock /\ OwnerOf[x.dev] \in Members
  BY RowsAreRows, OwnerIsMember DEF IsRow
<1>5. ASSUME NEW p \in found
      PROVE  \E x \in rows : p.uid = OwnerOf[x.dev] /\ p.at = x.at /\ p.value = x.value
  BY RawSeriesIs DEF PointOfRow
<1> HIDE DEF own, rows
<1>6. ASSUME NEW o \in of(t)
      PROVE  /\ \E x \in own(o.uid) : o.value = x.value
             /\ o.uid \in Members
             /\ \A p \in of(t) : p.uid = o.uid => p = o
  <2>1. PICK x \in rows : o.uid = OwnerOf[x.dev] /\ o.at = x.at /\ o.value = x.value
    BY <1>5
  <2>2. x \in own(o.uid)
    BY <1>3, <2>1
  <2>3. ASSUME NEW p \in of(t), p.uid = o.uid PROVE p = o
    <3>1. p \in found /\ o \in found /\ p.at <= o.at /\ o.at <= p.at
      BY <2>3
    <3>2. p.at \in Nat /\ o.at \in Nat
      BY <1>4, <1>5, <3>1
    <3> HIDE DEF found
    <3>3. p.at = o.at
      BY <3>1, <3>2
    <3>4. QED
      BY <2>3, <3>1, <3>3, OnePoint DEF found
  <2>4. QED
    BY <1>4, <2>1, <2>2, <2>3
<1>7. ASSUME NEW c \in Members, own(c) # {} PROVE \E o \in of(t) : o.uid = c
  <2> DEFINE T == {x.at : x \in own(c)}
  <2>1. T \in SUBSET Nat /\ T # {} /\ clock \in Nat /\ \A n \in T : n <= clock
    BY <1>3, <1>4, <1>7 DEF StoreInv, PastInv
  <2>2. PICK n \in T : \A k \in T : k <= n
    <3> HIDE DEF T
    <3>1. QED
      BY <2>1, GreatestNat
  <2>3. PICK y \in own(c) : y.at = n
    BY <2>2
  <2>4. y \in rows /\ OwnerOf[y.dev] = c /\ BucketOf(y.at, s) = t
    BY <1>3, <2>3
  <2>5. PICK p \in found : p.uid = c /\ p.at = n
    BY <2>3, <2>4, BestPoint DEF rows
  <2>6. ASSUME NEW q \in found, q.uid = c, BucketOf(q.at, s) = t PROVE q.at <= n
    <3>1. PICK x \in rows : q.uid = OwnerOf[x.dev] /\ q.at = x.at
      BY <1>5
    <3>2. x \in own(c)
      BY <1>3, <2>6, <3>1
    <3>3. QED
      BY <2>2, <3>1, <3>2
  <2>7. BucketOf(p.at, s) = t
    BY <2>3, <2>4, <2>5
  <2>8. p \in of(t)
    BY <2>5, <2>6, <2>7
  <2>9. QED
    BY <2>5, <2>8
<1> HIDE DEF of
<1>8. {o.uid : o \in of(t)} = {c \in Members : own(c) # {}}
  BY <1>6, <1>7
<1>9. \A o \in of(t) : /\ \A p \in of(t) : p.uid = o.uid => p = o
                       /\ o.value \in {x.value : x \in own(o.uid)}
  BY <1>6
<1>10. QED
  BY <1>2, <1>8, <1>9 DEF FollowsRaw, own

LEMMA MeanBucketFollows ==
  ASSUME StoreInv, NEW m \in DOMAIN Metrics, NEW w, NEW s, Metrics[m].aggregation # "state_set",
         NEW b \in Bucketed(m, w, s)
  PROVE  FollowsRaw(m, w, s, b)
<1>1. PICK t : CellOf(m, w, s, t) # {} /\ b = CellPoint(m, CellOf(m, w, s, t), t)
  BY BucketedIs
<1> DEFINE cell == CellOf(m, w, s, t)
           rows == CellRows(cell, t)
           group(x) == {y \in cell : y.dev = x.dev /\ y.reg = x.reg}
           row(x) == [uid |-> OwnerOf[x.dev], dev |-> x.dev, at |-> t, reg |-> x.reg,
                      value |-> MeanOf(group(x))]
           own(c) == OwnRows(m, w, s, t, c)
           first(x) == x = CHOOSE y \in rows : y.uid = x.uid /\ y.reg = x.reg
           best(x) == \A y \in rows : y.uid = x.uid => PriorityOf(m, x.reg) <= PriorityOf(m, y.reg)
           of == {x \in rows : first(x) /\ best(x)}
<1>2. b.start = t /\ b.sources = of
  <2>1. OnePerController(m, rows) = of
    BY Zenon DEF OnePerController
  <2> HIDE DEF of, rows
  <2>2. b = PointAt(t, Aggregate(m, of))
    BY <1>1, <2>1 DEF CellPoint, rows
  <2>3. QED
    BY <2>2 DEF PointAt, Aggregate
<1>3. rows = {row(x) : x \in cell}
  BY Zenon DEF CellRows
<1>4. \A c, x : x \in own(c) <=> x \in cell /\ OwnerOf[x.dev] = c
  BY OwnRowsAre DEF CellOf
<1>5. \A x \in cell : /\ x.at \in Nat /\ x.value \in Int /\ x.reg \in NamesOf(m)
                      /\ OwnerOf[x.dev] \in Members
  <2>1. \A x \in cell : x \in RowsOf(AllDevices, NamesOf(m), w) /\ IsNumber(x.value)
    BY DEF CellOf
  <2> HIDE DEF cell
  <2>2. QED
    BY <2>1, RowsAreRows, OwnerIsMember DEF IsRow, IsNumber
<1>6. IsFiniteSet(cell)
  BY RowsFinite, FS_Subset DEF CellOf
<1> HIDE DEF cell, own, rows
<1>7. ASSUME NEW z \in rows
      PROVE  /\ z.uid \in Members /\ z.reg \in NamesOf(m) /\ own(z.uid) # {}
             /\ Lowest(own(z.uid)).value <= z.value /\ z.value <= Highest(own(z.uid)).value
  <2>1. PICK x \in cell : z = row(x)
    BY <1>3
  <2>2. z.uid = OwnerOf[x.dev] /\ z.reg = x.reg /\ z.value = MeanOf(group(x))
    BY <2>1
  <2> DEFINE R == own(z.uid)
             low == Lowest(R)
             high == Highest(R)
  <2>3. x \in R /\ group(x) \subseteq R /\ x \in group(x)
    BY <1>4, <2>2
  <2>4. Numeric(R) /\ IsFiniteSet(R)
    <3>1. R \subseteq cell
      BY <1>4
    <3> HIDE DEF R
    <3>2. QED
      BY <1>5, <1>6, <3>1, FS_Subset DEF Numeric
  <2> HIDE DEF R
  <2>5. low \in R /\ high \in R /\ \A y \in R : low.value <= y.value /\ y.value <= high.value
    BY <2>3, <2>4, LowestIs, HighestIs
  <2>6. \A y \in R : y.value \in Int
    BY <2>4 DEF Numeric
  <2> HIDE DEF group, low, high
  <2>7. IsFiniteSet(group(x)) /\ group(x) # {} /\ low.value \in Int /\ high.value \in Int
        /\ \A y \in group(x) : y.value \in Int /\ low.value <= y.value /\ y.value <= high.value
    BY <2>3, <2>4, <2>5, <2>6, FS_Subset
  <2>8. low.value <= MeanOf(group(x)) /\ MeanOf(group(x)) <= high.value
    <3> DEFINE G == group(x)
               a == low.value
               c == high.value
    <3>1. IsFiniteSet(G) /\ G # {} /\ a \in Int /\ c \in Int
          /\ \A y \in G : y.value \in Int /\ a <= y.value /\ y.value <= c
      BY <2>7
    <3> HIDE DEF G, a, c
    <3>2. a <= MeanOf(G) /\ MeanOf(G) <= c
      BY <3>1, MeanBetween
    <3>3. QED
      BY <3>2 DEF G, a, c
  <2>9. QED
    BY <1>5, <2>2, <2>3, <2>8 DEF R, low, high
<1>8. ASSUME NEW c \in Members, own(c) # {} PROVE \E z \in of : z.uid = c
  <2> DEFINE K == {PriorityOf(m, z.reg) : z \in {y \in rows : y.uid = c}}
  <2>1. PICK x \in cell : OwnerOf[x.dev] = c
    BY <1>4, <1>8
  <2>2. row(x) \in rows /\ row(x).uid = c
    BY <1>3, <2>1
  <2>3. K \in SUBSET Nat /\ K # {}
    BY <1>7, <2>2, PriorityIs
  <2>4. PICK k \in K : \A j \in K : k <= j
    <3> HIDE DEF K
    <3>1. QED
      BY <2>3, LeastNat
  <2>5. PICK z \in rows : z.uid = c /\ k = PriorityOf(m, z.reg)
    BY <2>4
  <2> DEFINE pick == CHOOSE y \in rows : y.uid = z.uid /\ y.reg = z.reg
  <2>6. pick \in rows /\ pick.uid = z.uid /\ pick.reg = z.reg
    <3>1. \E y \in rows : y.uid = z.uid /\ y.reg = z.reg
      BY <2>5
    <3>2. QED
      BY <3>1
  <2>7. first(pick)
    <3>1. \A u, r : u = z.uid /\ r = z.reg =>
                    (CHOOSE y \in rows : y.uid = u /\ y.reg = r) = pick
      BY Zenon
    <3> HIDE DEF pick
    <3>2. QED
      BY <2>6, <3>1
  <2> HIDE DEF pick
  <2>8. best(pick)
    BY <2>4, <2>5, <2>6
  <2>9. pick \in of /\ pick.uid = c
    BY <2>5, <2>6, <2>7, <2>8
  <2>10. QED
    BY <2>9
<1>9. ASSUME NEW o \in of, NEW p \in of, p.uid = o.uid PROVE p = o
  <2>1. o \in rows /\ p \in rows /\ first(o) /\ first(p) /\ best(o) /\ best(p)
    OBVIOUS
  <2>2. PriorityOf(m, o.reg) <= PriorityOf(m, p.reg) /\ PriorityOf(m, p.reg) <= PriorityOf(m, o.reg)
    BY <1>9, <2>1
  <2>3. o.reg = p.reg
    BY <1>7, <2>1, <2>2, PriorityIs
  <2>4. QED
    BY <1>9, <2>1, <2>3, Zenon
<1>10. of \subseteq rows
  OBVIOUS
<1> HIDE DEF of
<1>11. {o.uid : o \in of} = {c \in Members : own(c) # {}}
  BY <1>7, <1>8, <1>10
<1>12. \A o \in of : Lowest(own(o.uid)).value <= o.value /\ o.value <= Highest(own(o.uid)).value
  BY <1>7, <1>10
<1>13. QED
  BY <1>2, <1>9, <1>11, <1>12 DEF FollowsRaw, own

LEMMA BucketsHold == StoreInv => BucketsFollowRaw
<1> SUFFICES ASSUME StoreInv, NEW m \in DOMAIN Metrics, NEW w \in Spans, NEW s \in Resolutions,
                    NEW b \in History(m, w, s)
             PROVE  FollowsRaw(m, w, s, b)
  BY FollowsIs
<1>1. s # None
  BY TelemetryAssumption DEF Resolutions
<1>2. \/ Metrics[m].aggregation = "state_set" /\ b \in StateBuckets(m, w, s)
      \/ Metrics[m].aggregation # "state_set" /\ b \in Bucketed(m, w, s)
  BY <1>1 DEF History, InSql
<1>3. QED
  BY <1>2, StateBucketFollows, MeanBucketFollows

-----------------------------------------------------------------------------
(* Theorems                                                                  *)

\* The transitions of a register of a controller are its course over all its
\* connections: each starts from the value the one before it ended with, and
\* the last ends with the newest value (systems/data.py, _transition_events).
\* This holds whichever part of the rows the query could read.
THEOREM TransitionsTellCourse == Spec => []TransitionsChain
BY StoreInductive, ChainHolds, PTL

\* As long as all state rows are read, a window shows all of its transitions
\* but those into its first row of a register.
THEOREM EventsTellCourse == Spec => [](FewRows => EventsChain)
<1>1. StoreInv => (FewRows => EventsChain)
  BY ChainHolds, WindowsHold DEF EventsChain
<1>2. QED
  BY <1>1, StoreInductive, PTL

\* As long as all state rows are read, health and events tell the same: a
\* controller counts as faulty exactly when its last fault event started one,
\* and no error newer than the last answer of a device is behind a system that
\* is well (systems/data.py, health and events).
THEOREM HealthAndEventsAgree == Spec => [](FewRows => HealthTold)
<1>1. StoreInv /\ IInv => (FewRows => HealthTold)
  <2> SUFFICES ASSUME StoreInv, IInv, FewRows PROVE HealthTold
    OBVIOUS
  <2>1. QED
    BY Zenon, FaultTold, WellIsQuiet DEF HealthTold
<1>2. QED
  BY <1>1, StoreInductive, InductiveInvariant, PTL

\* The newest value shown of a metric is the last point of its raw history, and
\* no controller is shown twice, whichever connections its samples came over;
\* and a point of a bucketed history has each controller with a row in the
\* bucket once, with one of its values or one between its lowest and its
\* highest (systems/data.py, latest and history).
THEOREM MetricsAreRows == Spec => []MetricsFollowRows
<1>1. StoreInv => MetricsFollowRows
  BY LastPointHolds, BucketsHold DEF MetricsFollowRows
<1>2. QED
  BY <1>1, StoreInductive, PTL

\* Disagreement never becomes a number: where controllers report a quantity of
\* the whole system further apart than the tolerance allows, neither it nor
\* anything derived from it has a value (systems/power.py,
\* _resolved_system_metric), whatever the numbers and however many report.
THEOREM ConflictsNeverResolved == Spec => []ConflictsStay
BY StoreInductive, ConflictsHold, PTL

\* A device is one component, as long as serial numbers identify controllers and
\* no gateway reports a product twice (systems/components.py, graph).
THEOREM DevicesAreOneComponent ==
  SerialsIdentify => (Spec => [](ReportedOnce => OneComponentPerDevice))
<1> SUFFICES ASSUME SerialsIdentify PROVE Spec => [](ReportedOnce => OneComponentPerDevice)
  OBVIOUS
<1>1. ReportedOnce => OneComponentPerDevice
  BY ComponentsHold
<1>2. QED
  BY <1>1, PTL

\* Nothing that is forecast, or judged by a forecast, knows its own future
\* (forecasting/service.py, solar_forecast, charge_forecast and the backtest of
\* forecast_accuracy; intelligence/incidents.py, solar_baseline): the bands, the
\* baseline and the float times are the same with and without today's rows, and
\* a report says of a day what it would have said the morning after.
THEOREM ForecastsKnowNoFuture == Spec => []NoHindsight
<1>1. StoreInv => NoHindsight
  BY BlindHolds, BacktestHolds DEF NoHindsight
<1>2. QED
  BY <1>1, StoreInductive, PTL
=============================================================================
