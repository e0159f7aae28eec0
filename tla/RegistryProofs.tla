--------------------------- MODULE RegistryProofs ---------------------------
(***************************************************************************)
(* Proofs about ControllerRegistry for every finite set of endpoints,      *)
(* every set of serial numbers and any number of reading processes.        *)
(*                                                                         *)
(* The argument: an identity that was ever read or aliased is never made   *)
(* anew (SeenInv), so it has one canonical device for good, in the         *)
(* identity table, under its alias and in every snapshot still being       *)
(* worked on (AliasInv, RowsInv, AgreeInv, FirstInv).  A synchronisation   *)
(* that acts on a stale lookup then either agrees with what others have    *)
(* written or clashes with the UNIQUE device and is rolled back.           *)
(***************************************************************************)
EXTENDS ControllerRegistry, FiniteSetTheorems, WellFoundedInduction, TLAPS

----------------------------------------------------------------------------
(* The inductive invariant *)

Parts == {"sync", "register", "success", "answer", "raised"}
Snapshots == [rows : SUBSET Rows, first : Ids \cup {None}, uid : Uids \cup {None}]

Types ==
  /\ canonical \in [Ids -> Devices \cup {None}]
  /\ older \subseteq Live \X Live
  /\ members \in [Devices -> Ids \cup {None}]
  /\ lastOwner \in [Keys -> Live \cup {None}]
  /\ rowOf \in [Keys -> Devices \cup {None}]
  /\ physical \in [Uids -> Physicals \cup {None}]
  /\ aliases \in [Ids -> Uids \cup {None}]
  /\ program \in [Processes -> Seq(Parts)]
  /\ observed \in Observation \cup {None}
  /\ matched \in Rows \cup {None}
  /\ snapshot \in [Processes -> Snapshots \cup {None}]
  /\ told \in [Keys -> Answers \cup {None}]

\* The identities are totally ordered.
OrderInv == \A i, j \in Live : i # j => (<<i, j>> \in older <=> <<j, i>> \notin older)

\* What a registration still has to do, and what it already knows.
Pending(w) == \E n \in 1 .. Len(program[Watcher]) : program[Watcher][n] = w
AnswerLast == \A n \in 1 .. Len(program[Watcher]) : program[Watcher][n] = "answer" =>
  n = Len(program[Watcher]) /\ (n # 1 => program[Watcher][n - 1] = "sync")
CallInv ==
  /\ observed = None => ~Pending("register") /\ ~Pending("success") /\ ~Pending("answer")
  /\ Pending("success") => told[observed.key] # None
  /\ Pending("answer") => Pending("register") \/ matched # None
  /\ Pending("register") => Pending("answer")
  /\ matched # None => Pending("answer") \/ Pending("raised")
  /\ AnswerLast
  /\ \A p \in Processes : snapshot[p] # None => Next1(p) = "sync"

\* An identity that will not be created (again): a serial stays in the table, a
\* fallback is only made at an endpoint nobody was seen at.
Seen(i) == \/ \E s \in Serials : i = <<"serial", s>> /\ canonical[i] # None
           \/ \E k \in Keys : i = <<"fallback", k>> /\ lastOwner[k] # None
SeenInv ==
  /\ \A i \in Ids : canonical[i] # None => Seen(i)
  /\ \A i \in Ids : aliases[i] # None => Seen(i)
  /\ \A p \in Processes : snapshot[p] # None => \A r \in snapshot[p].rows : Seen(r.id)

\* Which identity a device can be the canonical one of.
DeviceInv ==
  /\ \A i, j \in Live : canonical[i] = canonical[j] => i = j
  /\ \A k \in Keys : lastOwner[k] = None => rowOf[k] = None
  /\ \A k \in Keys : lastOwner[k] = None => \A i \in Live : canonical[i] # k
  /\ \A i \in Live : canonical[i] \in Keys
       \/ \E s \in Serials, k \in Keys : i = <<"serial", s>> /\ canonical[i] = <<"device", s, k>>

\* A device that was ever canonical stays so, for one identity or another.
Holds(d) == \E j \in Live : canonical[j] = d
MemberInv ==
  /\ \A i \in Live : members[canonical[i]] = i
  /\ \A d \in Devices : members[d] # None => members[d] \in Live

\* The UID tables agree with each other and with the identities.
AliasInv ==
  /\ \A i \in Ids : aliases[i] # None => physical[aliases[i]] # None
  /\ \A i \in Ids : aliases[i] # None /\ canonical[i] # None =>
       physical[aliases[i]].device = canonical[i]
  /\ \A u, v \in Uids : physical[u] # None /\ physical[v] # None
       /\ physical[u].device = physical[v].device => u = v
  /\ \A p \in Processes, i \in Ids : physical[<<p, i>>] # None => aliases[i] = <<p, i>>
  /\ \A u \in Uids : physical[u] # None => Holds(physical[u].device)

\* A snapshot is old at worst, never wrong.
RowsInv ==
  \A p \in Processes : snapshot[p] # None =>
    /\ \A r, t \in snapshot[p].rows : r.device = t.device => r.id = t.id
    /\ \A r \in snapshot[p].rows : canonical[r.id] # None => canonical[r.id] = r.device
    /\ \A r \in snapshot[p].rows : aliases[r.id] # None => physical[aliases[r.id]].device = r.device
    /\ \A r \in snapshot[p].rows : Holds(r.device)
AgreeInv ==
  \A p, q \in Processes : snapshot[p] # None /\ snapshot[q] # None =>
    \A r \in snapshot[p].rows, t \in snapshot[q].rows : r.id = t.id => r.device = t.device
FirstInv ==
  \A p \in Processes : snapshot[p] # None =>
    \A r \in snapshot[p].rows : r.id = snapshot[p].first =>
      IF snapshot[p].uid = None THEN physical[<<p, r.id>>] = None
      ELSE physical[snapshot[p].uid] # None /\ physical[snapshot[p].uid].device = r.device

\* What the watcher was told, or is about to be.
ToldInv ==
  /\ matched # None /\ observed # None /\ observed.serial # NoSerial =>
       matched.id = <<"serial", observed.serial>> /\ canonical[matched.id] = matched.device
  /\ \A k \in Keys : told[k] # None =>
       /\ physical[told[k].uid] # None
       /\ told[k].serial # NoSerial =>
            /\ aliases[<<"serial", told[k].serial>>] = told[k].uid
            /\ canonical[<<"serial", told[k].serial>>] = told[k].device

IInv ==
  /\ Types /\ OrderInv /\ CallInv /\ SeenInv /\ DeviceInv /\ MemberInv
  /\ AliasInv /\ RowsInv /\ AgreeInv /\ FirstInv /\ ToldInv

\* Where there are no readers: the UID tables agree with the identities
\* whenever a registration resolves.
Synced == \A i \in Live :
  aliases[i] # None /\ physical[aliases[i]] = [device |-> canonical[i], current |-> i]
SyncedInv ==
  /\ Next1(Watcher) = "answer" => Synced
  /\ snapshot[Watcher] # None => snapshot[Watcher].rows = {Row(i) : i \in Live}
----------------------------------------------------------------------------
(* Identities, devices and calls *)

\* An identity is a serial's or an endpoint's, never both.
LEMMA IdShape ==
  /\ \A i \in Ids : (\E s \in Serials : i = <<"serial", s>>) \/ (\E k \in Keys : i = <<"fallback", k>>)
  /\ \A s \in Serials : <<"serial", s>> \in Ids /\ SerialOf(<<"serial", s>>) = s
  /\ \A k \in Keys : <<"fallback", k>> \in Ids /\ SerialOf(<<"fallback", k>>) = NoSerial
  /\ \A s \in Serials, k \in Keys : <<"serial", s>> # <<"fallback", k>>
BY DEF Ids, SerialOf

\* Nothing that is there is None.
LEMMA NoneApart ==
  /\ None \notin Ids /\ None \notin Devices /\ None \notin Uids
  /\ None \notin Observation /\ None \notin Rows /\ None \notin Physicals /\ None \notin Answers
BY RegistryAssumption

\* Evidence names an identity: by serial where there is one.
LEMMA IdOfShape ==
  ASSUME NEW o \in Observation
  PROVE  /\ IdOf(o) \in Ids
         /\ o.serial # NoSerial => o.serial \in Serials /\ IdOf(o) = <<"serial", o.serial>>
         /\ o.serial = NoSerial => IdOf(o) = <<"fallback", o.key>>
BY IdShape DEF Observation, IdOf

\* What is left of a call.
LEMMA TailShape ==
  ASSUME NEW s \in Seq(Parts), s # <<>>
  PROVE  /\ Len(s) \in Nat /\ Len(s) >= 1 /\ Head(s) = s[1]
         /\ Tail(s) \in Seq(Parts) /\ Len(Tail(s)) = Len(s) - 1
         /\ \A n \in 1 .. Len(s) - 1 : Tail(s)[n] = s[n + 1]
OBVIOUS

\* A process with a next step has a call.
LEMMA NextShape ==
  ASSUME Types, NEW p \in Processes, Next1(p) # "idle"
  PROVE  program[p] \in Seq(Parts) /\ program[p] # <<>> /\ Next1(p) = program[p][1]
<1>1. program[p] \in Seq(Parts)
  BY DEF Types
<1>2. program[p] # <<>> /\ Next1(p) = Head(program[p])
  BY DEF Next1
<1> QED
  BY <1>1, <1>2, TailShape

\* An idle process has nothing pending.
LEMMA EmptyPending == ASSUME program[Watcher] = <<>>, NEW w PROVE ~Pending(w)
BY DEF Pending

\* A step that carries out the next part of a call: what is pending then was
\* pending before, after the first part.
LEMMA AdvancePending ==
  ASSUME Types, NEW p \in Processes, Next1(p) # "idle", Advance(p)
  PROVE  /\ program' \in [Processes -> Seq(Parts)]
         /\ \A q \in Processes : q # p => program'[q] = program[q] /\ Next1(q)' = Next1(q)
         /\ p # Watcher => \A w : Pending(w)' <=> Pending(w)
         /\ p = Watcher => \A w : Pending(w)' => Pending(w)
         /\ p = Watcher => \A w : Pending(w) => w = Next1(p) \/ Pending(w)'
         /\ p = Watcher => \A n \in 1 .. Len(program'[p]) :
              n + 1 \in 2 .. Len(program[p]) /\ program'[p][n] = program[p][n + 1]
<1>1. /\ program[p] \in Seq(Parts) /\ program[p] # <<>> /\ Next1(p) = program[p][1]
      /\ program \in [Processes -> Seq(Parts)] /\ Watcher \in Processes
  BY NextShape DEF Types, Processes
<1>2. program' = [program EXCEPT ![p] = Tail(program[p])]
  BY DEF Advance
<1>3. program'[p] = Tail(program[p]) /\ \A q \in Processes : q # p => program'[q] = program[q]
  BY <1>1, <1>2
<1>4. program' \in [Processes -> Seq(Parts)]
  BY <1>1, <1>2, TailShape
<1>5. \A q \in Processes : q # p => Next1(q)' = Next1(q)
  BY <1>3 DEF Next1
<1>6. p # Watcher => \A w : Pending(w)' <=> Pending(w)
  BY <1>1, <1>3 DEF Pending
<1>7. /\ Len(program[p]) \in Nat /\ Len(program[p]) >= 1
      /\ Len(program'[p]) = Len(program[p]) - 1
      /\ \A n \in 1 .. Len(program[p]) - 1 : program'[p][n] = program[p][n + 1]
  BY <1>1, <1>3, TailShape
<1>8. \A n \in 1 .. Len(program'[p]) :
        n + 1 \in 2 .. Len(program[p]) /\ program'[p][n] = program[p][n + 1]
  BY <1>7
<1>9. ASSUME p = Watcher, NEW w, Pending(w)' PROVE Pending(w)
  <2>1. PICK n \in 1 .. Len(program'[Watcher]) : program'[Watcher][n] = w
    BY <1>9 DEF Pending
  <2>2. n + 1 \in 1 .. Len(program[Watcher]) /\ program[Watcher][n + 1] = w
    BY <2>1, <1>7, <1>8, <1>9
  <2> QED
    BY <2>2 DEF Pending
<1>10. ASSUME p = Watcher, NEW w, Pending(w), w # Next1(p) PROVE Pending(w)'
  <2>1. PICK n \in 1 .. Len(program[Watcher]) : program[Watcher][n] = w
    BY <1>10 DEF Pending
  <2>2. n # 1
    BY <2>1, <1>1, <1>10
  <2>3. n - 1 \in 1 .. Len(program'[Watcher]) /\ program'[Watcher][n - 1] = w
    <3>1. /\ n - 1 \in 1 .. Len(program[Watcher]) - 1 /\ (n - 1) + 1 = n
          /\ Len(program'[Watcher]) = Len(program[Watcher]) - 1
      BY <2>1, <2>2, <1>7, <1>10
    <3>2. program'[Watcher][n - 1] = program[Watcher][(n - 1) + 1]
      BY <3>1, <1>7, <1>10
    <3> QED
      BY <3>1, <3>2, <2>1
  <2> QED
    BY <2>3 DEF Pending
<1> QED
  BY <1>3, <1>4, <1>5, <1>6, <1>8, <1>9, <1>10
----------------------------------------------------------------------------
(* Steps of calls: the tables stay, snapshots are kept or dropped *)

\* Nothing about the identities and the UIDs is disturbed by a step that leaves
\* the tables alone and drops snapshots at most.
LEMMA TablesKept ==
  ASSUME IInv, UNCHANGED <<identityVars, scopeVars>>,
         \A p \in Processes : snapshot'[p] \in {snapshot[p], None}
  PROVE  (OrderInv /\ SeenInv /\ DeviceInv /\ MemberInv /\ AliasInv /\ RowsInv /\ AgreeInv /\ FirstInv)'
<1>1. /\ canonical' = canonical /\ older' = older /\ members' = members
      /\ lastOwner' = lastOwner /\ rowOf' = rowOf /\ physical' = physical /\ aliases' = aliases
      /\ Live' = Live /\ (\A i : Seen(i)' <=> Seen(i)) /\ (\A d : Holds(d)' <=> Holds(d))
  BY DEF identityVars, scopeVars, Live, Seen, Holds
<1>2. \A p \in Processes : snapshot'[p] # None => snapshot[p] # None /\ snapshot'[p] = snapshot[p]
  OBVIOUS
<1>3. OrderInv' /\ DeviceInv' /\ MemberInv' /\ AliasInv'
  BY <1>1 DEF IInv, OrderInv, DeviceInv, MemberInv, AliasInv
<1>4. SeenInv'
  BY <1>1, <1>2 DEF IInv, SeenInv
<1>5. RowsInv'
  BY <1>1, <1>2 DEF IInv, RowsInv
<1>6. AgreeInv' /\ FirstInv'
  BY <1>1, <1>2 DEF IInv, AgreeInv, FirstInv
<1> QED
  BY <1>3, <1>4, <1>5, <1>6

\* Neither are the types of the tables.
LEMMA TypesKept ==
  ASSUME Types, UNCHANGED <<identityVars, scopeVars, told>>,
         program' \in [Processes -> Seq(Parts)], observed' \in Observation \cup {None},
         matched' \in Rows \cup {None}, snapshot' \in [Processes -> Snapshots \cup {None}]
  PROVE  Types'
<1>1. Live' = Live
  BY DEF identityVars, Live
<1> QED
  BY <1>1 DEF Types, identityVars, scopeVars

\* And what the watcher was told stays true.
LEMMA ToldKept ==
  ASSUME ToldInv, UNCHANGED <<identityVars, scopeVars, told>>,
         matched' = None \/ UNCHANGED <<observed, matched>>
  PROVE  ToldInv'
BY DEF ToldInv, identityVars, scopeVars
\* So a step of a call that leaves the tables alone keeps the invariant, if the
\* calls stay in order.
LEMMA CallStepInv ==
  ASSUME IInv, CallInv', UNCHANGED <<identityVars, scopeVars, told>>,
         program' \in [Processes -> Seq(Parts)], observed' \in Observation \cup {None},
         matched' = None \/ UNCHANGED <<observed, matched>>,
         snapshot' \in [Processes -> Snapshots \cup {None}],
         \A p \in Processes : snapshot'[p] \in {snapshot[p], None}
  PROVE  IInv'
<1>1. matched' \in Rows \cup {None}
  BY DEF IInv, Types
<1>2. Types'
  BY <1>1, TypesKept DEF IInv
<1>3. ToldInv'
  BY ToldKept DEF IInv
<1>4. UNCHANGED <<identityVars, scopeVars>>
  OBVIOUS
<1> QED
  BY <1>2, <1>3, <1>4, TablesKept DEF IInv

\* What a reader does about its call is nothing to the watcher's.
LEMMA ReaderCall ==
  ASSUME IInv, NEW p \in Readers, NEW s \in Seq(Parts), program' = [program EXCEPT ![p] = s],
         snapshot' \in {snapshot, [snapshot EXCEPT ![p] = None]},
         snapshot[p] = None \/ snapshot' # snapshot,
         UNCHANGED <<identityVars, scopeVars, observed, matched, told>>
  PROVE  IInv'
<1>1. p \in Processes /\ Watcher \in Processes /\ p # Watcher
  BY RegistryAssumption DEF Processes
<1>2. /\ program \in [Processes -> Seq(Parts)] /\ snapshot \in [Processes -> Snapshots \cup {None}]
      /\ observed \in Observation \cup {None}
  BY DEF IInv, Types
<1>3. /\ program' \in [Processes -> Seq(Parts)] /\ snapshot' \in [Processes -> Snapshots \cup {None}]
      /\ program'[Watcher] = program[Watcher]
      /\ \A q \in Processes : q # p => program'[q] = program[q]
  BY <1>1, <1>2
<1>4. snapshot'[p] = None /\ \A q \in Processes : snapshot'[q] \in {snapshot[q], None}
  BY <1>1, <1>2
<1>5. \A w : Pending(w)' <=> Pending(w)
  BY <1>3 DEF Pending
<1>6. ASSUME NEW q \in Processes, snapshot'[q] # None PROVE Next1(q)' = "sync"
  <2>1. q # p /\ snapshot[q] # None
    BY <1>4, <1>6
  <2>2. Next1(q) = "sync"
    BY <2>1 DEF IInv, CallInv
  <2> QED
    BY <2>1, <2>2, <1>3 DEF Next1
<1>7. CallInv'
  BY <1>3, <1>5, <1>6 DEF IInv, CallInv, AnswerLast
<1>8. UNCHANGED <<identityVars, scopeVars, told>> /\ UNCHANGED <<observed, matched>>
  OBVIOUS
<1> QED
  BY <1>2, <1>3, <1>4, <1>7, <1>8, CallStepInv

----------------------------------------------------------------------------
(* Calls begin, and end *)

\* A registration begins: all of it is still to be done.
LEMMA BeginRegisterInv ==
  ASSUME IInv, NEW o \in Observation, BeginRegister(o) PROVE IInv'
<1>1. /\ program[Watcher] = <<>> /\ program' = [program EXCEPT ![Watcher] = RegisterCall]
      /\ observed' = o /\ matched' = matched /\ snapshot' = snapshot /\ told' = told
      /\ UNCHANGED <<identityVars, scopeVars, told>>
  BY DEF BeginRegister
<1>2. /\ Watcher \in Processes /\ program \in [Processes -> Seq(Parts)]
      /\ snapshot \in [Processes -> Snapshots \cup {None}]
  BY DEF IInv, Types, Processes
<1>3. RegisterCall \in Seq(Parts)
  BY DEF RegisterCall, Parts
<1>4. /\ program' \in [Processes -> Seq(Parts)]
      /\ program'[Watcher] = RegisterCall /\ Len(RegisterCall) = 5
      /\ \A p \in Processes : p # Watcher => program'[p] = program[p]
  BY <1>1, <1>2, <1>3 DEF RegisterCall
<1>5. matched = None /\ o # None
  BY <1>1, EmptyPending, NoneApart DEF IInv, CallInv
<1>6. CallInv'
  <2>1. Pending("register")' /\ ~Pending("success")' /\ Pending("answer")'
    BY <1>4 DEF Pending, RegisterCall
  <2>2. AnswerLast'
    <3>1. \A n \in 1 .. 5 : RegisterCall[n] = "answer" => n = 5 /\ RegisterCall[n - 1] = "sync"
      BY DEF RegisterCall
    <3> QED
      BY <3>1, <1>4 DEF AnswerLast
  <2>3. ASSUME NEW p \in Processes, snapshot'[p] # None PROVE Next1(p)' = "sync"
    <3>1. Next1(p) = "sync"
      BY <2>3, <1>1 DEF IInv, CallInv
    <3> QED
      BY <3>1, <1>1, <1>4 DEF Next1
  <2> QED
    BY <2>1, <2>2, <2>3, <1>1, <1>4, <1>5 DEF CallInv
<1> QED
  BY <1>1, <1>2, <1>4, <1>5, <1>6, CallStepInv

\* The report of a successful poll begins: it is about a controller the watcher
\* was told of.
LEMMA BeginSuccessInv ==
  ASSUME IInv, NEW k \in Keys, BeginSuccess(k) PROVE IInv'
<1> DEFINE o == [key |-> k, serial |-> told[k].serial]
<1>1. /\ program[Watcher] = <<>> /\ program' = [program EXCEPT ![Watcher] = SuccessCall]
      /\ observed' = o /\ matched' = matched /\ snapshot' = snapshot /\ told' = told
      /\ UNCHANGED <<identityVars, scopeVars, told>> /\ told[k] # None
  BY DEF BeginSuccess
<1>2. /\ Watcher \in Processes /\ program \in [Processes -> Seq(Parts)]
      /\ snapshot \in [Processes -> Snapshots \cup {None}]
      /\ told[k] \in Answers
  BY <1>1 DEF IInv, Types, Processes
<1>3. SuccessCall \in Seq(Parts)
  BY DEF SuccessCall, Parts
<1>4. /\ program' \in [Processes -> Seq(Parts)]
      /\ program'[Watcher] = SuccessCall /\ Len(SuccessCall) = 3
      /\ \A p \in Processes : p # Watcher => program'[p] = program[p]
  BY <1>1, <1>2, <1>3 DEF SuccessCall
<1>5. matched = None /\ o \in Observation /\ o # None /\ o.key = k
  BY <1>1, <1>2, EmptyPending, NoneApart DEF IInv, CallInv, Observation, Answers
<1> HIDE DEF o
<1>6. CallInv'
  <2>1. ~Pending("register")' /\ ~Pending("answer")'
    BY <1>4 DEF Pending, SuccessCall
  <2>2. AnswerLast'
    <3>1. \A n \in 1 .. 3 : SuccessCall[n] # "answer"
      BY DEF SuccessCall
    <3> QED
      BY <3>1, <1>4 DEF AnswerLast
  <2>3. ASSUME NEW p \in Processes, snapshot'[p] # None PROVE Next1(p)' = "sync"
    <3>1. Next1(p) = "sync"
      BY <2>3, <1>1 DEF IInv, CallInv
    <3> QED
      BY <3>1, <1>1, <1>4 DEF Next1
  <2> QED
    BY <2>1, <2>2, <2>3, <1>1, <1>4, <1>5 DEF CallInv
<1> QED
  BY <1>1, <1>2, <1>4, <1>5, <1>6, CallStepInv

\* A reader's call begins.
LEMMA BeginResolveInv ==
  ASSUME IInv, NEW p \in Readers, BeginResolve(p) PROVE IInv'
<1>1. ResolveCall \in Seq(Parts)
  BY DEF ResolveCall, Parts
<1>2. snapshot[p] = None
  BY DEF IInv, CallInv, Processes, BeginResolve, Next1
<1> QED
  BY <1>1, <1>2, ReaderCall DEF BeginResolve

\* A reader's call ends.
LEMMA AnswerReaderInv ==
  ASSUME IInv, NEW p \in Readers, AnswerReader(p) PROVE IInv'
<1>1. Next1(p) = "answer" /\ p \in Processes /\ Types
  BY DEF AnswerReader, IInv, Processes
<1>2. program[p] \in Seq(Parts) /\ program[p] # <<>>
  BY <1>1, NextShape
<1>3. snapshot[p] = None
  BY <1>1 DEF IInv, CallInv
<1> QED
  BY <1>2, <1>3, TailShape, ReaderCall DEF AnswerReader, Advance

\* A call that raised is not over: it is still to be abandoned.
LEMMA RaisedShape == Raised \in Seq(Parts) /\ <<>> \in Seq(Parts) /\ Raised # <<>>
<1>1. Raised \in Seq(Parts) /\ <<>> \in Seq(Parts)
  BY DEF Raised, Parts
<1>2. Len(Raised) = 1 /\ Len(<<>>) = 0
  BY DEF Raised
<1>3. ASSUME Raised = <<>> PROVE FALSE
  <2>1. Len(Raised) = Len(<<>>)
    BY <1>3, Zenon
  <2> QED
    BY <2>1, <1>2
<1> QED
  BY <1>1, <1>3, Zenon

\* What the watcher leaves undone when its call stops.
LEMMA WatcherStops ==
  ASSUME IInv, NEW s \in {<<>>, Raised}, program' = [program EXCEPT ![Watcher] = s],
         snapshot' = [snapshot EXCEPT ![Watcher] = None],
         s = <<>> => observed' = None /\ matched' = None,
         s = Raised => UNCHANGED <<observed, matched>>,
         UNCHANGED <<identityVars, scopeVars, told>>
  PROVE  IInv'
<1>1. /\ Watcher \in Processes /\ program \in [Processes -> Seq(Parts)]
      /\ snapshot \in [Processes -> Snapshots \cup {None}]
      /\ observed \in Observation \cup {None}
  BY DEF IInv, Types, Processes
<1>2. s \in Seq(Parts) /\ Raised # <<>>
  BY RaisedShape
<1>3. /\ program' \in [Processes -> Seq(Parts)]
      /\ program'[Watcher] = s /\ Len(s) \in {0, 1}
      /\ \A p \in Processes : p # Watcher => program'[p] = program[p]
  BY <1>1, <1>2 DEF Raised
<1>4. /\ snapshot' \in [Processes -> Snapshots \cup {None}] /\ snapshot'[Watcher] = None
      /\ \A p \in Processes : snapshot'[p] \in {snapshot[p], None}
  BY <1>1
<1>5. observed' \in Observation \cup {None} /\ (matched' = None \/ UNCHANGED <<observed, matched>>)
  BY <1>1
<1>6. CallInv'
  <2>1. ~Pending("register")' /\ ~Pending("answer")' /\ ~Pending("success")' /\ AnswerLast'
        /\ (s = Raised => Pending("raised")')
    BY <1>3 DEF Pending, Raised, AnswerLast
  <2>2. ASSUME NEW p \in Processes, snapshot'[p] # None PROVE Next1(p)' = "sync"
    <3>1. p # Watcher /\ Next1(p) = "sync"
      BY <2>2, <1>4 DEF IInv, CallInv
    <3> QED
      BY <3>1, <1>3 DEF Next1
  <2> QED
    BY <2>1, <2>2, <1>3 DEF CallInv
<1> QED
  BY <1>3, <1>4, <1>5, <1>6, CallStepInv

\* A call is abandoned.
LEMMA AbandonInv ==
  ASSUME IInv, NEW p \in Processes, Abandon(p) PROVE IInv'
<1>1. CASE p = Watcher
  BY <1>1, WatcherStops, RaisedShape DEF Abandon
<1>2. CASE p # Watcher
  <2>1. p \in Readers
    BY <1>2 DEF Processes
  <2>2. snapshot[p] = None \/ snapshot' # snapshot
    BY DEF Abandon, IInv, Types
  <2> QED
    BY <1>2, <2>1, <2>2, ReaderCall, RaisedShape DEF Abandon
<1> QED
  BY <1>1, <1>2

\* A synchronisation clashes and is rolled back.
LEMMA SyncRaisesInv ==
  ASSUME IInv, NEW p \in Processes, SyncRaises(p) PROVE IInv'
<1>1. CASE p = Watcher
  BY <1>1, WatcherStops, RaisedShape DEF SyncRaises
<1>2. CASE p # Watcher
  <2>1. p \in Readers /\ Raised \in Seq(Parts)
    BY <1>2, RaisedShape DEF Processes
  <2>2. snapshot[p] = None \/ snapshot' # snapshot
    BY DEF SyncRaises, IInv, Types
  <2> QED
    BY <2>1, <2>2, ReaderCall DEF SyncRaises
<1> QED
  BY <1>1, <1>2

----------------------------------------------------------------------------
(* Synchronisation *)

\* The UID a row is found under is there, with the row's device.
LEMMA KnownUidShape ==
  ASSUME Types, AliasInv, NEW r \in Rows,
         aliases[r.id] # None => physical[aliases[r.id]].device = r.device
  PROVE  /\ KnownUid(r) = None => aliases[r.id] = None
              /\ \A u \in Uids : physical[u] # None => physical[u].device # r.device
         /\ KnownUid(r) # None => KnownUid(r) \in Uids /\ physical[KnownUid(r)] # None
              /\ physical[KnownUid(r)].device = r.device
         /\ aliases[r.id] # None => KnownUid(r) = aliases[r.id]
<1>1. r.id \in Ids /\ aliases[r.id] \in Uids \cup {None}
  BY DEF Types, Rows
<1>2. CASE aliases[r.id] # None
  BY <1>1, <1>2 DEF KnownUid, AliasInv
<1>3. CASE aliases[r.id] = None
  <2>1. CASE HoldersOf(r.device) = {}
    BY <1>3, <2>1 DEF KnownUid, HoldersOf
  <2>2. CASE HoldersOf(r.device) # {}
    <3>1. KnownUid(r) \in HoldersOf(r.device)
      BY <1>3, <2>2 DEF KnownUid
    <3>2. KnownUid(r) # None
      BY <3>1, NoneApart DEF HoldersOf
    <3> QED
      BY <1>3, <3>1, <3>2 DEF HoldersOf
  <2> QED
    BY <2>1, <2>2
<1> QED
  BY <1>2, <1>3

\* A row of the identity table.
LEMMA RowShape ==
  ASSUME Types, NEW i \in Live
  PROVE  Row(i) \in Rows /\ Row(i).id = i /\ Row(i).device = canonical[i] /\ i \in Ids
BY DEF Types, Row, Rows, Live

\* A synchronisation reads the identities, and looks up the first.
LEMMA SyncReadInv ==
  ASSUME IInv, NEW p \in Processes, SyncRead(p) PROVE IInv'
<1> DEFINE rows == {Row(j) : j \in Live}
<1>1. PICK i \in First : snapshot' = [snapshot EXCEPT ![p] =
        [rows |-> rows, first |-> i, uid |-> IF i = None THEN None ELSE KnownUid(Row(i))]]
  BY DEF SyncRead
<1>2. /\ UNCHANGED <<identityVars, scopeVars, program, observed, matched, told>>
      /\ snapshot[p] = None /\ Next1(p) = "sync"
  BY DEF SyncRead
<1> DEFINE new == [rows |-> rows, first |-> i, uid |-> IF i = None THEN None ELSE KnownUid(Row(i))]
<1>3. i \in Live \cup {None} /\ (i \in Live => i # None)
  BY NoneApart DEF First, Live
<1>4. \A j \in Live : Row(j) \in Rows /\ Row(j).id = j /\ Row(j).device = canonical[j] /\ j \in Ids
                       /\ canonical[j] # None
  BY RowShape DEF IInv, Live
<1>5. \A r \in rows : r \in Rows /\ r.id \in Live /\ r.device = canonical[r.id] /\ r = Row(r.id)
  BY <1>4
<1>6. ASSUME i \in Live
      PROVE  /\ KnownUid(Row(i)) = None => aliases[i] = None
             /\ KnownUid(Row(i)) # None => KnownUid(Row(i)) \in Uids
                  /\ physical[KnownUid(Row(i))] # None
                  /\ physical[KnownUid(Row(i))].device = canonical[i]
  <2>1. Row(i) \in Rows /\ Row(i).id = i /\ Row(i).device = canonical[i] /\ i \in Ids /\ canonical[i] # None
    BY <1>4, <1>6
  <2>2. aliases[i] # None => physical[aliases[i]].device = canonical[i]
    BY <2>1 DEF IInv, AliasInv
  <2> QED
    BY <2>1, <2>2, KnownUidShape DEF IInv
<1> HIDE DEF rows
<1>7. new \in Snapshots /\ new.rows = rows /\ new.first = i
      /\ new.uid = IF i = None THEN None ELSE KnownUid(Row(i))
  BY <1>3, <1>5, <1>6 DEF Snapshots, Live
<1>8. snapshot' = [snapshot EXCEPT ![p] = new] /\ snapshot \in [Processes -> Snapshots \cup {None}]
  BY <1>1 DEF IInv, Types
<1> HIDE DEF new
<1>9. /\ snapshot'[p] = new /\ snapshot' \in [Processes -> Snapshots \cup {None}]
      /\ \A q \in Processes : q # p => snapshot'[q] = snapshot[q]
  BY <1>7, <1>8
<1>10. /\ canonical' = canonical /\ older' = older /\ members' = members
       /\ lastOwner' = lastOwner /\ rowOf' = rowOf /\ physical' = physical /\ aliases' = aliases
       /\ Live' = Live /\ (\A j : Seen(j)' <=> Seen(j)) /\ (\A d : Holds(d)' <=> Holds(d))
  BY <1>2 DEF identityVars, scopeVars, Live, Seen, Holds
<1>11. OrderInv' /\ DeviceInv' /\ MemberInv' /\ AliasInv'
  BY <1>10 DEF IInv, OrderInv, DeviceInv, MemberInv, AliasInv
<1>12. Types'
  <2>1. program' = program /\ observed' = observed /\ matched' = matched /\ told' = told
    BY <1>2
  <2> QED
    BY <2>1, <1>9, <1>10 DEF IInv, Types
<1>13. SeenInv'
  <2>1. \A r \in rows : Seen(r.id)
    BY <1>5 DEF IInv, SeenInv, Live
  <2> QED
    BY <2>1, <1>7, <1>9, <1>10 DEF IInv, SeenInv
<1>14. RowsInv'
  <2>1. \A r, t \in rows : r.device = t.device => r.id = t.id
    BY <1>5 DEF IInv, DeviceInv
  <2>2. \A r \in rows : Holds(r.device)
    BY <1>5 DEF Holds
  <2>3. \A r \in rows : aliases[r.id] # None => physical[aliases[r.id]].device = r.device
    BY <1>5 DEF IInv, AliasInv, Live
  <2> QED
    BY <2>1, <2>2, <2>3, <1>5, <1>7, <1>9, <1>10 DEF IInv, RowsInv
<1>15. AgreeInv'
  <2>1. \A q \in Processes : snapshot[q] # None =>
          \A r \in rows, t \in snapshot[q].rows : r.id = t.id => r.device = t.device
    BY <1>5 DEF IInv, RowsInv, Live
  <2>2. \A r, t \in rows : r.id = t.id => r.device = t.device
    BY <1>5
  <2> QED
    BY <2>1, <2>2, <1>7, <1>9 DEF IInv, AgreeInv
<1>16. FirstInv'
  <2>1. ASSUME NEW r \in rows, r.id = i
        PROVE  IF new.uid = None THEN physical[<<p, r.id>>] = None
               ELSE physical[new.uid] # None /\ physical[new.uid].device = r.device
    <3>1. i \in Live /\ i \in Ids /\ r.device = canonical[i] /\ new.uid = KnownUid(Row(i))
      BY <2>1, <1>3, <1>4, <1>5, <1>7
    <3>2. aliases[i] = None => physical[<<p, i>>] = None
      <4>1. <<p, i>> \in Uids
        BY <3>1 DEF Uids
      <4> QED
        BY <4>1, <3>1, NoneApart DEF IInv, AliasInv
    <3> QED
      BY <3>1, <3>2, <2>1, <1>6
  <2> QED
    BY <2>1, <1>7, <1>9, <1>10 DEF IInv, FirstInv
<1>17. CallInv'
  <2>1. program' = program /\ observed' = observed /\ matched' = matched /\ told' = told
    BY <1>2
  <2>2. (\A w : Pending(w)' <=> Pending(w)) /\ (AnswerLast' <=> AnswerLast)
    BY <2>1 DEF Pending, AnswerLast
  <2>3. \A q \in Processes : snapshot'[q] # None => Next1(q)' = "sync"
    BY <2>1, <1>2, <1>9 DEF IInv, CallInv, Next1
  <2> QED
    BY <2>1, <2>2, <2>3 DEF IInv, CallInv
<1>18. ToldInv'
  BY <1>2, ToldKept DEF IInv
<1> QED
  BY <1>11, <1>12, <1>13, <1>14, <1>15, <1>16, <1>17, <1>18 DEF IInv

\* The UID a row is written under: its own for good, or a new one; and the only
\* one with the row's device, or the synchronisation would have clashed.
LEMMA UidForShape ==
  ASSUME IInv, NEW p \in Processes, snapshot[p] # None, ~Clash(p), NEW r \in snapshot[p].rows
  PROVE  /\ r \in Rows /\ UidFor(p, r) \in Uids
         /\ aliases[r.id] # None => UidFor(p, r) = aliases[r.id]
         /\ physical[UidFor(p, r)] # None => physical[UidFor(p, r)].device = r.device
         /\ physical[UidFor(p, r)] = None => UidFor(p, r) = <<p, r.id>>
         /\ \A u \in Uids : physical[u] # None /\ physical[u].device = r.device => u = UidFor(p, r)
<1>1. snapshot[p] \in Snapshots /\ r \in Rows /\ r.id \in Ids /\ <<p, r.id>> \in Uids
  BY DEF IInv, Types, Snapshots, Rows, Uids
<1>2. aliases[r.id] # None => physical[aliases[r.id]].device = r.device
  BY DEF IInv, RowsInv
<1>3. \A u \in Uids : physical[u] # None /\ physical[u].device = r.device => u = UidFor(p, r)
  BY DEF Clash, HoldersOf
<1>4. CASE r.id = snapshot[p].first
  <2>1. CASE snapshot[p].uid = None
    <3>1. UidFor(p, r) = <<p, r.id>> /\ physical[<<p, r.id>>] = None
      BY <1>4, <2>1 DEF UidFor, IInv, FirstInv
    <3>2. aliases[r.id] = None
      <4>1. SUFFICES ASSUME aliases[r.id] # None PROVE FALSE
        OBVIOUS
      <4>2. aliases[r.id] \in Uids /\ physical[aliases[r.id]] # None
        BY <4>1, <1>1 DEF IInv, Types, AliasInv
      <4>3. aliases[r.id] = UidFor(p, r)
        BY <4>1, <4>2, <1>2, <1>3
      <4> QED
        BY <4>2, <4>3, <3>1
    <3> QED
      BY <1>1, <1>3, <3>1, <3>2
  <2>2. CASE snapshot[p].uid # None
    <3>1. UidFor(p, r) = snapshot[p].uid /\ snapshot[p].uid \in Uids
      BY <1>1, <1>4, <2>2 DEF UidFor, Snapshots
    <3>2. physical[UidFor(p, r)] # None /\ physical[UidFor(p, r)].device = r.device
      BY <1>4, <2>2, <3>1 DEF IInv, FirstInv
    <3>3. aliases[r.id] # None => aliases[r.id] \in Uids /\ physical[aliases[r.id]] # None
      BY <1>1 DEF IInv, Types, AliasInv
    <3> QED
      BY <1>1, <1>2, <1>3, <3>1, <3>2, <3>3
  <2> QED
    BY <2>1, <2>2
<1>5. CASE r.id # snapshot[p].first
  <2>1. UidFor(p, r) = IF KnownUid(r) # None THEN KnownUid(r) ELSE <<p, r.id>>
    BY <1>5 DEF UidFor
  <2>2. /\ KnownUid(r) = None => aliases[r.id] = None
        /\ KnownUid(r) # None => KnownUid(r) \in Uids /\ physical[KnownUid(r)] # None
              /\ physical[KnownUid(r)].device = r.device
        /\ aliases[r.id] # None => KnownUid(r) = aliases[r.id]
    BY <1>1, <1>2, KnownUidShape DEF IInv
  <2>3. KnownUid(r) = None => physical[<<p, r.id>>] = None
    BY <1>1, <2>2, NoneApart DEF IInv, AliasInv
  <2> QED
    BY <1>1, <1>3, <2>1, <2>2, <2>3
<1> QED
  BY <1>4, <1>5

\* No two rows are written under one UID.
LEMMA UidForApart ==
  ASSUME IInv, NEW p \in Processes, snapshot[p] # None, ~Clash(p),
         NEW r \in snapshot[p].rows, NEW t \in snapshot[p].rows, UidFor(p, r) = UidFor(p, t)
  PROVE  r = t
<1>1. r \in Rows /\ t \in Rows /\ UidFor(p, r) \in Uids
  BY UidForShape
<1>2. CASE physical[UidFor(p, r)] # None
  <2>1. r.device = t.device
    BY <1>2, UidForShape
  <2>2. r.id = t.id
    BY <2>1 DEF IInv, RowsInv
  <2> QED
    BY <1>1, <2>1, <2>2 DEF Rows
<1>3. CASE physical[UidFor(p, r)] = None
  <2>1. UidFor(p, r) = <<p, r.id>> /\ UidFor(p, t) = <<p, t.id>>
    BY <1>3, UidForShape
  <2>2. r.id = t.id
    <3>1. <<p, r.id>> = <<p, t.id>>
      BY <2>1
    <3> QED
      BY <3>1
  <2>3. r.device = t.device
    BY <2>2 DEF IInv, AgreeInv
  <2> QED
    BY <1>1, <2>2, <2>3 DEF Rows
<1> QED
  BY <1>2, <1>3

\* What a synchronisation writes.
LEMMA SyncWrites ==
  ASSUME IInv, NEW p \in Processes, SyncWrite(p)
  PROVE  /\ physical' \in [Uids -> Physicals \cup {None}] /\ aliases' \in [Ids -> Uids \cup {None}]
         /\ \A r \in snapshot[p].rows :
              /\ aliases'[r.id] = UidFor(p, r)
              /\ physical'[UidFor(p, r)] = [device |-> r.device, current |-> r.id]
              /\ physical'[UidFor(p, r)] # None
         /\ \A i \in Ids : (\A r \in snapshot[p].rows : r.id # i) => aliases'[i] = aliases[i]
         /\ \A u \in Uids : (\A r \in snapshot[p].rows : UidFor(p, r) # u) => physical'[u] = physical[u]
<1> DEFINE rows == snapshot[p].rows
<1>1. /\ snapshot[p] # None /\ ~Clash(p)
      /\ physical' = [u \in Uids |->
           IF \E r \in rows : UidFor(p, r) = u
           THEN Upserted(u, CHOOSE r \in rows : UidFor(p, r) = u) ELSE physical[u]]
      /\ aliases' = [i \in Ids |->
           IF \E r \in rows : r.id = i
           THEN UidFor(p, CHOOSE r \in rows : r.id = i) ELSE aliases[i]]
  BY DEF SyncWrite
<1>2. \A r \in rows : r \in Rows /\ r.id \in Ids /\ r.device \in Devices /\ UidFor(p, r) \in Uids
  BY <1>1, UidForShape DEF Rows
<1>3. \A r, t \in rows : UidFor(p, r) = UidFor(p, t) => r = t
  BY <1>1, UidForApart
<1>4. \A r, t \in rows : r.id = t.id => r = t
  BY <1>1, <1>2 DEF IInv, AgreeInv, Rows
<1>5. \A u \in Uids, r \in rows : UidFor(p, r) = u => r = (CHOOSE t \in rows : UidFor(p, t) = u)
  BY <1>3
<1>6. \A i \in Ids, r \in rows : r.id = i => r = (CHOOSE t \in rows : t.id = i)
  BY <1>4
<1>7. \A r \in rows : \A u : Upserted(u, r) = [device |-> r.device, current |-> r.id]
                                  /\ Upserted(u, r) \in Physicals /\ Upserted(u, r) # None
  BY <1>2, NoneApart DEF Upserted, Physicals
<1> HIDE DEF rows
<1>8. ASSUME NEW r \in rows
      PROVE  aliases'[r.id] = UidFor(p, r) /\ physical'[UidFor(p, r)] = Upserted(UidFor(p, r), r)
  <2>1. r.id \in Ids /\ UidFor(p, r) \in Uids
    BY <1>2
  <2>2. r = (CHOOSE t \in rows : UidFor(p, t) = UidFor(p, r)) /\ r = (CHOOSE t \in rows : t.id = r.id)
    BY <2>1, <1>5, <1>6
  <2>3. aliases'[r.id] = UidFor(p, CHOOSE t \in rows : t.id = r.id)
    BY <2>1, <1>1
  <2>4. physical'[UidFor(p, r)] = Upserted(UidFor(p, r), CHOOSE t \in rows : UidFor(p, t) = UidFor(p, r))
    BY <2>1, <1>1
  <2> QED
    BY <2>2, <2>3, <2>4
<1>9. /\ \A i \in Ids : (\A r \in rows : r.id # i) => aliases'[i] = aliases[i]
      /\ \A u \in Uids : (\A r \in rows : UidFor(p, r) # u) => physical'[u] = physical[u]
  BY <1>1
<1>10. ASSUME NEW u \in Uids PROVE physical'[u] \in Physicals \cup {None}
  <2>1. physical[u] \in Physicals \cup {None}
    BY DEF IInv, Types
  <2> QED
    BY <2>1, <1>7, <1>8, <1>9
<1>11. ASSUME NEW i \in Ids PROVE aliases'[i] \in Uids \cup {None}
  <2>1. aliases[i] \in Uids \cup {None}
    BY DEF IInv, Types
  <2> QED
    BY <2>1, <1>2, <1>8, <1>9
<1>12. physical' \in [Uids -> Physicals \cup {None}] /\ aliases' \in [Ids -> Uids \cup {None}]
  BY <1>1, <1>10, <1>11
<1> QED
  BY <1>7, <1>8, <1>9, <1>12 DEF rows

\* A synchronisation commits: what was there stays, and what is new agrees.
LEMMA SyncKeeps ==
  ASSUME IInv, NEW p \in Processes, SyncWrite(p)
  PROVE  /\ \A i \in Ids : aliases[i] # None => aliases'[i] = aliases[i]
         /\ \A u \in Uids : physical[u] # None =>
              physical'[u] # None /\ physical'[u].device = physical[u].device
<1>1. snapshot[p] # None /\ ~Clash(p)
  BY DEF SyncWrite
<1>2. \A r \in snapshot[p].rows :
        /\ UidFor(p, r) \in Uids
        /\ aliases[r.id] # None => UidFor(p, r) = aliases[r.id]
        /\ physical[UidFor(p, r)] # None => physical[UidFor(p, r)].device = r.device
  BY <1>1, UidForShape
<1>3. /\ \A r \in snapshot[p].rows :
           /\ aliases'[r.id] = UidFor(p, r)
           /\ physical'[UidFor(p, r)] = [device |-> r.device, current |-> r.id]
           /\ physical'[UidFor(p, r)] # None
      /\ \A i \in Ids : (\A r \in snapshot[p].rows : r.id # i) => aliases'[i] = aliases[i]
      /\ \A u \in Uids : (\A r \in snapshot[p].rows : UidFor(p, r) # u) => physical'[u] = physical[u]
  BY SyncWrites
<1>4. ASSUME NEW i \in Ids, aliases[i] # None PROVE aliases'[i] = aliases[i]
  <2>1. CASE \A r \in snapshot[p].rows : r.id # i
    BY <2>1, <1>3
  <2>2. ASSUME NEW r \in snapshot[p].rows, r.id = i PROVE aliases'[i] = aliases[i]
    BY <2>2, <1>2, <1>3, <1>4
  <2> QED
    BY <2>1, <2>2
<1>5. ASSUME NEW u \in Uids, physical[u] # None
      PROVE  physical'[u] # None /\ physical'[u].device = physical[u].device
  <2>1. CASE \A r \in snapshot[p].rows : UidFor(p, r) # u
    BY <2>1, <1>3, <1>5
  <2>2. ASSUME NEW r \in snapshot[p].rows, UidFor(p, r) = u
        PROVE  physical'[u] # None /\ physical'[u].device = physical[u].device
    <3>1. physical'[u] # None /\ physical'[u] = [device |-> r.device, current |-> r.id]
      BY <2>2, <1>3
    <3>2. physical[u].device = r.device
      BY <2>2, <1>2, <1>5
    <3> QED
      BY <3>1, <3>2
  <2> QED
    BY <2>1, <2>2
<1> QED
  BY <1>4, <1>5

\* The tables, after a synchronisation.
LEMMA SyncAliases ==
  ASSUME IInv, NEW p \in Processes, SyncWrite(p)
  PROVE  AliasInv'
<1> DEFINE rows == snapshot[p].rows
<1>1. snapshot[p] # None /\ ~Clash(p) /\ canonical' = canonical /\ Live' = Live
  BY DEF SyncWrite, identityVars, Live
<1>2. \A r \in rows :
        /\ r.id \in Ids /\ r.device \in Devices /\ UidFor(p, r) \in Uids /\ UidFor(p, r) # None
        /\ aliases'[r.id] = UidFor(p, r)
        /\ physical'[UidFor(p, r)] # None /\ physical'[UidFor(p, r)].device = r.device
        /\ \A u \in Uids : physical[u] # None /\ physical[u].device = r.device => u = UidFor(p, r)
        /\ physical[UidFor(p, r)] = None => UidFor(p, r) = <<p, r.id>>
  <2>1. \A r \in rows :
          /\ r \in Rows /\ UidFor(p, r) \in Uids
          /\ \A u \in Uids : physical[u] # None /\ physical[u].device = r.device => u = UidFor(p, r)
          /\ physical[UidFor(p, r)] = None => UidFor(p, r) = <<p, r.id>>
    BY <1>1, UidForShape
  <2>2. \A r \in rows :
          /\ aliases'[r.id] = UidFor(p, r)
          /\ physical'[UidFor(p, r)] # None
          /\ physical'[UidFor(p, r)] = [device |-> r.device, current |-> r.id]
    BY SyncWrites
  <2>3. \A r \in rows : r.id \in Ids /\ r.device \in Devices /\ UidFor(p, r) # None
    BY <2>1, NoneApart DEF Rows
  <2>4. ASSUME NEW r \in rows PROVE physical'[UidFor(p, r)].device = r.device
    <3>1. physical'[UidFor(p, r)] = [device |-> r.device, current |-> r.id]
      BY <2>2
    <3> QED
      BY <3>1
  <2> QED
    BY <2>1, <2>2, <2>3, <2>4
<1>3. /\ \A i \in Ids : (\A r \in rows : r.id # i) => aliases'[i] = aliases[i]
      /\ \A u \in Uids : (\A r \in rows : UidFor(p, r) # u) => physical'[u] = physical[u]
  BY SyncWrites
<1>4. /\ \A i \in Ids : aliases[i] # None => aliases'[i] = aliases[i]
      /\ \A u \in Uids : physical[u] # None =>
           physical'[u] # None /\ physical'[u].device = physical[u].device
  BY SyncKeeps
<1>5. \A r \in rows : /\ canonical[r.id] # None => canonical[r.id] = r.device
                      /\ Holds(r.device)
  BY <1>1 DEF IInv, RowsInv
<1>6. \A r, t \in rows : r.device = t.device => r = t
  <2>1. \A r, t \in rows : r.device = t.device => r.id = t.id
    BY <1>1 DEF IInv, RowsInv
  <2> QED
    BY <2>1, <1>1, UidForShape DEF Rows
<1>7. aliases \in [Ids -> Uids \cup {None}]
  BY DEF IInv, Types
<1> HIDE DEF rows
<1>8. \A i \in Ids : aliases'[i] # None => physical'[aliases'[i]] # None
  <2>1. \A i \in Ids : aliases[i] # None => aliases[i] \in Uids /\ physical[aliases[i]] # None
    BY <1>7 DEF IInv, AliasInv
  <2> QED
    BY <2>1, <1>2, <1>3, <1>4
<1>9. \A i \in Ids : aliases'[i] # None /\ canonical'[i] # None => physical'[aliases'[i]].device = canonical'[i]
  <2>1. \A i \in Ids : aliases[i] # None => aliases[i] \in Uids /\ physical[aliases[i]] # None
    BY <1>7 DEF IInv, AliasInv
  <2>2. \A i \in Ids : aliases[i] # None /\ canonical[i] # None => physical[aliases[i]].device = canonical[i]
    BY DEF IInv, AliasInv
  <2> QED
    BY <2>1, <2>2, <1>1, <1>2, <1>3, <1>4, <1>5
<1>10. \A u, v \in Uids : physical'[u] # None /\ physical'[v] # None
         /\ physical'[u].device = physical'[v].device => u = v
  <2>1. \A u, v \in Uids : physical[u] # None /\ physical[v] # None
          /\ physical[u].device = physical[v].device => u = v
    BY DEF IInv, AliasInv
  <2>2. \A u \in Uids : physical'[u] # None =>
          \/ \E r \in rows : u = UidFor(p, r) /\ physical'[u].device = r.device
          \/ physical[u] # None /\ physical'[u].device = physical[u].device
    BY <1>2, <1>3
  <2> QED
    BY <2>1, <2>2, <1>2, <1>6
<1>11. \A q \in Processes, i \in Ids : physical'[<<q, i>>] # None => aliases'[i] = <<q, i>>
  <2> SUFFICES ASSUME NEW q \in Processes, NEW i \in Ids, physical'[<<q, i>>] # None
               PROVE  aliases'[i] = <<q, i>>
    OBVIOUS
  <2>1. <<q, i>> \in Uids /\ <<q, i>> # None
    BY NoneApart DEF Uids
  <2>2. CASE physical[<<q, i>>] # None
    BY <2>1, <2>2, <1>4 DEF IInv, AliasInv
  <2>3. CASE physical[<<q, i>>] = None
    <3>1. PICK r \in rows : UidFor(p, r) = <<q, i>>
      BY <2>1, <2>3, <1>3
    <3>2. <<q, i>> = <<p, r.id>>
      BY <3>1, <2>3, <1>2
    <3>3. r.id = i
      BY <3>2
    <3> QED
      BY <3>1, <3>3, <1>2
  <2> QED
    BY <2>2, <2>3
<1>12. (\A u \in Uids : physical[u] # None => Holds(physical[u].device))'
  <2>1. \A u \in Uids : physical[u] # None => \E j \in Live : canonical[j] = physical[u].device
    BY DEF IInv, AliasInv, Holds
  <2>2. ASSUME NEW r \in rows PROVE \E j \in Live : canonical[j] = r.device
    <3>1. Holds(r.device)
      BY <1>5
    <3> QED
      BY <3>1 DEF Holds
  <2>3. \A u \in Uids : physical'[u] # None => \E j \in Live : canonical[j] = physical'[u].device
    BY <2>1, <2>2, <1>2, <1>3
  <2> QED
    BY <2>3, <1>1 DEF Holds
<1> QED
  BY <1>8, <1>9, <1>10, <1>11, <1>12 DEF AliasInv

\* However a call goes on, an answer still comes last and after a
\* synchronisation.
LEMMA OrderKept ==
  ASSUME IInv, NEW p \in Processes, Next1(p) # "idle", Advance(p)
  PROVE  AnswerLast'
<1>1. Watcher \in Processes /\ \A q \in Processes : program[q] \in Seq(Parts) /\ program'[q] \in Seq(Parts)
  BY AdvancePending DEF IInv, Types, Processes
<1>2. CASE p # Watcher
  <2>1. program'[Watcher] = program[Watcher]
    BY <1>1, <1>2, AdvancePending DEF IInv
  <2> QED
    BY <2>1 DEF IInv, CallInv, AnswerLast
<1>3. CASE p = Watcher
  <2>1. /\ Len(program'[Watcher]) = Len(program[Watcher]) - 1
        /\ \A n \in 1 .. Len(program'[Watcher]) :
             n + 1 \in 2 .. Len(program[Watcher]) /\ program'[Watcher][n] = program[Watcher][n + 1]
    <3>1. program' = [program EXCEPT ![Watcher] = Tail(program[Watcher])] /\ program[Watcher] # <<>>
      BY <1>3, NextShape DEF Advance, IInv
    <3>2. program'[Watcher] = Tail(program[Watcher])
      BY <3>1 DEF IInv, Types, Processes
    <3> QED
      BY <1>1, <1>3, <3>1, <3>2, TailShape, AdvancePending DEF IInv
  <2> SUFFICES ASSUME NEW n \in 1 .. Len(program'[Watcher]), program'[Watcher][n] = "answer"
               PROVE  n = Len(program'[Watcher]) /\ (n # 1 => program'[Watcher][n - 1] = "sync")
    BY DEF AnswerLast
  <2>2. Len(program'[Watcher]) \in Nat /\ Len(program[Watcher]) \in Nat /\ n \in Nat /\ n + 1 # 1
    BY <1>1
  <2>3. n + 1 \in 1 .. Len(program[Watcher]) /\ program[Watcher][n + 1] = "answer"
    BY <2>1, <2>2
  <2>4. n + 1 = Len(program[Watcher]) /\ program[Watcher][(n + 1) - 1] = "sync"
    BY <2>2, <2>3 DEF IInv, CallInv, AnswerLast
  <2>5. ASSUME n # 1 PROVE program'[Watcher][n - 1] = program[Watcher][(n - 1) + 1]
    <3>1. n - 1 \in 1 .. Len(program'[Watcher])
      BY <2>2, <2>5
    <3> QED
      BY <3>1, <2>1
  <2>6. n = Len(program'[Watcher])
    BY <2>1, <2>2, <2>4
  <2>7. n # 1 => program'[Watcher][n - 1] = "sync"
    BY <2>2, <2>4, <2>5
  <2> QED
    BY <2>6, <2>7
<1> QED
  BY <1>2, <1>3

\* After a synchronisation the call goes on.
LEMMA SyncAdvance ==
  ASSUME IInv, NEW p \in Processes, Next1(p) = "sync", Advance(p),
         observed' = observed, matched' = matched, told' = told,
         \A q \in Processes : snapshot'[q] # None => q # p /\ snapshot[q] # None
  PROVE  CallInv'
<1>1. /\ \A q \in Processes : q # p => program'[q] = program[q] /\ Next1(q)' = Next1(q)
      /\ p # Watcher => \A w : Pending(w)' <=> Pending(w)
      /\ p = Watcher => \A w : Pending(w)' => Pending(w)
      /\ p = Watcher => \A w : Pending(w) => w = "sync" \/ Pending(w)'
      /\ p = Watcher => \A n \in 1 .. Len(program'[p]) :
           n + 1 \in 2 .. Len(program[p]) /\ program'[p][n] = program[p][n + 1]
  BY AdvancePending DEF IInv
<1>2. /\ Pending("register")' <=> Pending("register")
      /\ Pending("success")' <=> Pending("success")
      /\ Pending("answer")' <=> Pending("answer")
      /\ Pending("raised")' <=> Pending("raised")
  BY <1>1
<1>3. \A q \in Processes : snapshot'[q] # None => Next1(q)' = "sync"
  BY <1>1 DEF IInv, CallInv
<1>4. AnswerLast'
  BY OrderKept
<1> QED
  BY <1>2, <1>3, <1>4 DEF IInv, CallInv

\* A synchronisation commits.
LEMMA SyncWriteInv ==
  ASSUME IInv, NEW p \in Processes, SyncWrite(p) PROVE IInv'
<1> DEFINE rows == snapshot[p].rows
<1>1. /\ snapshot[p] # None /\ ~Clash(p) /\ Next1(p) = "sync" /\ Advance(p)
      /\ snapshot' = [snapshot EXCEPT ![p] = None]
      /\ UNCHANGED <<identityVars, observed, matched, told>>
  BY DEF SyncWrite
<1>2. /\ canonical' = canonical /\ older' = older /\ members' = members
      /\ lastOwner' = lastOwner /\ rowOf' = rowOf /\ observed' = observed
      /\ matched' = matched /\ told' = told
      /\ Live' = Live /\ (\A j : Seen(j)' <=> Seen(j)) /\ (\A d : Holds(d)' <=> Holds(d))
  BY <1>1 DEF identityVars, Live, Seen, Holds
<1>3. snapshot \in [Processes -> Snapshots \cup {None}]
  BY DEF IInv, Types
<1>4. /\ snapshot' \in [Processes -> Snapshots \cup {None}]
      /\ \A q \in Processes : snapshot'[q] # None => q # p /\ snapshot[q] # None /\ snapshot'[q] = snapshot[q]
  BY <1>1, <1>3
<1>5. /\ program' \in [Processes -> Seq(Parts)]
      /\ \A q \in Processes : q # p => Next1(q)' = Next1(q)
  BY <1>1, AdvancePending DEF IInv
<1>6. Types'
  <2>1. physical' \in [Uids -> Physicals \cup {None}] /\ aliases' \in [Ids -> Uids \cup {None}]
    BY SyncWrites
  <2> QED
    BY <2>1, <1>2, <1>4, <1>5 DEF IInv, Types
<1>7. OrderInv' /\ DeviceInv' /\ MemberInv'
  BY <1>2 DEF IInv, OrderInv, DeviceInv, MemberInv
<1>8. /\ \A r \in rows : r.id \in Ids /\ aliases'[r.id] = UidFor(p, r)
           /\ physical'[UidFor(p, r)] = [device |-> r.device, current |-> r.id]
      /\ \A i \in Ids : (\A r \in rows : r.id # i) => aliases'[i] = aliases[i]
  BY <1>1, UidForShape, SyncWrites DEF Rows
<1>9. /\ \A i \in Ids : aliases[i] # None => aliases'[i] = aliases[i]
      /\ \A u \in Uids : physical[u] # None =>
           physical'[u] # None /\ physical'[u].device = physical[u].device
  BY SyncKeeps
<1>10. \A i \in Ids : aliases[i] # None => aliases[i] \in Uids /\ physical[aliases[i]] # None
  BY DEF IInv, AliasInv, Types
<1>11. \A i \in Ids : aliases'[i] # None => aliases[i] # None \/ \E r \in rows : r.id = i
  BY <1>8
<1> HIDE DEF rows
<1>12. SeenInv'
  <2>1. \A r \in rows : Seen(r.id)
    BY <1>1 DEF IInv, SeenInv, rows
  <2>2. \A i \in Ids : aliases'[i] # None => Seen(i)
    BY <2>1, <1>11 DEF IInv, SeenInv
  <2> QED
    BY <2>2, <1>2, <1>4 DEF IInv, SeenInv
<1>13. ASSUME NEW q \in Processes, snapshot[q] # None, NEW r \in snapshot[q].rows, aliases'[r.id] # None
       PROVE  physical'[aliases'[r.id]].device = r.device
  <2>1. r.id \in Ids
    BY <1>3, <1>13 DEF Snapshots, Rows
  <2>2. CASE aliases[r.id] # None
    <3>1. physical[aliases[r.id]].device = r.device
      BY <1>13, <2>2 DEF IInv, RowsInv
    <3> QED
      BY <2>1, <2>2, <3>1, <1>9, <1>10
  <2>3. CASE aliases[r.id] = None
    <3>1. PICK t \in rows : t.id = r.id
      BY <2>1, <2>3, <1>11, <1>13
    <3>2. t.device = r.device
      BY <3>1, <1>1, <1>13 DEF IInv, AgreeInv, rows
    <3>3. physical'[aliases'[r.id]] = [device |-> t.device, current |-> t.id]
      BY <3>1, <1>8
    <3> QED
      BY <3>2, <3>3
  <2> QED
    BY <2>2, <2>3
<1>14. RowsInv'
  <2>1. ASSUME NEW q \in Processes, snapshot'[q] # None
        PROVE  /\ snapshot[q] # None /\ snapshot'[q] = snapshot[q]
               /\ \A r \in snapshot[q].rows : aliases'[r.id] # None => physical'[aliases'[r.id]].device = r.device
    BY <2>1, <1>4, <1>13
  <2> QED
    BY <2>1, <1>2 DEF IInv, RowsInv
<1>15. AgreeInv'
  BY <1>4 DEF IInv, AgreeInv
<1>16. FirstInv'
  <2> SUFFICES ASSUME NEW q \in Processes, snapshot'[q] # None, NEW r \in snapshot'[q].rows,
                      r.id = snapshot'[q].first
               PROVE  IF snapshot'[q].uid = None THEN physical'[<<q, r.id>>] = None
                      ELSE physical'[snapshot'[q].uid] # None /\ physical'[snapshot'[q].uid].device = r.device
    BY DEF FirstInv
  <2>1. q # p /\ snapshot[q] # None /\ snapshot'[q] = snapshot[q]
    BY <1>4
  <2>2. r.id \in Ids /\ <<q, r.id>> \in Uids /\ snapshot[q].uid \in Uids \cup {None}
    BY <2>1, <1>3 DEF Snapshots, Rows, Uids
  <2>3. IF snapshot[q].uid = None THEN physical[<<q, r.id>>] = None
        ELSE physical[snapshot[q].uid] # None /\ physical[snapshot[q].uid].device = r.device
    BY <2>1 DEF IInv, FirstInv
  <2>4. CASE snapshot[q].uid # None
    BY <2>1, <2>2, <2>3, <2>4, <1>9
  <2>5. CASE snapshot[q].uid = None
    <3>1. physical[<<q, r.id>>] = None
      BY <2>3, <2>5
    <3>2. ASSUME NEW t \in snapshot[p].rows PROVE UidFor(p, t) # <<q, r.id>>
      <4>1. SUFFICES ASSUME UidFor(p, t) = <<q, r.id>> PROVE FALSE
        OBVIOUS
      <4>2. UidFor(p, t) = <<p, t.id>>
        BY <4>1, <3>1, <1>1, UidForShape
      <4>3. <<q, r.id>> = <<p, t.id>>
        BY <4>1, <4>2
      <4>4. q = p
        BY <4>3
      <4> QED
        BY <4>4, <2>1
    <3>3. physical'[<<q, r.id>>] = physical[<<q, r.id>>]
      BY <3>2, <2>2, SyncWrites
    <3> QED
      BY <3>1, <3>3, <2>1, <2>5
  <2> QED
    BY <2>4, <2>5
<1>17. CallInv'
  BY <1>1, <1>2, <1>4, <1>5, SyncAdvance DEF IInv
<1>18. ToldInv'
  <2>1. \A k \in Keys : told[k] # None => told[k] \in Answers
    BY DEF IInv, Types
  <2>2. \A k \in Keys : told[k] # None => told[k].uid \in Uids /\ told[k].uid # None
          /\ (told[k].serial # NoSerial => <<"serial", told[k].serial>> \in Ids)
    BY <2>1, NoneApart, IdShape DEF Answers
  <2> QED
    BY <2>2, <1>2, <1>9 DEF IInv, ToldInv
<1>19. AliasInv'
  BY SyncAliases
<1> QED
  BY <1>6, <1>7, <1>12, <1>14, <1>15, <1>16, <1>17, <1>18, <1>19 DEF IInv

----------------------------------------------------------------------------
(* Registration *)

\* How a registration may place an identity: where it is, ...
Kept(id, d, gone) == gone = None /\ canonical[id] = d

\* ... at a device nobody has, with evidence nobody gave before, ...
Made(o, id, d, gone) ==
  /\ gone = None /\ ~Seen(id) /\ \A i \in Live : canonical[i] # d
  /\ \/ d = o.key /\ (id = <<"fallback", o.key>> \/ \E s \in Serials : id = <<"serial", s>>)
     \/ \E s \in Serials, k \in Keys : id = <<"serial", s>> /\ d = <<"device", s, k>>

\* ... or at the device of the identity it replaces.
Replaced(id, d, gone) ==
  /\ ~Seen(id) /\ \E s \in Serials : id = <<"serial", s>>
  /\ gone \in Live /\ canonical[gone] = d /\ \E k \in Keys : gone = <<"fallback", k>>

\* An identity seen again comes last in the order.
LEMMA SeenLastOrders ==
  ASSUME OrderInv, NEW id \in Ids, NEW gone, gone # id
  PROVE  LET L == (Live \ {gone}) \cup {id} IN
         /\ SeenLast(gone, id) \subseteq L \X L
         /\ \A i, j \in L : i # j => (<<i, j>> \in SeenLast(gone, id) <=> <<j, i>> \notin SeenLast(gone, id))
<1> DEFINE L == (Live \ {gone}) \cup {id}
<1> DEFINE others == Live \ {gone, id}
<1>1. SeenLast(gone, id) = (older \cap (others \X others)) \cup {<<i, id>> : i \in others}
  BY DEF SeenLast
<1>2. L = others \cup {id} /\ id \notin others
  OBVIOUS
<1>3. \A i, j \in others : <<i, j>> \in SeenLast(gone, id) <=> <<i, j>> \in older
  BY <1>1, <1>2
<1>4. \A i \in others : <<i, id>> \in SeenLast(gone, id) /\ <<id, i>> \notin SeenLast(gone, id)
  BY <1>1, <1>2
<1>5. \A i, j \in others : i # j => (<<i, j>> \in older <=> <<j, i>> \notin older)
  BY DEF OrderInv
<1> HIDE DEF others, L
<1>6. SeenLast(gone, id) \subseteq L \X L
  BY <1>1, <1>2
<1>7. \A i, j \in L : i # j => (<<i, j>> \in SeenLast(gone, id) <=> <<j, i>> \notin SeenLast(gone, id))
  BY <1>2, <1>3, <1>4, <1>5
<1> QED
  BY <1>6, <1>7 DEF L

\* Every branch of register_observation ends in one of these ways.
LEMMA CommitInv ==
  ASSUME IInv, NEW o \in Observation, NEW id \in Ids, NEW d \in Devices, NEW gone \in Ids \cup {None},
         Commit(o, id, d, gone), rowOf' \in [Keys -> Devices \cup {None}],
         \A k \in Keys : k # o.key => rowOf'[k] = rowOf[k],
         Kept(id, d, gone) \/ Made(o, id, d, gone) \/ Replaced(id, d, gone),
         o.serial # NoSerial => id = <<"serial", o.serial>>
  PROVE  IInv'
<1>1. /\ Next1(Watcher) = "register" /\ Advance(Watcher) /\ observed = o
      /\ canonical' = [i \in Ids |-> IF i = id THEN d ELSE IF i = gone THEN None ELSE canonical[i]]
      /\ older' = SeenLast(gone, id)
      /\ members' = [e \in Devices |->
           IF e = d \/ (members[e] # None /\ members[e] = gone) THEN id ELSE members[e]]
      /\ lastOwner' = [k \in Keys |->
           IF k = o.key \/ (lastOwner[k] # None /\ lastOwner[k] = gone) THEN id ELSE lastOwner[k]]
      /\ matched' = [id |-> id, device |-> d]
      /\ physical' = physical /\ aliases' = aliases
      /\ observed' = observed /\ snapshot' = snapshot /\ told' = told
  BY DEF Commit, scopeVars
<1>2. o.key \in Keys /\ d # None /\ id # None /\ \A i \in Ids : i # None
  BY NoneApart DEF Observation
<1>3. /\ canonical \in [Ids -> Devices \cup {None}] /\ members \in [Devices -> Ids \cup {None}]
      /\ lastOwner \in [Keys -> Live \cup {None}] /\ older \subseteq Live \X Live
  BY DEF IInv, Types
<1>4. /\ \A i \in Ids : (gone # None /\ i = gone) => \E k \in Keys : i = <<"fallback", k>>
      /\ gone # None => gone \in Live /\ canonical[gone] = d /\ Replaced(id, d, gone)
      /\ gone # id
  <2>1. gone # None => Replaced(id, d, gone)
    BY DEF Kept, Made
  <2> QED
    BY <2>1, <1>2, IdShape DEF Replaced
<1>5. /\ canonical'[id] = d
      /\ \A i \in Ids : i # id /\ i # gone => canonical'[i] = canonical[i]
      /\ gone # None => canonical'[gone] = None
      /\ canonical' \in [Ids -> Devices \cup {None}]
  BY <1>1, <1>3, <1>4
<1>6. Live' = (Live \ {gone}) \cup {id}
  BY <1>2, <1>4, <1>5 DEF Live
<1>7. \A i \in Ids : canonical[i] # None => i \in Live
  BY DEF Live
<1>8. canonical[id] = d \/ (~Seen(id) /\ canonical[id] = None /\ aliases[id] = None
        /\ \A p \in Processes : snapshot[p] # None => \A r \in snapshot[p].rows : r.id # id)
  <2>1. canonical[id] = d \/ ~Seen(id)
    BY DEF Kept, Made, Replaced
  <2> QED
    BY <2>1 DEF IInv, SeenInv
<1>9. \A k \in Keys : lastOwner'[k] = None => lastOwner[k] = None /\ k # o.key
  BY <1>1, <1>2, <1>3
<1>10. \A i \in Ids : Seen(i) => Seen(i)'
  <2> SUFFICES ASSUME NEW i \in Ids, Seen(i) PROVE Seen(i)'
    OBVIOUS
  <2>1. CASE \E s \in Serials : i = <<"serial", s>> /\ canonical[i] # None
    <3>1. gone = None \/ i # gone
      BY <2>1, <1>4, IdShape
    <3>2. canonical'[i] # None
      BY <2>1, <3>1, <1>2, <1>5
    <3> QED
      BY <2>1, <3>2 DEF Seen
  <2>2. CASE \E k \in Keys : i = <<"fallback", k>> /\ lastOwner[k] # None
    BY <2>2, <1>9 DEF Seen
  <2> QED
    BY <2>1, <2>2 DEF Seen
<1>11. Seen(id)'
  <2>1. CASE \E s \in Serials : id = <<"serial", s>>
    BY <2>1, <1>2, <1>5 DEF Seen
  <2>2. CASE id = <<"fallback", o.key>>
    <3>1. lastOwner'[o.key] = id
      BY <1>1, <1>2
    <3> QED
      BY <2>2, <3>1, <1>2 DEF Seen
  <2>3. CASE Kept(id, d, gone)
    <3>1. Seen(id)
      BY <2>3, <1>2 DEF Kept, IInv, SeenInv
    <3> QED
      BY <3>1, <1>10
  <2> QED
    BY <2>1, <2>2, <2>3 DEF Made, Replaced
<1>12. SeenInv'
  <2>1. \A i \in Ids : canonical'[i] # None => Seen(i)'
    BY <1>5, <1>10, <1>11, <1>2 DEF IInv, SeenInv
  <2>2. \A p \in Processes : snapshot[p] # None => \A r \in snapshot[p].rows : r.id \in Ids
    BY DEF IInv, Types, Snapshots, Rows
  <2> QED
    BY <2>1, <2>2, <1>1, <1>10 DEF IInv, SeenInv
<1>13. \A i \in Live : canonical[i] = d => i = id \/ i = gone
  BY <1>2, <1>7 DEF Kept, Made, Replaced, IInv, DeviceInv
<1>14. DeviceInv'
  <2>1. \A i, j \in Live' : canonical'[i] = canonical'[j] => i = j
    <3>1. \A i \in Live' : i # id => i \in Live /\ i # gone /\ i \in Ids /\ canonical'[i] = canonical[i]
      BY <1>5, <1>6 DEF Live
    <3>2. \A i \in Live' : i # id => canonical'[i] # d
      BY <3>1, <1>13
    <3> QED
      BY <3>1, <3>2, <1>5 DEF IInv, DeviceInv
  <2>2. \A k \in Keys : lastOwner'[k] = None => rowOf'[k] = None
    BY <1>9 DEF IInv, DeviceInv
  <2>3. \A i \in Live' : i # id => i \in Live /\ canonical'[i] = canonical[i]
    BY <1>5, <1>6 DEF Live
  <2>4. \A k \in Keys : lastOwner'[k] = None => \A i \in Live' : canonical'[i] # k
    <3>1. ASSUME NEW k \in Keys, lastOwner'[k] = None PROVE d # k
      <4>1. lastOwner[k] = None /\ k # o.key /\ \A i \in Live : canonical[i] # k
        BY <3>1, <1>9 DEF IInv, DeviceInv
      <4>2. \A t \in Serials, l \in Keys : <<"device", t, l>> # k
        BY RegistryAssumption
      <4> QED
        BY <4>1, <4>2, <1>2, <1>7 DEF Kept, Made, Replaced
    <3> QED
      BY <3>1, <2>3, <1>5, <1>9 DEF IInv, DeviceInv
  <2>5. d \in Keys \/ \E s \in Serials, k \in Keys : id = <<"serial", s>> /\ d = <<"device", s, k>>
    <3>1. CASE Kept(id, d, gone)
      <4>1. id \in Live /\ canonical[id] = d
        BY <3>1, <1>2, <1>7 DEF Kept
      <4> QED
        BY <4>1 DEF IInv, DeviceInv
    <3>2. CASE Made(o, id, d, gone)
      BY <3>2, <1>2 DEF Made
    <3>3. CASE Replaced(id, d, gone)
      <4>1. gone \in Live /\ canonical[gone] = d /\ \A s \in Serials : gone # <<"serial", s>>
        BY <3>3, IdShape DEF Replaced
      <4> QED
        BY <4>1 DEF IInv, DeviceInv
    <3> QED
      BY <3>1, <3>2, <3>3
  <2> QED
    BY <2>1, <2>2, <2>3, <2>4, <2>5, <1>5 DEF IInv, DeviceInv
<1>15. MemberInv'
  <2>1. members'[d] = id /\ members' \in [Devices -> Ids \cup {None}]
    BY <1>1, <1>3
  <2>2. ASSUME NEW i \in Live', i # id PROVE members'[canonical'[i]] = i
    <3>1. i \in Live /\ i # gone /\ canonical'[i] = canonical[i] /\ canonical[i] # d /\ i \in Ids
      BY <2>2, <1>5, <1>6, <1>13 DEF Live
    <3>2. canonical[i] \in Devices /\ members[canonical[i]] = i
      BY <3>1, <1>3 DEF IInv, MemberInv, Live
    <3> QED
      BY <3>1, <3>2, <1>1
  <2>3. ASSUME NEW e \in Devices, members'[e] # None PROVE members'[e] \in Live'
    <3>1. CASE e = d \/ (members[e] # None /\ members[e] = gone)
      BY <3>1, <1>1, <1>6
    <3>2. CASE ~(e = d \/ (members[e] # None /\ members[e] = gone))
      BY <3>2, <2>3, <1>1, <1>6 DEF IInv, MemberInv
    <3> QED
      BY <3>1, <3>2
  <2> QED
    BY <2>1, <2>2, <2>3, <1>5 DEF MemberInv
<1>16. \A e : Holds(e) => \E j \in Live' : canonical'[j] = e
  <2> SUFFICES ASSUME NEW e, NEW j \in Live, canonical[j] = e PROVE \E i \in Live' : canonical'[i] = e
    BY DEF Holds
  <2>1. CASE j = id \/ j = gone
    <3>1. e = d
      BY <2>1, <1>4, <1>8, <1>2 DEF Live
    <3> QED
      BY <3>1, <1>5, <1>6
  <2>2. CASE j # id /\ j # gone
    BY <2>2, <1>5, <1>6 DEF Live
  <2> QED
    BY <2>1, <2>2
<1>17. AliasInv'
  <2>1. \A i \in Ids : aliases[i] # None /\ canonical'[i] # None => physical[aliases[i]].device = canonical'[i]
    BY <1>5, <1>8, <1>2 DEF IInv, AliasInv
  <2>2. \A u \in Uids : physical[u] # None => \E j \in Live' : canonical'[j] = physical[u].device
    BY <1>16 DEF IInv, AliasInv
  <2>3. (\A u \in Uids : physical[u] # None => Holds(physical[u].device))'
    BY <2>2, <1>1 DEF Holds
  <2> QED
    BY <2>1, <2>3, <1>1 DEF IInv, AliasInv
<1>18. RowsInv'
  <2> SUFFICES ASSUME NEW p \in Processes, snapshot[p] # None
               PROVE  /\ \A r, t \in snapshot[p].rows : r.device = t.device => r.id = t.id
                      /\ \A r \in snapshot[p].rows : canonical'[r.id] # None => canonical'[r.id] = r.device
                      /\ \A r \in snapshot[p].rows : aliases[r.id] # None => physical[aliases[r.id]].device = r.device
                      /\ (\A r \in snapshot[p].rows : Holds(r.device))'
    BY <1>1 DEF RowsInv
  <2>1. ASSUME NEW r \in snapshot[p].rows, canonical'[r.id] # None PROVE canonical'[r.id] = r.device
    <3>1. r.id \in Ids /\ (canonical[r.id] # None => canonical[r.id] = r.device)
      BY DEF IInv, RowsInv, Types, Snapshots, Rows
    <3> QED
      BY <2>1, <3>1, <1>2, <1>5, <1>8
  <2>2. \A r \in snapshot[p].rows : \E j \in Live' : canonical'[j] = r.device
    BY <1>16 DEF IInv, RowsInv
  <2>3. (\A r \in snapshot[p].rows : Holds(r.device))'
    BY <2>2, <1>1 DEF Holds
  <2> QED
    BY <2>1, <2>3 DEF IInv, RowsInv
<1>19. AgreeInv' /\ FirstInv'
  BY <1>1 DEF IInv, AgreeInv, FirstInv
<1>20. older' \subseteq Live' \X Live' /\ OrderInv'
  <2> DEFINE L == (Live \ {gone}) \cup {id}
  <2>1. /\ SeenLast(gone, id) \subseteq L \X L
        /\ \A i, j \in L : i # j => (<<i, j>> \in SeenLast(gone, id) <=> <<j, i>> \notin SeenLast(gone, id))
    BY <1>4, SeenLastOrders DEF IInv
  <2>2. L = Live' /\ older' = SeenLast(gone, id)
    BY <1>1, <1>6
  <2> HIDE DEF L
  <2>3. older' \subseteq Live' \X Live'
    BY <2>1, <2>2
  <2>4. \A i, j \in Live' : i # j => (<<i, j>> \in older' <=> <<j, i>> \notin older')
    BY <2>1, <2>2
  <2> QED
    BY <2>3, <2>4 DEF OrderInv
<1>21. Types'
  <2>1. members' \in [Devices -> Ids \cup {None}]
    BY <1>1, <1>3
  <2>2. lastOwner' \in [Keys -> Live' \cup {None}]
    BY <1>1, <1>3, <1>6
  <2>3. matched' \in Rows
    BY <1>1 DEF Rows
  <2>4. program' \in [Processes -> Seq(Parts)]
    BY <1>1, AdvancePending DEF IInv, Processes
  <2> QED
    BY <2>1, <2>2, <2>3, <2>4, <1>1, <1>5, <1>20 DEF IInv, Types
<1>22. CallInv'
  <2>1. /\ \A p \in Processes : p # Watcher => Next1(p)' = Next1(p)
        /\ \A w : Pending(w)' => Pending(w)
        /\ \A w : Pending(w) => w = "register" \/ Pending(w)'
    BY <1>1, AdvancePending DEF IInv, Processes
  <2>2. Pending("answer")'
    <3>1. program[Watcher] \in Seq(Parts) /\ program[Watcher] # <<>> /\ program[Watcher][1] = "register"
      BY <1>1, NextShape DEF IInv, Processes
    <3>2. Pending("register")
      BY <3>1, TailShape DEF Pending
    <3> QED
      BY <3>2, <2>1 DEF IInv, CallInv
  <2>3. matched' # None /\ observed' # None
    <3>1. matched' \in Rows /\ o # None
      BY <1>1, NoneApart DEF Rows
    <3> QED
      BY <3>1, <1>1, NoneApart
  <2>4. AnswerLast'
    BY <1>1, OrderKept DEF Processes
  <2>5. \A p \in Processes : snapshot'[p] # None => Next1(p)' = "sync"
    BY <2>1, <1>1 DEF IInv, CallInv
  <2>6. Pending("success")' => told'[observed'.key] # None
    BY <2>1, <1>1 DEF IInv, CallInv
  <2> QED
    BY <2>2, <2>3, <2>4, <2>5, <2>6 DEF CallInv
<1>23. ToldInv'
  <2>1. matched'.id = id /\ matched'.device = d
    BY <1>1
  <2>2. ASSUME NEW k \in Keys, told[k] # None, told[k].serial # NoSerial
        PROVE  canonical'[<<"serial", told[k].serial>>] = told[k].device
    <3>1. told[k].serial \in Serials /\ told[k].device \in Devices
      BY <2>2 DEF IInv, Types, Answers
    <3> DEFINE i == <<"serial", told[k].serial>>
    <3>2. i \in Ids /\ canonical[i] = told[k].device /\ canonical[i] # None
      BY <2>2, <3>1, IdShape, NoneApart DEF IInv, ToldInv
    <3>3. gone = None \/ i # gone
      BY <3>1, <3>2, <1>4, IdShape
    <3>4. i # gone
      BY <3>2, <3>3, <1>2
    <3> QED
      BY <3>2, <3>4, <1>5, <1>8
  <2> QED
    BY <2>1, <2>2, <1>1, <1>5 DEF IInv, ToldInv
<1> QED
  BY <1>12, <1>14, <1>15, <1>17, <1>18, <1>19, <1>20, <1>21, <1>22, <1>23 DEF IInv

\* A registration takes one of the branches.
LEMMA RegisterInv ==
  ASSUME IInv, NEW o \in Observation, Register(o) PROVE IInv'
<1> DEFINE own == lastOwner[o.key]
<1>1. /\ o.key \in Keys /\ IdOf(o) \in Ids /\ canonical \in [Ids -> Devices \cup {None}]
      /\ rowOf \in [Keys -> Devices \cup {None}] /\ own \in Live \cup {None}
      /\ Keys \subseteq Devices
  BY IdOfShape DEF Observation, IInv, Types, Devices
<1>2. /\ o.serial # NoSerial => o.serial \in Serials /\ IdOf(o) = <<"serial", o.serial>>
      /\ o.serial = NoSerial => IdOf(o) = <<"fallback", o.key>>
  BY IdOfShape
<1>3. ASSUME own # None PROVE own \in Live /\ own \in Ids /\ canonical[own] \in Devices /\ canonical[own] # None
  BY <1>1, <1>3 DEF Live
<1>4. ASSUME o.serial # NoSerial, canonical[IdOf(o)] = None PROVE ~Seen(IdOf(o))
  BY <1>2, <1>4, IdShape DEF Seen
<1> HIDE DEF own
<1>5. CASE Recognise(o)
  <2>1. canonical[IdOf(o)] \in Devices /\ Kept(IdOf(o), canonical[IdOf(o)], None)
    BY <1>1, <1>5 DEF Recognise, Recognised, Kept
  <2> QED
    BY <2>1, <1>1, <1>2, <1>5, CommitInv DEF Recognise
<1>6. CASE Separate(o)
  <2>1. /\ canonical[IdOf(o)] = None /\ o.serial # NoSerial
        /\ Commit(o, IdOf(o), ConflictDevice(o), None)
        /\ rowOf' = [rowOf EXCEPT ![o.key] = IF @ = None THEN ConflictDevice(o) ELSE @]
    BY <1>6 DEF Separate, Recognised, Conflicting
  <2>2. /\ ConflictDevice(o) = <<"device", o.serial, o.key>> /\ ConflictDevice(o) \in Devices
        /\ ConflictDevice(o) \notin Keys
    BY <2>1, <1>1, <1>2, RegistryAssumption DEF ConflictDevice, Devices
  <2>3. ASSUME NEW i \in Live PROVE canonical[i] # ConflictDevice(o)
    <3>1. CASE canonical[i] \in Keys
      BY <3>1, <2>2
    <3>2. CASE \E s \in Serials, k \in Keys : i = <<"serial", s>> /\ canonical[i] = <<"device", s, k>>
      <4>1. PICK s \in Serials, k \in Keys : i = <<"serial", s>> /\ canonical[i] = <<"device", s, k>>
        BY <3>2
      <4>2. ASSUME canonical[i] = ConflictDevice(o) PROVE FALSE
        <5>1. s = o.serial
          BY <4>1, <4>2, <2>2
        <5>2. canonical[i] = None
          BY <4>1, <5>1, <2>1, <1>2
        <5> QED
          BY <5>2 DEF Live
      <4> QED
        BY <4>2
    <3> QED
      BY <3>1, <3>2 DEF IInv, DeviceInv
  <2>4. Made(o, IdOf(o), ConflictDevice(o), None)
    BY <2>1, <2>2, <2>3, <1>1, <1>2, <1>4 DEF Made
  <2>5. rowOf' \in [Keys -> Devices \cup {None}] /\ \A k \in Keys : k # o.key => rowOf'[k] = rowOf[k]
    BY <2>1, <2>2, <1>1
  <2> QED
    BY <2>1, <2>2, <2>4, <2>5, <1>1, <1>2, CommitInv
<1>7. CASE Promote(o)
  <2>1. /\ canonical[IdOf(o)] = None /\ o.serial # NoSerial /\ own # None /\ SerialOf(own) = NoSerial
        /\ Commit(o, IdOf(o), canonical[own], own) /\ rowOf' = rowOf
    BY <1>7 DEF Promote, Recognised, Promoted, own
  <2>2. \E k \in Keys : own = <<"fallback", k>>
    <3>1. \A s \in Serials : own # <<"serial", s>>
      BY <2>1, IdShape, RegistryAssumption
    <3> QED
      BY <3>1, <2>1, <1>3, IdShape
  <2>3. Replaced(IdOf(o), canonical[own], own)
    BY <2>1, <2>2, <1>2, <1>3, <1>4 DEF Replaced
  <2> QED
    BY <2>1, <2>3, <1>1, <1>2, <1>3, CommitInv
<1>8. CASE FollowOwner(o)
  <2>1. /\ canonical[IdOf(o)] = None /\ own # None
        /\ o.serial # NoSerial => SerialOf(own) = o.serial
        /\ Commit(o, own, canonical[own], None) /\ rowOf' = rowOf
    BY <1>8 DEF FollowOwner, Recognised, Conflicting, Promoted, own
  <2>2. o.serial = NoSerial
    <3>1. SUFFICES ASSUME o.serial # NoSerial PROVE FALSE
      OBVIOUS
    <3>2. own = <<"serial", o.serial>>
      BY <3>1, <2>1, <1>3, IdShape
    <3> QED
      BY <3>1, <3>2, <2>1, <1>2, <1>3
  <2>3. Kept(own, canonical[own], None)
    BY DEF Kept
  <2> QED
    BY <2>1, <2>2, <2>3, <1>1, <1>3, CommitInv
<1>9. CASE AddController(o)
  <2>1. /\ canonical[IdOf(o)] = None /\ lastOwner[o.key] = None
        /\ Commit(o, IdOf(o), IF rowOf[o.key] # None THEN rowOf[o.key] ELSE o.key, None)
        /\ rowOf' = [rowOf EXCEPT ![o.key] = IF @ = None THEN o.key ELSE @]
    BY <1>9 DEF AddController, Recognised
  <2>2. rowOf[o.key] = None /\ \A i \in Live : canonical[i] # o.key
    BY <2>1, <1>1 DEF IInv, DeviceInv
  <2>3. ~Seen(IdOf(o))
    <3>1. CASE o.serial # NoSerial
      BY <3>1, <2>1, <1>4
    <3>2. CASE o.serial = NoSerial
      BY <3>2, <2>1, <1>2, IdShape DEF Seen
    <3> QED
      BY <3>1, <3>2
  <2>4. Made(o, IdOf(o), o.key, None)
    BY <2>2, <2>3, <1>1, <1>2 DEF Made
  <2>5. Commit(o, IdOf(o), o.key, None)
    BY <2>1, <2>2
  <2>6. rowOf' \in [Keys -> Devices \cup {None}] /\ \A k \in Keys : k # o.key => rowOf'[k] = rowOf[k]
    BY <2>1, <1>1
  <2> QED
    BY <2>4, <2>5, <2>6, <1>1, <1>2, CommitInv
<1> QED
  BY <1>5, <1>6, <1>7, <1>8, <1>9 DEF Register

\* A successful poll is recorded: the identity last seen at the endpoint is live.
LEMMA RecordSuccessInv ==
  ASSUME IInv, RecordSuccess PROVE IInv'
<1> DEFINE id == physical[told[observed.key].uid].current
<1>1. /\ Next1(Watcher) = "success" /\ Advance(Watcher) /\ canonical' = canonical /\ members' = members
      /\ rowOf' = rowOf /\ physical' = physical /\ aliases' = aliases
      /\ observed' = observed /\ matched' = matched /\ snapshot' = snapshot /\ told' = told
      /\ \/ /\ canonical[id] # None /\ lastOwner' = [lastOwner EXCEPT ![observed.key] = id]
            /\ older' = SeenLast(None, id)
         \/ lastOwner' = lastOwner /\ older' = older
  BY DEF RecordSuccess, scopeVars
<1>2. Pending("success")
  <2>1. program[Watcher] \in Seq(Parts) /\ program[Watcher] # <<>> /\ program[Watcher][1] = "success"
    BY <1>1, NextShape DEF IInv, Processes
  <2> QED
    BY <2>1, TailShape DEF Pending
<1>3. observed \in Observation /\ observed.key \in Keys /\ told[observed.key] # None
  BY <1>2 DEF IInv, CallInv, Types, Observation
<1>4. id \in Ids
  <2>1. told[observed.key] \in Answers /\ physical[told[observed.key].uid] # None
    BY <1>3 DEF IInv, Types, ToldInv
  <2>2. physical[told[observed.key].uid] \in Physicals
    BY <2>1 DEF IInv, Types, Answers
  <2> QED
    BY <2>2 DEF Physicals
<1> HIDE DEF id
<1>5. lastOwner \in [Keys -> Live \cup {None}] /\ older \subseteq Live \X Live /\ OrderInv
  BY DEF IInv, Types
<1>6. Live' = Live /\ (\A d : Holds(d)' <=> Holds(d)) /\ \A i \in Live : i # None
  BY <1>1, NoneApart DEF Live, Holds
<1>7. /\ lastOwner' \in [Keys -> Live' \cup {None}]
      /\ \A k \in Keys : lastOwner'[k] = None => lastOwner[k] = None
      /\ older' \subseteq Live' \X Live' /\ OrderInv'
  <2>1. CASE lastOwner' = lastOwner /\ older' = older
    BY <2>1, <1>5, <1>6 DEF OrderInv
  <2>2. CASE canonical[id] # None /\ lastOwner' = [lastOwner EXCEPT ![observed.key] = id]
             /\ older' = SeenLast(None, id)
    <3>1. id \in Live /\ id # None
      BY <2>2, <1>4, NoneApart DEF Live
    <3> DEFINE L == (Live \ {None}) \cup {id}
    <3>2. L = Live'
      BY <3>1, <1>6
    <3>3. /\ SeenLast(None, id) \subseteq L \X L
          /\ \A i, j \in L : i # j => (<<i, j>> \in SeenLast(None, id) <=> <<j, i>> \notin SeenLast(None, id))
      BY <3>1, <1>4, <1>5, SeenLastOrders
    <3> HIDE DEF L
    <3>4. older' \subseteq Live' \X Live'
      BY <2>2, <3>2, <3>3
    <3>5. \A i, j \in Live' : i # j => (<<i, j>> \in older' <=> <<j, i>> \notin older')
      BY <2>2, <3>2, <3>3
    <3>6. /\ lastOwner' \in [Keys -> Live' \cup {None}]
          /\ \A k \in Keys : lastOwner'[k] = None => lastOwner[k] = None
      BY <2>2, <3>1, <1>3, <1>5, <1>6
    <3> QED
      BY <3>4, <3>5, <3>6 DEF OrderInv
  <2> QED
    BY <2>1, <2>2, <1>1
<1>8. \A i : Seen(i) => Seen(i)'
  BY <1>1, <1>7 DEF Seen
<1>9. SeenInv'
  BY <1>1, <1>8 DEF IInv, SeenInv
<1>10. DeviceInv' /\ MemberInv'
  BY <1>1, <1>6, <1>7 DEF IInv, DeviceInv, MemberInv
<1>11. AliasInv' /\ RowsInv'
  BY <1>1, <1>6 DEF IInv, AliasInv, RowsInv
<1>12. AgreeInv' /\ FirstInv' /\ ToldInv'
  BY <1>1 DEF IInv, AgreeInv, FirstInv, ToldInv
<1>13. Types'
  <2>1. program' \in [Processes -> Seq(Parts)]
    BY <1>1, AdvancePending DEF IInv, Processes
  <2> QED
    BY <2>1, <1>1, <1>6, <1>7 DEF IInv, Types
<1>14. CallInv'
  <2>1. /\ \A p \in Processes : p # Watcher => Next1(p)' = Next1(p)
        /\ \A w : Pending(w)' => Pending(w)
        /\ \A w : Pending(w) => w = "success" \/ Pending(w)'
    BY <1>1, AdvancePending DEF IInv, Processes
  <2>2. AnswerLast'
    BY <1>1, OrderKept DEF Processes
  <2>3. \A p \in Processes : snapshot'[p] # None => Next1(p)' = "sync"
    BY <2>1, <1>1 DEF IInv, CallInv
  <2>4. /\ Pending("register")' <=> Pending("register")
        /\ Pending("answer")' <=> Pending("answer")
        /\ Pending("raised")' <=> Pending("raised")
        /\ Pending("success")' => Pending("success")
    BY <2>1
  <2> QED
    BY <2>2, <2>3, <2>4, <1>1 DEF IInv, CallInv
<1> QED
  BY <1>7, <1>9, <1>10, <1>11, <1>12, <1>13, <1>14 DEF IInv

\* The watcher is told the UID its identity has.
LEMMA AnswerInv ==
  ASSUME IInv, Answer PROVE IInv'
<1> DEFINE new == [serial |-> observed.serial, uid |-> aliases[matched.id], device |-> matched.device]
<1>1. /\ Next1(Watcher) = "answer" /\ aliases[matched.id] # None
      /\ told' = [told EXCEPT ![observed.key] = new]
      /\ program' = [program EXCEPT ![Watcher] = <<>>]
      /\ observed' = None /\ matched' = None /\ snapshot' = snapshot
      /\ UNCHANGED <<identityVars, scopeVars>>
  BY DEF Answer
<1>2. matched \in Rows /\ observed \in Observation /\ observed # None /\ matched # None
  <2>1. program[Watcher] \in Seq(Parts) /\ program[Watcher] # <<>> /\ program[Watcher][1] = "answer"
    BY <1>1, NextShape DEF IInv, Processes
  <2>2. Pending("answer") /\ Len(program[Watcher]) = 1
    <3>1. 1 \in 1 .. Len(program[Watcher])
      BY <2>1, TailShape
    <3> QED
      BY <2>1, <3>1 DEF Pending, IInv, CallInv, AnswerLast
  <2>3. ~Pending("register")
    BY <2>1, <2>2 DEF Pending
  <2> QED
    BY <2>2, <2>3 DEF IInv, CallInv, Types
<1>3. /\ matched.id \in Ids /\ matched.device \in Devices /\ observed.key \in Keys
      /\ observed.serial \in Serials \cup {NoSerial}
      /\ aliases[matched.id] \in Uids /\ physical[aliases[matched.id]] # None
  BY <1>1, <1>2 DEF Rows, Observation, IInv, Types, AliasInv
<1>4. new \in Answers /\ new # None
  BY <1>3, NoneApart DEF Answers
<1>5. /\ told' \in [Keys -> Answers \cup {None}] /\ told'[observed.key] = new
      /\ \A k \in Keys : k # observed.key => told'[k] = told[k]
  BY <1>1, <1>3, <1>4 DEF IInv, Types
<1>6. new.serial = observed.serial /\ new.uid = aliases[matched.id] /\ new.device = matched.device
  OBVIOUS
<1> HIDE DEF new
<1>7. /\ program' \in [Processes -> Seq(Parts)] /\ program'[Watcher] = <<>>
      /\ \A p \in Processes : p # Watcher => program'[p] = program[p]
  BY <1>1, RaisedShape DEF IInv, Types, Processes
<1>8. OrderInv' /\ SeenInv' /\ DeviceInv' /\ MemberInv' /\ AliasInv' /\ RowsInv' /\ AgreeInv' /\ FirstInv'
  BY <1>1, TablesKept
<1>9. Types'
  <2>1. Live' = Live
    BY <1>1 DEF identityVars, Live
  <2> QED
    BY <2>1, <1>1, <1>5, <1>7 DEF IInv, Types, identityVars, scopeVars
<1>10. CallInv'
  <2>1. (\A w : ~Pending(w)') /\ AnswerLast'
    BY <1>7 DEF Pending, AnswerLast
  <2>2. ASSUME NEW p \in Processes, snapshot'[p] # None PROVE Next1(p)' = "sync"
    <3>1. Next1(p) = "sync"
      BY <1>1, <2>2 DEF IInv, CallInv
    <3> QED
      BY <3>1, <1>1, <1>7 DEF Next1
  <2> QED
    BY <2>1, <2>2, <1>1 DEF CallInv
<1>11. ToldInv'
  <2> SUFFICES ASSUME NEW k \in Keys, told'[k] # None
               PROVE  /\ physical[told'[k].uid] # None
                      /\ told'[k].serial # NoSerial =>
                           /\ aliases[<<"serial", told'[k].serial>>] = told'[k].uid
                           /\ canonical[<<"serial", told'[k].serial>>] = told'[k].device
    BY <1>1 DEF ToldInv, identityVars, scopeVars
  <2>1. CASE k = observed.key
    BY <2>1, <1>2, <1>3, <1>5, <1>6 DEF IInv, ToldInv
  <2>2. CASE k # observed.key
    BY <2>2, <1>5 DEF IInv, ToldInv
  <2> QED
    BY <2>1, <2>2
<1> QED
  BY <1>8, <1>9, <1>10, <1>11 DEF IInv

----------------------------------------------------------------------------
(* The upgraded database *)

\* A group of device rows has a newest one.
LEMMA NewestInGroup ==
  ASSUME NEW K, K \subseteq Keys, K # {}, NEW age \in Ages
  PROVE  Newest(K, age) \in K
<1> DEFINE N == Cardinality(Keys)
           rank(k) == N - age[k]
           ranks == {rank(k) : k \in K}
<1>1. N \in Nat
  BY RegistryAssumption, FS_CardinalityType
<1>2. \A k \in Keys : age[k] \in 1 .. N
  BY DEF Ages
<1>3. ranks \subseteq Nat /\ ranks # {}
  BY <1>1, <1>2
<1>4. PICK m \in ranks : \A n \in ranks : ~(<<n, m>> \in OpToRel(<, Nat))
  <2> HIDE DEF ranks
  <2> QED
    BY <1>3, WFMin, NatLessThanWellFounded
<1>5. \A n \in ranks : m <= n
  <2>1. \A n \in ranks : ~(n < m)
    BY <1>3, <1>4 DEF OpToRel
  <2> HIDE DEF ranks
  <2>2. \A n \in ranks : n \in Nat /\ m \in Nat
    BY <1>3
  <2> QED
    BY <2>1, <2>2
<1>6. PICK k \in K : m = N - age[k]
  OBVIOUS
<1>7. \A l \in K : age[l] <= age[k]
  <2>1. \A l \in K : N - age[k] <= N - age[l]
    BY <1>5, <1>6
  <2>2. \A l \in K : age[l] \in Int /\ age[k] \in Int
    BY <1>2
  <2> HIDE DEF N
  <2> QED
    BY <2>1, <2>2, <1>1
<1> QED
  BY <1>7 DEF Newest

\* The rows an older version left become identities of the same shape.
LEMMA InitInv == Init => IInv
<1> SUFFICES ASSUME Init PROVE IInv
  OBVIOUS
<1>1. PICK legacy \in LegacyRows, age \in Ages : Bootstrap(legacy, age)
  BY DEF Init
<1>2. /\ physical = [u \in Uids |-> None] /\ aliases = [i \in Ids |-> None]
      /\ program = [p \in Processes |-> <<>>] /\ observed = None /\ matched = None
      /\ snapshot = [p \in Processes |-> None] /\ told = [k \in Keys |-> None]
  BY DEF Init
<1>3. /\ canonical = [i \in Ids |-> IF Group(legacy, i) = {} THEN None ELSE Newest(Group(legacy, i), age)]
      /\ older = {e \in Live \X Live : age[canonical[e[1]]] < age[canonical[e[2]]]}
      /\ members = [d \in Devices |-> IF d \in Keys /\ legacy[d] # None THEN LegacyId(legacy, d) ELSE None]
      /\ lastOwner = [k \in Keys |-> IF legacy[k] = None THEN None ELSE LegacyId(legacy, k)]
      /\ rowOf = [k \in Keys |-> IF legacy[k] = None THEN None ELSE k]
  BY <1>1 DEF Bootstrap
<1>4. \A k \in Keys : legacy[k] # None =>
        /\ LegacyId(legacy, k) \in Ids
        /\ LegacyId(legacy, k) = <<"fallback", k>> \/ \E s \in Serials : LegacyId(legacy, k) = <<"serial", s>>
  <2> SUFFICES ASSUME NEW k \in Keys, legacy[k] # None
               PROVE  /\ LegacyId(legacy, k) \in Ids
                      /\ LegacyId(legacy, k) = <<"fallback", k>>
                           \/ \E s \in Serials : LegacyId(legacy, k) = <<"serial", s>>
    OBVIOUS
  <2> DEFINE o == [key |-> k, serial |-> legacy[k]]
  <2>1. o \in Observation /\ o.key = k /\ LegacyId(legacy, k) = IdOf(o)
    BY DEF LegacyRows, Observation, LegacyId
  <2> HIDE DEF o
  <2> QED
    BY <2>1, IdOfShape
<1>5. \A i \in Ids : Group(legacy, i) = {k \in Keys : legacy[k] # None /\ LegacyId(legacy, k) = i}
  BY DEF Group
<1>6. ASSUME NEW i \in Ids, Group(legacy, i) # {}
      PROVE  /\ canonical[i] \in Keys /\ canonical[i] # None /\ legacy[canonical[i]] # None
             /\ LegacyId(legacy, canonical[i]) = i
  <2>1. Newest(Group(legacy, i), age) \in Group(legacy, i)
    BY <1>5, <1>6, NewestInGroup
  <2>2. canonical[i] = Newest(Group(legacy, i), age)
    BY <1>3, <1>6
  <2>3. \A k \in Keys : k # None
    BY NoneApart DEF Devices
  <2> QED
    BY <2>1, <2>2, <2>3, <1>5
<1>7. \A i \in Ids : canonical[i] # None =>
        canonical[i] \in Keys /\ legacy[canonical[i]] # None /\ LegacyId(legacy, canonical[i]) = i
  BY <1>3, <1>6
<1>8. \A k \in Keys : legacy[k] # None => LegacyId(legacy, k) \in Live /\ lastOwner[k] = LegacyId(legacy, k)
  <2> SUFFICES ASSUME NEW k \in Keys, legacy[k] # None
               PROVE  LegacyId(legacy, k) \in Live /\ lastOwner[k] = LegacyId(legacy, k)
    OBVIOUS
  <2>1. LegacyId(legacy, k) \in Ids /\ k \in Group(legacy, LegacyId(legacy, k))
    BY <1>4 DEF Group
  <2>2. canonical[LegacyId(legacy, k)] # None
    BY <2>1, <1>6
  <2> QED
    BY <2>1, <2>2, <1>3 DEF Live
<1>9. \A i, j \in Live : canonical[i] = canonical[j] => i = j
  BY <1>7 DEF Live
<1>10. \A i \in Live : age[canonical[i]] \in Int
  <2>1. \A i \in Live : canonical[i] \in Keys
    BY <1>7 DEF Live
  <2> QED
    BY <2>1, FS_CardinalityType, RegistryAssumption DEF Ages
<1>11. OrderInv
  <2> SUFFICES ASSUME NEW i \in Live, NEW j \in Live, i # j
               PROVE  <<i, j>> \in older <=> <<j, i>> \notin older
    BY DEF OrderInv
  <2>1. age[canonical[i]] # age[canonical[j]]
    <3>1. canonical[i] \in Keys /\ canonical[j] \in Keys /\ canonical[i] # canonical[j]
      BY <1>7, <1>9 DEF Live
    <3> QED
      BY <3>1 DEF Ages
  <2>2. /\ <<i, j>> \in older <=> age[canonical[i]] < age[canonical[j]]
        /\ <<j, i>> \in older <=> age[canonical[j]] < age[canonical[i]]
    BY <1>3
  <2> QED
    BY <2>1, <2>2, <1>10
<1>12. Types
  <2>1. canonical \in [Ids -> Devices \cup {None}]
    BY <1>3, <1>7 DEF Devices
  <2>2. members \in [Devices -> Ids \cup {None}] /\ lastOwner \in [Keys -> Live \cup {None}]
    BY <1>3, <1>4, <1>8
  <2>3. rowOf \in [Keys -> Devices \cup {None}] /\ older \subseteq Live \X Live
    BY <1>3 DEF Devices
  <2>4. program \in [Processes -> Seq(Parts)]
    BY <1>2, RaisedShape
  <2> QED
    BY <2>1, <2>2, <2>3, <2>4, <1>2 DEF Types
<1>13. CallInv
  <2>1. program[Watcher] = <<>>
    BY <1>2 DEF Processes
  <2>2. (\A w : ~Pending(w)) /\ AnswerLast
    BY <2>1 DEF Pending, AnswerLast
  <2> QED
    BY <2>2, <1>2 DEF CallInv
<1>14. SeenInv
  <2>1. ASSUME NEW i \in Ids, canonical[i] # None PROVE Seen(i)
    <3>1. canonical[i] \in Keys /\ legacy[canonical[i]] # None /\ LegacyId(legacy, canonical[i]) = i
      BY <2>1, <1>7
    <3>2. lastOwner[canonical[i]] # None
      BY <3>1, <1>8, NoneApart, <1>4
    <3>3. i = <<"fallback", canonical[i]>> \/ \E s \in Serials : i = <<"serial", s>>
      BY <3>1, <1>4
    <3> QED
      BY <2>1, <3>1, <3>2, <3>3 DEF Seen
  <2> QED
    BY <2>1, <1>2 DEF SeenInv
<1>15. \A k \in Keys : lastOwner[k] = None => legacy[k] = None
  BY <1>4, <1>8, NoneApart
<1>16. DeviceInv
  <2>1. \A k \in Keys : lastOwner[k] = None => rowOf[k] = None /\ \A i \in Live : canonical[i] # k
    BY <1>3, <1>7, <1>15 DEF Live
  <2> QED
    BY <2>1, <1>7, <1>9 DEF DeviceInv, Live
<1>17. MemberInv
  <2>1. \A i \in Live : members[canonical[i]] = i
    BY <1>3, <1>7 DEF Live, Devices
  <2>2. \A d \in Devices : members[d] # None => members[d] \in Live
    BY <1>3, <1>8
  <2> QED
    BY <2>1, <2>2 DEF MemberInv
<1>18. AliasInv /\ RowsInv /\ AgreeInv /\ FirstInv /\ ToldInv
  <2>1. (\A u \in Uids : physical[u] = None) /\ (\A i \in Ids : aliases[i] = None)
    BY <1>2
  <2>2. \A p \in Processes, i \in Ids : <<p, i>> \in Uids
    BY DEF Uids
  <2> QED
    BY <2>1, <2>2, <1>2 DEF AliasInv, RowsInv, AgreeInv, FirstInv, ToldInv
<1> QED
  BY <1>11, <1>12, <1>13, <1>14, <1>16, <1>17, <1>18 DEF IInv

----------------------------------------------------------------------------
(* Theorems *)

\* Every step keeps the invariant.
LEMMA StepInv == IInv /\ [Next]_vars => IInv'
<1> SUFFICES ASSUME IInv, [Next]_vars PROVE IInv'
  OBVIOUS
<1>1. CASE \E o \in Observation : BeginRegister(o) \/ Register(o)
  BY <1>1, BeginRegisterInv, RegisterInv
<1>2. CASE \E k \in Keys : BeginSuccess(k)
  BY <1>2, BeginSuccessInv
<1>3. CASE RecordSuccess \/ Answer
  BY <1>3, RecordSuccessInv, AnswerInv
<1>4. CASE \E p \in Readers : BeginResolve(p) \/ AnswerReader(p)
  BY <1>4, BeginResolveInv, AnswerReaderInv
<1>5. CASE \E p \in Processes : SyncRead(p) \/ SyncWrite(p) \/ SyncRaises(p) \/ Abandon(p)
  BY <1>5, SyncReadInv, SyncWriteInv, SyncRaisesInv, AbandonInv
<1>6. CASE UNCHANGED vars
  <2>1. /\ UNCHANGED <<identityVars, scopeVars, told>> /\ program' = program /\ observed' = observed
        /\ matched' = matched /\ snapshot' = snapshot
    BY <1>6 DEF vars, callVars
  <2>2. /\ program' \in [Processes -> Seq(Parts)] /\ observed' \in Observation \cup {None}
        /\ snapshot' \in [Processes -> Snapshots \cup {None}]
    BY <2>1 DEF IInv, Types
  <2>3. CallInv'
    <3>1. (\A w : Pending(w)' <=> Pending(w)) /\ (AnswerLast' <=> AnswerLast) /\ told' = told
          /\ \A p \in Processes : Next1(p)' = Next1(p)
      BY <2>1 DEF Pending, AnswerLast, Next1
    <3> QED
      BY <2>1, <3>1 DEF IInv, CallInv
  <2> QED
    BY <2>1, <2>2, <2>3, CallStepInv
<1> QED
  BY <1>1, <1>2, <1>3, <1>4, <1>5, <1>6 DEF Next

\* The registry's invariant.
LEMMA InvAlways == Spec => []IInv
<1>1. Init => IInv
  BY InitInv
<1>2. IInv /\ [Next]_vars => IInv'
  BY StepInv
<1> QED
  BY <1>1, <1>2, PTL DEF Spec

\* _sync_current_identities: whatever synchronisations overlap, clash or die, an
\* identity keeps the UID it was once given, and a UID its canonical device.
THEOREM UidsForGood == Spec => UidImmutable
<1> DEFINE Immutable ==
     /\ \A i \in Ids : aliases[i] # None => aliases'[i] = aliases[i]
     /\ \A u \in Uids : physical[u] # None =>
          physical'[u] # None /\ physical'[u].device = physical[u].device
<1>1. IInv /\ [Next]_vars => Immutable
  <2> SUFFICES ASSUME IInv, [Next]_vars PROVE Immutable
    OBVIOUS
  <2>1. CASE \E p \in Processes : SyncWrite(p)
    BY <2>1, SyncKeeps
  <2>2. CASE UNCHANGED scopeVars
    BY <2>2 DEF scopeVars
  <2> QED
    BY <2>1, <2>2 DEF Next, vars, BeginRegister, Register, Recognise, Separate, Promote, FollowOwner,
      AddController, Commit, BeginSuccess, RecordSuccess, Answer, BeginResolve, AnswerReader,
      SyncRead, SyncRaises, Abandon
<1> QED
  BY <1>1, InvAlways, PTL DEF Spec, UidImmutable

\* The tables keep their shape, the identities their order, and no two of them
\* share a canonical device.
THEOREM RegistryTyped == Spec => []TypeOK
<1>1. IInv => TypeOK
  <2> SUFFICES ASSUME IInv PROVE TypeOK
    OBVIOUS
  <2>1. /\ \A i, j \in Live : i # j => (<<i, j>> \in older <=> <<j, i>> \notin older)
        /\ \A i, j \in Live : canonical[i] = canonical[j] => i = j
    BY DEF IInv, OrderInv, DeviceInv
  <2>2. \A p \in Processes : snapshot[p] # None => snapshot[p].rows \subseteq Rows
    BY DEF IInv, Types, Snapshots
  <2> QED
    BY <2>1, <2>2 DEF IInv, Types, TypeOK
<1> QED
  BY <1>1, InvAlways, PTL

\* register_observation: one serial number is answered with one UID, at whatever
\* endpoints it was read and whichever branch matched it.
THEOREM SerialsKnown == Spec => []OneUidPerSerial
<1>1. IInv => OneUidPerSerial
  BY DEF IInv, ToldInv, OneUidPerSerial
<1> QED
  BY <1>1, InvAlways, PTL

\* register_observation and _conflict_device_id: different serial numbers are
\* answered with different UIDs and different device rows, also at one endpoint.
THEOREM SerialsSeparate == Spec => []SerialsApart
<1>1. IInv => SerialsApart
  <2> SUFFICES ASSUME IInv, NEW k \in Keys, NEW l \in Keys, told[k] # None, told[l] # None,
                      told[k].serial # NoSerial, told[l].serial # NoSerial,
                      told[k].serial # told[l].serial
               PROVE  told[k].uid # told[l].uid /\ told[k].device # told[l].device
    BY DEF SerialsApart
  <2> DEFINE a == <<"serial", told[k].serial>>
             b == <<"serial", told[l].serial>>
  <2>1. told[k] \in Answers /\ told[l] \in Answers
    BY DEF IInv, Types
  <2>2. a \in Ids /\ b \in Ids /\ a # b
    BY <2>1, IdShape DEF Answers
  <2>3. /\ aliases[a] = told[k].uid /\ canonical[a] = told[k].device /\ canonical[a] # None /\ aliases[a] # None
        /\ aliases[b] = told[l].uid /\ canonical[b] = told[l].device /\ canonical[b] # None /\ aliases[b] # None
    BY <2>1, NoneApart DEF IInv, ToldInv, Answers
  <2> HIDE DEF a, b
  <2>4. canonical[a] # canonical[b]
    BY <2>2, <2>3 DEF IInv, DeviceInv, Live
  <2>5. aliases[a] # aliases[b]
    BY <2>2, <2>3, <2>4 DEF IInv, AliasInv
  <2> QED
    BY <2>3, <2>4, <2>5
<1> QED
  BY <1>1, InvAlways, PTL

\* Only a synchronisation is followed by the answer.
LEMMA AnswerAfterSync ==
  ASSUME IInv, Next1(Watcher) \notin {"idle", "sync"}, Advance(Watcher)
  PROVE  Next1(Watcher)' # "answer"
<1> SUFFICES ASSUME Next1(Watcher)' = "answer" PROVE FALSE
  OBVIOUS
<1>1. /\ program[Watcher] \in Seq(Parts) /\ program[Watcher] # <<>> /\ Next1(Watcher) = program[Watcher][1]
      /\ program' = [program EXCEPT ![Watcher] = Tail(program[Watcher])]
  BY NextShape DEF IInv, Processes, Advance
<1>2. program'[Watcher] = Tail(program[Watcher])
  BY <1>1 DEF IInv, Types, Processes
<1>3. /\ Tail(program[Watcher]) \in Seq(Parts) /\ Len(Tail(program[Watcher])) = Len(program[Watcher]) - 1
      /\ \A n \in 1 .. Len(program[Watcher]) - 1 : Tail(program[Watcher])[n] = program[Watcher][n + 1]
      /\ Len(program[Watcher]) \in Nat
  BY <1>1, TailShape
<1>4. program'[Watcher] # <<>> /\ Head(program'[Watcher]) = "answer"
  BY DEF Next1
<1>5. Len(program[Watcher]) - 1 >= 1 /\ program'[Watcher][1] = "answer"
  BY <1>2, <1>3, <1>4, TailShape
<1>6. program[Watcher][2] = "answer" /\ 2 \in 1 .. Len(program[Watcher])
  BY <1>2, <1>3, <1>5
<1>7. program[Watcher][2 - 1] = "sync"
  BY <1>6 DEF IInv, CallInv, AnswerLast
<1> QED
  BY <1>1, <1>7

\* Alone, the watcher writes what it has read, and answers from it.
LEMMA SyncedStep ==
  ASSUME Readers = {}, IInv, SyncedInv, [Next]_vars PROVE SyncedInv'
<1>1. Processes = {Watcher} /\ snapshot \in [Processes -> Snapshots \cup {None}]
      /\ program \in [Processes -> Seq(Parts)]
  BY DEF Processes, IInv, Types
<1>2. ASSUME UNCHANGED <<canonical, snapshot>>, Next1(Watcher)' # "answer" PROVE SyncedInv'
  BY <1>2 DEF SyncedInv, Live, Row
<1>3. ASSUME snapshot'[Watcher] = None, Next1(Watcher)' # "answer" PROVE SyncedInv'
  BY <1>3 DEF SyncedInv
<1>4. ASSUME NEW o \in Observation, BeginRegister(o) PROVE SyncedInv'
  <2>1. program'[Watcher] = RegisterCall /\ Next1(Watcher)' = "sync"
    BY <1>1, <1>4 DEF BeginRegister, RegisterCall, Next1
  <2> QED
    BY <2>1, <1>2, <1>4 DEF BeginRegister, identityVars
<1>5. ASSUME NEW k \in Keys, BeginSuccess(k) PROVE SyncedInv'
  <2>1. program'[Watcher] = SuccessCall /\ Next1(Watcher)' = "sync"
    BY <1>1, <1>5 DEF BeginSuccess, SuccessCall, Next1
  <2> QED
    BY <2>1, <1>2, <1>5 DEF BeginSuccess, identityVars
<1>6. ASSUME Next1(Watcher) \in {"register", "success"}, Advance(Watcher), snapshot' = snapshot
      PROVE  SyncedInv'
  <2>1. snapshot[Watcher] = None
    BY <1>1, <1>6 DEF IInv, CallInv
  <2> QED
    BY <2>1, <1>3, <1>6, AnswerAfterSync
<1>7. ASSUME NEW o \in Observation, Register(o) PROVE SyncedInv'
  BY <1>6, <1>7 DEF Register, Recognise, Separate, Promote, FollowOwner, AddController, Commit
<1>8. ASSUME RecordSuccess PROVE SyncedInv'
  BY <1>6, <1>8 DEF RecordSuccess
<1>9. ASSUME NEW s \in {<<>>, Raised}, program' = [program EXCEPT ![Watcher] = s] PROVE Next1(Watcher)' # "answer"
  BY <1>1, <1>9, RaisedShape DEF Next1, Raised
<1>10. ASSUME Answer PROVE SyncedInv'
  BY <1>2, <1>9, <1>10 DEF Answer, identityVars
<1>11. ASSUME SyncRaises(Watcher) \/ Abandon(Watcher) PROVE SyncedInv'
  <2>1. snapshot'[Watcher] = None
    BY <1>1, <1>11 DEF SyncRaises, Abandon
  <2> QED
    BY <2>1, <1>3, <1>9, <1>11 DEF SyncRaises, Abandon
<1>12. ASSUME SyncRead(Watcher) PROVE SyncedInv'
  <2>1. Live' = Live /\ canonical' = canonical /\ Next1(Watcher)' = "sync"
    BY <1>12 DEF SyncRead, identityVars, Live, Next1
  <2>2. snapshot'[Watcher].rows = {Row(i) : i \in Live}
    BY <1>1, <1>12 DEF SyncRead
  <2> QED
    BY <2>1, <2>2 DEF SyncedInv, Row
<1>13. ASSUME SyncWrite(Watcher) PROVE SyncedInv'
  <2>1. /\ Live' = Live /\ canonical' = canonical /\ snapshot'[Watcher] = None
        /\ snapshot[Watcher].rows = {Row(i) : i \in Live}
    BY <1>1, <1>13 DEF SyncWrite, identityVars, Live, SyncedInv
  <2>2. /\ aliases' \in [Ids -> Uids \cup {None}]
        /\ \A r \in snapshot[Watcher].rows :
             /\ aliases'[r.id] = UidFor(Watcher, r) /\ UidFor(Watcher, r) \in Uids
             /\ physical'[UidFor(Watcher, r)] = [device |-> r.device, current |-> r.id]
    BY <1>1, <1>13, SyncWrites, UidForShape DEF SyncWrite
  <2>3. ASSUME NEW i \in Live
        PROVE  aliases'[i] # None /\ physical'[aliases'[i]] = [device |-> canonical[i], current |-> i]
    <3>1. Row(i) \in snapshot[Watcher].rows /\ Row(i).id = i /\ Row(i).device = canonical[i]
      BY <2>1, RowShape DEF IInv
    <3> QED
      BY <3>1, <2>2, NoneApart
  <2> QED
    BY <2>1, <2>3 DEF SyncedInv, Synced
<1>14. CASE UNCHANGED vars
  BY <1>14 DEF vars, identityVars, scopeVars, callVars, SyncedInv, Synced, Live, Row, Next1
<1> QED
  BY <1>1, <1>4, <1>5, <1>7, <1>8, <1>10, <1>11, <1>12, <1>13, <1>14 DEF Next

\* Where the tables agree, every alias and every device row leads to one UID.
LEMMA SyncedScopes ==
  ASSUME Readers = {}, IInv, SyncedInv PROVE ScopesCurrent
<1> SUFFICES ASSUME Synced PROVE ScopesCurrent
  BY DEF SyncedInv, ScopesCurrent, Processes
<1>1. \A i \in Live : /\ i \in Ids /\ canonical[i] # None
                      /\ aliases[i] # None /\ aliases[i] \in Uids /\ physical[aliases[i]] # None
                      /\ physical[aliases[i]].device = canonical[i]
                      /\ physical[aliases[i]].current = i
  <2> SUFFICES ASSUME NEW i \in Live
               PROVE  /\ i \in Ids /\ canonical[i] # None
                      /\ aliases[i] # None /\ aliases[i] \in Uids /\ physical[aliases[i]] # None
                      /\ physical[aliases[i]].device = canonical[i]
                      /\ physical[aliases[i]].current = i
    OBVIOUS
  <2>1. aliases[i] # None /\ physical[aliases[i]] = [device |-> canonical[i], current |-> i]
    BY DEF Synced
  <2>2. i \in Ids /\ canonical[i] # None /\ aliases[i] \in Uids /\ physical[aliases[i]] # None
    BY <2>1 DEF Live, IInv, Types, AliasInv
  <2> QED
    BY <2>1, <2>2
<1>2. ASSUME NEW u \in Uids, physical[u] # None
      PROVE  /\ physical[u].current \in Live /\ canonical[physical[u].current] = physical[u].device
             /\ aliases[physical[u].current] = u
  <2>1. PICK j \in Live : canonical[j] = physical[u].device
    BY <1>2 DEF IInv, AliasInv, Holds
  <2>2. physical[aliases[j]] # None /\ physical[aliases[j]].device = canonical[j]
        /\ physical[aliases[j]].current = j /\ aliases[j] \in Uids
    BY <1>1
  <2>3. aliases[j] = u
    BY <1>2, <2>1, <2>2 DEF IInv, AliasInv
  <2> QED
    BY <2>1, <2>2, <2>3
<1>3. ASSUME NEW i \in Ids, aliases[i] # None
      PROVE  LET c == physical[aliases[i]] IN
               canonical[c.current] = c.device /\ aliases[c.current] = aliases[i]
  <2>1. aliases[i] \in Uids /\ physical[aliases[i]] # None
    BY <1>3 DEF IInv, Types, AliasInv
  <2> QED
    BY <2>1, <1>2
<1>4. ASSUME NEW d \in Devices, members[d] # None
      PROVE  /\ aliases[members[d]] # None /\ d \in History(aliases[members[d]])
             /\ \A u \in Uids : physical[u] # None /\ d \in History(u) => u = aliases[members[d]]
  <2>1. members[d] \in Live
    BY <1>4 DEF IInv, MemberInv
  <2>2. aliases[members[d]] # None /\ d \in History(aliases[members[d]])
    <3>1. aliases[members[d]] # None /\ physical[aliases[members[d]]].current = members[d]
      BY <1>1, <2>1
    <3> QED
      BY <3>1 DEF History
  <2>3. ASSUME NEW u \in Uids, physical[u] # None, d \in History(u) PROVE u = aliases[members[d]]
    <3>1. CASE members[d] = physical[u].current
      BY <3>1, <2>3, <1>2
    <3>2. CASE d = physical[u].device
      <4>1. members[canonical[physical[u].current]] = physical[u].current
        BY <2>3, <1>2 DEF IInv, MemberInv
      <4> QED
        BY <4>1, <3>2, <2>3, <1>2
    <3> QED
      BY <2>3, <3>1, <3>2 DEF History
  <2> QED
    BY <2>2, <2>3
<1> QED
  BY <1>3, <1>4 DEF ScopesCurrent

\* ControllerScopeRepository.resolve, in a database one process uses: every alias
\* leads to a live identity, and the telemetry of every device row is in the
\* history of the one UID of the identity it is a member of.
THEOREM ScopesResolve == Readers = {} => (Spec => []ScopesCurrent)
<1> SUFFICES ASSUME Readers = {} PROVE Spec => []ScopesCurrent
  OBVIOUS
<1>1. Init => SyncedInv
  BY DEF Init, SyncedInv, Next1, Processes
<1>2. IInv /\ IInv' /\ SyncedInv /\ [Next]_vars => SyncedInv'
  BY SyncedStep
<1>3. IInv /\ SyncedInv => ScopesCurrent
  BY SyncedScopes
<1> QED
  BY <1>1, <1>2, <1>3, InvAlways, PTL DEF Spec
=============================================================================
