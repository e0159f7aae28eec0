------------------------- MODULE ControllerRegistry -------------------------
(***************************************************************************)
(* Who is this controller?  (controllers/inventory.py and                  *)
(* controllers/scope.py.)  An observation is matched to an identity by     *)
(* controller serial number, else by the endpoint it was made at; an       *)
(* identity is promoted when its serial becomes known and separated when   *)
(* serials conflict.  On top of the identities an immutable UID is kept    *)
(* for each canonical device: every registry call first synchronises the   *)
(* UID tables with the identities.                                         *)
(*                                                                         *)
(* One process registers (the watcher); readers (API requests, in the same *)
(* or another process) synchronise and resolve at any time.  A             *)
(* synchronisation reads the identities and looks up the first one before  *)
(* its transaction begins with its first write: two steps.  (Taking the two*)
(* reads together loses nothing: identities change only in the watcher's   *)
(* registrations, each after a synchronisation of its own.)                *)
(*                                                                         *)
(* An endpoint stands for its stable key and for the fallback identity     *)
(* derived from it (usb:... or endpoint:...); a serial stands for          *)
(* morningstar:<profile>:<serial>, which is only read once the profile is  *)
(* known.  Timestamps are kept as orders of recency.                       *)
(***************************************************************************)
EXTENDS Integers, Sequences, FiniteSets

CONSTANTS
  Keys,       \* endpoint stable keys
  Serials,    \* controller serial numbers
  NoSerial,   \* the serial could not be read ("")
  Watcher,    \* the registering process
  Readers,    \* processes that only resolve
  None        \* no row

Processes == Readers \cup {Watcher}
Observation == [key : Keys, serial : Serials \cup {NoSerial}]

\* controller_id: what the evidence says; a version that trusts the endpoint.
EndpointFirst(o) == <<"fallback", o.key>>
IdOf(o) == IF o.serial # NoSerial THEN <<"serial", o.serial>> ELSE <<"fallback", o.key>>
Ids == {<<"serial", s>> : s \in Serials} \cup {<<"fallback", k>> : k \in Keys}
SerialOf(id) == IF id[1] = "serial" THEN id[2] ELSE NoSerial

\* Device rows are named by the key they were created at, or by the serial and
\* the key of a conflict.
ConflictDevice(o) == <<"device", o.serial, o.key>>
Devices == Keys \cup {<<"device", s, k>> : s \in Serials, k \in Keys}

\* A UID is a fresh random name: no two processes generate the same, and none
\* does so twice for one identity.
Uids == Processes \X Ids

\* An identity with its canonical device, a row of physical_controllers, and
\* what the watcher keeps of an answer.
Rows == [id : Ids, device : Devices]
Physicals == [device : Devices, current : Ids]
Answers == [serial : Serials \cup {NoSerial}, uid : Uids, device : Devices]

ASSUME RegistryAssumption ==
  /\ IsFiniteSet(Keys) /\ NoSerial \notin Serials /\ Watcher \notin Readers
  /\ None \notin Ids \cup Devices \cup Uids
  /\ None \notin Observation \cup Rows \cup Physicals \cup Answers
  /\ Keys \cap {<<"device", s, k>> : s \in Serials, k \in Keys} = {}

VARIABLES
  canonical,  \* controller_identities: id -> canonical_device_id
  older,      \* the pairs of identities of which the first has the older last_seen
  members,    \* controller_device_members: device -> id
  lastOwner,  \* key -> the identity of its most recent controller_connections row
  rowOf,      \* key -> the devices row with that stable_key
  physical,   \* physical_controllers: uid -> [device, current]
  aliases,    \* controller_identity_aliases: id -> uid
  program,    \* process -> what its registry call still has to do
  observed,   \* the observation the watcher is registering
  matched,    \* what inventory.register_observation returned for it
  snapshot,   \* process -> what its synchronisation has read
  told        \* key -> what the watcher was last told about it (the session there)

identityVars == <<canonical, older, members, lastOwner, rowOf>>
scopeVars == <<physical, aliases>>
callVars == <<program, observed, matched, snapshot>>
vars == <<identityVars, scopeVars, callVars, told>>

Live == {i \in Ids : canonical[i] # None}

RegisterCall == <<"sync", "register", "sync", "sync", "answer">>
SuccessCall == <<"sync", "success", "sync">>
ResolveCall == <<"sync", "answer">>
Raised == <<"raised">>
Next1(p) == IF program[p] = <<>> THEN "idle" ELSE Head(program[p])

----------------------------------------------------------------------------
(* The database an upgrade starts from: bootstrap_legacy_rows groups the     *)
(* device rows an older version left, one per endpoint, by identity.         *)

LegacyRows == [Keys -> Serials \cup {NoSerial, None}]
Ages == {a \in [Keys -> 1 .. Cardinality(Keys)] :
           \A k, l \in Keys : a[k] = a[l] => k = l}

LegacyId(legacy, k) == IdOf([key |-> k, serial |-> legacy[k]])
Group(legacy, id) == {k \in Keys : legacy[k] # None /\ LegacyId(legacy, k) = id}
Newest(K, age) == CHOOSE k \in K : \A l \in K : age[l] <= age[k]

Bootstrap(legacy, age) ==
  /\ canonical = [i \in Ids |-> IF Group(legacy, i) = {} THEN None
                                ELSE Newest(Group(legacy, i), age)]
  /\ older = {e \in Live \X Live : age[canonical[e[1]]] < age[canonical[e[2]]]}
  /\ members = [d \in Devices |->
       IF d \in Keys /\ legacy[d] # None THEN LegacyId(legacy, d) ELSE None]
  /\ lastOwner = [k \in Keys |->
       IF legacy[k] = None THEN None ELSE LegacyId(legacy, k)]
  /\ rowOf = [k \in Keys |-> IF legacy[k] = None THEN None ELSE k]

Init ==
  /\ \E legacy \in LegacyRows, age \in Ages : Bootstrap(legacy, age)
  /\ physical = [u \in Uids |-> None] /\ aliases = [i \in Ids |-> None]
  /\ program = [p \in Processes |-> <<>>]
  /\ observed = None /\ matched = None
  /\ snapshot = [p \in Processes |-> None]
  /\ told = [k \in Keys |-> None]

----------------------------------------------------------------------------
(* Calls *)

\* The watcher registers an observation, or records a successful poll of the
\* controller it was told is at an endpoint; a reader resolves.
BeginRegister(o) ==
  /\ program[Watcher] = <<>>
  /\ program' = [program EXCEPT ![Watcher] = RegisterCall]
  /\ observed' = o
  /\ UNCHANGED <<identityVars, scopeVars, matched, snapshot, told>>

BeginSuccess(k) ==
  /\ program[Watcher] = <<>> /\ told[k] # None
  /\ program' = [program EXCEPT ![Watcher] = SuccessCall]
  /\ observed' = [key |-> k, serial |-> told[k].serial]
  /\ UNCHANGED <<identityVars, scopeVars, matched, snapshot, told>>

BeginResolve(p) ==
  /\ program[p] = <<>>
  /\ program' = [program EXCEPT ![p] = ResolveCall]
  /\ UNCHANGED <<identityVars, scopeVars, observed, matched, snapshot, told>>

Advance(p) == program' = [program EXCEPT ![p] = Tail(@)]

\* A process is killed or its call is cancelled.
Abandon(p) ==
  /\ program[p] # <<>>
  /\ program' = [program EXCEPT ![p] = <<>>]
  /\ snapshot' = [snapshot EXCEPT ![p] = None]
  /\ IF p = Watcher THEN observed' = None /\ matched' = None
                    ELSE UNCHANGED <<observed, matched>>
  /\ UNCHANGED <<identityVars, scopeVars, told>>

----------------------------------------------------------------------------
(* ControllerScopeRepository._sync_current_identities *)

Row(i) == [id |-> i, device |-> canonical[i]]

\* The UID a row belongs to: that of its alias, else of its device.
HoldersOf(d) == {u \in Uids : physical[u] # None /\ physical[u].device = d}
KnownUid(r) ==
  IF aliases[r.id] # None THEN aliases[r.id]
  ELSE IF HoldersOf(r.device) # {} THEN CHOOSE u \in HoldersOf(r.device) : TRUE
  ELSE None

\* The first row by last_seen, if there is one.
First == IF Live = {} THEN {None}
         ELSE {i \in Live : \A j \in Live : <<j, i>> \notin older}

SyncRead(p) ==
  /\ Next1(p) = "sync" /\ snapshot[p] = None
  /\ \E i \in First : snapshot' = [snapshot EXCEPT ![p] =
       [rows  |-> {Row(j) : j \in Live},
        first |-> i,
        uid   |-> IF i = None THEN None ELSE KnownUid(Row(i))]]
  /\ UNCHANGED <<identityVars, scopeVars, program, observed, matched, told>>

\* The UID a row is written under; what was looked up early is not looked up
\* again.
UidFor(p, r) ==
  LET known == IF r.id = snapshot[p].first THEN snapshot[p].uid ELSE KnownUid(r)
  IN  IF known # None THEN known ELSE <<p, r.id>>

\* canonical_device_id is UNIQUE; a schema in which it is not.
NeverClashes(p) == FALSE
Clash(p) ==
  \E r \in snapshot[p].rows : \E u \in HoldersOf(r.device) : u # UidFor(p, r)

\* The upsert of a row, and a version that keeps the current identity.
KeepsCurrent(u, r) ==
  IF physical[u] = None THEN [device |-> r.device, current |-> r.id]
  ELSE [physical[u] EXCEPT !.device = r.device]
Upserted(u, r) == [device |-> r.device, current |-> r.id]

SyncWrite(p) ==
  LET rows == snapshot[p].rows IN
  /\ Next1(p) = "sync" /\ snapshot[p] # None /\ ~Clash(p)
  /\ physical' = [u \in Uids |->
       IF \E r \in rows : UidFor(p, r) = u
       THEN Upserted(u, CHOOSE r \in rows : UidFor(p, r) = u) ELSE physical[u]]
  /\ aliases' = [i \in Ids |->
       IF \E r \in rows : r.id = i
       THEN UidFor(p, CHOOSE r \in rows : r.id = i) ELSE aliases[i]]
  /\ snapshot' = [snapshot EXCEPT ![p] = None]
  /\ Advance(p)
  /\ UNCHANGED <<identityVars, observed, matched, told>>

\* The transaction is rolled back and IntegrityError leaves the call.
SyncRaises(p) ==
  /\ Next1(p) = "sync" /\ snapshot[p] # None /\ Clash(p)
  /\ program' = [program EXCEPT ![p] = Raised]
  /\ snapshot' = [snapshot EXCEPT ![p] = None]
  /\ UNCHANGED <<identityVars, scopeVars, observed, matched, told>>

----------------------------------------------------------------------------
(* ControllerInventoryRepository.register_observation: one transaction *)

\* An identity seen again becomes the most recent one.
SeenLast(gone, id) ==
  LET others == Live \ {gone, id}
  IN  (older \cap (others \X others)) \cup {<<i, id>> : i \in others}

\* What every branch ends with: the observation at key o.key belongs to
\* identity id with canonical device d; identity gone has become id.
Commit(o, id, d, gone) ==
  /\ Next1(Watcher) = "register" /\ observed = o
  /\ canonical' = [i \in Ids |-> IF i = id THEN d
                                 ELSE IF i = gone THEN None ELSE canonical[i]]
  /\ older' = SeenLast(gone, id)
  /\ members' = [e \in Devices |->
       IF e = d \/ (members[e] # None /\ members[e] = gone) THEN id ELSE members[e]]
  /\ lastOwner' = [k \in Keys |->
       IF k = o.key \/ (lastOwner[k] # None /\ lastOwner[k] = gone) THEN id
       ELSE lastOwner[k]]
  /\ matched' = [id |-> id, device |-> d]
  /\ Advance(Watcher)
  /\ UNCHANGED <<scopeVars, observed, snapshot, told>>

\* The identity the evidence names is known.
Recognised(o) == canonical[IdOf(o)] # None

Recognise(o) ==
  /\ Recognised(o)
  /\ Commit(o, IdOf(o), canonical[IdOf(o)], None)
  /\ UNCHANGED rowOf

\* The endpoint's owner is known by another serial; a version that never asks.
NeverConflicts(o) == FALSE
Conflicting(o) == o.serial # NoSerial /\ SerialOf(lastOwner[o.key]) \notin {NoSerial, o.serial}

\* The serial of a controller known by its endpoint has become readable.
Promoted(o) == o.serial # NoSerial /\ SerialOf(lastOwner[o.key]) = NoSerial

Separate(o) ==
  /\ ~Recognised(o) /\ lastOwner[o.key] # None
  /\ Conflicting(o)
  /\ Commit(o, IdOf(o), ConflictDevice(o), None)
  /\ rowOf' = [rowOf EXCEPT ![o.key] = IF @ = None THEN ConflictDevice(o) ELSE @]

Promote(o) ==
  /\ ~Recognised(o) /\ lastOwner[o.key] # None
  /\ Promoted(o)
  /\ Commit(o, IdOf(o), canonical[lastOwner[o.key]], lastOwner[o.key])
  /\ UNCHANGED rowOf

FollowOwner(o) ==
  /\ ~Recognised(o) /\ lastOwner[o.key] # None
  /\ ~Conflicting(o) /\ ~Promoted(o)
  /\ Commit(o, lastOwner[o.key], canonical[lastOwner[o.key]], None)
  /\ UNCHANGED rowOf

AddController(o) ==
  /\ ~Recognised(o) /\ lastOwner[o.key] = None
  /\ LET d == IF rowOf[o.key] # None THEN rowOf[o.key] ELSE o.key IN
       Commit(o, IdOf(o), d, None)
  /\ rowOf' = [rowOf EXCEPT ![o.key] = IF @ = None THEN o.key ELSE @]

\* ControllerInventoryRepository.record_success updates the connection and the
\* identity the scope names, if they are there.
RecordSuccess ==
  LET id == physical[told[observed.key].uid].current IN
  /\ Next1(Watcher) = "success"
  /\ IF canonical[id] # None
     THEN /\ lastOwner' = [lastOwner EXCEPT ![observed.key] = id]
          /\ older' = SeenLast(None, id)
     ELSE UNCHANGED <<lastOwner, older>>
  /\ Advance(Watcher)
  /\ UNCHANGED <<canonical, members, rowOf, scopeVars, observed, matched, snapshot, told>>

\* register_observation resolves the identity it was given to its UID.
Answer ==
  /\ Next1(Watcher) = "answer" /\ aliases[matched.id] # None
  /\ told' = [told EXCEPT ![observed.key] =
       [serial |-> observed.serial, uid |-> aliases[matched.id], device |-> matched.device]]
  /\ program' = [program EXCEPT ![Watcher] = <<>>]
  /\ observed' = None /\ matched' = None
  /\ UNCHANGED <<identityVars, scopeVars, snapshot>>

AnswerReader(p) ==
  /\ p \in Readers /\ Next1(p) = "answer"
  /\ Advance(p)
  /\ UNCHANGED <<identityVars, scopeVars, observed, matched, snapshot, told>>

----------------------------------------------------------------------------
Register(o) ==
  Recognise(o) \/ Separate(o) \/ Promote(o) \/ FollowOwner(o) \/ AddController(o)

Next ==
  \/ \E o \in Observation : BeginRegister(o) \/ Register(o)
  \/ \E k \in Keys : BeginSuccess(k)
  \/ RecordSuccess \/ Answer
  \/ \E p \in Readers : BeginResolve(p) \/ AnswerReader(p)
  \/ \E p \in Processes : SyncRead(p) \/ SyncWrite(p) \/ SyncRaises(p) \/ Abandon(p)

Spec == Init /\ [][Next]_vars

----------------------------------------------------------------------------
(* Properties *)

\* Every table keeps its shape and its keys: the identities are ordered, and
\* no two of them share a canonical device.
TypeOK ==
  /\ canonical \in [Ids -> Devices \cup {None}]
  /\ older \subseteq Live \X Live
  /\ \A i, j \in Live : i # j => (<<i, j>> \in older <=> <<j, i>> \notin older)
  /\ \A i, j \in Live : canonical[i] = canonical[j] => i = j
  /\ members \in [Devices -> Ids \cup {None}]
  /\ lastOwner \in [Keys -> Live \cup {None}]
  /\ rowOf \in [Keys -> Devices \cup {None}]
  /\ physical \in [Uids -> Physicals \cup {None}]
  /\ aliases \in [Ids -> Uids \cup {None}]
  /\ observed \in Observation \cup {None}
  /\ matched \in Rows \cup {None}
  /\ \A p \in Processes : snapshot[p] # None =>
       snapshot[p].rows \subseteq Rows
  /\ told \in [Keys -> Answers \cup {None}]

\* A UID is generated once: an alias never changes its UID and a UID never
\* changes its canonical device, whatever synchronisations overlap or die.
UidImmutable ==
  [][/\ \A i \in Ids : aliases[i] # None => aliases'[i] = aliases[i]
     /\ \A u \in Uids : physical[u] # None =>
          physical'[u] # None /\ physical'[u].device = physical[u].device]_vars

\* The watcher is told one UID for one serial number, wherever it shows up.
OneUidPerSerial ==
  \A k, l \in Keys :
    (/\ told[k] # None /\ told[l] # None /\ told[k].serial # NoSerial
     /\ told[k].serial = told[l].serial) => told[k].uid = told[l].uid

\* Controllers with different serial numbers are never merged, also when they
\* take turns at an endpoint.
SerialsApart ==
  \A k, l \in Keys :
    (/\ told[k] # None /\ told[l] # None
     /\ told[k].serial # NoSerial /\ told[l].serial # NoSerial
     /\ told[k].serial # told[l].serial) =>
       told[k].uid # told[l].uid /\ told[k].device # told[l].device

\* The device rows a scope spans: history_device_ids.
History(u) == {d \in Devices : members[d] = physical[u].current} \cup {physical[u].device}

\* When a call resolves, every alias leads to a live identity, and every device
\* row that holds a controller's telemetry is in the history of one UID: that
\* of the identity it is a member of.
ScopesCurrent ==
  (\E p \in Processes : Next1(p) = "answer") =>
    /\ \A i \in Ids : aliases[i] # None =>
         LET c == physical[aliases[i]] IN
           canonical[c.current] = c.device /\ aliases[c.current] = aliases[i]
    /\ \A d \in Devices : members[d] # None =>
         /\ aliases[members[d]] # None /\ d \in History(aliases[members[d]])
         /\ \A u \in Uids : physical[u] # None /\ d \in History(u) =>
              u = aliases[members[d]]
=============================================================================
