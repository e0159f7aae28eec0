---------------------------- MODULE SessionProofs ----------------------------
(* Proofs about PollSession, for every profile, client and bound: close()    *)
(* releases the port, a poll is built from answers of its own exchanges that *)
(* fit the blocks they were asked for, the observer hears of every exchange  *)
(* once, and the capture it makes of a poll replays to the same end.         *)
EXTENDS PollSession, TLAPS, SequenceTheorems, WellFoundedInduction

-----------------------------------------------------------------------------
(* The inductive invariant                                                   *)

TypeInv ==
  /\ medium \in {"rtu", "tcp"}
  /\ plan \subseteq DOMAIN Blocks
  /\ asked \in Nat /\ first \in Nat
  /\ call \in Requests \cup {None} /\ working \in Requests \cup {None}
  /\ answered \in Exchanges \cup {None}
  /\ inbox \in Seq(Replies) /\ air \subseteq Replies
  /\ log \in Seq(Exchanges)

\* The request under way is the last exchange asked for.
CallInv ==
  /\ call # None =>
       call.id = asked /\ asked > 0 /\ call.block \in DOMAIN Blocks /\ outcome = "running"
  /\ answered # None => call # None /\ answered.id = call.id /\ answered.block = call.block

\* The worker reads for that request, or for one whose task was cancelled.
WorkInv ==
  working # None =>
    \/ working = call /\ answered = None
    \/ call = None /\ outcome = "cancelled" /\ medium = "rtu"

\* The queue holds the request the worker has still to begin, then the close.
Waiting == call # None /\ answered = None /\ working # call
QueueInv ==
  /\ Waiting /\ closing = "queued" => jobs = <<call, CloseJob>>
  /\ Waiting /\ closing # "queued" => jobs = <<call>>
  /\ ~Waiting /\ closing = "queued" => jobs = <<CloseJob>>
  /\ ~Waiting /\ closing # "queued" => jobs = <<>>

\* Once the close has run, the RTU client's thread has nothing left to do.
CloseInv ==
  /\ closing \in {"none", "queued", "draining", "done"}
  /\ medium = "rtu" /\ closing \in {"draining", "done"} =>
       port = "closed" /\ working = None /\ ~Waiting
  /\ closing \in {"queued", "draining"} => medium = "rtu"

\* What lies in the line while an exchange runs was received during it.
LineInv ==
  working # None => \A i \in DOMAIN inbox : inbox[i].during = working.id

\* An exchange without an error has an answer received during it, with the
\* function of its block, or none.
Genuine(e) ==
  ~e.error /\ e.answer # None =>
    e.answer.during = e.id /\ e.answer.function = Block(e.block).function

AnswerInv ==
  /\ answered # None => Genuine(answered)
  /\ \A i \in DOMAIN log : Genuine(log[i])

\* The answers a poll or the profile holds have the shape of their blocks.
Fits(held) ==
  \A b \in DOMAIN held :
    held[b].function = Block(b).function /\ held[b].count = Block(b).count

WordsInv == Fits(words) /\ Fits(metadata)

IInv ==
  /\ TypeInv /\ CallInv /\ WorkInv /\ QueueInv /\ CloseInv
  /\ LineInv /\ AnswerInv /\ WordsInv /\ RecordedOnce

-----------------------------------------------------------------------------
(* What the operators return                                                 *)

LEMMA BlocksAreNumbered ==
  ASSUME NEW b \in DOMAIN Blocks
  PROVE  b \in Nat /\ Block(b).function \in Nat /\ Block(b).count \in Nat
<1>1. Blocks \in Seq([function : Nat, count : Nat, cached : BOOLEAN, optional : BOOLEAN])
  BY PollSessionAssumption
<1>2. b \in 1..Len(Blocks)
  BY <1>1
<1>3. Blocks[b] \in [function : Nat, count : Nat, cached : BOOLEAN, optional : BOOLEAN]
  BY <1>1, <1>2, ElementOfSeq
<1>4. QED  BY <1>2, <1>3 DEF Block

LEMMA NextIsPlanned == ASSUME NEW blocks PROVE NextIn(blocks) \subseteq blocks
  BY DEF NextIn

\* The effect of one block read on the poll.
LEMMA Applied ==
  ASSUME NEW e, Apply(e)
  PROVE  /\ Parsed(e) =>
              /\ outcome' = outcome /\ plan' = plan \ {e.block}
              /\ words' = [b \in DOMAIN words \cup {e.block} |->
                             IF b = e.block THEN e.answer ELSE words[b]]
         /\ ~Parsed(e) =>
              words' = words /\ plan' \subseteq plan /\ outcome' \in {outcome, "failed"}
         /\ metadata' = KeepCached(words')
<1>1. CASE Parsed(e)
  BY <1>1 DEF Apply, Took
<1>2. CASE ~Parsed(e) /\ Block(e.block).optional
  BY <1>2 DEF Apply, Took
<1>3. CASE ~Parsed(e) /\ ~Block(e.block).optional
  BY <1>3 DEF Apply, Took
<1>4. QED  BY <1>1, <1>2, <1>3

LEMMA AppliedFits ==
  ASSUME NEW e, Apply(e), Genuine(e), Fits(words)
  PROVE  Fits(words') /\ Fits(metadata')
<1>1. Fits(words')
  <2>1. CASE Parsed(e)
    <3>1. words' = [b \in DOMAIN words \cup {e.block} |->
                      IF b = e.block THEN e.answer ELSE words[b]]
      BY <2>1, Applied
    <3>2. e.answer.function = Block(e.block).function /\ e.answer.count = Block(e.block).count
      BY <2>1 DEF Parsed, Genuine
    <3>3. QED  BY <3>1, <3>2 DEF Fits
  <2>2. CASE ~Parsed(e)
    BY <2>2, Applied
  <2>3. QED  BY <2>1, <2>2
<1>2. Fits(metadata')
  BY <1>1, Applied DEF Fits, KeepCached
<1>3. QED  BY <1>1, <1>2

\* An answer of the device, and an exchange made of it.
LEMMA AnswerType ==
  ASSUME NEW id \in Nat, NEW b \in DOMAIN Blocks, NEW kind \in Kinds
  PROVE  Answer(id, b, kind) \in Replies
  BY BlocksAreNumbered DEF Answer, Replies

LEMMA FailureType ==
  ASSUME NEW id \in Nat, NEW b \in Nat
  PROVE  /\ Failure(id, b) \in Exchanges
         /\ Failure(id, b).id = id /\ Failure(id, b).block = b /\ ~Parsed(Failure(id, b))
         /\ Genuine(Failure(id, b))
  BY DEF Failure, Exchange, Exchanges, Parsed, Genuine

LEMMA CheckedType ==
  ASSUME NEW id \in Nat, NEW b \in Nat, NEW a \in Replies
  PROVE  /\ Checked(id, b, a) \in Exchanges
         /\ Checked(id, b, a).id = id /\ Checked(id, b, a).block = b
         /\ a.during = id => Genuine(Checked(id, b, a))
<1>1. CASE a.kind = "data" /\ SameFunction(b, a)
  BY <1>1 DEF Checked, Exchange, Exchanges, Genuine, SameFunction
<1>2. CASE ~(a.kind = "data" /\ SameFunction(b, a))
  BY <1>2, FailureType DEF Checked
<1>3. QED  BY <1>1, <1>2

\* The worker's exchange ends with a result for the request it worked on.
LEMMA ExchangeEnds ==
  ASSUME TypeInv, LineInv, ReadAnswer \/ ReadFails
  PROVE  /\ working # None /\ working \in Requests
         /\ \E e \in Exchanges, broken \in BOOLEAN :
              /\ EndExchange(e, broken) /\ Genuine(e)
              /\ e.id = working.id /\ e.block = working.block
              /\ inbox = <<>> => broken
<1>1. working # None /\ working \in Requests
  BY DEF ReadAnswer, ReadFails, TypeInv
<1>2. working.id \in Nat /\ working.block \in Nat
  BY <1>1 DEF Requests
<1>3. CASE ReadAnswer
  <2> DEFINE e == Checked(working.id, working.block, Head(inbox))
  <2>1. EndExchange(e, FALSE) /\ inbox # <<>>
    BY <1>3 DEF ReadAnswer
  <2>2. Head(inbox) \in Replies /\ Head(inbox).during = working.id
    BY <1>1, <2>1 DEF TypeInv, LineInv
  <2>3. e \in Exchanges /\ Genuine(e) /\ e.id = working.id /\ e.block = working.block
    BY <1>2, <2>2, CheckedType
  <2> HIDE DEF e
  <2>4. QED  BY <1>1, <2>1, <2>3
<1>4. CASE ReadFails
  <2> DEFINE e == Failure(working.id, working.block)
  <2>1. EndExchange(e, TRUE)
    BY <1>4 DEF ReadFails
  <2>2. e \in Exchanges /\ Genuine(e) /\ e.id = working.id /\ e.block = working.block
    BY <1>2, FailureType
  <2> HIDE DEF e
  <2>3. QED  BY <1>1, <2>1, <2>2
<1>5. QED  BY <1>3, <1>4

\* The request of an exchange that begins.
LEMMA RequestAsked ==
  ASSUME TypeInv, Ask
  PROVE  call' \in Requests /\ call' # None /\ call'.id = asked + 1
         /\ call'.block \in DOMAIN Blocks
<1>1. PICK b \in NextIn(plan) : call' = [id |-> asked + 1, block |-> b]
  BY DEF Ask
<1>2. b \in DOMAIN Blocks /\ b \in Nat
  BY <1>1, NextIsPlanned, BlocksAreNumbered DEF TypeInv
<1>3. call' \in Requests
  BY <1>1, <1>2 DEF TypeInv, Requests
<1>4. QED  BY <1>1, <1>2, <1>3, NoneAssumption

LEMMA QueueOfTwo ==
  ASSUME NEW a, NEW b
  PROVE  Head(<<a, b>>) = a /\ Tail(<<a, b>>) = <<b>> /\ <<a, b>> # <<>>
  OBVIOUS

LEMMA AppendTwo ==
  ASSUME NEW S, NEW a \in S, NEW b \in S
  PROVE  Append(<<a>>, b) = <<a, b>>
<1>1. Append(<<a>>, b) \in Seq(S) /\ <<a, b>> \in Seq(S)
  OBVIOUS
<1>2. Len(Append(<<a>>, b)) = 2 /\ Len(<<a, b>>) = 2
  OBVIOUS
<1>3. \A i \in 1..2 : Append(<<a>>, b)[i] = <<a, b>>[i]
  OBVIOUS
<1>4. QED  BY <1>1, <1>2, <1>3, SeqEqual, Zenon

LEMMA CloseJobApart == ASSUME TypeInv, CallInv, call # None PROVE call # CloseJob
  BY DEF TypeInv, CallInv, CloseJob

\* The job the worker can begin is the request under way.
LEMMA JobIsCall ==
  ASSUME TypeInv, CallInv, QueueInv, jobs # <<>>, Head(jobs) # CloseJob
  PROVE  Waiting /\ Head(jobs) = call /\ call \in Requests
         /\ Tail(jobs) = IF closing = "queued" THEN <<CloseJob>> ELSE <<>>
<1>1. Waiting
  BY DEF QueueInv
<1>2. call \in Requests
  BY <1>1 DEF Waiting, TypeInv
<1>3. CASE closing = "queued"
  <2>1. jobs = <<call, CloseJob>>
    BY <1>1, <1>3 DEF QueueInv
  <2>2. QED  BY <1>1, <1>2, <1>3, <2>1, QueueOfTwo
<1>4. CASE closing # "queued"
  <2>1. jobs = <<call>>
    BY <1>1, <1>4 DEF QueueInv
  <2>2. QED  BY <1>1, <1>2, <1>4, <2>1
<1>5. QED  BY <1>1, <1>2, <1>3, <1>4

\* The job the worker finds is the close: no request waits.
LEMMA JobIsClose ==
  ASSUME TypeInv, CallInv, QueueInv, jobs # <<>>, Head(jobs) = CloseJob
  PROVE  ~Waiting /\ closing = "queued" /\ Tail(jobs) = <<>>
<1>1. ~Waiting
  BY CloseJobApart DEF QueueInv, Waiting
<1>2. closing = "queued"
  BY <1>1 DEF QueueInv
<1>3. jobs = <<CloseJob>>
  BY <1>1, <1>2 DEF QueueInv
<1>4. QED  BY <1>1, <1>2, <1>3
-----------------------------------------------------------------------------
(* Every step keeps the types                                                *)

LEMMA TypeInit == Init => TypeInv
  BY PollSessionAssumption DEF Init, TypeInv

LEMMA TypeNext == IInv /\ Next => TypeInv'
<1> SUFFICES ASSUME IInv, Next PROVE TypeInv'
  OBVIOUS
<1>0. TypeInv /\ CallInv /\ WorkInv /\ QueueInv /\ LineInv
  BY DEF IInv
<1> USE DEF profileVars, clientVars, lineVars
<1>1. CASE BeginPoll
  BY <1>0, <1>1 DEF BeginPoll, TypeInv, Plan
<1>2. CASE Ask
  BY <1>0, <1>2, RequestAsked DEF Ask, TypeInv
<1>3. CASE AskClosed
  <2>1. PICK b \in NextIn(plan) : Apply(Failure(0, b))
    BY <1>3 DEF AskClosed
  <2>2. plan' \subseteq plan
    BY <2>1, Applied
  <2>3. QED  BY <1>0, <1>3, <2>2 DEF AskClosed, TypeInv
<1>4. CASE Resume
  <2>1. Apply(answered) /\ answered \in Exchanges /\ log' = Append(log, answered)
    BY <1>0, <1>4 DEF Resume, Told, TypeInv
  <2>2. plan' \subseteq plan
    BY <2>1, Applied
  <2>3. QED  BY <1>0, <1>4, <2>1, <2>2 DEF Resume, TypeInv
<1>5. CASE FinishPoll
  BY <1>0, <1>5 DEF FinishPoll, TypeInv
<1>6. CASE StartExchange
  <2>1. Waiting /\ Head(jobs) = call /\ call \in Requests
    BY <1>0, <1>6, JobIsCall DEF StartExchange
  <2>2. air' \subseteq Replies
    <3>1. CASE air' = air
      BY <1>0, <3>1 DEF TypeInv
    <3>2. CASE air' # air
      <4>1. PICK kind \in Kinds : air' = air \cup {Answer(call.id, call.block, kind)}
        BY <1>6, <2>1, <3>2 DEF StartExchange
      <4>2. call.id \in Nat /\ call.block \in DOMAIN Blocks
        BY <1>0, <2>1 DEF Requests, CallInv, Waiting
      <4>3. QED  BY <1>0, <4>1, <4>2, AnswerType DEF TypeInv
    <3>3. QED  BY <3>1, <3>2
  <2>3. QED  BY <1>0, <1>6, <2>1, <2>2 DEF StartExchange, TypeInv, Cleared
<1>7. CASE OpenFails
  <2>1. Head(jobs) = call /\ call \in Requests
    BY <1>0, <1>7, JobIsCall DEF OpenFails
  <2>2. answered' \in Exchanges
    BY <1>7, <2>1, FailureType DEF OpenFails, Requests
  <2>3. QED  BY <1>0, <1>7, <2>2 DEF OpenFails, TypeInv
<1>8. CASE ReadAnswer \/ ReadFails
  <2>1. PICK e \in Exchanges, broken \in BOOLEAN :
          EndExchange(e, broken) /\ (inbox = <<>> => broken)
    BY <1>0, <1>8, ExchangeEnds
  <2>2. inbox' \in Seq(Replies)
    <3>1. CASE port' = "closed"
      <4>1. inbox' = <<>>
        BY <2>1, <3>1 DEF EndExchange
      <4>2. QED  BY <4>1
    <3>2. CASE port' # "closed"
      <4>1. inbox # <<>> /\ inbox' = Tail(inbox)
        BY <2>1, <3>2 DEF EndExchange
      <4>2. QED  BY <1>0, <4>1 DEF TypeInv
    <3>3. QED  BY <3>1, <3>2
  <2>3. QED  BY <1>0, <2>1, <2>2 DEF EndExchange, TypeInv
<1>9. CASE ClosePort
  BY <1>0, <1>9 DEF ClosePort, TypeInv
<1>10. CASE Drain
  BY <1>0, <1>10 DEF Drain, TypeInv
<1>11. CASE Cancel
  <2>1. call \in Requests
    BY <1>0, <1>11 DEF Cancel, TypeInv
  <2> DEFINE e == Exchange(call.id, call.block, None, FALSE)
  <2>2. e \in Exchanges /\ log' = Append(log, e)
    BY <1>11, <2>1 DEF Exchange, Exchanges, Requests, Cancel
  <2> HIDE DEF e
  <2>3. log' \in Seq(Exchanges)
    BY <1>0, <2>2 DEF TypeInv
  <2>4. working' \in Requests \cup {None} /\ inbox' \in Seq(Replies) /\ air' \subseteq Replies
    <3>1. CASE medium = "tcp"
      <4>1. working' = None /\ inbox' = <<>> /\ air' = {}
        BY <1>11, <3>1 DEF Cancel
      <4>2. QED  BY <4>1
    <3>2. CASE medium # "tcp"
      BY <1>0, <1>11, <3>2 DEF Cancel, TypeInv
    <3>3. QED  BY <3>1, <3>2
  <2>5. QED  BY <1>0, <1>11, <2>3, <2>4 DEF Cancel, TypeInv
<1>12. CASE Close
  BY <1>0, <1>12 DEF Close, TypeInv
<1>13. CASE NewClient
  BY <1>0, <1>13 DEF NewClient, TypeInv
<1>14. CASE \E a \in air : Arrive(a)
  <2>1. PICK a \in air : Arrive(a)
    BY <1>14
  <2> DEFINE b == [a EXCEPT !.during = IF working = None THEN 0 ELSE working.id]
  <2>2. b \in Replies
    BY <1>0 DEF TypeInv, Replies, Requests
  <2>3. inbox' = Append(inbox, b) \/ inbox' = inbox
    BY <2>1 DEF Arrive
  <2> HIDE DEF b
  <2>4. inbox' \in Seq(Replies)
    BY <1>0, <2>2, <2>3 DEF TypeInv
  <2>5. QED  BY <1>0, <2>1, <2>4 DEF Arrive, TypeInv
<1>15. QED
  BY <1>1, <1>2, <1>3, <1>4, <1>5, <1>6, <1>7, <1>8, <1>9, <1>10, <1>11, <1>12,
     <1>13, <1>14 DEF Next, Task, Worker

-----------------------------------------------------------------------------
(* Every step keeps the request, the worker, the queue and the close in step *)

ControlInv == CallInv /\ WorkInv /\ QueueInv /\ CloseInv

LEMMA ControlInit == Init => ControlInv
  BY DEF Init, ControlInv, CallInv, WorkInv, QueueInv, CloseInv, Waiting

LEMMA ControlNext == IInv /\ Next => ControlInv'
<1> SUFFICES ASSUME IInv, Next PROVE ControlInv'
  OBVIOUS
<1>0. TypeInv /\ CallInv /\ WorkInv /\ QueueInv /\ CloseInv /\ LineInv
  BY DEF IInv
<1> USE DEF profileVars, clientVars, lineVars, ControlInv
<1>1. CASE BeginPoll
  <2>1. call = None
    BY <1>0, <1>1 DEF BeginPoll, CallInv
  <2>2. QED
    BY <1>0, <1>1, <2>1 DEF BeginPoll, CallInv, WorkInv, QueueInv, CloseInv, Waiting
<1>2. CASE Ask
  <2>1. call' \in Requests /\ call' # None /\ call'.id = asked' /\ asked' > 0
        /\ call'.block \in DOMAIN Blocks
    BY <1>0, <1>2, RequestAsked DEF Ask, TypeInv
  <2>2. answered = None /\ working = None /\ ~Waiting
    BY <1>0, <1>2 DEF Ask, CallInv, WorkInv, Waiting
  <2>3. CallInv'
    BY <1>0, <1>2, <2>1, <2>2 DEF Ask, CallInv
  <2>4. WorkInv'
    BY <1>2, <2>2 DEF Ask, WorkInv
  <2>5. closing # "queued"
    BY <1>0, <1>2 DEF Ask, Admitted, CloseInv
  <2>6. jobs' = <<call'>>
    BY <1>0, <1>2, <2>2, <2>5 DEF Ask, QueueInv
  <2>7. QueueInv'
    BY <1>2, <2>1, <2>2, <2>5, <2>6 DEF Ask, QueueInv, Waiting
  <2>8. CloseInv'
    BY <1>0, <1>2 DEF Ask, CloseInv, Admitted
  <2>9. QED  BY <2>3, <2>4, <2>7, <2>8
<1>3. CASE AskClosed
  <2>1. call = None /\ answered = None /\ working = None
    BY <1>0, <1>3 DEF AskClosed, CallInv, WorkInv
  <2>2. QED
    BY <1>0, <1>3, <2>1 DEF AskClosed, CallInv, WorkInv, QueueInv, CloseInv, Waiting
<1>4. CASE Resume
  <2>1. working = None /\ ~Waiting
    BY <1>0, <1>4 DEF Resume, WorkInv, Waiting
  <2>2. QED
    BY <1>0, <1>4, <2>1 DEF Resume, CallInv, WorkInv, QueueInv, CloseInv, Waiting
<1>5. CASE FinishPoll
  BY <1>0, <1>5 DEF FinishPoll, CallInv, WorkInv, QueueInv, CloseInv, Waiting
<1>6. CASE StartExchange
  <2>1. Waiting /\ Head(jobs) = call
        /\ Tail(jobs) = IF closing = "queued" THEN <<CloseJob>> ELSE <<>>
    BY <1>0, <1>6, JobIsCall DEF StartExchange
  <2>2. working' = call' /\ answered' = None /\ ~Waiting'
    BY <1>6, <2>1 DEF StartExchange, Waiting
  <2>3. QueueInv'
    BY <1>6, <2>1, <2>2 DEF StartExchange, QueueInv
  <2>4. CloseInv'
    BY <1>0, <1>6, <2>1 DEF StartExchange, CloseInv
  <2>5. QED  BY <1>0, <1>6, <2>2, <2>3, <2>4 DEF StartExchange, CallInv, WorkInv
<1>7. CASE OpenFails
  <2>1. Waiting /\ Head(jobs) = call /\ call \in Requests
        /\ Tail(jobs) = IF closing = "queued" THEN <<CloseJob>> ELSE <<>>
    BY <1>0, <1>7, JobIsCall DEF OpenFails
  <2>2. answered' \in Exchanges /\ answered'.id = call.id /\ answered'.block = call.block
    BY <1>7, <2>1, FailureType DEF OpenFails, Requests
  <2>3. answered' # None /\ ~Waiting'
    BY <2>2, NoneAssumption DEF Waiting
  <2>4. CallInv'
    BY <1>0, <1>7, <2>1, <2>2 DEF OpenFails, CallInv, Waiting
  <2>5. QueueInv'
    BY <1>7, <2>1, <2>3 DEF OpenFails, QueueInv
  <2>6. CloseInv'
    BY <1>0, <1>7, <2>3 DEF OpenFails, CloseInv
  <2>7. QED  BY <1>0, <1>7, <2>4, <2>5, <2>6 DEF OpenFails, WorkInv
<1>8. CASE ReadAnswer \/ ReadFails
  <2>1. PICK e \in Exchanges, broken \in BOOLEAN :
          EndExchange(e, broken) /\ e.id = working.id /\ e.block = working.block
    BY <1>0, <1>8, ExchangeEnds
  <2>2. working # None /\ e # None /\ ~Waiting
    BY <1>0, <1>8, <2>1, NoneAssumption DEF ReadAnswer, ReadFails, WorkInv, Waiting
  <2>3. answered' = IF call # None THEN e ELSE answered
    BY <1>0, <2>1, <2>2 DEF EndExchange, WorkInv
  <2>4. CallInv'
    BY <1>0, <2>1, <2>2, <2>3 DEF EndExchange, CallInv, WorkInv
  <2>5. WorkInv' /\ ~Waiting'
    BY <1>0, <2>1, <2>2, <2>3 DEF EndExchange, WorkInv, Waiting
  <2>6. QueueInv'
    BY <1>0, <2>1, <2>2, <2>5 DEF EndExchange, QueueInv
  <2>7. CloseInv'
    BY <1>0, <2>1, <2>2, <2>5 DEF EndExchange, CloseInv
  <2>8. QED  BY <2>4, <2>5, <2>6, <2>7
<1>9. CASE ClosePort
  <2>1. ~Waiting /\ closing = "queued" /\ Tail(jobs) = <<>>
    BY <1>0, <1>9, JobIsClose DEF ClosePort
  <2>2. ~Waiting'
    BY <1>9, <2>1 DEF ClosePort, Waiting
  <2>3. QED
    BY <1>0, <1>9, <2>1, <2>2 DEF ClosePort, CallInv, WorkInv, QueueInv, CloseInv
<1>10. CASE Drain
  <2>1. ~Waiting /\ ~Waiting' /\ medium = "rtu"
    BY <1>0, <1>10 DEF Drain, CloseInv, Waiting
  <2>2. QED
    BY <1>0, <1>10, <2>1 DEF Drain, CallInv, WorkInv, QueueInv, CloseInv
<1>11. CASE Cancel
  <2>1. call # CloseJob
    BY <1>0, <1>11, CloseJobApart DEF Cancel
  <2>2. ~Waiting'
    BY <1>11 DEF Cancel, Waiting
  <2>3. jobs' = IF closing = "queued" THEN <<CloseJob>> ELSE <<>>
    <3>1. CASE ~Waiting
      BY <1>0, <1>11, <2>1, <3>1 DEF Cancel, Withdrawn, QueueInv
    <3>2. CASE Waiting /\ closing = "queued"
      <4>1. jobs = <<call, CloseJob>>
        BY <1>0, <3>2 DEF QueueInv
      <4>2. QED  BY <1>11, <3>2, <4>1, QueueOfTwo DEF Cancel, Withdrawn
    <3>3. CASE Waiting /\ closing # "queued"
      <4>1. jobs = <<call>>
        BY <1>0, <3>3 DEF QueueInv
      <4>2. QED  BY <1>11, <3>3, <4>1 DEF Cancel, Withdrawn
    <3>4. QED  BY <3>1, <3>2, <3>3
  <2>4. QueueInv'
    BY <1>11, <2>2, <2>3 DEF Cancel, QueueInv
  <2>5. WorkInv'
    BY <1>0, <1>11 DEF Cancel, WorkInv, TypeInv
  <2>6. CloseInv'
    BY <1>0, <1>11, <2>2 DEF Cancel, CloseInv, TypeInv
  <2>7. CallInv'
    BY <1>11 DEF Cancel, CallInv
  <2>8. QED  BY <2>4, <2>5, <2>6, <2>7
<1>12. CASE Close
  <2>1. closing' # "queued" => jobs' = jobs
    BY <1>12 DEF Close
  <2>2. QueueInv'
    <3>1. CASE medium = "tcp"
      BY <1>0, <1>12, <3>1 DEF Close, QueueInv, Waiting
    <3>2. CASE medium # "tcp" /\ Waiting
      <4>1. jobs' = Append(<<call>>, CloseJob) /\ call \in Requests
        BY <1>0, <1>12, <3>2 DEF Close, QueueInv, Waiting, TypeInv
      <4>2. call \in Requests /\ CloseJob \in Requests
        BY <4>1 DEF CloseJob, Requests
      <4>3. jobs' = <<call, CloseJob>>
        BY <4>1, <4>2, AppendTwo
      <4>4. QED  BY <1>12, <3>2, <4>3 DEF Close, QueueInv, Waiting
    <3>3. CASE medium # "tcp" /\ ~Waiting
      <4>1. jobs' = <<CloseJob>>
        BY <1>0, <1>12, <3>3 DEF Close, QueueInv
      <4>2. QED  BY <1>12, <3>3, <4>1 DEF Close, QueueInv, Waiting
    <3>4. QED  BY <3>1, <3>2, <3>3
  <2>3. CloseInv'
    BY <1>0, <1>12 DEF Close, CloseInv, TypeInv
  <2>4. QED  BY <1>0, <1>12, <2>2, <2>3 DEF Close, CallInv, WorkInv
<1>13. CASE NewClient
  <2>1. call = None /\ answered = None
    BY <1>0, <1>13 DEF NewClient, CallInv
  <2>2. working = None
    BY <1>0, <1>13, <2>1 DEF NewClient, WorkInv, CloseInv
  <2>3. QED
    BY <1>0, <1>13, <2>1, <2>2 DEF NewClient, CallInv, WorkInv, QueueInv, CloseInv, Waiting
<1>14. CASE \E a \in air : Arrive(a)
  BY <1>0, <1>14 DEF Arrive, CallInv, WorkInv, QueueInv, CloseInv, Waiting
<1>15. QED
  BY <1>1, <1>2, <1>3, <1>4, <1>5, <1>6, <1>7, <1>8, <1>9, <1>10, <1>11, <1>12,
     <1>13, <1>14 DEF Next, Task, Worker

-----------------------------------------------------------------------------
(* Every step keeps what is known of the answers                             *)

LEMMA LineNext == IInv /\ Next => LineInv'
<1> SUFFICES ASSUME IInv, Next, working' # None, NEW i \in DOMAIN inbox'
             PROVE  inbox'[i].during = working'.id
  BY DEF LineInv
<1>0. TypeInv /\ LineInv
  BY DEF IInv
<1> USE DEF profileVars, clientVars, lineVars
<1>1. CASE UNCHANGED <<working, inbox>>
  BY <1>0, <1>1 DEF LineInv
<1>2. CASE StartExchange
  BY <1>2 DEF StartExchange, Cleared
<1>3. CASE ReadAnswer \/ ReadFails
  BY <1>0, <1>3, ExchangeEnds DEF EndExchange
<1>4. CASE ClosePort
  BY <1>4 DEF ClosePort
<1>5. CASE Cancel
  <2>1. CASE medium = "tcp"
    BY <1>5, <2>1 DEF Cancel
  <2>2. CASE medium # "tcp"
    BY <1>1, <1>5, <2>2 DEF Cancel
  <2>3. QED  BY <2>1, <2>2
<1>6. CASE \E a \in air : Arrive(a)
  <2>1. PICK a \in air : Arrive(a)
    BY <1>6
  <2> DEFINE b == [a EXCEPT !.during = IF working = None THEN 0 ELSE working.id]
  <2>2. b \in Replies /\ b.during = working'.id
    BY <1>0, <2>1 DEF TypeInv, Replies, Requests, Arrive
  <2>3. inbox' = Append(inbox, b) \/ inbox' = inbox
    BY <2>1 DEF Arrive
  <2>4. working' = working
    BY <2>1 DEF Arrive
  <2> HIDE DEF b
  <2>5. CASE inbox' = Append(inbox, b)
    BY <1>0, <2>2, <2>4, <2>5 DEF LineInv, TypeInv
  <2>6. QED  BY <1>1, <2>3, <2>4, <2>5
<1>7. QED
  BY <1>1, <1>2, <1>3, <1>4, <1>5, <1>6
  DEF Next, Task, Worker, BeginPoll, Ask, AskClosed, Resume, FinishPoll, OpenFails, Drain,
      Close, NewClient

LEMMA AnswerNext == IInv /\ Next => AnswerInv'
<1> SUFFICES ASSUME IInv, Next PROVE AnswerInv'
  OBVIOUS
<1>0. TypeInv /\ CallInv /\ QueueInv /\ LineInv /\ AnswerInv
  BY DEF IInv
<1> USE DEF profileVars, clientVars, lineVars
<1>1. CASE UNCHANGED <<answered, log>>
  BY <1>0, <1>1 DEF AnswerInv
<1>2. CASE BeginPoll
  BY <1>0, <1>2 DEF BeginPoll, AnswerInv
<1>3. CASE OpenFails
  <2>1. Head(jobs).id \in Nat /\ Head(jobs).block \in Nat
    BY <1>0, <1>3, JobIsCall DEF OpenFails, Requests
  <2>2. QED  BY <1>0, <1>3, <2>1, FailureType DEF OpenFails, AnswerInv
<1>4. CASE ReadAnswer \/ ReadFails
  BY <1>0, <1>4, ExchangeEnds DEF EndExchange, AnswerInv
<1>5. CASE Resume
  <2>1. answered \in Exchanges /\ Genuine(answered) /\ log' = Append(log, answered)
    BY <1>0, <1>5 DEF Resume, Told, TypeInv, AnswerInv
  <2>2. answered' = None
    BY <1>5 DEF Resume
  <2>3. QED  BY <1>0, <2>1, <2>2 DEF TypeInv, AnswerInv
<1>6. CASE Cancel
  <2> DEFINE e == Exchange(call.id, call.block, None, FALSE)
  <2>1. e \in Exchanges /\ Genuine(e) /\ log' = Append(log, e)
    BY <1>0, <1>6 DEF Cancel, Exchange, Exchanges, Requests, Genuine, TypeInv
  <2>2. answered' = None
    BY <1>6 DEF Cancel
  <2> HIDE DEF e
  <2>3. QED  BY <1>0, <2>1, <2>2 DEF TypeInv, AnswerInv
<1>7. QED
  BY <1>1, <1>2, <1>3, <1>4, <1>5, <1>6
  DEF Next, Task, Worker, Ask, AskClosed, FinishPoll, StartExchange, ClosePort, Drain, Close,
      NewClient, Arrive

LEMMA WordsNext == IInv /\ Next => WordsInv'
<1> SUFFICES ASSUME IInv, Next PROVE WordsInv'
  OBVIOUS
<1>0. TypeInv /\ AnswerInv /\ WordsInv
  BY DEF IInv
<1> USE DEF profileVars, clientVars, lineVars
<1>1. CASE UNCHANGED <<words, metadata>>
  BY <1>0, <1>1 DEF WordsInv, Fits
<1>2. CASE BeginPoll
  BY <1>0, <1>2 DEF BeginPoll, WordsInv, Fits
<1>3. CASE AskClosed
  <2>1. PICK b \in NextIn(plan) : Apply(Failure(0, b))
    BY <1>3 DEF AskClosed
  <2>2. b \in Nat
    BY <1>0, <2>1, NextIsPlanned, BlocksAreNumbered DEF TypeInv
  <2>3. Genuine(Failure(0, b))
    BY <2>2, FailureType
  <2>4. QED  BY <1>0, <2>1, <2>3, AppliedFits DEF WordsInv, Fits
<1>4. CASE Resume
  <2>1. Apply(answered) /\ Genuine(answered)
    BY <1>0, <1>4 DEF Resume, AnswerInv
  <2>2. QED  BY <1>0, <2>1, AppliedFits DEF WordsInv, Fits
<1>5. QED
  BY <1>1, <1>2, <1>3, <1>4
  DEF Next, Task, Worker, Ask, FinishPoll, StartExchange, OpenFails, ReadAnswer, ReadFails,
      EndExchange, ClosePort, Drain, Cancel, Close, NewClient, Arrive

LEMMA RecordNext == IInv /\ Next => RecordedOnce'
<1> SUFFICES ASSUME IInv, Next PROVE RecordedOnce'
  OBVIOUS
<1>0. TypeInv /\ CallInv /\ WorkInv /\ RecordedOnce
  BY DEF IInv
<1> USE DEF profileVars, clientVars, lineVars
<1>1. CASE UNCHANGED <<outcome, call, asked, log, first>>
  BY <1>0, <1>1 DEF RecordedOnce
<1>2. CASE BeginPoll
  <2>1. call = None
    BY <1>0, <1>2 DEF BeginPoll, CallInv
  <2>2. QED  BY <1>0, <1>2, <2>1 DEF BeginPoll, RecordedOnce, TypeInv
<1>3. CASE Ask
  <2>1. call' # None
    BY <1>0, <1>3, RequestAsked
  <2>2. QED  BY <1>0, <1>3, <2>1 DEF Ask, RecordedOnce, TypeInv
<1>4. CASE AskClosed
  BY <1>0, <1>4 DEF AskClosed, RecordedOnce
<1>5. CASE FinishPoll
  BY <1>0, <1>5 DEF FinishPoll, RecordedOnce
<1>6. CASE Resume \/ Cancel
  <2>1. PICK e \in Exchanges : log' = Append(log, e) /\ e.id = asked
    <3>1. CASE Resume
      BY <1>0, <3>1 DEF Resume, Told, TypeInv, CallInv
    <3>2. CASE Cancel
      <4>1. Exchange(call.id, call.block, None, FALSE) \in Exchanges
        BY <1>0, <3>2 DEF Cancel, Exchange, Exchanges, Requests, TypeInv
      <4>2. QED  BY <1>0, <3>2, <4>1 DEF Cancel, Exchange, CallInv
    <3>3. QED  BY <1>6, <3>1, <3>2
  <2>2. call # None /\ call' = None /\ outcome # "none" /\ UNCHANGED <<asked, first>>
    BY <1>0, <1>6 DEF Resume, Cancel, CallInv
  <2>3. Len(log) = asked - first /\ \A i \in DOMAIN log : log[i].id = first + i - 1
    BY <1>0, <2>2 DEF RecordedOnce, TypeInv
  <2>4. Len(log') = Len(log) + 1 /\ DOMAIN log' = 1 .. Len(log')
    BY <1>0, <2>1 DEF TypeInv
  <2>5. ASSUME NEW i \in DOMAIN log' PROVE log'[i].id = first + i - 1
    BY <1>0, <2>1, <2>3, <2>4 DEF TypeInv
  <2>6. QED  BY <1>0, <2>2, <2>3, <2>4, <2>5 DEF RecordedOnce, TypeInv
<1>7. CASE NewClient
  BY <1>7 DEF NewClient, RecordedOnce
<1>8. QED
  BY <1>1, <1>2, <1>3, <1>4, <1>5, <1>6, <1>7
  DEF Next, Task, Worker, StartExchange, OpenFails, ReadAnswer, ReadFails, EndExchange,
      ClosePort, Drain, Close, Arrive

-----------------------------------------------------------------------------
(* The theorems                                                              *)

LEMMA Inductive == Spec => []IInv
<1>1. Init => IInv
  <2>1. Init => LineInv /\ AnswerInv /\ WordsInv /\ RecordedOnce
    BY DEF Init, LineInv, AnswerInv, WordsInv, Fits, NoAnswers, RecordedOnce
  <2>2. QED  BY <2>1, TypeInit, ControlInit DEF IInv, ControlInv
<1>2. IInv /\ [Next]_vars => IInv'
  <2> SUFFICES ASSUME IInv, [Next]_vars PROVE IInv'
    OBVIOUS
  <2>1. CASE Next
    BY <2>1, TypeNext, ControlNext, LineNext, AnswerNext, WordsNext, RecordNext
    DEF IInv, ControlInv
  <2>2. CASE UNCHANGED vars
    <3> USE <2>2 DEF vars, profileVars, clientVars, lineVars, IInv
    <3>1. TypeInv' /\ CallInv' /\ WorkInv' /\ QueueInv' /\ CloseInv'
      BY DEF TypeInv, CallInv, WorkInv, QueueInv, CloseInv, Waiting
    <3>2. LineInv' /\ AnswerInv' /\ WordsInv' /\ RecordedOnce'
      BY DEF LineInv, AnswerInv, WordsInv, Fits, RecordedOnce
    <3>3. QED  BY <3>1, <3>2
  <2>3. QED  BY <2>1, <2>2
<1>3. QED  BY <1>1, <1>2, PTL DEF Spec

\* When close() of the RTU client has returned, the port is closed, the worker
\* thread reads for nobody and nothing is queued that would open it again,
\* whatever the poll beside it was doing (transports/modbus.py:200-206).
THEOREM ClosedForGood == Spec => []PortReleased
<1>1. IInv => PortReleased
  BY DEF IInv, PortReleased, CloseInv, QueueInv
<1>2. QED  BY <1>1, Inductive, PTL

\* Every answer a poll is built from has the function and the length its block
\* was asked with, and was received during its own exchange, however late the
\* answers of others came (transports/modbus.py:259-301).
THEOREM AnswersOfTheirOwn == Spec => []AnswersBelong
<1>1. IInv => AnswersBelong
  BY DEF IInv, AnswersBelong, WordsInv, Fits, AnswerInv, Genuine, Parsed
<1>2. QED  BY <1>1, Inductive, PTL

\* The observer hears exactly once, and in order, of each exchange that ended,
\* failed and cancelled ones included (transports/modbus.py:91-151).
THEOREM ExchangesToldOnce == Spec => []RecordedOnce
<1>1. IInv => RecordedOnce
  BY DEF IInv
<1>2. QED  BY <1>1, Inductive, PTL

-----------------------------------------------------------------------------
(* The replay of a capture                                                   *)

ReplayStep(known, record, s, n) ==
  IF n = 0 THEN [plan |-> Plan(known), words |-> known, outcome |-> "ok"]
  ELSE Matched(s[n - 1], record[n])
ReplaysBy(known, record, s) == s = [n \in 0 .. Len(record) |-> ReplayStep(known, record, s, n)]

\* How far a poll came that has met no error it could not go on from, or one.
Reached == [plan |-> plan, words |-> words,
            outcome |-> IF outcome = "failed" THEN "failed" ELSE "ok"]

\* The capture so far, replayed, stands where the poll does.
ReplayInv ==
  /\ call # None => call.block \in NextIn(plan)
  /\ outcome \in {"ok", "failed"} => plan = {}
  /\ outcome \in {"running", "ok", "failed"} /\ ~refused =>
       \E s : ReplaysBy(before, log, s) /\ s[Len(log)] = Reached

LEMMA LeastNumber ==
  ASSUME NEW S \in SUBSET Nat, S # {}
  PROVE  \E m \in S : \A n \in S : m <= n
<1>1. PICK m \in S : \A n \in S : ~(<<n, m>> \in OpToRel(<, Nat))
  BY NatLessThanWellFounded, WFMin
<1>2. \A n \in S : ~(n < m)
  BY <1>1 DEF OpToRel
<1>3. QED  BY <1>2

\* A replay that comes to an end with nothing left to read is the replay.
LEMMA ReplayIs ==
  ASSUME NEW known, NEW record, Len(record) \in Nat, NEW s, ReplaysBy(known, record, s),
         s[Len(record)].plan = {}
  PROVE  Replay(known, record) = s[Len(record)]
<1> DEFINE N == Len(record)
           a == CHOOSE f : ReplaysBy(known, record, f)
           bad == {n \in 0 .. N : a[n] # s[n]}
<1>1. Replay(known, record) = IF a[N].plan # {} THEN [a[N] EXCEPT !.outcome = "exhausted"] ELSE a[N]
  BY Zenon DEF Replay, ReplaysBy, ReplayStep
<1>2. ReplaysBy(known, record, a)
  BY Zenon
<1> HIDE DEF a
<1>3. ASSUME NEW n \in 0 .. N
      PROVE  a[n] = ReplayStep(known, record, a, n) /\ s[n] = ReplayStep(known, record, s, n)
  BY <1>2 DEF ReplaysBy
<1>4. bad = {}
  <2> SUFFICES ASSUME bad # {} PROVE FALSE
    OBVIOUS
  <2>1. bad \in SUBSET Nat
    OBVIOUS
  <2>2. PICK n \in bad : \A m \in bad : n <= m
    <3> HIDE DEF bad
    <3>1. QED  BY <2>1, LeastNumber
  <2>3. n \in 0 .. N /\ a[n] # s[n]
    OBVIOUS
  <2>4. n # 0
    BY <1>3, <2>3 DEF ReplayStep
  <2>5. n - 1 \in 0 .. N /\ ~(n <= n - 1)
    BY <2>3, <2>4
  <2>6. n - 1 \notin bad
    <3> HIDE DEF bad
    <3>1. QED  BY <2>2, <2>5
  <2>7. a[n - 1] = s[n - 1]
    BY <2>5, <2>6
  <2>8. a[n] = s[n]
    BY <1>3, <2>3, <2>4, <2>7 DEF ReplayStep
  <2>9. QED  BY <2>3, <2>8
<1>5. a[N] = s[N]
  BY <1>4
<1>6. QED  BY <1>1, <1>5

\* One more exchange in the capture is one more step of its replay.
LEMMA ReplayGoesOn ==
  ASSUME NEW known, NEW record \in Seq(Exchanges), NEW e \in Exchanges,
         NEW s, ReplaysBy(known, record, s)
  PROVE  \E t : /\ ReplaysBy(known, Append(record, e), t)
                /\ t[Len(Append(record, e))] = Matched(s[Len(record)], e)
<1> DEFINE N == Len(record)
           t == [n \in 0 .. N + 1 |-> IF n = N + 1 THEN Matched(s[N], e) ELSE s[n]]
           longer == Append(record, e)
<1>1. N \in Nat /\ Len(longer) = N + 1
  OBVIOUS
<1>2. \A n \in 1 .. N : longer[n] = record[n]
  OBVIOUS
<1>3. longer[N + 1] = e
  OBVIOUS
<1> HIDE DEF N, longer
<1>4. ASSUME NEW n \in 0 .. N PROVE s[n] = ReplayStep(known, record, s, n)
  BY DEF ReplaysBy, N
<1>5. ASSUME NEW n \in 0 .. N + 1 PROVE t[n] = ReplayStep(known, longer, t, n)
  <2>1. CASE n = 0
    <3>1. t[n] = s[n]
      BY <1>1, <2>1
    <3>2. s[n] = ReplayStep(known, record, s, n)
      BY <1>1, <1>4, <2>1
    <3>3. QED  BY <2>1, <3>1, <3>2 DEF ReplayStep
  <2>2. CASE n \in 1 .. N
    <3>1. t[n] = s[n] /\ t[n - 1] = s[n - 1]
      BY <1>1, <2>2
    <3>2. s[n] = ReplayStep(known, record, s, n)
      BY <1>1, <1>4, <2>2
    <3>3. longer[n] = record[n] /\ n # 0
      BY <1>2, <2>2
    <3> HIDE DEF t
    <3>4. QED  BY <3>1, <3>2, <3>3 DEF ReplayStep
  <2>3. CASE n = N + 1
    <3>1. t[n] = Matched(s[N], e) /\ t[n - 1] = s[N] /\ n # 0 /\ longer[n] = e
      BY <1>1, <1>3, <2>3
    <3> HIDE DEF t
    <3>2. QED  BY <3>1 DEF ReplayStep
  <2>4. QED  BY <1>1, <2>1, <2>2, <2>3
<1>6. t = [n \in 0 .. N + 1 |-> ReplayStep(known, longer, t, n)]
  <2>1. t = [n \in 0 .. N + 1 |-> t[n]]
    OBVIOUS
  <2> HIDE DEF t
  <2>2. QED  BY <1>5, <2>1
<1>7. t[N + 1] = Matched(s[N], e)
  BY <1>1
<1> HIDE DEF t
<1>8. ReplaysBy(known, longer, t)
  BY <1>1, <1>6 DEF ReplaysBy
<1>9. QED  BY <1>1, <1>7, <1>8 DEF longer, N

\* A block read does to a replay what it does to the poll.
LEMMA TookAlike ==
  ASSUME NEW p, NEW w, NEW e
  PROVE  LET live == Took([plan |-> p, words |-> w, outcome |-> "running"], e)
             replayed == Took([plan |-> p, words |-> w, outcome |-> "ok"], e)
         IN /\ replayed.plan = live.plan /\ replayed.words = live.words
            /\ replayed.outcome = IF live.outcome = "failed" THEN "failed" ELSE "ok"
            /\ replayed = [plan |-> live.plan, words |-> live.words, outcome |-> replayed.outcome]
            /\ live.outcome \in {"running", "failed"}
            /\ live.outcome = "failed" => live.plan = {}
<1>1. CASE Parsed(e)
  BY <1>1 DEF Took
<1>2. CASE ~Parsed(e) /\ Block(e.block).optional
  BY <1>2 DEF Took
<1>3. CASE ~Parsed(e) /\ ~Block(e.block).optional
  BY <1>3 DEF Took
<1>4. QED  BY <1>1, <1>2, <1>3

LEMMA AppliedAlike ==
  ASSUME NEW e, Apply(e), outcome = "running"
  PROVE  /\ outcome' \in {"running", "failed"}
         /\ outcome' = "failed" => plan' = {}
         /\ e.block \in NextIn(plan) => Matched(Reached, e) = Reached'
<1> DEFINE live == Took([plan |-> plan, words |-> words, outcome |-> "running"], e)
           replayed == Took([plan |-> plan, words |-> words, outcome |-> "ok"], e)
<1>1. plan' = live.plan /\ words' = live.words /\ outcome' = live.outcome
  BY DEF Apply
<1>2. /\ replayed = [plan |-> live.plan, words |-> live.words, outcome |-> replayed.outcome]
      /\ replayed.outcome = IF live.outcome = "failed" THEN "failed" ELSE "ok"
      /\ live.outcome \in {"running", "failed"}
      /\ live.outcome = "failed" => live.plan = {}
  BY TookAlike
<1>3. e.block \in NextIn(plan) => Matched(Reached, e) = replayed
  BY DEF Matched, Reached
<1> HIDE DEF live, replayed
<1>4. replayed = Reached'
  BY <1>1, <1>2 DEF Reached
<1>5. QED  BY <1>1, <1>2, <1>3, <1>4

LEMMA ReplayInit == Init => ReplayInv
  BY DEF Init, ReplayInv

LEMMA ReplayNext == IInv /\ ReplayInv /\ [Next]_vars => ReplayInv'
<1> SUFFICES ASSUME IInv, ReplayInv, [Next]_vars PROVE ReplayInv'
  OBVIOUS
<1>0. TypeInv /\ CallInv
  BY DEF IInv
<1> USE DEF profileVars, clientVars, lineVars
<1>1. CASE UNCHANGED <<outcome, plan, words, before, refused, log, call>>
  BY <1>1 DEF ReplayInv, Reached
<1>2. CASE BeginPoll
  <2>1. call' = None /\ outcome' = "running" /\ log' = <<>>
        /\ before' = metadata /\ words' = metadata /\ plan' = Plan(metadata)
    BY <1>0, <1>2 DEF BeginPoll, CallInv
  <2> DEFINE s == [n \in 0 .. 0 |-> [plan |-> Plan(metadata), words |-> metadata, outcome |-> "ok"]]
  <2>2. Len(log') = 0
    BY <2>1
  <2>3. ReplaysBy(metadata, log', s)
    <3>1. \A n \in 0 .. 0 : ReplayStep(metadata, log', s, n)
                            = [plan |-> Plan(metadata), words |-> metadata, outcome |-> "ok"]
      BY DEF ReplayStep
    <3>2. QED  BY <2>2, <3>1 DEF ReplaysBy
  <2>4. s[0] = Reached'
    BY <2>1 DEF Reached
  <2> HIDE DEF s
  <2>5. QED  BY <2>1, <2>2, <2>3, <2>4 DEF ReplayInv
<1>3. CASE Ask
  <2>1. call'.block \in NextIn(plan) /\ outcome = "running"
    BY <1>3 DEF Ask
  <2>2. QED  BY <1>3, <2>1 DEF Ask, ReplayInv, Reached
<1>4. CASE AskClosed
  <2>1. PICK b \in NextIn(plan) : Apply(Failure(0, b))
    BY <1>4 DEF AskClosed
  <2>2. outcome' \in {"running", "failed"} /\ (outcome' = "failed" => plan' = {})
    BY <1>4, <2>1, AppliedAlike DEF AskClosed
  <2>3. QED  BY <1>4, <2>2 DEF AskClosed, ReplayInv
<1>5. CASE FinishPoll
  BY <1>5 DEF FinishPoll, ReplayInv, Reached
<1>6. CASE Resume
  <2>1. /\ Apply(answered) /\ answered \in Exchanges /\ answered.block \in NextIn(plan)
        /\ log' = Append(log, answered) /\ outcome = "running" /\ call' = None
        /\ UNCHANGED <<before, refused>>
    BY <1>0, <1>6 DEF Resume, Told, TypeInv, CallInv, ReplayInv
  <2>2. /\ outcome' \in {"running", "failed"} /\ (outcome' = "failed" => plan' = {})
        /\ Matched(Reached, answered) = Reached'
    BY <2>1, AppliedAlike
  <2>3. ASSUME ~refused
        PROVE  \E t : ReplaysBy(before, log', t) /\ t[Len(log')] = Reached'
    <3>1. PICK s : ReplaysBy(before, log, s) /\ s[Len(log)] = Reached
      BY <2>1, <2>3 DEF ReplayInv
    <3>2. log \in Seq(Exchanges)
      BY <1>0 DEF TypeInv
    <3>3. \E t : /\ ReplaysBy(before, Append(log, answered), t)
                 /\ t[Len(Append(log, answered))] = Matched(s[Len(log)], answered)
      BY <2>1, <3>1, <3>2, ReplayGoesOn
    <3>4. QED  BY <2>1, <2>2, <3>1, <3>3
  <2>4. QED  BY <2>1, <2>2, <2>3 DEF ReplayInv
<1>7. CASE Cancel
  BY <1>7 DEF Cancel, ReplayInv
<1>8. CASE NewClient
  <2>1. call' = None /\ outcome' = "none"
    BY <1>0, <1>8 DEF NewClient, CallInv
  <2>2. QED  BY <2>1 DEF ReplayInv
<1>9. CASE UNCHANGED vars
  BY <1>1, <1>9 DEF vars
<1>10. QED
  BY <1>1, <1>2, <1>3, <1>4, <1>5, <1>6, <1>7, <1>8, <1>9
  DEF Next, Task, Worker, StartExchange, OpenFails, ReadAnswer, ReadFails, EndExchange,
      ClosePort, Drain, Close, Arrive

\* A capture holds every exchange of its poll once and in order, and replayed
\* through the profile as it was when the poll began, it ends as the poll did
\* with the same words, whichever blocks failed (capture/replay.py:20-68).
THEOREM CaptureReplays == Spec => []Replayed
<1>1. IInv /\ ReplayInv => Replayed
  <2> SUFFICES ASSUME IInv, ReplayInv, outcome \in {"ok", "failed"}, ~refused
               PROVE  Replay(before, log).outcome = outcome /\ Replay(before, log).words = words
    BY DEF Replayed, IInv
  <2>1. PICK s : ReplaysBy(before, log, s) /\ s[Len(log)] = Reached
    BY DEF ReplayInv
  <2>2. Len(log) \in Nat
    BY DEF IInv, TypeInv
  <2>3. Reached.plan = {} /\ Reached.words = words /\ Reached.outcome = outcome
    BY DEF ReplayInv, Reached
  <2>4. Replay(before, log) = s[Len(log)]
    BY <2>1, <2>2, <2>3, ReplayIs
  <2>5. QED  BY <2>1, <2>3, <2>4
<1>2. IInv /\ ReplayInv /\ [Next]_vars => ReplayInv'
  BY ReplayNext
<1>3. QED  BY <1>1, <1>2, ReplayInit, Inductive, PTL DEF Spec

=============================================================================
