---------------------------- MODULE PollSession ----------------------------
(* A profile polled over a read-only Modbus client: the blocks a poll reads  *)
(* and the metadata it keeps, the RTU client's worker thread and serial      *)
(* line, the TCP client's connection of one request, close() beside a        *)
(* running exchange, and the record a capture can be replayed from.          *)
EXTENDS Integers, Sequences, FiniteSets, SequencesExt

CONSTANTS Media,        \* the clients considered: "rtu", "tcp"
          Blocks,       \* sequence of [function, count, cached, optional]
          MaxPolls,     \* bound: polls over all clients
          MaxClients,   \* bound: clients opened one after the other
          MaxInAir,     \* bound: answers under way
          None

ASSUME PollSessionAssumption ==
  /\ Media \subseteq {"rtu", "tcp"}
  /\ Blocks \in Seq([function : Nat, count : Nat, cached : BOOLEAN, optional : BOOLEAN])
  /\ MaxPolls \in Nat /\ MaxClients \in Nat \ {0} /\ MaxInAir \in Nat

VARIABLES
  medium,
  outcome,    \* of the poll: "none", "running", "ok", "failed", "cancelled"
  plan,       \* the blocks the running poll has still to read
  words,      \* block -> the answer its words come from
  metadata,   \* CatalogProfile: cached block -> answer
  before,     \* metadata when the poll began
  log,        \* the exchanges the observer was told of in this poll
  refused,    \* this poll met a closed client
  asked,      \* exchanges begun
  first,      \* the first exchange of this poll
  call,       \* the awaiting request: its block and exchange, or None
  answered,   \* the worker's result for it, not yet taken
  closing,    \* close(): "none", "queued", "draining", "done"
  jobs,       \* the executor's queue: exchanges, and the close
  working,    \* the exchange the worker thread reads an answer for, or None
  port,       \* the serial port or the connection: "open", "closed"
  inbox,      \* answers received and not read
  air,        \* answers under way
  polls, clients

profileVars == <<outcome, plan, words, metadata, before, refused, first, polls>>
clientVars == <<medium, closing, clients>>
lineVars == <<working, port, inbox, air>>
vars == <<profileVars, clientVars, lineVars, log, asked, call, answered, jobs>>

Block(b) == Blocks[b]
CloseJob == [id |-> 0, block |-> 0]

-----------------------------------------------------------------------------
(* Answers. A device may answer, report an exception, garble its frame or    *)
(* stay silent.                                                              *)
Answer(id, b, kind) ==
  [id |-> id, function |-> Block(b).function, count |-> Block(b).count,
   kind |-> kind, during |-> None]

Kinds == {"data", "exception", "garbled"}

Requests == [id : Nat, block : Nat]
Replies == [id : Nat, function : Nat, count : Nat, kind : Kinds, during : Nat \cup {None}]
Exchanges == [id : Nat, block : Nat, answer : Replies \cup {None}, error : BOOLEAN]

ASSUME NoneAssumption == None \notin Requests /\ None \notin Replies /\ None \notin Exchanges

\* An exchange as the observer records it: its answer, or its error.
Exchange(id, b, answer, error) == [id |-> id, block |-> b, answer |-> answer, error |-> error]
Failure(id, b) == Exchange(id, b, None, TRUE)

\* mutant: the function code of the answer is not compared
AnyFunction(b, a) == TRUE
SameFunction(b, a) == a.function = Block(b).function

\* The frame checks: unit, CRC or header, exception, function.
Checked(id, b, a) ==
  IF a.kind = "data" /\ SameFunction(b, a)
  THEN Exchange(id, b, a, FALSE)
  ELSE Failure(id, b)

\* parse_register_response, on what the exchange returned.
Parsed(e) ==
  /\ ~e.error
  /\ e.answer # None
  /\ e.answer.count = Block(e.block).count

-----------------------------------------------------------------------------
(* CatalogProfile.poll: metadata it does not hold yet, then the live blocks. *)
Cached == {b \in DOMAIN Blocks : Block(b).cached}

Plan(known) == DOMAIN Blocks \ (Cached \cap DOMAIN known)

\* The block a poll reads next: metadata first, then as the profile lists them.
Before(b, c) == IF (b \in Cached) = (c \in Cached) THEN b < c ELSE b \in Cached
NextIn(blocks) == {b \in blocks : \A c \in blocks \ {b} : Before(b, c)}

\* One block read: words are taken, an optional block may fail.
Took(state, e) ==
  CASE Parsed(e) ->
         [state EXCEPT !.plan = @ \ {e.block},
                       !.words = [b \in DOMAIN @ \cup {e.block} |->
                                    IF b = e.block THEN e.answer ELSE @[b]]]
    [] ~Parsed(e) /\ Block(e.block).optional -> [state EXCEPT !.plan = @ \ {e.block}]
    [] OTHER -> [state EXCEPT !.plan = {}, !.outcome = "failed"]

\* ReplayModbusClient under the same poll: each request takes the next
\* recorded exchange and must match it.
Matched(state, e) ==
  IF e.block \notin NextIn(state.plan)
  THEN [state EXCEPT !.plan = {}, !.outcome = "mismatch"]
  ELSE Took(state, e)

Replay(known, record) ==
  LET upTo[n \in 0 .. Len(record)] ==
        IF n = 0 THEN [plan |-> Plan(known), words |-> known, outcome |-> "ok"]
        ELSE Matched(upTo[n - 1], record[n])
      end == upTo[Len(record)]
  IN IF end.plan # {} THEN [end EXCEPT !.outcome = "exhausted"] ELSE end

-----------------------------------------------------------------------------
BeginPoll ==
  /\ outcome \in {"none", "ok"} /\ closing = "none" /\ polls < MaxPolls
  /\ outcome' = "running"
  /\ plan' = Plan(metadata)
  /\ words' = metadata
  /\ before' = metadata
  /\ refused' = FALSE
  /\ first' = asked + 1
  /\ polls' = polls + 1
  /\ log' = <<>>
  /\ UNCHANGED <<metadata, clientVars, lineVars, asked, call, answered, jobs>>

\* mutant: every block read is kept as metadata
KeepAll(read) == read
KeepCached(read) == [b \in DOMAIN read \cap Cached |-> read[b]]

\* The block's reading goes into the poll, and a cached one into the profile.
Apply(e) ==
  LET after == Took([plan |-> plan, words |-> words, outcome |-> outcome], e)
  IN /\ plan' = after.plan
     /\ words' = after.words
     /\ outcome' = after.outcome
     /\ metadata' = KeepCached(after.words)

FinishPoll ==
  /\ outcome = "running" /\ call = None /\ plan = {}
  /\ outcome' = "ok"
  /\ UNCHANGED <<plan, words, metadata, before, refused, first, polls, clientVars,
                 lineVars, log, asked, call, answered, jobs>>

\* mutant: a closed client accepts another request
Always == TRUE
Admitted == medium = "tcp" \/ closing = "none"

\* _request of the RTU client up to its wait for the worker thread, and of the
\* TCP client up to the first wait for its connection.
Ask ==
  /\ outcome = "running" /\ call = None /\ Admitted
  /\ asked' = asked + 1
  /\ \E b \in NextIn(plan) : call' = [id |-> asked + 1, block |-> b]
  /\ jobs' = Append(jobs, call')
  /\ UNCHANGED <<profileVars, clientVars, lineVars, log, answered>>

\* "RTU client is closed": an error like any other to the poll.
AskClosed ==
  /\ outcome = "running" /\ call = None /\ ~Admitted
  /\ refused' = TRUE
  /\ \E b \in NextIn(plan) : Apply(Failure(0, b))
  /\ UNCHANGED <<before, first, polls, clientVars, lineVars, log, asked, call, answered, jobs>>

\* mutant: the line is not cleared before a request
Kept == inbox
Cleared == <<>>

\* The exchange begins: the port is opened if need be, the line cleared, the
\* request written, and the device may answer it.
StartExchange ==
  /\ working = None /\ jobs # <<>> /\ Head(jobs) # CloseJob
  /\ jobs' = Tail(jobs)
  /\ working' = Head(jobs)
  /\ port' = "open"
  /\ inbox' = Cleared
  /\ \/ air' = air
     \/ \E kind \in Kinds :
          /\ Cardinality(air) < MaxInAir
          /\ air' = air \cup {Answer(Head(jobs).id, Head(jobs).block, kind)}
  /\ UNCHANGED <<profileVars, clientVars, log, asked, call, answered>>

\* The port or the connection cannot be opened.
OpenFails ==
  /\ working = None /\ jobs # <<>> /\ Head(jobs) # CloseJob /\ port = "closed"
  /\ jobs' = Tail(jobs)
  /\ answered' = Failure(Head(jobs).id, Head(jobs).block)
  /\ UNCHANGED <<profileVars, clientVars, lineVars, log, asked, call>>

\* An answer reaches an open port; a TCP answer only its own connection.
Arrive(a) ==
  /\ air' = air \ {a}
  /\ inbox' = IF port = "open"
              THEN Append(inbox, [a EXCEPT !.during = IF working = None THEN 0 ELSE working.id])
              ELSE inbox
  /\ UNCHANGED <<profileVars, clientVars, working, port, log, asked, call, answered, jobs>>

\* The end of the worker's exchange. The serial port stays open unless the
\* reading timed out or broke; the connection of one request never does.
EndExchange(e, broken) ==
  /\ answered' = IF call # None /\ call.id = e.id THEN e ELSE answered
  /\ working' = None
  /\ port' = IF broken \/ medium = "tcp" THEN "closed" ELSE port
  /\ inbox' = IF port' = "closed" THEN <<>> ELSE Tail(inbox)
  /\ air' = IF medium = "tcp" THEN {} ELSE air
  /\ UNCHANGED <<profileVars, clientVars, log, asked, call, jobs>>

ReadAnswer ==
  /\ working # None /\ inbox # <<>>
  /\ EndExchange(Checked(working.id, working.block, Head(inbox)), FALSE)

\* mutant: a silent device is waited for without a deadline
Endless == FALSE
PastDeadline == inbox = <<>>

ReadFails ==
  /\ working # None /\ PastDeadline
  /\ EndExchange(Failure(working.id, working.block), TRUE)

\* mutant: only an exchange that succeeded is told to the observer
ToldIfGood(e) == IF e.error THEN log ELSE Append(log, e)
Told(e) == Append(log, e)

\* The request's task goes on with the result.
Resume ==
  /\ call # None /\ answered # None
  /\ log' = Told(answered)
  /\ Apply(answered)
  /\ call' = None
  /\ answered' = None
  /\ UNCHANGED <<before, refused, first, polls, clientVars, lineVars, asked, jobs>>

\* The queue without the task's own request, which nothing comes before.
Withdrawn == IF jobs # <<>> /\ Head(jobs) = call THEN Tail(jobs) ELSE jobs

\* The task is cancelled (Ctrl-C in the CLI): the observer hears of an
\* exchange without an error; a job the worker has begun runs on, a TCP
\* connection is closed.
Cancel ==
  /\ call # None
  /\ outcome' = "cancelled"
  /\ log' = Append(log, Exchange(call.id, call.block, None, FALSE))
  /\ call' = None
  /\ answered' = None
  /\ jobs' = Withdrawn
  /\ IF medium = "tcp"
     THEN working' = None /\ port' = "closed" /\ inbox' = <<>> /\ air' = {}
     ELSE UNCHANGED lineVars
  /\ UNCHANGED <<plan, words, metadata, before, refused, first, polls, clientVars, asked>>

\* close(), by the task after its poll or by stop() beside it: the RTU client
\* queues the closing of the port behind the exchange that runs.
Close ==
  /\ closing = "none"
  /\ IF medium = "tcp"
     THEN closing' = "done" /\ UNCHANGED jobs
     ELSE closing' = "queued" /\ jobs' = Append(jobs, CloseJob)
  /\ UNCHANGED <<profileVars, medium, clients, lineVars, log, asked, call, answered>>

ClosePort ==
  /\ working = None /\ jobs # <<>> /\ Head(jobs) = CloseJob
  /\ jobs' = Tail(jobs)
  /\ closing' = "draining"
  /\ port' = "closed" /\ inbox' = <<>>
  /\ UNCHANGED <<profileVars, medium, clients, working, air, log, asked, call, answered>>

\* executor.shutdown(wait=True, cancel_futures=True)
Drain ==
  /\ closing = "draining" /\ working = None
  /\ jobs' = <<>>
  /\ closing' = "done"
  /\ UNCHANGED <<profileVars, medium, clients, lineVars, log, asked, call, answered>>

\* The watcher's next poll of the endpoint makes a client of its own, with
\* the profile and the line as they are.
NewClient ==
  /\ closing = "done" /\ outcome # "running" /\ clients < MaxClients
  /\ clients' = clients + 1
  /\ closing' = "none"
  /\ outcome' = "none"
  /\ UNCHANGED <<medium, plan, words, metadata, before, refused, first, polls,
                 lineVars, log, asked, call, answered, jobs>>

NoAnswers == [b \in {} |-> None]

Init ==
  /\ medium \in Media
  /\ outcome = "none" /\ plan = {} /\ log = <<>> /\ refused = FALSE
  /\ words = NoAnswers /\ metadata = NoAnswers /\ before = NoAnswers
  /\ asked = 0 /\ first = 1 /\ call = None /\ answered = None
  /\ closing = "none" /\ jobs = <<>> /\ working = None /\ port = "closed"
  /\ inbox = <<>> /\ air = {}
  /\ polls = 0 /\ clients = 1

Task == Ask \/ AskClosed \/ Resume \/ FinishPoll
Worker == StartExchange \/ OpenFails \/ ReadAnswer \/ ReadFails \/ ClosePort \/ Drain

Next ==
  \/ BeginPoll \/ Task \/ Worker \/ Cancel \/ Close \/ NewClient
  \/ \E a \in air : Arrive(a)

\* The event loop runs every task that can go on, and the worker thread its
\* queue: an exchange is bounded by its deadline.
Fairness == WF_vars(Task) /\ WF_vars(Worker)

Spec == Init /\ [][Next]_vars /\ Fairness

-----------------------------------------------------------------------------
(* Properties.                                                               *)

TypeOK ==
  /\ medium \in Media
  /\ outcome \in {"none", "running", "ok", "failed", "cancelled"}
  /\ DOMAIN words \subseteq DOMAIN Blocks /\ DOMAIN metadata \subseteq Cached
  /\ closing \in {"none", "queued", "draining", "done"}
  /\ port \in {"open", "closed"}
  /\ Cardinality(air) <= MaxInAir
  /\ polls \in 0..MaxPolls /\ clients \in 1..MaxClients
  /\ Len(jobs) <= 2

\* close() leaves nothing behind: when it has returned, the port is closed,
\* no exchange runs and none is queued that would open it again
\* (transports/modbus.py:200-206 against a poll in progress).
PortReleased ==
  medium = "rtu" /\ closing = "done" => port = "closed" /\ working = None /\ jobs = <<>>

\* The words of a block come from an answer with the function and the length
\* of the block, even when a late answer of another request was read; and no
\* poll is built from bytes that lay on the line before it asked: an answer was
\* received during the exchange it was taken for (transports/modbus.py:259-301).
AnswersBelong ==
  /\ \A b \in DOMAIN words :
       words[b].function = Block(b).function /\ words[b].count = Block(b).count
  /\ \A i \in DOMAIN log : Parsed(log[i]) => log[i].answer.during = log[i].id

\* The observer - the traffic tracker, a capture - hears exactly once of each
\* exchange that ended, in the order they were made.
RecordedOnce ==
  outcome # "none" =>
    LET ended == IF call = None THEN asked ELSE asked - 1
    IN /\ Len(log) = ended - first + 1
       /\ \A i \in DOMAIN log : log[i].id = first + i - 1

\* A capture is complete, and replayed through the profile it ends as the poll
\* did, with the same words, whichever blocks failed (capture/replay.py).
Replayed ==
  /\ RecordedOnce
  /\ outcome \in {"ok", "failed"} /\ ~refused =>
       LET r == Replay(before, log) IN r.outcome = outcome /\ r.words = words

\* No request and no close() waits for ever, whatever the device does.
WaitsEnd ==
  /\ (call # None) ~> (call = None)
  /\ (closing # "none") ~> (closing = "done")
=============================================================================
