------------------------- MODULE ControllerSession -------------------------
(***************************************************************************)
(* What the watcher promises about one physical controller, with no        *)
(* endpoint in sight: a controller has one polling session; only its own   *)
(* polls change its failure count, only a successful poll ends an outage,  *)
(* an absent controller is not polled, and a controller that disappears    *)
(* is marked as out of service before it leaves the present set.           *)
(* (docs/canonical-device-identity.md, Reconnect continuity.)              *)
(***************************************************************************)
EXTENDS Integers

CONSTANTS Controllers, FailureThreshold, FailCap

VARIABLES present,  \* the controllers of the last discovery
          fails,    \* consecutive failed polls of each controller
          down      \* controllers whose outage has begun and not ended

sessionVars == <<present, fails, down>>

Init ==
  /\ present = {}
  /\ fails = [u \in Controllers |-> 0]
  /\ down = [u \in Controllers |-> FALSE]

Lose(u) ==
  /\ u \in present
  /\ down' = [down EXCEPT ![u] = TRUE]
  /\ UNCHANGED <<present, fails>>

Sight(P) ==
  /\ \A u \in present \ P : down[u]
  /\ present' = P
  /\ UNCHANGED <<fails, down>>

Succeed(u) ==
  /\ u \in present
  /\ fails' = [fails EXCEPT ![u] = 0]
  /\ down' = [down EXCEPT ![u] = FALSE]
  /\ UNCHANGED present

Fail(u) ==
  /\ u \in present
  /\ fails' = [fails EXCEPT ![u] = IF @ < FailCap THEN @ + 1 ELSE @]
  /\ down' = [down EXCEPT ![u] = @ \/ fails'[u] >= FailureThreshold]
  /\ UNCHANGED present

\* A new process starts from nothing.
Restart == present' = {} /\ fails' = [u \in Controllers |-> 0]
           /\ down' = [u \in Controllers |-> FALSE]

Next ==
  \/ Restart
  \/ \E P \in SUBSET Controllers : Sight(P)
  \/ \E u \in Controllers : Lose(u) \/ Succeed(u) \/ Fail(u)

Spec == Init /\ [][Next]_sessionVars
=============================================================================
