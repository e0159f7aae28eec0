-------------------------- MODULE DeviceLifecycle --------------------------
(***************************************************************************)
(* The in-memory lifecycle of one polled controller                        *)
(* (controllers/lifecycle.py, class DeviceLifecycle), as pure functions of *)
(* the lifecycle record.                                                   *)
(*                                                                         *)
(* Time: next_retry_monotonic is kept as the time still to wait, so        *)
(* can_poll's "current >= next_retry_monotonic" is retry = 0 and a clock   *)
(* that advances by d subtracts d.  offline_since is kept as the Boolean   *)
(* "is set".  The counters and timestamps that only feed to_dict() are     *)
(* left out.                                                               *)
(***************************************************************************)
EXTENDS Integers

CONSTANTS
  FailureThreshold,  \* watch.failure_threshold
  InitialBackoff,    \* watch.retry_backoff_initial_seconds, in time units
  MaxBackoff,        \* watch.retry_backoff_max_seconds, in time units
  FloatExponents,    \* least n such that float * 2**n raises OverflowError (1024)
  FailCap            \* BOUND: consecutive_failures saturates here

ASSUME LifecycleAssumption ==
  /\ FailureThreshold \in Nat \ {0}
  /\ InitialBackoff \in Nat \ {0}
  /\ MaxBackoff \in Nat /\ InitialBackoff <= MaxBackoff
  /\ FloatExponents \in Nat
  /\ FailCap \in Nat /\ FailureThreshold <= FailCap

LifecycleStates ==
  {"discovered", "connecting", "online", "degraded", "offline", "rediscovering"}

Lifecycle == [state   : LifecycleStates,
              fails   : 0 .. FailCap,      \* consecutive_failures
              offline : BOOLEAN,           \* offline_since is set
              retry   : 0 .. MaxBackoff]   \* until next_retry_monotonic

FreshLifecycle ==
  [state |-> "discovered", fails |-> 0, offline |-> FALSE, retry |-> 0]

\* Only an online controller stays as it is; one out of service reconnects.
StateWhenSeen(s) ==
  IF s \in {"offline", "rediscovering"} THEN "connecting"
  ELSE IF s = "online" THEN "online" ELSE "discovered"

MarkDiscovered(l) ==
  [state |-> StateWhenSeen(l.state), fails |-> l.fails, offline |-> l.offline,
   retry |-> 0]

MarkMissing(l) ==
  [l EXCEPT
    !.state   = IF l.state = "offline" THEN "offline" ELSE "rediscovering",
    !.offline = TRUE]

MarkConnecting(l) ==
  [l EXCEPT !.state = IF l.state = "online" THEN "online" ELSE "connecting"]

MarkSuccess(l) ==
  [state |-> "online", fails |-> 0, offline |-> FALSE, retry |-> 0]

CountFailure(n) == IF n < FailCap THEN n + 1 ELSE n

\* min(max_backoff, initial_backoff * 2**(n - 1)) after the n-th failure.
\* An exponent above MaxBackoff is past the maximum already: the power is
\* not evaluated there.
DoubledDelay(n) == InitialBackoff * 2 ^ (n - 1)   \* a delay without the minimum
BackoffDelay(n) ==
  LET exponent == n - 1
      doubled  == InitialBackoff * 2 ^ exponent
  IN  IF exponent <= MaxBackoff /\ doubled \in 0 .. MaxBackoff
      THEN doubled ELSE MaxBackoff

MarkFailure(l) ==
  LET n == CountFailure(l.fails)
      gone == n >= FailureThreshold
  IN  [state   |-> IF gone THEN "offline" ELSE "degraded",
       fails   |-> n,
       offline |-> l.offline \/ gone,
       retry   |-> BackoffDelay(n)]

\* mark_failure raises: 2**exponent no longer converts to a float.
BackoffOverflows(l) == l.fails >= FloatExponents

\* can_poll, and a version that waits for an outage to end.
PollsInService(l) == ~l.offline /\ l.retry = 0
CanPoll(l) == l.state # "rediscovering" /\ l.retry = 0

\* The first thing _poll_one asks of the lifecycle: is a success a reconnection?
WouldReconnect(l) == l.offline \/ l.fails # 0

\* The clock advances by d; a version without the floor at "due".
ElapsePast(l, d) == [l EXCEPT !.retry = l.retry - d]
Elapse(l, d) == [l EXCEPT !.retry = IF l.retry > d THEN l.retry - d ELSE 0]
=============================================================================
