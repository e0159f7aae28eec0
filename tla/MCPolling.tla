----------------------------- MODULE MCPolling -----------------------------
(* c1 is a TCP controller that answers, loses an optional request, or fails; *)
(* c2 is too slow on its serial line for the fastest stage.                  *)
EXTENDS PollingCadence

Quick == [latency |-> 250, success |-> TRUE, requests |-> 4, lost |-> 0,
          bytes |-> 200, baudrate |-> 0]
Failed == [Quick EXCEPT !.success = FALSE, !.lost = 1]
Slow == [Quick EXCEPT !.latency = 500, !.baudrate = 9600]
Lossy == [Quick EXCEPT !.lost = 1]
Outcomes == [c \in {"c1", "c2"} |-> IF c = "c1" THEN {Quick, Lossy, Failed} ELSE {Slow}]
=============================================================================
