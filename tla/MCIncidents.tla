---------------------------- MODULE MCIncidents ----------------------------
(* Evidence of one controller and of the site's production: every detector   *)
(* is seen with a finding and clear or without evidence; the sense voltage   *)
(* diverges in both severities.                                              *)
EXTENDS Incidents

Silent ==
  [status |-> "offline", sample |-> FALSE, sense |-> 1418, terminal |-> 1420,
   input |-> 400, output |-> 380, faults |-> "clear", alarms |-> "clear",
   polls |-> [samples |-> 20, success |-> 95, missed |-> 10],
   stages |-> <<"MPPT", "", "ABSORPTION", "FLOAT">>,
   coverage |-> [days |-> 3, percent |-> 80]]
Diverging ==
  [Silent EXCEPT !.status = "online", !.sample = TRUE,
                 !.terminal = 1443, !.alarms = "set", !.output = 319,
                 !.coverage = [days |-> 3, percent |-> 79],
                 !.polls = [samples |-> 20, success |-> 94, missed |-> 11],
                 !.stages = <<"MPPT">>]
Broken ==
  [Silent EXCEPT !.status = "online", !.sample = TRUE,
     !.terminal = 1368, !.input = 99, !.alarms = Missing, !.faults = "set",
     !.coverage = [days |-> 2, percent |-> 10],
     !.polls = [samples |-> 19, success |-> 0, missed |-> 0],
     !.stages = <<"ABSORPTION", "FLOAT", "ABSORPTION", "FLOAT", "ABSORPTION", "", "FLOAT",
                  "ABSORPTION", "FLOAT", "ABSORPTION", "FLOAT", "ABSORPTION">>]
Dim == [current |-> 50, median |-> 100, low |-> 70, days |-> 3]
Young == [Dim EXCEPT !.days = 2]

Seen(ev, base) == [controllers |-> [c \in {"c1"} |-> ev], site |-> base]
Observed == {Seen(Silent, Dim), Seen(Diverging, Dim), Seen(Broken, Young)}
ServiceOfActor == [s |-> "api", r |-> "api", t |-> "other"]
=============================================================================
