----------------------------- MODULE MCWatcher -----------------------------
(* Small instances of Watcher: u1 may be seen at k1 and k2, u2 at k3.  In    *)
(* the reuse instances the two controllers also trade k2.                    *)
EXTENDS Watcher

CONSTANTS u1, u2, k1, k2, k3

OwnKeys == [k \in Keys |-> IF k = k3 THEN {u2} ELSE {u1}]
SharedKeys == [k \in Keys |-> IF k = k2 THEN {u1, u2} ELSE
                              IF k = k3 THEN {u2} ELSE {u1}]
OnlyU1 == [k \in Keys |-> {u1}]
RankOrder == [k \in Keys |-> IF k = k1 THEN 1 ELSE IF k = k2 THEN 0 ELSE 2]
=============================================================================
