------------------------------ MODULE MCStorage ------------------------------
(* Days of two or three time units, so that a cutoff may fall within a day.  *)
EXTENDS StorageMaintenance

Ages(warm, cool, cold) ==
  [t \in Tiers |-> IF t = "cool" THEN cool ELSE IF t = "cold" THEN cold ELSE warm]
Ages112 == Ages(1, 1, 2)
=============================================================================
