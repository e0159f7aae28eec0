----------------------------- MODULE MCRegistry -----------------------------
(* Small instances of ControllerRegistry: which keys, serials and readers.   *)
(* Endpoints and serial numbers are interchangeable.                         *)
EXTENDS ControllerRegistry, TLC

CONSTANTS k1, k2, s1, s2, reader

Interchangeable == Permutations(Keys) \cup Permutations(Serials)
=============================================================================
