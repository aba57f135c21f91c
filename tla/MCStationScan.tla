--------------------------- MODULE MCStationScan ---------------------------
(* Instances of StationScan for TLC. *)
EXTENDS StationScan, TLC

Owner    == [c \in MealCards |-> CHOOSE s \in Staff : TRUE]
Planned  == Staff \X {0}
Symmetry == Permutations(Scans) \cup Permutations(Passes)
=============================================================================
