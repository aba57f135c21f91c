-------------------------- MODULE MCTransportTrips --------------------------
(* Instances of TransportTrips for TLC: any two trips are near each other. *)
EXTENDS TransportTrips, TLC

NearTrips == Trips \X Trips
Symmetry  == Permutations(Staff) \cup Permutations(Scans)
=============================================================================
