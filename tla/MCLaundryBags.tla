--------------------------- MODULE MCLaundryBags ---------------------------
(* Instances of LaundryBags for TLC: every garment is in one of the bags. *)
EXTENDS LaundryBags, TLC

OneBag   == [g \in Garments |-> CHOOSE b \in Bags : TRUE]
Symmetry == Permutations(Garments) \cup Permutations(Requests)
=============================================================================
