-------------------------- MODULE MCRoomOccupancy --------------------------
(* Instances of RoomOccupancy for TLC. *)
EXTENDS RoomOccupancy, TLC

CONSTANTS r1, b1

\* r1 has two beds, so that a bed can be freed below an occupied one; every
\* other room has one, so that a number of r1 need not exist there.
MCCapacity  == [r \in Rooms |-> IF r = r1 THEN 2 ELSE 1]
MCBlockOf   == [r \in Rooms |-> b1]
MCWalkOrder == [r \in Rooms |-> IF r = r1 THEN 1 ELSE 2]

\* People and items are interchangeable: no definition names one of them.
Symmetry == Permutations(Persons) \cup Permutations(Items)
=============================================================================
