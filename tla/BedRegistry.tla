----------------------------- MODULE BedRegistry -----------------------------
(***************************************************************************)
(* What the dormitory promises about its beds, whoever writes the rows: a  *)
(* bed is held by one person at most, a bed changes hands only by leaving, *)
(* by taking a bed that is free, or by exchange, and a closed room has     *)
(* nobody in it.  RoomOccupancy implements this specification.             *)
(***************************************************************************)
EXTENDS Naturals

CONSTANTS
    Persons,
    Rooms,
    Capacity      \* beds of a room, numbered from 1

VARIABLES
    holders,      \* by bed: who holds it
    closed        \* rooms nobody may live in

Beds == UNION {{r} \X (1 .. Capacity[r]) : r \in Rooms}
RoomOf(b) == b[1]

Init ==
    /\ holders = [b \in Beds |-> {}]
    /\ closed = {}

\* The people of S leave their beds, and the closed rooms become those of C,
\* which must be empty then.
Leave(S, C) ==
    /\ closed' = C
    /\ holders' = [b \in Beds |-> holders[b] \ S]
    /\ \A b \in Beds : RoomOf(b) \in C => holders'[b] = {}

\* Everybody of S takes a bed of an open room that nobody else holds, and gives
\* up the bed held before.
Take(S, bed) ==
    /\ UNCHANGED closed
    /\ \A p \in S : RoomOf(bed[p]) \notin closed /\ holders[bed[p]] \subseteq {p}
    /\ \A p, q \in S : p # q => bed[p] # bed[q]
    /\ holders' = [b \in Beds |-> (holders[b] \ S) \cup {p \in S : bed[p] = b}]

Exchange(a, b) ==
    /\ {RoomOf(a), RoomOf(b)} \cap closed = {}
    /\ holders' = [holders EXCEPT ![a] = holders[b], ![b] = holders[a]]
    /\ UNCHANGED closed

Next ==
    \/ \E S \in SUBSET Persons, C \in SUBSET Rooms : Leave(S, C)
    \/ \E S \in SUBSET Persons : \E bed \in [S -> Beds] : Take(S, bed)
    \/ \E a, b \in Beds : Exchange(a, b)

Spec == Init /\ [][Next]_<<holders, closed>>
=============================================================================
