------------------------ MODULE RoomOccupancy_proofs ------------------------
(***************************************************************************)
(* Proofs about RoomOccupancy, for any finite set of people, any rooms and *)
(* any capacities.                                                         *)
(*                                                                         *)
(* Every handler changes the active assignments in one of five ways, the   *)
(* disjuncts of SeatChange; the invariants about beds are proved once for  *)
(* each way instead of once for each of the handlers.                      *)
(*                                                                         *)
(* The last part shows that RoomOccupancy implements BedRegistry, with the *)
(* two invariants this needs: rows belong to registered people, and bed    *)
(* numbers are within the capacity of the room.                            *)
(***************************************************************************)
EXTENDS RoomOccupancy, FiniteSetTheorems, TLAPS

-----------------------------------------------------------------------------
(* The ways a handler changes the active assignments *)

\* people lose their rooms
Leave == \E S \in SUBSET Persons : seat' = Vacated(seat, S)

\* the people of S are put into one room, with a free active bed for each of
\* them; a single person may come from another room (C), whose row is closed first
Enter ==
    \E r \in Rooms, S \in SUBSET Persons, C \in SUBSET Persons :
        /\ C = {} \/ \E p \in Persons : C = {p} /\ S = {p}
        /\ Occupancy(seat, r) + Cardinality(S) <= activeBeds[r]
        /\ status[r] # "quarantine"
        /\ \E f \in Placements(Vacated(seat, C), r, S) : seat' = Seated(Vacated(seat, C), r, f)

\* two people exchange room and bed
Exchange == \E p, q \in Persons : SwapPersonnel(p, q)

\* an import puts new people into several rooms
Arrive == \E S \in SUBSET Persons : \E plan \in [S -> Rooms \cup {NoRoom}] : ImportPersonnel(S, plan)

SeatChange == UNCHANGED seat \/ Leave \/ Enter \/ Exchange \/ Arrive

\* what any step does to the rooms and who is in them
RoomStep ==
    \/ SeatChange /\ UNCHANGED <<status, activeBeds>>
    \/ \E r \in Rooms : \E n \in 0 .. Capacity[r] : UpdateActiveBeds(r, n)
    \/ \E R \in SUBSET Rooms, st \in Statuses : BulkUpdateRoomStatus(R, st)

-----------------------------------------------------------------------------
(* Facts about seat maps *)

LEMMA VacatedNobody ==
    ASSUME NEW s \in [Persons -> Seat]
    PROVE  Vacated(s, {}) = s
BY DEF Vacated

LEMMA VacatedType ==
    ASSUME NEW s \in [Persons -> Seat], NEW S \in SUBSET Persons
    PROVE  Vacated(s, S) \in [Persons -> Seat]
BY DEF Vacated, NoSeat, Seat

\* Closing rows keeps beds apart.
LEMMA VacatedDistinct ==
    ASSUME NEW s \in [Persons -> Seat], NEW S \in SUBSET Persons, BedsDistinct(s)
    PROVE  BedsDistinct(Vacated(s, S))
BY DEF BedsDistinct, Vacated, NoSeat, Seat

\* Inserting people on bed numbers that nextFreeBedNo can give keeps beds apart.
LEMMA SeatedDistinct ==
    ASSUME NEW s \in [Persons -> Seat], NEW r \in Rooms, NEW S \in SUBSET Persons,
           NEW f \in Placements(s, r, S), BedsDistinct(s)
    PROVE  BedsDistinct(Seated(s, r, f))
<1> DEFINE t == Seated(s, r, f)
<1>1. /\ DOMAIN f = S
      /\ \A p \in S : f[p] \notin TakenBeds(s, r)
      /\ \A p, q \in S : p # q => f[p] # f[q]
  BY DEF Placements
<1>2. \A x \in Persons : x \in S => t[x].room = r /\ t[x].bed = f[x]
  BY <1>1 DEF Seated
<1>3. \A x \in Persons : x \notin S => t[x] = s[x]
  BY <1>1 DEF Seated
<1>4. \A x \in Persons : s[x].room = r => s[x].bed \in TakenBeds(s, r)
  BY DEF TakenBeds, Occupants
<1> HIDE DEF t
<1>5. ASSUME NEW p \in Persons, NEW q \in Persons, p # q,
             t[p].room # NoRoom, t[p].room = t[q].room
      PROVE  t[p].bed # t[q].bed
  <2>1. CASE p \in S /\ q \in S
    BY <1>1, <1>2, <1>5, <2>1
  <2>2. CASE p \in S /\ q \notin S
    BY <1>1, <1>2, <1>3, <1>4, <1>5, <2>2
  <2>3. CASE p \notin S /\ q \in S
    BY <1>1, <1>2, <1>3, <1>4, <1>5, <2>3
  <2>4. CASE p \notin S /\ q \notin S
    BY <1>3, <1>5, <2>4 DEF BedsDistinct
  <2> QED BY <2>1, <2>2, <2>3, <2>4
<1> QED BY <1>5 DEF BedsDistinct, t

LEMMA SeatedType ==
    ASSUME NEW s \in [Persons -> Seat], NEW r \in Rooms, NEW S \in SUBSET Persons,
           NEW f \in Placements(s, r, S)
    PROVE  Seated(s, r, f) \in [Persons -> Seat]
BY DEF Placements, Seated, Seat

LEMMA OccupancyNat ==
    ASSUME NEW s, NEW r
    PROVE  Occupancy(s, r) \in Nat /\ IsFiniteSet(Occupants(s, r))
<1>1. Occupants(s, r) \in SUBSET Persons
  BY DEF Occupants
<1> HIDE DEF Occupants
<1> QED BY <1>1, PersonsAssumption, FS_Subset, FS_CardinalityType DEF Occupancy

-----------------------------------------------------------------------------
(* Every step is one of the kinds above *)

\* Putting a single person into a room with a free active bed.
LEMMA EnterOne ==
    ASSUME TypeOK, NEW p \in Persons, NEW r \in Rooms, NEW C \in SUBSET Persons,
           C = {} \/ C = {p}, HasFreeBed(r), status[r] = "active",
           NEW f \in Placements(Vacated(seat, C), r, {p}),
           seat' = Seated(Vacated(seat, C), r, f)
    PROVE  Enter
<1>1. Occupancy(seat, r) + Cardinality({p}) <= activeBeds[r]
  <2>1. Cardinality({p}) = 1
    BY FS_Singleton
  <2>2. Occupancy(seat, r) \in Nat
    BY OccupancyNat
  <2>3. activeBeds[r] \in Nat
    BY DEF TypeOK
  <2> QED BY <2>1, <2>2, <2>3 DEF HasFreeBed
<1>2. {p} \in SUBSET Persons /\ C \in SUBSET Persons /\ (C = {} \/ C = {p})
  OBVIOUS
<1>3. status[r] # "quarantine"
  OBVIOUS
<1>4. \E g \in Placements(Vacated(seat, C), r, {p}) : seat' = Seated(Vacated(seat, C), r, g)
  OBVIOUS
<1> QED BY <1>1, <1>2, <1>3, <1>4 DEF Enter

LEMMA CheckInKind == ASSUME TypeOK, CheckIn PROVE RoomStep
<1>0. seat \in [Persons -> Seat]
  BY DEF TypeOK
<1>1. ASSUME NEW p \in Persons, InsertPersonnel(p) PROVE RoomStep
  BY <1>1 DEF InsertPersonnel, RoomStep, SeatChange, roomVars
<1>2. ASSUME NEW p \in Persons, NEW t \in Shifts, SetShift(p, t) PROVE RoomStep
  BY <1>2 DEF SetShift, RoomStep, SeatChange, roomVars
<1>3. ASSUME NEW p \in Persons, NEW r \in Rooms, AssignRoom(p, r) PROVE RoomStep
  <2>1. PICK f \in Placements(seat, r, {p}) : seat' = Seated(seat, r, f)
    BY <1>3 DEF AssignRoom
  <2>2. Enter
    BY <1>0, <1>3, <2>1, VacatedNobody, EnterOne DEF AssignRoom
  <2> QED BY <1>3, <2>2 DEF AssignRoom, RoomStep, SeatChange, roomVars
<1>4. ASSUME NEW r \in Rooms, NEW S \in SUBSET Persons, InsertPlaceholderBatch(r, S)
      PROVE  RoomStep
  <2>1. Enter
    <3>1. Vacated(seat, {}) = seat
      BY <1>0, VacatedNobody
    <3>2. Occupancy(seat, r) + Cardinality(S) <= activeBeds[r]
      <4>1. Cardinality(S) \in Nat /\ Occupancy(seat, r) \in Nat
        BY PersonsAssumption, FS_Subset, FS_CardinalityType, OccupancyNat
      <4> QED BY <1>4, <4>1 DEF InsertPlaceholderBatch, TypeOK
    <3> QED BY <1>4, <3>1, <3>2 DEF InsertPlaceholderBatch, TriggerAllows, Enter
  <2> QED BY <1>4, <2>1 DEF InsertPlaceholderBatch, RoomStep, SeatChange, roomVars
<1> QED BY <1>1, <1>2, <1>3, <1>4 DEF CheckIn

LEMMA CheckOutKind == ASSUME TypeOK, CheckOut PROVE RoomStep
<1>1. ASSUME NEW p \in Persons, NEW I \in SUBSET Items, NEW a \in [I -> Settled],
             ProcessCheckout(p, a)
      PROVE  RoomStep
  BY <1>1 DEF ProcessCheckout, RoomStep, SeatChange, Leave, roomVars
<1>2. ASSUME NEW S \in SUBSET Persons, NEW force \in BOOLEAN, BulkCheckout(S, force)
      PROVE  RoomStep
  BY <1>2 DEF BulkCheckout, RoomStep, SeatChange, Leave, roomVars
<1>3. ASSUME NEW S \in SUBSET Persons, BulkCheckoutTx(S) PROVE RoomStep
  BY <1>3 DEF BulkCheckoutTx, RoomStep, SeatChange, Leave, roomVars
<1> QED BY <1>1, <1>2, <1>3 DEF CheckOut

LEMMA TransferKind ==
    ASSUME TypeOK, NEW p \in Persons, NEW X \in SUBSET Rooms, BulkTransfer(p, X)
    PROVE  RoomStep
<1>1. PICK r \in X : /\ CanHost(p, r)
                     /\ \E f \in Placements(Vacated(seat, {p}), r, {p}) :
                           seat' = Seated(Vacated(seat, {p}), r, f)
  BY DEF BulkTransfer
<1>2. Enter
  BY <1>1, EnterOne DEF CanHost
<1> QED BY <1>2 DEF BulkTransfer, RoomStep, SeatChange, roomVars

LEMMA MoveKind == ASSUME TypeOK, Move PROVE RoomStep
<1>0. seat \in [Persons -> Seat]
  BY DEF TypeOK
<1>1. ASSUME NEW r \in Rooms, NEW S \in SUBSET Persons, BulkAssignToRoom(r, S) PROVE RoomStep
  <2> DEFINE incoming == {p \in S : ~IsSeated(p)}
  <2>1. PICK f \in Placements(seat, r, incoming) : seat' = Seated(seat, r, f)
    BY <1>1 DEF BulkAssignToRoom
  <2>2. Enter
    <3>1. Vacated(seat, {}) = seat
      BY <1>0, VacatedNobody
    <3>2. incoming \in SUBSET Persons
      OBVIOUS
    <3>3. /\ Occupancy(seat, r) + Cardinality(incoming) <= activeBeds[r]
          /\ status[r] = "active"
      BY <1>1 DEF BulkAssignToRoom
    <3> QED BY <2>1, <3>1, <3>2, <3>3 DEF Enter
  <2> QED BY <1>1, <2>2 DEF BulkAssignToRoom, RoomStep, SeatChange, roomVars
<1>2. ASSUME NEW S \in SUBSET Persons, BulkRemoveFromRooms(S) PROVE RoomStep
  BY <1>2 DEF BulkRemoveFromRooms, RoomStep, SeatChange, Leave, roomVars
<1>3. ASSUME NEW p \in Persons, RemoveFromRoom(p) PROVE RoomStep
  BY <1>2, <1>3 DEF RemoveFromRoom
<1>4. ASSUME NEW p \in Persons, NEW q \in Persons, SwapPersonnel(p, q) PROVE RoomStep
  BY <1>4 DEF SwapPersonnel, RoomStep, SeatChange, Exchange, roomVars
<1>5. ASSUME NEW p \in Persons, NEW r \in Rooms, ReassignPersonnel(p, r) PROVE RoomStep
  <2>1. PICK f \in Placements(Vacated(seat, {p}), r, {p}) :
                  seat' = Seated(Vacated(seat, {p}), r, f)
    BY <1>5 DEF ReassignPersonnel
  <2>2. Enter
    BY <1>5, <2>1, EnterOne DEF ReassignPersonnel
  <2> QED BY <1>5, <2>2 DEF ReassignPersonnel, RoomStep, SeatChange, roomVars
<1>6. ASSUME NEW p \in Persons, NEW r \in Rooms, BulkTransferToRoom(p, r) PROVE RoomStep
  BY <1>6, TransferKind DEF BulkTransferToRoom
<1>7. ASSUME NEW p \in Persons, NEW b, BulkTransferToBlock(p, b) PROVE RoomStep
  BY <1>7, TransferKind DEF BulkTransferToBlock
<1>8. ASSUME NEW S \in SUBSET Persons, NEW t \in Shifts, BulkSetShift(S, t) PROVE RoomStep
  BY <1>8 DEF BulkSetShift, RoomStep, SeatChange, roomVars
<1> QED BY <1>1, <1>2, <1>3, <1>4, <1>5, <1>6, <1>7, <1>8 DEF Move

LEMMA ImportKind == ASSUME TypeOK, Import PROVE RoomStep
<1>1. ASSUME NEW S \in SUBSET Persons, NEW plan \in [S -> Rooms \cup {NoRoom}],
             ImportPersonnel(S, plan)
      PROVE  RoomStep
  <2>1. UNCHANGED <<status, activeBeds>>
    BY <1>1 DEF ImportPersonnel, roomVars
  <2>2. Arrive
    BY <1>1 DEF Arrive
  <2> QED BY <2>1, <2>2 DEF RoomStep, SeatChange
<1>2. ASSUME NEW S \in imports, UndoPersonnelImport(S) PROVE RoomStep
  <2>1. S \in SUBSET Persons
    BY DEF TypeOK
  <2> QED BY <1>2, <2>1 DEF UndoPersonnelImport, RoomStep, SeatChange, Leave, roomVars
<1> QED BY <1>1, <1>2 DEF Import


LEMMA StepKind == ASSUME TypeOK, [Next]_vars PROVE RoomStep
<1>1. CASE Zimmet
  BY <1>1 DEF Zimmet, AddZimmet, ReturnZimmet, ReturnAllZimmet, RoomStep, SeatChange, roomVars
<1>2. CASE RoomChange
  BY <1>2 DEF RoomChange, RoomStep
<1>3. CASE Card
  BY <1>3 DEF Card, IssueLaundryCard, BulkIssueLaundryCards, RevokeLaundryCard,
              RoomStep, SeatChange, roomVars
<1>4. CASE UNCHANGED vars
  BY <1>4 DEF vars, RoomStep, SeatChange
<1> QED BY <1>1, <1>2, <1>3, <1>4, CheckInKind, CheckOutKind, MoveKind, ImportKind DEF Next

\* Closing rooms only makes people leave.
LEMMA SeatKind == ASSUME RoomStep PROVE SeatChange
<1>1. ASSUME NEW r \in Rooms, NEW n \in 0 .. Capacity[r], UpdateActiveBeds(r, n)
      PROVE  SeatChange
  BY <1>1 DEF UpdateActiveBeds, SeatChange
<1>2. ASSUME NEW X \in SUBSET Rooms, NEW st \in Statuses, BulkUpdateRoomStatus(X, st)
      PROVE  SeatChange
  <2>1. CASE st = "active"
    BY <1>2, <2>1 DEF BulkUpdateRoomStatus, SeatChange
  <2>2. CASE st # "active"
    <3>1. seat' = Vacated(seat, {p \in Persons : seat[p].room \in X})
      BY <1>2, <2>2 DEF BulkUpdateRoomStatus
    <3> QED BY <3>1 DEF SeatChange, Leave
  <2> QED BY <2>1, <2>2
<1> QED BY <1>1, <1>2 DEF RoomStep

-----------------------------------------------------------------------------
(* Types *)

\* The types of seats survive every kind of change.
LEMMA SeatStepType ==
    ASSUME TypeOK, RoomStep
    PROVE  /\ seat' \in [Persons -> Seat]
           /\ \A p \in Persons : seat'[p].room = NoRoom <=> seat'[p].bed = 0
<1> DEFINE Good(s) == /\ s \in [Persons -> Seat]
                      /\ \A p \in Persons : s[p].room = NoRoom <=> s[p].bed = 0
<1>1. Good(seat)
  BY DEF TypeOK
<1>2. ASSUME NEW s, Good(s), NEW S \in SUBSET Persons PROVE Good(Vacated(s, S))
  BY <1>2 DEF Vacated, NoSeat, Seat
<1>3. CASE Leave
  BY <1>1, <1>2, <1>3 DEF Leave
<1>4. CASE Enter
  <2>1. PICK r \in Rooms, S \in SUBSET Persons, C \in SUBSET Persons :
            \E f \in Placements(Vacated(seat, C), r, S) : seat' = Seated(Vacated(seat, C), r, f)
    BY <1>4 DEF Enter
  <2>2. PICK f \in Placements(Vacated(seat, C), r, S) : seat' = Seated(Vacated(seat, C), r, f)
    BY <2>1
  <2>3. f \in [S -> BedNos] /\ \A p \in S : f[p] # 0
    BY DEF Placements, BedNos
  <2>4. Good(Vacated(seat, C))
    BY <1>1, <1>2
  <2> QED BY <2>2, <2>3, <2>4, RoomsAssumption DEF Seated, Seat
<1>5. CASE Exchange
  BY <1>1, <1>5 DEF Exchange, SwapPersonnel
<1>6. CASE Arrive
  <2>0. PICK S \in SUBSET Persons : \E plan \in [S -> Rooms \cup {NoRoom}] : ImportPersonnel(S, plan)
    BY <1>6 DEF Arrive
  <2>1. PICK plan \in [S -> Rooms \cup {NoRoom}] : ImportPersonnel(S, plan)
    BY <2>0
  <2>2. PICK f \in [S -> BedNos \cup {0}] :
            /\ \A p \in S : plan[p] = NoRoom => f[p] = 0
            /\ \A r \in Rooms : [p \in {q \in S : plan[q] = r} |-> f[p]]
                                   \in Placements(seat, r, {q \in S : plan[q] = r})
            /\ seat' = [p \in Persons |->
                          IF p \in S THEN [room |-> plan[p], bed |-> f[p]] ELSE seat[p]]
    BY <2>1 DEF ImportPersonnel
  <2>3. \A p \in S : plan[p] # NoRoom => f[p] \in BedNos
    BY <2>2 DEF Placements
  <2>4. 0 \notin BedNos
    BY DEF BedNos
  <2>5. \A p \in S : plan[p] \in Rooms \cup {NoRoom}
    OBVIOUS
  <2>6. ASSUME NEW p \in Persons
        PROVE  seat'[p] \in Seat /\ (seat'[p].room = NoRoom <=> seat'[p].bed = 0)
    <3>1. CASE p \in S
      <4>1. seat'[p] = [room |-> plan[p], bed |-> f[p]]
        BY <2>2, <3>1
      <4>2. plan[p] \in Rooms \cup {NoRoom} /\ f[p] \in BedNos \cup {0}
        BY <2>5, <3>1
      <4>3. plan[p] = NoRoom <=> f[p] = 0
        BY <2>2, <2>3, <2>4, <3>1
      <4> QED BY <4>1, <4>2, <4>3 DEF Seat
    <3>2. CASE p \notin S
      BY <1>1, <2>2, <3>2
    <3> QED BY <3>1, <3>2
  <2>7. seat' = [p \in Persons |-> seat'[p]]
    BY <2>2
  <2> QED BY <2>6, <2>7
<1>7. CASE UNCHANGED seat
  BY <1>1, <1>7
<1>8. Good(seat')
  BY <1>3, <1>4, <1>5, <1>6, <1>7, SeatKind DEF SeatChange
<1> QED BY <1>8

LEMMA SideStepType ==
    ASSUME TypeOK, Next
    PROVE  /\ presence' \in [Persons -> Presences]
           /\ shift' \in [Persons -> Shifts]
           /\ zimmet' \in [Items -> [owner : Persons \cup {NoOwner},
                                     state : {"none", "open"} \cup Settled]]
           /\ cards' \in SUBSET Persons
           /\ forced' \in SUBSET Persons
           /\ imports' \in SUBSET SUBSET Persons
<1> USE DEF TypeOK, sideVars, roomVars, Presences
<1>1. CASE CheckIn
  BY <1>1 DEF CheckIn, InsertPersonnel, SetShift, AssignRoom, InsertPlaceholderBatch
<1>2. CASE Zimmet
  BY <1>2 DEF Zimmet, AddZimmet, ReturnZimmet, ReturnAllZimmet, Return
<1>3. CASE CheckOut
  <2>1. ASSUME NEW p \in Persons, NEW I \in SUBSET Items, NEW a \in [I -> Settled],
               ProcessCheckout(p, a)
        PROVE  zimmet' \in [Items -> [owner : Persons \cup {NoOwner},
                                      state : {"none", "open"} \cup Settled]]
    BY <2>1 DEF ProcessCheckout, OpenZimmet
  <2> QED
    BY <1>3, <2>1 DEF CheckOut, ProcessCheckout, BulkCheckout, BulkCheckoutTx, WithoutCards
<1>4. CASE RoomChange
  BY <1>4 DEF RoomChange, UpdateActiveBeds, BulkUpdateRoomStatus
<1>5. CASE Move
  BY <1>5 DEF Move, BulkAssignToRoom, BulkRemoveFromRooms, RemoveFromRoom, SwapPersonnel,
              ReassignPersonnel, BulkTransferToRoom, BulkTransferToBlock, BulkTransfer, BulkSetShift
<1>6. CASE Import
  <2>1. ASSUME NEW S \in SUBSET Persons, NEW plan \in [S -> Rooms \cup {NoRoom}],
               ImportPersonnel(S, plan)
        PROVE  /\ UNCHANGED <<shift, zimmet, cards, forced>>
               /\ presence' \in [Persons -> {"unregistered", "resident", "departed", "deleted"}]
               /\ imports' \in SUBSET SUBSET Persons
    BY <2>1 DEF ImportPersonnel
  <2>2. CASE \E S \in imports : UndoPersonnelImport(S)
    BY <2>2 DEF UndoPersonnelImport, Shifts
  <2> QED BY <1>6, <2>1, <2>2 DEF Import
<1>7. CASE Card
  BY <1>7 DEF Card, IssueLaundryCard, BulkIssueLaundryCards, RevokeLaundryCard, WithoutCards
<1> QED BY <1>1, <1>2, <1>3, <1>4, <1>5, <1>6, <1>7 DEF Next

LEMMA RoomStepType ==
    ASSUME TypeOK, RoomStep
    PROVE  status' \in [Rooms -> Statuses] /\ activeBeds' \in [Rooms -> Nat]
<1>1. CASE UNCHANGED <<status, activeBeds>>
  BY <1>1 DEF TypeOK
<1>2. CASE \E r \in Rooms : \E n \in 0 .. Capacity[r] : UpdateActiveBeds(r, n)
  BY <1>2, CapacityAssumption DEF UpdateActiveBeds, TypeOK
<1>3. CASE \E R \in SUBSET Rooms, st \in Statuses : BulkUpdateRoomStatus(R, st)
  BY <1>3 DEF BulkUpdateRoomStatus, TypeOK
<1> QED BY <1>1, <1>2, <1>3 DEF RoomStep

\* Every reachable state has the types the tables declare, and a person has a
\* bed number exactly when they have a room.
THEOREM TypeCorrect == Spec => []TypeOK
<1>1. Init => TypeOK
  BY CapacityAssumption DEF Init, TypeOK, Presences, Shifts, Statuses, NoSeat, Seat
<1>2. TypeOK /\ [Next]_vars => TypeOK'
  <2> SUFFICES ASSUME TypeOK, [Next]_vars PROVE TypeOK'
    OBVIOUS
  <2>1. CASE Next
    BY <2>1, StepKind, SeatStepType, RoomStepType, SideStepType DEF TypeOK
  <2>2. CASE UNCHANGED vars
    BY <2>2 DEF vars, TypeOK
  <2> QED BY <2>1, <2>2
<1> QED BY <1>1, <1>2, PTL DEF Spec

-----------------------------------------------------------------------------
(* Nobody shares a bed *)

LEMMA ArriveDistinct ==
    ASSUME TypeOK, NoSharedBed, Arrive
    PROVE  NoSharedBed'
<1>1. PICK S \in SUBSET Persons : \E plan \in [S -> Rooms \cup {NoRoom}] : ImportPersonnel(S, plan)
  BY DEF Arrive
<1>2. PICK plan \in [S -> Rooms \cup {NoRoom}] : ImportPersonnel(S, plan)
  BY <1>1
<1>3. PICK f \in [S -> BedNos \cup {0}] :
          /\ \A r \in Rooms : [p \in {q \in S : plan[q] = r} |-> f[p]]
                                 \in Placements(seat, r, {q \in S : plan[q] = r})
          /\ seat' = [p \in Persons |->
                        IF p \in S THEN [room |-> plan[p], bed |-> f[p]] ELSE seat[p]]
  BY <1>2 DEF ImportPersonnel
<1>4. \A r \in Rooms : \A p \in S :
          plan[p] = r => /\ f[p] \notin TakenBeds(seat, r)
                         /\ \A q \in S : q # p /\ plan[q] = r => f[q] # f[p]
  <2> TAKE r \in Rooms
  <2> DEFINE X == {q \in S : plan[q] = r}
             g == [p \in X |-> f[p]]
  <2>1. /\ \A p \in X : g[p] \notin TakenBeds(seat, r)
        /\ \A p, q \in X : p # q => g[p] # g[q]
    BY <1>3 DEF Placements
  <2>2. \A p \in X : g[p] = f[p]
    OBVIOUS
  <2> QED BY <2>1, <2>2
<1>5. \A x \in Persons : \A r \in Rooms : seat[x].room = r => seat[x].bed \in TakenBeds(seat, r)
  BY DEF TakenBeds, Occupants
<1>6. \A x \in S : seat'[x].room = plan[x] /\ seat'[x].bed = f[x]
  BY <1>3
<1>7. \A x \in Persons : x \notin S => seat'[x] = seat[x]
  BY <1>3
<1>8. ASSUME NEW p \in Persons, NEW q \in Persons, p # q,
             seat'[p].room # NoRoom, seat'[p].room = seat'[q].room
      PROVE  seat'[p].bed # seat'[q].bed
  <2>1. CASE p \in S /\ q \in S
    BY <1>4, <1>6, <1>8, <2>1
  <2>2. CASE p \in S /\ q \notin S
    BY <1>4, <1>5, <1>6, <1>7, <1>8, <2>2
  <2>3. CASE p \notin S /\ q \in S
    BY <1>4, <1>5, <1>6, <1>7, <1>8, <2>3
  <2>4. CASE p \notin S /\ q \notin S
    BY <1>7, <1>8, <2>4 DEF NoSharedBed, BedsDistinct
  <2> QED BY <2>1, <2>2, <2>3, <2>4
<1> QED BY <1>8 DEF NoSharedBed, BedsDistinct

LEMMA ExchangeDistinct ==
    ASSUME TypeOK, NoSharedBed, Exchange
    PROVE  NoSharedBed'
<1>1. PICK p \in Persons, q \in Persons :
          /\ seat[p].room # seat[q].room
          /\ seat' = [seat EXCEPT ![p] = seat[q], ![q] = seat[p]]
  BY DEF Exchange, SwapPersonnel
<1>2. seat'[p] = seat[q] /\ seat'[q] = seat[p]
  BY <1>1 DEF TypeOK
<1>3. \A x \in Persons : x # p /\ x # q => seat'[x] = seat[x]
  BY <1>1 DEF TypeOK
<1> QED BY <1>2, <1>3 DEF NoSharedBed, BedsDistinct

\* No history of handlers gives two people the same bed of a room: the claim
\* behind nextFreeBedNo, for every number of people and rooms.
THEOREM BedsNeverShared == Spec => []NoSharedBed
<1>1. Init => NoSharedBed
  BY DEF Init, NoSharedBed, BedsDistinct, NoSeat
<1>2. TypeOK /\ NoSharedBed /\ [Next]_vars => NoSharedBed'
  <2> SUFFICES ASSUME TypeOK, NoSharedBed, [Next]_vars PROVE NoSharedBed'
    OBVIOUS
  <2>1. SeatChange
    BY StepKind, SeatKind
  <2>2. seat \in [Persons -> Seat]
    BY DEF TypeOK
  <2>3. CASE UNCHANGED seat
    BY <2>3 DEF NoSharedBed, BedsDistinct
  <2>4. CASE Leave
    BY <2>2, <2>4, VacatedDistinct DEF Leave, NoSharedBed
  <2>5. CASE Enter
    <3>1. PICK r \in Rooms, S \in SUBSET Persons, C \in SUBSET Persons :
              \E f \in Placements(Vacated(seat, C), r, S) : seat' = Seated(Vacated(seat, C), r, f)
      BY <2>5 DEF Enter
    <3>2. BedsDistinct(Vacated(seat, C)) /\ Vacated(seat, C) \in [Persons -> Seat]
      BY <2>2, VacatedDistinct, VacatedType DEF NoSharedBed
    <3>3. BedsDistinct(seat')
      BY <3>1, <3>2, SeatedDistinct
    <3> QED BY <3>3 DEF NoSharedBed, BedsDistinct
  <2> QED BY <2>1, <2>3, <2>4, <2>5, ExchangeDistinct, ArriveDistinct DEF SeatChange
<1> QED BY <1>1, <1>2, TypeCorrect, PTL DEF Spec

-----------------------------------------------------------------------------
(* Rooms are never overfilled *)

LEMMA SubsetOccupancy ==
    ASSUME NEW s, NEW t, NEW r, Occupants(t, r) \subseteq Occupants(s, r)
    PROVE  Occupancy(t, r) <= Occupancy(s, r)
BY OccupancyNat, FS_Subset DEF Occupancy

LEMMA UnionOccupancy ==
    ASSUME NEW s, NEW t, NEW r, NEW S \in SUBSET Persons,
           Occupants(t, r) \subseteq Occupants(s, r) \cup S
    PROVE  Occupancy(t, r) <= Occupancy(s, r) + Cardinality(S)
<1>1. IsFiniteSet(S) /\ IsFiniteSet(Occupants(s, r))
  BY PersonsAssumption, FS_Subset, OccupancyNat
<1>2. /\ IsFiniteSet(Occupants(s, r) \cup S)
      /\ Cardinality(Occupants(s, r) \cup S) <= Cardinality(Occupants(s, r)) + Cardinality(S)
  <2>1. /\ Cardinality(S) \in Nat
        /\ Cardinality(Occupants(s, r)) \in Nat
        /\ Cardinality(Occupants(s, r) \cap S) \in Nat
    BY <1>1, FS_CardinalityType, FS_Subset
  <2>2. IsFiniteSet(Occupants(s, r) \cup S)
    BY <1>1, FS_Union
  <2>3. Cardinality(Occupants(s, r) \cup S) =
          Cardinality(Occupants(s, r)) + Cardinality(S) - Cardinality(Occupants(s, r) \cap S)
    BY <1>1, FS_Union
  <2> QED BY <2>1, <2>2, <2>3
<1>3. Cardinality(Occupants(t, r)) <= Cardinality(Occupants(s, r) \cup S)
  BY <1>2, FS_Subset
<1> QED BY <1>1, <1>2, <1>3, FS_CardinalityType, FS_Subset, OccupancyNat DEF Occupancy

LEMMA ExchangeOccupancy ==
    ASSUME TypeOK, Exchange, NEW r \in Rooms
    PROVE  Occupancy(seat', r) <= Occupancy(seat, r)
<1>1. PICK p \in Persons, q \in Persons :
          /\ IsSeated(p) /\ IsSeated(q)
          /\ seat[p].room # seat[q].room
          /\ seat' = [seat EXCEPT ![p] = seat[q], ![q] = seat[p]]
  BY DEF Exchange, SwapPersonnel
<1>2. seat'[p] = seat[q] /\ seat'[q] = seat[p]
  BY <1>1 DEF TypeOK
<1>3. \A x \in Persons : x # p /\ x # q => seat'[x] = seat[x]
  BY <1>1 DEF TypeOK
<1>4. ASSUME NEW x \in Persons, NEW y \in Persons, x # y, {x, y} = {p, q},
             seat[x].room = r, seat[y].room # r
      PROVE  Occupancy(seat', r) <= Occupancy(seat, r)
  <2> DEFINE O == Occupants(seat, r)
  <2>1. Occupants(seat', r) = (O \ {x}) \cup {y}
    BY <1>2, <1>3, <1>4 DEF Occupants
  <2>2. x \in O /\ y \notin O \ {x}
    BY <1>4 DEF Occupants
  <2>3. IsFiniteSet(O)
    BY OccupancyNat
  <2>4. Cardinality(O \ {x}) = Cardinality(O) - 1 /\ IsFiniteSet(O \ {x})
    BY <2>2, <2>3, FS_RemoveElement
  <2>5. Cardinality((O \ {x}) \cup {y}) = Cardinality(O \ {x}) + 1
    BY <2>2, <2>4, FS_AddElement
  <2>6. Cardinality(O) \in Nat
    BY <2>3, FS_CardinalityType
  <2> QED BY <2>1, <2>4, <2>5, <2>6 DEF Occupancy
<1>5. CASE seat[p].room = r
  BY <1>1, <1>4, <1>5
<1>6. CASE seat[q].room = r
  BY <1>1, <1>4, <1>6
<1>7. CASE seat[p].room # r /\ seat[q].room # r
  <2>1. Occupants(seat', r) \subseteq Occupants(seat, r)
    BY <1>2, <1>3, <1>7 DEF Occupants
  <2> QED BY <2>1, SubsetOccupancy
<1> QED BY <1>5, <1>6, <1>7

\* After any change of the seats a room holds no more people than it did, or
\* no more than its active beds.
LEMMA SeatChangeOccupancy ==
    ASSUME TypeOK, SeatChange, NEW r \in Rooms
    PROVE  Occupancy(seat', r) <= Occupancy(seat, r) \/ Occupancy(seat', r) <= activeBeds[r]
<1>1. CASE UNCHANGED seat
  <2>1. Occupants(seat', r) \subseteq Occupants(seat, r)
    BY <1>1
  <2> QED BY <2>1, SubsetOccupancy
<1>2. CASE Leave
  <2>1. Occupants(seat', r) \subseteq Occupants(seat, r)
    BY <1>2, RoomsAssumption DEF Leave, Vacated, Occupants, NoSeat
  <2> QED BY <2>1, SubsetOccupancy
<1>3. CASE Enter
  <2>1. PICK r0 \in Rooms, S \in SUBSET Persons, C \in SUBSET Persons :
            /\ Occupancy(seat, r0) + Cardinality(S) <= activeBeds[r0]
            /\ \E f \in Placements(Vacated(seat, C), r0, S) : seat' = Seated(Vacated(seat, C), r0, f)
    BY <1>3 DEF Enter
  <2>2. PICK f \in Placements(Vacated(seat, C), r0, S) : seat' = Seated(Vacated(seat, C), r0, f)
    BY <2>1
  <2>3. DOMAIN f = S
    BY DEF Placements
  <2>4. CASE r = r0
    <3>1. Occupants(seat', r) \subseteq Occupants(seat, r) \cup S
      BY <2>2, <2>3, RoomsAssumption DEF Occupants, Seated, Vacated, NoSeat
    <3>2. Occupancy(seat', r) <= Occupancy(seat, r) + Cardinality(S)
      BY <3>1, UnionOccupancy
    <3>3. /\ Occupancy(seat', r) \in Nat /\ Occupancy(seat, r) \in Nat
          /\ Cardinality(S) \in Nat /\ activeBeds[r] \in Nat
      BY OccupancyNat, PersonsAssumption, FS_Subset, FS_CardinalityType DEF TypeOK
    <3> QED BY <2>1, <2>4, <3>2, <3>3
  <2>5. CASE r # r0
    <3>1. Occupants(seat', r) \subseteq Occupants(seat, r)
      BY <2>2, <2>5, RoomsAssumption DEF Occupants, Seated, Vacated, NoSeat
    <3> QED BY <3>1, SubsetOccupancy
  <2> QED BY <2>4, <2>5
<1>4. CASE Exchange
  BY <1>4, ExchangeOccupancy
<1>5. CASE Arrive
  <2>1. PICK S \in SUBSET Persons : \E plan \in [S -> Rooms \cup {NoRoom}] : ImportPersonnel(S, plan)
    BY <1>5 DEF Arrive
  <2>2. PICK plan \in [S -> Rooms \cup {NoRoom}] : ImportPersonnel(S, plan)
    BY <2>1
  <2> DEFINE X == {p \in S : plan[p] = r}
  <2>3. /\ X # {} => Occupancy(seat, r) + Cardinality(X) <= activeBeds[r]
        /\ Occupants(seat', r) \subseteq Occupants(seat, r) \cup X
    BY <2>2 DEF ImportPersonnel, Occupants
  <2>4. CASE X = {}
    BY <2>3, <2>4, SubsetOccupancy
  <2>5. CASE X # {}
    <3>0. X \in SUBSET Persons
      OBVIOUS
    <3> HIDE DEF X
    <3>1. Occupancy(seat', r) <= Occupancy(seat, r) + Cardinality(X)
      BY <2>3, <3>0, UnionOccupancy
    <3>2. /\ Occupancy(seat', r) \in Nat /\ Occupancy(seat, r) \in Nat
          /\ Cardinality(X) \in Nat /\ activeBeds[r] \in Nat
      BY <3>0, OccupancyNat, PersonsAssumption, FS_Subset, FS_CardinalityType DEF TypeOK
    <3> QED BY <2>3, <2>5, <3>1, <3>2
  <2> QED BY <2>4, <2>5
<1> QED BY <1>1, <1>2, <1>3, <1>4, <1>5 DEF SeatChange

\* A room never holds more people than active beds, nor has more active beds
\* than its capacity, however placements, batches and bed changes alternate.
THEOREM RoomsNeverOverfilled == Spec => []OccupancyWithinBeds
<1>1. Init => OccupancyWithinBeds
  <2> SUFFICES ASSUME Init, NEW r \in Rooms
               PROVE  Occupancy(seat, r) <= activeBeds[r] /\ activeBeds[r] <= Capacity[r]
    BY DEF OccupancyWithinBeds
  <2>1. Occupants(seat, r) = {}
    BY RoomsAssumption DEF Init, Occupants, NoSeat
  <2>2. Occupancy(seat, r) = 0
    BY <2>1, FS_EmptySet DEF Occupancy
  <2> QED BY <2>2, CapacityAssumption DEF Init
<1>2. TypeOK /\ OccupancyWithinBeds /\ [Next]_vars => OccupancyWithinBeds'
  <2> SUFFICES ASSUME TypeOK, OccupancyWithinBeds, [Next]_vars, NEW r \in Rooms
               PROVE  Occupancy(seat', r) <= activeBeds'[r] /\ activeBeds'[r] <= Capacity[r]
    BY DEF OccupancyWithinBeds
  <2>0. RoomStep
    BY StepKind
  <2>1. /\ Occupancy(seat, r) <= activeBeds[r] /\ activeBeds[r] <= Capacity[r]
        /\ Occupancy(seat, r) \in Nat /\ Occupancy(seat', r) \in Nat
        /\ activeBeds[r] \in Nat /\ Capacity[r] \in Nat
    BY OccupancyNat, CapacityAssumption DEF OccupancyWithinBeds, TypeOK
  <2>2. Occupancy(seat', r) <= activeBeds[r]
    BY <2>0, <2>1, SeatKind, SeatChangeOccupancy
  <2>3. CASE activeBeds' = activeBeds
    BY <2>1, <2>2, <2>3
  <2>4. ASSUME NEW r0 \in Rooms, NEW n \in 0 .. Capacity[r0], UpdateActiveBeds(r0, n)
        PROVE  Occupancy(seat', r) <= activeBeds'[r] /\ activeBeds'[r] <= Capacity[r]
    <3>1. seat' = seat /\ activeBeds' = [activeBeds EXCEPT ![r0] = n]
      BY <2>4 DEF UpdateActiveBeds
    <3>2. CASE r = r0
      BY <2>1, <2>4, <3>1, <3>2 DEF UpdateActiveBeds, TypeOK
    <3>3. CASE r # r0
      BY <2>1, <3>1, <3>3 DEF TypeOK
    <3> QED BY <3>2, <3>3
  <2> QED BY <2>0, <2>3, <2>4 DEF RoomStep, BulkUpdateRoomStatus
<1> QED BY <1>1, <1>2, TypeCorrect, PTL DEF Spec

-----------------------------------------------------------------------------
(* Quarantined rooms stay empty *)

\* Whoever sits in a room after a change of the seats sat in it before or the
\* room is not quarantined.
LEMMA SeatChangeQuarantine ==
    ASSUME TypeOK, NoOccupantInQuarantine, SeatChange,
           NEW p \in Persons, seat'[p].room # NoRoom
    PROVE  status[seat'[p].room] # "quarantine"
<1>1. CASE UNCHANGED seat \/ Leave
  BY <1>1 DEF Leave, Vacated, NoSeat, NoOccupantInQuarantine, IsSeated
<1>2. CASE Enter
  <2>1. PICK r \in Rooms, S \in SUBSET Persons, C \in SUBSET Persons :
            /\ status[r] # "quarantine"
            /\ \E f \in Placements(Vacated(seat, C), r, S) : seat' = Seated(Vacated(seat, C), r, f)
    BY <1>2 DEF Enter
  <2>2. seat'[p].room = r \/ seat'[p].room = seat[p].room
    BY <1>2, <2>1 DEF Seated, Vacated, NoSeat
  <2> QED BY <2>1, <2>2 DEF NoOccupantInQuarantine, IsSeated
<1>3. CASE Exchange
  <2>1. PICK x \in Persons, y \in Persons : SwapPersonnel(x, y)
    BY <1>3 DEF Exchange
  <2>2. seat' = [seat EXCEPT ![x] = seat[y], ![y] = seat[x]]
    BY <2>1 DEF SwapPersonnel
  <2>3. \E z \in Persons : seat'[p] = seat[z]
    BY <2>2 DEF TypeOK
  <2> QED BY <2>3 DEF NoOccupantInQuarantine, IsSeated
<1>4. CASE Arrive
  <2>1. PICK S \in SUBSET Persons : \E plan \in [S -> Rooms \cup {NoRoom}] : ImportPersonnel(S, plan)
    BY <1>4 DEF Arrive
  <2>2. PICK plan \in [S -> Rooms \cup {NoRoom}] : ImportPersonnel(S, plan)
    BY <2>1
  <2>3. CASE p \in S
    <3>1. seat'[p].room = plan[p] /\ plan[p] \in Rooms
      BY <2>2, <2>3 DEF ImportPersonnel
    <3>2. status[plan[p]] = "active"
      BY <2>2, <2>3, <3>1 DEF ImportPersonnel
    <3> QED BY <3>1, <3>2
  <2>4. CASE p \notin S
    BY <2>2, <2>4 DEF ImportPersonnel, NoOccupantInQuarantine, IsSeated
  <2> QED BY <2>3, <2>4
<1> QED BY <1>1, <1>2, <1>3, <1>4 DEF SeatChange

\* Nobody ever has an active assignment in a quarantined room.
THEOREM QuarantineStaysEmpty == Spec => []NoOccupantInQuarantine
<1>1. Init => NoOccupantInQuarantine
  BY DEF Init, NoOccupantInQuarantine, IsSeated, NoSeat
<1>2. TypeOK /\ NoOccupantInQuarantine /\ [Next]_vars => NoOccupantInQuarantine'
  <2> SUFFICES ASSUME TypeOK, NoOccupantInQuarantine, [Next]_vars,
                      NEW p \in Persons, seat'[p].room # NoRoom
               PROVE  status'[seat'[p].room] # "quarantine"
    BY DEF NoOccupantInQuarantine, IsSeated
  <2>0. RoomStep
    BY StepKind
  <2>1. status[seat'[p].room] # "quarantine"
    BY <2>0, SeatKind, SeatChangeQuarantine
  <2>2. CASE status' = status
    BY <2>1, <2>2
  <2>3. ASSUME NEW X \in SUBSET Rooms, NEW st \in Statuses, BulkUpdateRoomStatus(X, st)
        PROVE  status'[seat'[p].room] # "quarantine"
    <3>1. seat'[p].room \in Rooms
      BY <2>0, SeatStepType DEF Seat
    <3>2. status'[seat'[p].room] = IF seat'[p].room \in X THEN st ELSE status[seat'[p].room]
      BY <2>3, <3>1 DEF BulkUpdateRoomStatus
    <3>3. CASE st = "active"
      BY <2>1, <3>2, <3>3
    <3>4. CASE st # "active"
      <4>1. seat' = Vacated(seat, {x \in Persons : seat[x].room \in X})
        BY <2>3, <3>4 DEF BulkUpdateRoomStatus
      <4>2. seat'[p].room \notin X
        BY <4>1 DEF Vacated, NoSeat
      <4> QED BY <2>1, <3>2, <4>2
    <3> QED BY <3>3, <3>4
  <2> QED BY <2>0, <2>2, <2>3 DEF RoomStep, UpdateActiveBeds
<1> QED BY <1>1, <1>2, TypeCorrect, PTL DEF Spec

-----------------------------------------------------------------------------
(* Departures *)

\* Only the three ways of checking out turn somebody into a departed person.
LEMMA DepartureIsCheckOut ==
    ASSUME TypeOK, Next, NEW p \in Persons, presence[p] # "departed", presence'[p] = "departed"
    PROVE  CheckOut
<1> USE DEF TypeOK
<1>1. ~CheckIn
  BY DEF CheckIn, InsertPersonnel, SetShift, AssignRoom, InsertPlaceholderBatch
<1>2. ~Zimmet
  BY DEF Zimmet, AddZimmet, ReturnZimmet, ReturnAllZimmet
<1>3. ~RoomChange
  BY DEF RoomChange, UpdateActiveBeds, BulkUpdateRoomStatus
<1>4. ~Move
  BY DEF Move, BulkAssignToRoom, BulkRemoveFromRooms, RemoveFromRoom, SwapPersonnel,
         ReassignPersonnel, BulkTransferToRoom, BulkTransferToBlock, BulkTransfer, BulkSetShift
<1>5. ~Import
  BY DEF Import, ImportPersonnel, UndoPersonnelImport
<1>6. ~Card
  BY DEF Card, IssueLaundryCard, BulkIssueLaundryCards, RevokeLaundryCard
<1> QED BY <1>1, <1>2, <1>3, <1>4, <1>5, <1>6 DEF Next

LEMMA CheckOutEnds ==
    ASSUME TypeOK, CheckOut, NEW p \in Persons,
           presence[p] # "departed", presence'[p] = "departed"
    PROVE  /\ seat'[p] = NoSeat /\ p \notin cards'
           /\ OpenZimmet(p)' = {} \/ p \in forced'
<1> USE DEF TypeOK
<1>1. ASSUME NEW q \in Persons, NEW I \in SUBSET Items, NEW actions \in [I -> Settled],
             ProcessCheckout(q, actions)
      PROVE  seat'[p] = NoSeat /\ p \notin cards' /\ OpenZimmet(p)' = {}
  <2>1. p = q
    BY <1>1 DEF ProcessCheckout
  <2>2. seat'[p] = NoSeat /\ p \notin cards'
    BY <1>1, <2>1 DEF ProcessCheckout, Vacated, WithoutCards
  <2>3. ASSUME NEW i \in Items, zimmet'[i].owner = p, zimmet'[i].state = "open" PROVE FALSE
    <3>1. zimmet'[i] = IF i \in OpenZimmet(p) THEN [zimmet[i] EXCEPT !.state = actions[i]] ELSE zimmet[i]
      BY <1>1, <2>1 DEF ProcessCheckout
    <3>2. CASE i \in OpenZimmet(p)
      <4>1. i \in I /\ actions[i] \in Settled
        BY <1>1, <2>1, <3>2 DEF ProcessCheckout
      <4> QED BY <2>3, <3>1, <3>2, <4>1 DEF Settled
    <3>3. CASE i \notin OpenZimmet(p)
      BY <2>3, <3>1, <3>3 DEF OpenZimmet
    <3> QED BY <3>2, <3>3
  <2> QED BY <2>2, <2>3 DEF OpenZimmet
<1>2. ASSUME NEW S \in SUBSET Persons, NEW force \in BOOLEAN, BulkCheckout(S, force)
      PROVE  seat'[p] = NoSeat /\ p \notin cards' /\ (OpenZimmet(p)' = {} \/ p \in forced')
  <2>1. p \in S
    BY <1>2 DEF BulkCheckout
  <2>2. OpenZimmet(p)' = OpenZimmet(p)
    BY <1>2 DEF BulkCheckout, OpenZimmet
  <2> QED BY <1>2, <2>1, <2>2 DEF BulkCheckout, Vacated, WithoutCards
<1>3. ASSUME NEW S \in SUBSET Persons, BulkCheckoutTx(S)
      PROVE  seat'[p] = NoSeat /\ p \notin cards' /\ OpenZimmet(p)' = {}
  <2>1. p \in S
    BY <1>3 DEF BulkCheckoutTx
  <2>2. OpenZimmet(p)' = OpenZimmet(p)
    BY <1>3 DEF BulkCheckoutTx, OpenZimmet
  <2> QED BY <1>3, <2>1, <2>2 DEF BulkCheckoutTx, Vacated, WithoutCards
<1> HIDE DEF TypeOK
<1>4. CASE \E q \in Persons, I \in SUBSET Items : \E actions \in [I -> Settled] :
               ProcessCheckout(q, actions)
  BY <1>1, <1>4
<1>5. CASE \E S \in SUBSET Persons, force \in BOOLEAN : BulkCheckout(S, force)
  BY <1>2, <1>5
<1>6. CASE \E S \in SUBSET Persons : BulkCheckoutTx(S)
  BY <1>3, <1>6
<1> QED BY <1>4, <1>5, <1>6 DEF CheckOut

\* Whichever way out is taken, bed and card end in the step of the departure.
THEOREM DeparturesEndStays == Spec => AlwaysDepartureEndsStay
<1>1. TypeOK /\ [Next]_vars => DepartureEndsStay
  BY DepartureIsCheckOut, CheckOutEnds DEF DepartureEndsStay, vars
<1> QED BY <1>1, TypeCorrect, PTL DEF Spec, AlwaysDepartureEndsStay

\* Whichever way out is taken, no item stays open without an audit row.
THEOREM DeparturesSettleZimmet == Spec => AlwaysDepartureSettlesZimmet
<1>1. TypeOK /\ [Next]_vars => DepartureSettlesZimmet
  BY DepartureIsCheckOut, CheckOutEnds DEF DepartureSettlesZimmet, vars
<1> QED BY <1>1, TypeCorrect, PTL DEF Spec, AlwaysDepartureSettlesZimmet

-----------------------------------------------------------------------------
(* Shifts *)

\* A step that gives nobody a room who is registered and has none.
Unplaced == \A p \in Persons : IsRegistered(p) /\ ~IsSeated(p) => seat'[p].room = NoRoom

LEMMA UnplacedKeepsShifts == ASSUME TypeOK, Unplaced PROVE PlacementKeepsOneShift
BY RoomsAssumption DEF Unplaced, PlacementKeepsOneShift, Occupants

\* People of one shift put into a room of that shift.
LEMMA PlacedOneShift ==
    ASSUME TypeOK, NEW r \in Rooms, NEW S \in SUBSET Persons, NEW C \in SUBSET Persons,
           NEW f \in [S -> BedNos],
           seat' = Seated(Vacated(seat, C), r, f), UNCHANGED shift,
           OneShift(r) => \E t \in Shifts : \A p \in Occupants(seat, r) \cup S : shift[p] = t
    PROVE  PlacementKeepsOneShift
<1>1. \A p \in Persons : seat'[p].room = IF p \in S THEN r ELSE IF p \in C THEN NoRoom ELSE seat[p].room
  BY DEF Seated, Vacated, NoSeat
<1>2. ASSUME NEW u \in Rooms, u # r, NEW p \in Occupants(seat', u), ~IsSeated(p) PROVE FALSE
  BY <1>1, <1>2, RoomsAssumption DEF Occupants, IsSeated
<1>3. OneShift(r) => OneShift(r)'
  <2>1. Occupants(seat', r) \subseteq Occupants(seat, r) \cup S
    BY <1>1, RoomsAssumption DEF Occupants
  <2> QED BY <2>1 DEF OneShift
<1> QED BY <1>2, <1>3 DEF PlacementKeepsOneShift

LEMMA MoveKeepsShifts == ASSUME TypeOK, Move PROVE PlacementKeepsOneShift
<1>1. ASSUME NEW r \in Rooms, NEW S \in SUBSET Persons, BulkAssignToRoom(r, S)
      PROVE  PlacementKeepsOneShift
  <2> DEFINE I == {p \in S : ~IsSeated(p)}
  <2>1. PICK t \in Shifts :
          /\ Occupants(seat, r) # {} => \E q \in Occupants(seat, r) : shift[q] = t
          /\ \A p \in I : shift[p] = t
    BY <1>1 DEF BulkAssignToRoom
  <2>2. PICK f \in Placements(seat, r, I) : seat' = Seated(seat, r, f)
    BY <1>1 DEF BulkAssignToRoom
  <2>3. f \in [I -> BedNos] /\ I \in SUBSET Persons /\ shift' = shift
    BY <1>1, <2>2 DEF Placements, BulkAssignToRoom
  <2>4. OneShift(r) => \A p \in Occupants(seat, r) \cup I : shift[p] = t
    BY <2>1 DEF OneShift
  <2>5. seat' = Seated(Vacated(seat, {}), r, f)
    BY <2>2, VacatedNobody DEF TypeOK
  <2> HIDE DEF I
  <2> QED BY <2>3, <2>4, <2>5, PlacedOneShift
<1>2. ASSUME NEW p \in Persons, NEW r \in Rooms, ShiftFits(p, r), UNCHANGED shift,
             \E f \in Placements(Vacated(seat, {p}), r, {p}) : seat' = Seated(Vacated(seat, {p}), r, f)
      PROVE  PlacementKeepsOneShift
  <2>1. PICK f \in [{p} -> BedNos] : seat' = Seated(Vacated(seat, {p}), r, f)
    BY <1>2 DEF Placements
  <2>2. shift[p] \in Shifts /\ \A q \in Occupants(seat, r) \cup {p} : shift[q] = shift[p]
    BY <1>2 DEF ShiftFits, TypeOK
  <2>3. {p} \in SUBSET Persons /\ shift' = shift
    BY <1>2
  <2> QED BY <2>1, <2>2, <2>3, PlacedOneShift
<1>3. ASSUME NEW p \in Persons, NEW R \in SUBSET Rooms, BulkTransfer(p, R) PROVE PlacementKeepsOneShift
  BY <1>2, <1>3 DEF BulkTransfer, CanHost
<1>4. ASSUME NEW p \in Persons, NEW r \in Rooms,
             ReassignPersonnel(p, r) \/ BulkTransferToRoom(p, r) \/ BulkTransferToBlock(p, BlockOf[r])
      PROVE  PlacementKeepsOneShift
  <2>1. CASE ReassignPersonnel(p, r)
    BY <1>2, <2>1 DEF ReassignPersonnel
  <2>2. CASE BulkTransferToRoom(p, r)
    BY <1>3, <2>2 DEF BulkTransferToRoom
  <2>3. CASE BulkTransferToBlock(p, BlockOf[r])
    BY <1>3, <2>3 DEF BulkTransferToBlock
  <2> QED BY <1>4, <2>1, <2>2, <2>3
<1>5. ASSUME NEW p \in Persons, NEW q \in Persons, SwapPersonnel(p, q) PROVE Unplaced
  <2>1. \A x \in Persons : x # p /\ x # q => seat'[x] = seat[x]
    BY <1>5 DEF SwapPersonnel, TypeOK
  <2> QED BY <1>5, <2>1 DEF SwapPersonnel, Unplaced, IsSeated
<1>6. ASSUME \/ \E S \in SUBSET Persons : BulkRemoveFromRooms(S)
             \/ \E p \in Persons : RemoveFromRoom(p)
             \/ \E S \in SUBSET Persons, t \in Shifts : BulkSetShift(S, t)
      PROVE  Unplaced
  BY <1>6 DEF BulkRemoveFromRooms, RemoveFromRoom, BulkSetShift, Vacated, NoSeat, Unplaced, IsSeated
<1> QED BY <1>1, <1>4, <1>5, <1>6, UnplacedKeepsShifts DEF Move

LEMMA CheckInKeepsShifts == ASSUME TypeOK, CheckIn PROVE PlacementKeepsOneShift
<1>1. ASSUME NEW p \in Persons, NEW r \in Rooms, AssignRoom(p, r) PROVE PlacementKeepsOneShift
  <2>1. PICK f \in [{p} -> BedNos] : seat' = Seated(seat, r, f)
    BY <1>1 DEF AssignRoom, Placements
  <2>2. shift[p] \in Shifts /\ \A q \in Occupants(seat, r) \cup {p} : shift[q] = shift[p]
    BY <1>1 DEF AssignRoom, ShiftFits, TypeOK
  <2>3. seat' = Seated(Vacated(seat, {}), r, f) /\ {p} \in SUBSET Persons /\ shift' = shift
    BY <1>1, <2>1, VacatedNobody DEF TypeOK, AssignRoom
  <2> QED BY <2>1, <2>2, <2>3, PlacedOneShift
<1>2. ASSUME NEW r \in Rooms, NEW S \in SUBSET Persons, InsertPlaceholderBatch(r, S) PROVE Unplaced
  <2>1. PICK f \in [S -> BedNos] : seat' = Seated(seat, r, f)
    BY <1>2 DEF InsertPlaceholderBatch, Placements
  <2>2. \A p \in Persons : p \notin S => seat'[p] = seat[p]
    BY <2>1 DEF Seated
  <2> QED BY <1>2, <2>2 DEF InsertPlaceholderBatch, Unplaced, IsRegistered, IsSeated
<1>3. ASSUME \/ \E p \in Persons : InsertPersonnel(p)
             \/ \E p \in Persons, t \in Shifts : SetShift(p, t)
      PROVE  Unplaced
  BY <1>3 DEF InsertPersonnel, SetShift, Unplaced, IsSeated
<1> QED BY <1>1, <1>2, <1>3, UnplacedKeepsShifts DEF CheckIn

LEMMA OthersPlaceNobody ==
    ASSUME TypeOK, Zimmet \/ CheckOut \/ RoomChange \/ Import \/ Card \/ UNCHANGED vars
    PROVE  Unplaced
<1>1. CASE Import
  <2>1. ASSUME NEW S \in SUBSET Persons, NEW plan \in [S -> Rooms \cup {NoRoom}], ImportPersonnel(S, plan)
        PROVE  Unplaced
    BY <2>1 DEF ImportPersonnel, Unplaced, IsRegistered, IsSeated
  <2>2. ASSUME NEW S \in imports, UndoPersonnelImport(S) PROVE Unplaced
    BY <2>2 DEF UndoPersonnelImport, Vacated, NoSeat, Unplaced, IsSeated
  <2> QED BY <1>1, <2>1, <2>2 DEF Import
<1>2. CASE CheckOut \/ RoomChange
  <2>1. seat' = seat \/ \E S \in SUBSET Persons : seat' = Vacated(seat, S)
    BY <1>2 DEF CheckOut, RoomChange, ProcessCheckout, BulkCheckout, BulkCheckoutTx,
                UpdateActiveBeds, BulkUpdateRoomStatus
  <2> QED BY <2>1 DEF Vacated, NoSeat, Unplaced, IsSeated
<1>3. CASE Zimmet \/ Card \/ UNCHANGED vars
  BY <1>3 DEF Zimmet, AddZimmet, ReturnZimmet, ReturnAllZimmet, Card, IssueLaundryCard,
              BulkIssueLaundryCards, RevokeLaundryCard, vars, Unplaced, IsSeated
<1> QED BY <1>1, <1>2, <1>3

\* However many people are placed at once, nobody registered gets a bed beside people of the
\* other shift in a room that had one shift.
THEOREM ShiftsNotMixed == Spec => AlwaysPlacementKeepsOneShift
<1>1. TypeOK /\ [Next]_vars => PlacementKeepsOneShift
  BY CheckInKeepsShifts, MoveKeepsShifts, OthersPlaceNobody, UnplacedKeepsShifts DEF Next
<1> QED BY <1>1, TypeCorrect, PTL DEF Spec, AlwaysPlacementKeepsOneShift

-----------------------------------------------------------------------------
(* Rows belong to registered people *)

\* Whoever is registered stays so, unless an import is undone.
LEMMA RegisteredStays ==
    ASSUME TypeOK, Next, ~(\E S \in imports : UndoPersonnelImport(S)),
           NEW p \in Persons, IsRegistered(p)
    PROVE  IsRegistered(p)'
<1> USE DEF IsRegistered, TypeOK, sideVars, roomVars
<1>1. CASE CheckIn
  BY <1>1 DEF CheckIn, InsertPersonnel, SetShift, AssignRoom, InsertPlaceholderBatch
<1>2. CASE Zimmet
  BY <1>2 DEF Zimmet, AddZimmet, ReturnZimmet, ReturnAllZimmet
<1>3. CASE CheckOut
  BY <1>3 DEF CheckOut, ProcessCheckout, BulkCheckout, BulkCheckoutTx
<1>4. CASE RoomChange
  BY <1>4 DEF RoomChange, UpdateActiveBeds, BulkUpdateRoomStatus
<1>5. CASE Move
  BY <1>5 DEF Move, BulkAssignToRoom, BulkRemoveFromRooms, RemoveFromRoom, SwapPersonnel,
              ReassignPersonnel, BulkTransferToRoom, BulkTransferToBlock, BulkTransfer, BulkSetShift
<1>6. CASE Import
  BY <1>6 DEF Import, ImportPersonnel
<1>7. CASE Card
  BY <1>7 DEF Card, IssueLaundryCard, BulkIssueLaundryCards, RevokeLaundryCard
<1> QED BY <1>1, <1>2, <1>3, <1>4, <1>5, <1>6, <1>7 DEF Next

\* Inserting the people of S seats nobody else.
LEMMA OnlySSeated ==
    ASSUME NEW s \in [Persons -> Seat], NEW r \in Rooms, NEW S \in SUBSET Persons,
           NEW f \in Placements(s, r, S), NEW p \in Persons, p \notin S
    PROVE  Seated(s, r, f)[p] = s[p]
BY DEF Placements, Seated

LEMMA VacatedSeats ==
    ASSUME NEW s \in [Persons -> Seat], NEW S \in SUBSET Persons, NEW p \in Persons,
           Vacated(s, S)[p].room # NoRoom
    PROVE  p \notin S /\ Vacated(s, S)[p] = s[p]
BY DEF Vacated, NoSeat

\* A handler seats registered people only.
LEMMA SeatedIsRegistered ==
    ASSUME TypeOK, Next, \A p \in Persons : IsSeated(p) => IsRegistered(p),
           NEW p \in Persons, IsSeated(p)'
    PROVE  IsRegistered(p)'
<1> USE DEF IsRegistered, IsSeated
<1>0. /\ seat \in [Persons -> Seat] /\ presence \in [Persons -> Presences]
      /\ seat'[p].room # NoRoom
      /\ seat[p].room # NoRoom => presence[p] \in {"resident", "departed"}
  BY DEF TypeOK
<1>1. CASE CheckIn
  <2>1. ASSUME NEW q \in Persons, InsertPersonnel(q) PROVE IsRegistered(p)'
    BY <1>0, <2>1 DEF InsertPersonnel
  <2>2. ASSUME NEW q \in Persons, NEW t \in Shifts, SetShift(q, t) PROVE IsRegistered(p)'
    BY <1>0, <2>2 DEF SetShift
  <2>3. ASSUME NEW q \in Persons, NEW r \in Rooms, AssignRoom(q, r) PROVE IsRegistered(p)'
    <3>1. PICK f \in Placements(seat, r, {q}) : seat' = Seated(seat, r, f)
      BY <2>3 DEF AssignRoom
    <3>2. p # q => seat'[p] = seat[p]
      BY <1>0, <3>1, OnlySSeated
    <3> QED BY <1>0, <2>3, <3>2 DEF AssignRoom
  <2>4. ASSUME NEW r \in Rooms, NEW S \in SUBSET Persons, InsertPlaceholderBatch(r, S)
        PROVE  IsRegistered(p)'
    <3>1. PICK f \in Placements(seat, r, S) : seat' = Seated(seat, r, f)
      BY <2>4 DEF InsertPlaceholderBatch
    <3>2. p \notin S => seat'[p] = seat[p]
      BY <1>0, <3>1, OnlySSeated
    <3> QED BY <1>0, <2>4, <3>2 DEF InsertPlaceholderBatch
  <2> QED BY <1>1, <2>1, <2>2, <2>3, <2>4 DEF CheckIn
<1>2. CASE Zimmet
  BY <1>0, <1>2 DEF Zimmet, AddZimmet, ReturnZimmet, ReturnAllZimmet
<1>3. CASE CheckOut
  <2>1. ASSUME NEW q \in Persons, NEW I \in SUBSET Items, NEW a \in [I -> Settled],
               ProcessCheckout(q, a)
        PROVE  IsRegistered(p)'
    <3>1. seat' = Vacated(seat, {q}) /\ presence'[p] = IF p = q THEN presence'[p] ELSE presence[p]
      BY <1>0, <2>1 DEF ProcessCheckout
    <3>2. p \notin {q} /\ seat'[p] = seat[p]
      BY <1>0, <3>1, VacatedSeats
    <3> QED BY <1>0, <3>1, <3>2
  <2>2. ASSUME NEW S \in SUBSET Persons, NEW force \in BOOLEAN, BulkCheckout(S, force)
        PROVE  IsRegistered(p)'
    <3>1. seat' = Vacated(seat, S) /\ (p \notin S => presence'[p] = presence[p])
      BY <1>0, <2>2 DEF BulkCheckout
    <3> QED BY <1>0, <3>1, VacatedSeats
  <2>3. ASSUME NEW S \in SUBSET Persons, BulkCheckoutTx(S) PROVE IsRegistered(p)'
    <3>1. seat' = Vacated(seat, S) /\ (p \notin S => presence'[p] = presence[p])
      BY <1>0, <2>3 DEF BulkCheckoutTx
    <3> QED BY <1>0, <3>1, VacatedSeats
  <2> QED BY <1>3, <2>1, <2>2, <2>3 DEF CheckOut
<1>4. CASE RoomChange
  BY <1>0, <1>4 DEF RoomChange, UpdateActiveBeds, BulkUpdateRoomStatus, Vacated, NoSeat
<1>5. CASE Move
  <2>0. presence' = presence
    BY <1>5 DEF Move, BulkAssignToRoom, BulkRemoveFromRooms, RemoveFromRoom, SwapPersonnel,
                ReassignPersonnel, BulkTransferToRoom, BulkTransferToBlock, BulkTransfer, BulkSetShift
  <2>1. ASSUME NEW r \in Rooms, NEW S \in SUBSET Persons, BulkAssignToRoom(r, S)
        PROVE  IsRegistered(p)'
    <3> DEFINE incoming == {q \in S : ~IsSeated(q)}
    <3>1. PICK f \in Placements(seat, r, incoming) : seat' = Seated(seat, r, f)
      BY <2>1 DEF BulkAssignToRoom
    <3>2. p \notin incoming => seat'[p] = seat[p]
      BY <1>0, <3>1, OnlySSeated
    <3>3. \A q \in S : presence[q] \in {"resident", "departed"}
      BY <2>1 DEF BulkAssignToRoom
    <3> QED BY <1>0, <2>0, <3>2, <3>3
  <2>2. ASSUME NEW S \in SUBSET Persons, seat' = Vacated(seat, S) PROVE IsRegistered(p)'
    BY <1>0, <2>0, <2>2, VacatedSeats
  <2>3. ASSUME NEW x \in Persons, NEW y \in Persons, SwapPersonnel(x, y) PROVE IsRegistered(p)'
    BY <1>0, <2>0, <2>3 DEF SwapPersonnel
  <2>4. ASSUME NEW q \in Persons, NEW r \in Rooms, IsRegistered(q),
               NEW f \in Placements(Vacated(seat, {q}), r, {q}),
               seat' = Seated(Vacated(seat, {q}), r, f)
        PROVE  IsRegistered(p)'
    <3>1. Vacated(seat, {q}) \in [Persons -> Seat]
      BY <1>0, VacatedType
    <3>2. p # q => seat'[p] = Vacated(seat, {q})[p]
      <4>1. {q} \in SUBSET Persons /\ (p # q => p \notin {q})
        OBVIOUS
      <4>2. p \notin {q} => Seated(Vacated(seat, {q}), r, f)[p] = Vacated(seat, {q})[p]
        BY <3>1, <4>1, OnlySSeated
      <4> QED BY <2>4, <4>1, <4>2
    <3> QED BY <1>0, <2>0, <2>4, <3>2, VacatedSeats
  <2>5. ASSUME NEW q \in Persons, NEW X \in SUBSET Rooms, BulkTransfer(q, X) PROVE IsRegistered(p)'
    <3>1. IsRegistered(q)
      BY <2>5 DEF BulkTransfer
    <3> QED BY <2>4, <2>5, <3>1 DEF BulkTransfer
  <2>6. \A q \in Persons, r \in Rooms : ReassignPersonnel(q, r) => IsRegistered(p)'
    BY <2>4 DEF ReassignPersonnel
  <2>7. \A q \in Persons, r \in Rooms : BulkTransferToRoom(q, r) => IsRegistered(p)'
    BY <2>5 DEF BulkTransferToRoom
  <2>8. \A q \in Persons, r \in Rooms : BulkTransferToBlock(q, BlockOf[r]) => IsRegistered(p)'
    BY <2>5 DEF BulkTransferToBlock
  <2>9. (\E S \in SUBSET Persons, t \in Shifts : BulkSetShift(S, t)) => IsRegistered(p)'
    BY <1>0, <2>0 DEF BulkSetShift
  <2> QED BY <1>5, <2>1, <2>2, <2>3, <2>6, <2>7, <2>8, <2>9
       DEF Move, BulkRemoveFromRooms, RemoveFromRoom
<1>6. CASE Import
  BY <1>0, <1>6 DEF Import, ImportPersonnel, UndoPersonnelImport, Vacated, NoSeat, TypeOK
<1>7. CASE Card
  BY <1>0, <1>7 DEF Card, IssueLaundryCard, BulkIssueLaundryCards, RevokeLaundryCard
<1> QED BY <1>1, <1>2, <1>3, <1>4, <1>5, <1>6, <1>7 DEF Next

\* An item gets an owner only by being given to a registered person.
LEMMA OwnerStep ==
    ASSUME TypeOK, Next, ~(\E S \in imports : UndoPersonnelImport(S)), NEW i \in Items
    PROVE  zimmet'[i].owner = zimmet[i].owner \/ IsRegistered(zimmet'[i].owner)
<1> USE DEF TypeOK, sideVars
<1>1. CASE CheckIn
  BY <1>1 DEF CheckIn, InsertPersonnel, SetShift, AssignRoom, InsertPlaceholderBatch
<1>2. CASE Zimmet
  BY <1>2 DEF Zimmet, AddZimmet, ReturnZimmet, ReturnAllZimmet, Return
<1>3. CASE CheckOut
  <2>1. ASSUME NEW q \in Persons, NEW I \in SUBSET Items, NEW a \in [I -> Settled],
               ProcessCheckout(q, a)
        PROVE  zimmet'[i].owner = zimmet[i].owner
    BY <2>1 DEF ProcessCheckout
  <2> QED BY <1>3, <2>1 DEF CheckOut, BulkCheckout, BulkCheckoutTx
<1>4. CASE RoomChange
  BY <1>4 DEF RoomChange, UpdateActiveBeds, BulkUpdateRoomStatus
<1>5. CASE Move
  BY <1>5 DEF Move, BulkAssignToRoom, BulkRemoveFromRooms, RemoveFromRoom, SwapPersonnel,
              ReassignPersonnel, BulkTransferToRoom, BulkTransferToBlock, BulkTransfer, BulkSetShift
<1>6. CASE Import
  BY <1>6 DEF Import, ImportPersonnel
<1>7. CASE Card
  BY <1>7 DEF Card, IssueLaundryCard, BulkIssueLaundryCards, RevokeLaundryCard
<1> QED BY <1>1, <1>2, <1>3, <1>4, <1>5, <1>6, <1>7 DEF Next

\* Undoing an import leaves no item with the people it deletes.
LEMMA UndoOwners ==
    ASSUME TypeOK, NoOrphanRows, NEW S \in imports, UndoPersonnelImport(S),
           NEW i \in Items, zimmet'[i].owner # NoOwner
    PROVE  IsRegistered(zimmet[i].owner)'
BY DEF UndoPersonnelImport, TypeOK, NoOrphanRows, IsRegistered

\* Assignments and items always belong to an existing person, whatever was done
\* to the people of an import before it was undone.
THEOREM RowsHaveOwners == Spec => []NoOrphanRows
<1>1. Init => NoOrphanRows
  BY DEF Init, NoOrphanRows, IsSeated, NoSeat
<1>2. TypeOK /\ TypeOK' /\ NoOrphanRows /\ [Next]_vars => NoOrphanRows'
  <2> SUFFICES ASSUME TypeOK, TypeOK', NoOrphanRows, [Next]_vars PROVE NoOrphanRows'
    OBVIOUS
  <2>1. CASE UNCHANGED vars
    BY <2>1 DEF vars, NoOrphanRows, IsSeated, IsRegistered
  <2>2. CASE Next
    <3>1. ASSUME NEW p \in Persons, IsSeated(p)' PROVE IsRegistered(p)'
      BY <2>2, <3>1, SeatedIsRegistered DEF NoOrphanRows
    <3>2. ASSUME NEW i \in Items, zimmet'[i].owner # NoOwner PROVE IsRegistered(zimmet[i].owner)'
      <4>1. CASE \E S \in imports : UndoPersonnelImport(S)
        BY <3>2, <4>1, UndoOwners
      <4>2. CASE ~(\E S \in imports : UndoPersonnelImport(S))
        <5>1. zimmet'[i].owner \in Persons
          BY <3>2 DEF TypeOK
        <5>2. IsRegistered(zimmet'[i].owner)
          BY <2>2, <3>2, <4>2, OwnerStep DEF NoOrphanRows
        <5> QED BY <2>2, <4>2, <5>1, <5>2, RegisteredStays DEF IsRegistered
      <4> QED BY <4>1, <4>2
    <3> QED BY <3>1, <3>2 DEF NoOrphanRows, IsRegistered
  <2> QED BY <2>1, <2>2
<1> QED BY <1>1, <1>2, TypeCorrect, PTL DEF Spec

-----------------------------------------------------------------------------
(* Bed numbers exist *)

\* The image of a finite set is no larger than the set.
LEMMA ImageSize ==
    ASSUME NEW X, IsFiniteSet(X), NEW g, g \in [X -> {g[x] : x \in X}]
    PROVE  /\ IsFiniteSet({g[x] : x \in X})
           /\ Cardinality({g[x] : x \in X}) <= Cardinality(X)
<1>1. g \in Surjection(X, {g[x] : x \in X})
  BY DEF Surjection
<1> QED BY <1>1, FS_Surjection

\* The smallest numbers not taken never go past the number of people there are
\* in the room afterwards.
LEMMA PlacedWithin ==
    ASSUME NEW s \in [Persons -> Seat], NEW r \in Rooms, NEW S \in SUBSET Persons,
           NEW f \in Placements(s, r, S), NEW p \in S
    PROVE  f[p] <= Occupancy(s, r) + Cardinality(S)
<1> DEFINE O == Occupants(s, r)
           R == S \ {p}
           bed == [x \in O |-> s[x].bed]
           new == [x \in R |-> f[x]]
           A == {bed[x] : x \in O}
           B == {new[x] : x \in R}
           N == 1 .. (f[p] - 1)
<1>1. /\ f[p] \in Nat /\ f[p] # 0
      /\ \A c \in N : c \in TakenBeds(s, r) \/ \E q \in S : f[q] = c
  BY DEF Placements, BedNos
<1>2. \A c \in N : c # f[p]
  BY <1>1
<1>3. N \subseteq A \cup B
  BY <1>1, <1>2 DEF TakenBeds
<1>4. IsFiniteSet(S) /\ IsFiniteSet(O) /\ IsFiniteSet(R)
  BY PersonsAssumption, FS_Subset, OccupancyNat
<1>5. IsFiniteSet(A) /\ Cardinality(A) <= Cardinality(O)
  <2>1. bed \in [O -> A]
    OBVIOUS
  <2> HIDE DEF bed, O
  <2> QED BY <1>4, <2>1, ImageSize
<1>6. IsFiniteSet(B) /\ Cardinality(B) <= Cardinality(R)
  <2>1. new \in [R -> B]
    OBVIOUS
  <2> HIDE DEF new, R
  <2> QED BY <1>4, <2>1, ImageSize
<1>7. Cardinality(R) = Cardinality(S) - 1
  BY <1>4, FS_RemoveElement
<1>8. Cardinality(N) = f[p] - 1
  <2>1. f[p] - 1 \in Int /\ f[p] - 1 >= 0
    BY <1>1
  <2> HIDE DEF N
  <2>2. Cardinality(1 .. (f[p] - 1)) = IF 1 > f[p] - 1 THEN 0 ELSE (f[p] - 1) - 1 + 1
    BY <2>1, FS_Interval
  <2> QED BY <1>1, <2>1, <2>2 DEF N
<1> HIDE DEF A, B, N, R
<1>9. /\ Cardinality(N) <= Cardinality(A \cup B)
      /\ Cardinality(A \cup B) = Cardinality(A) + Cardinality(B) - Cardinality(A \cap B)
      /\ Cardinality(A \cap B) \in Nat /\ Cardinality(A) \in Nat /\ Cardinality(B) \in Nat
  BY <1>3, <1>5, <1>6, FS_Union, FS_Subset, FS_CardinalityType, FS_Intersection
<1>10. /\ Cardinality(O) = Occupancy(s, r) /\ Occupancy(s, r) \in Nat
       /\ Cardinality(S) \in Nat
  BY <1>4, OccupancyNat, FS_CardinalityType DEF Occupancy
<1> QED BY <1>1, <1>5, <1>6, <1>7, <1>8, <1>9, <1>10

\* Who is given a bed gets one of the beds the room has.
LEMMA EnterBeds ==
    ASSUME TypeOK, OccupancyWithinBeds, NEW r \in Rooms, NEW S \in SUBSET Persons,
           NEW C \in SUBSET Persons,
           Occupancy(seat, r) + Cardinality(S) <= activeBeds[r],
           NEW f \in Placements(Vacated(seat, C), r, S), NEW p \in S
    PROVE  f[p] \in 1 .. Capacity[r]
<1> DEFINE s == Vacated(seat, C)
<1>1. s \in [Persons -> Seat]
  BY VacatedType DEF TypeOK
<1>2. Occupants(s, r) \subseteq Occupants(seat, r)
  BY RoomsAssumption DEF Occupants, Vacated, NoSeat
<1>3. f[p] <= Occupancy(s, r) + Cardinality(S)
  BY <1>1, PlacedWithin
<1>4. Occupancy(s, r) <= Occupancy(seat, r)
  BY <1>2, SubsetOccupancy
<1>5. /\ f[p] \in Nat /\ f[p] # 0
      /\ Cardinality(S) \in Nat /\ Occupancy(s, r) \in Nat /\ Occupancy(seat, r) \in Nat
      /\ activeBeds[r] \in Nat /\ Capacity[r] \in Nat /\ activeBeds[r] <= Capacity[r]
  BY OccupancyNat, PersonsAssumption, FS_Subset, FS_CardinalityType, CapacityAssumption
     DEF Placements, BedNos, TypeOK, OccupancyWithinBeds
<1> QED BY <1>3, <1>4, <1>5

\* What an import writes: the people with a planned room get a bed of it that
\* is free and that no other of them gets, the others get none.
LEMMA ImportBeds ==
    ASSUME TypeOK, OccupancyWithinBeds, NEW S \in SUBSET Persons,
           NEW plan \in [S -> Rooms \cup {NoRoom}], ImportPersonnel(S, plan)
    PROVE  /\ \A p \in S : /\ presence[p] = "unregistered"
                            /\ seat'[p].room = plan[p]
           /\ \A p \in S : plan[p] # NoRoom =>
                  /\ status[plan[p]] = "active"
                  /\ seat'[p].bed \in 1 .. Capacity[plan[p]]
                  /\ seat'[p].bed \notin TakenBeds(seat, plan[p])
           /\ \A p \in Persons : p \notin S => seat'[p] = seat[p]
<1>1. PICK f \in [S -> BedNos \cup {0}] :
          /\ \A r \in Rooms : [p \in {q \in S : plan[q] = r} |-> f[p]]
                                 \in Placements(seat, r, {q \in S : plan[q] = r})
          /\ seat' = [p \in Persons |->
                        IF p \in S THEN [room |-> plan[p], bed |-> f[p]] ELSE seat[p]]
  BY DEF ImportPersonnel
<1>2. ASSUME NEW p \in S, plan[p] # NoRoom
      PROVE  /\ status[plan[p]] = "active"
             /\ f[p] \in 1 .. Capacity[plan[p]]
             /\ f[p] \notin TakenBeds(seat, plan[p])
  <2> DEFINE r == plan[p]
             X == {q \in S : plan[q] = r}
             g == [q \in X |-> f[q]]
  <2>1. r \in Rooms /\ p \in X /\ X \in SUBSET Persons
    BY <1>2
  <2>2. Occupancy(seat, r) + Cardinality(X) <= activeBeds[r] /\ status[r] = "active"
    BY <2>1 DEF ImportPersonnel
  <2>3. g \in Placements(seat, r, X) /\ g[p] = f[p]
    BY <1>1, <2>1
  <2>4. g[p] \notin TakenBeds(seat, r)
    BY <2>1, <2>3 DEF Placements
  <2>5. Vacated(seat, {}) = seat
    BY VacatedNobody DEF TypeOK
  <2> HIDE DEF r, X, g
  <2>6. g[p] \in 1 .. Capacity[r]
    BY <2>1, <2>2, <2>3, <2>5, EnterBeds
  <2> QED BY <2>2, <2>3, <2>4, <2>6 DEF r
<1>3. \A p \in S : presence[p] = "unregistered"
  BY DEF ImportPersonnel
<1> QED BY <1>1, <1>2, <1>3

LEMMA SeatChangeBeds ==
    ASSUME TypeOK, OccupancyWithinBeds, BedNumberExists, SeatChange,
           NEW p \in Persons, seat'[p].room # NoRoom
    PROVE  seat'[p].bed \in 1 .. Capacity[seat'[p].room]
<1>0. \A q \in Persons : seat[q].room # NoRoom => seat[q].bed \in 1 .. Capacity[seat[q].room]
  BY DEF BedNumberExists, IsSeated
<1>1. CASE UNCHANGED seat
  BY <1>0, <1>1
<1>2. CASE Leave
  BY <1>0, <1>2 DEF Leave, Vacated, NoSeat
<1>3. CASE Enter
  <2>1. PICK r \in Rooms, S \in SUBSET Persons, C \in SUBSET Persons :
            /\ Occupancy(seat, r) + Cardinality(S) <= activeBeds[r]
            /\ \E f \in Placements(Vacated(seat, C), r, S) : seat' = Seated(Vacated(seat, C), r, f)
    BY <1>3 DEF Enter
  <2>2. PICK f \in Placements(Vacated(seat, C), r, S) : seat' = Seated(Vacated(seat, C), r, f)
    BY <2>1
  <2>3. CASE p \in S
    <3>1. f[p] \in 1 .. Capacity[r]
      BY <2>1, <2>3, EnterBeds
    <3>2. seat'[p].room = r /\ seat'[p].bed = f[p]
      BY <2>2, <2>3 DEF Placements, Seated
    <3> QED BY <3>1, <3>2
  <2>4. CASE p \notin S
    <3>1. seat'[p] = Vacated(seat, C)[p]
      BY <2>2, <2>4, VacatedType, OnlySSeated DEF TypeOK
    <3>2. p \notin C /\ seat'[p] = seat[p]
      BY <3>1, VacatedSeats DEF TypeOK
    <3> QED BY <1>0, <3>2
  <2> QED BY <2>3, <2>4
<1>4. CASE Exchange
  BY <1>0, <1>4 DEF Exchange, SwapPersonnel, TypeOK
<1>5. CASE Arrive
  <2>1. PICK S \in SUBSET Persons : \E plan \in [S -> Rooms \cup {NoRoom}] : ImportPersonnel(S, plan)
    BY <1>5 DEF Arrive
  <2>2. PICK plan \in [S -> Rooms \cup {NoRoom}] : ImportPersonnel(S, plan)
    BY <2>1
  <2>3. /\ \A q \in S : seat'[q].room = plan[q]
        /\ \A q \in S : plan[q] # NoRoom => seat'[q].bed \in 1 .. Capacity[plan[q]]
        /\ \A q \in Persons : q \notin S => seat'[q] = seat[q]
    BY <2>2, ImportBeds
  <2> QED BY <1>0, <2>3
<1> QED BY <1>1, <1>2, <1>3, <1>4, <1>5 DEF SeatChange

\* A bed number always names a bed the room has, also after swaps between rooms
\* of different size and after the active beds were lowered.
THEOREM BedNumbersExist == Spec => []BedNumberExists
<1>1. Init => BedNumberExists
  BY DEF Init, BedNumberExists, IsSeated, NoSeat
<1>2. TypeOK /\ OccupancyWithinBeds /\ BedNumberExists /\ [Next]_vars => BedNumberExists'
  <2> SUFFICES ASSUME TypeOK, OccupancyWithinBeds, BedNumberExists, [Next]_vars,
                      NEW p \in Persons, seat'[p].room # NoRoom
               PROVE  seat'[p].bed \in 1 .. Capacity[seat'[p].room]
    BY DEF BedNumberExists, IsSeated
  <2> QED BY StepKind, SeatKind, SeatChangeBeds
<1> QED BY <1>1, <1>2, TypeCorrect, RoomsNeverOverfilled, PTL DEF Spec

-----------------------------------------------------------------------------
(* The refinement *)

At(s, p, b) == s[p].room = b[1] /\ s[p].bed = b[2]
AllBeds == UNION {{r} \X (1 .. Capacity[r]) : r \in Rooms}

LEMMA BedsOfRooms ==
    /\ Registry!Beds = AllBeds
    /\ \A b \in AllBeds : b[1] \in Rooms /\ b[2] \in 1 .. Capacity[b[1]] /\ b = <<b[1], b[2]>>
    /\ \A r \in Rooms : \A n \in 1 .. Capacity[r] : <<r, n>> \in AllBeds
BY DEF Registry!Beds, AllBeds

\* A step by which people only leave, or nothing changes, whatever it does to
\* the status of rooms.
LEMMA LeaveRefines ==
    ASSUME TypeOK, TypeOK', NoOccupantInQuarantine', NEW S \in SUBSET Persons,
           seat' = Vacated(seat, S)
    PROVE  Registry!Next
<1>0. PICK C \in SUBSET Rooms : C = {r \in Rooms : status'[r] = "quarantine"}
  OBVIOUS
<1>1. \A p \in Persons : \A b \in AllBeds : At(seat', p, b) <=> At(seat, p, b) /\ p \notin S
  BY BedsOfRooms, RoomsAssumption DEF At, Vacated, NoSeat
<1>2. \A b \in AllBeds : {p \in Persons : At(seat', p, b)} = {p \in Persons : At(seat, p, b)} \ S
  BY <1>1
<1>3. \A b \in AllBeds : b[1] \in C => {p \in Persons : At(seat', p, b)} = {}
  BY <1>0, BedsOfRooms, RoomsAssumption DEF NoOccupantInQuarantine, IsSeated, At
<1>4. Registry!Leave(S, C)
  BY <1>0, <1>2, <1>3, BedsOfRooms DEF Registry!Leave, Registry!RoomOf, At, AllBeds
<1> QED BY <1>4 DEF Registry!Next

\* A step by which people get beds that are free, exist and are in open rooms.
LEMMA TakeRefines ==
    ASSUME TypeOK, UNCHANGED status, NEW S \in SUBSET Persons, NEW g \in [S -> AllBeds],
           \A p \in S : At(seat', p, g[p]) /\ status[g[p][1]] # "quarantine",
           \A p \in S : \A q \in Persons : At(seat, q, g[p]) => q = p,
           \A p, q \in S : p # q => g[p] # g[q],
           \A q \in Persons : q \notin S =>
               \A b \in AllBeds : At(seat', q, b) <=> At(seat, q, b)
    PROVE  Registry!Next
<1>1. ASSUME NEW b \in AllBeds
      PROVE  {p \in Persons : At(seat', p, b)}
                = ({p \in Persons : At(seat, p, b)} \ S) \cup {p \in S : g[p] = b}
  <2>1. \A p \in S : At(seat', p, b) <=> g[p] = b
    <3> TAKE p \in S
    <3>1. g[p] = <<seat'[p].room, seat'[p].bed>>
      BY BedsOfRooms DEF At
    <3> QED BY <3>1, BedsOfRooms DEF At
  <2> QED BY <2>1
<1>2. \A p \in S : {q \in Persons : At(seat, q, g[p])} \subseteq {p}
  OBVIOUS
<1>3. \A p \in S : g[p] \in AllBeds /\ g[p][1] \in Rooms
  BY BedsOfRooms
<1>4. Registry!Take(S, g)
  BY <1>1, <1>2, <1>3, BedsOfRooms DEF Registry!Take, Registry!RoomOf, At, AllBeds
<1>5. g \in [S -> Registry!Beds]
  BY BedsOfRooms
<1>6. \E bed \in [S -> Registry!Beds] : Registry!Take(S, bed)
  BY <1>4, <1>5
<1> QED BY <1>6 DEF Registry!Next

LEMMA EnterRefines ==
    ASSUME TypeOK, NoSharedBed', OccupancyWithinBeds, UNCHANGED status, Enter
    PROVE  Registry!Next
<1>1. PICK r \in Rooms, S \in SUBSET Persons, C \in SUBSET Persons :
          /\ C = {} \/ \E p \in Persons : C = {p} /\ S = {p}
          /\ Occupancy(seat, r) + Cardinality(S) <= activeBeds[r]
          /\ status[r] # "quarantine"
          /\ \E f \in Placements(Vacated(seat, C), r, S) : seat' = Seated(Vacated(seat, C), r, f)
  BY DEF Enter
<1>2. PICK f \in Placements(Vacated(seat, C), r, S) : seat' = Seated(Vacated(seat, C), r, f)
  BY <1>1
<1> DEFINE g == [p \in S |-> <<r, f[p]>>]
<1>3. \A p \in S : f[p] \in 1 .. Capacity[r]
  BY <1>1, EnterBeds
<1>4. g \in [S -> AllBeds]
  BY <1>3, BedsOfRooms
<1>5. \A p \in S : seat'[p].room = r /\ seat'[p].bed = f[p]
  BY <1>2 DEF Placements, Seated
<1>6. \A p \in S : At(seat', p, g[p]) /\ status[g[p][1]] # "quarantine"
  BY <1>1, <1>5 DEF At
<1>7. ASSUME NEW p \in S, NEW q \in Persons, At(seat, q, g[p]) PROVE q = p
  <2>1. seat[q].room = r /\ seat[q].bed = f[p]
    BY <1>7 DEF At
  <2>2. \A x \in Persons : Vacated(seat, C)[x].room = r => Vacated(seat, C)[x].bed # f[p]
    BY DEF Placements, TakenBeds, Occupants
  <2>3. q \in C
    BY <2>1, <2>2 DEF Vacated
  <2> QED BY <1>1, <2>3
<1>8. \A p, q \in S : p # q => g[p] # g[q]
  BY DEF Placements
<1>9. \A q \in Persons : q \notin S => seat'[q] = seat[q]
  <2> TAKE q \in Persons
  <2> HAVE q \notin S
  <2>1. seat'[q] = Vacated(seat, C)[q]
    BY <1>2, VacatedType, OnlySSeated DEF TypeOK
  <2>2. q \notin C
    BY <1>1
  <2> QED BY <2>1, <2>2 DEF Vacated
<1> HIDE DEF g
<1> QED BY <1>4, <1>6, <1>7, <1>8, <1>9, TakeRefines DEF At

LEMMA ArriveRefines ==
    ASSUME TypeOK, TypeOK', NoSharedBed', NoOrphanRows, OccupancyWithinBeds, UNCHANGED status, Arrive
    PROVE  Registry!Next
<1>1. PICK X \in SUBSET Persons : \E plan \in [X -> Rooms \cup {NoRoom}] : ImportPersonnel(X, plan)
  BY DEF Arrive
<1>2. PICK plan \in [X -> Rooms \cup {NoRoom}] : ImportPersonnel(X, plan)
  BY <1>1
<1>3. /\ \A p \in X : presence[p] = "unregistered" /\ seat'[p].room = plan[p]
      /\ \A p \in X : plan[p] # NoRoom =>
            /\ status[plan[p]] = "active"
            /\ seat'[p].bed \in 1 .. Capacity[plan[p]]
            /\ seat'[p].bed \notin TakenBeds(seat, plan[p])
      /\ \A p \in Persons : p \notin X => seat'[p] = seat[p]
  BY <1>2, ImportBeds
<1> DEFINE S == {p \in X : plan[p] # NoRoom}
           g == [p \in S |-> <<plan[p], seat'[p].bed>>]
<1>4. S \in SUBSET Persons /\ \A p \in S : plan[p] \in Rooms
  OBVIOUS
<1>5. g \in [S -> AllBeds]
  BY <1>3, <1>4, BedsOfRooms
<1>6. \A p \in S : At(seat', p, g[p]) /\ status[g[p][1]] # "quarantine"
  BY <1>3 DEF At
<1>7. ASSUME NEW p \in S, NEW q \in Persons, At(seat, q, g[p]) PROVE q = p
  <2>1. seat[q].room = plan[p] /\ seat[q].bed = seat'[p].bed
    BY <1>7 DEF At
  <2> QED BY <1>3, <2>1 DEF TakenBeds, Occupants
<1>8. \A p, q \in S : p # q => g[p] # g[q]
  BY <1>3, <1>4, RoomsAssumption DEF NoSharedBed, BedsDistinct
<1>9. ASSUME NEW q \in Persons, q \notin S, NEW b \in AllBeds
      PROVE  At(seat', q, b) <=> At(seat, q, b)
  <2>1. CASE q \notin X
    BY <1>3, <2>1 DEF At
  <2>2. CASE q \in X
    <3>1. seat'[q].room = NoRoom
      BY <1>3, <1>9, <2>2
    <3>2. seat[q].room = NoRoom
      BY <1>3, <2>2 DEF NoOrphanRows, IsSeated, IsRegistered
    <3> QED BY <3>1, <3>2, BedsOfRooms, RoomsAssumption DEF At
  <2> QED BY <2>1, <2>2
<1> HIDE DEF g, S
<1> QED BY <1>4, <1>5, <1>6, <1>7, <1>8, <1>9, TakeRefines

LEMMA ExchangeRefines ==
    ASSUME TypeOK, NoSharedBed, BedNumberExists, UNCHANGED status, Exchange
    PROVE  Registry!Next
<1>1. PICK p \in Persons, q \in Persons :
          /\ IsSeated(p) /\ IsSeated(q)
          /\ seat[p].room # seat[q].room
          /\ TriggerAllows(seat[p].room) /\ TriggerAllows(seat[q].room)
          /\ seat' = [seat EXCEPT ![p] = seat[q], ![q] = seat[p]]
  BY DEF Exchange, SwapPersonnel
<1> DEFINE Who(s, b) == {x \in Persons : At(s, x, b)}
<1>0. /\ <<seat[p].room, seat[p].bed>> \in AllBeds
      /\ <<seat[q].room, seat[q].bed>> \in AllBeds
  BY <1>1, BedsOfRooms DEF BedNumberExists, IsSeated, TypeOK, Seat
<1>2. PICK a \in AllBeds, c \in AllBeds :
          a = <<seat[p].room, seat[p].bed>> /\ c = <<seat[q].room, seat[q].bed>> /\ a # c
  BY <1>0, <1>1
<1>3. \A x, y \in Persons : x # y /\ seat[x].room # NoRoom /\ seat[x].room = seat[y].room
                             => seat[x].bed # seat[y].bed
  BY DEF NoSharedBed, BedsDistinct
<1>4. Who(seat, a) = {p} /\ Who(seat, c) = {q}
  BY <1>1, <1>2, <1>3 DEF At, IsSeated
<1>5. seat'[p] = seat[q] /\ seat'[q] = seat[p]
  BY <1>1 DEF TypeOK
<1>6. \A x \in Persons : x # p /\ x # q => seat'[x] = seat[x]
  BY <1>1 DEF TypeOK
<1>7. Who(seat', a) = {q} /\ Who(seat', c) = {p}
  <2>1. At(seat', q, a) /\ At(seat', p, c) /\ ~At(seat', p, a) /\ ~At(seat', q, c)
    BY <1>1, <1>2, <1>5 DEF At
  <2>2. \A x \in Persons : x # p /\ x # q =>
            (At(seat', x, a) <=> At(seat, x, a)) /\ (At(seat', x, c) <=> At(seat, x, c))
    BY <1>6 DEF At
  <2>3. \A x \in Persons : (At(seat, x, a) <=> x = p) /\ (At(seat, x, c) <=> x = q)
    BY <1>4
  <2>4. \A x \in Persons : (At(seat', x, a) <=> x = q) /\ (At(seat', x, c) <=> x = p)
    BY <2>1, <2>2, <2>3
  <2> QED BY <2>4
<1>8. \A b \in AllBeds : b # a /\ b # c => Who(seat', b) = Who(seat, b)
  <2> TAKE b \in AllBeds
  <2> HAVE b # a /\ b # c
  <2>1. \A x \in Persons : At(seat', x, b) <=> At(seat, x, b)
    <3> TAKE x \in Persons
    <3>1. ~At(seat, p, b) /\ ~At(seat, q, b)
      BY <1>2, BedsOfRooms DEF At
    <3> QED BY <1>2, <1>5, <1>6, <3>1, BedsOfRooms DEF At
  <2> QED BY <2>1
<1>9. [b \in AllBeds |-> Who(seat', b)]
         = [[b \in AllBeds |-> Who(seat, b)] EXCEPT ![a] = Who(seat, c), ![c] = Who(seat, a)]
  BY <1>2, <1>4, <1>7, <1>8
<1>10. status[a[1]] # "quarantine" /\ status[c[1]] # "quarantine"
  BY <1>1, <1>2 DEF TriggerAllows
<1>11. Registry!Exchange(a, c)
  BY <1>2, <1>9, <1>10, BedsOfRooms DEF Registry!Exchange, Registry!RoomOf, At, AllBeds
<1> QED BY <1>11, BedsOfRooms DEF Registry!Next

LEMMA StepRefines ==
    ASSUME TypeOK, TypeOK', NoSharedBed, NoSharedBed', NoOrphanRows, OccupancyWithinBeds,
           BedNumberExists, NoOccupantInQuarantine', [Next]_vars
    PROVE  Registry!Next
<1>0. RoomStep
  BY StepKind
<1>1. CASE Leave
  BY <1>1, LeaveRefines DEF Leave
<1>2. CASE UNCHANGED seat
  BY <1>2, LeaveRefines, VacatedNobody DEF TypeOK
<1>3. CASE SeatChange /\ UNCHANGED status
  BY <1>1, <1>2, <1>3, EnterRefines, ExchangeRefines, ArriveRefines DEF SeatChange
<1>4. ASSUME NEW r \in Rooms, NEW n \in 0 .. Capacity[r], UpdateActiveBeds(r, n)
      PROVE  Registry!Next
  BY <1>2, <1>4 DEF UpdateActiveBeds
<1>5. ASSUME NEW X \in SUBSET Rooms, NEW st \in Statuses, BulkUpdateRoomStatus(X, st)
      PROVE  Registry!Next
  <2>1. UNCHANGED seat \/ Leave
    BY <1>5 DEF BulkUpdateRoomStatus, Leave
  <2> QED BY <1>1, <1>2, <2>1
<1> QED BY <1>0, <1>3, <1>4, <1>5 DEF RoomStep

\* The dormitory implements the registry of beds: whatever its handlers do is,
\* seen from the beds, a departure, the taking of a free bed, or an exchange.
THEOREM RegistryImplemented == Spec => KeepsRegistry
<1>1. Init => Registry!Init
  <2> SUFFICES ASSUME Init PROVE Registry!Init
    OBVIOUS
  <2>1. \A p \in Persons : \A b \in AllBeds : seat[p].room # b[1]
    BY BedsOfRooms, RoomsAssumption DEF Init, NoSeat
  <2>2. \A b \in AllBeds : {p \in Persons : seat[p].room = b[1] /\ seat[p].bed = b[2]} = {}
    BY <2>1
  <2>3. {r \in Rooms : status[r] = "quarantine"} = {}
    BY DEF Init
  <2> QED BY <2>2, <2>3, BedsOfRooms DEF Registry!Init, AllBeds
<1> DEFINE Inv == /\ TypeOK /\ NoSharedBed /\ NoOrphanRows /\ OccupancyWithinBeds
                  /\ BedNumberExists /\ NoOccupantInQuarantine
<1>2. Inv /\ Inv' /\ [Next]_vars => Registry!Next
  BY StepRefines
<1>3. Spec => []Inv
  BY TypeCorrect, BedsNeverShared, RowsHaveOwners, RoomsNeverOverfilled, BedNumbersExist,
     QuarantineStaysEmpty, PTL
<1> HIDE DEF Inv
<1> QED BY <1>1, <1>2, <1>3, PTL DEF Spec, KeepsRegistry, Registry!Spec
=============================================================================
