---------------------------- MODULE RoomOccupancy ----------------------------
(***************************************************************************)
(* Beds, residents, zimmet and laundry cards of the dormitory: the rows    *)
(* of personnel, rooms, room_assignments, shifts, zimmet and cards, and    *)
(* every handler that writes them (modules/checkin, checkout, capacity,    *)
(* bulk-actions, personnel/import and cards of the backend).               *)
(*                                                                         *)
(* better-sqlite3 is synchronous and none of these handlers awaits, so a   *)
(* handler runs to its end before another starts: one handler, one action. *)
(* What makes the component hard is not interleaving inside a handler but  *)
(* the number of doors into the same rows: seven handlers place people in  *)
(* rooms, four check people out, and each repeats its own guards.          *)
(***************************************************************************)
EXTENDS Naturals, FiniteSets

CONSTANTS
    Persons,      \* personnel ids, those not inserted yet included
    Rooms,        \* rooms.id
    NoRoom,       \* "no active room_assignments row"
    Capacity,     \* rooms.capacity
    BlockOf,      \* rooms.block
    WalkOrder,    \* position of a room in ORDER BY floor, room_no
    Items,        \* zimmet ids
    NoOwner,      \* owner of a zimmet row that is not inserted
    MaxImports    \* bound: import batches that can still be undone

ASSUME PersonsAssumption  == IsFiniteSet(Persons)
ASSUME RoomsAssumption    == NoRoom \notin Rooms
ASSUME CapacityAssumption == Capacity \in [Rooms -> Nat]
ASSUME WalkAssumption     == WalkOrder \in [Rooms -> Nat]
ASSUME OwnerAssumption    == NoOwner \notin Persons

VARIABLES
    presence,     \* personnel row: absent, check_out_date NULL / set, deleted
    seat,         \* the active room_assignments row of a person
    shift,        \* shifts.shift_type, 'day' when there is no row
    status,       \* rooms.status
    activeBeds,   \* rooms.active_beds
    zimmet,       \* zimmet rows: owner and state
    cards,        \* people whose laundry card is 'active'
    forced,       \* people with a forced_checkout_with_zimmet audit row
    imports       \* personnel_import_batches not undone: sets of people

vars == <<presence, seat, shift, status, activeBeds, zimmet, cards, forced, imports>>
roomVars == <<status, activeBeds>>
sideVars == <<zimmet, cards, forced, imports>>

-----------------------------------------------------------------------------
(* Types *)

Shifts    == {"day", "night"}
Presences == {"unregistered", "resident", "departed", "deleted"}
Statuses  == {"active", "quarantine", "maintenance"}
Settled   == {"normal", "lost"}   \* intact, or damaged / lost

\* nextFreeBedNo never needs to look further than this: n people leave a gap
\* among the first n + 1 numbers.
BedNos == 1 .. (Cardinality(Persons) + 1)

Seat   == [room : Rooms \cup {NoRoom}, bed : BedNos \cup {0}]
NoSeat == [room |-> NoRoom, bed |-> 0]

TypeOK ==
    /\ presence \in [Persons -> Presences]
    /\ seat \in [Persons -> Seat]
    /\ \A p \in Persons : seat[p].room = NoRoom <=> seat[p].bed = 0
    /\ shift \in [Persons -> Shifts]
    /\ status \in [Rooms -> Statuses]
    /\ activeBeds \in [Rooms -> Nat]
    /\ zimmet \in [Items -> [owner : Persons \cup {NoOwner},
                             state : {"none", "open"} \cup Settled]]
    /\ cards \in SUBSET Persons
    /\ forced \in SUBSET Persons
    /\ imports \in SUBSET SUBSET Persons

-----------------------------------------------------------------------------
(* Queries shared by the handlers; s is a seat map, so that a handler can  *)
(* ask again after its own updates.                                        *)

Occupants(s, r)  == {p \in Persons : s[p].room = r}
TakenBeds(s, r)  == {s[p].bed : p \in Occupants(s, r)}
Occupancy(s, r)  == Cardinality(Occupants(s, r))
IsSeated(p)      == seat[p].room # NoRoom
IsRegistered(p)  == presence[p] \in {"resident", "departed"}
OpenZimmet(p)    == {i \in Items : zimmet[i].owner = p /\ zimmet[i].state = "open"}

\* Mutant of HasFreeBed: off by one.
HasFreeBedMutant(r) == Occupancy(seat, r) <= activeBeds[r]

\* COUNT(*) of active rows < rooms.active_beds
HasFreeBed(r) == Occupancy(seat, r) < activeBeds[r]

\* no active row in the room belongs to somebody of another shift
ShiftFits(p, r) == \A q \in Occupants(seat, r) : shift[q] = shift[p]

\* Mutant of TriggerAllows: the trigger is not created.
TriggerAllowsMutant(r) == r \in Rooms

\* the trigger block_quarantine_assignment lets a row into the room
TriggerAllows(r) == status[r] # "quarantine"

\* Mutant of Placements: the numbering "active rows + 1" that nextFreeBedNo
\* replaced.
PlacementsMutant(s, r, S) ==
    {f \in [S -> BedNos] :
        /\ \A p \in S : f[p] > Occupancy(s, r) /\ f[p] <= Occupancy(s, r) + Cardinality(S)
        /\ \A p, q \in S : p # q => f[p] # f[q]}

\* The bed numbers that inserting the people of S into room r one after the
\* other can give them, each insert taking the smallest number not taken.
Placements(s, r, S) ==
    {f \in [S -> BedNos] :
        /\ \A p \in S : f[p] \notin TakenBeds(s, r)
        /\ \A p, q \in S : p # q => f[p] # f[q]
        /\ \A p \in S : \A c \in 1 .. (f[p] - 1) :
              c \in TakenBeds(s, r) \/ \E q \in S : f[q] = c}

Vacated(s, S) == [p \in Persons |-> IF p \in S THEN NoSeat ELSE s[p]]

Seated(s, r, f) ==
    [p \in Persons |-> IF p \in DOMAIN f THEN [room |-> r, bed |-> f[p]] ELSE s[p]]

\* no two people of a seat map hold the same bed of the same room
BedsDistinct(s) ==
    \A p, q \in Persons :
        p # q /\ s[p].room # NoRoom /\ s[p].room = s[q].room => s[p].bed # s[q].bed

-----------------------------------------------------------------------------
Init ==
    /\ presence = [p \in Persons |-> "unregistered"]
    /\ seat = [p \in Persons |-> NoSeat]
    /\ shift = [p \in Persons |-> "day"]
    /\ status = [r \in Rooms |-> "active"]
    /\ activeBeds = Capacity
    /\ zimmet = [i \in Items |-> [owner |-> NoOwner, state |-> "none"]]
    /\ cards = {}
    /\ forced = {}
    /\ imports = {}

-----------------------------------------------------------------------------
(* modules/checkin *)

\* registerService: a person found by TC or passport is returned unchanged,
\* only a new one is inserted.
InsertPersonnel(p) ==
    /\ presence[p] = "unregistered"
    /\ presence' = [presence EXCEPT ![p] = "resident"]
    /\ UNCHANGED <<seat, shift, roomVars, sideVars>>

\* setShift: an upsert without a look at the room or at check_out_date.
SetShift(p, t) ==
    /\ IsRegistered(p)
    /\ shift' = [shift EXCEPT ![p] = t]
    /\ UNCHANGED <<presence, seat, roomVars, sideVars>>

AssignRoom(p, r) ==
    /\ status[r] = "active"
    /\ IsRegistered(p)
    /\ ~IsSeated(p)
    /\ HasFreeBed(r)
    /\ ShiftFits(p, r)
    /\ \E f \in Placements(seat, r, {p}) : seat' = Seated(seat, r, f)
    /\ presence' = [presence EXCEPT ![p] = "resident"]
    /\ UNCHANGED <<shift, roomVars, sideVars>>

\* insertPlaceholderBatch: anonymous people are inserted and seated in one
\* transaction; only the trigger looks at the room's status.
InsertPlaceholderBatch(r, S) ==
    /\ S # {}
    /\ \A p \in S : presence[p] = "unregistered"
    /\ Cardinality(S) + Occupancy(seat, r) <= activeBeds[r]
    /\ TriggerAllows(r)
    /\ \E f \in Placements(seat, r, S) : seat' = Seated(seat, r, f)
    /\ presence' = [p \in Persons |-> IF p \in S THEN "resident" ELSE presence[p]]
    /\ UNCHANGED <<shift, roomVars, sideVars>>

AddZimmet(p, I) ==
    /\ I # {}
    /\ IsRegistered(p)
    /\ \A i \in I : zimmet[i].state = "none"
    /\ zimmet' = [i \in Items |-> IF i \in I THEN [owner |-> p, state |-> "open"] ELSE zimmet[i]]
    /\ UNCHANGED <<presence, seat, shift, roomVars, cards, forced, imports>>

\* What UPDATE zimmet ... WHERE id IN I AND returned_at IS NULL leaves.
Return(I, condition) ==
    [i \in Items |-> IF i \in I /\ zimmet[i].state = "open"
                     THEN [zimmet[i] EXCEPT !.state = condition]
                     ELSE zimmet[i]]

ReturnZimmet(i, condition) ==
    /\ zimmet' = Return({i}, condition)
    /\ UNCHANGED <<presence, seat, shift, roomVars, cards, forced, imports>>

ReturnAllZimmet(p, condition) ==
    /\ zimmet' = Return(OpenZimmet(p), condition)
    /\ UNCHANGED <<presence, seat, shift, roomVars, cards, forced, imports>>

-----------------------------------------------------------------------------
(* modules/checkout *)

\* revokeLaundryCards, which every way out calls.
WithoutCards(S) == cards \ S

\* processCheckout: refused while an open item of the person is not among
\* zimmet_actions; an action on somebody else's item, or on one already
\* returned, changes nothing.  The person may already have left.
ProcessCheckout(p, actions) ==
    /\ OpenZimmet(p) \subseteq DOMAIN actions
    /\ zimmet' = [i \in Items |->
                    IF i \in OpenZimmet(p) THEN [zimmet[i] EXCEPT !.state = actions[i]]
                                           ELSE zimmet[i]]
    /\ seat' = Vacated(seat, {p})
    /\ cards' = WithoutCards({p})
    /\ presence' = [presence EXCEPT ![p] = IF IsRegistered(p) THEN "departed" ELSE @]
    /\ UNCHANGED <<shift, roomVars, forced, imports>>

-----------------------------------------------------------------------------
(* modules/capacity *)

UpdateActiveBeds(r, n) ==
    /\ Occupancy(seat, r) <= n
    /\ n <= Capacity[r]
    /\ activeBeds' = [activeBeds EXCEPT ![r] = n]
    /\ UNCHANGED <<presence, seat, shift, status, sideVars>>

\* A room that goes to quarantine or maintenance loses its occupants, who
\* stay residents without a room and keep their laundry cards.
BulkUpdateRoomStatus(R, st) ==
    /\ status' = [r \in Rooms |-> IF r \in R THEN st ELSE status[r]]
    /\ seat' = IF st = "active" THEN seat
               ELSE Vacated(seat, {p \in Persons : seat[p].room \in R})
    /\ UNCHANGED <<presence, shift, activeBeds, sideVars>>

\* Mutant of BulkAssignToRoom: the shift of an empty room is not fixed by the
\* first person placed.
BulkAssignToRoomMutant(r, S) ==
    LET incoming == {p \in S : ~IsSeated(p)}
    IN  /\ status[r] = "active"
        /\ incoming # {}
        /\ \A p \in S : IsRegistered(p)
        /\ Occupancy(seat, r) + Cardinality(incoming) <= activeBeds[r]
        /\ Occupants(seat, r) # {} =>
              \E q \in Occupants(seat, r) : \A p \in incoming : shift[p] = shift[q]
        /\ \E f \in Placements(seat, r, incoming) : seat' = Seated(seat, r, f)
        /\ UNCHANGED <<presence, shift, roomVars, sideVars>>

\* bulkAssignToRoom: all or nothing.  People who have a room are skipped, the
\* shift of the room is that of one of its occupants (LIMIT 1) or, in an empty
\* room, of the first person placed; check_out_date is not looked at.
BulkAssignToRoom(r, S) ==
    LET incoming == {p \in S : ~IsSeated(p)}
    IN  /\ status[r] = "active"
        /\ incoming # {}
        /\ \A p \in S : IsRegistered(p)
        /\ Occupancy(seat, r) + Cardinality(incoming) <= activeBeds[r]
        /\ \E t \in Shifts :
              /\ Occupants(seat, r) # {} => \E q \in Occupants(seat, r) : shift[q] = t
              /\ \A p \in incoming : shift[p] = t
        /\ \E f \in Placements(seat, r, incoming) : seat' = Seated(seat, r, f)
        /\ UNCHANGED <<presence, shift, roomVars, sideVars>>

BulkRemoveFromRooms(S) ==
    /\ seat' = Vacated(seat, S)
    /\ UNCHANGED <<presence, shift, roomVars, sideVars>>

RemoveFromRoom(p) ==
    /\ IsSeated(p)
    /\ BulkRemoveFromRooms({p})

\* Mutant of BulkCheckout: the zimmet check is skipped without force too.
BulkCheckoutMutant(S, force) ==
    /\ seat' = Vacated(seat, S)
    /\ presence' = [p \in Persons |->
                      IF p \in S /\ presence[p] = "resident" THEN "departed" ELSE presence[p]]
    /\ cards' = WithoutCards(S)
    /\ forced' = IF force THEN forced \cup {p \in S : OpenZimmet(p) # {}} ELSE forced
    /\ UNCHANGED <<shift, roomVars, zimmet, imports>>

\* bulkCheckout: refused, unless forced, when anybody has an open item; a
\* forced checkout leaves the items open and an audit row for their holders.
BulkCheckout(S, force) ==
    LET holders == {p \in S : OpenZimmet(p) # {}}
    IN  /\ force \/ holders = {}
        /\ seat' = Vacated(seat, S)
        /\ presence' = [p \in Persons |->
                          IF p \in S /\ presence[p] = "resident" THEN "departed" ELSE presence[p]]
        /\ cards' = WithoutCards(S)
        /\ forced' = forced \cup holders
        /\ UNCHANGED <<shift, roomVars, zimmet, imports>>

\* Mutant of SwapPersonnel: people keep their bed numbers.
SwapPersonnelMutant(p, q) ==
    /\ IsSeated(p) /\ IsSeated(q)
    /\ seat[p].room # seat[q].room
    /\ TriggerAllows(seat[p].room) /\ TriggerAllows(seat[q].room)
    /\ seat' = [seat EXCEPT ![p].room = seat[q].room, ![q].room = seat[p].room]
    /\ UNCHANGED <<presence, shift, roomVars, sideVars>>

\* swapPersonnel: the two active rows are closed and reopened crosswise with
\* room and bed; neither the shifts nor the rooms are looked at, apart from
\* the trigger.
SwapPersonnel(p, q) ==
    /\ IsSeated(p) /\ IsSeated(q)
    /\ seat[p].room # seat[q].room
    /\ TriggerAllows(seat[p].room) /\ TriggerAllows(seat[q].room)
    /\ seat' = [seat EXCEPT ![p] = seat[q], ![q] = seat[p]]
    /\ UNCHANGED <<presence, shift, roomVars, sideVars>>

\* reassignPersonnel: also serves people without a room; check_out_date is
\* not looked at.  The person's own row still counts when the new room is
\* checked, and is closed before the bed is chosen.
ReassignPersonnel(p, r) ==
    /\ status[r] = "active"
    /\ IsRegistered(p)
    /\ HasFreeBed(r)
    /\ ShiftFits(p, r)
    /\ LET closed == Vacated(seat, {p})
       IN  \E f \in Placements(closed, r, {p}) : seat' = Seated(closed, r, f)
    /\ UNCHANGED <<presence, shift, roomVars, sideVars>>

-----------------------------------------------------------------------------
(* modules/bulk-actions.  Each loop is one transaction that skips the ids  *)
(* it cannot serve and never aborts.                                       *)

CanHost(p, r) == status[r] = "active" /\ HasFreeBed(r) /\ ShiftFits(p, r)

\* One turn of bulkTransferTx: the first candidate room that can take the
\* person.  A transfer of several people is these turns in sequence, each a
\* step of this specification.
BulkTransfer(p, candidates) ==
    /\ presence[p] = "resident"
    /\ \E r \in candidates :
          /\ CanHost(p, r)
          /\ \A r2 \in candidates : CanHost(p, r2) => WalkOrder[r] <= WalkOrder[r2]
          /\ LET closed == Vacated(seat, {p})
             IN  \E f \in Placements(closed, r, {p}) : seat' = Seated(closed, r, f)
    /\ UNCHANGED <<presence, shift, roomVars, sideVars>>

BulkTransferToRoom(p, r)  == BulkTransfer(p, {r})
BulkTransferToBlock(p, b) == BulkTransfer(p, {r \in Rooms : BlockOf[r] = b})

\* Mutant of BulkCheckoutTx: the laundry card stays active.
BulkCheckoutTxMutant(S) ==
    /\ \A p \in S : presence[p] = "resident" /\ OpenZimmet(p) = {}
    /\ seat' = Vacated(seat, S)
    /\ presence' = [p \in Persons |-> IF p \in S THEN "departed" ELSE presence[p]]
    /\ UNCHANGED <<shift, roomVars, sideVars>>

\* S stands for the ids of the request that the loop does not skip.
BulkCheckoutTx(S) ==
    /\ \A p \in S : presence[p] = "resident" /\ OpenZimmet(p) = {}
    /\ seat' = Vacated(seat, S)
    /\ presence' = [p \in Persons |-> IF p \in S THEN "departed" ELSE presence[p]]
    /\ cards' = WithoutCards(S)
    /\ UNCHANGED <<shift, roomVars, zimmet, forced, imports>>

BulkSetShift(S, t) ==
    /\ \A p \in S : presence[p] = "resident"
    /\ shift' = [p \in Persons |-> IF p \in S THEN t ELSE shift[p]]
    /\ UNCHANGED <<presence, seat, roomVars, sideVars>>

-----------------------------------------------------------------------------
(* modules/personnel/import *)

\* importPersonnel: new people, each with the room of their row when it is
\* active and not planned full, else with none; nothing looks at shifts.
ImportPersonnel(S, plan) ==
    LET planned(r) == {p \in S : plan[p] = r}
    IN  /\ S # {}
        /\ Cardinality(imports) < MaxImports
        /\ \A p \in S : presence[p] = "unregistered"
        /\ \A r \in Rooms : planned(r) # {} =>
              /\ status[r] = "active"
              /\ Occupancy(seat, r) + Cardinality(planned(r)) <= activeBeds[r]
        /\ \E f \in [S -> BedNos \cup {0}] :
              /\ \A p \in S : plan[p] = NoRoom => f[p] = 0
              /\ \A r \in Rooms :
                    [p \in planned(r) |-> f[p]] \in Placements(seat, r, planned(r))
              /\ seat' = [p \in Persons |->
                            IF p \in S THEN [room |-> plan[p], bed |-> f[p]] ELSE seat[p]]
        /\ presence' = [p \in Persons |-> IF p \in S THEN "resident" ELSE presence[p]]
        /\ imports' = imports \cup {S}
        /\ UNCHANGED <<shift, roomVars, zimmet, cards, forced>>

\* Mutant of UndoPersonnelImport: no trigger deletes the zimmet rows.
UndoPersonnelImportMutant(S) ==
    /\ S \in imports
    /\ imports' = imports \ {S}
    /\ seat' = Vacated(seat, S)
    /\ presence' = [p \in Persons |-> IF p \in S THEN "deleted" ELSE presence[p]]
    /\ shift' = [p \in Persons |-> IF p \in S THEN "day" ELSE shift[p]]
    /\ UNCHANGED <<roomVars, zimmet, cards, forced>>

\* undoPersonnelImport: deletes the batch's people with their assignments; the
\* delete triggers take their shifts and zimmet along, and leave cards alone.
UndoPersonnelImport(S) ==
    /\ S \in imports
    /\ imports' = imports \ {S}
    /\ seat' = Vacated(seat, S)
    /\ presence' = [p \in Persons |-> IF p \in S THEN "deleted" ELSE presence[p]]
    /\ shift' = [p \in Persons |-> IF p \in S THEN "day" ELSE shift[p]]
    /\ zimmet' = [i \in Items |-> IF zimmet[i].owner \in S
                                  THEN [owner |-> NoOwner, state |-> "none"]
                                  ELSE zimmet[i]]
    /\ UNCHANGED <<roomVars, cards, forced>>

-----------------------------------------------------------------------------
(* modules/cards, card_type 'laundry' *)

\* issue and enroll-nfc; regenerating a card leaves one active card.
IssueLaundryCard(p) ==
    /\ IsSeated(p)
    /\ cards' = cards \cup {p}
    /\ UNCHANGED <<presence, seat, shift, roomVars, zimmet, forced, imports>>

BulkIssueLaundryCards ==
    /\ cards' = cards \cup {p \in Persons : IsSeated(p)}
    /\ UNCHANGED <<presence, seat, shift, roomVars, zimmet, forced, imports>>

\* revoke and report-lost
RevokeLaundryCard(p) ==
    /\ cards' = WithoutCards({p})
    /\ UNCHANGED <<presence, seat, shift, roomVars, zimmet, forced, imports>>

-----------------------------------------------------------------------------
CheckIn ==
    \/ \E p \in Persons : InsertPersonnel(p)
    \/ \E p \in Persons, t \in Shifts : SetShift(p, t)
    \/ \E p \in Persons, r \in Rooms : AssignRoom(p, r)
    \/ \E r \in Rooms, S \in SUBSET Persons : InsertPlaceholderBatch(r, S)

Zimmet ==
    \/ \E p \in Persons, I \in SUBSET Items : AddZimmet(p, I)
    \/ \E i \in Items, c \in Settled : ReturnZimmet(i, c)
    \/ \E p \in Persons, c \in Settled : ReturnAllZimmet(p, c)

CheckOut ==
    \/ \E p \in Persons, I \in SUBSET Items :
          \E actions \in [I -> Settled] : ProcessCheckout(p, actions)
    \/ \E S \in SUBSET Persons, force \in BOOLEAN : BulkCheckout(S, force)
    \/ \E S \in SUBSET Persons : BulkCheckoutTx(S)

RoomChange ==
    \/ \E r \in Rooms : \E n \in 0 .. Capacity[r] : UpdateActiveBeds(r, n)
    \/ \E R \in SUBSET Rooms, st \in Statuses : BulkUpdateRoomStatus(R, st)

Move ==
    \/ \E r \in Rooms, S \in SUBSET Persons : BulkAssignToRoom(r, S)
    \/ \E S \in SUBSET Persons : BulkRemoveFromRooms(S)
    \/ \E p \in Persons : RemoveFromRoom(p)
    \/ \E p, q \in Persons : SwapPersonnel(p, q)
    \/ \E p \in Persons, r \in Rooms : ReassignPersonnel(p, r)
    \/ \E p \in Persons, r \in Rooms : BulkTransferToRoom(p, r)
    \/ \E p \in Persons, r \in Rooms : BulkTransferToBlock(p, BlockOf[r])
    \/ \E S \in SUBSET Persons, t \in Shifts : BulkSetShift(S, t)

Import ==
    \/ \E S \in SUBSET Persons : \E plan \in [S -> Rooms \cup {NoRoom}] : ImportPersonnel(S, plan)
    \/ \E S \in imports : UndoPersonnelImport(S)

Card ==
    \/ \E p \in Persons : IssueLaundryCard(p)
    \/ BulkIssueLaundryCards
    \/ \E p \in Persons : RevokeLaundryCard(p)

Next == CheckIn \/ Zimmet \/ CheckOut \/ RoomChange \/ Move \/ Import \/ Card

Spec == Init /\ [][Next]_vars

-----------------------------------------------------------------------------
(* Safety *)

\* Two people never hold the same bed number of a room, whatever the order of
\* check-ins, removals, swaps, transfers and batches (shared/beds.js: "two
\* people appeared in the same bed" was a bug of the count + 1 numbering).
NoSharedBed == BedsDistinct(seat)

\* A room never holds more people than its active beds, nor has more active
\* beds than its capacity: every placing handler counts for itself, while the
\* bed count is lowered by another one.
OccupancyWithinBeds ==
    \A r \in Rooms : Occupancy(seat, r) <= activeBeds[r] /\ activeBeds[r] <= Capacity[r]

\* A bed number names a bed that exists, even after the active beds were
\* lowered under people who keep high numbers.
BedNumberExists ==
    \A p \in Persons : IsSeated(p) => seat[p].bed \in 1 .. Capacity[seat[p].room]

\* Nobody lives in a quarantined room: closing it empties it and no handler,
\* the ones that never read rooms.status included, puts anybody back.
NoOccupantInQuarantine ==
    \A p \in Persons : IsSeated(p) => status[seat[p].room] # "quarantine"

\* Every active assignment and every open item belongs to an existing
\* personnel row, also after an import is undone underneath later changes.
NoOrphanRows ==
    /\ \A p \in Persons : IsSeated(p) => IsRegistered(p)
    /\ \A i \in Items : zimmet[i].owner # NoOwner => IsRegistered(zimmet[i].owner)

\* Whichever of the ways out a person leaves by, the bed and the laundry card
\* end in the same step.
DepartureEndsStay ==
    \A p \in Persons :
        presence[p] # "departed" /\ presence'[p] = "departed"
            => seat'[p] = NoSeat /\ p \notin cards'

\* Nobody leaves with an open item unless the checkout was forced and the
\* audit row says so.
DepartureSettlesZimmet ==
    \A p \in Persons :
        presence[p] # "departed" /\ presence'[p] = "departed"
            => OpenZimmet(p)' = {} \/ p \in forced'

\* A registered person without a room is never put beside people of the other
\* shift, by check-in, reassignment, transfer or bulk assignment (which looks
\* at one occupant only), as long as the room had one shift before.
OneShift(r) == \A p, q \in Occupants(seat, r) : shift[p] = shift[q]

PlacementKeepsOneShift ==
    \A r \in Rooms :
        /\ OneShift(r)
        /\ \E p \in Occupants(seat', r) : IsRegistered(p) /\ ~IsSeated(p)
        => OneShift(r)'

AlwaysDepartureEndsStay      == [][DepartureEndsStay]_vars
AlwaysDepartureSettlesZimmet == [][DepartureSettlesZimmet]_vars
AlwaysPlacementKeepsOneShift == [][PlacementKeepsOneShift]_vars

-----------------------------------------------------------------------------
(* Refinement *)

\* Seen from its beds, the dormitory is a BedRegistry: its twenty-five handlers
\* only ever empty beds, fill beds that are free and exist, or exchange two,
\* never into a quarantined room and never leaving somebody in one.
Registry == INSTANCE BedRegistry WITH
    holders <- [b \in UNION {{r} \X (1 .. Capacity[r]) : r \in Rooms} |->
                  {p \in Persons : seat[p].room = b[1] /\ seat[p].bed = b[2]}],
    closed  <- {r \in Rooms : status[r] = "quarantine"}

KeepsRegistry == Registry!Spec

-----------------------------------------------------------------------------
(* What the repository says of the program and the code does not keep *)

\* Whoever holds a bed is a resident: a returning person is made one again
\* (comment in assignRoom).
OccupantIsResident == \A p \in Persons : IsSeated(p) => presence[p] = "resident"
=============================================================================
