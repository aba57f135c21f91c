---------------------------- MODULE LaundryBags ----------------------------
(***************************************************************************)
(* The bags of a room in the laundry, from intake to delivery, and the     *)
(* pickup requests its residents make with the QR code of the room.  A bag *)
(* may be tracked: then each garment has a row with a status of its own,   *)
(* and the status of the bag follows from some changes of them.            *)
(*                                                                         *)
(* The kiosk, the management screen, the field ledger and the scanner of   *)
(* a room write the same rows, each with guards of its own.  A handler is  *)
(* one turn of the server.  The message that a bag is ready leaves after   *)
(* its status is stored, so the process may end before it; the field       *)
(* ledger sends it inside the transaction of the whole room, which may     *)
(* still be withdrawn after it.                                            *)
(*                                                                         *)
(* Foreign keys are guards where a handler relies on them (DeleteItem).    *)
(* The unique index on open requests (migration 109) and the key of a      *)
(* request to its bag are not: a step that would break them is an error in *)
(* the program, and RequestsConsistent shows that no step does.            *)
(*                                                                         *)
(* A block switches to premium service and back at any time, so an intake  *)
(* asks for ironing or not.  needs_ironing of a bag is kept only while it  *)
(* has no garments: nothing reads it later.  Why a request was closed      *)
(* (collected, cancelled, expired) is not told apart.  Left out: machines, *)
(* loads and supplies, shelves, cards of residents, incidents, photos, the *)
(* pieces of burst bags (which name no garment), and who acts and when: an *)
(* undo in the field ledger asks for its worker within a day.              *)
(***************************************************************************)
EXTENDS Integers, FiniteSets

CONSTANTS
    Bags, Garments,
    BagOf,          \* the bag a garment is entered with
    Requests,       \* pickup requests of the room
    NoBag,
    MaxPulls,       \* bound: times a bag is taken back from the shelf, or its
                    \*   way there is withdrawn
    MaxTakeBacks,   \* bound: times a handed over garment is changed by hand
    MaxReports      \* bound: open reports of a missing garment

ASSUME LaundryAssumption ==
    /\ BagOf \in [Garments -> Bags] /\ NoBag \notin Bags
    /\ MaxPulls \in Nat /\ MaxTakeBacks \in Nat /\ MaxReports \in Nat

VARIABLES
    bag,         \* laundry_items.status
    garment,     \* premium_garments.status
    irons,       \* bags with needs_ironing, garments with requires_ironing
    noticed,     \* bags with ready_notified_at
    field,       \* bags whose intake the field ledger may undo
    batches,     \* deliveries to third parties that wait for approval
    reports,     \* by garment: missing reports that are not resolved
    request,     \* laundry_pickup_requests.status
    link,        \* laundry_pickup_requests.laundry_item_id
    messages,    \* history: automatic "ready" messages about a bag
    pulls,       \* history: times a bag was taken back from the shelf, or told
                 \*   of and then not put there
    handed,      \* rows of premium_garment_deliveries
    takenBack    \* history: times a delivered garment got another status

notice   == <<noticed, messages, pulls>>
handover == <<handed, takenBack, batches>>
pickup   == <<request, link>>
vars     == <<bag, garment, irons, field, reports, notice, handover, pickup>>

BagStatus     == {"none", "dirty", "washing", "ironing", "ready", "delivered", "lost"}
GarmentStatus == {"none", "received", "ironing", "ready", "delivered", "lost", "damaged"}

TypeOK ==
    /\ bag \in [Bags -> BagStatus] /\ garment \in [Garments -> GarmentStatus]
    /\ irons \subseteq Bags \cup Garments
    /\ noticed \subseteq Bags /\ field \subseteq Bags
    /\ batches \subseteq SUBSET Garments
    /\ reports \in [Garments -> 0 .. MaxReports]
    /\ request \in [Requests -> {"none", "open", "closed"}]
    /\ link \in [Requests -> Bags \cup {NoBag}]
    /\ messages \in [Bags -> Nat] /\ pulls \in [Bags -> 0 .. MaxPulls]
    /\ handed \in [Garments -> Nat] /\ takenBack \in [Garments -> 0 .. MaxTakeBacks]

Init ==
    /\ bag = [b \in Bags |-> "none"] /\ garment = [g \in Garments |-> "none"]
    /\ irons = {} /\ noticed = {} /\ field = {} /\ batches = {}
    /\ reports = [g \in Garments |-> 0]
    /\ request = [r \in Requests |-> "none"] /\ link = [r \in Requests |-> NoBag]
    /\ messages = [b \in Bags |-> 0] /\ pulls = [b \in Bags |-> 0]
    /\ handed = [g \in Garments |-> 0] /\ takenBack = [g \in Garments |-> 0]

-----------------------------------------------------------------------------
(* Helpers. *)

GarmentsOf(b) == {g \in Garments : BagOf[g] = b /\ garment[g] # "none"}
Unentered(b)  == {g \in Garments : BagOf[g] = b /\ garment[g] = "none"}
Having(b, st) == {g \in GarmentsOf(b) : garment[g] \in st}
Tracked(b)    == GarmentsOf(b) # {}

Moved(gs, st)  == [g \in Garments |-> IF g \in gs THEN st ELSE garment[g]]
BagBecomes(b, st) == bag' = [bag EXCEPT ![b] = st]

\* syncParentStatus: the bag after its garments have the statuses st.
ParentStatus(b, st) ==
    LET all(s)  == \A g \in Garments : BagOf[g] = b => st[g] \in s \cup {"none", "lost", "damaged"}
        some(s) == \E g \in Garments : BagOf[g] = b /\ st[g] = s
    IN IF all({"delivered"}) THEN "delivered"
       ELSE IF all({"ready"}) THEN "ready"
       ELSE IF some("ironing") THEN "ironing"
       ELSE IF some("received") THEN "washing"
       ELSE bag[b]

\* Mutant of ToTell: the stamp is not read.
ToTellMutant(b) == {b}

\* markReadyNotified: the stamp is set once, and only then a message leaves.
ToTell(b) == {b} \ noticed

\* After the status is written the process may end before the stamp, or
\* between it and the message; nobody sends that message later.
TellReady(b) ==
    /\ \/ UNCHANGED <<noticed, messages>>
       \/ /\ ToTell(b) # {}
          /\ noticed' = noticed \cup {b}
          /\ messages' \in {messages, [messages EXCEPT ![b] = @ + 1]}
    /\ UNCHANGED pulls

HandOver(gs) ==
    /\ garment' = Moved(gs, "delivered")
    /\ handed' = [g \in Garments |-> IF g \in gs THEN handed[g] + 1 ELSE handed[g]]

\* Garments get a status by hand, delivered ones too.
SetByHand(gs, st) ==
    LET back == {g \in gs : garment[g] = "delivered"}
    IN /\ \A g \in back : takenBack[g] < MaxTakeBacks
       /\ garment' = Moved(gs, st)
       /\ takenBack' = [g \in Garments |-> IF g \in back THEN takenBack[g] + 1 ELSE takenBack[g]]
       /\ UNCHANGED <<handed, batches>>

-----------------------------------------------------------------------------
(* Intake and pickup requests. *)

\* A bag with a row for each garment of gs, or with none.
CreateItem(b, gs, is) ==
    /\ bag[b] = "none" /\ BagBecomes(b, "dirty")
    /\ gs \subseteq Unentered(b) /\ garment' = Moved(gs, "received")
    /\ is \subseteq (IF gs = {} THEN {b} ELSE gs) /\ irons' = irons \cup is
    /\ UNCHANGED <<field, reports, notice, handover, pickup>>

\* The older endpoint of the kiosk: in a premium block straight to ironing.
CreateIroningItem(b, gs, is) ==
    /\ bag[b] = "none" /\ BagBecomes(b, "ironing")
    /\ gs # {} /\ gs \subseteq Unentered(b) /\ garment' = Moved(gs, "ironing")
    /\ is \subseteq gs /\ irons' = irons \cup is
    /\ UNCHANGED <<field, reports, notice, handover, pickup>>

\* A further request of the room is merged into the open one.
LaundryRequest(r) ==
    /\ request[r] = "none" /\ \A q \in Requests : request[q] # "open"
    /\ request' = [request EXCEPT ![r] = "open"]
    /\ UNCHANGED <<bag, garment, irons, field, reports, notice, handover, link>>

\* Mutant of Closed: the request gets its bag and stays open.
ClosedMutant(r, b) ==
    /\ request[r] = "open"
    /\ link' = [link EXCEPT ![r] = IF b = NoBag THEN @ ELSE b]
    /\ UNCHANGED request

\* link is kept if no bag is named.
Closed(r, b) ==
    /\ request[r] = "open"
    /\ request' = [request EXCEPT ![r] = "closed"]
    /\ link' = [link EXCEPT ![r] = IF b = NoBag THEN @ ELSE b]

ClosePickupRequest(r, b) ==
    /\ b # NoBag => bag[b] # "none"
    /\ Closed(r, b)
    /\ UNCHANGED <<bag, garment, irons, field, reports, notice, handover>>

\* The field ledger opens the bags and closes the room's request with the first.
IntakeBags(bs, ironing) ==
    /\ bs # {} /\ \A b \in bs : bag[b] = "none"
    /\ bag' = [b \in Bags |-> IF b \in bs THEN "dirty" ELSE bag[b]]
    /\ irons' = IF ironing THEN irons \cup bs ELSE irons
    /\ field' = field \cup bs
    /\ \/ (\A r \in Requests : request[r] # "open") /\ UNCHANGED pickup
       \/ \E r \in Requests, b \in bs : Closed(r, b)
    /\ UNCHANGED <<garment, reports, notice, handover>>

AddGarments(b, gs, is) ==
    /\ bag[b] # "none" /\ gs # {} /\ gs \subseteq Unentered(b) /\ is \subseteq gs
    /\ garment' = Moved(gs, "received") /\ irons' = (irons \ {b}) \cup is
    /\ field' = field \ {b}
    /\ UNCHANGED <<bag, reports, notice, handover, pickup>>

\* The rows of the bags and, by cascade, of their garments.
Removed(bs) ==
    LET gs == {g \in Garments : BagOf[g] \in bs}
    IN /\ bag' = [b \in Bags |-> IF b \in bs THEN "none" ELSE bag[b]]
       /\ garment' = Moved(gs, "none")
       /\ irons' = irons \ (bs \cup gs) /\ field' = field \ bs
       /\ reports' = [g \in Garments |-> IF g \in gs THEN 0 ELSE reports[g]]
       /\ takenBack' = [g \in Garments |-> IF g \in gs THEN 0 ELSE takenBack[g]]
       /\ noticed' = noticed \ bs
       /\ messages' = [b \in Bags |-> IF b \in bs THEN 0 ELSE messages[b]]
       /\ pulls' = [b \in Bags |-> IF b \in bs THEN 0 ELSE pulls[b]]
       /\ UNCHANGED <<handed, batches>>

\* Foreign keys keep a bag with a delivery, a batch or a request.
DeleteItem(b) ==
    /\ bag[b] = "dirty"
    /\ \A r \in Requests : link[r] # b
    /\ \A g \in GarmentsOf(b) : handed[g] = 0 /\ \A p \in batches : g \notin p
    /\ Removed({b})
    /\ UNCHANGED pickup

\* At most one of the requests that lose their bag is opened again.
Reopened(linked) ==
    IF \E q \in Requests \ linked : request[q] = "open" THEN {{}} ELSE {{r} : r \in linked}

UndoIntake(bs) ==
    LET linked == {r \in Requests : link[r] \in bs}
    IN /\ bs # {} /\ bs \subseteq field
       /\ \A b \in bs : bag[b] = "dirty"
       /\ IF linked = {} THEN UNCHANGED request
          ELSE \E opened \in Reopened(linked) :
             request' = [r \in Requests |-> IF r \in opened THEN "open" ELSE request[r]]
       /\ link' = [r \in Requests |-> IF r \in linked THEN NoBag ELSE link[r]]
       /\ Removed(bs)

-----------------------------------------------------------------------------
(* Washing and ironing. *)

StartWash(b) ==
    /\ bag[b] = "dirty" /\ BagBecomes(b, "washing")
    /\ UNCHANGED <<garment, irons, field, reports, notice, handover, pickup>>

\* A garment that was handed over, lost or damaged stays so.
Washed(b) == GarmentsOf(b) \ Having(b, {"lost", "damaged", "delivered"})

\* advanceItem: one garment that requires ironing, whatever its status, sends
\* the bag to ironing.
FinishWash(b) ==
    LET toIron == irons \cap (IF Tracked(b) THEN GarmentsOf(b) ELSE {b})
    IN /\ bag[b] = "washing"
       /\ garment' = [g \in Garments |-> IF g \notin Washed(b) THEN garment[g]
                                         ELSE IF g \in irons THEN "ironing" ELSE "ready"]
       /\ IF toIron # {} THEN BagBecomes(b, "ironing") /\ UNCHANGED notice
          ELSE BagBecomes(b, "ready") /\ TellReady(b)
       /\ UNCHANGED <<irons, field, reports, handover, pickup>>

\* The kiosk asks for its garments first; the management screen does not.
FinishIroning(b) ==
    /\ bag[b] = "ironing" /\ BagBecomes(b, "ready")
    /\ TellReady(b)
    /\ UNCHANGED <<garment, irons, field, reports, handover, pickup>>

\* The ledger on paper records no steps between intake and the shelf.
MarkReadyFromLedger(b) ==
    /\ bag[b] \in {"dirty", "washing", "ironing"} /\ ~Tracked(b)
    /\ BagBecomes(b, "ready") /\ TellReady(b)
    /\ UNCHANGED <<garment, irons, field, reports, handover, pickup>>

\* markRoomReady of the field ledger: the message of a bag leaves, then a later write
\* of the room's transaction fails or the process ends, and status and stamp are gone.
MarkReadyWithdrawn(b) ==
    /\ bag[b] \in {"dirty", "washing", "ironing"} /\ ~Tracked(b)
    /\ ToTell(b) # {} /\ pulls[b] < MaxPulls
    /\ messages' = [messages EXCEPT ![b] = @ + 1] /\ pulls' = [pulls EXCEPT ![b] = @ + 1]
    /\ UNCHANGED <<bag, garment, irons, field, reports, noticed, handover, pickup>>

\* A message sent by hand is not counted, but keeps the automatic one away.
NotifyByHand(b) ==
    /\ bag[b] # "none" /\ noticed' = noticed \cup {b}
    /\ UNCHANGED <<bag, garment, irons, field, reports, messages, pulls, handover, pickup>>

SetNeedsIroning(b) ==
    /\ bag[b] # "none" /\ ~Tracked(b)
    /\ irons' \in {irons \cup {b}, irons \ {b}}
    /\ UNCHANGED <<bag, garment, field, reports, notice, handover, pickup>>

SetGarmentIroning(g, st) ==
    /\ bag[BagOf[g]] = "ironing" /\ g \in irons /\ st \in {"ironing", "ready"}
    /\ garment[g] \in {"received", "ironing", "ready"}
    /\ garment' = Moved({g}, st)
    /\ UNCHANGED <<bag, irons, field, reports, notice, handover, pickup>>

AdvanceGarment(g) ==
    /\ garment[g] \in {"received", "ironing"}
    /\ garment' = Moved({g}, IF garment[g] = "received" THEN "ironing" ELSE "ready")
    /\ BagBecomes(BagOf[g], ParentStatus(BagOf[g], garment'))
    /\ UNCHANGED <<irons, field, reports, notice, handover, pickup>>

\* Also what a scan in the room does to a lost garment.
BulkAdvance(b, gs, st) ==
    /\ gs # {} /\ gs \subseteq GarmentsOf(b) /\ st \in {"ironing", "ready", "lost"}
    /\ SetByHand(gs, st)
    /\ BagBecomes(b, ParentStatus(b, garment'))
    /\ UNCHANGED <<irons, field, reports, notice, pickup>>

ExceptionStatus == [missing |-> "lost", damaged |-> "damaged", other |-> "damaged",
                    no_ironing |-> "ready", rework |-> "ironing"]

GarmentException(g, reason) ==
    /\ garment[g] # "none" /\ bag[BagOf[g]] \in {"ironing", "ready"}
    /\ SetByHand({g}, ExceptionStatus[reason])
    /\ reason = "missing" => reports[g] < MaxReports
    /\ reports' = IF reason = "missing" THEN [reports EXCEPT ![g] = @ + 1] ELSE reports
    /\ irons' = IF reason = "no_ironing" THEN irons \ {g} ELSE irons
    /\ UNCHANGED <<bag, field, notice, pickup>>

\* The block loses premium service: nothing of it is ironed any more.
BlockToStandard ==
    LET active == {b \in Bags : bag[b] \notin {"none", "delivered", "lost"}}
        gs     == {g \in Garments : BagOf[g] \in active}
    IN /\ active # {}
       /\ garment' = Moved({g \in gs : garment[g] = "ironing"}, "ready")
       /\ bag' = [b \in Bags |-> IF b \in active /\ bag[b] = "ironing" THEN "ready" ELSE bag[b]]
       /\ irons' = irons \ (active \cup gs)
       /\ UNCHANGED <<field, reports, notice, handover, pickup>>

-----------------------------------------------------------------------------
(* Delivery, loss and the way back. *)

\* advanceItem takes a ready bag further and looks at no garment.
AdvanceReady(b) ==
    /\ bag[b] = "ready" /\ BagBecomes(b, "delivered")
    /\ UNCHANGED <<garment, irons, field, reports, notice, handover, pickup>>

DeliverItem(b) ==
    /\ bag[b] = "ready" /\ GarmentsOf(b) = Having(b, {"ready", "lost", "damaged"})
    /\ BagBecomes(b, "delivered") /\ HandOver(Having(b, {"ready"}))
    /\ UNCHANGED <<irons, field, reports, notice, takenBack, batches, pickup>>

\* Garments one by one, wherever their bag is.
DeliverGarments(b, gs) ==
    /\ gs # {} /\ gs \subseteq Having(b, {"ready"})
    /\ HandOver(gs)
    /\ BagBecomes(b, ParentStatus(b, garment'))
    /\ UNCHANGED <<irons, field, reports, notice, takenBack, batches, pickup>>

\* finalizeGarmentDelivery: whatever is not ready does not keep the bag.
Finalized(b, gs) ==
    /\ HandOver(gs)
    /\ BagBecomes(b, IF Having(b, {"ready"}) \subseteq gs THEN "delivered" ELSE "ready")
    /\ UNCHANGED <<irons, field, reports, notice, takenBack, pickup>>

\* To a third party only with the approval of a manager.
PartialDelivery(b, gs, thirdParty) ==
    /\ bag[b] = "ready" /\ gs # {} /\ gs \subseteq Having(b, {"ready"})
    /\ \A p \in batches : gs \cap p = {}
    /\ IF thirdParty
       THEN /\ batches' = batches \cup {gs}
            /\ UNCHANGED <<bag, garment, irons, field, reports, notice, handed, takenBack, pickup>>
       ELSE Finalized(b, gs) /\ UNCHANGED batches

\* Mutant of StillReady: what became of the garments meanwhile is not asked.
StillReadyMutant(gs) == TRUE

StillReady(gs) == \A g \in gs : garment[g] = "ready"

ApproveDelivery(b, gs) ==
    /\ gs \in batches /\ \A g \in gs : BagOf[g] = b
    /\ StillReady(gs)
    /\ batches' = batches \ {gs}
    /\ Finalized(b, gs)

LostItem(b) ==
    /\ bag[b] \notin {"none", "delivered"} /\ BagBecomes(b, "lost")
    /\ UNCHANGED <<garment, irons, field, reports, notice, handover, pickup>>

MarkFound(b) ==
    /\ bag[b] = "lost" /\ BagBecomes(b, "ready")
    /\ UNCHANGED <<garment, irons, field, reports, notice, handover, pickup>>

\* A delivered bag goes back to the shelf with the garment that was found.
FoundGarment(g) ==
    LET b == BagOf[g] IN
    /\ bag[b] # "lost" /\ garment[g] = "lost" /\ reports[g] > 0
    /\ reports' = [reports EXCEPT ![g] = @ - 1]
    /\ garment' = Moved({g}, IF bag[b] = "ironing" /\ g \in irons THEN "ironing" ELSE "ready")
    /\ BagBecomes(b, IF bag[b] = "delivered" THEN "ready" ELSE bag[b])
    /\ UNCHANGED <<irons, field, notice, handover, pickup>>

ValidReverts == {<<"washing", "dirty">>, <<"ironing", "dirty">>, <<"ready", "washing">>,
                 <<"ready", "dirty">>, <<"ready", "lost">>, <<"delivered", "ready">>, <<"lost", "dirty">>}

\* Leaving the shelf clears the stamp, so that the resident is told again.
RevertItem(b, st) ==
    /\ <<bag[b], st>> \in ValidReverts /\ BagBecomes(b, st)
    /\ IF bag[b] = "ready"
       THEN /\ pulls[b] < MaxPulls /\ pulls' = [pulls EXCEPT ![b] = @ + 1]
            /\ noticed' = noticed \ {b} /\ UNCHANGED messages
       ELSE UNCHANGED notice
    /\ UNCHANGED <<garment, irons, field, reports, handover, pickup>>

-----------------------------------------------------------------------------
Next ==
    \/ \E b \in Bags, gs \in SUBSET Garments :
          \/ \E is \in SUBSET (gs \cup {b}) : CreateItem(b, gs, is)
          \/ \E is \in SUBSET gs : CreateIroningItem(b, gs, is) \/ AddGarments(b, gs, is)
    \/ \E r \in Requests :
          \/ LaundryRequest(r)
          \/ \E b \in Bags \cup {NoBag} : ClosePickupRequest(r, b)
    \/ \E bs \in SUBSET Bags : UndoIntake(bs) \/ \E ironing \in BOOLEAN : IntakeBags(bs, ironing)
    \/ \E b \in Bags :
          \/ DeleteItem(b) \/ StartWash(b) \/ FinishWash(b) \/ FinishIroning(b)
          \/ MarkReadyFromLedger(b) \/ MarkReadyWithdrawn(b)
          \/ NotifyByHand(b) \/ SetNeedsIroning(b)
          \/ AdvanceReady(b) \/ DeliverItem(b) \/ LostItem(b) \/ MarkFound(b)
          \/ \E st \in BagStatus : RevertItem(b, st)
          \/ \E gs \in SUBSET Garments :
                \/ \E st \in GarmentStatus : BulkAdvance(b, gs, st)
                \/ DeliverGarments(b, gs) \/ ApproveDelivery(b, gs)
                \/ \E third \in BOOLEAN : PartialDelivery(b, gs, third)
    \/ \E g \in Garments :
          \/ AdvanceGarment(g) \/ FoundGarment(g)
          \/ \E st \in GarmentStatus : SetGarmentIroning(g, st)
          \/ \E reason \in DOMAIN ExceptionStatus : GarmentException(g, reason)
    \/ BlockToStandard

Spec == Init /\ [][Next]_vars

-----------------------------------------------------------------------------
\* However a bag leaves the shelf and comes back (garments set by hand, loss and
\* finding, delivery taken back), its resident gets one automatic message, and
\* one more only for each time somebody took the bag back from the shelf, or the
\* field ledger's transaction was withdrawn after its message.
ReadyToldOnce == \A b \in Bags : messages[b] <= pulls[b] + 1

\* A garment is signed for once, by whichever of the five ways out it leaves and
\* however long a batch waited for approval, unless it was given another status
\* by hand after it had been handed over.
DeliveredOnce == \A g \in Garments : handed[g] <= takenBack[g] + 1

\* The room has one open request, also when an intake that closed another one
\* is undone, and only closed requests name bags, which are there: else the undo
\* would be refused by the index or by a foreign key, and could never be done.
RequestsConsistent ==
    /\ \A r, q \in Requests : request[r] = "open" /\ request[q] = "open" => r = q
    /\ \A r \in Requests : link[r] # NoBag => request[r] # "open" /\ bag[link[r]] # "none"

\* The design of the premium laundry has a bag delivered when its garments are;
\* a partial delivery and the management screen deliver it earlier.
DeliveredBagIsDone ==
    \A b \in Bags : bag[b] = "delivered" => Having(b, {"received", "ironing", "ready"}) = {}

\* The kiosk's comment has a message for each bag that leaves ironing; a block
\* that goes standard and a garment set by hand send none.
ReadyBagIsTold == \A b \in Bags : bag[b] = "ready" => b \in noticed
=============================================================================
