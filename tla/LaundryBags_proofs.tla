------------------------- MODULE LaundryBags_proofs -------------------------
(***************************************************************************)
(* Proofs about LaundryBags, for any bags, garments and pickup requests.   *)
(*                                                                         *)
(* NoticeStep and RowStep sort the handlers by what they do to the message  *)
(* of a bag and to the rows of bags and garments; the invariants look only *)
(* at those few kinds of steps.                                            *)
(***************************************************************************)
EXTENDS LaundryBags, TLAPS

-----------------------------------------------------------------------------
(* Types *)

LEMMA ParentType ==
    ASSUME TypeOK, NEW b \in Bags, NEW st
    PROVE  ParentStatus(b, st) \in BagStatus
  BY DEF ParentStatus, TypeOK, BagStatus

LEMMA SetByHandType ==
    ASSUME TypeOK, NEW gs \in SUBSET Garments, NEW st \in GarmentStatus, SetByHand(gs, st)
    PROVE  /\ garment' \in [Garments -> GarmentStatus]
           /\ takenBack' \in [Garments -> 0 .. MaxTakeBacks]
           /\ UNCHANGED <<handed, batches>>
  BY LaundryAssumption DEF SetByHand, Moved, TypeOK

LEMMA HandOverType ==
    ASSUME TypeOK, NEW gs \in SUBSET Garments, HandOver(gs)
    PROVE  garment' \in [Garments -> GarmentStatus] /\ handed' \in [Garments -> Nat]
  BY DEF HandOver, Moved, TypeOK, GarmentStatus

LEMMA RemovedType ==
    ASSUME TypeOK, NEW bs \in SUBSET Bags, Removed(bs),
           request' \in [Requests -> {"none", "open", "closed"}],
           link' \in [Requests -> Bags \cup {NoBag}]
    PROVE  TypeOK'
  BY LaundryAssumption DEF Removed, Moved, TypeOK, BagStatus, GarmentStatus

LEMMA TellReadyType ==
    ASSUME TypeOK, NEW b \in Bags, TellReady(b)
    PROVE  /\ noticed' \subseteq Bags /\ messages' \in [Bags -> Nat]
           /\ pulls' \in [Bags -> 0 .. MaxPulls]
  BY DEF TellReady, TypeOK

LEMMA TypeStep == ASSUME TypeOK, [Next]_vars PROVE TypeOK'
<1> USE LaundryAssumption DEF TypeOK, notice, handover, pickup, BagBecomes
<1>1. ASSUME NEW b \in Bags, NEW gs \in SUBSET Garments, NEW is \in SUBSET (gs \cup {b}), CreateItem(b, gs, is)
      PROVE  TypeOK'
  BY <1>1 DEF CreateItem, Moved, BagStatus, GarmentStatus
<1>2. ASSUME NEW b \in Bags, NEW gs \in SUBSET Garments, NEW is \in SUBSET gs,
             CreateIroningItem(b, gs, is) \/ AddGarments(b, gs, is)
      PROVE  TypeOK'
  BY <1>2 DEF CreateIroningItem, AddGarments, Moved, BagStatus, GarmentStatus
<1>3. ASSUME NEW r \in Requests, LaundryRequest(r) \/ \E b \in Bags \cup {NoBag} : ClosePickupRequest(r, b)
      PROVE  TypeOK'
  BY <1>3 DEF LaundryRequest, ClosePickupRequest, Closed
<1>4. ASSUME NEW bs \in SUBSET Bags, UndoIntake(bs)
      PROVE  TypeOK'
  <2>1. request' \in [Requests -> {"none", "open", "closed"}] /\ link' \in [Requests -> Bags \cup {NoBag}]
    BY <1>4 DEF UndoIntake
  <2>2. Removed(bs)
    BY <1>4 DEF UndoIntake
  <2> QED BY <2>1, <2>2, RemovedType
<1>5. ASSUME NEW bs \in SUBSET Bags, NEW ironing \in BOOLEAN, IntakeBags(bs, ironing)
      PROVE  TypeOK'
  BY <1>5 DEF IntakeBags, Closed, BagStatus
<1>6. ASSUME NEW b \in Bags, DeleteItem(b)
      PROVE  TypeOK'
  BY <1>6, RemovedType DEF DeleteItem
<1>7. ASSUME NEW b \in Bags, FinishWash(b) \/ FinishIroning(b) \/ MarkReadyFromLedger(b)
      PROVE  TypeOK'
  <2>1. \/ UNCHANGED notice
        \/ noticed' \subseteq Bags /\ messages' \in [Bags -> Nat] /\ pulls' \in [Bags -> 0 .. MaxPulls]
    BY <1>7, TellReadyType DEF FinishWash, FinishIroning, MarkReadyFromLedger
  <2> QED BY <1>7, <2>1 DEF FinishWash, FinishIroning, MarkReadyFromLedger, BagStatus, GarmentStatus
<1>8. ASSUME NEW b \in Bags,
             StartWash(b) \/ NotifyByHand(b) \/ SetNeedsIroning(b) \/ AdvanceReady(b) \/ LostItem(b) \/ MarkFound(b)
      PROVE  TypeOK'
  BY <1>8 DEF StartWash, NotifyByHand, SetNeedsIroning, AdvanceReady, LostItem, MarkFound, BagStatus
<1>9. ASSUME NEW b \in Bags, NEW st \in BagStatus, RevertItem(b, st)
      PROVE  TypeOK'
  BY <1>9 DEF RevertItem
<1>10. ASSUME NEW b \in Bags, NEW gs \in SUBSET Garments, NEW st \in GarmentStatus, BulkAdvance(b, gs, st)
       PROVE  TypeOK'
  BY <1>10, SetByHandType, ParentType DEF BulkAdvance
<1>11. ASSUME NEW b \in Bags, DeliverItem(b)
       PROVE  TypeOK'
  BY <1>11, HandOverType DEF DeliverItem, Having, GarmentsOf, BagStatus
<1>12. ASSUME NEW b \in Bags, NEW gs \in SUBSET Garments,
              \/ DeliverGarments(b, gs) \/ ApproveDelivery(b, gs)
              \/ \E third \in BOOLEAN : PartialDelivery(b, gs, third)
       PROVE  TypeOK'
  <2>1. CASE DeliverGarments(b, gs)
    BY <2>1, HandOverType, ParentType DEF DeliverGarments
  <2>2. CASE ApproveDelivery(b, gs)
    BY <2>2, HandOverType DEF ApproveDelivery, Finalized, BagStatus
  <2>3. ASSUME NEW third \in BOOLEAN, PartialDelivery(b, gs, third)
        PROVE  TypeOK'
    BY <2>3, HandOverType DEF PartialDelivery, Finalized, BagStatus
  <2> QED BY <1>12, <2>1, <2>2, <2>3
<1>13. ASSUME NEW g \in Garments,
              \/ AdvanceGarment(g) \/ FoundGarment(g)
              \/ \E st \in GarmentStatus : SetGarmentIroning(g, st)
       PROVE  TypeOK'
  <2>1. CASE AdvanceGarment(g)
    BY <2>1, ParentType DEF AdvanceGarment, Moved, GarmentStatus
  <2>2. CASE FoundGarment(g)
    BY <2>2 DEF FoundGarment, Moved, GarmentStatus, BagStatus
  <2>3. ASSUME NEW st \in GarmentStatus, SetGarmentIroning(g, st)
        PROVE  TypeOK'
    BY <2>3 DEF SetGarmentIroning, Moved
  <2> QED BY <1>13, <2>1, <2>2, <2>3
<1>14. ASSUME NEW g \in Garments, NEW reason \in DOMAIN ExceptionStatus, GarmentException(g, reason)
       PROVE  TypeOK'
  <2>1. ExceptionStatus[reason] \in GarmentStatus
    BY DEF ExceptionStatus, GarmentStatus
  <2>2. SetByHand({g}, ExceptionStatus[reason])
    BY <1>14 DEF GarmentException
  <2>3. /\ garment' \in [Garments -> GarmentStatus]
        /\ takenBack' \in [Garments -> 0 .. MaxTakeBacks]
        /\ UNCHANGED <<handed, batches>>
    BY <2>1, <2>2, SetByHandType
  <2>4. reports' \in [Garments -> 0 .. MaxReports] /\ irons' \subseteq Bags \cup Garments
    BY <1>14 DEF GarmentException
  <2> QED BY <1>14, <2>3, <2>4 DEF GarmentException
<1>15. CASE BlockToStandard
  BY <1>15 DEF BlockToStandard, Moved, BagStatus, GarmentStatus
<1>16. CASE UNCHANGED vars
  BY <1>16 DEF vars
<1>17. ASSUME NEW b \in Bags, MarkReadyWithdrawn(b)
       PROVE  TypeOK'
  BY <1>17 DEF MarkReadyWithdrawn
<1> HIDE DEF TypeOK, notice, handover, pickup, BagBecomes
<1> QED BY <1>1, <1>2, <1>3, <1>4, <1>5, <1>6, <1>7, <1>8, <1>9, <1>10, <1>11, <1>12, <1>13, <1>14, <1>15, <1>16, <1>17
       DEF Next

\* Bags, garments, requests and their counters stay well typed.
THEOREM LaundryTypeCorrect == Spec => []TypeOK
<1>1. Init => TypeOK
  BY LaundryAssumption DEF Init, TypeOK, BagStatus, GarmentStatus
<1> QED BY <1>1, TypeStep, PTL DEF Spec

-----------------------------------------------------------------------------
(* The message that a bag is ready *)

\* A bag that has had its message since it last left the shelf is stamped.
Told == \A b \in Bags : messages[b] <= pulls[b] + (IF b \in noticed THEN 1 ELSE 0)

LEMMA NoticeStep ==
    ASSUME [Next]_vars
    PROVE  \/ UNCHANGED notice
           \/ \E b \in Bags : TellReady(b) \/ NotifyByHand(b) \/ MarkReadyWithdrawn(b)
           \/ \E b \in Bags, st \in BagStatus : RevertItem(b, st)
           \/ \E bs \in SUBSET Bags : Removed(bs)
<1>1. ASSUME NEW b \in Bags, NEW gs \in SUBSET Garments, NEW is,
             CreateItem(b, gs, is) \/ CreateIroningItem(b, gs, is) \/ AddGarments(b, gs, is)
      PROVE  UNCHANGED notice
  BY <1>1 DEF CreateItem, CreateIroningItem, AddGarments
<1>2. ASSUME NEW r \in Requests, LaundryRequest(r) \/ \E b \in Bags \cup {NoBag} : ClosePickupRequest(r, b)
      PROVE  UNCHANGED notice
  BY <1>2 DEF LaundryRequest, ClosePickupRequest
<1>3. ASSUME NEW bs \in SUBSET Bags, UndoIntake(bs) \/ \E ironing \in BOOLEAN : IntakeBags(bs, ironing)
      PROVE  Removed(bs) \/ UNCHANGED notice
  BY <1>3 DEF UndoIntake, IntakeBags
<1>4. ASSUME NEW b \in Bags, DeleteItem(b) \/ StartWash(b) \/ SetNeedsIroning(b) \/ AdvanceReady(b)
                             \/ DeliverItem(b) \/ LostItem(b) \/ MarkFound(b)
      PROVE  UNCHANGED notice \/ \E bs \in SUBSET Bags : Removed(bs)
  BY <1>4 DEF DeleteItem, StartWash, SetNeedsIroning, AdvanceReady, DeliverItem, LostItem, MarkFound
<1>5. ASSUME NEW b \in Bags, FinishWash(b) \/ FinishIroning(b) \/ MarkReadyFromLedger(b)
      PROVE  UNCHANGED notice \/ TellReady(b)
  BY <1>5 DEF FinishWash, FinishIroning, MarkReadyFromLedger
<1>6. ASSUME NEW b \in Bags, NEW gs \in SUBSET Garments,
             \/ \E st \in GarmentStatus : BulkAdvance(b, gs, st)
             \/ DeliverGarments(b, gs) \/ ApproveDelivery(b, gs)
             \/ \E third \in BOOLEAN : PartialDelivery(b, gs, third)
      PROVE  UNCHANGED notice
  BY <1>6 DEF BulkAdvance, DeliverGarments, ApproveDelivery, PartialDelivery, Finalized
<1>7. ASSUME NEW g \in Garments,
             \/ AdvanceGarment(g) \/ FoundGarment(g)
             \/ \E st \in GarmentStatus : SetGarmentIroning(g, st)
             \/ \E reason \in DOMAIN ExceptionStatus : GarmentException(g, reason)
      PROVE  UNCHANGED notice
  BY <1>7 DEF AdvanceGarment, FoundGarment, SetGarmentIroning, GarmentException
<1>8. BlockToStandard \/ UNCHANGED vars => UNCHANGED notice
  BY DEF BlockToStandard, vars
<1> QED BY <1>1, <1>2, <1>3, <1>4, <1>5, <1>6, <1>7, <1>8 DEF Next

LEMMA ToldStep == ASSUME TypeOK, Told, [Next]_vars PROVE Told'
<1> USE DEF TypeOK, Told
<1>1. CASE UNCHANGED notice
  BY <1>1 DEF notice
<1>2. ASSUME NEW b \in Bags, TellReady(b)
      PROVE  Told'
  BY <1>2 DEF TellReady, ToTell
<1>3. ASSUME NEW b \in Bags, NotifyByHand(b)
      PROVE  Told'
  BY <1>3 DEF NotifyByHand
<1>4. ASSUME NEW b \in Bags, NEW st \in BagStatus, RevertItem(b, st)
      PROVE  Told'
  BY <1>4 DEF RevertItem, notice
<1>5. ASSUME NEW bs \in SUBSET Bags, Removed(bs)
      PROVE  Told'
  BY <1>5 DEF Removed
<1>6. ASSUME NEW b \in Bags, MarkReadyWithdrawn(b)
      PROVE  Told'
  BY <1>6 DEF MarkReadyWithdrawn, ToTell
<1> HIDE DEF TypeOK, Told
<1> QED BY <1>1, <1>2, <1>3, <1>4, <1>5, <1>6, NoticeStep

\* The resident gets one automatic message, and one more only for each time the
\* bag was taken back from the shelf, or the ledger's transaction was withdrawn after it.
THEOREM ReadyMessageOnce == Spec => []ReadyToldOnce
<1>1. Init => Told
  BY DEF Init, Told
<1>2. TypeOK /\ Told => ReadyToldOnce
  BY LaundryAssumption DEF TypeOK, Told, ReadyToldOnce
<1> QED BY <1>1, <1>2, ToldStep, LaundryTypeCorrect, PTL DEF Spec

-----------------------------------------------------------------------------
(* The rows of bags and garments *)

\* A garment is on record only with its bag, a bag that the field ledger may
\* still undo has none, and what is not on record was never handed over.
Rows ==
    /\ \A g \in Garments : garment[g] # "none" => bag[BagOf[g]] # "none" /\ BagOf[g] \notin field
    /\ \A g \in Garments : garment[g] = "none" => handed[g] = 0
    /\ \A b \in field : bag[b] # "none"
    /\ {} \notin batches

\* A garment is handed over once more than it was taken back, while it is out.
Given == \A g \in Garments :
    handed[g] <= takenBack[g] + (IF garment[g] = "delivered" THEN 1 ELSE 0)

Kept(g)   == /\ handed'[g] = handed[g] /\ takenBack'[g] = takenBack[g]
             /\ garment[g] = "delivered" => garment'[g] = "delivered"
Signed(g) == /\ handed'[g] = handed[g] + 1 /\ takenBack'[g] = takenBack[g]
             /\ garment[g] = "ready" /\ garment'[g] = "delivered"
Taken(g)  == /\ handed'[g] = handed[g] /\ takenBack'[g] = takenBack[g] + 1
             /\ garment[g] = "delivered"

\* A step that neither enters nor removes a bag or a garment.
WorkStep ==
    /\ \A b \in Bags : bag'[b] = "none" <=> bag[b] = "none"
    /\ \A g \in Garments : garment'[g] = "none" <=> garment[g] = "none"
    /\ \A g \in Garments : Kept(g) \/ Signed(g) \/ Taken(g)
    /\ {} \in batches' => {} \in batches
    /\ UNCHANGED field

LEMMA ParentOnRecord ==
    ASSUME TypeOK, NEW b \in Bags, NEW st, bag[b] # "none"
    PROVE  ParentStatus(b, st) # "none"
  BY DEF ParentStatus, TypeOK

LEMMA HandOverGarments ==
    ASSUME TypeOK, NEW gs \in SUBSET Garments, HandOver(gs), \A g \in gs : garment[g] = "ready",
           UNCHANGED takenBack
    PROVE  /\ \A g \in Garments : garment'[g] = "none" <=> garment[g] = "none"
           /\ \A g \in Garments : Kept(g) \/ Signed(g) \/ Taken(g)
  BY DEF HandOver, Moved, TypeOK, Kept, Signed

LEMMA SetByHandGarments ==
    ASSUME TypeOK, NEW gs \in SUBSET Garments, NEW st \in GarmentStatus, SetByHand(gs, st),
           st # "none", \A g \in gs : garment[g] # "none"
    PROVE  /\ \A g \in Garments : garment'[g] = "none" <=> garment[g] = "none"
           /\ \A g \in Garments : Kept(g) \/ Signed(g) \/ Taken(g)
  BY DEF SetByHand, Moved, TypeOK, Kept, Taken

LEMMA FinalizedWork ==
    ASSUME TypeOK, NEW b \in Bags, NEW gs \in SUBSET Garments, Finalized(b, gs), bag[b] # "none",
           \A g \in gs : garment[g] = "ready", batches' \subseteq batches
    PROVE  WorkStep
<1>1. \A c \in Bags : bag'[c] = "none" <=> bag[c] = "none"
  BY DEF Finalized, BagBecomes, TypeOK
<1>2. HandOver(gs) /\ UNCHANGED takenBack /\ UNCHANGED field
  BY DEF Finalized
<1> QED BY <1>1, <1>2, HandOverGarments DEF WorkStep

\* The steps at machines, ironing boards and the shelf.
LEMMA BagWork ==
    ASSUME TypeOK, NEW b \in Bags,
           \/ StartWash(b) \/ FinishWash(b) \/ FinishIroning(b) \/ MarkReadyFromLedger(b)
           \/ MarkReadyWithdrawn(b) \/ NotifyByHand(b) \/ SetNeedsIroning(b) \/ AdvanceReady(b) \/ LostItem(b) \/ MarkFound(b)
           \/ \E st \in BagStatus : RevertItem(b, st)
    PROVE  WorkStep
<1> USE DEF WorkStep, Kept, handover, BagBecomes, TypeOK
<1>1. CASE FinishWash(b)
  BY <1>1 DEF FinishWash, Washed, Having, GarmentsOf
<1>2. CASE StartWash(b) \/ FinishIroning(b) \/ MarkReadyFromLedger(b) \/ NotifyByHand(b) \/ SetNeedsIroning(b)
  BY <1>2 DEF StartWash, FinishIroning, MarkReadyFromLedger, NotifyByHand, SetNeedsIroning
<1>3. CASE AdvanceReady(b) \/ LostItem(b) \/ MarkFound(b) \/ MarkReadyWithdrawn(b)
  BY <1>3 DEF AdvanceReady, LostItem, MarkFound, MarkReadyWithdrawn
<1>4. ASSUME NEW st \in BagStatus, RevertItem(b, st)
      PROVE  WorkStep
  <2>1. bag[b] # "none" /\ st # "none"
    BY <1>4 DEF RevertItem, ValidReverts
  <2> QED BY <1>4, <2>1 DEF RevertItem
<1> HIDE DEF WorkStep
<1> QED BY <1>1, <1>2, <1>3, <1>4

\* The ways out, and the statuses set by hand.
LEMMA DeliveryWork ==
    ASSUME TypeOK, Rows, NEW b \in Bags, NEW gs \in SUBSET Garments,
           \/ DeliverItem(b) \/ DeliverGarments(b, gs) \/ ApproveDelivery(b, gs)
           \/ \E third \in BOOLEAN : PartialDelivery(b, gs, third)
           \/ \E st \in GarmentStatus : BulkAdvance(b, gs, st)
    PROVE  WorkStep
<1>1. CASE DeliverItem(b)
  <2> DEFINE out == Having(b, {"ready"})
  <2>1. out \in SUBSET Garments /\ \A g \in out : garment[g] = "ready"
    BY DEF Having, GarmentsOf
  <2>2. HandOver(out) /\ UNCHANGED <<takenBack, field, batches>>
    BY <1>1 DEF DeliverItem
  <2>3. \A c \in Bags : bag'[c] = "none" <=> bag[c] = "none"
    BY <1>1 DEF DeliverItem, BagBecomes, TypeOK
  <2> HIDE DEF out
  <2> QED BY <2>1, <2>2, <2>3, HandOverGarments DEF WorkStep
<1>2. CASE DeliverGarments(b, gs)
  <2>1. \A g \in gs : garment[g] = "ready" /\ BagOf[g] = b
    BY <1>2 DEF DeliverGarments, Having, GarmentsOf
  <2>2. bag[b] # "none"
    BY <1>2, <2>1 DEF DeliverGarments, Rows
  <2>3. \A c \in Bags : bag'[c] = "none" <=> bag[c] = "none"
    BY <1>2, <2>2, ParentOnRecord DEF DeliverGarments, BagBecomes, TypeOK
  <2>4. HandOver(gs) /\ UNCHANGED <<takenBack, field, batches>>
    BY <1>2 DEF DeliverGarments
  <2> QED BY <2>1, <2>3, <2>4, HandOverGarments DEF WorkStep
<1>3. CASE ApproveDelivery(b, gs)
  <2>1. \A g \in gs : garment[g] = "ready" /\ BagOf[g] = b
    BY <1>3 DEF ApproveDelivery, StillReady
  <2>2. bag[b] # "none"
    BY <1>3, <2>1 DEF ApproveDelivery, Rows
  <2> QED BY <1>3, <2>1, <2>2, FinalizedWork DEF ApproveDelivery
<1>4. ASSUME NEW third \in BOOLEAN, PartialDelivery(b, gs, third)
      PROVE  WorkStep
  <2>1. CASE third
    BY <1>4, <2>1 DEF PartialDelivery, WorkStep, Kept
  <2>2. CASE ~third
    BY <1>4, <2>2, FinalizedWork DEF PartialDelivery, Having, GarmentsOf
  <2> QED BY <2>1, <2>2
<1>5. ASSUME NEW st \in GarmentStatus, BulkAdvance(b, gs, st)
      PROVE  WorkStep
  <2>1. st # "none" /\ gs # {} /\ \A g \in gs : garment[g] # "none" /\ BagOf[g] = b
    BY <1>5 DEF BulkAdvance, GarmentsOf
  <2>2. bag[b] # "none"
    BY <2>1 DEF Rows
  <2>3. \A c \in Bags : bag'[c] = "none" <=> bag[c] = "none"
    BY <1>5, <2>2, ParentOnRecord DEF BulkAdvance, BagBecomes, TypeOK
  <2>4. SetByHand(gs, st) /\ UNCHANGED field
    BY <1>5 DEF BulkAdvance
  <2>5. UNCHANGED batches
    BY <2>4 DEF SetByHand
  <2> QED BY <2>1, <2>3, <2>4, <2>5, SetByHandGarments DEF WorkStep
<1> QED BY <1>1, <1>2, <1>3, <1>4, <1>5

LEMMA GarmentWork ==
    ASSUME TypeOK, Rows, NEW g \in Garments,
           \/ AdvanceGarment(g) \/ FoundGarment(g)
           \/ \E st \in GarmentStatus : SetGarmentIroning(g, st)
           \/ \E reason \in DOMAIN ExceptionStatus : GarmentException(g, reason)
    PROVE  WorkStep
<1> USE LaundryAssumption DEF BagBecomes, handover
<1>1. CASE AdvanceGarment(g)
  <2>1. bag[BagOf[g]] # "none" /\ ParentStatus(BagOf[g], garment') # "none"
    BY <1>1, ParentOnRecord DEF AdvanceGarment, Rows
  <2> QED BY <1>1, <2>1 DEF AdvanceGarment, Moved, WorkStep, Kept, TypeOK
<1>2. CASE FoundGarment(g)
  <2>1. bag[BagOf[g]] # "none"
    BY <1>2 DEF FoundGarment, Rows
  <2> QED BY <1>2, <2>1 DEF FoundGarment, Moved, WorkStep, Kept, TypeOK
<1>3. ASSUME NEW st \in GarmentStatus, SetGarmentIroning(g, st)
      PROVE  WorkStep
  BY <1>3 DEF SetGarmentIroning, Moved, WorkStep, Kept, TypeOK
<1>4. ASSUME NEW reason \in DOMAIN ExceptionStatus, GarmentException(g, reason)
      PROVE  WorkStep
  <2>1. ExceptionStatus[reason] \in GarmentStatus \ {"none"}
    BY DEF ExceptionStatus, GarmentStatus
  <2>2. SetByHand({g}, ExceptionStatus[reason]) /\ garment[g] # "none" /\ UNCHANGED <<bag, field>>
    BY <1>4 DEF GarmentException
  <2>3. UNCHANGED batches
    BY <2>2 DEF SetByHand
  <2> QED BY <2>1, <2>2, <2>3, SetByHandGarments DEF WorkStep
<1> QED BY <1>1, <1>2, <1>3, <1>4

LEMMA BlockWork == ASSUME TypeOK, BlockToStandard PROVE WorkStep
  BY DEF BlockToStandard, Moved, WorkStep, Kept, TypeOK, handover

LEMMA RowStep ==
    ASSUME TypeOK, Rows, [Next]_vars
    PROVE  \/ WorkStep /\ UNCHANGED pickup
           \/ \E b \in Bags, gs \in SUBSET Garments :
                 \/ \E is \in SUBSET (gs \cup {b}) : CreateItem(b, gs, is)
                 \/ \E is \in SUBSET gs : CreateIroningItem(b, gs, is) \/ AddGarments(b, gs, is)
           \/ \E r \in Requests : LaundryRequest(r) \/ \E b \in Bags \cup {NoBag} : ClosePickupRequest(r, b)
           \/ \E bs \in SUBSET Bags : UndoIntake(bs) \/ \E ironing \in BOOLEAN : IntakeBags(bs, ironing)
           \/ \E b \in Bags : DeleteItem(b)
<1>1. ASSUME NEW b \in Bags,
             \/ StartWash(b) \/ FinishWash(b) \/ FinishIroning(b) \/ MarkReadyFromLedger(b)
             \/ MarkReadyWithdrawn(b) \/ NotifyByHand(b) \/ SetNeedsIroning(b) \/ AdvanceReady(b) \/ LostItem(b) \/ MarkFound(b)
             \/ \E st \in BagStatus : RevertItem(b, st)
      PROVE  WorkStep /\ UNCHANGED pickup
  <2>1. UNCHANGED pickup
    BY <1>1 DEF StartWash, FinishWash, FinishIroning, MarkReadyFromLedger, MarkReadyWithdrawn, NotifyByHand,
                SetNeedsIroning, AdvanceReady, LostItem, MarkFound, RevertItem
  <2> QED BY <1>1, <2>1, BagWork
<1>2. ASSUME NEW b \in Bags, NEW gs \in SUBSET Garments,
             \/ DeliverItem(b) \/ DeliverGarments(b, gs) \/ ApproveDelivery(b, gs)
             \/ \E third \in BOOLEAN : PartialDelivery(b, gs, third)
             \/ \E st \in GarmentStatus : BulkAdvance(b, gs, st)
      PROVE  WorkStep /\ UNCHANGED pickup
  <2>1. UNCHANGED pickup
    BY <1>2 DEF DeliverItem, DeliverGarments, ApproveDelivery, PartialDelivery, Finalized, BulkAdvance
  <2> QED BY <1>2, <2>1, DeliveryWork
<1>3. ASSUME NEW g \in Garments,
             \/ AdvanceGarment(g) \/ FoundGarment(g)
             \/ \E st \in GarmentStatus : SetGarmentIroning(g, st)
             \/ \E reason \in DOMAIN ExceptionStatus : GarmentException(g, reason)
      PROVE  WorkStep /\ UNCHANGED pickup
  <2>1. UNCHANGED pickup
    BY <1>3 DEF AdvanceGarment, FoundGarment, SetGarmentIroning, GarmentException
  <2> QED BY <1>3, <2>1, GarmentWork
<1>4. CASE BlockToStandard
  BY <1>4, BlockWork DEF BlockToStandard
<1>5. CASE UNCHANGED vars
  BY <1>5 DEF vars, handover, WorkStep, Kept
<1>6. ASSUME NEW b \in Bags, DeliverItem(b)
      PROVE  WorkStep /\ UNCHANGED pickup
  <2>1. {} \in SUBSET Garments
    OBVIOUS
  <2> QED BY <1>2, <1>6, <2>1
<1> QED BY <1>1, <1>2, <1>3, <1>4, <1>5, <1>6 DEF Next

LEMMA RemovedRows ==
    ASSUME TypeOK, Rows, NEW bs \in SUBSET Bags, Removed(bs),
           \A g \in Garments : BagOf[g] \in bs => handed[g] = 0
    PROVE  Rows' /\ (Given => Given')
  BY LaundryAssumption DEF Removed, Moved, TypeOK, Rows, Given

LEMMA RowsStep == ASSUME TypeOK, Rows, Given, [Next]_vars PROVE Rows' /\ Given'
<1>1. CASE WorkStep
  <2>1. \A g \in Garments : BagOf[g] \in Bags
    BY LaundryAssumption
  <2>2. Rows'
    <3>1. \A g \in Garments : garment'[g] = "none" => handed'[g] = 0
      BY <1>1 DEF WorkStep, Kept, Signed, Taken, Rows
    <3> QED BY <1>1, <2>1, <3>1 DEF WorkStep, Rows, TypeOK
  <2>3. ASSUME NEW g \in Garments
        PROVE  handed'[g] <= takenBack'[g] + (IF garment'[g] = "delivered" THEN 1 ELSE 0)
    <3>1. Kept(g) \/ Signed(g) \/ Taken(g)
      BY <1>1 DEF WorkStep
    <3>2. handed[g] \in Nat /\ takenBack[g] \in Nat
      BY LaundryAssumption DEF TypeOK
    <3> QED BY <3>1, <3>2 DEF Given, Kept, Signed, Taken
  <2> QED BY <2>2, <2>3 DEF Given
<1>2. ASSUME NEW b \in Bags, NEW gs \in SUBSET Garments,
             \/ \E is \in SUBSET (gs \cup {b}) : CreateItem(b, gs, is)
             \/ \E is \in SUBSET gs : CreateIroningItem(b, gs, is) \/ AddGarments(b, gs, is)
      PROVE  Rows' /\ Given'
  <2>1. /\ \A g \in gs : BagOf[g] = b /\ garment[g] = "none"
        /\ garment' = Moved(gs, "received") \/ garment' = Moved(gs, "ironing")
        /\ UNCHANGED <<handed, takenBack, batches>>
    BY <1>2 DEF CreateItem, CreateIroningItem, AddGarments, Unentered, handover
  <2>2. \A c \in Bags : bag'[c] = "none" => bag[c] = "none" /\ c # b
    BY <1>2 DEF CreateItem, CreateIroningItem, AddGarments, BagBecomes, TypeOK
  <2>3. field' \subseteq field /\ b \notin field'
    BY <1>2 DEF CreateItem, CreateIroningItem, AddGarments, Rows, TypeOK
  <2>4. \A g \in Garments : BagOf[g] \in Bags
    BY LaundryAssumption
  <2> QED BY <2>1, <2>2, <2>3, <2>4 DEF Rows, Given, Moved, TypeOK
<1>3. ASSUME NEW r \in Requests, LaundryRequest(r) \/ \E b \in Bags \cup {NoBag} : ClosePickupRequest(r, b)
      PROVE  Rows' /\ Given'
  BY <1>3 DEF LaundryRequest, ClosePickupRequest, handover, Rows, Given
<1>4. ASSUME NEW bs \in SUBSET Bags, NEW ironing \in BOOLEAN, IntakeBags(bs, ironing)
      PROVE  Rows' /\ Given'
  BY <1>4, LaundryAssumption DEF IntakeBags, handover, Rows, Given, TypeOK
<1>5. ASSUME NEW bs \in SUBSET Bags, UndoIntake(bs)
      PROVE  Rows' /\ Given'
  <2>1. \A g \in Garments : BagOf[g] \in bs => handed[g] = 0
    BY <1>5 DEF UndoIntake, Rows
  <2> QED BY <1>5, <2>1, RemovedRows DEF UndoIntake
<1>6. ASSUME NEW b \in Bags, DeleteItem(b)
      PROVE  Rows' /\ Given'
  <2>1. \A g \in Garments : BagOf[g] \in {b} => handed[g] = 0
    BY <1>6 DEF DeleteItem, GarmentsOf, Rows
  <2> QED BY <1>6, <2>1, RemovedRows DEF DeleteItem
<1> QED BY <1>1, <1>2, <1>3, <1>4, <1>5, <1>6, RowStep

LEMMA RowsInit == Init => Rows /\ Given
  BY DEF Init, Rows, Given

\* A garment is signed for once, by whichever way it leaves, unless it was given
\* another status by hand after it had been handed over.
THEOREM GarmentDeliveredOnce == Spec => []DeliveredOnce
<1>1. TypeOK /\ Given => DeliveredOnce
  BY LaundryAssumption DEF TypeOK, Given, DeliveredOnce
<1> QED BY <1>1, RowsInit, RowsStep, LaundryTypeCorrect, PTL DEF Spec

-----------------------------------------------------------------------------
(* Pickup requests *)

Linked == \A r \in Requests : link[r] # NoBag => request[r] = "closed" /\ bag[link[r]] # "none"

LEMMA RequestsStep ==
    ASSUME TypeOK, Rows, RequestsConsistent, Linked, [Next]_vars
    PROVE  RequestsConsistent' /\ Linked'
<1> USE LaundryAssumption DEF TypeOK, RequestsConsistent, Linked
<1>1. CASE WorkStep /\ UNCHANGED pickup
  BY <1>1 DEF WorkStep, pickup
<1>2. ASSUME NEW b \in Bags, NEW gs \in SUBSET Garments,
             \/ \E is \in SUBSET (gs \cup {b}) : CreateItem(b, gs, is)
             \/ \E is \in SUBSET gs : CreateIroningItem(b, gs, is) \/ AddGarments(b, gs, is)
      PROVE  RequestsConsistent' /\ Linked'
  <2>1. UNCHANGED pickup /\ \A c \in Bags : bag'[c] = "none" => bag[c] = "none"
    BY <1>2 DEF CreateItem, CreateIroningItem, AddGarments, BagBecomes
  <2> QED BY <2>1 DEF pickup
<1>3. ASSUME NEW r \in Requests, LaundryRequest(r)
      PROVE  RequestsConsistent' /\ Linked'
  BY <1>3 DEF LaundryRequest
<1>4. ASSUME NEW r \in Requests, NEW b \in Bags \cup {NoBag}, ClosePickupRequest(r, b)
      PROVE  RequestsConsistent' /\ Linked'
  BY <1>4 DEF ClosePickupRequest, Closed
<1>5. ASSUME NEW bs \in SUBSET Bags, NEW ironing \in BOOLEAN, IntakeBags(bs, ironing)
      PROVE  RequestsConsistent' /\ Linked'
  <2>1. \A c \in Bags : bag'[c] = "none" => bag[c] = "none" /\ c \notin bs
    BY <1>5 DEF IntakeBags
  <2>2. CASE UNCHANGED pickup
    BY <2>1, <2>2 DEF pickup
  <2>3. ASSUME NEW r \in Requests, NEW b \in bs, Closed(r, b)
        PROVE  RequestsConsistent' /\ Linked'
    BY <2>1, <2>3 DEF Closed
  <2> QED BY <1>5, <2>2, <2>3 DEF IntakeBags
<1>6. ASSUME NEW bs \in SUBSET Bags, UndoIntake(bs)
      PROVE  RequestsConsistent' /\ Linked'
  <2> DEFINE linked == {r \in Requests : link[r] \in bs}
  <2>1. link' = [r \in Requests |-> IF r \in linked THEN NoBag ELSE link[r]]
    BY <1>6 DEF UndoIntake
  <2>2. bag' = [b \in Bags |-> IF b \in bs THEN "none" ELSE bag[b]]
    BY <1>6 DEF UndoIntake, Removed
  <2>3. \A r \in linked : request[r] = "closed"
    OBVIOUS
  <2>4. CASE UNCHANGED request
    BY <2>1, <2>2, <2>4
  <2>5. ASSUME NEW opened \in Reopened(linked),
               request' = [r \in Requests |-> IF r \in opened THEN "open" ELSE request[r]]
        PROVE  RequestsConsistent' /\ Linked'
    <3>1. CASE opened = {}
      BY <2>1, <2>2, <2>5, <3>1
    <3>2. ASSUME NEW r \in linked, opened = {r}, \A q \in Requests \ linked : request[q] # "open"
          PROVE  RequestsConsistent' /\ Linked'
      BY <2>1, <2>2, <2>3, <2>5, <3>2
    <3> QED BY <2>5, <3>1, <3>2 DEF Reopened
  <2> QED BY <1>6, <2>4, <2>5 DEF UndoIntake
<1>7. ASSUME NEW b \in Bags, DeleteItem(b)
      PROVE  RequestsConsistent' /\ Linked'
  BY <1>7 DEF DeleteItem, Removed, pickup
<1> HIDE DEF TypeOK, RequestsConsistent, Linked
<1> QED BY <1>1, <1>2, <1>3, <1>4, <1>5, <1>6, <1>7, RowStep

\* The room has one open request, and the bag that a closed one names is there.
THEOREM PickupRequestsConsistent == Spec => []RequestsConsistent
<1>1. Init => RequestsConsistent /\ Linked
  BY DEF Init, RequestsConsistent, Linked
<1> QED BY <1>1, RequestsStep, RowsInit, RowsStep, LaundryTypeCorrect, PTL DEF Spec
=============================================================================
