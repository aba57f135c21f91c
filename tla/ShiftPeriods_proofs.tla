------------------------- MODULE ShiftPeriods_proofs -------------------------
(***************************************************************************)
(* Proofs about ShiftPeriods, for any staff, days, months, requests and    *)
(* imports.                                                                *)
(***************************************************************************)
EXTENDS ShiftPeriods, TLAPS, FiniteSetTheorems

-----------------------------------------------------------------------------
(* Types *)

\* The days of a request are a number.
LEMMA SpanNat == ASSUME NEW r \in Requests PROVE Cardinality(Span[r]) \in Nat
  BY SheetAssumption, FS_Subset, FS_CardinalityType

\* The counter is kept at zero where it would fall below.
LEMMA FloorIs ==
    ASSUME NEW x \in Int
    PROVE  Max({0, x}) = IF x >= 0 THEN x ELSE 0
<1>1. \E y \in {0, x} : \A z \in {0, x} : y >= z
  <2>1. CASE x >= 0
    BY <2>1
  <2>2. CASE ~(x >= 0)
    BY <2>2
  <2> QED BY <2>1, <2>2
<1>2. Max({0, x}) \in {0, x} /\ \A z \in {0, x} : Max({0, x}) >= z
  BY <1>1 DEF Max
<1> QED BY <1>2

LEMMA FloorNat == ASSUME NEW x \in Int PROVE Max({0, x}) \in Nat
  BY FloorIs

\* All approvals of the days fall: one of the ways a request may end.
LEMMA WholeReset == ASSUME NEW D \in SUBSET Days, Reset(D) PROVE ResetAfter(D)
<1> DEFINE F == ApprovedOf(D)
<1>1. F \in SUBSET F /\ MonthsOf(F) \in SUBSET MonthsOf(F) /\ Fall(D, F, MonthsOf(F))
  BY DEF Reset
<1> QED BY <1>1 DEF ResetAfter

\* The approvals after a write: no month is locked or unlocked by it.
LEMMA ResetTypes ==
    ASSUME TypeOK, NEW D \in SUBSET Days, ResetAfter(D)
    PROVE  /\ day' \in [Days -> {"open", "approved", "doubtful"}]
           /\ period' \in [Months -> {"draft", "submitted", "approved", "locked"}]
<1> PICK F \in SUBSET ApprovedOf(D), M \in SUBSET MonthsOf(ApprovedOf(D)) : Fall(D, F, M)
  BY DEF ResetAfter
<1> QED BY DEF TypeOK, Fall

LEMMA RowTypes ==
    ASSUME NEW s \in {"scheduled", "worked", "off", "on_leave"}
    PROVE  Row(s) \in Cell
  BY DEF Row, Cell, Work

LEMMA CellTypes ==
    ASSUME NEW c \in Cell
    PROVE  Marked(c) \in Cell /\ Cleared(c) \in Cell /\ NoRow \in Cell
<1>1. NoRow \in Cell
  BY DEF NoRow, Cell, Work
<1>2. Marked(c) \in Cell
  BY DEF Marked, Cell
<1>3. Cleared(c) \in Cell
  BY <1>1, RowTypes DEF Cleared
<1> QED BY <1>1, <1>2, <1>3

\* The writers of one cell.
LEMMA WriterTypes ==
    ASSUME TypeOK, NEW p \in Staff, NEW d \in Days,
           \/ \E s \in {"scheduled", "worked", "off", "on_leave"} :
                 \/ \E override \in {FALSE, OnApprovedLeave(p, d)} : Assign(p, d, s, override)
                 \/ DayDetail(p, d, s)
           \/ \E shift \in BOOLEAN, override \in {FALSE, OnApprovedLeave(p, d)} :
                 CreateSegment(p, d, shift, override)
           \/ \E s \in {"scheduled", "off"} : Rotate(p, d, s)
           \/ DeleteRow(p, d) \/ RecordOvertime(p, d) \/ Reconcile(p, d)
    PROVE  TypeOK'
<1>1. cell[p][d] \in Cell
  BY DEF TypeOK
<1>2. PICK row : row \in Cell /\ (SetRow(p, d, row) \/ UNCHANGED cell)
  <2>1. ASSUME NEW s \in {"scheduled", "worked", "off", "on_leave"},
               NEW override \in {FALSE, OnApprovedLeave(p, d)}, Assign(p, d, s, override)
        PROVE  \E row \in Cell : SetRow(p, d, row)
    BY <2>1, RowTypes DEF Assign
  <2>2. ASSUME NEW s \in {"scheduled", "worked", "off", "on_leave"}, DayDetail(p, d, s)
        PROVE  \E row \in Cell : SetRow(p, d, row)
    <3>1. [status |-> s, def |-> s \in Work /\ cell[p][d].def] \in Cell
      BY <1>1 DEF Cell, Work
    <3> QED BY <2>2, <3>1 DEF DayDetail
  <2>8. ASSUME NEW shift \in BOOLEAN, NEW override \in {FALSE, OnApprovedLeave(p, d)},
               CreateSegment(p, d, shift, override)
        PROVE  \E row \in Cell : SetRow(p, d, row) \/ UNCHANGED cell
    <3>1. [status |-> "scheduled", def |-> shift \/ cell[p][d].def] \in Cell
      BY <1>1 DEF Cell, Work
    <3> QED BY <2>8, <3>1 DEF CreateSegment
  <2>3. ASSUME NEW s \in {"scheduled", "off"}, Rotate(p, d, s)
        PROVE  \E row \in Cell : SetRow(p, d, row)
    BY <2>3, RowTypes DEF Rotate
  <2>4. CASE DeleteRow(p, d)
    BY <1>1, <2>4, CellTypes DEF DeleteRow
  <2>5. [cell[p][d] EXCEPT !.status = "worked"] \in Cell
    BY <1>1 DEF Cell, Work
  <2>6. CASE RecordOvertime(p, d)
    BY <1>1, <2>5, <2>6 DEF RecordOvertime
  <2>7. CASE Reconcile(p, d)
    BY <2>5, <2>7 DEF Reconcile
  <2> QED BY <2>1, <2>2, <2>3, <2>4, <2>6, <2>7, <2>8
<1>3. cell' \in [Staff -> [Days -> Cell]]
  <2>1. cell \in [Staff -> [Days -> Cell]]
    BY DEF TypeOK
  <2>2. cell' = cell \/ cell' = [cell EXCEPT ![p] = [cell[p] EXCEPT ![d] = row]]
    BY <1>2 DEF SetRow
  <2>3. [cell[p] EXCEPT ![d] = row] \in [Days -> Cell]
    BY <1>2, <2>1
  <2> QED BY <2>1, <2>2, <2>3
<1>4. ResetAfter({d}) /\ UNCHANGED <<leave, used, locked, opening, batch>>
  BY WholeReset DEF Assign, CreateSegment, DayDetail, Rotate, DeleteRow, RecordOvertime, Reconcile
<1> QED BY <1>3, <1>4, ResetTypes DEF TypeOK

LEMMA SheetTypes ==
    ASSUME TypeOK,
           \/ \E a, b \in Days : CopyWeek(a, b)
           \/ \E d \in Days : ChangeElsewhere(d)
           \/ \E d \in Openings : PostOpening(d)
           \/ \E p \in Staff, d \in Openings : \E force \in {FALSE, OnApprovedLeave(p, d)} :
                 SelectApplicant(p, d, force)
    PROVE  TypeOK'
<1>1. ASSUME NEW a \in Days, NEW b \in Days, CopyWeek(a, b) PROVE TypeOK'
  <2>1. cell' \in [Staff -> [Days -> Cell]]
    BY <1>1 DEF CopyWeek, TypeOK
  <2>2. ResetAfter({b}) /\ UNCHANGED <<leave, used, locked, opening, batch>>
    BY <1>1 DEF CopyWeek
  <2> QED BY <2>1, <2>2, ResetTypes DEF TypeOK
<1>2. ASSUME NEW d \in Days, ChangeElsewhere(d) PROVE TypeOK'
  BY <1>2, ResetTypes DEF ChangeElsewhere, TypeOK
<1>3. ASSUME NEW d \in Openings, PostOpening(d) PROVE TypeOK'
  BY <1>3 DEF PostOpening, TypeOK
<1>4. ASSUME NEW p \in Staff, NEW d \in Openings,
             NEW force \in {FALSE, OnApprovedLeave(p, d)},
             SelectApplicant(p, d, force)
      PROVE  TypeOK'
  <2>1. Row("scheduled") \in Cell /\ d \in Days
    BY RowTypes, SheetAssumption
  <2>2. /\ day' \in [Days -> {"open", "approved", "doubtful"}]
        /\ period' \in [Months -> {"draft", "submitted", "approved", "locked"}]
    BY <1>4 DEF SelectApplicant, Fall, TypeOK
  <2>3. opening' \in [Openings -> {"none", "open"}] /\ cell' \in [Staff -> [Days -> Cell]]
    BY <1>4, <2>1 DEF SelectApplicant, SetRow, TypeOK
  <2> QED BY <1>4, <2>2, <2>3 DEF SelectApplicant, TypeOK
<1> QED BY <1>1, <1>2, <1>3, <1>4

LEMMA TakeBackTypes ==
    ASSUME TypeOK, NEW r \in Requests, TakeBack(r)
    PROVE  cell' \in [Staff -> [Days -> Cell]] /\ used' \in [Staff -> Nat]
<1>1. Of[r] \in Staff /\ used[Of[r]] - Cardinality(Span[r]) \in Int
  BY SpanNat, SheetAssumption DEF TypeOK
<1>2. Max({0, used[Of[r]] - Cardinality(Span[r])}) \in Nat
  BY <1>1, FloorNat
<1>3. used' \in [Staff -> Nat]
  BY <1>1, <1>2 DEF TakeBack, TypeOK
<1>4. \A p \in Staff, d \in Days : Cleared(cell[p][d]) \in Cell
  BY CellTypes DEF TypeOK
<1>5. cell' \in [Staff -> [Days -> Cell]]
  <2>1. cell \in [Staff -> [Days -> Cell]]
    BY DEF TypeOK
  <2> DEFINE after == [d \in Days |-> IF d \in Span[r] THEN Cleared(cell[Of[r]][d])
                                                       ELSE cell[Of[r]][d]]
  <2>2. after \in [Days -> Cell]
    BY <1>1, <1>4, <2>1
  <2>3. cell' = cell \/ cell' = [cell EXCEPT ![Of[r]] = after]
    BY DEF TakeBack
  <2> QED BY <1>1, <2>1, <2>2, <2>3
<1> QED BY <1>3, <1>5

LEMMA LeaveTypes ==
    ASSUME TypeOK, NEW r \in Requests,
           RequestLeave(r) \/ ApproveLeave(r) \/ RejectLeave(r) \/ CancelLeave(r)
    PROVE  TypeOK'
<1>1. Span[r] \in SUBSET Days /\ Of[r] \in Staff
  BY SheetAssumption
<1>2. CASE RequestLeave(r)
  BY <1>2 DEF RequestLeave, TypeOK
<1>3. CASE ApproveLeave(r)
  <2>1. \A p \in Staff, d \in Days : Marked(cell[p][d]) \in Cell
    BY CellTypes DEF TypeOK
  <2>2. cell' \in [Staff -> [Days -> Cell]]
    BY <1>1, <1>3, <2>1 DEF ApproveLeave, TypeOK
  <2>3. used' \in [Staff -> Nat] /\ leave' \in [Requests -> {"none", "pending", "approved", "rejected"}]
    BY <1>1, <1>3, SpanNat DEF ApproveLeave, TypeOK
  <2>4. ResetAfter(Span[r]) /\ UNCHANGED <<locked, opening, batch>>
    BY <1>3 DEF ApproveLeave
  <2> QED BY <1>1, <2>2, <2>3, <2>4, ResetTypes DEF TypeOK
<1>4. CASE RejectLeave(r) \/ CancelLeave(r)
  <2>1. TakeBack(r) /\ ResetAfter(Span[r]) /\ UNCHANGED <<locked, opening, batch>>
    BY <1>4 DEF RejectLeave, CancelLeave
  <2>2. leave' \in [Requests -> {"none", "pending", "approved", "rejected"}]
    BY <1>4 DEF RejectLeave, CancelLeave, TypeOK
  <2> QED BY <1>1, <2>1, <2>2, ResetTypes, TakeBackTypes DEF TypeOK
<1> QED BY <1>2, <1>3, <1>4

\* What an import does to the leave, the counter and its own record.
LEMMA ImportEffect ==
    ASSUME TypeOK, NEW p \in Staff, NEW D \in Imports, NEW s \in {"scheduled", "on_leave"},
           Import(p, D, s)
    PROVE  /\ batch' \in [state : {"applied"}, who : {p}, made : SUBSET Requests,
                          prev : {[d \in D |-> cell[p][d]]}]
           /\ \/ UNCHANGED <<leave, used>>
              \/ \E r \in Requests :
                    /\ Of[r] = p /\ leave[r] = "none" /\ Span[r] = Uncovered(p, D)
                    /\ leave' = [leave EXCEPT ![r] = "approved"]
                    /\ used' = [used EXCEPT ![p] = @ + Cardinality(Span[r])]
  BY DEF Import, ImportLeave

LEMMA ImportTypes ==
    ASSUME TypeOK, NEW p \in Staff, NEW D \in Imports, NEW s \in {"scheduled", "on_leave"},
           Import(p, D, s)
    PROVE  TypeOK'
<1>1. D \subseteq Days /\ Row(s) \in Cell
  BY RowTypes, SheetAssumption
<1>2. cell' \in [Staff -> [Days -> Cell]]
  BY <1>1 DEF Import, TypeOK
<1>3. /\ leave' \in [Requests -> {"none", "pending", "approved", "rejected"}]
      /\ used' \in [Staff -> Nat]
  <2>1. CASE UNCHANGED <<leave, used>>
    BY <2>1 DEF TypeOK
  <2>2. ASSUME NEW r \in Requests, leave' = [leave EXCEPT ![r] = "approved"],
               used' = [used EXCEPT ![p] = @ + Cardinality(Span[r])]
        PROVE  <1>3
    BY <2>2, SpanNat DEF TypeOK
  <2> QED BY <2>1, <2>2, ImportEffect
<1>4. /\ batch'.state = "applied" /\ batch'.who = p /\ batch'.made \in SUBSET Requests
      /\ batch'.prev = [d \in D |-> cell[p][d]]
  BY ImportEffect
<1>5. DOMAIN batch'.prev = D /\ batch'.prev \in [D -> Cell]
  BY <1>1, <1>4 DEF TypeOK
<1>6. Reset({d \in D : cell[p][d] # Row(s)}) /\ UNCHANGED <<locked, opening>>
  BY DEF Import
<1>7. {d \in D : cell[p][d] # Row(s)} \in SUBSET Days
  BY <1>1
<1> QED BY <1>1, <1>2, <1>3, <1>4, <1>5, <1>6, <1>7, ResetTypes, WholeReset DEF TypeOK

LEMMA UndoTypes == ASSUME TypeOK, UndoImport PROVE TypeOK'
<1> DEFINE p == batch.who
           D == DOMAIN batch.prev
           days == UNION {Span[r] : r \in batch.made}
           touched == D \cup days
<1>1. /\ p \in Staff /\ batch.made \subseteq Requests
      /\ D \subseteq Days /\ batch.prev \in [D -> Cell]
  BY DEF UndoImport, TypeOK
<1>2. days \subseteq Days /\ touched \subseteq Days
  BY <1>1, SheetAssumption
<1>3. Cardinality(days) \in Nat
  BY <1>2, SheetAssumption, FS_Subset, FS_CardinalityType
<1>4. /\ leave' = [r \in Requests |-> IF r \in batch.made THEN "none" ELSE leave[r]]
      /\ used' = [used EXCEPT ![p] = Max({0, @ - Cardinality(days)})]
      /\ cell' = [cell EXCEPT ![p] = [d \in Days |->
                    IF d \in D THEN Restored(@[d], batch.prev[d]) ELSE @[d]]]
      /\ Reset(touched)
      /\ batch' = [state |-> "undone"]
      /\ UNCHANGED <<locked, opening>>
  BY DEF UndoImport
<1> HIDE DEF days, touched
<1>5. leave' \in [Requests -> {"none", "pending", "approved", "rejected"}]
  BY <1>4 DEF TypeOK
<1>6. used' \in [Staff -> Nat]
  <2>1. used[p] \in Nat /\ used[p] - Cardinality(days) \in Int
    BY <1>1, <1>3 DEF TypeOK
  <2>2. Max({0, used[p] - Cardinality(days)}) \in Nat
    BY <2>1, FloorNat
  <2> QED BY <1>1, <1>4, <2>2 DEF TypeOK
<1>7. cell' \in [Staff -> [Days -> Cell]]
  <2> DEFINE after == [d \in Days |-> IF d \in D THEN Restored(cell[p][d], batch.prev[d])
                                                 ELSE cell[p][d]]
  <2>1. cell \in [Staff -> [Days -> Cell]] /\ NoRow \in Cell
    BY DEF TypeOK, NoRow, Cell, Work
  <2>2. \A d \in D : Restored(cell[p][d], batch.prev[d]) \in Cell
    BY <1>1, <2>1 DEF Restored
  <2>3. after \in [Days -> Cell]
    BY <1>1, <2>1, <2>2
  <2>4. cell' = [cell EXCEPT ![p] = after]
    BY <1>4
  <2> QED BY <1>1, <2>1, <2>3, <2>4
<1>8. batch'.state = "undone"
  BY <1>4
<1> QED BY <1>2, <1>4, <1>5, <1>6, <1>7, <1>8, ResetTypes, WholeReset DEF TypeOK

LEMMA ApprovalTypes ==
    ASSUME TypeOK,
           \/ \E d \in Days : ReturnDay(d) \/ \E force \in BOOLEAN : ApproveDay(d, force)
           \/ \E m \in Months :
                 \/ SubmitMonth(m) \/ ApproveMonth(m) \/ ReturnMonth(m) \/ ReopenMonth(m)
                 \/ LockMonth(m) \/ PutLock(m) \/ RemoveLock(m)
    PROVE  TypeOK' /\ UNCHANGED <<cell, leave, opening>>
<1>1. ASSUME NEW d \in Days, NEW force \in BOOLEAN, ReturnDay(d) \/ ApproveDay(d, force)
      PROVE  TypeOK' /\ UNCHANGED <<cell, leave, opening>>
  BY <1>1 DEF ReturnDay, ApproveDay, TypeOK
<1>2. ASSUME NEW m \in Months, PutLock(m) \/ RemoveLock(m)
      PROVE  TypeOK' /\ UNCHANGED <<cell, leave, opening>>
  BY <1>2 DEF PutLock, RemoveLock, TypeOK
<1>3. ASSUME NEW m \in Months,
             SubmitMonth(m) \/ ApproveMonth(m) \/ ReturnMonth(m) \/ ReopenMonth(m) \/ LockMonth(m)
      PROVE  TypeOK' /\ UNCHANGED <<cell, leave, opening>>
  BY <1>3 DEF SubmitMonth, ApproveMonth, ReturnMonth, ReopenMonth, LockMonth, SetPeriod, TypeOK
<1> QED BY <1>1, <1>2, <1>3

LEMMA SheetTypeInit == ASSUME Init PROVE TypeOK
  BY SheetAssumption DEF Init, TypeOK, NoRow, NoBatch, Cell, Work

LEMMA SheetTypeStep == ASSUME TypeOK, [Next]_vars PROVE TypeOK'
<1>1. CASE UNCHANGED vars
  BY <1>1 DEF vars, TypeOK
<1> QED BY <1>1, WriterTypes, SheetTypes, LeaveTypes, ImportTypes, UndoTypes, ApprovalTypes
        DEF Next

\* Type correctness.
THEOREM SheetTypeCorrect == Spec => []TypeOK
  BY SheetTypeInit, SheetTypeStep, PTL DEF Spec

-----------------------------------------------------------------------------
(* Leave *)

\* Two live requests of one person never share a day: a request becomes live only when no
\* other over its days is, or when an import made it of days no live request has.
THEOREM LeaveNotDoubled == Spec => []NoDoubleLeave
<1>1. Init => NoDoubleLeave
  BY DEF Init, NoDoubleLeave, Live
<1>2. TypeOK /\ NoDoubleLeave /\ [Next]_vars => NoDoubleLeave'
  <2> SUFFICES ASSUME TypeOK, NoDoubleLeave, [Next]_vars PROVE NoDoubleLeave'
    OBVIOUS
  <2>0. /\ leave \in [Requests -> {"none", "pending", "approved", "rejected"}]
        /\ \A r, q \in Requests : Overlaps(r, q) => Overlaps(q, r)
    BY DEF TypeOK, Overlaps
  <2>1. ASSUME \A r \in Requests : leave'[r] \in {"pending", "approved"} => Live(r)
        PROVE  NoDoubleLeave'
    BY <2>1 DEF NoDoubleLeave, Live, Overlaps
  <2>2. ASSUME NEW r \in Requests, NEW s \in {"pending", "approved"},
               leave' = [leave EXCEPT ![r] = s],
               \A q \in Requests : Overlaps(r, q) => ~Live(q)
        PROVE  NoDoubleLeave'
    <3>1. \A q \in Requests : q # r => leave'[q] = leave[q]
      BY <2>0, <2>2
    <3>2. \A q \in Requests : ~Overlaps(q, q)
      BY DEF Overlaps
    <3> QED BY <2>0, <2>2, <3>1, <3>2 DEF NoDoubleLeave, Live, Overlaps
  <2>3. CASE UNCHANGED leave
    BY <2>1, <2>3 DEF Live
  <2>4. ASSUME NEW r \in Requests, RequestLeave(r) \/ ApproveLeave(r)
        PROVE  NoDoubleLeave'
    BY <2>2, <2>4 DEF RequestLeave, ApproveLeave
  <2>5. ASSUME NEW r \in Requests, RejectLeave(r) \/ CancelLeave(r)
        PROVE  NoDoubleLeave'
    BY <2>0, <2>1, <2>5 DEF RejectLeave, CancelLeave, Live
  <2>6. ASSUME NEW p \in Staff, NEW D \in Imports, NEW s \in {"scheduled", "on_leave"},
               Import(p, D, s)
        PROVE  NoDoubleLeave'
    <3>1. ASSUME NEW r \in Requests, Of[r] = p, Span[r] = Uncovered(p, D),
                 leave' = [leave EXCEPT ![r] = "approved"]
          PROVE  NoDoubleLeave'
      <4>1. \A q \in Requests : Overlaps(r, q) => ~Live(q)
        BY <3>1 DEF Overlaps, Uncovered
      <4> QED BY <2>2, <3>1, <4>1
    <3> QED BY <2>3, <2>6, <3>1, ImportEffect
  <2>7. CASE UndoImport
    BY <2>1, <2>7 DEF UndoImport, Live
  <2>8. ASSUME NEW p \in Staff, NEW d \in Days,
               \/ \E s \in {"scheduled", "worked", "off", "on_leave"} :
                     \/ \E override \in {FALSE, OnApprovedLeave(p, d)} : Assign(p, d, s, override)
                     \/ DayDetail(p, d, s)
               \/ \E shift \in BOOLEAN, override \in {FALSE, OnApprovedLeave(p, d)} :
                     CreateSegment(p, d, shift, override)
               \/ \E s \in {"scheduled", "off"} : Rotate(p, d, s)
               \/ DeleteRow(p, d) \/ RecordOvertime(p, d) \/ Reconcile(p, d)
        PROVE  UNCHANGED leave
    BY <2>8 DEF Assign, CreateSegment, DayDetail, Rotate, DeleteRow, RecordOvertime, Reconcile
  <2>9. CASE \/ \E a, b \in Days : CopyWeek(a, b)
             \/ \E d \in Days : ChangeElsewhere(d)
             \/ \E d \in Openings : PostOpening(d)
             \/ \E p \in Staff, d \in Openings : \E force \in {FALSE, OnApprovedLeave(p, d)} :
                   SelectApplicant(p, d, force)
    BY <2>3, <2>9 DEF CopyWeek, ChangeElsewhere, PostOpening, SelectApplicant
  <2> HIDE DEF NoDoubleLeave
  <2> QED BY <2>3, <2>4, <2>5, <2>6, <2>7, <2>8, <2>9, ApprovalTypes DEF Next, vars
<1> QED BY <1>1, <1>2, SheetTypeCorrect, PTL DEF Spec

-----------------------------------------------------------------------------
(* The counter of used days *)

\* What one leave adds to the approved days.
DaysOf(r) == {r} \X Span[r]

LEMMA DaysOfCounted ==
    ASSUME NEW r \in Requests
    PROVE  IsFiniteSet(DaysOf(r)) /\ Cardinality(DaysOf(r)) = Cardinality(Span[r])
<1>1. IsFiniteSet(Span[r]) /\ Cardinality(Span[r]) \in Nat
  BY SheetAssumption, FS_Subset, FS_CardinalityType
<1>2. IsFiniteSet({r}) /\ Cardinality({r}) = 1
  BY FS_Singleton
<1>3. /\ IsFiniteSet({r} \X Span[r])
      /\ Cardinality({r} \X Span[r]) = Cardinality({r}) * Cardinality(Span[r])
  BY <1>1, <1>2, FS_Product
<1> QED BY <1>1, <1>2, <1>3 DEF DaysOf

\* Two parts without a common element, counted.
LEMMA PartsCounted ==
    ASSUME NEW S, IsFiniteSet(S), NEW T, IsFiniteSet(T), S \cap T = {}
    PROVE  Cardinality(S \cup T) = Cardinality(S) + Cardinality(T)
<1>1. Cardinality(S \cup T) = Cardinality(S) + Cardinality(T) - Cardinality(S \cap T)
  BY FS_Union
<1>2. Cardinality(S \cap T) = 0
  BY FS_EmptySet
<1>3. Cardinality(S) \in Nat /\ Cardinality(T) \in Nat
  BY FS_CardinalityType
<1> QED BY <1>1, <1>2, <1>3

LEMMA LeaveDaysFinite ==
    ASSUME NEW p
    PROVE  /\ IsFiniteSet(ApprovedLeaveDays(p)) /\ ApprovedDaysOf(p) \in Nat
           /\ IsFiniteSet(ApprovedLeaveDays(p)') /\ ApprovedDaysOf(p)' \in Nat
<1>1. IsFiniteSet(Requests \X Days)
  BY SheetAssumption, FS_Product
<1>2. /\ ApprovedLeaveDays(p) \subseteq Requests \X Days
      /\ ApprovedLeaveDays(p)' \subseteq Requests \X Days
  BY DEF ApprovedLeaveDays
<1>3. IsFiniteSet(ApprovedLeaveDays(p)) /\ IsFiniteSet(ApprovedLeaveDays(p)')
  BY <1>1, <1>2, FS_Subset
<1> QED BY <1>3, FS_CardinalityType DEF ApprovedDaysOf

\* No leave becomes approved or stops being so.
LEMMA SameApproved ==
    ASSUME \A q \in Requests : leave'[q] = "approved" <=> leave[q] = "approved", NEW p
    PROVE  ApprovedDaysOf(p)' = ApprovedDaysOf(p)
<1>1. ApprovedLeaveDays(p)' = ApprovedLeaveDays(p)
  BY DEF ApprovedLeaveDays
<1> QED BY <1>1 DEF ApprovedDaysOf

\* One leave is approved: its days are added for its person.
LEMMA OneApproved ==
    ASSUME NEW r \in Requests, leave[r] # "approved", leave'[r] = "approved",
           \A q \in Requests \ {r} : leave'[q] = leave[q], NEW p
    PROVE  ApprovedDaysOf(p)' = IF Of[r] = p THEN ApprovedDaysOf(p) + Cardinality(Span[r])
                                ELSE ApprovedDaysOf(p)
<1>0. Span[r] \subseteq Days
  BY SheetAssumption
<1>1. CASE Of[r] = p
  <2>1. ApprovedLeaveDays(p)' = ApprovedLeaveDays(p) \cup DaysOf(r)
    BY <1>0, <1>1 DEF ApprovedLeaveDays, DaysOf
  <2>2. ApprovedLeaveDays(p) \cap DaysOf(r) = {}
    BY DEF ApprovedLeaveDays, DaysOf
  <2> QED BY <1>1, <2>1, <2>2, PartsCounted, LeaveDaysFinite, DaysOfCounted DEF ApprovedDaysOf
<1>2. CASE Of[r] # p
  <2>1. ApprovedLeaveDays(p)' = ApprovedLeaveDays(p)
    BY <1>2 DEF ApprovedLeaveDays
  <2> QED BY <1>2, <2>1 DEF ApprovedDaysOf
<1> QED BY <1>1, <1>2

\* One approved leave ends: its days are gone for its person.
LEMMA OneEnded ==
    ASSUME NEW r \in Requests, leave[r] = "approved", leave'[r] # "approved",
           \A q \in Requests \ {r} : leave'[q] = leave[q], NEW p
    PROVE  ApprovedDaysOf(p) = IF Of[r] = p THEN ApprovedDaysOf(p)' + Cardinality(Span[r])
                               ELSE ApprovedDaysOf(p)'
<1>0. Span[r] \subseteq Days
  BY SheetAssumption
<1>1. CASE Of[r] = p
  <2>1. ApprovedLeaveDays(p) = ApprovedLeaveDays(p)' \cup DaysOf(r)
    BY <1>0, <1>1 DEF ApprovedLeaveDays, DaysOf
  <2>2. ApprovedLeaveDays(p)' \cap DaysOf(r) = {}
    BY DEF ApprovedLeaveDays, DaysOf
  <2> QED BY <1>1, <2>1, <2>2, PartsCounted, LeaveDaysFinite, DaysOfCounted DEF ApprovedDaysOf
<1>2. CASE Of[r] # p
  <2>1. ApprovedLeaveDays(p)' = ApprovedLeaveDays(p)
    BY <1>2 DEF ApprovedLeaveDays
  <2> QED BY <1>2, <2>1 DEF ApprovedDaysOf
<1> QED BY <1>1, <1>2

\* The leave an applied import has made is one at most, and of its person: without it the
\* undo could take more days from the counter than the leaves it deletes had.
OneLeaveMade ==
    batch.state = "applied" =>
        batch.made = {} \/ \E r \in Requests : batch.made = {r} /\ Of[r] = batch.who

CounterInv == TypeOK /\ OneLeaveMade /\ UsedNotAboveApproved

\* A step that leaves the counter, the leaves and the import alone.
LEMMA UntouchedCounter ==
    ASSUME CounterInv, UNCHANGED <<leave, used, batch>>
    PROVE  OneLeaveMade' /\ UsedNotAboveApproved'
<1>1. OneLeaveMade'
  BY DEF CounterInv, OneLeaveMade
<1>2. \A p \in Staff : ApprovedDaysOf(p)' = ApprovedDaysOf(p)
  BY SameApproved
<1> QED BY <1>1, <1>2 DEF CounterInv, UsedNotAboveApproved

LEMMA ApprovedCounter ==
    ASSUME CounterInv, NEW r \in Requests, leave[r] # "approved",
           leave' = [leave EXCEPT ![r] = "approved"],
           used' = [used EXCEPT ![Of[r]] = @ + Cardinality(Span[r])]
    PROVE  UsedNotAboveApproved'
<1>1. leave'[r] = "approved" /\ \A q \in Requests \ {r} : leave'[q] = leave[q]
  BY DEF CounterInv, TypeOK
<1>2. SUFFICES ASSUME NEW p \in Staff PROVE used'[p] <= ApprovedDaysOf(p)'
  BY DEF UsedNotAboveApproved
<1>3. /\ used[p] \in Nat /\ used[p] <= ApprovedDaysOf(p)
      /\ ApprovedDaysOf(p) \in Nat /\ Cardinality(Span[r]) \in Nat
  BY LeaveDaysFinite, SpanNat DEF CounterInv, TypeOK, UsedNotAboveApproved
<1>4. used'[p] = IF Of[r] = p THEN used[p] + Cardinality(Span[r]) ELSE used[p]
  BY DEF CounterInv, TypeOK
<1>5. ApprovedDaysOf(p)' = IF Of[r] = p THEN ApprovedDaysOf(p) + Cardinality(Span[r])
                           ELSE ApprovedDaysOf(p)
  BY <1>1, OneApproved
<1> QED BY <1>3, <1>4, <1>5

\* A leave that ends, approved or not, gives no more days back than it had.
LEMMA EndedCounter ==
    ASSUME CounterInv, NEW r \in Requests, leave'[r] # "approved",
           \A q \in Requests \ {r} : leave'[q] = leave[q],
           \/ used' = [used EXCEPT ![Of[r]] = Max({0, @ - Cardinality(Span[r])})]
           \/ leave[r] # "approved" /\ UNCHANGED used
    PROVE  UsedNotAboveApproved'
<1>1. SUFFICES ASSUME NEW p \in Staff PROVE used'[p] <= ApprovedDaysOf(p)'
  BY DEF UsedNotAboveApproved
<1>2. /\ used[p] \in Nat /\ used[p] <= ApprovedDaysOf(p)
      /\ ApprovedDaysOf(p) \in Nat /\ ApprovedDaysOf(p)' \in Nat /\ Cardinality(Span[r]) \in Nat
  BY LeaveDaysFinite, SpanNat DEF CounterInv, TypeOK, UsedNotAboveApproved
<1> DEFINE c == Cardinality(Span[r])
           floor == Max({0, used[p] - c})
<1>3. floor = IF used[p] - c >= 0 THEN used[p] - c ELSE 0
  <2>1. used[p] - c \in Int
    BY <1>2
  <2> HIDE DEF c
  <2> QED BY <2>1, FloorIs
<1>4. CASE leave[r] = "approved"
  <2>1. ApprovedDaysOf(p) = IF Of[r] = p THEN ApprovedDaysOf(p)' + c ELSE ApprovedDaysOf(p)'
    BY <1>4, OneEnded
  <2>2. used'[p] = IF Of[r] = p THEN floor ELSE used[p]
    BY <1>4 DEF CounterInv, TypeOK
  <2> HIDE DEF c, floor
  <2> QED BY <1>2, <1>3, <2>1, <2>2 DEF c
<1>5. CASE leave[r] # "approved"
  <2>1. ApprovedDaysOf(p)' = ApprovedDaysOf(p)
    BY <1>5, SameApproved
  <2>2. used'[p] = floor \/ used'[p] = used[p]
    <3>1. CASE UNCHANGED used
      BY <3>1
    <3>2. CASE used' = [used EXCEPT ![Of[r]] = Max({0, @ - Cardinality(Span[r])})]
      BY <3>2 DEF CounterInv, TypeOK
    <3> QED BY <3>1, <3>2
  <2> HIDE DEF c, floor
  <2> QED BY <1>2, <1>3, <2>1, <2>2 DEF c
<1> QED BY <1>4, <1>5

LEMMA LeaveCounter ==
    ASSUME CounterInv, NEW r \in Requests,
           RequestLeave(r) \/ ApproveLeave(r) \/ RejectLeave(r) \/ CancelLeave(r)
    PROVE  OneLeaveMade' /\ UsedNotAboveApproved'
<1>1. OneLeaveMade'
  BY DEF RequestLeave, ApproveLeave, RejectLeave, CancelLeave, CounterInv, OneLeaveMade
<1>2. CASE RequestLeave(r)
  <2>1. leave'[r] # "approved" /\ leave[r] # "approved" /\ UNCHANGED used
    BY <1>2 DEF RequestLeave, CounterInv, TypeOK
  <2>2. \A q \in Requests \ {r} : leave'[q] = leave[q]
    BY <1>2 DEF RequestLeave, CounterInv, TypeOK
  <2> QED BY <1>1, <2>1, <2>2, EndedCounter
<1>3. CASE ApproveLeave(r)
  BY <1>1, <1>3, ApprovedCounter DEF ApproveLeave
<1>4. CASE RejectLeave(r) \/ CancelLeave(r)
  <2>1. leave' = [leave EXCEPT ![r] = "rejected"] /\ TakeBack(r)
    BY <1>4 DEF RejectLeave, CancelLeave
  <2>2. leave'[r] # "approved" /\ \A q \in Requests \ {r} : leave'[q] = leave[q]
    BY <2>1 DEF CounterInv, TypeOK
  <2>3. \/ used' = [used EXCEPT ![Of[r]] = Max({0, @ - Cardinality(Span[r])})]
        \/ leave[r] # "approved" /\ UNCHANGED used
    BY <2>1 DEF TakeBack
  <2> QED BY <1>1, <2>2, <2>3, EndedCounter
<1> QED BY <1>2, <1>3, <1>4

LEMMA ImportCounter ==
    ASSUME CounterInv, NEW p \in Staff, NEW D \in Imports, NEW s \in {"scheduled", "on_leave"},
           Import(p, D, s)
    PROVE  OneLeaveMade' /\ UsedNotAboveApproved'
<1>1. /\ batch'.state = "applied" /\ batch'.who = p
      /\ \/ batch'.made = {} /\ UNCHANGED <<leave, used>>
         \/ \E r \in Requests :
               /\ Of[r] = p /\ leave[r] = "none" /\ batch'.made = {r}
               /\ leave' = [leave EXCEPT ![r] = "approved"]
               /\ used' = [used EXCEPT ![p] = @ + Cardinality(Span[r])]
  BY DEF Import, ImportLeave
<1>2. OneLeaveMade'
  BY <1>1 DEF OneLeaveMade
<1>3. CASE UNCHANGED <<leave, used>>
  <2>1. \A q \in Staff : ApprovedDaysOf(q)' = ApprovedDaysOf(q)
    BY <1>3, SameApproved
  <2> QED BY <1>2, <1>3, <2>1 DEF CounterInv, UsedNotAboveApproved
<1>4. CASE \E r \in Requests :
              /\ Of[r] = p /\ leave[r] = "none"
              /\ leave' = [leave EXCEPT ![r] = "approved"]
              /\ used' = [used EXCEPT ![p] = @ + Cardinality(Span[r])]
  BY <1>2, <1>4, ApprovedCounter
<1> QED BY <1>1, <1>3, <1>4

\* The undo takes the days of the leave it deletes, also of one that was rejected before.
LEMMA UndoCounter ==
    ASSUME CounterInv, UndoImport
    PROVE  OneLeaveMade' /\ UsedNotAboveApproved'
<1> DEFINE days == UNION {Span[q] : q \in batch.made}
<1>1. /\ leave' = [q \in Requests |-> IF q \in batch.made THEN "none" ELSE leave[q]]
      /\ used' = [used EXCEPT ![batch.who] = Max({0, @ - Cardinality(days)})]
      /\ batch' = [state |-> "undone"] /\ batch.state = "applied"
  BY DEF UndoImport
<1>2. OneLeaveMade'
  BY <1>1 DEF OneLeaveMade
<1>3. CASE batch.made = {}
  <2>1. Cardinality(days) = 0
    <3>1. days = {}
      BY <1>3
    <3> QED BY <3>1, FS_EmptySet
  <2>2. \A q \in Requests : leave'[q] = leave[q]
    BY <1>1, <1>3
  <2>3. \A q \in Staff : ApprovedDaysOf(q)' = ApprovedDaysOf(q)
    BY <2>2, SameApproved
  <2>4. ASSUME NEW q \in Staff PROVE used'[q] = used[q]
    <3>1. used[q] \in Nat
      BY DEF CounterInv, TypeOK
    <3>2. Max({0, used[q] - 0}) = used[q]
      BY <3>1, FloorIs
    <3>3. used'[q] = used[q] \/ used'[q] = Max({0, used[q] - Cardinality(days)})
      BY <1>1 DEF CounterInv, TypeOK
    <3> QED BY <2>1, <3>2, <3>3
  <2> QED BY <1>2, <2>3, <2>4 DEF CounterInv, UsedNotAboveApproved
<1>4. ASSUME NEW r \in Requests, batch.made = {r}, Of[r] = batch.who
      PROVE  UsedNotAboveApproved'
  <2>1. days = Span[r]
    BY <1>4
  <2>2. used' = [used EXCEPT ![Of[r]] = Max({0, @ - Cardinality(Span[r])})]
    BY <1>1, <1>4, <2>1
  <2>3. leave'[r] # "approved" /\ \A q \in Requests \ {r} : leave'[q] = leave[q]
    BY <1>1, <1>4
  <2> QED BY <2>2, <2>3, EndedCounter
<1> QED BY <1>1, <1>2, <1>3, <1>4 DEF CounterInv, OneLeaveMade

\* The counter of used days never holds a day twice.
THEOREM CounterBounded == Spec => []UsedNotAboveApproved
<1>1. Init => CounterInv
  <2> SUFFICES ASSUME Init PROVE OneLeaveMade /\ UsedNotAboveApproved
    BY SheetTypeInit DEF CounterInv
  <2>1. OneLeaveMade
    BY DEF Init, NoBatch, OneLeaveMade
  <2>2. UsedNotAboveApproved
    BY LeaveDaysFinite DEF Init, UsedNotAboveApproved
  <2> QED BY <2>1, <2>2
<1>2. CounterInv /\ [Next]_vars => CounterInv'
  <2> SUFFICES ASSUME CounterInv, [Next]_vars PROVE OneLeaveMade' /\ UsedNotAboveApproved'
    BY SheetTypeStep DEF CounterInv
  <2>1. CASE UNCHANGED vars
    BY <2>1, UntouchedCounter DEF vars
  <2>2. ASSUME NEW p \in Staff, NEW d \in Days,
               \/ \E s \in {"scheduled", "worked", "off", "on_leave"} :
                     \/ \E override \in {FALSE, OnApprovedLeave(p, d)} : Assign(p, d, s, override)
                     \/ DayDetail(p, d, s)
               \/ \E shift \in BOOLEAN, override \in {FALSE, OnApprovedLeave(p, d)} :
                     CreateSegment(p, d, shift, override)
               \/ \E s \in {"scheduled", "off"} : Rotate(p, d, s)
               \/ DeleteRow(p, d) \/ RecordOvertime(p, d) \/ Reconcile(p, d)
        PROVE  UNCHANGED <<leave, used, batch>>
    BY <2>2 DEF Assign, CreateSegment, DayDetail, Rotate, DeleteRow, RecordOvertime, Reconcile
  <2>3. CASE \/ \E a, b \in Days : CopyWeek(a, b)
             \/ \E d \in Days : ChangeElsewhere(d) \/ ReturnDay(d)
             \/ \E d \in Days, force \in BOOLEAN : ApproveDay(d, force)
             \/ \E d \in Openings : PostOpening(d)
             \/ \E p \in Staff, d \in Openings : \E force \in {FALSE, OnApprovedLeave(p, d)} :
                   SelectApplicant(p, d, force)
    <3>1. UNCHANGED <<leave, used, batch>>
      BY <2>3 DEF CopyWeek, ChangeElsewhere, ReturnDay, ApproveDay, PostOpening, SelectApplicant
    <3> QED BY <3>1, UntouchedCounter
  <2>4. ASSUME NEW m \in Months,
               \/ SubmitMonth(m) \/ ApproveMonth(m) \/ ReturnMonth(m) \/ ReopenMonth(m)
               \/ LockMonth(m) \/ PutLock(m) \/ RemoveLock(m)
        PROVE  UNCHANGED <<leave, used, batch>>
    BY <2>4 DEF SubmitMonth, ApproveMonth, ReturnMonth, ReopenMonth, LockMonth, PutLock,
                RemoveLock, SetPeriod
  <2> QED BY <2>1, <2>2, <2>3, <2>4, UntouchedCounter, LeaveCounter, ImportCounter, UndoCounter
          DEF Next
<1> QED BY <1>1, <1>2, PTL DEF Spec, CounterInv

-----------------------------------------------------------------------------
(* Locks and approvals *)

\* A cell that changes leaves its day no longer vouched for and is not of a locked month,
\* but for a leave taken back from it or an open shift that fills it.
Watched(p, d) ==
    CellChanges(p, d) =>
        /\ day'[d] # "approved"
        /\ MonthOf[d] \notin locked \/ TakenBack(p, d) \/ OpeningFilled(d)

Guarded ==
    /\ \A p \in Staff, d \in Days : Watched(p, d)
    /\ \A d \in Days : day'[d] \in {"open", "doubtful", day[d]}

LEMMA ResetEffect ==
    ASSUME TypeOK, NEW D \in SUBSET Days, ResetAfter(D)
    PROVE  /\ \A d \in Days : day'[d] \in {"open", "doubtful", day[d]}
           /\ \A d \in D : day'[d] # "approved"
<1> PICK F \in SUBSET ApprovedOf(D), M \in SUBSET MonthsOf(ApprovedOf(D)) : Fall(D, F, M)
  BY DEF ResetAfter
<1> QED BY DEF TypeOK, Fall, ApprovedOf

\* One row of the cells is written, on days of open months.
LEMMA RowGuarded ==
    ASSUME TypeOK, NEW D \in SUBSET Days, Unlocked(D), ResetAfter(D), UNCHANGED opening,
           \A p \in Staff, d \in Days : CellChanges(p, d) => d \in D
    PROVE  Guarded
<1>1. \A d \in D : day'[d] # "approved" /\ MonthOf[d] \notin locked
  BY ResetEffect DEF Unlocked
<1> QED BY <1>1, ResetEffect DEF Guarded, Watched

LEMMA WriterGuarded ==
    ASSUME TypeOK, NEW p \in Staff, NEW d \in Days,
           \/ \E s \in {"scheduled", "worked", "off", "on_leave"} :
                 \/ \E override \in {FALSE, OnApprovedLeave(p, d)} : Assign(p, d, s, override)
                 \/ DayDetail(p, d, s)
           \/ \E shift \in BOOLEAN, override \in {FALSE, OnApprovedLeave(p, d)} :
                 CreateSegment(p, d, shift, override)
           \/ \E s \in {"scheduled", "off"} : Rotate(p, d, s)
           \/ DeleteRow(p, d) \/ RecordOvertime(p, d) \/ Reconcile(p, d)
    PROVE  Guarded
<1>1. Unlocked({d}) /\ ResetAfter({d}) /\ UNCHANGED opening
  BY WholeReset DEF Assign, CreateSegment, DayDetail, Rotate, DeleteRow, RecordOvertime, Reconcile
<1>2. UNCHANGED cell \/ \E row : SetRow(p, d, row)
  BY DEF Assign, CreateSegment, DayDetail, Rotate, DeleteRow, RecordOvertime, Reconcile
<1>3. \A q \in Staff, e \in Days : CellChanges(q, e) => e \in {d}
  BY <1>2 DEF SetRow, CellChanges, TypeOK
<1> QED BY <1>1, <1>3, RowGuarded

LEMMA SheetGuarded ==
    ASSUME TypeOK,
           \/ \E a, b \in Days : CopyWeek(a, b)
           \/ \E d \in Days : ChangeElsewhere(d)
           \/ \E d \in Openings : PostOpening(d)
           \/ \E p \in Staff, d \in Openings : \E force \in {FALSE, OnApprovedLeave(p, d)} :
                 SelectApplicant(p, d, force)
    PROVE  Guarded
<1>1. ASSUME NEW a \in Days, NEW b \in Days, CopyWeek(a, b) PROVE Guarded
  <2>1. \A p \in Staff, d \in Days : CellChanges(p, d) => d \in {b}
    BY <1>1 DEF CopyWeek, CellChanges, TypeOK
  <2> QED BY <1>1, <2>1, RowGuarded DEF CopyWeek
<1>2. ASSUME NEW d \in Days, ChangeElsewhere(d) PROVE Guarded
  BY <1>2, RowGuarded DEF ChangeElsewhere, CellChanges
<1>3. ASSUME NEW d \in Openings, PostOpening(d) PROVE Guarded
  BY <1>3 DEF PostOpening, Guarded, Watched, CellChanges, TypeOK
<1>4. ASSUME NEW p \in Staff, NEW d \in Openings,
             NEW force \in {FALSE, OnApprovedLeave(p, d)},
             SelectApplicant(p, d, force)
      PROVE  Guarded
  <2>1. \A q \in Staff, e \in Days : CellChanges(q, e) => e = d
    BY <1>4 DEF SelectApplicant, SetRow, CellChanges, TypeOK
  <2>2. OpeningFilled(d)
    BY <1>4 DEF SelectApplicant, OpeningFilled, TypeOK
  <2>3. Fall({d}, {}, {}) /\ d \in Days
    BY <1>4, SheetAssumption DEF SelectApplicant
  <2>4. \A e \in Days : day'[e] \in {"doubtful", day[e]}
    BY <2>3 DEF Fall
  <2>5. day'[d] # "approved"
    BY <2>3 DEF Fall, ApprovedOf, TypeOK
  <2> QED BY <2>1, <2>2, <2>4, <2>5 DEF Guarded, Watched
<1> QED BY <1>1, <1>2, <1>3, <1>4

LEMMA LeaveGuarded ==
    ASSUME TypeOK, NEW r \in Requests,
           RequestLeave(r) \/ ApproveLeave(r) \/ RejectLeave(r) \/ CancelLeave(r)
    PROVE  Guarded
<1>1. Span[r] \in SUBSET Days /\ Of[r] \in Staff
  BY SheetAssumption
<1>2. CASE RequestLeave(r)
  BY <1>2 DEF RequestLeave, Guarded, Watched, CellChanges
<1>3. CASE ApproveLeave(r)
  <2>1. \A p \in Staff, d \in Days : CellChanges(p, d) => d \in Span[r]
    BY <1>1, <1>3 DEF ApproveLeave, CellChanges, TypeOK
  <2> QED BY <1>1, <1>3, <2>1, RowGuarded DEF ApproveLeave
<1>4. CASE RejectLeave(r) \/ CancelLeave(r)
  <2>1. /\ leave' = [leave EXCEPT ![r] = "rejected"]
        /\ TakeBack(r) /\ ResetAfter(Span[r]) /\ UNCHANGED opening
    BY <1>4 DEF RejectLeave, CancelLeave
  <2>2. \A p \in Staff, d \in Days :
            CellChanges(p, d) => p = Of[r] /\ d \in Span[r] /\ leave[r] = "approved"
    BY <1>1, <2>1 DEF TakeBack, CellChanges, TypeOK
  <2>3. leave'[r] = "rejected"
    BY <2>1 DEF TypeOK
  <2>4. \A p \in Staff, d \in Days : CellChanges(p, d) => TakenBack(p, d) /\ d \in Span[r]
    BY <2>2, <2>3 DEF TakenBack
  <2>5. /\ \A d \in Days : day'[d] \in {"open", "doubtful", day[d]}
        /\ \A d \in Span[r] : day'[d] # "approved"
    BY <1>1, <2>1, ResetEffect
  <2> QED BY <2>1, <2>4, <2>5 DEF Guarded, Watched
<1> QED BY <1>2, <1>3, <1>4

LEMMA ImportGuarded ==
    ASSUME TypeOK, NEW p \in Staff, NEW D \in Imports, NEW s \in {"scheduled", "on_leave"},
           Import(p, D, s)
    PROVE  Guarded
<1> DEFINE new == {d \in D : cell[p][d] # Row(s)}
<1>1. D \subseteq Days
  BY SheetAssumption
<1>2. \A q \in Staff, d \in Days : CellChanges(q, d) => d \in new
  BY <1>1 DEF Import, CellChanges, TypeOK
<1>3. Unlocked(new) /\ ResetAfter(new) /\ UNCHANGED opening /\ new \in SUBSET Days
  BY <1>1, WholeReset DEF Import, Unlocked
<1> QED BY <1>2, <1>3, RowGuarded

LEMMA UndoGuarded == ASSUME TypeOK, UndoImport PROVE Guarded
<1> DEFINE touched == DOMAIN batch.prev \cup UNION {Span[r] : r \in batch.made}
<1>1. touched \in SUBSET Days
  BY SheetAssumption DEF UndoImport, TypeOK
<1>2. \A q \in Staff, d \in Days : CellChanges(q, d) => d \in touched
  BY DEF UndoImport, CellChanges, TypeOK
<1>3. Unlocked(touched) /\ ResetAfter(touched) /\ UNCHANGED opening
  BY <1>1, WholeReset DEF UndoImport
<1> QED BY <1>1, <1>2, <1>3, RowGuarded

\* Every step is guarded, or is one of the approvals, which write no cell.
LEMMA StepGuarded ==
    ASSUME TypeOK, [Next]_vars
    PROVE  \/ Guarded
           \/ /\ UNCHANGED <<cell, leave, opening>>
              /\ \/ \E d \in Days, force \in BOOLEAN : ApproveDay(d, force)
                 \/ \A d \in Days : day'[d] \in {"open", day[d]}
<1>1. CASE UNCHANGED vars
  BY <1>1 DEF vars, Guarded, Watched, CellChanges
<1>2. ASSUME NEW d \in Days, ReturnDay(d)
      PROVE  \A e \in Days : day'[e] \in {"open", day[e]}
  BY <1>2 DEF ReturnDay, TypeOK
<1>3. ASSUME NEW m \in Months,
             \/ SubmitMonth(m) \/ ApproveMonth(m) \/ ReturnMonth(m) \/ ReopenMonth(m)
             \/ LockMonth(m) \/ PutLock(m) \/ RemoveLock(m)
      PROVE  UNCHANGED day
  BY <1>3 DEF SubmitMonth, ApproveMonth, ReturnMonth, ReopenMonth, LockMonth, PutLock, RemoveLock,
              SetPeriod
<1>4. CASE \/ \E d \in Days : ReturnDay(d) \/ \E force \in BOOLEAN : ApproveDay(d, force)
           \/ \E m \in Months :
                 \/ SubmitMonth(m) \/ ApproveMonth(m) \/ ReturnMonth(m) \/ ReopenMonth(m)
                 \/ LockMonth(m) \/ PutLock(m) \/ RemoveLock(m)
  BY <1>2, <1>3, <1>4, ApprovalTypes
<1> HIDE DEF Guarded
<1> QED BY <1>1, <1>4, WriterGuarded, SheetGuarded, LeaveGuarded, ImportGuarded, UndoGuarded DEF Next

\* The sheet of a locked month changes by a rejected leave or a filled opening only.
THEOREM LockedMonthsKept == Spec => AlwaysLockedMonthChangesOnly
<1>1. TypeOK /\ [Next]_vars =>
        [\A p \in Staff, d \in Days :
           CellChanges(p, d) /\ MonthOf[d] \in locked => TakenBack(p, d) \/ OpeningFilled(d)]_vars
  <2> SUFFICES ASSUME TypeOK, [Next]_vars, NEW p \in Staff, NEW d \in Days,
                      CellChanges(p, d), MonthOf[d] \in locked
               PROVE  TakenBack(p, d) \/ OpeningFilled(d)
    OBVIOUS
  <2>1. ~UNCHANGED cell
    BY DEF CellChanges
  <2> QED BY <2>1, StepGuarded DEF Guarded, Watched
<1> QED BY <1>1, SheetTypeCorrect, PTL DEF Spec, AlwaysLockedMonthChangesOnly

\* An approved day stays settled: whatever unsettles it makes its approval fall or, where the
\* request ended in between or filled an open shift, leaves the day doubtful.
THEOREM ApprovedDaysSettled == Spec => []ApprovedDayIsSettled
<1>1. Init => ApprovedDayIsSettled
  BY DEF Init, ApprovedDayIsSettled
<1>2. TypeOK /\ ApprovedDayIsSettled /\ [Next]_vars => ApprovedDayIsSettled'
  <2> SUFFICES ASSUME TypeOK, ApprovedDayIsSettled, [Next]_vars,
                      NEW d \in Days, day'[d] = "approved", NEW p \in Staff
               PROVE  SettledCell(p, d)'
    BY DEF ApprovedDayIsSettled
  <2>1. CASE Guarded
    <3>1. day[d] = "approved"
      BY <2>1 DEF Guarded
    <3>2. ~CellChanges(p, d)
      BY <2>1 DEF Guarded, Watched
    <3> QED BY <3>1, <3>2 DEF ApprovedDayIsSettled, SettledCell, CellChanges
  <2>2. ASSUME NEW e \in Days, NEW force \in BOOLEAN, ApproveDay(e, force)
        PROVE  SettledCell(p, d)'
    <3>1. UNCHANGED cell /\ (d # e => day[d] = "approved")
      BY <2>2 DEF ApproveDay, TypeOK
    <3>2. CASE d = e
      <4>1. ~force
        BY <2>2, <3>2 DEF ApproveDay, TypeOK
      <4>2. SettledCell(p, d)
        BY <2>2, <3>2, <4>1 DEF ApproveDay, DayIssues
      <4> QED BY <3>1, <4>2 DEF SettledCell
    <3>3. CASE d # e
      BY <3>1, <3>3 DEF ApprovedDayIsSettled, SettledCell
    <3> QED BY <3>2, <3>3
  <2>3. CASE UNCHANGED cell /\ day'[d] \in {"open", day[d]}
    BY <2>3 DEF ApprovedDayIsSettled, SettledCell
  <2> QED BY <2>1, <2>2, <2>3, StepGuarded
<1> QED BY <1>1, <1>2, SheetTypeCorrect, PTL DEF Spec
=============================================================================
