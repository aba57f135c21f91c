---------------------------- MODULE ShiftPeriods ----------------------------
(***************************************************************************)
(* The timesheet (puantaj) of the company's staff: the rows of             *)
(* shift_schedule, the leave requests written into them with the counter   *)
(* of used days, the approval of days and months and the lock of a month   *)
(* (backend/src/modules/shifts).  Every service runs in one synchronous    *)
(* call, so an action is one request.  Most of them commit what they write *)
(* before they make the approvals fall: such a request may end in between. *)
(*                                                                         *)
(* Abstracted: hours, places, the hours of segments and departments (the   *)
(* approvals are those of the scope 'all'); absence with its reason is     *)
(* "off"; overtime is "worked"; the statuses of a day that is not approved *)
(* (missing, pending, returned) are one, and a returned month is "draft"   *)
(* (the code treats them alike).  All leave is of the counted kind.        *)
(***************************************************************************)
EXTENDS Integers, FiniteSets, FiniteSetsExt

CONSTANTS
    Staff,      \* active staff
    Days,       \* the days of the sheet
    Months,     \* YYYY-MM
    MonthOf,    \* [Days -> Months]
    Sundays,    \* an empty cell is no problem on these days
    Requests,   \* rows of leave_requests, at most one of each kind below
    Of,         \* [Requests -> Staff]: whose leave
    Span,       \* [Requests -> SUBSET Days]: start_date..end_date
    Allowance,  \* leave_balance.annual_total
    Openings,   \* days for which one open shift may be posted
    Imports     \* sets of days an Excel sheet may hold for one person

ASSUME SheetAssumption ==
    /\ Staff # {} /\ IsFiniteSet(Staff) /\ IsFiniteSet(Days) /\ IsFiniteSet(Requests)
    /\ MonthOf \in [Days -> Months]
    /\ Of \in [Requests -> Staff]
    /\ Span \in [Requests -> SUBSET Days]
    /\ Sundays \subseteq Days /\ Openings \subseteq Days
    /\ Imports \subseteq SUBSET Days
    /\ Allowance \in Nat

VARIABLES
    cell,       \* [Staff -> [Days -> Cell]]: shift_schedule
    leave,      \* status of each request, "none" when there is no such row
    used,       \* leave_balance.annual_used
    locked,     \* period_locks
    day,        \* puantaj_daily_approvals; an approved day is "doubtful" when it was approved
                \* by force, or its sheet was written since and it did not fall
    period,     \* puantaj_period_approvals
    opening,    \* open_shifts: whether one with its one place is open on the day
    batch       \* schedule_import_batches: the one import, with what it replaced

vars == <<cell, leave, used, locked, day, period, opening, batch>>

Work == {"scheduled", "worked"}
\* def: the row has a shift_def_id.
Cell == [status : {"none", "on_leave", "off"} \cup Work, def : BOOLEAN]
NoRow == [status |-> "none", def |-> FALSE]
Row(s) == [status |-> s, def |-> s \in Work]

NoBatch == [state |-> "none"]

TypeOK ==
    /\ cell \in [Staff -> [Days -> Cell]]
    /\ leave \in [Requests -> {"none", "pending", "approved", "rejected"}]
    /\ used \in [Staff -> Nat]
    /\ locked \subseteq Months
    /\ day \in [Days -> {"open", "approved", "doubtful"}]
    /\ period \in [Months -> {"draft", "submitted", "approved", "locked"}]
    /\ opening \in [Openings -> {"none", "open"}]
    /\ batch.state \in {"none", "applied", "undone"}
    /\ batch.state = "applied" =>
          /\ batch.who \in Staff /\ batch.made \subseteq Requests
          /\ DOMAIN batch.prev \subseteq Days /\ batch.prev \in [DOMAIN batch.prev -> Cell]

Init ==
    /\ cell = [p \in Staff |-> [d \in Days |-> NoRow]]
    /\ leave = [r \in Requests |-> "none"]
    /\ used = [p \in Staff |-> 0]
    /\ locked = {}
    /\ day = [d \in Days |-> "open"]
    /\ period = [m \in Months |-> "draft"]
    /\ opening = [d \in Openings |-> "none"]
    /\ batch = NoBatch

-----------------------------------------------------------------------------
(* What the services ask and do before and after a write.                  *)

Unlocked(D) == \A d \in D : MonthOf[d] \notin locked

Live(r) == leave[r] \in {"pending", "approved"}
OnApprovedLeave(p, d) ==
    \E r \in Requests : Of[r] = p /\ leave[r] = "approved" /\ d \in Span[r]
Overlaps(r, q) == q # r /\ Of[q] = Of[r] /\ Span[q] \cap Span[r] # {}

ApprovedOf(D) == {d \in D : day[d] # "open"}
MonthsOf(D) == {MonthOf[d] : d \in D}

\* Of the approved days of D those of F fall back, of the approved months those of M.
Fall(D, F, M) ==
    /\ day' = [d \in Days |-> IF d \in F THEN "open"
                          ELSE IF d \in ApprovedOf(D) THEN "doubtful" ELSE day[d]]
    /\ period' = [m \in Months |->
                    IF m \in M /\ period[m] = "approved" THEN "submitted" ELSE period[m]]

\* An approved day of D falls back, and with it an approved month of such a day.
Reset(D) == Fall(D, ApprovedOf(D), MonthsOf(ApprovedOf(D)))

\* The same after a write that is already committed: the days fall one by one, then the
\* months, each in a statement of its own, and the request may end before any of them.
ResetAfter(D) ==
    \E F \in SUBSET ApprovedOf(D), M \in SUBSET MonthsOf(ApprovedOf(D)) :
        /\ F # ApprovedOf(D) => M = {}
        /\ Fall(D, F, M)

Marked(c) == [c EXCEPT !.status = "on_leave"]
Cleared(c) == IF c.status # "on_leave" THEN c
              ELSE IF c.def THEN Row("scheduled") ELSE NoRow

SetRow(p, d, row) == cell' = [cell EXCEPT ![p][d] = row]

SettledCell(p, d) ==
    /\ cell[p][d].status # "scheduled"
    /\ d \in Sundays \/ cell[p][d].status # "none"

-----------------------------------------------------------------------------
(* Writers of the sheet.                                                   *)

\* A supervisor's cell; work on a day of approved leave only with the manager's override.
Assign(p, d, s, override) ==
    /\ Unlocked({d})
    /\ s \in Work /\ OnApprovedLeave(p, d) => override
    /\ SetRow(p, d, Row(s))
    /\ ResetAfter({d})
    /\ UNCHANGED <<leave, used, locked, opening, batch>>

\* A segment of the day.  A cell that is not work becomes planned work in a commit of its own;
\* then the segment may be refused (its hours, an overlap) and the request ends there.
CreateSegment(p, d, shift, override) ==
    /\ Unlocked({d})
    /\ OnApprovedLeave(p, d) => override
    /\ IF cell[p][d].status \in Work THEN UNCHANGED cell
       ELSE SetRow(p, d, [status |-> "scheduled", def |-> shift \/ cell[p][d].def])
    /\ ResetAfter({d})
    /\ UNCHANGED <<leave, used, locked, opening, batch>>

DayDetail(p, d, s) ==
    /\ Unlocked({d})
    /\ SetRow(p, d, [status |-> s, def |-> s \in Work /\ cell[p][d].def])
    /\ ResetAfter({d})
    /\ UNCHANGED <<leave, used, locked, opening, batch>>

DeleteRow(p, d) ==
    /\ Unlocked({d})
    /\ SetRow(p, d, NoRow)
    /\ ResetAfter({d})
    /\ UNCHANGED <<leave, used, locked, opening, batch>>

\* Mutant of CopyWeek: the approvals of the days written are left standing.
CopyWeekMutant(a, b) ==
    LET copied == {p \in Staff : cell[p][a] # NoRow} IN
    /\ a # b /\ copied # {}
    /\ Unlocked({b})
    /\ cell' = [p \in Staff |-> IF p \in copied THEN [cell[p] EXCEPT ![b] = cell[p][a]]
                                                ELSE cell[p]]
    /\ UNCHANGED <<leave, used, locked, day, period, opening, batch>>

\* The rows of one day of a week over those of the same day of another.
CopyWeek(a, b) ==
    LET copied == {p \in Staff : cell[p][a] # NoRow} IN
    /\ a # b /\ copied # {}
    /\ Unlocked({b})
    /\ cell' = [p \in Staff |-> IF p \in copied THEN [cell[p] EXCEPT ![b] = cell[p][a]]
                                                ELSE cell[p]]
    /\ ResetAfter({b})
    /\ UNCHANGED <<leave, used, locked, opening, batch>>

\* Mutant of Rotate: the lock of the month is not asked for.
RotateMutant(p, d, s) ==
    /\ SetRow(p, d, Row(s))
    /\ ResetAfter({d})
    /\ UNCHANGED <<leave, used, locked, opening, batch>>

\* A rotation, by either of its two services, asks for no leave.
Rotate(p, d, s) ==
    /\ Unlocked({d})
    /\ SetRow(p, d, Row(s))
    /\ ResetAfter({d})
    /\ UNCHANGED <<leave, used, locked, opening, batch>>

RecordOvertime(p, d) ==
    /\ Unlocked({d})
    /\ IF cell[p][d] = NoRow THEN UNCHANGED cell
       ELSE SetRow(p, d, [cell[p][d] EXCEPT !.status = "worked"])
    /\ ResetAfter({d})
    /\ UNCHANGED <<leave, used, locked, opening, batch>>

\* Swaps, overtime requests and segments changed or deleted touch what is abstracted, and
\* the approval of the day.
ChangeElsewhere(d) ==
    /\ Unlocked({d})
    /\ ResetAfter({d})
    /\ UNCHANGED <<cell, leave, used, locked, opening, batch>>

\* Two scans of the card fit the shift.
Reconcile(p, d) ==
    /\ Unlocked({d})
    /\ ~OnApprovedLeave(p, d)
    /\ day[d] = "open"
    /\ cell[p][d].status = "scheduled"
    /\ SetRow(p, d, [cell[p][d] EXCEPT !.status = "worked"])
    /\ Reset({d})
    /\ UNCHANGED <<leave, used, locked, opening, batch>>

PostOpening(d) ==
    /\ opening[d] = "none"
    /\ opening' = [opening EXCEPT ![d] = "open"]
    /\ UNCHANGED <<cell, leave, used, locked, day, period, batch>>

\* The applicant chosen for an open shift: neither the lock nor the approvals are looked at;
\* the INSERT fails when the person has a row on that day.
SelectApplicant(p, d, force) ==
    /\ opening[d] = "open"
    /\ OnApprovedLeave(p, d) => force
    /\ cell[p][d] = NoRow
    /\ SetRow(p, d, Row("scheduled"))
    /\ opening' = [opening EXCEPT ![d] = "none"]
    /\ Fall({d}, {}, {})
    /\ UNCHANGED <<leave, used, locked, batch>>

-----------------------------------------------------------------------------
(* Leave.                                                                  *)

RequestLeave(r) ==
    /\ leave[r] = "none"
    /\ \A q \in Requests : Overlaps(r, q) => ~Live(q)
    /\ leave' = [leave EXCEPT ![r] = "pending"]
    /\ UNCHANGED <<cell, used, locked, day, period, opening, batch>>

\* Mutant of ApproveLeave: the second look for another request over the same days is forgotten.
ApproveLeaveMutant(r) ==
    /\ leave[r] \in {"pending", "rejected"}
    /\ Unlocked(Span[r])
    /\ used[Of[r]] + Cardinality(Span[r]) <= Allowance
    /\ leave' = [leave EXCEPT ![r] = "approved"]
    /\ cell' = [cell EXCEPT ![Of[r]] =
                  [d \in Days |-> IF d \in Span[r] THEN Marked(@[d]) ELSE @[d]]]
    /\ used' = [used EXCEPT ![Of[r]] = @ + Cardinality(Span[r])]
    /\ ResetAfter(Span[r])
    /\ UNCHANGED <<locked, opening, batch>>

ApproveLeave(r) ==
    /\ leave[r] \in {"pending", "rejected"}
    /\ Unlocked(Span[r])
    /\ \A q \in Requests : Overlaps(r, q) => ~Live(q)
    /\ used[Of[r]] + Cardinality(Span[r]) <= Allowance
    /\ leave' = [leave EXCEPT ![r] = "approved"]
    /\ cell' = [cell EXCEPT ![Of[r]] =
                  [d \in Days |-> IF d \in Span[r] THEN Marked(@[d]) ELSE @[d]]]
    /\ used' = [used EXCEPT ![Of[r]] = @ + Cardinality(Span[r])]
    /\ ResetAfter(Span[r])
    /\ UNCHANGED <<locked, opening, batch>>

\* Mutant of TakeBack: the days are not given back.
TakeBackMutant(r) ==
    IF leave[r] = "approved"
    THEN /\ cell' = [cell EXCEPT ![Of[r]] =
                       [d \in Days |-> IF d \in Span[r] THEN Cleared(@[d]) ELSE @[d]]]
         /\ UNCHANGED used
    ELSE UNCHANGED <<cell, used>>

\* An approved leave is taken out of the sheet and of the counter.
TakeBack(r) ==
    IF leave[r] = "approved"
    THEN /\ cell' = [cell EXCEPT ![Of[r]] =
                       [d \in Days |-> IF d \in Span[r] THEN Cleared(@[d]) ELSE @[d]]]
         /\ used' = [used EXCEPT ![Of[r]] = Max({0, @ - Cardinality(Span[r])})]
    ELSE UNCHANGED <<cell, used>>

\* Rejection asks for no open month.
RejectLeave(r) ==
    /\ Live(r)
    /\ leave' = [leave EXCEPT ![r] = "rejected"]
    /\ TakeBack(r)
    /\ ResetAfter(Span[r])
    /\ UNCHANGED <<locked, opening, batch>>

CancelLeave(r) ==
    /\ leave[r] # "none"
    /\ Unlocked(Span[r])
    /\ leave' = [leave EXCEPT ![r] = "rejected"]
    /\ TakeBack(r)
    /\ ResetAfter(Span[r])
    /\ UNCHANGED <<locked, opening, batch>>

-----------------------------------------------------------------------------
(* The import of a schedule from Excel and its undo.                       *)

\* The days of D for which the import opens an approved leave.
Uncovered(p, D) == {d \in D : ~\E r \in Requests : Of[r] = p /\ Live(r) /\ d \in Span[r]}

ImportLeave(p, D) ==
    IF \/ Uncovered(p, D) = {}
       \/ \E r \in Requests : Of[r] = p /\ leave[r] # "none" /\ Span[r] = D
    THEN /\ UNCHANGED <<leave, used>>
         /\ batch' = [state |-> "applied", who |-> p, made |-> {},
                      prev |-> [d \in D |-> cell[p][d]]]
    ELSE \E r \in Requests :
            /\ Of[r] = p /\ leave[r] = "none" /\ Span[r] = Uncovered(p, D)
            /\ leave' = [leave EXCEPT ![r] = "approved"]
            /\ used' = [used EXCEPT ![p] = @ + Cardinality(Span[r])]
            /\ batch' = [state |-> "applied", who |-> p, made |-> {r},
                         prev |-> [d \in D |-> cell[p][d]]]

\* The cells of one person, all work or all leave.
Import(p, D, s) ==
    /\ batch = NoBatch
    /\ Unlocked(D)
    /\ cell' = [cell EXCEPT ![p] = [d \in Days |-> IF d \in D THEN Row(s) ELSE @[d]]]
    /\ Reset({d \in D : cell[p][d] # Row(s)})
    /\ IF s = "on_leave" THEN ImportLeave(p, D)
       ELSE /\ UNCHANGED <<leave, used>>
            /\ batch' = [state |-> "applied", who |-> p, made |-> {},
                         prev |-> [d \in D |-> cell[p][d]]]
    /\ UNCHANGED <<locked, opening>>

\* What a day of the batch goes back to: a row that is gone meanwhile stays gone.
Restored(now, before) == IF before = NoRow \/ now = NoRow THEN NoRow ELSE before

\* The leave the import made is deleted and its days are given back, whatever became of it.
UndoImport ==
    /\ batch.state = "applied"
    /\ LET p == batch.who
           D == DOMAIN batch.prev
           touched == D \cup UNION {Span[r] : r \in batch.made}
           days == UNION {Span[r] : r \in batch.made}
       IN /\ Unlocked(touched)
          /\ leave' = [r \in Requests |-> IF r \in batch.made THEN "none" ELSE leave[r]]
          /\ used' = [used EXCEPT ![p] = Max({0, @ - Cardinality(days)})]
          /\ cell' = [cell EXCEPT ![p] = [d \in Days |->
                        IF d \in D THEN Restored(@[d], batch.prev[d]) ELSE @[d]]]
          /\ Reset(touched)
    /\ batch' = [state |-> "undone"]
    /\ UNCHANGED <<locked, opening>>

-----------------------------------------------------------------------------
(* Approval of days and months, lock of a month.                           *)

DayIssues(d) ==
    \/ \E p \in Staff : ~SettledCell(p, d)
    \/ \E r \in Requests : leave[r] = "pending" /\ d \in Span[r]

ApproveDay(d, force) ==
    /\ DayIssues(d) => force
    /\ day' = [day EXCEPT ![d] = IF force THEN "doubtful" ELSE "approved"]
    /\ UNCHANGED <<cell, leave, used, locked, period, opening, batch>>

ReturnDay(d) ==
    /\ day[d] # "open"
    /\ day' = [day EXCEPT ![d] = "open"]
    /\ UNCHANGED <<cell, leave, used, locked, period, opening, batch>>

SetPeriod(m, s) ==
    /\ period' = [period EXCEPT ![m] = s]
    /\ UNCHANGED <<cell, leave, used, day, opening, batch>>

SubmitMonth(m) == SetPeriod(m, "submitted") /\ UNCHANGED locked
ApproveMonth(m) == period[m] = "submitted" /\ SetPeriod(m, "approved") /\ UNCHANGED locked
ReturnMonth(m) == SetPeriod(m, "draft") /\ UNCHANGED locked
ReopenMonth(m) == SetPeriod(m, "draft") /\ locked' = locked \ {m}

ReadyToLock(m) ==
    /\ period[m] \in {"submitted", "approved", "locked"}
    /\ \A d \in Days : MonthOf[d] = m => day[d] # "open" /\ \A p \in Staff : SettledCell(p, d)
    /\ \A p \in Staff : \E d \in Days : MonthOf[d] = m /\ cell[p][d].status = "off"

LockMonth(m) ==
    /\ ReadyToLock(m)
    /\ SetPeriod(m, "locked")
    /\ locked' = locked \cup {m}

\* The lock by itself, without the approvals.
PutLock(m) ==
    /\ locked' = locked \cup {m}
    /\ UNCHANGED <<cell, leave, used, day, period, opening, batch>>
RemoveLock(m) ==
    /\ locked' = locked \ {m}
    /\ UNCHANGED <<cell, leave, used, day, period, opening, batch>>

Next ==
    \/ \E p \in Staff, d \in Days :
          \/ \E s \in {"scheduled", "worked", "off", "on_leave"} :
                \/ \E override \in {FALSE, OnApprovedLeave(p, d)} : Assign(p, d, s, override)
                \/ DayDetail(p, d, s)
          \/ \E shift \in BOOLEAN, override \in {FALSE, OnApprovedLeave(p, d)} :
                CreateSegment(p, d, shift, override)
          \/ \E s \in {"scheduled", "off"} : Rotate(p, d, s)
          \/ DeleteRow(p, d)
          \/ RecordOvertime(p, d)
          \/ Reconcile(p, d)
    \/ \E p \in Staff, d \in Openings : \E force \in {FALSE, OnApprovedLeave(p, d)} :
          SelectApplicant(p, d, force)
    \/ \E a, b \in Days : CopyWeek(a, b)
    \/ \E d \in Days : ChangeElsewhere(d) \/ ReturnDay(d)
    \/ \E d \in Days, force \in BOOLEAN : ApproveDay(d, force)
    \/ \E d \in Openings : PostOpening(d)
    \/ \E r \in Requests : RequestLeave(r) \/ ApproveLeave(r) \/ RejectLeave(r) \/ CancelLeave(r)
    \/ \E p \in Staff, D \in Imports, s \in {"scheduled", "on_leave"} : Import(p, D, s)
    \/ UndoImport
    \/ \E m \in Months :
          \/ SubmitMonth(m) \/ ApproveMonth(m) \/ ReturnMonth(m) \/ ReopenMonth(m)
          \/ LockMonth(m) \/ PutLock(m) \/ RemoveLock(m)

Spec == Init /\ [][Next]_vars

-----------------------------------------------------------------------------
(* Properties.                                                             *)

\* Two live requests of one person never share a day, whatever order they are opened,
\* rejected, approved again, imported and undone in (createLeaveRequest,
\* approveLeaveRequest, importSchedule, undoImportBatch).
NoDoubleLeave ==
    \A r, q \in Requests : Overlaps(r, q) => ~(Live(r) /\ Live(q))

\* The days of the approved leaves of p, each as often as a leave has it.
ApprovedLeaveDays(p) ==
    {x \in Requests \X Days :
        Of[x[1]] = p /\ leave[x[1]] = "approved" /\ x[2] \in Span[x[1]]}

ApprovedDaysOf(p) == Cardinality(ApprovedLeaveDays(p))

\* The counter of used days never holds a day twice: it is at most the approved leave
\* (adjustLeaveBalance at approval, rejection and cancellation; import and undo).
UsedNotAboveApproved == \A p \in Staff : used[p] <= ApprovedDaysOf(p)

\* The counter is exactly the approved leave: the undo of an import "gives the balance
\* back" (undoImportBatch).
UsedIsApproved == \A p \in Staff : used[p] = ApprovedDaysOf(p)

\* A day approved without force stays settled as long as it is approved: whoever writes
\* the sheet, takes a leave back or imports makes the approval fall.  Doubtful days only
\* remain, where a request ended too early or an open shift was filled
\* (resetDailyApprovalsForDates and its callers).
ApprovedDayIsSettled ==
    \A d \in Days : day[d] = "approved" => \A p \in Staff : SettledCell(p, d)

CellChanges(p, d) == cell'[p][d] # cell[p][d]
TakenBack(p, d) == \E r \in Requests : /\ Of[r] = p /\ d \in Span[r]
                                       /\ leave[r] = "approved" /\ leave'[r] = "rejected"
OpeningFilled(d) == d \in Openings /\ opening[d] = "open" /\ opening'[d] = "none"

\* While a month is locked its sheet changes in two ways only: an approved leave is
\* rejected, or an open shift of the month is filled (assertPeriodsUnlocked and the
\* writers that call it).
AlwaysLockedMonthChangesOnly ==
    [][\A p \in Staff, d \in Days :
         CellChanges(p, d) /\ MonthOf[d] \in locked => TakenBack(p, d) \/ OpeningFilled(d)]_vars

\* "locked month: every way that changes the timesheet answers 423"
\* (shifts-logic-scan.test.js): the sheet of a locked month does not change.
AlwaysLockedMonthUnchanged ==
    [][\A p \in Staff, d \in Days : CellChanges(p, d) => MonthOf[d] \notin locked]_vars
=============================================================================
