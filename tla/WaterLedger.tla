---------------------------- MODULE WaterLedger ----------------------------
(***************************************************************************)
(* The stock ledger of modules/water: deliveries (type 'in', the lots),    *)
(* distributions (type 'out'), the allocations that say from which lot a   *)
(* distribution was met, the FIFO start date, returned empties and the     *)
(* months that are closed.                                                 *)
(*                                                                         *)
(* Every service is one transaction of a single process, so every action   *)
(* is a whole service.  Only distributions are stored in one transaction   *)
(* and put to review in another: the process can end between the two       *)
(* (DistributeCut), and nothing else can come between them.  Dates are     *)
(* days 1..LastDay, a month is DaysPerMonth of them; quantities are in     *)
(* base units.  A lot without an expiry date has NoExpiry, which is later  *)
(* than every day: it is served last, and it never expires.  NoStart is    *)
(* earlier than every day.                                                 *)
(***************************************************************************)
EXTENDS Integers, FiniteSets, FiniteSetsExt, Sequences, Functions, Folds

CONSTANTS
    Products,
    Tracked,        \* products with expiry_tracking
    Returnable,     \* products with is_returnable
    LastDay,        \* days of the calendar; Today is one of them
    Today,
    DaysPerMonth,
    Expiries,       \* expiry dates that are entered
    Statuses,       \* lot states that are used: active, quarantined
    Quantities,     \* quantities that are entered
    Starts,         \* FIFO start dates that are set
    MaxLots,        \* bound on deliveries, distributions, returns, and on the
    MaxOuts,        \*   lines of a batch
    MaxReturns,
    MaxLines,
    MonthsClose     \* whether months are closed

NoStart  == 0
NoExpiry == LastDay + 1
Dates    == 1..LastDay
LotIds   == 1..MaxLots
OutIds   == 1..MaxOuts
ReturnIds == 1..MaxReturns
Months   == {(d - 1) \div DaysPerMonth : d \in Dates}
Month(d) == (d - 1) \div DaysPerMonth

ASSUME LedgerAssumption ==
    /\ Tracked \subseteq Products /\ Returnable \subseteq Products
    /\ LastDay \in Nat \ {0} /\ Today \in Dates /\ DaysPerMonth \in Nat \ {0}
    /\ Expiries \subseteq Dates \cup {NoExpiry}
    /\ Statuses \subseteq {"active", "quarantined"} /\ "active" \in Statuses
    /\ Quantities \subseteq Nat \ {0}
    /\ Starts \subseteq {NoStart} \cup 1..Today
    /\ {MaxLots, MaxOuts, MaxReturns, MaxLines} \subseteq Nat
    /\ MonthsClose \in BOOLEAN

VARIABLES
    ledger,   \* lots, outs and alloc: water_movements and water_movement_allocations;
              \* start: the setting water_fifo_start_date
    returns,  \* water_returns
    locked    \* months with a closure that is locked

vars == <<ledger, returns, locked>>

LotRow    == [product : Products, date : Dates, qty : Quantities, expiry : Expiries,
              status : Statuses]
OutRow    == [product : Products, date : Dates, qty : Quantities, review : BOOLEAN,
              approved : Nat]   \* unallocated_base of the last decision on it
ReturnRow == [product : Products, date : Dates, qty : Quantities]

(***************************************************************************)
(* What is left of a lot, what is missing of a distribution.               *)
(***************************************************************************)
Allocated(w, o) == SumFunctionOnSet(w.alloc[o], LotIds)
Used(w, i)      == SumFunctionOnSet([o \in OutIds |-> w.alloc[o][i]], OutIds)
Unmet(w, o)     == w.outs[o].qty - Allocated(w, o)
Left(w, i)      == w.lots[i].qty - Used(w, i)
Supplied(w, i)  == {o \in OutIds : w.alloc[o][i] > 0}

Smaller(a, b) == IF a < b THEN a ELSE b

CanServe(lot, date) ==
    /\ lot.product \in Tracked => lot.expiry # NoExpiry
    /\ lot.expiry >= date

\* Mutant of IsOpen: openIntakeLots without lot_status='active'.
IsOpenMutant(w, i) == w.lots[i].date >= w.start /\ Left(w, i) > 0

IsOpen(w, i) == /\ w.lots[i].status = "active"
                /\ w.lots[i].date >= w.start
                /\ Left(w, i) > 0

\* FEFO: the earliest expiry first, then the oldest delivery.
LotBefore(w, i, j) ==
    LET a == w.lots[i]
        b == w.lots[j]
    IN  \/ a.expiry < b.expiry
        \/ a.expiry = b.expiry /\ a.date < b.date
        \/ a.expiry = b.expiry /\ a.date = b.date /\ i < j

\* Mutant of LastLot: first in, first out, whatever expires first.
LastLotMutant(w, S) ==
    CHOOSE i \in S : \A j \in S \ {i} :
        \/ w.lots[j].date < w.lots[i].date
        \/ w.lots[j].date = w.lots[i].date /\ j < i

LastLot(w, S) == CHOOSE i \in S : \A j \in S \ {i} : LotBefore(w, j, i)

OpenLots(w, p) == {i \in DOMAIN w.lots : w.lots[i].product = p /\ IsOpen(w, i)}

(***************************************************************************)
(* Meeting one distribution from the open lots, and all that wait.         *)
(***************************************************************************)
Take(w, o, i) ==
    IF CanServe(w.lots[i], w.outs[o].date)
    THEN [w EXCEPT !.alloc[o][i] = @ + Smaller(Unmet(w, o), Left(w, i))]
    ELSE w

\* The open lots as they are before the distribution is met, one after the other.
Serve(w, o) ==
    IF w.outs[o].date < w.start THEN w
    ELSE MapThenFoldSet(LAMBDA i, served : Take(served, o, i), w, LAMBDA i : i,
                        LAMBDA S : LastLot(w, S), OpenLots(w, w.outs[o].product))

OpenNeeds(w, ps) == {o \in DOMAIN w.outs : /\ w.outs[o].product \in ps
                                           /\ w.outs[o].date >= w.start
                                           /\ Unmet(w, o) > 0}

LastTurn(turn, os) ==
    CHOOSE o \in os : \A p \in os \ {o} : turn[p] < turn[o] \/ (turn[p] = turn[o] /\ p < o)

\* The distributions of os, in the order of turn and then of their ids.
ServeAll(w, os, turn) ==
    MapThenFoldSet(LAMBDA o, served : Serve(served, o), w, LAMBDA o : o,
                   LAMBDA S : LastTurn(turn, S), os)

WithReview(w, os, flag) ==
    [w EXCEPT !.outs = [o \in DOMAIN @ |-> IF o \in os THEN [@[o] EXCEPT !.review = flag]
                                                       ELSE @[o]]]

ClearResolved(w, ps) ==
    WithReview(w, {o \in DOMAIN w.outs : w.outs[o].product \in ps /\ Unmet(w, o) <= 0}, FALSE)

\* Mutant of Reconciled: without clearResolvedReviews.
ReconciledMutant(w, ps) == ServeAll(w, OpenNeeds(w, ps), [o \in DOMAIN w.outs |-> w.outs[o].date])

\* The oldest first.
Reconciled(w, ps) ==
    ClearResolved(ServeAll(w, OpenNeeds(w, ps), [o \in DOMAIN w.outs |-> w.outs[o].date]), ps)

Flagged(w, os) ==
    WithReview(w, {o \in os \cap DOMAIN w.outs : /\ w.outs[o].date >= w.start
                                                 /\ Unmet(w, o) > 0}, TRUE)

ReviewsClearedBefore(w, start, os) ==
    WithReview(w, {o \in os \cap DOMAIN w.outs : w.outs[o].date < start}, FALSE)

\* Mutant of LotReleased: an edited delivery keeps what it supplied.
LotReleasedMutant(w, i) == w

LotReleased(w, i) ==
    [w EXCEPT !.alloc = [o \in OutIds |-> [w.alloc[o] EXCEPT ![i] = 0]]]

NothingFrom == [i \in LotIds |-> 0]

Unlocked(d) == Month(d) \notin locked

\* A new row comes after all that are there: the tables are AUTOINCREMENT.
LastId(table)       == IF DOMAIN table = {} THEN 0 ELSE Max(DOMAIN table)
NewIds(table, rows) == (LastId(table) + 1)..(LastId(table) + Len(rows))
Appended(table, rows) ==
    [i \in DOMAIN table \cup NewIds(table, rows) |->
        IF i \in DOMAIN table THEN table[i] ELSE rows[i - LastId(table)]]

Lines(S) == UNION {[1..n -> S] : n \in 1..MaxLines}

\* A delivery as normalizeIntakeLot lets it in, and a distribution.
LotAccepted(r) == /\ r.product \in Tracked => r.expiry # NoExpiry
                  /\ r.expiry >= r.date
EnteredLots    == {r \in LotRow : r.status = "active" /\ LotAccepted(r)}
EnteredOuts    == [product : Products, date : Dates, qty : Quantities,
                   review : {FALSE}, approved : {0}]

(***************************************************************************)
(* Empties in circulation: deliveries less returns.                        *)
(***************************************************************************)
Total(table, p) ==
    SumFunctionOnSet([i \in DOMAIN table |-> table[i].qty],
                     {i \in DOMAIN table : table[i].product = p})

Deposit(w, p) == Total(w.lots, p) - Total(returns, p)

\* Mutant of DepositNotWorse: only a product that still has deliveries is looked at.
DepositNotWorseMutant(w, ps) ==
    \A p \in ps \cap Returnable :
        (\E i \in DOMAIN w.lots : w.lots[i].product = p) /\ Deposit(w, p) < 0
            => Deposit(w, p) >= Deposit(ledger, p)

DepositNotWorse(w, ps) ==
    \A p \in ps \cap Returnable :
        Deposit(w, p) < 0 => Deposit(w, p) >= Deposit(ledger, p)

(***************************************************************************)
(* Deliveries.                                                             *)
(***************************************************************************)
Init ==
    /\ ledger = [lots |-> << >>, outs |-> << >>,
                 alloc |-> [o \in OutIds |-> NothingFrom], start |-> NoStart]
    /\ returns = << >>
    /\ locked = {}

\* createIntakeService, batchIntakeService: the lines of one delivery, of one day.
Receive(rows) ==
    LET added == [ledger EXCEPT !.lots = Appended(@, rows)]
    IN  /\ NewIds(ledger.lots, rows) \subseteq LotIds
        /\ \A k \in DOMAIN rows : rows[k].date = rows[1].date
        /\ Unlocked(rows[1].date)
        /\ ledger' = Reconciled(added, {rows[k].product : k \in DOMAIN rows})
        /\ UNCHANGED <<returns, locked>>

\* updateIntakeService: a delivery that was entered wrongly; its status stays.
UpdateIntake(i, r) ==
    LET freed   == Supplied(ledger, i)
        product == ledger.lots[i].product
        changed == [LotReleased(ledger, i) EXCEPT
                      !.lots[i] = [r EXCEPT !.status = ledger.lots[i].status]]
    IN  /\ Unlocked(ledger.lots[i].date) /\ Unlocked(r.date)
        /\ DepositNotWorse(changed, {product, r.product})
        /\ ledger' = Flagged(Reconciled(changed, {product, r.product}), freed)
        /\ UNCHANGED <<returns, locked>>

\* deleteMovementService of a delivery; one in use only with force.
DeleteIntake(i, force) ==
    LET freed   == Supplied(ledger, i)
        removed == [LotReleased(ledger, i) EXCEPT !.lots = Restrict(@, DOMAIN @ \ {i})]
    IN  /\ Unlocked(ledger.lots[i].date)
        /\ freed = {} \/ force
        /\ DepositNotWorse(removed, {ledger.lots[i].product})
        /\ ledger' = IF freed = {} THEN removed
                     ELSE Flagged(Reconciled(removed, {ledger.lots[i].product}), freed)
        /\ UNCHANGED <<returns, locked>>

LotChanged(i, expiry, status) == [ledger EXCEPT !.lots[i].expiry = expiry, !.lots[i].status = status]
EntersQuarantine(i, status) == status = "quarantined" /\ ledger.lots[i].status # status

\* Mutant of UpdateIntakeLot: a lot taken out of quarantine is not matched.
UpdateIntakeLotMutant(i, expiry, status) ==
    LET freed   == IF EntersQuarantine(i, status) THEN Supplied(ledger, i) ELSE {}
        cleared == LotReleased(LotChanged(i, expiry, status), i)
    IN  /\ Left(ledger, i) > 0 \/ EntersQuarantine(i, status)
        /\ LotAccepted(cleared.lots[i])
        /\ ledger' = IF freed = {} THEN LotChanged(i, expiry, status)
                     ELSE Flagged(Reconciled(cleared, {cleared.lots[i].product}), freed)
        /\ UNCHANGED <<returns, locked>>

\* updateIntakeLotService: expiry date and quarantine. It asks for no open month.
UpdateIntakeLot(i, expiry, status) ==
    LET changed == LotChanged(i, expiry, status)
        freed   == IF EntersQuarantine(i, status) THEN Supplied(ledger, i) ELSE {}
        cleared == IF freed = {} THEN changed ELSE LotReleased(changed, i)
    IN  /\ Left(ledger, i) > 0 \/ EntersQuarantine(i, status)
        /\ LotAccepted(changed.lots[i])
        /\ ledger' = Flagged(IF status = "active" \/ freed # {}
                             THEN Reconciled(cleared, {changed.lots[i].product})
                             ELSE cleared, freed)
        /\ UNCHANGED <<returns, locked>>

(***************************************************************************)
(* Distributions.                                                          *)
(***************************************************************************)
\* createDistributionService, batchDistributeService: each line has its own day.
MayDistribute(rows) ==
    /\ NewIds(ledger.outs, rows) \subseteq OutIds
    /\ \A k \in DOMAIN rows : Unlocked(rows[k].date)

\* The first transaction (createMovementsBatchWithAllocations): the lines share the lots.
HandedOut(rows) ==
    LET ids   == NewIds(ledger.outs, rows)
        added == [ledger EXCEPT !.outs = Appended(@, rows)]
    IN  ServeAll(added, ids, [o \in ids |-> o])

\* What is missing goes to review in a statement of its own after it.
Distribute(rows) ==
    /\ MayDistribute(rows)
    /\ ledger' = Flagged(HandedOut(rows), NewIds(ledger.outs, rows))
    /\ UNCHANGED <<returns, locked>>

\* The process ends between the two, or the second fails.
DistributeCut(rows) ==
    /\ MayDistribute(rows)
    /\ ledger' = HandedOut(rows)
    /\ UNCHANGED <<returns, locked>>

\* updateMovementWithAllocations: the row changes and has no allocations.
OutChanged(o, r) ==
    [ledger EXCEPT !.alloc[o] = NothingFrom,
                   !.outs[o] = [@ EXCEPT !.product = r.product, !.date = r.date, !.qty = r.qty]]

\* Mutant of UpdateDistribution: the new date is not checked against the lock.
UpdateDistributionOldMonth(o, r) ==
    /\ Unlocked(ledger.outs[o].date)
    /\ ledger' = Flagged(Reconciled(OutChanged(o, r), {ledger.outs[o].product, r.product}), {o})
    /\ UNCHANGED <<returns, locked>>

\* updateDistributionService: met anew from nothing.
UpdateDistribution(o, r) ==
    LET ps  == {ledger.outs[o].product, r.product}
        met == Flagged(Reconciled(OutChanged(o, r), ps), {o})
    IN  /\ Unlocked(ledger.outs[o].date) /\ Unlocked(r.date)
        /\ ledger' = ReviewsClearedBefore(met, ledger.start, {o})
        /\ UNCHANGED <<returns, locked>>

WithoutOuts(w, os) ==
    [w EXCEPT !.outs = Restrict(@, DOMAIN @ \ os),
              !.alloc = [o \in OutIds |-> IF o \in os THEN NothingFrom ELSE @[o]]]

\* deleteMovementService of a distribution; its allocations cascade.
DeleteDistribution(o) ==
    /\ Unlocked(ledger.outs[o].date)
    /\ ledger' = Reconciled(WithoutOuts(ledger, {o}), {ledger.outs[o].product})
    /\ UNCHANGED <<returns, locked>>

\* clearDistributionsService: all of a period, or none if a month is locked.
ClearDistributions(from, to) ==
    LET os == {o \in DOMAIN ledger.outs : ledger.outs[o].date \in from..to}
    IN  /\ os # {}
        /\ \A o \in os : Unlocked(ledger.outs[o].date)
        /\ ledger' = Reconciled(WithoutOuts(ledger, os), {ledger.outs[o].product : o \in os})
        /\ UNCHANGED <<returns, locked>>

\* approveReviewsService: a decision on what is missing; the ids the user chose.
ApproveReviews(os) ==
    /\ \A o \in os : ledger.outs[o].review
    /\ ledger' = [ledger EXCEPT !.outs = [o \in DOMAIN @ |->
                     IF o \in os THEN [@[o] EXCEPT !.review = FALSE,
                                                   !.approved = Unmet(ledger, o)]
                                 ELSE @[o]]]
    /\ UNCHANGED <<returns, locked>>

(***************************************************************************)
(* The FIFO start: what lies before it is history that no lot meets.       *)
(***************************************************************************)
Crosses(w, o, i) == /\ w.alloc[o][i] > 0
                    /\ (w.lots[i].date < w.start) # (w.outs[o].date < w.start)

CrossingReleased(w) ==
    [w EXCEPT !.alloc = [o \in OutIds |-> [i \in LotIds |->
        IF Crosses(w, o, i) THEN 0 ELSE w.alloc[o][i]]]]

\* Mutant of SetFifoStart: what it frees is matched again, and not flagged.
SetFifoStartNotFlagged(start) ==
    LET released == ReviewsClearedBefore(CrossingReleased([ledger EXCEPT !.start = start]),
                                         start, OutIds)
    IN  /\ ledger' = Reconciled(released, Products)
        /\ UNCHANGED <<returns, locked>>

\* setFifoStartService. The start is removed with NoStart: then nothing is
\* released and nothing is flagged.
SetFifoStart(start) ==
    LET written  == [ledger EXCEPT !.start = start]
        affected == {o \in DOMAIN ledger.outs : /\ ledger.outs[o].date >= start
                                                /\ \E i \in LotIds : Crosses(written, o, i)}
        released == ReviewsClearedBefore(CrossingReleased(written), start, OutIds)
    IN  /\ ledger' = Flagged(Reconciled(released, Products), affected)
        /\ UNCHANGED <<returns, locked>>

(***************************************************************************)
(* Returned empties and closed months.                                     *)
(***************************************************************************)
\* createReturnService, batchReturnService
Return(rows) ==
    /\ NewIds(returns, rows) \subseteq ReturnIds
    /\ \A k \in DOMAIN rows : rows[k].product \in Returnable /\ Unlocked(rows[k].date)
    /\ \A k \in DOMAIN rows : Total(rows, rows[k].product) <= Deposit(ledger, rows[k].product)
    /\ returns' = Appended(returns, rows)
    /\ UNCHANGED <<ledger, locked>>

\* deleteReturnService
DeleteReturn(k) ==
    /\ Unlocked(returns[k].date)
    /\ returns' = Restrict(returns, DOMAIN returns \ {k})
    /\ UNCHANGED <<ledger, locked>>

\* monthlyCloseService
CloseMonth(m) ==
    /\ MonthsClose
    /\ locked' = locked \cup {m}
    /\ UNCHANGED <<ledger, returns>>

\* monthlyUnlockService
UnlockMonth(m) ==
    /\ m \in locked
    /\ locked' = locked \ {m}
    /\ UNCHANGED <<ledger, returns>>

ChangeLots ==
    \/ \E rows \in Lines(EnteredLots) : Receive(rows)
    \/ \E i \in DOMAIN ledger.lots :
          \/ \E r \in EnteredLots : UpdateIntake(i, r)
          \/ \E force \in BOOLEAN : DeleteIntake(i, force)
          \/ \E e \in Expiries, s \in Statuses : UpdateIntakeLot(i, e, s)

ChangeOuts ==
    \/ \E rows \in Lines(EnteredOuts) : Distribute(rows) \/ DistributeCut(rows)
    \/ \E o \in DOMAIN ledger.outs :
          \/ \E r \in EnteredOuts : UpdateDistribution(o, r)
          \/ DeleteDistribution(o)
    \/ \E from, to \in Dates : ClearDistributions(from, to)
    \/ \E os \in SUBSET DOMAIN ledger.outs \ {{}} : ApproveReviews(os)

Next ==
    \/ ChangeLots
    \/ ChangeOuts
    \/ \E start \in Starts : SetFifoStart(start)
    \/ \E rows \in Lines(ReturnRow) : Return(rows)
    \/ \E k \in DOMAIN returns : DeleteReturn(k)
    \/ \E m \in Months : CloseMonth(m) \/ UnlockMonth(m)

Spec == Init /\ [][Next]_vars

(***************************************************************************)
(* Properties.                                                             *)
(***************************************************************************)

\* The rows of the four tables and the setting have the values the schema and
\* the checks at entry allow; an allocation joins rows that exist.
TypeOK ==
    /\ DOMAIN ledger.lots \subseteq LotIds /\ DOMAIN ledger.outs \subseteq OutIds
    /\ \A i \in DOMAIN ledger.lots : ledger.lots[i] \in LotRow /\ LotAccepted(ledger.lots[i])
    /\ \A o \in DOMAIN ledger.outs : ledger.outs[o] \in OutRow
    /\ ledger.alloc \in [OutIds -> [LotIds -> Nat]]
    /\ \A o \in OutIds, i \in LotIds :
          ledger.alloc[o][i] > 0 => o \in DOMAIN ledger.outs /\ i \in DOMAIN ledger.lots
    /\ ledger.start \in Starts \cup {NoStart}
    /\ DOMAIN returns \subseteq ReturnIds /\ returns \in [DOMAIN returns -> ReturnRow]
    /\ locked \subseteq Months

\* No water is handed out twice: whatever was edited, deleted, quarantined and
\* matched again, a lot never supplies more than was delivered and a
\* distribution never gets more than was handed out (addMovementAllocations adds
\* to rows that are there, after balances read earlier in the transaction).
NothingAllocatedTwice ==
    /\ \A i \in DOMAIN ledger.lots : Used(ledger, i) <= ledger.lots[i].qty
    /\ \A o \in DOMAIN ledger.outs : Allocated(ledger, o) <= ledger.outs[o].qty

\* An allocation stays one the matching could make: same product, a lot that is
\* not in quarantine, and both on one side of the FIFO start, after any move of
\* the lot, of the distribution or of the start (movements.js, lots.js).
AllocationsAreMeetable ==
    \A o \in DOMAIN ledger.outs, i \in DOMAIN ledger.lots :
        ledger.alloc[o][i] > 0 =>
            /\ ledger.outs[o].product = ledger.lots[i].product
            /\ ledger.lots[i].status = "active"
            /\ (ledger.outs[o].date >= ledger.start) = (ledger.lots[i].date >= ledger.start)

\* Nothing waits beside water that could meet it: every service that frees or
\* adds some matches again all that it may concern (reconcileUnallocatedOut).
NoIdleStock ==
    \A o \in DOMAIN ledger.outs, i \in DOMAIN ledger.lots :
        ~ /\ ledger.outs[o].date >= ledger.start /\ Unmet(ledger, o) > 0
          /\ ledger.lots[i].product = ledger.outs[o].product
          /\ IsOpen(ledger, i) /\ CanServe(ledger.lots[i], ledger.outs[o].date)

\* The review queue holds only open shortages after the start: a row without one
\* could never be approved, water_review_decisions refuses a missing amount of 0
\* (migration 055:104) and the refusal undoes the approval of all the others.
ReviewHasShortage ==
    \A o \in DOMAIN ledger.outs :
        ledger.outs[o].review => Unmet(ledger, o) > 0 /\ ledger.outs[o].date >= ledger.start

\* What was missing of a distribution without anybody being asked: it was approved, or
\* a distribution was cut short, or the start moved back over it.
Unasked(o) == IF o \in DOMAIN ledger.outs /\ ~ledger.outs[o].review THEN Unmet(ledger, o) ELSE 0

\* A shortage is never lost: when a step opens one after the start, makes one larger or
\* takes one out of the queue, it is in the queue after the step, or the step approved
\* just this amount (flagReviewForUnallocated after every service that frees water).
ShortageAsked ==
    \A o \in DOMAIN ledger'.outs :
        /\ ledger'.outs[o].date >= ledger'.start
        /\ Unmet(ledger', o) > Unasked(o)
        => \/ ledger'.outs[o].review
           \/ /\ o \in DOMAIN ledger.outs /\ ledger.outs[o].review
              /\ ledger'.outs[o].approved = Unmet(ledger', o)

\* Only a distribution cut short loses one.
AlwaysShortageAsked ==
    [][ShortageAsked \/ \E rows \in Lines(EnteredOuts) : DistributeCut(rows)]_vars

\* No more empties are returned than were delivered, whatever happens to the
\* deliveries after the return (assertDepositNotWorse, assertReturnCapacity).
DepositNotNegative == \A p \in Returnable : Deposit(ledger, p) >= 0

\* A lot supplies no distribution of a day after its expiry date.
NothingExpiredAllocated ==
    \A o \in DOMAIN ledger.outs, i \in DOMAIN ledger.lots :
        ledger.alloc[o][i] > 0 => ledger.lots[i].expiry >= ledger.outs[o].date

\* The movements of a closed month, as docs/water-module.md counts them.
Frozen(d) == Month(d) \in locked

\* A closed month stays as it was closed: no step adds, changes, moves or removes
\* a delivery, a distribution or a return of a month that is locked.
ClosedMonthUnchanged ==
    /\ \A i \in DOMAIN ledger.lots : Frozen(ledger.lots[i].date) =>
          /\ i \in DOMAIN ledger'.lots
          /\ ledger'.lots[i].product = ledger.lots[i].product
          /\ ledger'.lots[i].date = ledger.lots[i].date
          /\ ledger'.lots[i].qty = ledger.lots[i].qty
    /\ \A o \in DOMAIN ledger.outs : Frozen(ledger.outs[o].date) =>
          /\ o \in DOMAIN ledger'.outs
          /\ ledger'.outs[o].product = ledger.outs[o].product
          /\ ledger'.outs[o].date = ledger.outs[o].date
          /\ ledger'.outs[o].qty = ledger.outs[o].qty
    /\ \A i \in DOMAIN ledger'.lots : Frozen(ledger'.lots[i].date) =>
          i \in DOMAIN ledger.lots /\ ledger.lots[i].date = ledger'.lots[i].date
    /\ \A o \in DOMAIN ledger'.outs : Frozen(ledger'.outs[o].date) =>
          o \in DOMAIN ledger.outs /\ ledger.outs[o].date = ledger'.outs[o].date
    /\ \A k \in DOMAIN returns : Frozen(returns[k].date) =>
          k \in DOMAIN returns' /\ returns'[k] = returns[k]
    /\ \A k \in DOMAIN returns' : Frozen(returns'[k].date) =>
          k \in DOMAIN returns /\ returns[k] = returns'[k]

AlwaysClosedMonthUnchanged == [][ClosedMonthUnchanged]_vars

\* FEFO holds across every service: whatever was freed and matched again, a step
\* gives no distribution more from a lot while an earlier one that could serve it
\* still has some left (openIntakeLots, allocateAgainstOpenLots).
EarlierLotFirst ==
    \A o \in DOMAIN ledger'.outs, i, j \in DOMAIN ledger'.lots :
        /\ ledger'.alloc[o][j] > ledger.alloc[o][j]
        /\ ledger'.lots[i].product = ledger'.outs[o].product
        /\ CanServe(ledger'.lots[i], ledger'.outs[o].date)
        /\ LotBefore(ledger', i, j)
        => ~IsOpen(ledger', i)

\* The oldest shortage is met first: a step gives a distribution more from a lot
\* only when no older one that was there and that this lot could serve is left
\* waiting (openDistributionNeeds).  Of the lines of one batch it says nothing:
\* they are met as they were entered, whatever their days (buildAllocationPlans).
OlderNeedFirst ==
    \A o, p \in DOMAIN ledger'.outs, i \in DOMAIN ledger'.lots :
        /\ o \in DOMAIN ledger.outs
        /\ ledger'.alloc[p][i] > ledger.alloc[p][i]
        /\ ledger'.outs[o].product = ledger'.lots[i].product
        /\ CanServe(ledger'.lots[i], ledger'.outs[o].date)
        /\ ledger'.outs[o].date >= ledger'.start
        /\ \/ ledger'.outs[o].date < ledger'.outs[p].date
           \/ ledger'.outs[o].date = ledger'.outs[p].date /\ o < p
        => Unmet(ledger', o) <= 0

AlwaysMatchedInOrder == [][EarlierLotFirst /\ OlderNeedFirst]_vars
=============================================================================
