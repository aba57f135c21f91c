----------------------------- MODULE OfflineSync -----------------------------
(***************************************************************************)
(* The offline queue of a browser (IndexedDB, shared by every page of the  *)
(* origin), the laundry kiosk's entry form and the mobile fault form that  *)
(* fill it, the two loops that empty it, and the server's two POSTs.       *)
(*                                                                         *)
(* Every loop is an async function: it reads the queue once and then       *)
(* awaits each write and each answer, so loops interleave, work on what    *)
(* they read at their start, and vanish with their page.  A request with   *)
(* no answer may have been lost, handled, or may still reach the server.   *)
(***************************************************************************)
EXTENDS Naturals, FiniteSets, Functions

CONSTANTS
    Bags,        \* laundry entries; an id is the entry's client_request_id
    Faults,      \* quick fault reports; the server knows no id of theirs
    Flushes,     \* runs of a loop that may overlap
    PageOf,      \* the page of each, "kiosk" or "mobile"
    QueueLimit,  \* OFFLINE_QUEUE_LIMIT, 500
    MaxRetries,  \* 3
    MaxCloses,   \* bound on the times a page is closed
    MaxCopies    \* bound on the copies of a report the server stores

Items == Bags \cup Faults

ASSUME OfflineAssumption ==
    /\ Bags \cap Faults = {} /\ IsFiniteSet(Items)
    /\ PageOf \in [Flushes -> {"kiosk", "mobile"}]
    /\ {QueueLimit, MaxRetries, MaxCopies} \subseteq Nat \ {0} /\ MaxCloses \in Nat

VARIABLES
    row,     \* offline_queue, by id
    created, \* created_order of each row, 0 of an id without one
    form,    \* how far the form got with an entry and what it told the user
    flush,   \* what each run of a loop has read and awaits
    stored,  \* rows of laundry_items / maintenance_requests made for an entry
    stray,   \* requests nobody waits for that may still arrive
    closes   \* how often a page was closed

vars == <<row, created, form, flush, stored, stray, closes>>

ActiveStatuses == {"pending", "sending", "conflict", "rejected", "manual_review"}
Answers        == {"ok", "card", "conflict", "refused", "error", "none"}
Working        == {"posting", "offline", "checked"}

QueueRow == [status : ActiveStatuses \cup {"absent", "synced"}, retries : Nat]
\* What a loop keeps of the rows it has read and not yet sent.
Entry    == [created : Nat, retries : Nat]
Flush    == [todo : UNION {[S -> Entry] : S \in SUBSET Items},
             at   : {"idle", "next", "sending"} \cup Answers]

TypeOK ==
    /\ row \in [Items -> QueueRow]
    /\ created \in [Items -> Nat]
    /\ form \in [Items -> Working \cup {"new", "saved", "queued", "gone"}]
    /\ flush \in [Flushes -> Flush]
    /\ \A f \in Flushes : (flush[f].at = "idle") = (DOMAIN flush[f].todo = {})
    /\ stored \in [Items -> Nat]
    /\ stray \subseteq Items
    /\ closes \in 0 .. MaxCloses

NoEntries == [i \in {} |-> [created |-> 0, retries |-> 0]]
NoFlush   == [todo |-> NoEntries, at |-> "idle"]

Init ==
    /\ row = [i \in Items |-> [status |-> "absent", retries |-> 0]]
    /\ created = [i \in Items |-> 0]
    /\ form = [i \in Items |-> "new"]
    /\ flush = [f \in Flushes |-> NoFlush]
    /\ stored = [i \in Items |-> 0]
    /\ stray = {}
    /\ closes = 0

HomeOf(i) == IF i \in Bags THEN "kiosk" ELSE "mobile"

-----------------------------------------------------------------------------
(* The server *)

\* Mutant of CopiesAfter: client_request_id is not looked up.
CopiesAfterMutant(i) == stored[i] + 1

\* A known client_request_id gets the bag it already has; a fault report has
\* nothing the server could know it by.
CopiesAfter(i) == IF i \in Bags THEN 1 ELSE stored[i] + 1

Store(i) ==
    /\ i \in Bags \/ stored[i] < MaxCopies
    /\ stored' = [stored EXCEPT ![i] = CopiesAfter(i)]

\* One request is handled without interruption.  The card gate and the unique
\* columns come after the lookup; sessions and permissions before it.
Handle(i, answer) ==
    \/ answer = "ok" /\ Store(i)
    \/ answer \in {"refused", "error"} /\ UNCHANGED stored
    \/ answer \in {"card", "conflict"} /\ i \in Bags /\ stored[i] = 0 /\ UNCHANGED stored

\* The request or its answer is lost, or the request is late.
NoAnswer(i) ==
    \/ UNCHANGED <<stored, stray>>
    \/ Store(i) /\ UNCHANGED stray
    \/ stray' = stray \cup {i} /\ UNCHANGED stored

StrayArrives(i) ==
    /\ i \in stray
    /\ stray' = stray \ {i}
    /\ Store(i) \/ UNCHANGED stored
    /\ UNCHANGED <<row, created, form, flush, closes>>

-----------------------------------------------------------------------------
(* The forms: EntryForm.submit, QuickFault's mutation *)

\* A page shows one form, which is disabled while it works.
Submit(i) ==
    /\ form[i] = "new"
    /\ \A k \in Items : HomeOf(k) = HomeOf(i) => form[k] \notin Working
    /\ form' = [form EXCEPT ![i] = "posting"]
    /\ UNCHANGED <<row, created, flush, stored, stray, closes>>

\* An error with a response is shown and the form may be submitted again; the
\* fault form looks only at whether the browser is offline by now.
PostAnswered(i, answer) ==
    /\ form[i] = "posting"
    /\ Handle(i, answer)
    /\ \/ form' = [form EXCEPT ![i] = IF answer = "ok" THEN "saved" ELSE "new"]
       \/ i \in Faults /\ answer # "ok" /\ form' = [form EXCEPT ![i] = "offline"]
    /\ UNCHANGED <<row, created, flush, stray, closes>>

\* The fault form keeps an entry only when the browser says it is offline.
PostUnanswered(i) ==
    /\ form[i] = "posting"
    /\ NoAnswer(i)
    /\ \/ form' = [form EXCEPT ![i] = "offline"]
       \/ i \in Faults /\ form' = [form EXCEPT ![i] = "new"]
    /\ UNCHANGED <<row, created, flush, closes>>

Rows       == {i \in Items : row[i].status # "absent"}
ActiveRows == {i \in Items : row[i].status \in ActiveStatuses}

\* activeQueueCount() < OFFLINE_QUEUE_LIMIT
HasRoom == Cardinality(ActiveRows) < QueueLimit

\* enqueue counts in a transaction of its own and encrypts afterwards.
CheckLimit(i) ==
    /\ form[i] = "offline"
    /\ form' = [form EXCEPT ![i] = IF HasRoom THEN "checked" ELSE "new"]
    /\ UNCHANGED <<row, created, flush, stored, stray, closes>>

\* The time of the entry: what counts of it is that it is later than those of the others.
AddRow(i) ==
    /\ form[i] = "checked"
    /\ row' = [row EXCEPT ![i] = [status |-> "pending", retries |-> 0]]
    /\ created' = [created EXCEPT ![i] = Cardinality(Rows) + 1]
    /\ form' = [form EXCEPT ![i] = "queued"]
    /\ UNCHANGED <<flush, stored, stray, closes>>

-----------------------------------------------------------------------------
(* The loops: flushQueue of the kiosk, drain of the mobile layout *)

\* Mutant of Actionable: every visible row.
ActionableMutant(i) == row[i].status \in ActiveStatuses

Actionable(i) == row[i].status \in {"pending", "sending"}

\* The kiosk filters by type, the mobile layout takes what it finds.
Reads(f, i) == Actionable(i) /\ (PageOf[f] = "kiosk" => i \in Bags)

\* On mount and at each 'online' event; nothing looks for a run under way.
StartFlush(f) ==
    LET found == {i \in Items : Reads(f, i)} IN
    /\ flush[f].at = "idle"
    /\ found # {}
    /\ flush' = [flush EXCEPT ![f] =
         [todo |-> [i \in found |-> [created |-> created[i], retries |-> row[i].retries]],
          at   |-> "next"]]
    /\ UNCHANGED <<row, created, form, stored, stray, closes>>

\* The oldest entry is the next one.
Item(f) ==
    LET todo == flush[f].todo
    IN  CHOOSE i \in DOMAIN todo : \A k \in DOMAIN todo : todo[i].created <= todo[k].created

\* item.retries + 1; past the last try the count makes no difference any more,
\* although loops that overlap can drive it higher and higher.
Retries(f) ==
    LET read == flush[f].todo[Item(f)].retries
    IN  IF read < MaxRetries THEN read + 1 ELSE read

\* replayItem of the mobile layout has no branch for other pages' types and
\* returns as if it had sent them.
IsSent(f) == PageOf[f] = "kiosk" \/ Item(f) \in Faults

MarkSending(f) ==
    /\ flush[f].at = "next"
    /\ row' = [row EXCEPT ![Item(f)].status = "sending"]
    /\ flush' = [flush EXCEPT ![f].at = IF IsSent(f) THEN "sending" ELSE "ok"]
    /\ UNCHANGED <<created, form, stored, stray, closes>>

Answered(f, answer) ==
    /\ flush[f].at = "sending"
    /\ Handle(Item(f), answer)
    /\ flush' = [flush EXCEPT ![f].at = answer]
    /\ UNCHANGED <<row, created, form, stray, closes>>

Unanswered(f) ==
    /\ flush[f].at = "sending"
    /\ NoAnswer(Item(f))
    /\ flush' = [flush EXCEPT ![f].at = "none"]
    /\ UNCHANGED <<row, created, form, closes>>

\* Mutant of NewRow: a failed row goes back to the queue however often it failed.
NewRowMutant(f, answer) ==
    [status  |-> CASE answer = "ok"              -> "synced"
                   [] answer = "card"            -> "manual_review"
                   [] answer = "conflict"        -> "conflict"
                   [] answer = "refused"         -> "rejected"
                   [] answer \in {"error", "none"} -> "pending",
     retries |-> IF answer = "ok" THEN row[Item(f)].retries ELSE Retries(f)]

\* Mutant of NewRow: the status of the response is not looked at.
NewRowAnyAnswer(f, answer) ==
    [status |-> IF answer = "none" THEN "pending" ELSE "synced", retries |-> Retries(f)]

\* What the loop writes over the row, from the retries it read at its start.
NewRow(f, answer) ==
    [status  |-> CASE answer = "ok"              -> "synced"
                   [] answer = "card"            -> "manual_review"
                   [] answer = "conflict"        -> "conflict"
                   [] answer = "refused"         -> "rejected"
                   [] answer \in {"error", "none"} ->
                        IF Retries(f) >= MaxRetries THEN "manual_review" ELSE "pending",
     retries |-> IF answer = "ok" THEN row[Item(f)].retries ELSE Retries(f)]

\* The kiosk gives up at the first request without an answer.
AfterAnswer(f, answer) ==
    IF answer = "none" /\ PageOf[f] = "kiosk" THEN NoEntries
    ELSE Restrict(flush[f].todo, DOMAIN flush[f].todo \ {Item(f)})

WriteResult(f) ==
    LET answer == flush[f].at
        rest   == AfterAnswer(f, answer)
    IN  /\ answer \in Answers
        /\ row' = [row EXCEPT ![Item(f)] = NewRow(f, answer)]
        /\ flush' = [flush EXCEPT ![f] =
                       [todo |-> rest, at |-> IF DOMAIN rest = {} THEN "idle" ELSE "next"]]
        /\ UNCHANGED <<created, form, stored, stray, closes>>

\* The page is closed or reloaded: its loops and its form are gone, the
\* requests they had sent may still arrive.
ClosePage(page) ==
    LET ending == {f \in Flushes : PageOf[f] = page /\ flush[f].at # "idle"}
        forms  == {i \in Items : HomeOf(i) = page /\ form[i] \in Working}
        sent   == {Item(f) : f \in {g \in ending : flush[g].at = "sending"}}
                    \cup {i \in forms : form[i] = "posting"}
    IN  /\ closes < MaxCloses
        /\ ending # {} \/ forms # {}
        /\ closes' = closes + 1
        /\ flush' = [f \in Flushes |-> IF f \in ending THEN NoFlush ELSE flush[f]]
        /\ form' = [i \in Items |-> IF i \in forms THEN "gone" ELSE form[i]]
        /\ \E late \in SUBSET sent : stray' = stray \cup late
        /\ UNCHANGED <<row, created, stored>>

-----------------------------------------------------------------------------
FormStep(i) ==
    \/ Submit(i)
    \/ \E answer \in Answers : PostAnswered(i, answer)
    \/ PostUnanswered(i)
    \/ CheckLimit(i)
    \/ AddRow(i)

FlushGoesOn(f) ==
    \/ MarkSending(f)
    \/ \E answer \in Answers : Answered(f, answer)
    \/ Unanswered(f)
    \/ WriteResult(f)

Next ==
    \/ \E i \in Items : FormStep(i) \/ StrayArrives(i)
    \/ \E f \in Flushes : StartFlush(f) \/ FlushGoesOn(f)
    \/ \E page \in {"kiosk", "mobile"} : ClosePage(page)

Spec == Init /\ [][Next]_vars

\* Each page is opened, or goes online, again and again, and a request ends
\* with an answer or an error.
Fairness == \A f \in Flushes : WF_vars(StartFlush(f)) /\ WF_vars(FlushGoesOn(f))

FairSpec == Spec /\ Fairness

-----------------------------------------------------------------------------
(* Safety *)

\* However often an entry is submitted, flushed by overlapping loops, or
\* arrives late, the laundry gets one bag for it.
BagStoredOnce == \A i \in Bags : stored[i] <= 1

\* What disappears from the visible queue as synced is on the server.
SyncedIsStored == \A i \in Items : row[i].status = "synced" => stored[i] > 0

\* The same of fault reports only, which the mobile layout does send.
SyncedFaultIsStored == \A i \in Faults : row[i].status = "synced" => stored[i] > 0

\* With one loop, what is synced or waits for a person is left alone.
SettledStays ==
    \A i \in Items :
        row[i].status \in {"synced", "conflict", "rejected", "manual_review"}
            => row'[i] = row[i]

AlwaysSettledStays == [][SettledStays]_vars

-----------------------------------------------------------------------------
(* Liveness *)

\* With one loop a queued entry is either sent or handed to a person, although
\* the loop gives up on the rows behind one that gets no answer. (With two
\* overlapping loops it need not be: they overwrite each other's retry counts.)
EntrySettles ==
    \A i \in Items :
        form[i] = "queued" ~> row[i].status \in {"synced", "conflict", "rejected", "manual_review"}
=============================================================================
