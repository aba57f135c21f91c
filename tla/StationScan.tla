---------------------------- MODULE StationScan ----------------------------
(***************************************************************************)
(* A card is read at an unattended station: the canteen, where it takes a  *)
(* meal, or the exit, where a visitor's card ends.  The page shows the     *)
(* answer; without one it queues the scan and sends it again later, with   *)
(* a key and the time of the scan.                                         *)
(*                                                                         *)
(* The server runs a scan in one turn but writes it in several statements  *)
(* outside a transaction: the process may end between them.  The page may  *)
(* run two passes over its queue at once, each with its own copy of it.    *)
(*                                                                         *)
(* Time is counted in days and there is one kind of meal.  A station may   *)
(* be closed or its key changed at any time: a request is then refused.    *)
(* Why a card is refused is not told apart.  Left out: what changes        *)
(* entitlement, issue and expiry of cards, the blacklist alarm, entries by *)
(* hand at a station, which read no card and take no meal, and the mobile  *)
(* layout: opened on the station's device it marks the queued scans synced *)
(* unsent, as it does with every type it does not know (OfflineSync has    *)
(* it).                                                                    *)
(***************************************************************************)
EXTENDS Integers, FiniteSets

CONSTANTS
    MealCards,    \* cards of staff, read in the canteen
    VisitCards,   \* access cards of visitors, read at the exit
    Staff,
    HolderOf,     \* the member of staff a meal card is for
    Scans,        \* readings of a card: client_action_id once queued
    Passes,       \* runs of flushQueue
    RetryLimit,   \* retries at which an unanswered scan is given up
    StaleDays,    \* days after which a scan may be older than 48 hours
    LastDay,      \* bound: days 0 .. LastDay
    Entitled,     \* who has a meal on which day, by shift and leave
    MaxEnds,      \* bound: ends of the server process
    MaxEdits      \* bound: meals a manager writes or deletes

Cards == MealCards \cup VisitCards
Days  == 0 .. LastDay

ASSUME StationAssumption ==
    /\ MealCards \cap VisitCards = {}
    /\ HolderOf \in [MealCards -> Staff]
    /\ RetryLimit \in Nat \ {0} /\ StaleDays \in Nat
    /\ LastDay \in Nat /\ MaxEnds \in Nat /\ MaxEdits \in Nat
    /\ Entitled \subseteq Staff \X Days

VARIABLES
    today,
    active,     \* cards neither lost, revoked nor replaced
    admitted,   \* access_events with result 'ok'
    denied,     \* queued scans whose access_event has another result
    meals,      \* meal_logs
    scan,       \* what the page knows of a reading
    todo,       \* by pass: scans it read from the queue, with their retries
    sent,       \* by pass: the scan it has sent, with its answer
    ends,       \* times the server process ended so far
    edits,      \* meals a manager wrote or deleted so far
    struck,     \* history: meals a manager deleted
    unrevoked   \* history: visitor cards whose exit was cut short

page    == <<scan, todo, sent>>
history == <<edits, struck, unrevoked>>
vars    == <<today, active, admitted, denied, meals, page, ends, history>>

ScanStatus == {"new", "shown", "pending", "sending", "synced", "rejected", "manual_review"}
Fates      == {"served", "unserved", "cut"}   \* of a request
Event      == [scan : Scans, card : Cards, day : Days, keyed : BOOLEAN]
Copied     == Scans \X (0 .. RetryLimit)

TypeOK ==
    /\ today \in Days
    /\ active \subseteq Cards
    /\ admitted \subseteq Event /\ denied \subseteq Scans
    /\ meals \subseteq Staff \X Days
    /\ scan \in [Scans -> [card : Cards, day : Days, status : ScanStatus, retries : 0 .. RetryLimit]]
    /\ todo \in [Passes -> SUBSET Copied]
    /\ sent \in [Passes -> SUBSET (Copied \X Fates)]
    /\ ends \in 0 .. MaxEnds /\ edits \in 0 .. MaxEdits
    /\ struck \subseteq Staff \X Days /\ unrevoked \subseteq VisitCards

Init ==
    /\ today = 0
    /\ active = Cards
    /\ admitted = {} /\ denied = {} /\ meals = {}
    /\ scan \in [Scans -> [card : Cards, day : {0}, status : {"new"}, retries : {0}]]
    /\ todo = [p \in Passes |-> {}] /\ sent = [p \in Passes |-> {}]
    /\ ends = 0 /\ edits = 0
    /\ struck = {} /\ unrevoked = {}

-----------------------------------------------------------------------------
(* The server's part of a scan. *)

\* A queued scan keeps its day, unless it is older than 48 hours.
RecordedDays(x, keyed) ==
    LET age == today - scan[x].day
    IN CASE ~keyed \/ age > StaleDays -> {today}
         [] age = StaleDays           -> {scan[x].day, today}
         [] OTHER             -> {scan[x].day}

\* Mutant of LetsIn: a meal already taken is not looked for.
LetsInMutant(c, d) ==
    /\ c \in active
    /\ c \in MealCards => <<HolderOf[c], d>> \in Entitled

LetsIn(c, d) ==
    /\ c \in active
    /\ c \in MealCards => <<HolderOf[c], d>> \in Entitled \ meals

Logged(x) == x \in denied \/ \E e \in admitted : e.scan = x /\ e.keyed

MealTaken(c, d) == IF c \in MealCards THEN meals \cup {<<HolderOf[c], d>>} ELSE meals

\* Mutant of ExitEndsCard: the card stays active.
ExitEndsCardMutant(c) == active

ExitEndsCard(c) == active \ ({c} \cap VisitCards)

Entered(x, keyed, d) == admitted \cup {[scan |-> x, card |-> scan[x].card, day |-> d, keyed |-> keyed]}

\* A keyed scan that is in the log is answered from it.
Serve(x, keyed) ==
    /\ UNCHANGED <<ends, history>>
    /\ IF keyed /\ Logged(x) THEN UNCHANGED <<admitted, denied, meals, active>>
       ELSE \E d \in RecordedDays(x, keyed) :
          IF LetsIn(scan[x].card, d)
          THEN /\ admitted' = Entered(x, keyed, d)
               /\ meals' = MealTaken(scan[x].card, d)
               /\ active' = ExitEndsCard(scan[x].card)
               /\ UNCHANGED denied
          ELSE /\ denied' = IF keyed THEN denied \cup {x} ELSE denied
               /\ UNCHANGED <<admitted, meals, active>>

\* Mutant of CutShort: the event is written before the meal.
CutShortMutant(x, keyed) ==
    /\ ends < MaxEnds /\ ends' = ends + 1
    /\ ~(keyed /\ Logged(x))
    /\ LET c == scan[x].card IN
       \E d \in RecordedDays(x, keyed) :
          /\ LetsIn(c, d)
          /\ admitted' = Entered(x, keyed, d)
          /\ unrevoked' = unrevoked \cup ({c} \cap VisitCards)
    /\ UNCHANGED <<active, denied, meals, edits, struck>>

\* The process ends between the meal and the event, or the event and the card.
CutShort(x, keyed) ==
    /\ ends < MaxEnds /\ ends' = ends + 1
    /\ ~(keyed /\ Logged(x))
    /\ LET c == scan[x].card IN
       \E d \in RecordedDays(x, keyed) :
          /\ LetsIn(c, d)
          /\ meals' = MealTaken(c, d)
          /\ admitted' = IF c \in VisitCards THEN Entered(x, keyed, d) ELSE admitted
          /\ unrevoked' = unrevoked \cup ({c} \cap VisitCards)
    /\ UNCHANGED <<active, denied, edits, struck>>

Unserved == UNCHANGED <<admitted, denied, meals, active, ends, history>>

-----------------------------------------------------------------------------
(* The station page. *)

Tap(x, c, status) ==
    /\ scan[x].status = "new" /\ scan[x].card = c
    /\ scan' = [scan EXCEPT ![x].status = status, ![x].day = today]
    /\ UNCHANGED <<today, todo, sent>>

\* The request has no idempotency key; a refusal is shown and not queued.
ScanAnswered(x, c) ==
    /\ Tap(x, c, "shown")
    /\ \/ Serve(x, FALSE)
       \/ Unserved

\* The request or its answer is lost: the scan is queued under a new key.
ScanQueued(x, c) ==
    /\ Tap(x, c, "pending")
    /\ \/ Serve(x, FALSE) \/ CutShort(x, FALSE)
       \/ Unserved

\* A pass copies the queue; nothing keeps a second one from starting.
StartPass(p) ==
    /\ todo[p] = {} /\ sent[p] = {}
    /\ todo' = [todo EXCEPT ![p] =
           {<<x, scan[x].retries>> : x \in {y \in Scans : scan[y].status \in {"pending", "sending"}}}]
    /\ todo'[p] # {}
    /\ UNCHANGED <<today, active, admitted, denied, meals, scan, sent, ends, history>>

\* The row is marked as sending and the server has the request, or has not.
Send(p, i) ==
    /\ i \in todo[p] /\ sent[p] = {}
    /\ todo' = [todo EXCEPT ![p] = @ \ {i}]
    /\ scan' = [scan EXCEPT ![i[1]].status = "sending"]
    /\ \E f \in Fates :
          /\ sent' = [sent EXCEPT ![p] = {<<i, f>>}]
          /\ CASE f = "served"   -> Serve(i[1], TRUE)
               [] f = "unserved" -> Unserved
               [] f = "cut"      -> CutShort(i[1], TRUE)
    /\ UNCHANGED today

AnswersTo(fate) ==
    CASE fate = "served"   -> {"2xx", "lost"}
      [] fate = "unserved" -> {"4xx", "5xx", "lost"}
      [] fate = "cut"      -> {"lost"}

\* Mutant of Settled: any answer counts as success.
SettledMutant(a, tries) ==
    CASE a = "lost" -> [status |-> IF tries >= RetryLimit THEN "manual_review" ELSE "pending", retries |-> tries]
      [] OTHER      -> [status |-> "synced", retries |-> tries - 1]

\* What a row becomes after the answer, tries being one more than in the copy.
Settled(a, tries) ==
    CASE a = "2xx"  -> [status |-> "synced", retries |-> tries - 1]
      [] a = "4xx"  -> [status |-> "rejected", retries |-> tries]
      [] a = "5xx"  -> [status |-> "pending", retries |-> tries]
      [] a = "lost" -> [status |-> IF tries >= RetryLimit THEN "manual_review" ELSE "pending",
                        retries |-> tries]

\* After a network error the pass ends.  Retries beyond RetryLimit count alike.
Answered(p) ==
    \E s \in sent[p] : \E a \in AnswersTo(s[2]) :
       LET x     == s[1][1]
           tries == s[1][2] + 1
           row   == Settled(a, IF tries > RetryLimit THEN RetryLimit ELSE tries)
       IN /\ scan' = [scan EXCEPT ![x].status = row.status,
                                  ![x].retries = IF a = "2xx" THEN @ ELSE row.retries]
          /\ todo' = [todo EXCEPT ![p] = IF a = "lost" THEN {} ELSE @]
          /\ sent' = [sent EXCEPT ![p] = {}]
          /\ UNCHANGED <<today, active, admitted, denied, meals, ends, history>>

\* The page is closed or loaded again; its queue is in IndexedDB.
Reload ==
    /\ \E p \in Passes : todo[p] # {} \/ sent[p] # {}
    /\ todo' = [p \in Passes |-> {}] /\ sent' = [p \in Passes |-> {}]
    /\ UNCHANGED <<today, active, admitted, denied, meals, scan, ends, history>>

-----------------------------------------------------------------------------
(* Offices. *)

NextDay ==
    /\ today < LastDay /\ today' = today + 1
    /\ UNCHANGED <<active, admitted, denied, meals, page, ends, history>>

StopCard(c) ==
    /\ c \in active
    /\ active' = active \ {c}
    /\ UNCHANGED <<today, admitted, denied, meals, page, ends, history>>

Edit == edits < MaxEdits /\ edits' = edits + 1

\* A manager writes a meal without the check of the station, or deletes one.
LogMeal(s, d) ==
    /\ Edit /\ d <= today /\ <<s, d>> \notin meals
    /\ meals' = meals \cup {<<s, d>>}
    /\ UNCHANGED <<today, active, admitted, denied, page, ends, struck, unrevoked>>

DeleteMeal(s, d) ==
    /\ Edit /\ <<s, d>> \in meals
    /\ meals' = meals \ {<<s, d>>}
    /\ struck' = struck \cup {<<s, d>>}
    /\ UNCHANGED <<today, active, admitted, denied, page, ends, unrevoked>>

Next ==
    \/ NextDay \/ Reload
    \/ \E x \in Scans, c \in Cards : ScanAnswered(x, c) \/ ScanQueued(x, c)
    \/ \E p \in Passes :
          \/ StartPass(p)
          \/ \E i \in todo[p] : Send(p, i)
          \/ Answered(p)
    \/ \E c \in Cards : StopCard(c)
    \/ \E s \in Staff, d \in Days : LogMeal(s, d) \/ DeleteMeal(s, d)

Spec == Init /\ [][Next]_vars

-----------------------------------------------------------------------------
Admissions(s, d) ==
    {e \in admitted : e.card \in MealCards /\ HolderOf[e.card] = s /\ e.day = d}

\* Nobody is let in twice for one meal, with an old card, a new card, a scan
\* whose answer was lost and that comes again, or one sent days later, unless a
\* manager deleted the meal in between.
OneAdmissionPerMeal ==
    \A s \in Staff, d \in Days : <<s, d>> \notin struck => Cardinality(Admissions(s, d)) <= 1

\* Who was let in has a meal, wherever the process ended.
AdmissionHasMeal ==
    \A s \in Staff, d \in Days : Admissions(s, d) # {} => <<s, d>> \in meals \cup struck

\* A visitor's card opens the exit once, unless the process ended before the
\* card was revoked.
OneExitPerVisit ==
    \A c \in VisitCards \ unrevoked :
        Cardinality({e \in admitted : e.card = c}) <= 1

\* A row the station page calls synced is in the log of the server, although two
\* passes may overwrite each other's rows (scanQueue.js; rows that only the mobile
\* layout called synced are not spoken of).
SyncedScanIsLogged == \A x \in Scans : scan[x].status = "synced" => Logged(x)

\* The page promises that a scan without a network is not lost but sent when
\* the connection is back; after three attempts without an answer it is not.
QueuedScanIsSent == \A x \in Scans : scan[x].status = "manual_review" => Logged(x)
=============================================================================
