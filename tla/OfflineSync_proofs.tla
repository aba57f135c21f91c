-------------------------- MODULE OfflineSync_proofs --------------------------
(***************************************************************************)
(* What the server has of the entries of the offline queue, and what the   *)
(* loops leave alone, for any pages, loops and entries.                    *)
(***************************************************************************)
EXTENDS OfflineSync, FiniteSetTheorems, WellFoundedInduction, TLAPS

-----------------------------------------------------------------------------
(* Shape of the records. *)

Shape ==
    /\ row = [i \in Items |-> [status |-> row[i].status, retries |-> row[i].retries]]
    /\ flush = [f \in Flushes |-> [todo |-> flush[f].todo, at |-> flush[f].at]]
    /\ stored \in [Items -> Nat]

\* The loop f awaits, or has got, the answer to a request it did send.
Sends(f) == Item(f) \in Items /\ IsSent(f)

\* An answer "ok" to a request that was sent comes from a server that stored it.
OkIsStored == \A f \in Flushes : flush[f].at = "ok" /\ Sends(f) => stored[Item(f)] > 0

\* Only a mobile loop, and only of a bag, says synced without having sent.
SyncedOrTaken ==
    \A i \in Items :
        row[i].status = "synced" =>
            stored[i] > 0 \/ (i \notin Faults /\ \E f \in Flushes : PageOf[f] # "kiosk")

SyncInv == Shape /\ OkIsStored /\ SyncedOrTaken /\ BagStoredOnce

\* The server keeps what it has.
LEMMA StoreEffect ==
    ASSUME Shape, BagStoredOnce, NEW i, UNCHANGED stored \/ Store(i)
    PROVE  /\ stored' \in [Items -> Nat]
           /\ \A k \in Items : stored[k] > 0 => stored'[k] > 0
           /\ BagStoredOnce'
           /\ Store(i) /\ i \in Items => stored'[i] > 0
<1>1. CASE UNCHANGED stored /\ ~Store(i)
  BY <1>1 DEF Shape, BagStoredOnce
<1>2. CASE Store(i)
  <2>1. stored' = [stored EXCEPT ![i] = CopiesAfter(i)]
    BY <1>2 DEF Store
  <2>2. i \in Items => CopiesAfter(i) \in Nat /\ CopiesAfter(i) > 0 /\ (i \in Bags => CopiesAfter(i) = 1)
    BY DEF CopiesAfter, Shape
  <2>3. \A k \in Items : stored'[k] = IF k = i THEN CopiesAfter(i) ELSE stored[k]
    BY <2>1 DEF Shape
  <2>4. stored' \in [Items -> Nat]
    BY <2>1, <2>2 DEF Shape
  <2>5. BagStoredOnce'
    BY <2>2, <2>3 DEF BagStoredOnce, Items
  <2> HIDE DEF CopiesAfter
  <2> QED BY <1>2, <2>2, <2>3, <2>4, <2>5
<1> QED BY <1>1, <1>2

\* A step that touches no loop and no row.
LEMMA FormsKeep ==
    ASSUME SyncInv, NEW i, UNCHANGED stored \/ Store(i), UNCHANGED <<row, flush>>
    PROVE  SyncInv'
<1>1. /\ stored' \in [Items -> Nat] /\ BagStoredOnce'
      /\ \A k \in Items : stored[k] > 0 => stored'[k] > 0
  BY StoreEffect DEF SyncInv
<1>2. Shape'
  BY <1>1 DEF SyncInv, Shape
<1>3. OkIsStored'
  BY <1>1 DEF SyncInv, OkIsStored, Sends, Item, IsSent
<1>4. SyncedOrTaken'
  BY <1>1 DEF SyncInv, SyncedOrTaken
<1> QED BY <1>1, <1>2, <1>3, <1>4 DEF SyncInv

LEMMA FormKeeps ==
    ASSUME SyncInv, NEW i \in Items, FormStep(i) \/ StrayArrives(i)
    PROVE  SyncInv'
<1>1. CASE Submit(i) \/ CheckLimit(i)
  BY <1>1, FormsKeep DEF Submit, CheckLimit
<1>2. CASE \E answer \in Answers : PostAnswered(i, answer)
  BY <1>2, FormsKeep DEF PostAnswered, Handle
<1>3. CASE PostUnanswered(i)
  BY <1>3, FormsKeep DEF PostUnanswered, NoAnswer
<1>4. CASE StrayArrives(i)
  BY <1>4, FormsKeep DEF StrayArrives
<1>5. CASE AddRow(i)
  <2>1. /\ row' = [row EXCEPT ![i] = [status |-> "pending", retries |-> 0]]
        /\ UNCHANGED <<flush, stored>>
    BY <1>5 DEF AddRow
  <2>2. Shape'
    BY <2>1 DEF SyncInv, Shape
  <2>3. \A k \in Items : row'[k].status = "synced" => row[k].status = "synced"
    BY <2>1 DEF SyncInv, Shape
  <2>4. OkIsStored' /\ BagStoredOnce'
    BY <2>1 DEF SyncInv, OkIsStored, BagStoredOnce, Sends, Item, IsSent
  <2> QED BY <2>1, <2>2, <2>3, <2>4 DEF SyncInv, SyncedOrTaken
<1> QED BY <1>1, <1>2, <1>3, <1>4, <1>5 DEF FormStep

\* The loop f alone moves on; what it is working on stays what it was.
LEMMA LoopMoves ==
    ASSUME SyncInv, NEW f \in Flushes, NEW at,
           flush' = [flush EXCEPT ![f].at = at]
    PROVE  /\ flush' = [g \in Flushes |-> [todo |-> flush'[g].todo, at |-> flush'[g].at]]
           /\ flush'[f].at = at
           /\ \A g \in Flushes : flush'[g].todo = flush[g].todo /\ (Sends(g)' <=> Sends(g))
           /\ \A g \in Flushes : g # f => flush'[g].at = flush[g].at
<1>1. /\ flush' = [g \in Flushes |-> [todo |-> flush'[g].todo, at |-> flush'[g].at]]
      /\ flush'[f].at = at
      /\ \A g \in Flushes : flush'[g].todo = flush[g].todo
      /\ \A g \in Flushes : g # f => flush'[g].at = flush[g].at
  BY DEF SyncInv, Shape
<1> QED BY <1>1 DEF Sends, Item, IsSent

LEMMA LoopKeeps ==
    ASSUME SyncInv, NEW f \in Flushes, StartFlush(f) \/ FlushGoesOn(f)
    PROVE  SyncInv'
<1>1. ASSUME flush'[f].at \in {"idle", "next"}, UNCHANGED stored,
             \E todo, at : flush' = [flush EXCEPT ![f] = [todo |-> todo, at |-> at]]
      PROVE  /\ flush' = [g \in Flushes |-> [todo |-> flush'[g].todo, at |-> flush'[g].at]]
             /\ OkIsStored' /\ BagStoredOnce'
  BY <1>1 DEF SyncInv, Shape, OkIsStored, BagStoredOnce, Sends, Item, IsSent
<1>2. CASE StartFlush(f)
  <2>1. \E todo : flush' = [flush EXCEPT ![f] = [todo |-> todo, at |-> "next"]]
    BY <1>2 DEF StartFlush
  <2>2. flush'[f].at = "next" /\ UNCHANGED <<row, stored>>
    BY <1>2, <2>1 DEF StartFlush, SyncInv, Shape
  <2> QED BY <1>1, <2>1, <2>2 DEF SyncInv, Shape, SyncedOrTaken
<1>3. CASE MarkSending(f)
  <2>1. /\ row' = [row EXCEPT ![Item(f)].status = "sending"]
        /\ flush' = [flush EXCEPT ![f].at = IF IsSent(f) THEN "sending" ELSE "ok"]
        /\ stored' = stored
    BY <1>3 DEF MarkSending
  <2>2. /\ row' = [i \in Items |-> [status |-> row'[i].status, retries |-> row'[i].retries]]
        /\ \A i \in Items : row'[i].status = "synced" => row[i].status = "synced"
    <3>1. \A i \in Items : row'[i] = IF i = Item(f) THEN [row[i] EXCEPT !.status = "sending"]
                                                   ELSE row[i]
      BY <2>1 DEF SyncInv, Shape
    <3>2. \A i \in Items : row[i] = [status |-> row[i].status, retries |-> row[i].retries]
      BY DEF SyncInv, Shape
    <3>3. row' = [i \in Items |-> row'[i]]
      BY <2>1 DEF SyncInv, Shape
    <3> QED BY <3>1, <3>2, <3>3
  <2>3. OkIsStored'
    <3> SUFFICES ASSUME NEW g \in Flushes, flush'[g].at = "ok", Sends(g)'
                 PROVE  stored'[Item(g)'] > 0
      BY DEF OkIsStored
    <3>1. Item(g)' = Item(g) /\ Sends(g)
      BY <2>1, LoopMoves DEF Item
    <3>2. flush'[f].at = IF IsSent(f) THEN "sending" ELSE "ok"
      BY <2>1 DEF SyncInv, Shape
    <3>3. g # f
      BY <3>1, <3>2 DEF Sends
    <3> QED BY <2>1, <3>1, <3>3, LoopMoves DEF SyncInv, OkIsStored
  <2>4. Shape'
    BY <2>1, <2>2, LoopMoves DEF SyncInv, Shape
  <2> QED BY <2>1, <2>2, <2>3, <2>4 DEF SyncInv, SyncedOrTaken, BagStoredOnce
<1>4. ASSUME NEW answer \in Answers, Answered(f, answer) \/ (answer = "none" /\ Unanswered(f))
      PROVE  SyncInv'
  <2>1. /\ flush' = [flush EXCEPT ![f].at = answer] /\ row' = row
        /\ stored' = stored \/ Store(Item(f))
        /\ answer = "ok" => Store(Item(f))
    BY <1>4 DEF Answered, Unanswered, Handle, NoAnswer
  <2>2. /\ stored' \in [Items -> Nat] /\ BagStoredOnce'
        /\ \A k \in Items : stored[k] > 0 => stored'[k] > 0
        /\ Store(Item(f)) /\ Item(f) \in Items => stored'[Item(f)] > 0
    BY <2>1, StoreEffect DEF SyncInv
  <2>3. OkIsStored'
    <3> SUFFICES ASSUME NEW g \in Flushes, flush'[g].at = "ok", Sends(g)'
                 PROVE  stored'[Item(g)'] > 0
      BY DEF OkIsStored
    <3>1. Item(g)' = Item(g) /\ Sends(g)
      BY <2>1, LoopMoves DEF Item
    <3>2. CASE g = f
      BY <2>1, <2>2, <3>1, <3>2, LoopMoves DEF Sends
    <3>3. CASE g # f
      BY <2>1, <2>2, <3>1, <3>3, LoopMoves DEF SyncInv, OkIsStored, Sends
    <3> QED BY <3>2, <3>3
  <2>4. Shape'
    BY <2>1, <2>2, LoopMoves DEF SyncInv, Shape
  <2> QED BY <2>1, <2>2, <2>3, <2>4 DEF SyncInv, SyncedOrTaken
<1>5. CASE WriteResult(f)
  <2>1. PICK rest :
          /\ flush' = [flush EXCEPT ![f] =
                         [todo |-> rest, at |-> IF DOMAIN rest = {} THEN "idle" ELSE "next"]]
          /\ row' = [row EXCEPT ![Item(f)] = NewRow(f, flush[f].at)]
          /\ flush[f].at \in Answers /\ UNCHANGED stored
    BY <1>5 DEF WriteResult
  <2>2. /\ NewRow(f, flush[f].at) =
             [status |-> NewRow(f, flush[f].at).status, retries |-> NewRow(f, flush[f].at).retries]
        /\ NewRow(f, flush[f].at).status = "synced" => flush[f].at = "ok"
    BY <2>1 DEF NewRow, Answers
  <2>3. row' = [i \in Items |-> [status |-> row'[i].status, retries |-> row'[i].retries]]
    BY <2>1, <2>2 DEF SyncInv, Shape
  <2>4. flush'[f].at \in {"idle", "next"}
    BY <2>1 DEF SyncInv, Shape
  <2>5. /\ flush' = [g \in Flushes |-> [todo |-> flush'[g].todo, at |-> flush'[g].at]]
        /\ OkIsStored' /\ BagStoredOnce'
    BY <1>1, <2>1, <2>4
  <2>6. SyncedOrTaken'
    <3> SUFFICES ASSUME NEW i \in Items, row'[i].status = "synced"
                 PROVE  \/ stored[i] > 0
                        \/ i \notin Faults /\ \E g \in Flushes : PageOf[g] # "kiosk"
      BY <2>1 DEF SyncedOrTaken
    <3>1. CASE i # Item(f)
      BY <2>1, <3>1 DEF SyncInv, Shape, SyncedOrTaken
    <3>2. CASE i = Item(f)
      <4>1. flush[f].at = "ok"
        BY <2>1, <2>2, <3>2 DEF SyncInv, Shape
      <4> QED BY <3>2, <4>1 DEF SyncInv, OkIsStored, Sends, IsSent
    <3> QED BY <3>1, <3>2
  <2> QED BY <2>1, <2>3, <2>5, <2>6 DEF SyncInv, Shape
<1>6. "none" \in Answers
  BY DEF Answers
<1> QED BY <1>2, <1>3, <1>4, <1>5, <1>6 DEF FlushGoesOn

LEMMA CloseKeeps == ASSUME SyncInv, NEW page, ClosePage(page) PROVE SyncInv'
<1>1. /\ UNCHANGED <<row, stored>>
      /\ \E ending : flush' = [f \in Flushes |-> IF f \in ending THEN NoFlush ELSE flush[f]]
  BY DEF ClosePage
<1>2. flush' = [f \in Flushes |-> [todo |-> flush'[f].todo, at |-> flush'[f].at]]
  BY <1>1 DEF SyncInv, Shape, NoFlush
<1>3. \A f \in Flushes : flush'[f].at = "ok" => flush'[f] = flush[f]
  BY <1>1 DEF NoFlush
<1>4. OkIsStored'
  BY <1>1, <1>3 DEF SyncInv, OkIsStored, Sends, Item, IsSent
<1> QED BY <1>1, <1>2, <1>4 DEF SyncInv, Shape, SyncedOrTaken, BagStoredOnce

LEMMA SyncInvInductive == Spec => []SyncInv
<1>1. Init => SyncInv
  BY DEF Init, SyncInv, Shape, OkIsStored, SyncedOrTaken, BagStoredOnce, NoFlush, Items
<1>2. SyncInv /\ [Next]_vars => SyncInv'
  <2> SUFFICES ASSUME SyncInv, [Next]_vars PROVE SyncInv'
    OBVIOUS
  <2>1. CASE UNCHANGED vars
    BY <2>1, FormsKeep DEF vars
  <2> QED BY <2>1, FormKeeps, LoopKeeps, CloseKeeps DEF Next
<1> QED BY <1>1, <1>2, PTL DEF Spec

\* The laundry gets one bag for an entry, however often and however late it is sent.
THEOREM BagsStoredOnce == Spec => []BagStoredOnce
<1>1. SyncInv => BagStoredOnce
  BY DEF SyncInv
<1> QED BY <1>1, SyncInvInductive, PTL

\* A fault report that the queue shows as synced is on the server.
THEOREM SyncedFaultsStored == Spec => []SyncedFaultIsStored
<1>1. SyncInv => SyncedFaultIsStored
  BY DEF SyncInv, SyncedOrTaken, SyncedFaultIsStored, Items
<1> QED BY <1>1, SyncInvInductive, PTL

\* Where the kiosk's loops alone are at work, whatever is synced is on the server.
THEOREM KioskSyncedStored ==
    ASSUME \A f \in Flushes : PageOf[f] = "kiosk"
    PROVE  Spec => []SyncedIsStored
<1>1. SyncInv => SyncedIsStored
  BY DEF SyncInv, SyncedOrTaken, SyncedIsStored
<1> QED BY <1>1, SyncInvInductive, PTL

-----------------------------------------------------------------------------
(* Types *)

\* What a loop has still to send.
TodoIs(t) == DOMAIN t \subseteq Items /\ t \in [DOMAIN t -> Entry]

At == {"idle", "next", "sending"} \cup Answers

FlushIs(fl) ==
    /\ fl = [todo |-> fl.todo, at |-> fl.at]
    /\ TodoIs(fl.todo) /\ fl.at \in At
    /\ (fl.at = "idle") = (DOMAIN fl.todo = {})

LEMMA FlushTyped ==
    ASSUME NEW fl
    PROVE  fl \in Flush /\ (fl.at = "idle") = (DOMAIN fl.todo = {}) <=> FlushIs(fl)
<1>1. \A t : t \in UNION {[S -> Entry] : S \in SUBSET Items} <=> TodoIs(t)
  BY DEF TodoIs
<1> HIDE DEF TodoIs
<1> DEFINE Todos == UNION {[S -> Entry] : S \in SUBSET Items}
<1>2. fl \in [todo : Todos, at : At] <=>
        fl = [todo |-> fl.todo, at |-> fl.at] /\ fl.todo \in Todos /\ fl.at \in At
  <2> HIDE DEF Todos
  <2> QED OBVIOUS
<1> QED BY <1>1, <1>2 DEF FlushIs, Flush, At

\* Of the entries it has read a loop works on the oldest.
LEMMA ItemTodo ==
    ASSUME NEW f \in Flushes, FlushIs(flush[f]), flush[f].at # "idle"
    PROVE  Item(f) \in DOMAIN flush[f].todo
<1> DEFINE todo == flush[f].todo
           T == {todo[i].created : i \in DOMAIN todo}
<1>1. todo \in [DOMAIN todo -> Entry] /\ DOMAIN todo # {}
  BY DEF FlushIs, TodoIs
<1>2. T \subseteq Nat /\ T # {}
  BY <1>1 DEF Entry
<1>3. PICK x \in T : \A y \in T : ~(<<y, x>> \in OpToRel(<, Nat))
  <2> HIDE DEF T
  <2> QED BY <1>2, NatLessThanWellFounded, WFMin
<1>4. \A y \in T : x <= y
  <2> SUFFICES ASSUME NEW y \in T PROVE x <= y
    OBVIOUS
  <2>1. x \in Nat /\ y \in Nat
    BY <1>2
  <2>2. y < x => <<y, x>> \in OpToRel(<, Nat)
    BY <2>1 DEF OpToRel
  <2>3. ~(y < x)
    BY <1>3, <2>2
  <2> QED BY <2>1, <2>3
<1>5. \E i \in DOMAIN todo : \A k \in DOMAIN todo : todo[i].created <= todo[k].created
  BY <1>4
<1> QED BY <1>5 DEF Item

LEMMA TypeIs ==
    TypeOK <=>
        /\ row \in [Items -> QueueRow]
        /\ created \in [Items -> Nat]
        /\ form \in [Items -> Working \cup {"new", "saved", "queued", "gone"}]
        /\ flush = [f \in Flushes |-> flush[f]] /\ \A f \in Flushes : FlushIs(flush[f])
        /\ stored \in [Items -> Nat]
        /\ stray \subseteq Items
        /\ closes \in 0 .. MaxCloses
<1>1. flush \in [Flushes -> Flush] <=>
        flush = [f \in Flushes |-> flush[f]] /\ \A f \in Flushes : flush[f] \in Flush
  <2> HIDE DEF Flush
  <2> QED OBVIOUS
<1> QED BY <1>1, FlushTyped DEF TypeOK

\* The same of the next state.
LEMMA TypedAgain ==
    ASSUME row' \in [Items -> QueueRow], created' \in [Items -> Nat],
           form' \in [Items -> Working \cup {"new", "saved", "queued", "gone"}],
           flush' = [f \in Flushes |-> flush'[f]], \A f \in Flushes : FlushIs(flush'[f]),
           stored' \in [Items -> Nat], stray' \subseteq Items, closes' \in 0 .. MaxCloses
    PROVE  TypeOK'
<1>1. \A f \in Flushes : flush'[f] \in Flush /\ (flush'[f].at = "idle") = (DOMAIN flush'[f].todo = {})
  BY FlushTyped
<1>2. flush' \in [Flushes -> Flush]
  <2> HIDE DEF Flush
  <2> QED BY <1>1
<1> QED BY <1>1, <1>2 DEF TypeOK

LEMMA StoreTypes ==
    ASSUME stored \in [Items -> Nat], NEW i, UNCHANGED stored \/ Store(i)
    PROVE  stored' \in [Items -> Nat]
  BY DEF Store, CopiesAfter

LEMMA FormTypes ==
    ASSUME TypeOK, NEW i \in Items, FormStep(i) \/ StrayArrives(i)
    PROVE  TypeOK'
<1> DEFINE forms == Working \cup {"new", "saved", "queued", "gone"}
<1>1. CASE Submit(i) \/ CheckLimit(i)
  <2>1. UNCHANGED <<row, created, flush, stored, stray, closes>>
    BY <1>1 DEF Submit, CheckLimit
  <2>2. form' \in [Items -> forms]
    BY <1>1 DEF Submit, CheckLimit, TypeOK, Working
  <2> QED BY <2>1, <2>2 DEF TypeOK
<1>2. CASE (\E answer \in Answers : PostAnswered(i, answer)) \/ PostUnanswered(i)
  <2>1. /\ UNCHANGED <<row, created, flush, closes>>
        /\ UNCHANGED stored \/ Store(i)
        /\ stray' \in {stray, stray \cup {i}}
    BY <1>2 DEF PostAnswered, PostUnanswered, Handle, NoAnswer
  <2>2. form' \in [Items -> forms]
    BY <1>2 DEF PostAnswered, PostUnanswered, TypeOK, Working
  <2> QED BY <2>1, <2>2, StoreTypes DEF TypeOK
<1>3. CASE StrayArrives(i)
  <2>1. UNCHANGED stored \/ Store(i)
    BY <1>3 DEF StrayArrives
  <2>2. stored' \in [Items -> Nat]
    BY <2>1, StoreTypes DEF TypeOK
  <2> QED BY <1>3, <2>2 DEF StrayArrives, TypeOK
<1>4. CASE AddRow(i)
  <2>1. Cardinality(Rows) + 1 \in Nat
    BY FS_Subset, FS_CardinalityType, OfflineAssumption DEF Rows
  <2>2. created' \in [Items -> Nat]
    BY <1>4, <2>1 DEF AddRow, TypeOK
  <2>3. row' \in [Items -> QueueRow]
    <3>1. [status |-> "pending", retries |-> 0] \in QueueRow
      BY DEF QueueRow, ActiveStatuses
    <3> QED BY <1>4, <3>1 DEF AddRow, TypeOK
  <2>4. form' \in [Items -> forms]
    BY <1>4 DEF AddRow, TypeOK
  <2> QED BY <1>4, <2>2, <2>3, <2>4 DEF AddRow, TypeOK
<1> QED BY <1>1, <1>2, <1>3, <1>4 DEF FormStep

\* The statuses and retries the loop f may write.
LEMMA NewRowTypes ==
    ASSUME TypeOK, NEW f \in Flushes, flush[f].at \in Answers
    PROVE  NewRow(f, flush[f].at) \in QueueRow
<1>1. FlushIs(flush[f]) /\ flush[f].at # "idle"
  BY TypeIs DEF Answers
<1>2. Item(f) \in DOMAIN flush[f].todo /\ Item(f) \in Items
  BY <1>1, ItemTodo DEF FlushIs, TodoIs
<1>3. flush[f].todo[Item(f)].retries \in Nat /\ row[Item(f)].retries \in Nat
  BY <1>1, <1>2 DEF FlushIs, TodoIs, Entry, TypeOK, QueueRow
<1>4. Retries(f) \in Nat
  BY <1>3 DEF Retries
<1> DEFINE new == NewRow(f, flush[f].at)
<1>5. new.status \in ActiveStatuses \cup {"absent", "synced"}
  BY DEF NewRow, Answers, ActiveStatuses
<1>6. new.retries \in Nat
  BY <1>3, <1>4 DEF NewRow
<1>7. new = [status |-> new.status, retries |-> new.retries]
  BY DEF NewRow, Answers
<1> QED BY <1>5, <1>6, <1>7 DEF QueueRow

\* What the loop f leaves to do.
LEMMA RestIs ==
    ASSUME NEW f \in Flushes, FlushIs(flush[f]), NEW answer
    PROVE  /\ TodoIs(AfterAnswer(f, answer))
           /\ DOMAIN AfterAnswer(f, answer) \subseteq DOMAIN flush[f].todo \ {Item(f)}
  BY DEF FlushIs, TodoIs, AfterAnswer, NoEntries, Restrict

LEMMA LoopTypes ==
    ASSUME TypeOK, NEW f \in Flushes, StartFlush(f) \/ FlushGoesOn(f)
    PROVE  TypeOK'
<1>0. /\ flush = [g \in Flushes |-> flush[g]] /\ \A g \in Flushes : FlushIs(flush[g])
      /\ row \in [Items -> QueueRow] /\ stored \in [Items -> Nat]
  BY TypeIs
<1>1. ASSUME NEW fl, FlushIs(fl), flush' = [flush EXCEPT ![f] = fl]
      PROVE  flush' = [g \in Flushes |-> flush'[g]] /\ \A g \in Flushes : FlushIs(flush'[g])
  <2>1. flush' = [g \in Flushes |-> flush'[g]] /\ \A g \in Flushes : flush'[g] \in {fl, flush[g]}
    BY <1>0, <1>1
  <2> QED BY <1>0, <1>1, <2>1
<1>2. ASSUME NEW at \in At \ {"idle"}, flush[f].at # "idle", flush' = [flush EXCEPT ![f].at = at]
      PROVE  flush' = [g \in Flushes |-> flush'[g]] /\ \A g \in Flushes : FlushIs(flush'[g])
  <2> DEFINE fl == [todo |-> flush[f].todo, at |-> at]
  <2>1. flush[f] = [todo |-> flush[f].todo, at |-> flush[f].at]
    BY <1>0 DEF FlushIs
  <2>2. [flush[f] EXCEPT !.at = at] = fl
    BY <2>1
  <2>3. flush' = [flush EXCEPT ![f] = fl]
    BY <1>2, <2>2
  <2>4. FlushIs(fl)
    BY <1>0, <1>2 DEF FlushIs
  <2> QED BY <1>1, <2>3, <2>4
<1>3. CASE StartFlush(f)
  <2> DEFINE found == {i \in Items : Reads(f, i)}
             fl == [todo |-> [i \in found |-> [created |-> created[i], retries |-> row[i].retries]],
                    at |-> "next"]
  <2>1. flush' = [flush EXCEPT ![f] = fl] /\ found # {}
    BY <1>3 DEF StartFlush
  <2>2. TodoIs(fl.todo)
    BY DEF TodoIs, Entry, TypeOK, QueueRow
  <2>3. FlushIs(fl)
    BY <2>1, <2>2 DEF FlushIs, At
  <2>4. flush' = [g \in Flushes |-> flush'[g]] /\ \A g \in Flushes : FlushIs(flush'[g])
    BY <1>1, <2>1, <2>3
  <2> QED BY <1>3, <2>4, TypeIs, TypedAgain DEF StartFlush
<1>4. CASE MarkSending(f)
  <2>1. flush' = [g \in Flushes |-> flush'[g]] /\ \A g \in Flushes : FlushIs(flush'[g])
    BY <1>2, <1>4 DEF MarkSending, At, Answers
  <2>2. row' \in [Items -> QueueRow]
    <3>1. row' = [row EXCEPT ![Item(f)].status = "sending"]
      BY <1>4 DEF MarkSending
    <3>2. \A i \in Items : [row[i] EXCEPT !.status = "sending"] \in QueueRow
      BY <1>0 DEF QueueRow, ActiveStatuses
    <3> QED BY <1>0, <3>1, <3>2
  <2> QED BY <1>4, <2>1, <2>2, TypeIs, TypedAgain DEF MarkSending
<1>5. ASSUME NEW answer \in Answers, Answered(f, answer) \/ (answer = "none" /\ Unanswered(f))
      PROVE  TypeOK'
  <2>1. /\ flush[f].at = "sending" /\ flush' = [flush EXCEPT ![f].at = answer]
        /\ stored' = stored \/ Store(Item(f))
        /\ stray' \in {stray, stray \cup {Item(f)}}
        /\ UNCHANGED <<row, created, form, closes>>
    BY <1>5 DEF Answered, Unanswered, Handle, NoAnswer
  <2>2. flush' = [g \in Flushes |-> flush'[g]] /\ \A g \in Flushes : FlushIs(flush'[g])
    BY <1>2, <2>1 DEF At, Answers
  <2>3. Item(f) \in Items
    BY <1>0, <2>1, ItemTodo DEF FlushIs, TodoIs
  <2>4. stored' \in [Items -> Nat]
    BY <1>0, <2>1, StoreTypes
  <2> QED BY <2>1, <2>2, <2>3, <2>4, TypeIs, TypedAgain
<1>6. CASE WriteResult(f)
  <2> DEFINE answer == flush[f].at
             rest == AfterAnswer(f, answer)
             fl == [todo |-> rest, at |-> IF DOMAIN rest = {} THEN "idle" ELSE "next"]
  <2>1. /\ answer \in Answers /\ flush' = [flush EXCEPT ![f] = fl]
        /\ row' = [row EXCEPT ![Item(f)] = NewRow(f, answer)]
        /\ UNCHANGED <<created, form, stored, stray, closes>>
    BY <1>6 DEF WriteResult
  <2>2. TodoIs(rest)
    BY <1>0, RestIs
  <2>3. FlushIs(fl)
    <3> HIDE DEF rest
    <3> QED BY <2>2 DEF FlushIs, At
  <2>4. flush' = [g \in Flushes |-> flush'[g]] /\ \A g \in Flushes : FlushIs(flush'[g])
    BY <1>1, <2>1, <2>3
  <2>5. row' \in [Items -> QueueRow]
    BY <1>0, <2>1, NewRowTypes
  <2> HIDE DEF answer, rest, fl
  <2> QED BY <2>1, <2>4, <2>5, TypeIs, TypedAgain
<1>7. "none" \in Answers
  BY DEF Answers
<1> QED BY <1>3, <1>4, <1>5, <1>6, <1>7 DEF FlushGoesOn

LEMMA CloseTypes ==
    ASSUME TypeOK, NEW page, ClosePage(page)
    PROVE  TypeOK'
<1> DEFINE ending == {f \in Flushes : PageOf[f] = page /\ flush[f].at # "idle"}
           forms == {i \in Items : HomeOf(i) = page /\ form[i] \in Working}
           sent == {Item(f) : f \in {g \in ending : flush[g].at = "sending"}}
                     \cup {i \in forms : form[i] = "posting"}
<1>1. /\ closes < MaxCloses /\ closes' = closes + 1
      /\ flush' = [f \in Flushes |-> IF f \in ending THEN NoFlush ELSE flush[f]]
      /\ form' = [i \in Items |-> IF i \in forms THEN "gone" ELSE form[i]]
      /\ \E late \in SUBSET sent : stray' = stray \cup late
      /\ UNCHANGED <<row, created, stored>>
  BY DEF ClosePage
<1>2. FlushIs(NoFlush)
  BY DEF FlushIs, NoFlush, NoEntries, TodoIs, At
<1>3. flush' = [f \in Flushes |-> flush'[f]] /\ \A f \in Flushes : FlushIs(flush'[f])
  <2>1. flush' = [f \in Flushes |-> flush'[f]] /\ \A f \in Flushes : flush'[f] \in {NoFlush, flush[f]}
    BY <1>1
  <2> QED BY <1>2, <2>1, TypeIs
<1>4. sent \subseteq Items
  <2>1. \A f \in ending : Item(f) \in Items
    BY ItemTodo, TypeIs DEF FlushIs, TodoIs
  <2> QED BY <2>1
<1> HIDE DEF sent
<1>5. stray' \subseteq Items
  BY <1>1, <1>4 DEF TypeOK
<1>6. form' \in [Items -> Working \cup {"new", "saved", "queued", "gone"}]
  BY <1>1 DEF TypeOK
<1>7. closes' \in 0 .. MaxCloses
  BY <1>1, OfflineAssumption DEF TypeOK
<1> QED BY <1>1, <1>3, <1>5, <1>6, <1>7, TypeIs, TypedAgain

LEMMA OfflineTypeInit == ASSUME Init PROVE TypeOK
<1>1. FlushIs(NoFlush)
  BY DEF FlushIs, NoFlush, NoEntries, TodoIs, At
<1> QED BY <1>1, TypeIs, OfflineAssumption DEF Init, QueueRow, ActiveStatuses

\* Type correctness.
THEOREM OfflineTypeCorrect == Spec => []TypeOK
<1>1. Init => TypeOK
  BY OfflineTypeInit
<1>2. TypeOK /\ [Next]_vars => TypeOK'
  <2> SUFFICES ASSUME TypeOK, [Next]_vars PROVE TypeOK'
    OBVIOUS
  <2>1. CASE UNCHANGED vars
    BY <2>1 DEF vars, TypeOK
  <2> QED BY <2>1, FormTypes, LoopTypes, CloseTypes DEF Next
<1> QED BY <1>1, <1>2, PTL DEF Spec

-----------------------------------------------------------------------------
(* What is settled stays *)

\* A form that has not put its entry into the queue finds no row of it there.
FormsFresh == \A i \in Items : form[i] \in Working \cup {"new"} => row[i].status = "absent"

\* The rows a loop has read and not yet written are still the queue's to send.
TodoActionable == \A f \in Flushes : \A i \in DOMAIN flush[f].todo : Actionable(i)

OwnInv == TypeOK /\ FormsFresh /\ TodoActionable

\* No two loops run at a time.
LoopsApart ==
    \A f, g \in Flushes : flush[f].at # "idle" /\ flush[g].at # "idle" => f = g

\* The steps that keep every row that is there: all but AddRow and the loops' writes.
LEMMA OwnKept ==
    ASSUME OwnInv, TypeOK', UNCHANGED row,
           \A i \in Items : form'[i] \in Working \cup {"new"} => form[i] \in Working \cup {"new"},
           \A f \in Flushes : DOMAIN flush'[f].todo \subseteq DOMAIN flush[f].todo
    PROVE  OwnInv' /\ SettledStays
<1>1. FormsFresh'
  BY DEF OwnInv, FormsFresh
<1>2. TodoActionable'
  BY DEF OwnInv, TodoActionable, Actionable
<1> QED BY <1>1, <1>2 DEF OwnInv, SettledStays

LEMMA FormOwn ==
    ASSUME OwnInv, NEW i \in Items, FormStep(i) \/ StrayArrives(i)
    PROVE  OwnInv' /\ SettledStays
<1>0. TypeOK /\ TypeOK'
  BY FormTypes DEF OwnInv
<1>1. CASE \/ Submit(i) \/ CheckLimit(i) \/ PostUnanswered(i) \/ StrayArrives(i)
           \/ \E answer \in Answers : PostAnswered(i, answer)
  <2>1. UNCHANGED <<row, flush>> /\ (form'[i] = form[i] \/ form[i] \in Working \cup {"new"})
    BY <1>1 DEF Submit, CheckLimit, PostUnanswered, StrayArrives, PostAnswered, Working
  <2>2. \A k \in Items \ {i} : form'[k] = form[k]
    BY <1>0, <1>1 DEF Submit, CheckLimit, PostUnanswered, StrayArrives, PostAnswered, TypeOK
  <2>3. \A k \in Items : form'[k] \in Working \cup {"new"} => form[k] \in Working \cup {"new"}
    BY <2>1, <2>2
  <2> QED BY <1>0, <2>1, <2>3, OwnKept
<1>2. CASE AddRow(i)
  <2>1. /\ row' = [row EXCEPT ![i] = [status |-> "pending", retries |-> 0]]
        /\ form' = [form EXCEPT ![i] = "queued"] /\ form[i] \in Working /\ UNCHANGED flush
    BY <1>2 DEF AddRow, Working
  <2>2. row[i].status = "absent"
    BY <2>1 DEF OwnInv, FormsFresh
  <2>3. /\ \A k \in Items \ {i} : row'[k] = row[k] /\ form'[k] = form[k]
        /\ row'[i].status = "pending" /\ form'[i] = "queued"
    BY <1>0, <2>1 DEF TypeOK
  <2>4. FormsFresh'
    BY <2>3 DEF OwnInv, FormsFresh, Working
  <2>5. TodoActionable'
    <3> SUFFICES ASSUME NEW f \in Flushes, NEW k \in DOMAIN flush[f].todo
                 PROVE  Actionable(k)'
      BY <2>1 DEF TodoActionable
    <3>1. Actionable(k) /\ k \in Items
      BY TypeIs DEF OwnInv, TodoActionable, FlushIs, TodoIs
    <3> QED BY <2>3, <3>1 DEF Actionable
  <2>6. SettledStays
    BY <2>2, <2>3 DEF SettledStays
  <2> QED BY <1>0, <2>4, <2>5, <2>6 DEF OwnInv
<1> QED BY <1>1, <1>2 DEF FormStep

LEMMA LoopOwn ==
    ASSUME OwnInv, LoopsApart, NEW f \in Flushes, StartFlush(f) \/ FlushGoesOn(f)
    PROVE  OwnInv' /\ SettledStays
<1>0. TypeOK /\ TypeOK' /\ \A g \in Flushes : FlushIs(flush[g])
  BY LoopTypes, TypeIs DEF OwnInv
<1>1. UNCHANGED form
  BY DEF StartFlush, FlushGoesOn, MarkSending, Answered, Unanswered, WriteResult
<1>2. CASE StartFlush(f)
  <2>1. UNCHANGED row /\ \A g \in Flushes \ {f} : flush'[g] = flush[g]
    BY <1>0, <1>2 DEF StartFlush, TypeOK
  <2>2. DOMAIN flush'[f].todo = {i \in Items : Reads(f, i)}
    BY <1>0, <1>2 DEF StartFlush, TypeOK
  <2>3. TodoActionable'
    BY <2>1, <2>2 DEF OwnInv, TodoActionable, Reads, Actionable
  <2> QED BY <1>0, <1>1, <2>1, <2>3 DEF OwnInv, FormsFresh, SettledStays
<1>3. CASE (\E answer \in Answers : Answered(f, answer)) \/ Unanswered(f)
  <2>1. UNCHANGED row /\ \E at : flush' = [flush EXCEPT ![f].at = at]
    BY <1>3 DEF Answered, Unanswered
  <2>2. \A g \in Flushes : flush'[g].todo = flush[g].todo
    BY <1>0, <2>1 DEF TypeOK, Flush
  <2> QED BY <1>0, <1>1, <2>1, <2>2, OwnKept
\* What f works on was read by no other loop that still has it, as none runs.
<1>4. ASSUME NEW i \in Items, i = Item(f), flush[f].at # "idle",
             \A k \in Items \ {i} : row'[k] = row[k],
             \A g \in Flushes \ {f} : flush'[g] = flush[g],
             DOMAIN flush'[f].todo \subseteq DOMAIN flush[f].todo,
             row'[i].status \in {"pending", "sending"} \/ i \notin DOMAIN flush'[f].todo,
             row'[i].status # "absent"
      PROVE  OwnInv' /\ SettledStays
  <2>1. Actionable(i)
    BY <1>0, <1>4, ItemTodo DEF OwnInv, TodoActionable
  <2>2. SettledStays
    BY <1>4, <2>1 DEF SettledStays, Actionable
  <2>3. FormsFresh'
    BY <1>1, <1>4, <2>1 DEF OwnInv, FormsFresh, Actionable
  <2>4. \A g \in Flushes \ {f} : DOMAIN flush[g].todo = {}
    BY <1>0, <1>4 DEF LoopsApart, FlushIs
  <2>5. \A k \in DOMAIN flush[f].todo : Actionable(k) /\ k \in Items
    BY <1>0 DEF OwnInv, TodoActionable, FlushIs, TodoIs
  <2>6. TodoActionable'
    BY <1>4, <2>4, <2>5 DEF TodoActionable, Actionable
  <2> QED BY <1>0, <2>2, <2>3, <2>6 DEF OwnInv
<1>5. flush[f].at # "idle" => Item(f) \in Items /\ Item(f) \in DOMAIN flush[f].todo
  BY <1>0, ItemTodo DEF FlushIs, TodoIs
<1>6. CASE MarkSending(f)
  <2>1. /\ row' = [row EXCEPT ![Item(f)].status = "sending"] /\ flush[f].at = "next"
        /\ \E at : flush' = [flush EXCEPT ![f].at = at]
    BY <1>6 DEF MarkSending
  <2>2. /\ \A g \in Flushes : flush'[g].todo = flush[g].todo
        /\ \A g \in Flushes \ {f} : flush'[g] = flush[g]
    BY <1>0, <2>1 DEF TypeOK, Flush
  <2>3. /\ \A k \in Items \ {Item(f)} : row'[k] = row[k]
        /\ row'[Item(f)].status = "sending"
    BY <1>0, <1>5, <2>1 DEF TypeOK, QueueRow
  <2> QED BY <1>4, <1>5, <2>1, <2>2, <2>3
<1>7. CASE WriteResult(f)
  <2> DEFINE rest == AfterAnswer(f, flush[f].at)
  <2>1. /\ row' = [row EXCEPT ![Item(f)] = NewRow(f, flush[f].at)] /\ flush[f].at \in Answers
        /\ flush' = [flush EXCEPT ![f] =
                       [todo |-> rest, at |-> IF DOMAIN rest = {} THEN "idle" ELSE "next"]]
    BY <1>7 DEF WriteResult
  <2>2. flush'[f].todo = rest /\ \A g \in Flushes \ {f} : flush'[g] = flush[g]
    BY <1>0, <2>1 DEF TypeOK
  <2>3. flush[f].at # "idle"
    BY <2>1 DEF Answers
  <2>4. DOMAIN rest \subseteq DOMAIN flush[f].todo \ {Item(f)}
    BY <1>0, RestIs
  <2>5. \A k \in Items \ {Item(f)} : row'[k] = row[k]
    BY <1>0, <2>1 DEF TypeOK
  <2>6. row'[Item(f)] = NewRow(f, flush[f].at)
    BY <1>0, <1>5, <2>1, <2>3 DEF TypeOK
  <2>7. NewRow(f, flush[f].at).status # "absent"
    BY <2>1 DEF NewRow, Answers
  <2> HIDE DEF rest
  <2> QED BY <1>4, <1>5, <2>2, <2>3, <2>4, <2>5, <2>6, <2>7
<1> QED BY <1>2, <1>3, <1>6, <1>7 DEF FlushGoesOn

LEMMA CloseOwn ==
    ASSUME OwnInv, NEW page, ClosePage(page)
    PROVE  OwnInv' /\ SettledStays
<1>1. TypeOK'
  BY CloseTypes DEF OwnInv
<1>2. UNCHANGED row /\ \A i \in Items : form'[i] \in {"gone", form[i]}
  BY DEF ClosePage
<1>3. \A f \in Flushes : flush'[f] \in {NoFlush, flush[f]}
  BY DEF ClosePage
<1>4. \A f \in Flushes : DOMAIN flush'[f].todo \subseteq DOMAIN flush[f].todo
  BY <1>3 DEF NoFlush, NoEntries
<1> QED BY <1>1, <1>2, <1>4, OwnKept DEF Working

\* As long as no two loops run at a time, what is synced or waits for a person is left
\* alone: a loop writes only rows it found waiting, and nobody else settles them.
THEOREM SettledLeftAlone == Spec /\ []LoopsApart => AlwaysSettledStays
<1>1. Init => OwnInv
  <2>1. FlushIs(NoFlush) /\ DOMAIN NoFlush.todo = {}
    BY DEF FlushIs, NoFlush, NoEntries, TodoIs, At
  <2>2. Init => FormsFresh /\ TodoActionable
    BY <2>1 DEF Init, FormsFresh, TodoActionable
  <2> QED BY <2>2, OfflineTypeInit DEF OwnInv
<1>2. OwnInv /\ LoopsApart /\ [Next]_vars => OwnInv' /\ [SettledStays]_vars
  <2> SUFFICES ASSUME OwnInv, LoopsApart, [Next]_vars
               PROVE  OwnInv' /\ (SettledStays \/ UNCHANGED vars)
    OBVIOUS
  <2>1. CASE UNCHANGED vars
    BY <2>1 DEF vars, OwnInv, TypeOK, FormsFresh, TodoActionable, Actionable
  <2> QED BY <2>1, FormOwn, LoopOwn, CloseOwn DEF Next
<1> QED BY <1>1, <1>2, PTL DEF Spec, AlwaysSettledStays

(* A page that has one loop of its own (OfflineSync_one_loop) needs no
   hypothesis about the run: a row that is synced or waits for a person is not
   written by it again. *)
THEOREM OneLoopLeavesSettledAlone ==
    ASSUME \A f, g \in Flushes : f = g
    PROVE  Spec => AlwaysSettledStays
<1>1. LoopsApart
    BY DEF LoopsApart
<1>2. []LoopsApart
    BY <1>1, PTL
<1> QED BY <1>2, SettledLeftAlone, PTL
=============================================================================
