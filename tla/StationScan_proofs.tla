------------------------- MODULE StationScan_proofs -------------------------
(***************************************************************************)
(* Proofs about StationScan, for any cards, staff, scans, passes, days and *)
(* ends of the process.                                                    *)
(***************************************************************************)
EXTENDS StationScan, TLAPS, FiniteSetTheorems

-----------------------------------------------------------------------------
(* What a request does on the server. *)

\* A request logs nothing, denies a keyed scan or lets the card in; what is logged stays so.
Effect(x) ==
    \/ UNCHANGED <<active, admitted, denied, meals, unrevoked>>
    \/ /\ denied' = denied \cup {x} /\ UNCHANGED <<active, admitted, meals, unrevoked>>
    \/ \E e \in Event :
          /\ e.card = scan[x].card /\ LetsIn(e.card, e.day) /\ UNCHANGED denied
          /\ meals' = MealTaken(e.card, e.day)
          /\ \/ /\ admitted' = admitted \cup {e}
                /\ active' = ExitEndsCard(e.card)
                /\ UNCHANGED unrevoked
             \/ /\ e.card \notin VisitCards
                /\ UNCHANGED <<admitted, active, unrevoked>>
             \/ /\ e.card \in VisitCards
                /\ admitted' = admitted \cup {e} /\ UNCHANGED active
                /\ unrevoked' = unrevoked \cup {e.card}

LEMMA DaysRecorded ==
    ASSUME TypeOK, NEW x \in Scans, NEW keyed \in BOOLEAN
    PROVE  RecordedDays(x, keyed) \subseteq Days
<1>1. scan[x].day \in Days /\ today \in Days
  BY DEF TypeOK
<1> QED BY <1>1 DEF RecordedDays

LEMMA EntryIsEvent ==
    ASSUME TypeOK, NEW x \in Scans, NEW keyed \in BOOLEAN, NEW d \in Days
    PROVE  \E e \in Event : /\ e.card = scan[x].card /\ e.day = d
                            /\ Entered(x, keyed, d) = admitted \cup {e}
<1>1. scan[x].card \in Cards
  BY DEF TypeOK
<1>2. [scan |-> x, card |-> scan[x].card, day |-> d, keyed |-> keyed] \in Event
  BY <1>1 DEF Event
<1> QED BY <1>2 DEF Entered

LEMMA RequestEffect ==
    ASSUME TypeOK, NEW x \in Scans, NEW keyed \in BOOLEAN,
           Serve(x, keyed) \/ CutShort(x, keyed) \/ Unserved
    PROVE  /\ Effect(x)
           /\ struck' = struck /\ edits' = edits /\ ends' \in 0 .. MaxEnds
<1>0. ends \in 0 .. MaxEnds /\ MaxEnds \in Nat
  BY StationAssumption DEF TypeOK
<1>1. CASE Unserved
  BY <1>0, <1>1 DEF Unserved, Effect, history
<1>2. CASE Serve(x, keyed)
  <2>1. UNCHANGED <<ends, edits, struck, unrevoked>>
    BY <1>2 DEF Serve, history
  <2>2. CASE UNCHANGED <<admitted, denied, meals, active>>
    BY <1>0, <2>1, <2>2 DEF Effect
  <2>3. CASE ~UNCHANGED <<admitted, denied, meals, active>>
    <3>1. PICK d \in RecordedDays(x, keyed) :
             IF LetsIn(scan[x].card, d)
             THEN /\ admitted' = Entered(x, keyed, d)
                  /\ meals' = MealTaken(scan[x].card, d)
                  /\ active' = ExitEndsCard(scan[x].card)
                  /\ UNCHANGED denied
             ELSE /\ denied' = IF keyed THEN denied \cup {x} ELSE denied
                  /\ UNCHANGED <<admitted, meals, active>>
      BY <1>2, <2>3 DEF Serve
    <3>2. d \in Days
      BY DaysRecorded
    <3>3. CASE LetsIn(scan[x].card, d)
      <4>1. PICK e \in Event : /\ e.card = scan[x].card /\ e.day = d
                               /\ Entered(x, keyed, d) = admitted \cup {e}
        BY <3>2, EntryIsEvent
      <4>2. /\ admitted' = admitted \cup {e} /\ meals' = MealTaken(e.card, e.day)
            /\ active' = ExitEndsCard(e.card) /\ denied' = denied
        BY <3>1, <3>3, <4>1
      <4> QED BY <1>0, <2>1, <3>3, <4>1, <4>2 DEF Effect
    <3>4. CASE ~LetsIn(scan[x].card, d)
      <4>1. denied' = denied \cup {x} \/ denied' = denied
        BY <3>1, <3>4
      <4>2. UNCHANGED <<admitted, meals, active>>
        BY <3>1, <3>4
      <4> QED BY <1>0, <2>1, <4>1, <4>2 DEF Effect
    <3> QED BY <3>3, <3>4
  <2> QED BY <1>0, <2>1, <2>2, <2>3
<1>3. CASE CutShort(x, keyed)
  <2>1. PICK d \in RecordedDays(x, keyed) :
           /\ LetsIn(scan[x].card, d)
           /\ meals' = MealTaken(scan[x].card, d)
           /\ admitted' = IF scan[x].card \in VisitCards THEN Entered(x, keyed, d) ELSE admitted
           /\ unrevoked' = unrevoked \cup ({scan[x].card} \cap VisitCards)
    BY <1>3 DEF CutShort
  <2>2. UNCHANGED <<active, denied, edits, struck>> /\ ends < MaxEnds /\ ends' = ends + 1
    BY <1>3 DEF CutShort
  <2>3. d \in Days
    BY DaysRecorded
  <2>4. PICK e \in Event : /\ e.card = scan[x].card /\ e.day = d
                           /\ Entered(x, keyed, d) = admitted \cup {e}
    BY <2>3, EntryIsEvent
  <2>5. e.card \notin VisitCards => unrevoked' = unrevoked /\ admitted' = admitted
    BY <2>1, <2>4
  <2>6. e.card \in VisitCards => unrevoked' = unrevoked \cup {e.card} /\ admitted' = admitted \cup {e}
    BY <2>1, <2>4
  <2>7. LetsIn(e.card, e.day) /\ meals' = MealTaken(e.card, e.day)
    BY <2>1, <2>4
  <2> QED BY <1>0, <2>2, <2>4, <2>5, <2>6, <2>7 DEF Effect
<1> QED BY <1>1, <1>2, <1>3

LEMMA EffectTypes ==
    ASSUME TypeOK, NEW x \in Scans, Effect(x)
    PROVE  /\ active' \subseteq Cards
           /\ admitted' \subseteq Event /\ denied' \subseteq Scans
           /\ meals' \subseteq Staff \X Days /\ unrevoked' \subseteq VisitCards
<1>1. \A e \in Event : /\ MealTaken(e.card, e.day) \subseteq Staff \X Days
                       /\ ExitEndsCard(e.card) \subseteq Cards
  BY StationAssumption DEF MealTaken, ExitEndsCard, Event, TypeOK
<1> QED BY <1>1 DEF Effect, TypeOK

-----------------------------------------------------------------------------
(* Types *)

ScanRow == [card : Cards, day : Days, status : ScanStatus, retries : 0 .. RetryLimit]

LEMMA TapTypes ==
    ASSUME TypeOK, NEW x \in Scans, NEW c \in Cards, ScanAnswered(x, c) \/ ScanQueued(x, c)
    PROVE  /\ TypeOK'
           /\ Effect(x) /\ UNCHANGED <<struck, sent>>
           /\ \A y \in Scans : scan'[y].status = "synced" => scan[y].status = "synced"
<1>1. PICK status \in {"shown", "pending"} : Tap(x, c, status)
  BY DEF ScanAnswered, ScanQueued
<1>2. Effect(x) /\ struck' = struck /\ edits' = edits /\ ends' \in 0 .. MaxEnds
  BY RequestEffect DEF ScanAnswered, ScanQueued
<1>3. scan' = [scan EXCEPT ![x] = [scan[x] EXCEPT !.status = status, !.day = today]]
  BY <1>1 DEF Tap, TypeOK
<1>4. [scan[x] EXCEPT !.status = status, !.day = today] \in ScanRow
  BY <1>1 DEF TypeOK, ScanRow, ScanStatus
<1>5. scan \in [Scans -> ScanRow]
  BY DEF TypeOK, ScanRow
<1>6. scan' \in [Scans -> ScanRow]
  BY <1>3, <1>4, <1>5
<1>7. \A y \in Scans : scan'[y].status = "synced" => scan[y].status = "synced"
  BY <1>1, <1>3, <1>5 DEF ScanRow
<1>8. UNCHANGED <<today, todo, sent>>
  BY <1>1 DEF Tap
<1>9. TypeOK'
  BY <1>2, <1>6, <1>8, EffectTypes DEF TypeOK, ScanRow
<1> QED BY <1>2, <1>7, <1>8, <1>9

LEMMA PassTypes == ASSUME TypeOK, NEW p \in Passes, StartPass(p) PROVE TypeOK'
<1>1. \A x \in Scans : <<x, scan[x].retries>> \in Copied
  BY DEF TypeOK, Copied
<1>2. todo' \in [Passes -> SUBSET Copied]
  BY <1>1 DEF StartPass, TypeOK
<1> QED BY <1>2 DEF StartPass, TypeOK, history

LEMMA SendTypes ==
    ASSUME TypeOK, NEW p \in Passes, NEW i \in todo[p], Send(p, i)
    PROVE  /\ TypeOK'
           /\ i[1] \in Scans /\ Effect(i[1]) /\ UNCHANGED struck
           /\ \A y \in Scans : scan'[y].status = "synced" => scan[y].status = "synced"
           /\ \E f \in Fates : /\ sent' = [sent EXCEPT ![p] = {<<i, f>>}]
                               /\ f = "served" => Serve(i[1], TRUE)
<1>1. i \in Copied /\ i[1] \in Scans
  BY DEF TypeOK, Copied
<1>2. PICK f \in Fates :
         /\ sent' = [sent EXCEPT ![p] = {<<i, f>>}]
         /\ f = "served" => Serve(i[1], TRUE)
         /\ Serve(i[1], TRUE) \/ CutShort(i[1], TRUE) \/ Unserved
  BY DEF Send, Fates
<1>3. Effect(i[1]) /\ struck' = struck /\ edits' = edits /\ ends' \in 0 .. MaxEnds
  BY <1>1, <1>2, RequestEffect
<1>4. /\ scan' = [scan EXCEPT ![i[1]] = [scan[i[1]] EXCEPT !.status = "sending"]]
      /\ todo' = [todo EXCEPT ![p] = todo[p] \ {i}]
      /\ UNCHANGED today
  BY DEF Send, TypeOK
<1>5. scan \in [Scans -> ScanRow]
  BY DEF TypeOK, ScanRow
<1>6. [scan[i[1]] EXCEPT !.status = "sending"] \in ScanRow
  BY <1>1, <1>5 DEF ScanRow, ScanStatus
<1>7. scan' \in [Scans -> ScanRow]
  BY <1>4, <1>5, <1>6
<1>8. \A y \in Scans : scan'[y].status = "synced" => scan[y].status = "synced"
  BY <1>1, <1>4, <1>5 DEF ScanRow
<1>9. todo' \in [Passes -> SUBSET Copied] /\ sent' \in [Passes -> SUBSET (Copied \X Fates)]
  BY <1>1, <1>2, <1>4 DEF TypeOK
<1>10. TypeOK'
  BY <1>1, <1>3, <1>4, <1>7, <1>9, EffectTypes DEF TypeOK, ScanRow
<1> QED BY <1>1, <1>2, <1>3, <1>8, <1>10

LEMMA AnswerTypes ==
    ASSUME TypeOK, NEW p \in Passes, Answered(p)
    PROVE  /\ TypeOK'
           /\ UNCHANGED <<active, admitted, denied, meals, struck, unrevoked>>
           /\ \A q \in Passes : sent'[q] \subseteq sent[q]
           /\ \A y \in Scans :
                 scan'[y].status = "synced" =>
                    \/ scan[y].status = "synced"
                    \/ \E s \in sent[p] : s[1][1] = y /\ s[2] = "served"
<1>0. PICK s \in sent[p] : \E a \in AnswersTo(s[2]) :
         LET x     == s[1][1]
             tries == s[1][2] + 1
             row   == Settled(a, IF tries > RetryLimit THEN RetryLimit ELSE tries)
         IN /\ scan' = [scan EXCEPT ![x].status = row.status,
                                    ![x].retries = IF a = "2xx" THEN @ ELSE row.retries]
            /\ todo' = [todo EXCEPT ![p] = IF a = "lost" THEN {} ELSE @]
            /\ sent' = [sent EXCEPT ![p] = {}]
            /\ UNCHANGED <<today, active, admitted, denied, meals, ends, history>>
  BY DEF Answered
<1> DEFINE x == s[1][1]
           tries == IF s[1][2] + 1 > RetryLimit THEN RetryLimit ELSE s[1][2] + 1
<1>1. PICK a \in AnswersTo(s[2]) :
         /\ scan' = [scan EXCEPT ![x].status = Settled(a, tries).status,
                                 ![x].retries = IF a = "2xx" THEN @ ELSE Settled(a, tries).retries]
         /\ todo' = [todo EXCEPT ![p] = IF a = "lost" THEN {} ELSE @]
         /\ sent' = [sent EXCEPT ![p] = {}]
         /\ UNCHANGED <<today, active, admitted, denied, meals, ends, history>>
  BY <1>0
<1> DEFINE row == Settled(a, tries)
           new == [scan[x] EXCEPT !.status = row.status,
                                  !.retries = IF a = "2xx" THEN @ ELSE row.retries]
<1>2. s \in Copied \X Fates /\ x \in Scans /\ s[1][2] \in 0 .. RetryLimit
  BY DEF TypeOK, Copied
<1>3. tries \in 0 .. RetryLimit
  BY <1>2, StationAssumption
<1>4. a \in {"2xx", "4xx", "5xx", "lost"} /\ (a = "2xx" => s[2] = "served")
  BY <1>2 DEF AnswersTo, Fates
<1>5. /\ row.status \in ScanStatus /\ (a # "2xx" => row.retries \in 0 .. RetryLimit)
      /\ row.status = "synced" => a = "2xx"
  BY <1>3, <1>4 DEF Settled, ScanStatus
<1>6. scan' = [scan EXCEPT ![x].status = row.status,
                           ![x].retries = IF a = "2xx" THEN @ ELSE row.retries]
  BY <1>1
<1> HIDE DEF row, x, tries
<1>7. scan \in [Scans -> ScanRow]
  BY DEF TypeOK, ScanRow
<1>8. scan' = [scan EXCEPT ![x] = new]
  BY <1>2, <1>6, <1>7 DEF ScanRow
<1>9. new \in ScanRow /\ new.status = row.status
  BY <1>2, <1>5, <1>7 DEF ScanRow
<1>10. scan' \in [Scans -> ScanRow]
  BY <1>7, <1>8, <1>9
<1>11. \A y \in Scans : scan'[y].status = "synced" =>
           scan[y].status = "synced" \/ (y = x /\ s[2] = "served")
  BY <1>2, <1>4, <1>5, <1>7, <1>8, <1>9
<1>12. /\ todo' \in [Passes -> SUBSET Copied]
       /\ sent' \in [Passes -> SUBSET (Copied \X Fates)]
       /\ \A q \in Passes : sent'[q] \subseteq sent[q]
  BY <1>1 DEF TypeOK
<1>13. UNCHANGED <<today, active, admitted, denied, meals, ends, edits, struck, unrevoked>>
  BY <1>1 DEF history
<1>14. TypeOK'
  BY <1>10, <1>12, <1>13 DEF TypeOK, ScanRow
<1> QED BY <1>11, <1>12, <1>13, <1>14 DEF x

LEMMA OfficeTypes ==
    ASSUME TypeOK,
           \/ NextDay \/ Reload
           \/ \E c \in Cards : StopCard(c)
           \/ \E s \in Staff, d \in Days : LogMeal(s, d) \/ DeleteMeal(s, d)
    PROVE  /\ TypeOK'
           /\ UNCHANGED <<scan, admitted, denied, unrevoked>> /\ active' \subseteq active
           /\ sent' = sent \/ sent' = [p \in Passes |-> {}]
<1>0. MaxEdits \in Nat /\ LastDay \in Nat
  BY StationAssumption
<1>1. CASE NextDay
  BY <1>0, <1>1 DEF NextDay, TypeOK, page, history, Days
<1>2. CASE Reload
  BY <1>2 DEF Reload, TypeOK, history
<1>3. CASE \E c \in Cards : StopCard(c)
  BY <1>3 DEF StopCard, TypeOK, page, history
<1>4. CASE \E s \in Staff, d \in Days : LogMeal(s, d) \/ DeleteMeal(s, d)
  BY <1>0, <1>4 DEF LogMeal, DeleteMeal, Edit, TypeOK, page
<1> QED BY <1>1, <1>2, <1>3, <1>4

\* Type correctness.
THEOREM StationTypeCorrect == Spec => []TypeOK
<1>1. Init => TypeOK
  BY StationAssumption DEF Init, TypeOK, Days, ScanStatus
<1>2. TypeOK /\ [Next]_vars => TypeOK'
  <2> SUFFICES ASSUME TypeOK, [Next]_vars PROVE TypeOK'
    OBVIOUS
  <2>1. CASE UNCHANGED vars
    BY <2>1 DEF vars, page, history, TypeOK
  <2> QED BY <2>1, TapTypes, PassTypes, SendTypes, AnswerTypes, OfficeTypes DEF Next
<1> QED BY <1>1, <1>2, PTL DEF Spec

-----------------------------------------------------------------------------
(* Meals *)

LEMMA AtMostOne ==
    ASSUME NEW S, \A e, f \in S : e = f
    PROVE  Cardinality(S) <= 1
<1>1. CASE S = {}
  BY <1>1, FS_EmptySet
<1>2. ASSUME NEW e \in S PROVE Cardinality(S) <= 1
  <2>1. S = {e}
    OBVIOUS
  <2> QED BY <2>1, FS_Singleton
<1> QED BY <1>1, <1>2

MealOf(e) == <<HolderOf[e.card], e.day>>
ForMeal(e) == e.card \in MealCards

\* Whoever was let in has the meal, so a second entry finds it taken.
MealInv ==
    /\ \A e \in admitted : ForMeal(e) => MealOf(e) \in meals \cup struck
    /\ \A e, f \in admitted :
          ForMeal(e) /\ ForMeal(f) /\ MealOf(e) = MealOf(f) /\ MealOf(e) \notin struck => e = f

LEMMA RequestKeepsMeals ==
    ASSUME TypeOK, MealInv, NEW x \in Scans, Effect(x), UNCHANGED struck
    PROVE  MealInv'
<1>1. CASE UNCHANGED admitted /\ meals \subseteq meals'
  BY <1>1 DEF MealInv, ForMeal, MealOf
<1>2. CASE UNCHANGED <<admitted, meals>>
  BY <1>2 DEF MealInv, ForMeal, MealOf
<1>3. ASSUME NEW e \in Event, LetsIn(e.card, e.day), meals' = MealTaken(e.card, e.day),
             admitted' = admitted \cup {e}
      PROVE  MealInv'
  <2>1. meals \subseteq meals' /\ (ForMeal(e) => MealOf(e) \in meals')
    BY <1>3 DEF MealTaken, ForMeal, MealOf
  <2>2. ForMeal(e) => MealOf(e) \notin meals
    BY <1>3 DEF LetsIn, ForMeal, MealOf
  <2>3. \A f \in admitted : ForMeal(e) /\ ForMeal(f) /\ MealOf(e) = MealOf(f) => MealOf(e) \in struck
    BY <2>2 DEF MealInv
  <2> HIDE DEF ForMeal, MealOf
  <2> QED BY <1>3, <2>1, <2>3 DEF MealInv
<1>4. ASSUME NEW e \in Event, meals' = MealTaken(e.card, e.day), UNCHANGED admitted
      PROVE  MealInv'
  BY <1>1, <1>4 DEF MealTaken
<1> QED BY <1>2, <1>3, <1>4 DEF Effect

LEMMA MealInvInductive == Spec => []MealInv
<1>1. Init => MealInv
  BY DEF Init, MealInv
<1>2. TypeOK /\ MealInv /\ [Next]_vars => MealInv'
  <2> SUFFICES ASSUME TypeOK, MealInv, [Next]_vars PROVE MealInv'
    OBVIOUS
  <2>1. ASSUME UNCHANGED <<admitted, meals, struck>> PROVE MealInv'
    BY <2>1 DEF MealInv, ForMeal, MealOf
  <2>2. ASSUME NEW p \in Passes, StartPass(p) PROVE MealInv'
    BY <2>1, <2>2 DEF StartPass, history
  <2>3. CASE UNCHANGED vars \/ NextDay \/ Reload \/ \E c \in Cards : StopCard(c)
    BY <2>1, <2>3 DEF vars, NextDay, Reload, StopCard, history
  <2>4. ASSUME NEW s \in Staff, NEW d \in Days, LogMeal(s, d) \/ DeleteMeal(s, d)
        PROVE  MealInv'
    <3>1. /\ admitted' = admitted /\ struck \subseteq struck'
          /\ meals \cup struck \subseteq meals' \cup struck'
      BY <2>4 DEF LogMeal, DeleteMeal
    <3> QED BY <3>1 DEF MealInv, ForMeal, MealOf
  <2> HIDE DEF MealInv
  <2> QED BY <2>2, <2>3, <2>4, TapTypes, SendTypes, AnswerTypes, RequestKeepsMeals, <2>1 DEF Next
<1> QED BY <1>1, <1>2, StationTypeCorrect, PTL DEF Spec

\* Whoever was let in has a meal, wherever the process ended.
THEOREM AdmittedHaveMeals == Spec => []AdmissionHasMeal
<1>1. MealInv => AdmissionHasMeal
  BY DEF MealInv, AdmissionHasMeal, Admissions, ForMeal, MealOf
<1> QED BY <1>1, MealInvInductive, PTL

\* Nobody is let in twice for one meal that no manager deleted.
THEOREM MealsAdmitOnce == Spec => []OneAdmissionPerMeal
<1>1. MealInv => OneAdmissionPerMeal
  <2> SUFFICES ASSUME MealInv, NEW s \in Staff, NEW d \in Days, <<s, d>> \notin struck
               PROVE  Cardinality(Admissions(s, d)) <= 1
    BY DEF OneAdmissionPerMeal
  <2>1. \A e, f \in Admissions(s, d) : e = f
    BY DEF MealInv, Admissions, ForMeal, MealOf
  <2> QED BY <2>1, AtMostOne
<1> QED BY <1>1, MealInvInductive, PTL

-----------------------------------------------------------------------------
(* Visits *)

\* A card that opened the exit is no longer active.
VisitInv ==
    \A c \in VisitCards \ unrevoked :
        /\ \A e, f \in admitted : e.card = c /\ f.card = c => e = f
        /\ (\E e \in admitted : e.card = c) => c \notin active

LEMMA RequestKeepsVisits ==
    ASSUME TypeOK, VisitInv, NEW x \in Scans, Effect(x)
    PROVE  VisitInv'
<1>1. CASE UNCHANGED <<admitted, active, unrevoked>>
  BY <1>1 DEF VisitInv
<1>2. ASSUME NEW e \in Event, LetsIn(e.card, e.day), admitted' = admitted \cup {e},
             active' = ExitEndsCard(e.card), UNCHANGED unrevoked
      PROVE  VisitInv'
  <2>1. e.card \in active /\ active' = active \ ({e.card} \cap VisitCards)
    BY <1>2 DEF LetsIn, ExitEndsCard
  <2> QED BY <1>2, <2>1 DEF VisitInv
<1>3. ASSUME NEW e \in Event, admitted' = admitted \cup {e}, UNCHANGED active,
             unrevoked' = unrevoked \cup {e.card}
      PROVE  VisitInv'
  BY <1>3 DEF VisitInv
<1> QED BY <1>1, <1>2, <1>3 DEF Effect

\* A visitor's card opens the exit once, unless the process ended before it was revoked.
THEOREM VisitsExitOnce == Spec => []OneExitPerVisit
<1>1. Init => VisitInv
  BY DEF Init, VisitInv
<1>2. TypeOK /\ VisitInv /\ [Next]_vars => VisitInv'
  <2> SUFFICES ASSUME TypeOK, VisitInv, [Next]_vars PROVE VisitInv'
    OBVIOUS
  <2>1. ASSUME UNCHANGED <<admitted, unrevoked>>, active' \subseteq active PROVE VisitInv'
    BY <2>1 DEF VisitInv
  <2>2. CASE UNCHANGED vars \/ \E p \in Passes : StartPass(p)
    BY <2>1, <2>2 DEF vars, StartPass, history
  <2> HIDE DEF VisitInv
  <2> QED BY <2>1, <2>2, TapTypes, SendTypes, AnswerTypes, OfficeTypes, RequestKeepsVisits DEF Next
<1>3. VisitInv => OneExitPerVisit
  <2> SUFFICES ASSUME VisitInv, NEW c \in VisitCards \ unrevoked
               PROVE  Cardinality({e \in admitted : e.card = c}) <= 1
    BY DEF OneExitPerVisit
  <2>1. \A e, f \in {g \in admitted : g.card = c} : e = f
    BY DEF VisitInv
  <2> QED BY <2>1, AtMostOne
<1> QED BY <1>1, <1>2, <1>3, StationTypeCorrect, PTL DEF Spec

-----------------------------------------------------------------------------
(* Synced rows *)

\* An answer on its way back says what the server has in its log.
SyncInv ==
    /\ SyncedScanIsLogged
    /\ \A p \in Passes : \A s \in sent[p] : s[2] = "served" => Logged(s[1][1])

LEMMA LogGrows ==
    ASSUME \/ UNCHANGED <<admitted, denied>>
           \/ \E x \in Scans : Effect(x)
    PROVE  \A y \in Scans : Logged(y) => Logged(y)'
<1>1. admitted \subseteq admitted' /\ denied \subseteq denied'
  BY DEF Effect
<1> QED BY <1>1 DEF Logged

LEMMA ServedIsLogged ==
    ASSUME TypeOK, NEW x \in Scans, Serve(x, TRUE)
    PROVE  Logged(x)'
<1>1. CASE Logged(x)
  <2>1. UNCHANGED <<admitted, denied>>
    BY <1>1 DEF Serve
  <2> QED BY <1>1, <2>1 DEF Logged
<1>2. CASE ~Logged(x)
  <2>1. PICK d \in RecordedDays(x, TRUE) :
           \/ admitted' = Entered(x, TRUE, d)
           \/ denied' = denied \cup {x}
    BY <1>2 DEF Serve
  <2>2. CASE denied' = denied \cup {x}
    BY <2>2 DEF Logged
  <2>3. CASE admitted' = Entered(x, TRUE, d)
    <3>1. PICK e : e = [scan |-> x, card |-> scan[x].card, day |-> d, keyed |-> TRUE]
      OBVIOUS
    <3>2. e \in admitted' /\ e.scan = x /\ e.keyed
      BY <2>3, <3>1 DEF Entered
    <3> QED BY <3>2 DEF Logged
  <2> QED BY <2>1, <2>2, <2>3
<1> QED BY <1>1, <1>2

\* A row the page calls synced is in the server's log, with two passes at work.
THEOREM SyncedIsLogged == Spec => []SyncedScanIsLogged
<1>1. Init => SyncInv
  BY DEF Init, SyncInv, SyncedScanIsLogged
<1>2. TypeOK /\ SyncInv /\ [Next]_vars => SyncInv'
  <2> SUFFICES ASSUME TypeOK, SyncInv, [Next]_vars PROVE SyncInv'
    OBVIOUS
  <2>0. \A p \in Passes : \A s \in sent[p] : s[1][1] \in Scans
    BY DEF TypeOK, Copied
  <2>1. ASSUME \A y \in Scans : Logged(y) => Logged(y)',
               \A y \in Scans : scan'[y].status = "synced" => scan[y].status = "synced",
               \A p \in Passes : sent'[p] \subseteq sent[p]
        PROVE  SyncInv'
    BY <2>0, <2>1 DEF SyncInv, SyncedScanIsLogged
  <2>2. CASE UNCHANGED vars \/ \E p \in Passes : StartPass(p)
    <3>1. UNCHANGED <<scan, sent, admitted, denied>>
      BY <2>2 DEF vars, page, StartPass
    <3> QED BY <2>1, <3>1, LogGrows
  <2>3. ASSUME NEW x \in Scans, NEW c \in Cards, ScanAnswered(x, c) \/ ScanQueued(x, c)
        PROVE  SyncInv'
    <3>1. /\ Effect(x) /\ sent' = sent
          /\ \A y \in Scans : scan'[y].status = "synced" => scan[y].status = "synced"
      BY <2>3, TapTypes
    <3> QED BY <2>1, <3>1, LogGrows
  <2>4. ASSUME NEW p \in Passes, NEW i \in todo[p], Send(p, i) PROVE SyncInv'
    <3>1. /\ i[1] \in Scans /\ Effect(i[1])
          /\ \A y \in Scans : scan'[y].status = "synced" => scan[y].status = "synced"
      BY <2>4, SendTypes
    <3>2. PICK f \in Fates : /\ sent' = [sent EXCEPT ![p] = {<<i, f>>}]
                             /\ f = "served" => Serve(i[1], TRUE)
      BY <2>4, SendTypes
    <3>3. \A y \in Scans : Logged(y) => Logged(y)'
      BY <3>1, LogGrows
    <3>4. f = "served" => Logged(i[1])'
      BY <3>1, <3>2, ServedIsLogged
    <3>5. \A q \in Passes : \A s \in sent'[q] : s \in sent[q] \/ s = <<i, f>>
      BY <3>2 DEF TypeOK
    <3> QED BY <2>0, <3>1, <3>3, <3>4, <3>5 DEF SyncInv, SyncedScanIsLogged
  <2>5. ASSUME NEW p \in Passes, Answered(p) PROVE SyncInv'
    <3>1. /\ UNCHANGED <<admitted, denied>>
          /\ \A q \in Passes : sent'[q] \subseteq sent[q]
          /\ \A y \in Scans :
                scan'[y].status = "synced" =>
                   \/ scan[y].status = "synced"
                   \/ \E s \in sent[p] : s[1][1] = y /\ s[2] = "served"
      BY <2>5, AnswerTypes
    <3>2. \A y \in Scans : Logged(y) => Logged(y)'
      BY <3>1, LogGrows
    <3> QED BY <2>0, <3>1, <3>2 DEF SyncInv, SyncedScanIsLogged
  <2>6. CASE \/ NextDay \/ Reload
             \/ \E c \in Cards : StopCard(c)
             \/ \E s \in Staff, d \in Days : LogMeal(s, d) \/ DeleteMeal(s, d)
    <3>1. UNCHANGED <<scan, admitted, denied>> /\ \A p \in Passes : sent'[p] \subseteq sent[p]
      BY <2>6, OfficeTypes
    <3> QED BY <2>1, <3>1, LogGrows
  <2> HIDE DEF SyncInv
  <2> QED BY <2>2, <2>3, <2>4, <2>5, <2>6 DEF Next
<1>3. SyncInv => SyncedScanIsLogged
  BY DEF SyncInv
<1> QED BY <1>1, <1>2, <1>3, StationTypeCorrect, PTL DEF Spec
=============================================================================
