------------------------ MODULE TransportTrips_proofs ------------------------
(***************************************************************************)
(* Proofs about TransportTrips, for any trips, people, buses and scans.    *)
(***************************************************************************)
EXTENDS TransportTrips, TLAPS

-----------------------------------------------------------------------------
(* Types *)

\* A scan changes the seats and the log within their types.
LEMMA ScanTypes ==
    ASSUME TypeOK, NEW q \in QueuedScan, ScanTrip(q)
    PROVE  /\ seat' \in [Trips -> [Staff -> SeatStatus]]
           /\ events' \in [Scans -> Results \cup {"none"}]
<1>1. ScanResult(q) \in Results
  BY DEF ScanResult, Results, QueuedScan
<1>2. q.id \in Scans /\ q.trip \in Trips /\ q.who \in Staff \cup {Unknown}
  BY DEF QueuedScan
<1>3. ScanResult(q) = "boarded" => q.who \in Staff
  BY <1>2 DEF ScanResult
<1>4. seat \in [Trips -> [Staff -> SeatStatus]] /\ events \in [Scans -> Results \cup {"none"}]
  BY DEF TypeOK
<1>5. "boarded" \in SeatStatus
  BY DEF SeatStatus
<1>6. events' = events \/ events' = [events EXCEPT ![q.id] = ScanResult(q)]
  BY DEF ScanTrip
<1>7. \/ seat' = seat
      \/ ScanResult(q) = "boarded" /\ seat' = [seat EXCEPT ![q.trip][q.who] = "boarded"]
  BY DEF ScanTrip
<1>8. events' \in [Scans -> Results \cup {"none"}]
  BY <1>1, <1>2, <1>4, <1>6
<1>9. seat' \in [Trips -> [Staff -> SeatStatus]]
  BY <1>2, <1>3, <1>4, <1>5, <1>7
<1> QED BY <1>8, <1>9

LEMMA PlanTypes ==
    ASSUME TypeOK, NEW t \in Trips, NEW b \in Buses \cup {NoBus}, NEW c \in Seats,
           \/ CreateTrip(t, b, c) \/ UpdateTrip(t, b, c)
           \/ \E main, wait \in SUBSET Staff : PublishPlan(t, b, c, main, wait)
    PROVE  TypeOK'
<1> USE DEF TypeOK, TripStatus
<1>1. CASE CreateTrip(t, b, c)
  BY <1>1 DEF CreateTrip
<1>2. CASE UpdateTrip(t, b, c)
  BY <1>2 DEF UpdateTrip
<1>3. ASSUME NEW main \in SUBSET Staff, NEW wait \in SUBSET Staff, PublishPlan(t, b, c, main, wait)
      PROVE  TypeOK'
  BY <1>3 DEF PublishPlan, SeatStatus
<1> QED BY <1>1, <1>2, <1>3

LEMMA LifeTypes ==
    ASSUME TypeOK, NEW t \in Trips,
           \/ Publish(t) \/ StartBoarding(t) \/ Complete(t) \/ Cancel(t) \/ Reopen(t)
           \/ \E same \in SUBSET Scans : Depart(t, same) \/ DriverStart(t, same)
    PROVE  TypeOK'
<1> USE DEF TypeOK, TripStatus, Move
<1>1. CASE Publish(t) \/ StartBoarding(t) \/ Complete(t) \/ Cancel(t) \/ Reopen(t)
  BY <1>1 DEF Publish, StartBoarding, Complete, Cancel, Reopen
<1>2. ASSUME NEW same \in SUBSET Scans, Depart(t, same) \/ DriverStart(t, same)
      PROVE  TypeOK'
  <2>1. Departed(t, same) /\ Move(t, {"published", "boarding"}, "departed")
    BY <1>2 DEF Depart, DriverStart
  <2>2. queue' \subseteq QueuedScan
    <3>1. queue' = {[q EXCEPT !.early = IF q.trip = t THEN q.id \notin same ELSE @] : q \in queue}
      BY <2>1 DEF Departed
    <3>2. ASSUME NEW q \in QueuedScan
          PROVE  [q EXCEPT !.early = IF q.trip = t THEN q.id \notin same ELSE @] \in QueuedScan
      <4>1. (IF q.trip = t THEN q.id \notin same ELSE q.early) \in BOOLEAN
        BY DEF QueuedScan
      <4> QED BY <4>1 DEF QueuedScan
    <3> QED BY <3>1, <3>2
  <2>3. seat' \in [Trips -> [Staff -> SeatStatus]]
    BY <2>1 DEF Departed, SeatStatus
  <2> QED BY <2>1, <2>2, <2>3 DEF Departed
<1> QED BY <1>1, <1>2

LEMMA SeatTypes ==
    ASSUME TypeOK, NEW t \in Trips, NEW s \in Staff,
           \/ \E want \in {"assigned", "waitlisted", "any"} : AddAssignment(t, s, want)
           \/ \E new \in SeatStatus \ {"none", "left_behind"}, approve \in BOOLEAN :
                 UpdateAssignment(t, s, new, approve)
    PROVE  TypeOK'
<1> USE DEF TypeOK
<1>1. ASSUME NEW want \in {"assigned", "waitlisted", "any"}, AddAssignment(t, s, want)
      PROVE  TypeOK'
  <2>1. AddedAs(t, want) \in SeatStatus
    BY DEF AddedAs, SeatStatus
  <2> QED BY <1>1, <2>1 DEF AddAssignment, trips
<1>2. ASSUME NEW new \in SeatStatus, NEW approve \in BOOLEAN, UpdateAssignment(t, s, new, approve)
      PROVE  TypeOK'
  <2>1. \A after \in Promoted(t, [seat[t] EXCEPT ![s] = new], approve) : after \in [Staff -> SeatStatus]
    BY DEF Promoted, SeatStatus
  <2>2. [seat[t] EXCEPT ![s] = new] \in [Staff -> SeatStatus]
    OBVIOUS
  <2>3. \E after \in [Staff -> SeatStatus] : seat' = [seat EXCEPT ![t] = after]
    BY <1>2, <2>1, <2>2 DEF UpdateAssignment
  <2>4. seat' \in [Trips -> [Staff -> SeatStatus]]
    BY <2>3
  <2> QED BY <1>2, <2>4 DEF UpdateAssignment, trips
<1> QED BY <1>1, <1>2

LEMMA BoardTypes ==
    ASSUME TypeOK, NEW e \in Scans, NEW t \in Trips, NEW w \in Staff \cup {Unknown},
           ScanOnline(e, t, w) \/ ScanQueued(e, t, w) \/ ScanFailed(e, t, w)
    PROVE  TypeOK'
<1>1. Scanned(e, t, w) \in QueuedScan
  BY DEF Scanned, QueuedScan
<1>2. NowAboard(t, w) \subseteq Trips \X Staff
  BY DEF NowAboard, TypeOK
<1>3. /\ seat' \in [Trips -> [Staff -> SeatStatus]]
      /\ events' \in [Scans -> Results \cup {"none"}]
  BY <1>1, ScanTypes DEF ScanOnline, ScanQueued, ScanFailed, TypeOK
<1> QED BY <1>1, <1>2, <1>3 DEF ScanOnline, ScanQueued, ScanFailed, Scan, trips, TypeOK

LEMMA FlushTypes ==
    ASSUME TypeOK, NEW q \in queue, FlushAnswered(q) \/ FlushAnswerLost(q) \/ FlushRefused(q) \/ MobileDrain(q)
    PROVE  TypeOK'
<1>1. q \in QueuedScan
  BY DEF TypeOK
<1>2. /\ seat' \in [Trips -> [Staff -> SeatStatus]]
      /\ events' \in [Scans -> Results \cup {"none"}]
  BY <1>1, ScanTypes DEF FlushAnswered, FlushAnswerLost, FlushRefused, MobileDrain, Forget, TypeOK
<1> QED BY <1>1, <1>2 DEF FlushAnswered, FlushAnswerLost, FlushRefused, MobileDrain, Forget, trips, TypeOK

\* Every handler keeps the rows, the log and the phone's queue well typed.
THEOREM TripsTypeCorrect == Spec => []TypeOK
<1>1. Init => TypeOK
  BY DEF Init, TypeOK, TripStatus, SeatStatus
<1>2. TypeOK /\ [Next]_vars => TypeOK'
  <2> SUFFICES ASSUME TypeOK, [Next]_vars PROVE TypeOK'
    OBVIOUS
  <2>1. CASE UNCHANGED vars
    BY <2>1 DEF vars, TypeOK
  <2> QED BY <2>1, PlanTypes, LifeTypes, SeatTypes, BoardTypes, FlushTypes DEF Next
<1> QED BY <1>1, <1>2, PTL DEF Spec

-----------------------------------------------------------------------------
(* One bus, two trips *)

\* What an action on the trips does when it leaves t with bus b: the others stay.
LEMMA BusLookedAt ==
    ASSUME TypeOK, BusSharedOnlyUnchecked, NEW t \in Trips, NEW b \in Buses \cup {NoBus},
           BusFree(t, b), bus' = [bus EXCEPT ![t] = b],
           unchecked \ {t} \subseteq unchecked',
           \A u \in Trips : u # t => status'[u] = status[u]
    PROVE  BusSharedOnlyUnchecked'
<1>1. /\ \A u \in Trips : u # t => bus'[u] = bus[u]
      /\ bus'[t] = b
  BY DEF TypeOK
<1> QED BY <1>1 DEF BusFree, BusSharedOnlyUnchecked, AreNear, Live

LEMMA BusNotLookedAt ==
    ASSUME TypeOK, BusSharedOnlyUnchecked, NEW t \in Trips,
           \A u \in Trips : u # t => bus'[u] = bus[u] /\ status'[u] = status[u],
           unchecked \subseteq unchecked',
           \/ t \in unchecked' \/ ~Live(t)'
           \/ bus'[t] = bus[t] /\ Live(t)
    PROVE  BusSharedOnlyUnchecked'
BY DEF BusSharedOnlyUnchecked, AreNear, Live

\* One bus is on two near live trips only while one of them holds it unchecked,
\* for any number of trips and buses.
THEOREM BusesNotShared == Spec => []BusSharedOnlyUnchecked
<1>1. Init => BusSharedOnlyUnchecked
  BY DEF Init, BusSharedOnlyUnchecked, Live
<1>2. TypeOK /\ BusSharedOnlyUnchecked /\ [Next]_vars => BusSharedOnlyUnchecked'
  <2> SUFFICES ASSUME TypeOK, BusSharedOnlyUnchecked, [Next]_vars
               PROVE  BusSharedOnlyUnchecked'
    OBVIOUS
  <2>1. ASSUME NEW t \in Trips, NEW b \in Buses \cup {NoBus}, NEW c \in Seats,
               CreateTrip(t, b, c) \/ UpdateTrip(t, b, c)
        PROVE  BusSharedOnlyUnchecked'
    <3>1. /\ BusFree(t, b) /\ bus' = [bus EXCEPT ![t] = b] /\ unchecked \ {t} \subseteq unchecked'
          /\ \A u \in Trips : u # t => status'[u] = status[u]
      BY <2>1 DEF CreateTrip, UpdateTrip, TypeOK
    <3> QED BY <3>1, BusLookedAt
  <2>2. ASSUME NEW t \in Trips, Publish(t)
        PROVE  BusSharedOnlyUnchecked'
    <3>1. /\ BusFree(t, bus[t]) /\ bus' = [bus EXCEPT ![t] = bus[t]]
          /\ bus[t] \in Buses \cup {NoBus} /\ unchecked \ {t} \subseteq unchecked'
          /\ \A u \in Trips : u # t => status'[u] = status[u]
      BY <2>2 DEF Publish, Move, TypeOK
    <3> QED BY <3>1, BusLookedAt
  <2>3. ASSUME NEW t \in Trips, NEW b \in Buses \cup {NoBus}, NEW c \in Seats,
               NEW main \in SUBSET Staff, NEW wait \in SUBSET Staff,
               PublishPlan(t, b, c, main, wait)
        PROVE  BusSharedOnlyUnchecked'
    <3>1. /\ unchecked' = unchecked \cup {t}
          /\ \A u \in Trips : u # t => bus'[u] = bus[u] /\ status'[u] = status[u]
      BY <2>3 DEF PublishPlan, TypeOK
    <3> QED BY <3>1, BusNotLookedAt
  <2>4. ASSUME NEW t \in Trips,
               \/ StartBoarding(t) \/ Complete(t) \/ Cancel(t) \/ Reopen(t)
               \/ \E same \in SUBSET Scans : Depart(t, same) \/ DriverStart(t, same)
        PROVE  BusSharedOnlyUnchecked'
    <3> USE DEF StartBoarding, Complete, Cancel, Reopen, Depart, DriverStart, Departed, Move
    <3>1. bus' = bus /\ unchecked \subseteq unchecked'
      BY <2>4
    <3>2. \A u \in Trips : u # t => status'[u] = status[u]
      BY <2>4 DEF TypeOK
    <3>3. t \in unchecked' \/ ~Live(t)' \/ Live(t)
      BY <2>4 DEF TypeOK, Live
    <3> QED BY <3>1, <3>2, <3>3, BusNotLookedAt
  <2>5. ASSUME UNCHANGED <<trips, unchecked>> PROVE BusSharedOnlyUnchecked'
    BY <2>5 DEF trips, BusSharedOnlyUnchecked, AreNear, Live
  <2>6. ASSUME NEW t \in Trips, NEW s \in Staff,
               \/ \E want \in {"assigned", "waitlisted", "any"} : AddAssignment(t, s, want)
               \/ \E new \in SeatStatus \ {"none", "left_behind"}, approve \in BOOLEAN :
                     UpdateAssignment(t, s, new, approve)
        PROVE  UNCHANGED <<trips, unchecked>>
    BY <2>6 DEF AddAssignment, UpdateAssignment
  <2>7. ASSUME NEW e \in Scans, NEW t \in Trips, NEW w \in Staff \cup {Unknown},
               ScanOnline(e, t, w) \/ ScanQueued(e, t, w) \/ ScanFailed(e, t, w)
        PROVE  UNCHANGED <<trips, unchecked>>
    BY <2>7 DEF ScanOnline, ScanQueued, ScanFailed, Scan
  <2>8. ASSUME NEW q \in queue,
               FlushAnswered(q) \/ FlushAnswerLost(q) \/ FlushRefused(q) \/ MobileDrain(q)
        PROVE  UNCHANGED <<trips, unchecked>>
    BY <2>8 DEF FlushAnswered, FlushAnswerLost, FlushRefused, MobileDrain, Forget
  <2>9. CASE UNCHANGED vars
    BY <2>5, <2>9 DEF vars, trips
  <2> QED BY <2>1, <2>2, <2>3, <2>4, <2>5, <2>6, <2>7, <2>8, <2>9 DEF Next
<1> QED BY <1>1, <1>2, TripsTypeCorrect, PTL DEF Spec

-----------------------------------------------------------------------------
(* Late scans *)

OnPhone == queue \cup lost

IdsUnique ==
    /\ queue \cap lost = {}
    /\ \A q, r \in OnPhone : q.id = r.id => q = r

\* who is on the list of a trip that does not exist yet: nobody
SeatsOfTrips == \A t \in Trips, s \in Staff : status[t] = "none" => seat[t][s] = "none"

AboardSeated == \A p \in aboard : seat[p[1]][p[2]] \in {"assigned", "boarded", "left_behind"}

\* left_behind is written by the departure
LeftBehindDeparted ==
    \A t \in Trips, s \in Staff :
        seat[t][s] = "left_behind" /\ t \notin reopened =>
            status[t] \in {"departed", "completed", "cancelled"}

\* somebody scanned aboard who is not boarded has a scan the server has not recorded
ScanOwed ==
    \A p \in aboard :
        seat[p[1]][p[2]] \in {"assigned", "left_behind"} /\ p[1] \notin reopened =>
            \E q \in OnPhone : q.trip = p[1] /\ q.who = p[2] /\ events[q.id] = "none"

ScanInv == /\ TypeOK /\ IdsUnique /\ SeatsOfTrips /\ AboardSeated
           /\ LeftBehindDeparted /\ ScanOwed

LEMMA PlanKeeps ==
    ASSUME ScanInv, NEW t \in Trips, NEW b \in Buses \cup {NoBus}, NEW c \in Seats,
           \/ CreateTrip(t, b, c) \/ UpdateTrip(t, b, c)
           \/ \E main, wait \in SUBSET Staff : PublishPlan(t, b, c, main, wait)
    PROVE  ScanInv'
<1>0. TypeOK'
  BY PlanTypes DEF ScanInv
<1>1. UNCHANGED <<events, queue, lost, aboard, reopened>>
  BY DEF CreateTrip, UpdateTrip, PublishPlan
<1>2. \A u \in Trips : status'[u] = "none" \/ status[u] # "none" => status'[u] = status[u]
  BY DEF CreateTrip, UpdateTrip, PublishPlan, ScanInv, TypeOK
<1>3. \A u \in Trips, s \in Staff :
          \/ seat'[u][s] = seat[u][s]
          \/ /\ status[u] = "none" /\ status'[u] # "none"
             /\ seat'[u][s] \in {"assigned", "waitlisted"}
  BY DEF CreateTrip, UpdateTrip, PublishPlan, ScanInv, TypeOK
<1>4. \A p \in aboard : /\ p[1] \in Trips /\ p[2] \in Staff
                         /\ status[p[1]] # "none" /\ seat'[p[1]][p[2]] = seat[p[1]][p[2]]
  BY <1>3 DEF ScanInv, TypeOK, AboardSeated, SeatsOfTrips
<1>5. IdsUnique'
  BY <1>1 DEF ScanInv, IdsUnique, OnPhone
<1>6. SeatsOfTrips'
  BY <1>2, <1>3 DEF ScanInv, SeatsOfTrips
<1>7. AboardSeated'
  BY <1>1, <1>4 DEF ScanInv, AboardSeated
<1>8. LeftBehindDeparted'
  BY <1>1, <1>2, <1>3 DEF ScanInv, LeftBehindDeparted, SeatsOfTrips
<1>9. ScanOwed'
  BY <1>1, <1>4 DEF ScanInv, ScanOwed, OnPhone
<1> QED BY <1>0, <1>5, <1>6, <1>7, <1>8, <1>9 DEF ScanInv

LEMMA LifeKeeps ==
    ASSUME ScanInv, NEW t \in Trips,
           Publish(t) \/ StartBoarding(t) \/ Complete(t) \/ Cancel(t) \/ Reopen(t)
    PROVE  ScanInv'
<1>0. TypeOK'
  BY LifeTypes DEF ScanInv
<1>1. UNCHANGED <<seat, events, queue, lost, aboard>> /\ reopened \subseteq reopened'
  BY DEF Publish, StartBoarding, Complete, Cancel, Reopen, Move
<1>2. \A u \in Trips : u # t => status'[u] = status[u]
  BY DEF Publish, StartBoarding, Complete, Cancel, Reopen, Move, ScanInv, TypeOK
<1>3. status'[t] # "none"
  BY DEF Publish, StartBoarding, Complete, Cancel, Reopen, Move, ScanInv, TypeOK
<1>4. \/ t \in reopened'
      \/ status[t] \notin {"departed", "completed", "cancelled"}
      \/ status'[t] \in {"departed", "completed", "cancelled"}
  BY DEF Publish, StartBoarding, Complete, Cancel, Reopen, Move, ScanInv, TypeOK
<1>5. IdsUnique' /\ AboardSeated' /\ ScanOwed'
  BY <1>1 DEF ScanInv, IdsUnique, AboardSeated, ScanOwed, OnPhone
<1>6. SeatsOfTrips'
  BY <1>1, <1>2, <1>3 DEF ScanInv, SeatsOfTrips
<1>7. LeftBehindDeparted'
  BY <1>1, <1>2, <1>4 DEF ScanInv, LeftBehindDeparted
<1> QED BY <1>0, <1>5, <1>6, <1>7 DEF ScanInv

LEMMA DepartureKeeps ==
    ASSUME ScanInv, NEW t \in Trips, NEW same \in SUBSET Scans,
           Depart(t, same) \/ DriverStart(t, same)
    PROVE  ScanInv'
<1> DEFINE Late(q) == [q EXCEPT !.early = IF q.trip = t THEN q.id \notin same ELSE @]
<1>0. TypeOK'
  BY LifeTypes DEF ScanInv
<1>1. /\ UNCHANGED <<events, lost, aboard, reopened>>
      /\ queue' = {Late(q) : q \in queue}
      /\ status' = [status EXCEPT ![t] = "departed"]
      /\ seat' = [seat EXCEPT ![t] = [s \in Staff |->
                     IF @[s] = "assigned" THEN "left_behind" ELSE @[s]]]
  BY DEF Depart, DriverStart, Departed, Move
<1>2. \A q \in queue : Late(q).id = q.id /\ Late(q).trip = q.trip /\ Late(q).who = q.who
  BY DEF ScanInv, TypeOK, QueuedScan
<1> HIDE DEF Late
<1>3. \A u \in Trips, s \in Staff :
          seat'[u][s] = IF u = t /\ seat[u][s] = "assigned" THEN "left_behind" ELSE seat[u][s]
  BY <1>1 DEF ScanInv, TypeOK
<1>4. \A u \in Trips : status'[u] = IF u = t THEN "departed" ELSE status[u]
  BY <1>1 DEF ScanInv, TypeOK
<1>5. IdsUnique'
  <2>1. \A q \in OnPhone' : \E r \in OnPhone :
            /\ q.id = r.id
            /\ \/ q = Late(r) /\ r \in queue
               \/ q = r /\ r \in lost
    BY <1>1, <1>2 DEF OnPhone
  <2>2. /\ queue \cap lost = {}
        /\ \A q, r \in OnPhone : q.id = r.id => q = r
    BY DEF ScanInv, IdsUnique
  <2>3. queue' \cap lost' = {}
    BY <1>1, <1>2, <2>2 DEF OnPhone
  <2> QED BY <2>1, <2>2, <2>3 DEF IdsUnique
<1>6. SeatsOfTrips'
  BY <1>3, <1>4 DEF ScanInv, SeatsOfTrips
<1>7. AboardSeated'
  BY <1>1, <1>3 DEF ScanInv, AboardSeated, TypeOK
<1>8. LeftBehindDeparted'
  BY <1>1, <1>3, <1>4 DEF ScanInv, LeftBehindDeparted
<1>9. ScanOwed'
  <2> SUFFICES ASSUME NEW p \in aboard, seat'[p[1]][p[2]] \in {"assigned", "left_behind"},
                      p[1] \notin reopened
               PROVE  \E q \in OnPhone' : q.trip = p[1] /\ q.who = p[2] /\ events[q.id] = "none"
    BY <1>1 DEF ScanOwed
  <2>1. seat[p[1]][p[2]] \in {"assigned", "left_behind"}
    BY <1>3 DEF ScanInv, TypeOK
  <2>2. PICK q \in OnPhone : q.trip = p[1] /\ q.who = p[2] /\ events[q.id] = "none"
    BY <2>1 DEF ScanInv, ScanOwed
  <2>3. CASE q \in queue
    <3>1. Late(q) \in OnPhone'
      BY <1>1, <2>3 DEF OnPhone
    <3> QED BY <1>2, <2>2, <2>3, <3>1
  <2>4. CASE q \in lost
    BY <1>1, <2>2, <2>4 DEF OnPhone
  <2> QED BY <2>3, <2>4 DEF OnPhone
<1> QED BY <1>0, <1>5, <1>6, <1>7, <1>8, <1>9 DEF ScanInv

LEMMA SeatKeeps ==
    ASSUME ScanInv, NEW t \in Trips, NEW s \in Staff,
           \/ \E want \in {"assigned", "waitlisted", "any"} : AddAssignment(t, s, want)
           \/ \E new \in SeatStatus \ {"none", "left_behind"}, approve \in BOOLEAN :
                 UpdateAssignment(t, s, new, approve)
    PROVE  ScanInv'
<1>0. TypeOK'
  BY SeatTypes DEF ScanInv
<1>1. /\ UNCHANGED <<status, events, queue, lost, reopened>>
      /\ aboard' = aboard \ {<<t, s>>}
  BY DEF AddAssignment, UpdateAssignment, trips
<1>2. \A u \in Trips : u # t => seat'[u] = seat[u]
  BY DEF AddAssignment, UpdateAssignment, ScanInv, TypeOK
<1>3. status[t] # "none"
  BY DEF AddAssignment, UpdateAssignment, ScanInv, SeatsOfTrips
<1>4. /\ seat'[t][s] # "left_behind"
      /\ \A x \in Staff : x # s => \/ seat'[t][x] = seat[t][x]
                                   \/ seat[t][x] = "waitlisted" /\ seat'[t][x] = "assigned"
  <2> USE DEF ScanInv, TypeOK
  <2>1. ASSUME NEW want \in {"assigned", "waitlisted", "any"}, AddAssignment(t, s, want)
        PROVE  seat'[t][s] # "left_behind" /\ \A x \in Staff : x # s => seat'[t][x] = seat[t][x]
    <3>1. AddedAs(t, want) # "left_behind"
      BY DEF AddedAs
    <3> QED BY <2>1, <3>1 DEF AddAssignment
  <2>2. ASSUME NEW new \in SeatStatus \ {"none", "left_behind"}, NEW approve \in BOOLEAN,
               UpdateAssignment(t, s, new, approve)
        PROVE  /\ seat'[t][s] # "left_behind"
               /\ \A x \in Staff : x # s => \/ seat'[t][x] = seat[t][x]
                                            \/ seat[t][x] = "waitlisted" /\ seat'[t][x] = "assigned"
    <3> DEFINE row == [seat[t] EXCEPT ![s] = new]
    <3>1. \A after \in Promoted(t, row, approve) :
              \/ after = row
              \/ \E w \in Staff : row[w] = "waitlisted" /\ after = [row EXCEPT ![w] = "assigned"]
      BY DEF Promoted
    <3>2. \E after : /\ seat' = [seat EXCEPT ![t] = after]
                     /\ \/ after = row
                        \/ \E w \in Staff : row[w] = "waitlisted" /\ after = [row EXCEPT ![w] = "assigned"]
      BY <2>2, <3>1 DEF UpdateAssignment
    <3>3. /\ row \in [Staff -> SeatStatus] /\ row[s] = new
          /\ \A x \in Staff : x # s => row[x] = seat[t][x]
      OBVIOUS
    <3> HIDE DEF row
    <3> QED BY <3>2, <3>3
  <2> QED BY <2>1, <2>2
<1>5. \A p \in aboard' : /\ p \in aboard /\ p[1] \in Trips /\ p[2] \in Staff
                          /\ seat'[p[1]][p[2]] = seat[p[1]][p[2]]
  <2> SUFFICES ASSUME NEW p \in aboard' PROVE seat'[p[1]][p[2]] = seat[p[1]][p[2]]
    BY <1>1 DEF ScanInv, TypeOK
  <2>1. /\ p \in aboard /\ p = <<p[1], p[2]>> /\ p # <<t, s>>
        /\ p[1] \in Trips /\ p[2] \in Staff
        /\ seat[p[1]][p[2]] # "waitlisted"
    BY <1>1 DEF ScanInv, TypeOK, AboardSeated
  <2> QED BY <1>2, <1>4, <2>1
<1>6. IdsUnique'
  BY <1>1 DEF ScanInv, IdsUnique, OnPhone
<1>7. SeatsOfTrips'
  BY <1>1, <1>2, <1>3 DEF ScanInv, SeatsOfTrips
<1>8. AboardSeated'
  BY <1>5 DEF ScanInv, AboardSeated
<1>9. LeftBehindDeparted'
  BY <1>1, <1>2, <1>4 DEF ScanInv, LeftBehindDeparted
<1>10. ScanOwed'
  BY <1>1, <1>5 DEF ScanInv, ScanOwed, OnPhone
<1> QED BY <1>0, <1>6, <1>7, <1>8, <1>9, <1>10 DEF ScanInv

\* What the server does with a scan it has not recorded and accepts.
LEMMA ScanEffect ==
    ASSUME ScanInv, NEW q \in QueuedScan, ScanTrip(q), events[q.id] = "none", Accepts(q)
    PROVE  /\ status[q.trip] # "none"
           /\ \A e \in Scans : e # q.id => events'[e] = events[e]
           /\ \A t \in Trips, s \in Staff :
                 \/ seat'[t][s] = seat[t][s]
                 \/ t = q.trip /\ s = q.who /\ seat'[t][s] = "boarded"
           /\ \A s \in Staff :
                 /\ s = q.who
                 /\ \/ seat[q.trip][s] = "assigned"
                    \/ seat[q.trip][s] = "left_behind" /\ status[q.trip] # "boarding"
                 => seat'[q.trip][s] = "boarded"
<1>1. q.trip \in Trips /\ q.who \in Staff \cup {Unknown} /\ q.id \in Scans
  BY DEF QueuedScan
<1>2. /\ events' = [events EXCEPT ![q.id] = ScanResult(q)]
      /\ seat' = IF ScanResult(q) = "boarded"
                 THEN [seat EXCEPT ![q.trip][q.who] = "boarded"] ELSE seat
  BY DEF ScanTrip
<1>3. status[q.trip] # "none"
  BY DEF Accepts
<1>4. ASSUME NEW s \in Staff, s = q.who,
             \/ seat[q.trip][s] = "assigned"
             \/ seat[q.trip][s] = "left_behind" /\ status[q.trip] # "boarding"
      PROVE  ScanResult(q) = "boarded"
  BY <1>4, TripsAssumption DEF ScanResult
<1>5. seat \in [Trips -> [Staff -> SeatStatus]] /\ events \in [Scans -> Results \cup {"none"}]
  BY DEF ScanInv, TypeOK
<1> QED BY <1>1, <1>2, <1>3, <1>4, <1>5

LEMMA BoardKeeps ==
    ASSUME ScanInv, NEW e \in Scans, NEW t \in Trips, NEW w \in Staff \cup {Unknown},
           ScanOnline(e, t, w) \/ ScanQueued(e, t, w) \/ ScanFailed(e, t, w)
    PROVE  ScanInv'
<1> DEFINE x == Scanned(e, t, w)
<1>0. TypeOK'
  BY BoardTypes DEF ScanInv
<1>1. /\ x \in QueuedScan /\ x.id = e /\ x.trip = t /\ x.who = w
  BY DEF Scanned, QueuedScan
<1>2. /\ UNCHANGED <<status, lost, reopened>>
      /\ aboard' = NowAboard(t, w) \/ aboard' = aboard
      /\ events[e] = "none" /\ \A q \in OnPhone : q.id # e
      /\ queue' = queue \/ queue' = queue \cup {x}
  BY DEF ScanOnline, ScanQueued, ScanFailed, Scan, Fresh, trips, OnPhone
<1>3. \/ UNCHANGED <<seat, events>> /\ (status[t] = "boarding" => queue' = queue \cup {x} \/ aboard' = aboard)
      \/ Accepts(x) /\ ScanTrip(x)
  <2>1. CASE Accepts(x)
    BY <2>1 DEF ScanOnline, ScanQueued, ScanFailed
  <2>2. CASE ~Accepts(x)
    <3>1. status[t] # "boarding"
      BY <1>1, <2>2 DEF Accepts
    <3> QED BY <2>2, <3>1 DEF ScanOnline, ScanQueued, ScanFailed, ScanTrip
  <2> QED BY <2>1, <2>2
<1> HIDE DEF x
<1>4. /\ \A i \in Scans : i # e => events'[i] = events[i]
      /\ \A u \in Trips, s \in Staff :
            \/ seat'[u][s] = seat[u][s]
            \/ u = t /\ s = w /\ seat'[u][s] = "boarded" /\ status[u] # "none"
  BY <1>1, <1>2, <1>3, ScanEffect
<1>5. ASSUME w \in Staff, status[t] = "boarding", seat[t][w] = "assigned", aboard' # aboard
      PROVE  \/ seat'[t][w] = "boarded"
             \/ x \in OnPhone' /\ events'[e] = "none" /\ seat'[t][w] = "assigned"
  BY <1>1, <1>2, <1>3, <1>5, ScanEffect DEF OnPhone
<1>6. \A p \in aboard' :
          \/ p \in aboard
          \/ /\ p = <<t, w>> /\ w \in Staff /\ aboard' # aboard
             /\ status[t] = "boarding" /\ seat[t][w] = "assigned"
  BY <1>2 DEF NowAboard
<1>7. IdsUnique'
  BY <1>1, <1>2 DEF ScanInv, IdsUnique, OnPhone
<1>8. SeatsOfTrips'
  BY <1>2, <1>4 DEF ScanInv, SeatsOfTrips
<1>9. AboardSeated'
  <2> SUFFICES ASSUME NEW p \in aboard'
               PROVE  seat'[p[1]][p[2]] \in {"assigned", "boarded", "left_behind"}
    BY DEF AboardSeated
  <2>1. CASE p \in aboard
    BY <1>4, <2>1 DEF ScanInv, AboardSeated, TypeOK
  <2>2. CASE p \notin aboard
    BY <1>5, <1>6, <2>2
  <2> QED BY <2>1, <2>2
<1>10. LeftBehindDeparted'
  BY <1>2, <1>4 DEF ScanInv, LeftBehindDeparted
<1>11. ScanOwed'
  <2> SUFFICES ASSUME NEW p \in aboard', seat'[p[1]][p[2]] \in {"assigned", "left_behind"},
                      p[1] \notin reopened
               PROVE  \E q \in OnPhone' : q.trip = p[1] /\ q.who = p[2] /\ events'[q.id] = "none"
    BY <1>2 DEF ScanOwed
  <2>1. CASE p \in aboard
    <3>1. seat[p[1]][p[2]] \in {"assigned", "left_behind"}
      BY <1>4, <2>1 DEF ScanInv, TypeOK
    <3>2. PICK q \in OnPhone : q.trip = p[1] /\ q.who = p[2] /\ events[q.id] = "none"
      BY <2>1, <3>1 DEF ScanInv, ScanOwed
    <3>3. q \in OnPhone' /\ q.id \in Scans /\ q.id # e
      BY <1>2 DEF OnPhone, ScanInv, TypeOK, QueuedScan
    <3> QED BY <1>4, <3>2, <3>3
  <2>2. CASE p \notin aboard
    BY <1>1, <1>5, <1>6, <2>2
  <2> QED BY <2>1, <2>2
<1> QED BY <1>0, <1>7, <1>8, <1>9, <1>10, <1>11 DEF ScanInv

LEMMA FlushKeeps ==
    ASSUME ScanInv, NEW q \in queue, FlushAnswered(q) \/ FlushAnswerLost(q) \/ FlushRefused(q) \/ MobileDrain(q)
    PROVE  ScanInv'
<1>0. TypeOK'
  BY FlushTypes DEF ScanInv
<1>1. /\ UNCHANGED <<status, aboard, reopened>>
      /\ OnPhone' \subseteq OnPhone
      /\ \A r \in OnPhone : r # q => r \in OnPhone'
  BY DEF FlushAnswered, FlushAnswerLost, FlushRefused, MobileDrain, Forget, trips, OnPhone
<1>2. q \in QueuedScan /\ q \in OnPhone /\ q.id \in Scans
  BY DEF ScanInv, TypeOK, QueuedScan, OnPhone
<1>3. \/ UNCHANGED <<seat, events>> /\ (events[q.id] = "none" => q \in OnPhone')
      \/ events[q.id] = "none" /\ Accepts(q) /\ ScanTrip(q)
  <2>1. CASE FlushRefused(q) \/ MobileDrain(q)
    BY <2>1 DEF FlushRefused, MobileDrain, Forget, OnPhone
  <2>2. CASE FlushAnswered(q)
    BY <2>2 DEF FlushAnswered, ScanTrip
  <2>3. CASE FlushAnswerLost(q)
    BY <2>3 DEF FlushAnswerLost, ScanTrip, OnPhone
  <2> QED BY <2>1, <2>2, <2>3
<1>4. /\ \A i \in Scans : i # q.id => events'[i] = events[i]
      /\ \A u \in Trips, s \in Staff :
            \/ seat'[u][s] = seat[u][s]
            \/ u = q.trip /\ s = q.who /\ seat'[u][s] = "boarded" /\ status[u] # "none"
  BY <1>2, <1>3, ScanEffect
<1>5. IdsUnique'
  <2>1. queue \cap lost = {}
    BY DEF ScanInv, IdsUnique
  <2>2. queue' \cap lost' = {}
    BY <2>1 DEF FlushAnswered, FlushAnswerLost, FlushRefused, MobileDrain, Forget
  <2> QED BY <1>1, <2>2 DEF ScanInv, IdsUnique
<1>6. SeatsOfTrips'
  BY <1>1, <1>4 DEF ScanInv, SeatsOfTrips
<1>7. AboardSeated'
  BY <1>1, <1>4 DEF ScanInv, AboardSeated, TypeOK
<1>8. LeftBehindDeparted'
  BY <1>1, <1>4 DEF ScanInv, LeftBehindDeparted
<1>9. ScanOwed'
  <2> SUFFICES ASSUME NEW p \in aboard, seat'[p[1]][p[2]] \in {"assigned", "left_behind"},
                      p[1] \notin reopened
               PROVE  \E r \in OnPhone' : r.trip = p[1] /\ r.who = p[2] /\ events'[r.id] = "none"
    BY <1>1 DEF ScanOwed
  <2>0. p[1] \in Trips /\ p[2] \in Staff
    BY DEF ScanInv, TypeOK
  <2>1. seat[p[1]][p[2]] = seat'[p[1]][p[2]]
    BY <1>4, <2>0
  <2>2. PICK r \in OnPhone : r.trip = p[1] /\ r.who = p[2] /\ events[r.id] = "none"
    BY <2>1 DEF ScanInv, ScanOwed
  <2>3. CASE r # q
    <3>1. r.id # q.id /\ r.id \in Scans
      BY <1>2, <2>3 DEF ScanInv, IdsUnique, OnPhone, TypeOK, QueuedScan
    <3> QED BY <1>1, <1>4, <2>2, <2>3, <3>1
  <2>4. CASE r = q
    <3>1. CASE UNCHANGED <<seat, events>> /\ q \in OnPhone'
      BY <2>2, <2>4, <3>1
    <3>2. CASE Accepts(q) /\ ScanTrip(q)
      <4>1. seat[p[1]][p[2]] = "left_behind" => status[p[1]] # "boarding"
        BY <2>0 DEF ScanInv, LeftBehindDeparted
      <4>2. seat'[p[1]][p[2]] = "boarded"
        BY <1>2, <2>0, <2>1, <2>2, <2>4, <3>2, <4>1, ScanEffect
      <4> QED BY <4>2
    <3> QED BY <1>3, <2>2, <2>4, <3>1, <3>2
  <2> QED BY <2>3, <2>4
<1> QED BY <1>0, <1>5, <1>6, <1>7, <1>8, <1>9 DEF ScanInv

LEMMA ScanInvInductive == Spec => []ScanInv
<1>1. Init => ScanInv
  BY DEF Init, ScanInv, TypeOK, TripStatus, SeatStatus, IdsUnique, OnPhone, SeatsOfTrips,
         AboardSeated, LeftBehindDeparted, ScanOwed
<1>2. ScanInv /\ [Next]_vars => ScanInv'
  <2> SUFFICES ASSUME ScanInv, [Next]_vars PROVE ScanInv'
    OBVIOUS
  <2>1. CASE UNCHANGED vars
    BY <2>1 DEF vars, ScanInv, TypeOK, IdsUnique, OnPhone, SeatsOfTrips,
                AboardSeated, LeftBehindDeparted, ScanOwed
  <2> QED BY <2>1, PlanKeeps, LifeKeeps, DepartureKeeps, SeatKeeps, BoardKeeps, FlushKeeps DEF Next
<1> QED BY <1>1, <1>2, PTL DEF Spec

\* Nobody scanned aboard ends as a no-show of the departure with nothing left on
\* the phone to correct it, however late and in whatever order scans arrive.
THEOREM NobodyScannedIsLeftBehind == Spec => []ScannedIsNotLeftBehind
<1>1. ScanInv => ScannedIsNotLeftBehind
  BY DEF ScanInv, ScanOwed, OnPhone, ScannedIsNotLeftBehind
<1> QED BY <1>1, ScanInvInductive, PTL

=============================================================================
