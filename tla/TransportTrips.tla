--------------------------- MODULE TransportTrips ---------------------------
(***************************************************************************)
(* A day of shuttle trips: planning and life cycle of a trip, its seats    *)
(* and waiting list, and the boarding scans of a steward's phone, which    *)
(* queues a scan that got no answer and sends it again later.              *)
(*                                                                         *)
(* Every handler runs to its end in one turn of the server.  What          *)
(* interleaves are the handlers of several users and the phone's queue: a  *)
(* scan taken while the bus was boarding may reach the server after the    *)
(* departure, which has turned every empty seat into a no-show.            *)
(*                                                                         *)
(* The clock is left out.  A scan carries whether its device time is not   *)
(* after the departure of its trip; departure times are fixed, and Near    *)
(* says which trips are less than three hours apart.  Waiting rows are     *)
(* kept without their order.                                               *)
(***************************************************************************)
EXTENDS Naturals, FiniteSets

CONSTANTS
    Trips,      \* rows of transport_trips
    PlanTrips,  \* those a template may produce for one day and direction
    Near,       \* pairs of trips less than 180 minutes apart
    Staff,      \* holders of a QR card
    Unknown,    \* a QR code no active member of staff has
    Buses,      \* a vehicle with its driver
    NoBus,      \* a trip without them
    Seats,      \* possible capacities
    Scans       \* client_event_id of a scan

ASSUME TripsAssumption ==
    /\ PlanTrips \subseteq Trips
    /\ Near \subseteq Trips \X Trips
    /\ IsFiniteSet(Staff) /\ Unknown \notin Staff
    /\ NoBus \notin Buses
    /\ Seats \subseteq Nat \ {0}

VARIABLES
    status,    \* of a trip; "none" before it is created
    bus,       \* vehicle_id and driver_id of a trip
    capacity,  \* capacity_snapshot
    seat,      \* transport_trip_assignments, by trip and person
    events,    \* transport_scan_events: the result recorded for a scan
    queue,     \* scans queued on the phone
    lost,      \* queued scans the phone no longer sends: dropped, or marked synced unsent
    aboard,    \* history: who was scanned on a seat while the bus boarded
    reopened,  \* history: trips that were reopened
    unchecked  \* history: trips that hold their bus by a step that looked at no other trip

trips == <<status, bus, capacity>>
vars  == <<status, bus, capacity, seat, events, queue, lost, aboard, reopened, unchecked>>

TripStatus == {"none", "draft", "published", "boarding", "departed", "completed", "cancelled"}

\* "left_behind" is a no_show whose reason is NO_SHOW_AT_DEPARTURE.
SeatStatus == {"none", "assigned", "waitlisted", "boarded", "no_show", "left_behind", "cancelled"}
Results    == {"boarded", "already_boarded", "not_assigned", "invalid_qr", "rejected"}
QueuedScan == [id : Scans, trip : Trips, who : Staff \cup {Unknown}, early : BOOLEAN]

TypeOK ==
    /\ status \in [Trips -> TripStatus]
    /\ bus \in [Trips -> Buses \cup {NoBus}]
    /\ capacity \in [Trips -> Seats \cup {0}]
    /\ seat \in [Trips -> [Staff -> SeatStatus]]
    /\ events \in [Scans -> Results \cup {"none"}]
    /\ queue \subseteq QueuedScan
    /\ lost \subseteq QueuedScan
    /\ aboard \subseteq Trips \X Staff
    /\ reopened \subseteq Trips /\ unchecked \subseteq Trips

Init ==
    /\ status = [t \in Trips |-> "none"]
    /\ bus = [t \in Trips |-> NoBus]
    /\ capacity = [t \in Trips |-> 0]
    /\ seat = [t \in Trips |-> [s \in Staff |-> "none"]]
    /\ events = [e \in Scans |-> "none"]
    /\ queue = {} /\ lost = {}
    /\ aboard = {} /\ reopened = {} /\ unchecked = {}

-----------------------------------------------------------------------------
(* What the handlers read. *)

Live(t)          == status[t] \notin {"none", "cancelled"}
SeatedAs(t, ks)  == {s \in Staff : seat[t][s] \in ks}
Taken(t)         == SeatedAs(t, {"assigned", "boarded", "no_show", "left_behind"})
AreNear(t, u)    == t # u /\ (<<t, u>> \in Near \/ <<u, t>> \in Near)

BusFree(t, b)    == \A u \in Trips : b # NoBus /\ AreNear(t, u) /\ Live(u) => bus[u] # b
PersonFree(t, s) == \A u \in Trips :
    AreNear(t, u) /\ Live(u) => seat[u][s] \in {"none", "cancelled", "waitlisted"}

-----------------------------------------------------------------------------
(* Planning and life cycle. *)

CreateTrip(t, b, c) ==
    /\ t \notin PlanTrips /\ status[t] = "none"
    /\ BusFree(t, b)
    /\ status' = [status EXCEPT ![t] = "draft"]
    /\ bus' = [bus EXCEPT ![t] = b]
    /\ capacity' = [capacity EXCEPT ![t] = c]
    /\ UNCHANGED <<seat, events, queue, lost, aboard, reopened, unchecked>>

\* The plan fills the bus in turn and puts who is left on the waiting list.  It
\* compares its trips with each other, not with those already in the table.
PublishPlan(t, b, c, main, wait) ==
    /\ t \in PlanTrips /\ status[t] = "none" /\ b # NoBus
    /\ \A u \in PlanTrips : ~Live(u)
    /\ main \cap wait = {} /\ Cardinality(main) <= c
    /\ wait # {} => Cardinality(main) = c
    /\ status' = [status EXCEPT ![t] = "published"]
    /\ bus' = [bus EXCEPT ![t] = b]
    /\ capacity' = [capacity EXCEPT ![t] = c]
    /\ seat' = [seat EXCEPT ![t] = [s \in Staff |->
           IF s \in main THEN "assigned" ELSE IF s \in wait THEN "waitlisted" ELSE @[s]]]
    /\ unchecked' = unchecked \cup {t}
    /\ UNCHANGED <<events, queue, lost, aboard, reopened>>

\* Mutant of UpdateTrip: the vehicle is changed without assertResourceConflicts.
UpdateTripMutant(t, b, c) ==
    /\ status[t] \notin {"none", "completed", "cancelled"}
    /\ bus' = [bus EXCEPT ![t] = b]
    /\ capacity' = [capacity EXCEPT ![t] = c]
    /\ unchecked' = unchecked \ {t}
    /\ UNCHANGED <<status, seat, events, queue, lost, aboard, reopened>>

UpdateTrip(t, b, c) ==
    /\ status[t] \notin {"none", "completed", "cancelled"}
    /\ BusFree(t, b)
    /\ bus' = [bus EXCEPT ![t] = b]
    /\ capacity' = [capacity EXCEPT ![t] = c]
    /\ unchecked' = unchecked \ {t}
    /\ UNCHANGED <<status, seat, events, queue, lost, aboard, reopened>>

Move(t, from, to) ==
    /\ status[t] \in from
    /\ status' = [status EXCEPT ![t] = to]
    /\ UNCHANGED <<bus, capacity, events, lost, aboard>>

Publish(t) ==
    /\ Move(t, {"draft"}, "published")
    /\ bus[t] # NoBus
    /\ Cardinality(Taken(t)) <= capacity[t]
    /\ BusFree(t, bus[t])
    /\ unchecked' = unchecked \ {t}
    /\ UNCHANGED <<seat, queue, reopened>>

StartBoarding(t) ==
    Move(t, {"published"}, "boarding") /\ UNCHANGED <<seat, queue, reopened, unchecked>>

\* departed_at is the whole second: a scan of that very second is later than it.
Departed(t, sameSecond) ==
    /\ seat' = [seat EXCEPT ![t] = [s \in Staff |->
           IF @[s] = "assigned" THEN "left_behind" ELSE @[s]]]
    /\ queue' = {[q EXCEPT !.early = IF q.trip = t THEN q.id \notin sameSecond ELSE @] : q \in queue}
    /\ UNCHANGED <<reopened, unchecked>>

Depart(t, sameSecond) == Move(t, {"boarding"}, "departed") /\ Departed(t, sameSecond)

\* The driver's link may start a trip whose boarding was never opened.
DriverStart(t, sameSecond) ==
    Move(t, {"published", "boarding"}, "departed") /\ Departed(t, sameSecond)

Complete(t) ==
    Move(t, {"departed"}, "completed") /\ UNCHANGED <<seat, queue, reopened, unchecked>>

Cancel(t) ==
    /\ Move(t, {"draft", "published", "boarding", "departed"}, "cancelled")
    /\ UNCHANGED <<seat, queue, reopened, unchecked>>

\* The index of one live trip per template, day and direction may refuse it; the
\* bus, which others were free to take while the trip was cancelled, is not looked at.
Reopen(t) ==
    /\ Move(t, {"completed", "cancelled"}, "published")
    /\ t \in PlanTrips => \A u \in PlanTrips \ {t} : ~Live(u)
    /\ reopened' = reopened \cup {t}
    /\ unchecked' = IF status[t] = "cancelled" THEN unchecked \cup {t} ELSE unchecked
    /\ UNCHANGED <<seat, queue>>

-----------------------------------------------------------------------------
(* Seats. *)

\* The status an added person gets; "none" when the request is refused.
AddedAs(t, want) ==
    LET full == Cardinality(Taken(t)) >= capacity[t]
    IN CASE want = "waitlisted"       -> "waitlisted"
         [] want = "assigned" /\ full -> "none"
         [] want = "any" /\ full      -> "waitlisted"
         [] OTHER                     -> "assigned"

AddAssignment(t, s, want) ==
    /\ status[t] \in {"draft", "published", "boarding"}
    /\ PersonFree(t, s)
    /\ AddedAs(t, want) # "none"
    /\ seat' = [seat EXCEPT ![t][s] = AddedAs(t, want)]
    /\ aboard' = aboard \ {<<t, s>>}
    /\ UNCHANGED <<trips, events, queue, lost, reopened, unchecked>>

\* What the seats of a trip may become when a place has been freed on it.
Promoted(t, row, approve) ==
    LET riding  == {s \in Staff : row[s] \in {"assigned", "boarded"}}
        waiting == {s \in Staff : row[s] = "waitlisted"}
    IN IF \/ Cardinality(riding) >= capacity[t]
          \/ waiting = {}
          \/ status[t] \in {"departed", "completed"} /\ ~approve
       THEN {row}
       ELSE {[row EXCEPT ![w] = "assigned"] : w \in waiting}

MayTake(t, s) ==
    /\ Cardinality(Taken(t) \ {s}) < capacity[t]
    /\ PersonFree(t, s)

UpdateAssignment(t, s, new, approve) ==
    /\ seat[t][s] # "none" /\ status[t] # "completed"
    /\ new = "assigned" /\ seat[t][s] # "assigned" => MayTake(t, s)
    /\ LET row == [seat[t] EXCEPT ![s] = new]
       IN \E after \in IF new \in {"cancelled", "no_show"} THEN Promoted(t, row, approve) ELSE {row} :
              seat' = [seat EXCEPT ![t] = after]
    /\ aboard' = aboard \ {<<t, s>>}
    /\ UNCHANGED <<trips, events, queue, lost, reopened, unchecked>>

-----------------------------------------------------------------------------
(* Boarding scans. *)

\* A scan is taken while boarding is open, or was taken before the departure.
Accepts(q) ==
    \/ status[q.trip] = "boarding"
    \/ status[q.trip] \in {"departed", "completed"} /\ q.early

\* Mutant of ScanResult: a no-show of the departure is not corrected.
ScanResultMutant(q) ==
    IF q.who = Unknown THEN "invalid_qr"
    ELSE LET now == seat[q.trip][q.who] IN
         CASE now \in {"none", "cancelled"} -> "not_assigned"
           [] now = "boarded"               -> "already_boarded"
           [] now = "assigned"              -> "boarded"
           [] OTHER                         -> "rejected"

ScanResult(q) ==
    IF q.who = Unknown THEN "invalid_qr"
    ELSE LET now == seat[q.trip][q.who] IN
         CASE now \in {"none", "cancelled"} -> "not_assigned"
           [] now = "boarded"               -> "already_boarded"
           [] now = "assigned"              -> "boarded"
           [] now = "left_behind" /\ status[q.trip] # "boarding" -> "boarded"
           [] OTHER                         -> "rejected"

\* A scan the server has recorded is answered from the record.
ScanTrip(q) ==
    IF events[q.id] # "none" \/ ~Accepts(q) THEN UNCHANGED <<seat, events>>
    ELSE /\ events' = [events EXCEPT ![q.id] = ScanResult(q)]
         /\ seat' = IF ScanResult(q) = "boarded"
                    THEN [seat EXCEPT ![q.trip][q.who] = "boarded"] ELSE seat

Fresh(e) == events[e] = "none" /\ \A q \in queue \cup lost : q.id # e

Scanned(e, t, w) == [id |-> e, trip |-> t, who |-> w, early |-> FALSE]

NowAboard(t, w) ==
    IF w # Unknown /\ status[t] = "boarding" /\ seat[t][w] = "assigned"
    THEN aboard \cup {<<t, w>>} ELSE aboard

\* The steward's screen may be old, so the trip may have moved on meanwhile.
Scan(e, t, w) ==
    /\ Fresh(e)
    /\ status[t] \in {"boarding", "departed", "completed", "cancelled"}
    /\ UNCHANGED <<trips, lost, reopened, unchecked>>

ScanOnline(e, t, w) ==
    /\ Scan(e, t, w) /\ Accepts(Scanned(e, t, w))
    /\ ScanTrip(Scanned(e, t, w))
    /\ aboard' = NowAboard(t, w)
    /\ UNCHANGED queue

\* An answer with an error status is shown and nothing is queued.  The error may
\* come after the scan was stored.
ScanFailed(e, t, w) ==
    /\ Scan(e, t, w)
    /\ \/ UNCHANGED <<seat, events>>
       \/ ScanTrip(Scanned(e, t, w))
    /\ UNCHANGED <<queue, aboard>>

\* Offline, or the request or its answer is lost: the same scan is queued.
ScanQueued(e, t, w) ==
    /\ Scan(e, t, w)
    /\ \/ UNCHANGED <<seat, events>>
       \/ ScanTrip(Scanned(e, t, w))
    /\ aboard' = NowAboard(t, w)
    /\ queue' = queue \cup {Scanned(e, t, w)}

\* 2xx takes the scan off the queue; 409 leaves it there.
FlushAnswered(q) ==
    /\ q \in queue
    /\ events[q.id] # "none" \/ Accepts(q)
    /\ ScanTrip(q)
    /\ queue' = queue \ {q}
    /\ UNCHANGED <<trips, lost, aboard, reopened, unchecked>>

FlushAnswerLost(q) ==
    /\ q \in queue
    /\ ScanTrip(q)
    /\ UNCHANGED <<trips, queue, lost, aboard, reopened, unchecked>>

Forget(q) ==
    /\ q \in queue
    /\ queue' = queue \ {q}
    /\ lost' = lost \cup {q}
    /\ UNCHANGED <<trips, seat, events, aboard, reopened, unchecked>>

\* Any other 4xx, such as 401 after the session ended, drops the scan.
FlushRefused(q) == Forget(q)

\* The mobile layout of the same browser drains the same queue.  It has no branch
\* for this type of row, sends nothing, and marks the row synced, which hides it
\* from the flush.
MobileDrain(q) == Forget(q)

-----------------------------------------------------------------------------
Next ==
    \/ \E t \in Trips, b \in Buses \cup {NoBus}, c \in Seats :
          \/ CreateTrip(t, b, c)
          \/ UpdateTrip(t, b, c)
          \/ \E main, wait \in SUBSET Staff : PublishPlan(t, b, c, main, wait)
    \/ \E t \in Trips :
          \/ Publish(t)
          \/ StartBoarding(t)
          \/ \E same \in SUBSET Scans : Depart(t, same) \/ DriverStart(t, same)
          \/ Complete(t)
          \/ Cancel(t)
          \/ Reopen(t)
    \/ \E t \in Trips, s \in Staff :
          \/ \E want \in {"assigned", "waitlisted", "any"} : AddAssignment(t, s, want)
          \/ \E new \in SeatStatus \ {"none", "left_behind"}, approve \in BOOLEAN :
                UpdateAssignment(t, s, new, approve)
    \/ \E e \in Scans, t \in Trips, w \in Staff \cup {Unknown} :
          ScanOnline(e, t, w) \/ ScanQueued(e, t, w) \/ ScanFailed(e, t, w)
    \/ \E q \in queue :
          FlushAnswered(q) \/ FlushAnswerLost(q) \/ FlushRefused(q) \/ MobileDrain(q)

Spec == Init /\ [][Next]_vars

-----------------------------------------------------------------------------
\* Somebody who was scanned on a seat while the bus boarded, the phone keeping
\* the scan or the server taking it, is not left as a no-show of the departure:
\* the scan either seats the person or is still on the phone.  Not so when the
\* phone was told to drop the scan or its mobile layout marked it synced unsent,
\* or when the trip was reopened, for then a late scan is rejected.
ScannedIsNotLeftBehind ==
    \A p \in aboard :
        seat[p[1]][p[2]] = "left_behind" /\ p[1] \notin reopened =>
            \E q \in queue \cup lost : q.trip = p[1] /\ q.who = p[2]

\* One bus stands on two live trips less than three hours apart only while one of
\* them has it from a plan or from its reopening after a cancellation.  Once an
\* update or a publication has looked, no later step of anybody gives its bus away.
BusSharedOnlyUnchecked ==
    \A t, u \in Trips :
        AreNear(t, u) /\ Live(t) /\ Live(u) /\ bus[t] = bus[u] /\ bus[t] # NoBus =>
            {t, u} \cap unchecked # {}

\* The phone says a scan without an answer is safe in its queue: it stays there
\* until the server has recorded it.
QueuedScanIsKept == \A q \in lost : events[q.id] # "none"
=============================================================================
