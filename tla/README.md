# inXcee in TLA+

inXcee runs a dormitory campus: beds and residents, laundry, water, meals,
maintenance, transport and the people who do the work. It is one Node process
(Express, better-sqlite3, a job worker and cron in the same process), one SQLite
file, and a React front end whose kiosk and field pages keep working without a
network and send what they queued later.

This directory holds the TLA+ specifications of the parts whose correctness
depends on order, failure or history, the TLC configurations that check them on
small instances, and proofs that TLAPS checks for every instance.

Contents: [1 The system](#1-the-system) · [2 Modules](#2-modules) ·
[3 Runs](#3-runs) · [4 Proofs](#4-proofs) ·
[5 Disagreements](#5-where-the-code-and-its-documents-disagree) ·
[6 What is not modelled](#6-what-is-not-modelled) · [7 Plan](#7-plan)

Paths without a prefix are relative to `src/backend/src/`.

## 1 The system

### 1.1 What runs, and what can interleave

| actor | where | its atomic steps |
|---|---|---|
| HTTP handlers | `modules/*/routes.js` | better-sqlite3 is synchronous: a handler that does not `await` runs from its first read to its last write with nothing between. A handler that awaits (mail, PDF, upload) has one step per stretch between awaits. |
| job worker | `shared/jobs/index.js` | `setInterval` starts a loop; the loop claims a row, awaits its handler, writes the outcome, and goes on while rows are due. |
| cron | `shared/cron/index.js` | each job calls a service; a set of names keeps a job from overlapping itself. |
| browser pages | `src/frontend/src` | one step per stretch between awaits of IndexedDB, encryption and `fetch`; several pages of one origin share one IndexedDB. |
| the process | `server.js`, `ecosystem.config.cjs` | SIGTERM, at most ten seconds to end, PM2 starts it again. There is one instance. |

So the interesting interleavings are not inside a synchronous handler. They are
(a) long sequences of legal calls through many doors into the same rows (rooms,
water ledger, timesheet, trips, laundry bags), (b) the worker awaiting a handler while requests
go on (job queue, truck mail), (c) several pages and loops on one offline queue,
with a network that loses and delays (laundry entries, boarding scans, station
scans), and (d) the end of the process between two steps, or between two
statements of a handler that opens no transaction (station scans).

### 1.2 Components

| component | state | operations | with whom | what is hard | what makes it correct |
|---|---|---|---|---|---|
| **Room occupancy** (`modules/checkin`, `checkout`, `capacity`, `bulk-actions`) | `personnel.check_out_date`, `room_assignments`, `rooms.status`, `rooms.active_beds`, `shifts`, `zimmet` | register, assign, placeholder batch, check out (four ways), reassign, swap, bulk assign / transfer / remove, close a room, change beds | laundry cards, import, laundry, stations read the active assignment | seven handlers place people and each repeats its own guards; bed numbers must be free after any history | nobody shares a bed, no room overfilled, quarantine is empty, departure ends the stay and settles the items |
| Personnel import | `personnel_import_batches` | import with planned rooms, undo | room occupancy | undo after the people were moved | no row outlives its person |
| Laundry cards | `cards` of type laundry | issue, bulk issue, enrol, revoke, lose | check-out revokes | | a card's holder exists |
| **Job queue** (`shared/jobs`) | `job_queue`, the worker's loop | enqueue, claim, done, retry, give up, requeue by hand, prune, start and stop | push, mail, WhatsApp, truck mail | an await between claim and outcome; process end; back-off | a job is neither lost, nor run twice at once, nor given up early |
| **Truck mail** (`modules/water/trucks.js`, `jobs.js`) | `water_truck_arrivals`, the queued snapshot, the SMTP server | create, edit, queue, mark, delete, the handler | job queue, `modules/email` | record and snapshot diverge; the mail is accepted and its answer lost | one mail for a truck, stored id and text belong together, the lock ends |
| **Offline queue** (`shared/utils/offlineDB.js`, kiosk and mobile loops) | IndexedDB rows, the pages and their loops | submit, enqueue, flush, drain, close a page | laundry intake, maintenance requests | several loops share the rows without looking at each other; requests and answers get lost | an entry is stored once; "synced" means stored; what is queued gets out |
| Laundry intake | `laundry_bags.client_request_id` | `POST /self-service/laundry-kiosk/bag` | offline queue | repeats | idempotent |
| **Water ledger** (`modules/water/movements.js`, `queries.js`, `lots.js`, `reconciliation.js`) | movements, lots, allocations, FIFO start, returns, month locks | deliver, distribute, edit, delete, clear, correct a lot, approve, set the start, return empties, close and unlock | stock counts, reports | every path releases, matches and flags in its own order; history may be edited | nothing given out twice, no water idle beside a shortage, no shortage lost, closed months frozen |
| **Transport** (`modules/transport/operations-*`, steward's `transportScanQueue.js`) | `transport_trips`, `transport_trip_assignments`, `transport_scan_events`, the phone's queue | plan, publish, board, depart, complete, cancel, reopen, add and change seats, promote, scan, flush | staff cards, shift plan | departure turns empty seats into no-shows while scans taken before it are still on a phone; each door repeats the conflict check or forgets it | who was scanned aboard is not a no-show; one bus on one trip at a time |
| **Stations and meals** (`modules/stations`, `modules/meals`, `StationPage.jsx`, `scanQueue.js`) | `access_events`, `meal_logs`, `cards`, the page's queue | scan, queue, flush, stop a card, write or delete a meal | cards, shift plan | several statements without a transaction; two passes over one queue; a scan without a key whose answer is lost | one admission for a meal, a meal for each admission, one exit for a visitor card |
| **Timesheet** (`modules/shifts`) | `shift_schedule`, `leave_requests`, `leave_balance`, day and month approvals, locks, import batches | assign, detail, copy, rotate, reconcile, open shifts, leave, import and undo, approve, lock | payroll, meals, transport read it | a dozen writers of one cell, each with its own list of guards, most resetting the approval in a second transaction; undo of an import after everything moved on | no leave counted twice, an approved day stays settled, a locked month stays |
| Kiosk receipts, idempotent writes | `kiosk_action_receipts`, idempotency keys | begin, complete, expire | every kiosk write | crash between effect and receipt | an action with a key happens once |
| **Laundry bags** (`modules/laundry`, `self-service/routes.js`, `location-portal/laundry-request-action.js`) | `laundry_items`, `premium_garments`, `premium_garment_deliveries`, delivery batches, `laundry_pickup_requests` | intake, wash, iron, mark ready, deliver in five ways, approve, lose and find, revert, delete; a room's pickup request | offline queue, field ledger, notifications | four screens write the same rows with guards of their own; a bag's status follows from some changes of its garments and not from others; the message leaves after the status is stored, or inside a transaction that may be withdrawn | told once per stay on the shelf, signed for once, requests name bags that are there |
| Laundry machines and supplies | machines, timers, detergent | start, finish, refill | laundry bags | | a machine runs one load |
| Inventory | stock, lots, orders, requests | move, count, receive, approve | maintenance, field workers | quantity beside its movements | quantity equals the sum |
| Maintenance, housekeeping | requests, tasks | assign, complete, escalate, generate | notifications, offline queue | generation and escalation repeated | once per level, once per day |
| Authentication | refresh tokens, blacklist, lock-out | log in, refresh, log out | all | rotation and reuse | a revoked token stays revoked |
| Notifications | rows, read marks | create, group, read | all | deduplication | one row for a key |

`PROJECT.json` lists all 71 components, those that are records, screens or pure
calculations included, each with the reason when it is not modelled, and the
hazards of the code at their lines, each with the properties aimed at it.

## 2 Modules

```
BedRegistry <- INSTANCE ... WITH - RoomOccupancy <- RoomOccupancy_proofs
 (abstract)
JobQueue
  ^ EXTENDS
TruckMail       <- TruckMail_proofs    also JobQueue's own theorems
OfflineSync     <- OfflineSync_proofs
TransportTrips  <- TransportTrips_proofs
StationScan     <- StationScan_proofs
ShiftPeriods    <- ShiftPeriods_proofs
LaundryBags     <- LaundryBags_proofs
WaterLedger     <- WaterLedger_proofs
```

Each of them except BedRegistry has an `MC...` module with the values its
configurations give to the constants.

In every module an action has the name of the function it models, its guard is
the function's conditions and early returns, and a handler is one action with
all the writes it makes. `...Mutant` definitions beside an operator are the
plausible mistakes the properties were tried against; nothing uses them.
A variable marked "history" is read by properties only, never by an action's guard.

### RoomOccupancy and BedRegistry

| variable | rows |
|---|---|
| `presence` | a `personnel` row: not inserted, `check_out_date` NULL, set, deleted |
| `seat` | the person's `room_assignments` row with `active = 1`: room and bed number |
| `shift` | `shifts.shift_type`, `"day"` without a row |
| `status`, `activeBeds` | `rooms.status`, `rooms.active_beds` |
| `zimmet` | owner of an item, open or returned normal / lost |
| `cards` | people whose laundry card is active |
| `forced` | people with an audit row `forced_checkout_with_zimmet` |
| `imports` | import batches that can still be undone |

Twenty-five actions in seven groups: check-in, zimmet, check-out, rooms, moves,
imports and cards. Bed numbers come from `nextFreeBedNo` (the smallest number not
taken), which a batch calls once per person; `Placements` is the set of results
of doing so in any order. The trigger `block_quarantine_assignment` is
`TriggerAllows`. What is abstracted: names and dates; conditions of a returned
item are `normal` or `lost`; the loop of a bulk transfer is one action per
person, because each iteration is guarded by the state the ones before it left
and a failing one is counted and skipped.

`BedRegistry` is what all those handlers together promise: `holders` says who
holds each bed and `closed` which rooms nobody may live in. People `Leave`,
everybody of a group may `Take` a bed nobody outside it holds, two beds may
`Exchange` holders; a bed has no other way of changing hands, and a room closes
only when it is empty. RoomOccupancy maps `holders` to the people whose seat is
that bed and `closed` to the rooms in quarantine, and `KeepsRegistry` (the
registry's `Spec` under that mapping) is a property of it, checked by TLC and
proved. A handler that let somebody in over another person, or closed a room
over its occupants, would be a step the registry does not have.

Assumed of the environment: one process, as `ecosystem.config.cjs` says.

### JobQueue

`job` (rows of `job_queue`), `ready` (the due rows in the order of
`run_after, id`), `server` (up, stopping, down), `loop` (`workerRunning`), `running` and `held` (the row the worker awaits and
the attempt count it read before), `restarts`. Delays are a choice: `BecomesDue`
moves a pending row to the end of `ready` at any time. Error kinds are the kinds
the handlers tell apart; `PermanentKinds` is what they call permanent, taken from
the code that decides it (by words of the message for mails), not from its
comments. `Sigterm` stops the timer and not the loop, `ProcessEnds` loses
`running` and `loop`, `Boot` starts an idle worker and touches no row: that is
what the code does.

### TruckMail

Extends JobQueue with the record (`truck`), the payload of each job (`payload`:
the truck, the text and the version at the time it was queued), the mails the
SMTP server accepted (`mailbox`), what the handler in flight knows (`seen`), and
which jobs an administrator requeued (`requeued`, a history variable). The
handler is five kinds of steps: reading the record in the same step as the claim
(there is no await between), failing before the server accepts, acceptance, the
answer with the conditional write `WHERE mail_version = ?`, and the outcome; the
answer may be lost and the process may end between any two.

Each action is an action of JobQueue with what the mail adds to it, or leaves the
queue alone: the composition is by conjunction, so that nothing about the queue has
to be stated again.

### OfflineSync

`row` is the IndexedDB row of an item (laundry entry or fault report), `created`
its `created_order` (the place among the rows stands for the time), `form` how far the item's form got and what it told the
user, `flush` what each loop has read and what it awaits, `stored` the rows the
server made for the item, `stray` the requests nobody waits for that may still
arrive, `closes` how often a page was closed. A loop reads the whole list
at its start and works through that copy, the oldest first, writing back rows without comparing,
as `updateQueueItem` does. A request is delivered, or lost, or its answer is
lost, or it arrives after the client gave up (`StrayArrives`). The kiosk loop
sends laundry entries, the mobile loop reads every type: rows it cannot send
fall through `replayItem`. The server side is the intake handler with its lookup
of `client_request_id` and its answers by class. Left out: encryption, photos.

### WaterLedger

`ledger` (lots, distributions, the allocation matrix, the FIFO start), `returns`,
`locked` (closed months). Dates are numbers, 0 is "no start", the day after the
last is "no expiry". Matching is a fold (`ServeAll`) over the open distributions in the
order of the query, each a fold (`Serve`) over the open lots in FEFO order (earliest expiry,
then delivery), as `buildAllocationPlans` does; `Reconciled` is the write of
missing amounts on top of what is allocated. The folds are over sets: each picks the
last element of the order (`LastLot`, `LastTurn`) and does it after all the others. Tables
are functions on their ids; an id that is free at the end is used again, since only the
order of the ids that are there matters. `LotReleased`, `Flagged`,
`ClearResolved`, `CrossingReleased` are the statements the services are built
from, and each service is one action that calls them in its own order. Only a
distribution is two transactions: `HandedOut` stores the rows with their allocations,
and what is missing goes to review afterwards (`Distribute`), unless the process ends
or the database fails in between (`DistributeCut`). With an idempotency key one
transaction encloses both; the model has the path without. Which
products are tracked and returnable is a parameter of the model.

### TransportTrips

| variable | state |
|---|---|
| `status`, `bus`, `capacity` | `transport_trips`: status, vehicle with its driver, `capacity_snapshot` |
| `seat` | `transport_trip_assignments` by trip and person; `left_behind` is a no-show with the reason of the departure |
| `events` | `transport_scan_events`: the result recorded under a `client_event_id` |
| `queue` | the scans the phone keeps and sends again |
| `aboard`, `reopened` | history: who was scanned on a seat while the bus boarded, which trips were reopened |
| `lost`, `unchecked` | history: scans the phone does not send any more, trips that hold their bus by a step that looked at no other trip |

Planning (`CreateTrip`, `PublishPlan`, `UpdateTrip`), the life cycle (`Publish`,
`StartBoarding`, `Depart`, `DriverStart` through the driver's link, `Complete`,
`Cancel`, `Reopen`), seats (`AddAssignment`, `UpdateAssignment` with the promotion
of the waiting list), and scans: answered at once, answered
with an error and neither queued nor seated (`ScanFailed`), queued because the request or
its answer was lost, sent again, dropped at a refusal (`FlushRefused`), or marked synced
unsent by the mobile layout (`MobileDrain`). The clock is gone: a scan carries whether
the time the phone gave it lies before the departure (`early`), which the departure
decides for the scans in the queue, and `Near` is the three-hour window of the
conflict checks. A vehicle stands for itself with its driver. `PublishPlan`
compares its trips with each other only, `Reopen` compares nothing but the unique
index: both are modelled as they are and named in the property.

### StationScan

| variable | state |
|---|---|
| `active` | cards that are neither lost, revoked nor replaced |
| `admitted`, `denied` | `access_events` with result `ok`, and queued scans with another result |
| `meals` | `meal_logs` |
| `scan`, `todo`, `sent` | the row of a reading in the page's queue; by pass, the copy it works through and the request it awaits |
| `ends`, `edits` | bounds |
| `struck`, `unrevoked` | history: meals a manager deleted, visitor cards whose exit was cut short |

`Serve` is the handler run to its end: answer from the log when the key is known,
otherwise decide the day (a queued scan keeps its own day for 48 hours), admit,
write the meal, write the event, end a visitor's card. `CutShort` is the same
handler when the process ends between two of those statements, none of which are
in a transaction. `ScanAnswered` and `ScanQueued` are a reading with and without
an answer; the first request has no key, the ones from the queue have. A pass
(`StartPass`, `Send`, `Answered`) copies the queue and writes its rows back
without comparing; two passes may run at once. Time is counted in days.

### ShiftPeriods

| variable | state |
|---|---|
| `cell` | `shift_schedule` of a person and day: status, and whether it holds a shift definition |
| `leave`, `used` | `leave_requests.status`, `leave_balance.annual_used` |
| `locked` | `period_locks` |
| `day`, `period` | `puantaj_daily_approvals` and `puantaj_period_approvals` of the scope `all` |
| `opening` | whether an open shift of the day waits for somebody (`open_shifts`) |
| `batch` | `schedule_import_batches`: the last import, with the cells before it and the leave it made |

Every service runs in one synchronous call: an action is one request, with the
checks it makes (`Unlocked`, `OnApprovedLeave`, `Overlaps`) and the reset of
approvals it ends with. Imports, undo and reconciliation reset in the transaction of the
write (`Reset`); all others commit the write and reset in a second transaction
(`ResetAfter`), and the request may end between them: then the day keeps its approval
and is `"doubtful"`, as is a day approved by force and one on which an open shift was
filled, which resets nothing. `CreateSegment` ends there by itself
when the segment it planned the cell for is refused afterwards. What differs between the writers is which of
those they ask for, and that is kept: a rotation or a copied week does not ask for
leave, a chosen applicant asks for neither lock nor approvals, a rejection asks
for no lock. Hours, places and departments are left out, and swaps and overtime
requests are `ChangeElsewhere`: they touch only what is left out and the approval.

### LaundryBags

| variable | state |
|---|---|
| `bag`, `garment` | `laundry_items.status`, `premium_garments.status`; `none` is no row |
| `irons` | bags with `needs_ironing`, garments with `requires_ironing` |
| `noticed` | bags with `ready_notified_at` |
| `field` | bags the field ledger took in and may take back |
| `batches` | deliveries to third parties with status `pending_approval`, as their garments |
| `reports` | missing reports of a garment that are not resolved |
| `request`, `link` | `laundry_pickup_requests`: status, and the bag it was closed with |
| `messages`, `pulls`, `takenBack` | history: automatic ready messages, times a bag was taken back from the shelf, times a handed over garment got another status by hand |
| `handed` | rows of `premium_garment_deliveries` |

Twenty-eight handlers of four doors: the office screen (`service.js`, `phase5.js`),
the kiosk (`self-service/routes.js`), the field ledger (`field-ledger.js`,
`ledger.js`) and the QR code of a room (`laundry-request-action.js`). What the doors
ask differs, and is kept: the office takes a bag from ironing to the shelf without
looking at its garments, `advanceItem` delivers a ready bag without them, garments
may be delivered one by one wherever their bag is, and a block that goes standard
moves garments and bags without a message. `ParentStatus` is `syncParentStatus`, which
runs after some changes of a garment and not after others. The status is
committed first, then the stamp, then the message: the process may end in
between (`TellReady`). Marking a whole room in the field ledger does all three inside one
transaction, which a later write or the end of the process may withdraw after the
message left (`MarkReadyWithdrawn`). The unique index on open requests and the key of a
request to its bag are not guards of the model: `RequestsConsistent` says that no
handler needs them to refuse it. `handed` grows only; who may undo an intake, and for how
long, is left open, so the model has every undo the code has and more.

## 3 Runs

Eleven runs that pass and one that shows a disagreement. Counts are distinct states.

| run | instance | what it shows |
|---|---|---|
| `RoomOccupancy_dorm` | 2 people, rooms of 2 and 1 beds, 1 item, 1 undoable import; 357 000 states | bed, capacity, quarantine, shift, departure and item properties over all histories; no row outlives its person; the registry of beds is implemented |
| `JobQueue_queue` | 3 rows, types with and without handler, 2 attempts for mails, 1 restart; 333 000 states, with fairness | nothing is claimed twice or lost; every waiting job settles |
| `TruckMail_mail` | 1 truck, 2 jobs, 2 mails, versions to 2, 1 restart; 535 000 states, with fairness | mails, stored id and text belong together; one mail per truck without a retry by hand; the lock ends |
| `OfflineSync_one_loop` | 3 entries, limit 2, 2 tries, 1 loop, 1 closed page; 975 000 states, with fairness | synced is stored, settled stays settled, every entry gets out |
| `OfflineSync_pages` | 1 entry, 1 report, 2 kiosk loops, 1 mobile loop, 1 stored copy of the report; 6.4 million states | one bag per entry |
| `OfflineSync_foreign` | 1 laundry entry, 1 mobile loop; violation | see section 5 |
| `WaterLedger_lots` | 1 product, 2 lots, 2 distributions, 2 days, quantities 1 and 2, quarantine, expiry, start moving both ways, distributions cut short; 289 000 states | matching, its order, and review |
| `WaterLedger_products` | 2 products, tracked and returnable, batches of 2, returns, start moving both ways, closing months; 252 000 states | deposits, closed months |
| `TransportTrips_boarding` | 2 trips less than three hours apart, one of them planned, 1 bus, 1 person, 1 scan; 1.06 million states | nobody scanned aboard stays a no-show; a compared bus is not given away |
| `StationScan_canteen` | 1 meal card, 1 visitor card, 2 readings, 2 passes, 1 retry, 2 days, 1 end of the process, 1 edit by a manager; 8.3 million states | admissions, meals and exits belong together, synced scans are in the log |
| `LaundryBags_shelf` | 1 bag, 2 garments, 2 pickup requests, 1 taking back from the shelf, 1 of a garment, 1 open report; 1.85 million states | one message per stay on the shelf, one signature per garment, requests and bags consistent |
| `ShiftPeriods_month` | 1 person, 1 month of 2 days, 2 overlapping requests, allowance 3, 1 day with openings, 1 import and undo; 1.1 million states | leave, balance, approvals and the lock under every writer of a cell |

Why the bounds are enough:

* **Rooms.** A shared bed takes two people and one freed number below an occupied
  one, so a room of two beds and two people; a number that does not exist in a
  room needs rooms of different size. Mixed shifts and swaps need two people.
  What a third person could add to beds, capacity, shifts and quarantine is
  settled by the proofs, which hold for any number of people and rooms. People
  and items are interchangeable (no definition names one), hence the symmetry;
  the run has no liveness property.
* **Queue.** Three rows let one be in flight, one wait and one be requeued or
  pruned; two attempts are enough to have a last one and one before it
  (in the code 3 by default and 5 for truck mails); the restart
  bound names how often the process ends, and an end never touches a row, so a
  second one repeats the first. Ids are reused after pruning, which lets
  arrivals go on for ever.
* **Truck mail.** The hazards involve an older and a newer job of one truck, so
  two jobs and two versions; trucks do not share state except the queue. The
  record is complete or not, so an edit after queueing changes what the
  documents are built from.
* **Offline queue.** Two loops overlapping on one row is the smallest overlap; a
  limit below the number of entries makes the limit matter; two tries have a
  last and one before it (three in the code; counts saturate).
* **Water.** Two lots and two distributions are needed for any order question,
  quantities 1 and 2 for partial supply, two days for expiry, start and lock.
* **Transport.** A late scan and its replay need one person and one scan; a trip of
  the plan and one made by hand differ in what they ask. A full bus and a
  person on the waiting list need two people, two scans and one seat fewer than
  people: `TransportTrips_two_people` (1 planned trip), beside the
  runs. Buses are proved for any number of trips (`BusesNotShared`).
* **Laundry.** Two garments are the smallest bag that is partly delivered, two
  requests the smallest undo with a newer one. One taking back lets every path
  from the shelf and to it be walked twice. Bags meet only in `IntakeBags`,
  `UndoIntake` and `BlockToStandard`; what a second bag adds is settled by the
  proofs. Garments and requests are interchangeable.
* **Stations.** Two readings are the smallest repetition and two passes the
  smallest overlap; each pass tries a row once before it is the last time; two
  days make a queued scan stale. One end of the process and one edit name what a
  property must exempt; the proofs hold for any number of both.
* **Timesheet.** Overlap needs two requests, and spans of one and two days to
  differ in what they count; the allowance covers
  either, and as the two overlap its limit is never met: no property here is about
  it. A request, an opening and
  an import on the same day are the three writers that meet in one cell. People
  share nothing but approvals and the lock; the proofs cover any number.

Deadlock is checked for rooms, the queue, the truck mail, transport, the
laundry and the timesheet. It is not for the offline queue, the ledger and the stations: when
every entry is settled and no page opens, when the bounds on rows are used up and
when every reading was made and answered, the system has nothing left to do.

Every listed property of a passing run fails when a definition of its module is replaced
by the mutant beside it, the mistake it was tried against.

### Fairness

* JobQueue, TruckMail: the interval keeps firing (`setInterval`), an awaited
  handler comes back (SMTP and web push connections end or time out), a delay
  ends, PM2 starts the process again, and a process told to stop ends within ten
  seconds (`server.js` forces it). All weak: each stays enabled until taken.
  Nothing is assumed of requests, of the administrator, or of SIGTERM.
* OfflineSync: pages are opened or come online again (weak fairness of starting
  a flush) and a loop that runs goes on (its awaits end: `fetch` fails or
  answers). Nothing is assumed of the network's being up.

The other specifications state no fairness: a person acts or does not.

The liveness properties exempt what the code does not repair: a job in flight
when the process ended stays in `processing` (`Orphan`, section 5); a rejected or
conflicting entry waits for a person.

## 4 Proofs

Checked by TLAPS with Z3, Zenon and LS4, for all values of the constants that
satisfy the named assumptions of the modules (`ASSUME ...Assumption`): sets of
people, jobs and days are finite where something counts them, the `No...` values
are not members, limits and capacities are naturals. Type correctness is proved
for every module that models code and no longer run.

**RoomOccupancy_proofs.** `TypeCorrect`, `BedsNeverShared`, `RoomsNeverOverfilled`,
`QuarantineStaysEmpty`, `DeparturesEndStays`, `DeparturesSettleZimmet`,
`ShiftsNotMixed`. Twenty-five actions change the seats in only five ways:
`RoomStep` classifies a step as one where seats stay, people leave, people enter
one room with a `Placements` assignment and room for them, two people exchange
places, or an import fills rooms, together with what such a step does to status
and active beds. One lemma per group of actions shows that each action is such a
step (`CheckInKind`, `CheckOutKind`, `MoveKind`, ...), `StepKind` collects them,
and each invariant is then preserved by five ways instead of twenty-five actions,
with the counting lemmas (`SubsetOccupancy`, `UnionOccupancy`,
`ExchangeOccupancy`). Each invariant is inductive together with `TypeOK`, since
the guards compare with the current seats and not with history.

The registry of beds, in the same module: `RowsHaveOwners`, `BedNumbersExist`,
`RegistryImplemented` (`Spec => KeepsRegistry`). That a bed number exists in its
room needs the free numbers a batch receives to stay within the beds of the room,
which is a counting argument (`PlacedWithin`, `ImageSize`) on top of
`OccupancyWithinBeds`; the refinement then maps `Leave`, `Enter`, `Arrive`
and `Exchange` steps to `Leave`, `Take` and `Exchange` of the registry, using
`NoSharedBed`, `NoOrphanRows` and `BedNumberExists` of the states before and after.

**TruckMail_proofs, JobQueue.** `QueueTypeCorrect`, `WorkerKeepsItsJob`,
`FailureUsesAllAttempts` (a type with a handler is not given up early), `UnfinishedJobsStay`, `OneInFlight`.
`WorkerOwnsItsJob` is not inductive: a claimed row must have been pending with an
attempt left, so the invariant is
`QueueInv == TypeOK /\ DueRowsPending /\ AttemptLeft /\ WorkerOwnsItsJob /\ FailedAfterAllAttempts`.
For `OneInFlight` a second one, `OrphansCounted`, bounds the rows in
`processing` that nobody holds by the number of ends of the process.

**TruckMail_proofs, TruckMail.** `MailTypeCorrect`, `MessagesMatch`, `AnsweredJobIsQuiet`, `DocumentsAgree`,
`TruckMailedOnce`. `MailInv` joins the type, `QueueInv`, the link between a
record and its job (`Linked`), what the handler has read (`Current`), the text a
mail was built from (`Bodies`), and what an acknowledged mail left behind
(`Acked`, `Messages`). On top of it, `DocInv` says that a job nobody requeued
still meets the record it was queued from (`Kept`, `SeenIsQueued`), and `OnceInv`
that a truck with an acknowledged mail has no other unretried job that could send
(`Closed`, `Alone`).

**OfflineSync_proofs.** `BagsStoredOnce`, `SyncedFaultsStored`, and
`KioskSyncedStored`: if all loops are the kiosk's, what is synced is stored; the
mobile loop is what breaks it (section 5). `SyncInv == Shape /\ OkIsStored /\
SyncedOrTaken /\ BagStoredOnce`: a loop that heard "ok" has a stored row, whatever
other loops did to the copy in between. `SettledLeftAlone`
(`Spec /\ []LoopsApart => AlwaysSettledStays`) has a hypothesis about the run: no two loops
work at a time. The code does not ensure that (section 5, two kiosk loops), the run has it because
there is one loop, and without it the property is false. `OneLoopLeavesSettledAlone` is the same without that hypothesis, for a page with one loop. `OwnInv` adds to the type
(`OfflineTypeCorrect`) that a form that may still put its entry finds no row of it (`FormsFresh`), and
that what a loop has read and not written is still waiting (`TodoActionable`).

**WaterLedger_proofs.** `InvHolds`, `TypeCorrect`, `NeverAllocatedTwice`,
`AllocationsStayMeetable`, `NeverIdleStock`, `ReviewsHaveShortage`, `ShortagesAreAsked`,
`DepositsNotNegative`, `ClosedMonthsStay`, `MatchedInOrder`: for any number of products, rows, days and
quantities. The module has four parts.

1. *Sums and folds.* Balances are sums and matching is a fold over a finite set. The library
   has induction only with an operator as parameter; here it is stated of a family of sets
   (`SubsetInduction`: a family of subsets of a finite set that holds a set
   whenever it holds every one with an element less is all of them) and comes from the
   well-foundedness of `<` on the naturals. From it: the function `MapThenFoldSet` chooses
   exists (`FoldExists`), and what a sum does when an element or a value changes.
2. *Matching.* `TakeSound`: one lot taken for one distribution keeps `Sound` (types,
   rows that exist, the same product and side of the start, a lot in use, no amount above what is
   there). `ServeSound`, `ServeAllSound`: the folds keep it too, and leave nobody they served idle
   beside an open lot (`Later`: allocations only grow, so what could not be met before cannot be now).
   The orders need a last element (`LastLotIn`, `LastTurnIn`). `ServeInOrder`: who gets
   more of a lot finds no earlier one open afterwards; `ServeAllInOrder`: whoever gets more leaves
   none before it lacking what the lot has, because what one leaves open, those after it
   cannot need (`InTurn`, `NextTurn`).
3. *Services.* `Pending(w, ps, fs, os)` says what is still to be done to a ledger: match
   products `ps`, flag the distributions `fs`, clear the marks of `os`. A
   ledger is `InOrder` when nothing is. Every service is shown to write rows that leave
   something pending and to do just that afterwards (`ReceiveInOrder` ... `SetFifoStartInOrder`): a
   path that forgot to match, to flag or to clear would not prove. The shortages nobody was
   asked about before the step are waived (`Waived`): no step may add to them, and that is
   `ShortagesAreAsked`. Only `DistributeCut` ends out of order in this one respect, and
   approval, which leaves the shortage it decided. `AtRest`, which is `InOrder` without
   shortages, with the tables of returns and locks is the inductive invariant `Inv`, and the
   other state properties follow from it. `MatchedInOrder` needs both: matching again serves all
   that lack something (`ReconciledServes`), what a service frees first is no gain
   (`ReleasedServes`), and before a new distribution, which is served alone, nobody lacked
   what the lots had: that is `Inv`.
4. *Rows.* What a step does to the rows (`KeepsRows`, `AddsRows`, `ChangesRow`, `DropsRows`)
   decides the closed months and, with the guards, the deposits: a product that is
   returnable and below zero would have been below zero before.

**TransportTrips_proofs.** `TripsTypeCorrect`, `BusesNotShared`,
`NobodyScannedIsLeftBehind`. The heart of `ScanInv` is
`ScanOwed`: whoever was scanned aboard and is not boarded has a scan on the phone
that the server has not recorded, so the seat is still owed its correction, unless the phone lost it; `AboardSeated`,
`SeatsOfTrips`, `LeftBehindDeparted` and `IdsUnique` keep that scan the right one.

**StationScan_proofs.** `StationTypeCorrect`, `AdmittedHaveMeals`, `MealsAdmitOnce`,
`VisitsExitOnce`, `SyncedIsLogged`. `Effect` says what any request can do on the
server, cut short or not, and `MealInv` (an admission has its meal, and two
admissions for one meal are one unless it was struck), `VisitInv` and
`SyncInv` are preserved by effects; passes touch the page's rows only.

**ShiftPeriods_proofs.** `SheetTypeCorrect`, `LeaveNotDoubled`, `LockedMonthsKept`,
`ApprovedDaysSettled`, `CounterBounded`. `Guarded` says what a writer does to a
cell: its day loses its approval or becomes doubtful, and it is in an open month or comes
through one of the two doors the lock leaves open; the steps that are not guarded approve and write no cell. The counter of used days is compared with the number
of pairs of an approved request and a day of it, so that one request more or less is a set
more or less (`OneApproved`, `OneEnded`). `UsedNotAboveApproved` alone is not inductive: an undo
that deleted two leaves over the same days would take the days once from the counter and twice from
the leaves. `CounterInv` adds `OneLeaveMade`: an import makes one leave at most, and of its person.

**LaundryBags_proofs.** `LaundryTypeCorrect`, `ReadyMessageOnce`,
`GarmentDeliveredOnce`, `PickupRequestsConsistent`. None of the three is inductive.
For the message, `Told` ties the second message to the stamp; `NoticeStep` names
the five kinds of steps that touch it. For the rest `RowStep` sorts the handlers into
those that work on rows that are there (`WorkStep`: a garment is kept, signed for
or taken back) and the few that make or remove rows. `Given` ties the
signatures to the status, and needs `Rows`: a bag that can still be undone has no
garment and a garment off the record has no signature, or an undo would forget what
was handed over. `Linked` says that only closed requests name bags.

Model-checked only: the three liveness properties `WaitingJobSurvivesRestart`,
`QueuedTruckUnlocks` and `EntrySettles`, since fairness and ENABLED are outside the prover's
reach. Every invariant and every action property of the passing runs is a theorem.

## 5 Where the code and its documents disagree

`OfflineSync_foreign` is one of the runs. For the others there is a
configuration beside it whose counterexample shows the code's behaviour
(`tlc -config <name>.cfg MC<module>`):

| configuration | what the repository says | what the code does |
|---|---|---|
| `OfflineSync_foreign` | a queued laundry entry is sent when the connection is back (`EntryForm.jsx:427`) | the mobile layout marks rows of types it does not know as synced |
| `RoomOccupancy_departed_occupant` | a returning person becomes a resident again (`checkin/queries.js:313`) | bulk assignment and reassignment seat a departed person and leave `check_out_date` set |
| `JobQueue_orphan` | the queue is restart-safe (`docs/superpowers/specs/2026-05-22-observability-and-jobs-design.md:116`) | a row in flight when the process ends stays `processing` for ever |
| `JobQueue_network` | network errors of a mail are retried (`shared/jobs/handlers.js:53`) | they are worded with "SMTP" and so called permanent |
| `WaterLedger_expired` | a lot past its date takes no part in allocation (`docs/water-module.md:101`) | correcting the expiry date of a lot releases nothing |
| `ShiftPeriods_locked` | in a locked month every way of changing the sheet answers 423 (`shifts-logic-scan.test.js:30`) | choosing an applicant of an opening (`openShifts.js:153`) and rejecting a leave (`service.js:1303`) do not ask for the lock |
| `ShiftPeriods_undo` | undoing an import deletes its leave and restores the balance (`import.js:765`) | a leave of the import that was rejected since then has given its days back already, and the undo gives them back again, at the cost of another leave |
| `LaundryBags_delivered` | a premium bag is delivered when its garments are (`docs/superpowers/plans/2026-04-02-premium-camasir-takip.md:13`) | a partial delivery counts ready garments only, `advanceItem` none, and garments may be entered into a delivered bag |
| `LaundryBags_untold` | the resident gets a message when the bag leaves ironing (`self-service/routes.js:1750`) | a block that goes standard, garments set by hand and an end of the process before the stamp send none, then or later |
| `StationScan_lost` | a reading is not lost (`StationPage.jsx:240`) | after three tries without an answer the scan is put aside for a person and no pass sends it again (`scanQueue.js:88`) |
| `TransportTrips_refused` | a scan was put into the safe queue (`OperationsTab.jsx`) | an answer 4xx other than 409 drops it from the queue (`transportScanQueue.js:44`) |

Also seen while modelling, kept as behaviour of the models and not run:

* `insertPlaceholderBatch` fills a room in maintenance (`checkin/queries.js:377`;
  the guard elsewhere is tested in `room-integrity.test.js:89`).
* A departed person who was seated again can be issued a laundry card
  (`cards/routes.js:177`).
* A truck mail refused for its credentials is retried (`water/jobs.js:14`: only
  `sendEmail` attaches `smtpKind`, and the truck mail does not go through it).
* With a retry by hand of an older failed job a truck may be mailed twice
  (`water/jobs.js:36`, `system/routes.js:31`).
* Of two overlapping kiosk loops the slower one may put a synced row back
  (`EntryForm.jsx:147`); then entries may also starve.
* When the FIFO start moves back, old shortages stay unflagged
  (`movements.js:107`), as do those of a distribution whose process ends before its
  second transaction (`movements.js:157, 390`): `ShortageAsked` speaks of what a step adds.
* The mobile layout marks queued station scans and boarding scans synced unsent, as it
  does every type it does not know (`MobileLayout.jsx:98`).
* A segment that overlaps another or is malformed is refused after its cell was planned
  (`shifts/service.js:939-944`), and the day's approval stays.
* A message that a bag is ready leaves before the room's transaction is committed
  (`field-ledger.js:155`); if that is withdrawn, the bag is told of again.
* Publishing a plan compares its trips with each other and not with existing
  ones, reopening a trip compares nothing, promotion from the waiting list asks
  for no conflict of the person.
* A replayed scan whose stored answer is missing is answered with an empty
  record and `access_granted: false` although it was admitted
  (`stations/routes.js:277`).
* A manager's manual entry at the canteen writes no meal check
  (`stations/routes.js:427`).
* A rotation, a copied week, a day's detail and overtime write over approved leave
  without the question `service.js:822` asks; submitting a locked month, returning
  a day in it and editing a day that nobody approved leave the approvals of the
  month as they are.
* Rejecting a leave over a day that was worked turns the day into a planned one.

## 6 What is not modelled

Parts that keep no state beyond records (companies, documents, screens, reports),
pure calculations and formatting, cryptography, uploads and file copies, and
configuration: see the notes in `PROJECT.json`. Of the modelled parts: zimmet
signatures and notes, access and meal cards, blacklist and discipline batches;
truck reminders and waybill photos; encryption and photos of the offline queue;
units, stock counts, the product catalogue and forecasts of the water module;
templates, vehicles, driver records and notifications of transport; hours and segments
but for the cell they plan, departments, row versions, payroll and signature sheets of the timesheet, and the
closing of a person's sheet when he leaves the company; expiry of cards, the alarm
of the blacklist and entries by hand at stations; machines, loads, supplies, incidents,
photos, the card at the counter and pieces of burst bags in the laundry. Errors of the database
in the middle of a handler are modelled where two transactions follow each other (water,
timesheet, field ledger, stations) and not in the job queue (`shared/jobs/index.js:110`).
Power failures inside a SQLite transaction are SQLite's concern: a transaction
is one step. Several server processes are not modelled, since the deployment
has one.

## 7 Plan

Done, in order of importance: RoomOccupancy with proofs and its abstract
BedRegistry; JobQueue with proofs; TruckMail over JobQueue with proofs; OfflineSync
with proofs; WaterLedger with proofs; TransportTrips, StationScan,
ShiftPeriods and LaundryBags with proofs.

Left, in order:

1. `KioskReceipts`: receipts accepted, completed, expired; the abstract
   specification is an action that happens at most once, and `OfflineSync` is to
   use it in place of the intake's own lookup.
2. `Inventory`: quantity against movements and lots, partial deliveries.
3. Refresh tokens: rotation and reuse against log-out.
4. Closing a person's sheet (`offboarding-service.js`) as a further writer of
   `ShiftPeriods`.
5. Machines and loads beside `LaundryBags`: a machine runs what its timer says.
