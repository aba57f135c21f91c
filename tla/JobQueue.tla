------------------------------- MODULE JobQueue -------------------------------
(***************************************************************************)
(* The persistent job queue of the backend (shared/jobs): the job_queue    *)
(* table, the one worker that drains it, the administrator's retry, the    *)
(* nightly pruning, and the process around them, which may be told to stop *)
(* (SIGTERM), killed and started again by PM2.                             *)
(*                                                                         *)
(* The worker awaits a handler, so every other request may run while a job *)
(* is in flight; each UPDATE of a row commits by itself, so the process    *)
(* may end between any two of them.  A claim, a handler's end and a        *)
(* worker's going to sleep are therefore steps of their own.               *)
(***************************************************************************)
EXTENDS Naturals, Sequences, FiniteSets, Functions

CONSTANTS
    Jobs,         \* rows of the table; a row that is pruned stands for a new id
    NoJob,
    Types,        \* job types that are enqueued
    MaxAttempts,  \* max_attempts of a type: 3 by default, 5 for truck mails
    MaxRestarts   \* bound: how often the process ends

ASSUME JobsAssumption     == IsFiniteSet(Jobs) /\ NoJob \notin Jobs
ASSUME AttemptsAssumption == MaxAttempts \in [Types -> Nat \ {0}]
ASSUME RestartsAssumption == MaxRestarts \in Nat

VARIABLES
    job,       \* rows of job_queue
    ready,     \* ids of pending rows with run_after <= now, in claim order
    server,    \* "up", "stopping" (SIGTERM seen), "down"
    loop,      \* workerRunning: "awake" while the loop runs
    running,   \* the job whose handler is awaited
    held,      \* job.attempts as the worker read it when it claimed the row
    restarts   \* how often the process ended

vars == <<job, ready, server, loop, running, held, restarts>>
workerVars  == <<server, loop, running, held, restarts>>

-----------------------------------------------------------------------------
(* Rows *)

JobStatuses == {"pending", "processing", "done", "failed"}

\* What a handler's error is about: refused credentials, a setting that is not
\* set, an unknown host, a refused sender, no connection, a subscription or
\* record that is gone, anything else.
ErrorKinds == {"auth", "unset", "host", "sender", "network", "gone", "other"}
NoError    == "none"
MailErrors == {"auth", "unset", "host", "sender", "network", "other"}

\* The handlers of the map, with the errors each can end with.
KindsOf == [t \in {"push.send", "push.worker", "email.send", "water.daily-digest-mail",
                   "water.truck-mail", "whatsapp.send", "transport.recompute-path"} |->
    IF t \in {"push.send", "push.worker"} THEN {"gone", "other"}
    ELSE IF t = "email.send" THEN MailErrors
    ELSE IF t \in {"water.daily-digest-mail", "water.truck-mail"} THEN ErrorKinds
    ELSE IF t = "whatsapp.send" THEN {"gone"}
    ELSE {"other"}]

\* Those a handler marks with err.permanent.  email.send looks for "SMTP" in
\* the described message, which an unreachable server has too; the digest uses
\* the smtpKind that sendEmail attaches; the truck mail goes through
\* composeAndSend, which attaches none, and recognises missing settings only.
PermanentKinds == [t \in DOMAIN KindsOf |->
    IF t = "email.send" THEN {"auth", "unset", "host", "network"}
    ELSE IF t = "water.daily-digest-mail" THEN {"auth", "unset", "host", "sender", "gone"}
    ELSE IF t = "water.truck-mail" THEN {"unset", "gone"}
    ELSE {"gone"}]

HasHandler(t) == t \in DOMAIN KindsOf

Row == [status : JobStatuses \cup {"absent"}, type : Types, attempts : Nat,
        error : ErrorKinds \cup {NoError, "no handler"}]

Absent(t) == [status |-> "absent", type |-> t, attempts |-> 0, error |-> NoError]

InStatus(S) == {j \in Jobs : job[j].status \in S}

TypeOK ==
    /\ job \in [Jobs -> Row]
    /\ ready \in Seq(Jobs)
    /\ server \in {"up", "stopping", "down"}
    /\ loop \in {"asleep", "awake"}
    /\ running \in Jobs \cup {NoJob}
    /\ held \in Nat
    /\ restarts \in Nat

Init ==
    /\ \E t \in Types : job = [j \in Jobs |-> Absent(t)]
    /\ ready = <<>>
    /\ server = "up"
    /\ loop = "asleep"
    /\ running = NoJob
    /\ held = 0
    /\ restarts = 0

-----------------------------------------------------------------------------
(* Requests and cron, which run whenever the process does *)

\* run_after is now: the row comes after every row that is already due.
Enqueue(j, t) ==
    /\ server # "down"
    /\ job[j].status = "absent"
    /\ job' = [job EXCEPT ![j] = [status |-> "pending", type |-> t, attempts |-> 0, error |-> NoError]]
    /\ ready' = Append(ready, j)
    /\ UNCHANGED workerVars

\* The orders in which rows made due by one UPDATE may be claimed: by id, which
\* Jobs does not show.
Orders(S) == Injection(1 .. Cardinality(S), S)

\* Mutant of Requeue: without "WHERE status='failed'".
RequeueMutant(S) ==
    /\ job' = [j \in Jobs |->
                 IF j \in S /\ job[j].status \in {"failed", "processing"}
                 THEN [job[j] EXCEPT !.status = "pending", !.attempts = 0, !.error = NoError]
                 ELSE job[j]]
    /\ \E s \in Orders(S \cap InStatus({"failed", "processing"})) : ready' = ready \o s

\* UPDATE ... SET status='pending', attempts=0 ... WHERE status='failed' AND id IN S
Requeue(S) ==
    /\ job' = [j \in Jobs |->
                 IF j \in S /\ job[j].status = "failed"
                 THEN [job[j] EXCEPT !.status = "pending", !.attempts = 0, !.error = NoError]
                 ELSE job[j]]
    /\ \E s \in Orders(S \cap InStatus({"failed"})) : ready' = ready \o s

\* retryFailed: by ids, by type, or everything.
RetryFailed(S) ==
    /\ server # "down"
    /\ Requeue(S)
    /\ UNCHANGED workerVars

Prunable(j) == job[j].status \in {"done", "failed"}

\* pruneJobs: done and failed rows not touched for 30 days; S are the old ones.
PruneJobs(S) ==
    /\ server # "down"
    /\ \A j \in S : Prunable(j)
    /\ job' = [j \in Jobs |-> IF j \in S THEN Absent(job[j].type) ELSE job[j]]
    /\ UNCHANGED <<ready, workerVars>>

\* The delay of a backed-off row ends.
BecomesDue(j) ==
    /\ job[j].status = "pending"
    /\ \A i \in DOMAIN ready : ready[i] # j
    /\ ready' = Append(ready, j)
    /\ UNCHANGED <<job, workerVars>>

-----------------------------------------------------------------------------
(* The worker: setInterval(loop), while (await tickOnce()) *)

\* A tick of the interval; it does nothing while the loop is running.
TimerFires ==
    /\ server = "up"
    /\ loop = "asleep"
    /\ loop' = "awake"
    /\ UNCHANGED <<job, ready, server, running, held, restarts>>

\* ORDER BY run_after, id LIMIT 1
NextJob == Head(ready)

WorkerIsFree == running = NoJob

\* The claim transaction.  Nothing stops the loop after SIGTERM.
ClaimNext ==
    /\ server # "down"
    /\ loop = "awake"
    /\ WorkerIsFree
    /\ ready # <<>>
    /\ running' = NextJob
    /\ held' = job[NextJob].attempts
    /\ job' = [job EXCEPT ![NextJob] = [job[NextJob] EXCEPT !.status = "processing", !.attempts = @ + 1]]
    /\ ready' = Tail(ready)
    /\ UNCHANGED <<server, loop, restarts>>

\* tickOnce returned false.
Drain ==
    /\ loop = "awake"
    /\ WorkerIsFree
    /\ ready = <<>>
    /\ loop' = "asleep"
    /\ UNCHANGED <<job, ready, server, running, held, restarts>>

\* UPDATE of the claimed row by id.
SettleAs(status, kind) ==
    /\ job' = [job EXCEPT ![running] = [@ EXCEPT !.status = status, !.error = kind]]
    /\ running' = NoJob
    /\ UNCHANGED <<ready, server, loop, held, restarts>>

IsRunning(t) == running # NoJob /\ job[running].type = t

HandlerSucceeds ==
    /\ \E t \in Types : HasHandler(t) /\ IsRunning(t)
    /\ SettleAs("done", NoError)

\* const attempts = job.attempts + 1; attempts >= job.max_attempts
LastAttempt(t) == held + 1 >= MaxAttempts[t]

\* catch (err): done when permanent, else failed or back to the queue with a
\* delay (not in ready) of 30 * 2^attempts seconds.
HandlerFails(kind) ==
    \E t \in Types :
        /\ HasHandler(t) /\ IsRunning(t)
        /\ kind \in KindsOf[t]
        /\ SettleAs(IF kind \in PermanentKinds[t] THEN "done"
                    ELSE IF LastAttempt(t) THEN "failed"
                    ELSE "pending",
                    kind)

\* The handler map has no entry; no await lies between the claim and this.
NoHandler ==
    /\ \E t \in Types : ~HasHandler(t) /\ IsRunning(t)
    /\ SettleAs("failed", "no handler")

HandlerEnds == HandlerSucceeds \/ (\E kind \in ErrorKinds : HandlerFails(kind)) \/ NoHandler

-----------------------------------------------------------------------------
(* The process *)

\* SIGTERM: stopWorker clears the interval, server.close waits for connections.
Sigterm ==
    /\ server = "up"
    /\ restarts < MaxRestarts
    /\ server' = "stopping"
    /\ UNCHANGED <<job, ready, loop, running, held, restarts>>

\* process.exit, at the latest 10 seconds after SIGTERM, or a crash: whatever
\* the worker was awaiting is forgotten and its row stays as it is.
ProcessEnds ==
    /\ server # "down"
    /\ restarts < MaxRestarts
    /\ restarts' = restarts + 1
    /\ server' = "down"
    /\ loop' = "asleep"
    /\ running' = NoJob
    /\ UNCHANGED <<job, ready, held>>

\* Mutant of Boot: startWorker is not called, the interval stays cleared as
\* after SIGTERM.
BootMutant ==
    /\ server = "down"
    /\ server' = "stopping"
    /\ UNCHANGED <<job, ready, loop, running, held, restarts>>

\* PM2 starts the process again; startWorker starts the interval and looks at
\* no row.  (The jobs server.js enqueues for routes without a path are Enqueue
\* steps.)
Boot ==
    /\ server = "down"
    /\ server' = "up"
    /\ UNCHANGED <<job, ready, loop, running, held, restarts>>

-----------------------------------------------------------------------------
Requests ==
    \/ \E j \in Jobs, t \in Types : Enqueue(j, t)
    \/ \E S \in SUBSET Jobs : RetryFailed(S)
    \/ \E S \in SUBSET Jobs : PruneJobs(S)
    \/ \E j \in Jobs : BecomesDue(j)

Worker  == TimerFires \/ ClaimNext \/ Drain \/ HandlerEnds
Process == Sigterm \/ ProcessEnds \/ Boot

Next == Requests \/ Worker \/ Process

Spec == Init /\ [][Next]_vars

\* The interval keeps firing, a claimed handler comes back (SMTP and web push
\* connections end or time out), delays end, PM2 restarts the process, and a
\* process told to stop does so within 10 seconds.
Fairness ==
    /\ WF_vars(TimerFires) /\ WF_vars(ClaimNext) /\ WF_vars(Drain) /\ WF_vars(HandlerEnds)
    /\ \A j \in Jobs : WF_vars(BecomesDue(j))
    /\ WF_vars(Boot) /\ WF_vars(server = "stopping" /\ ProcessEnds)

FairSpec == Spec /\ Fairness

-----------------------------------------------------------------------------
(* Safety *)

\* While the worker awaits a handler the row stays its own: neither the retry
\* nor the pruning nor a second claim touches it, so the attempt count it read
\* before the await is still right after it.
WorkerOwnsItsJob ==
    running # NoJob =>
        /\ job[running].status = "processing"
        /\ job[running].attempts = held + 1
        /\ held + 1 <= MaxAttempts[job[running].type]

\* The worker has one job in flight, and each end of the process orphans at
\* most one: there are never more rows in processing than that.
OneJobInFlight == Cardinality(InStatus({"processing"})) <= restarts + 1

\* A job of a known type that counts as failed has had all its attempts.
FailedAfterAllAttempts ==
    \A j \in InStatus({"failed"}) :
        HasHandler(job[j].type) => job[j].attempts = MaxAttempts[job[j].type]

\* A job that has not come to an end is never removed.
UnfinishedJobKept ==
    \A j \in InStatus({"pending", "processing"}) : job'[j].status # "absent"

AlwaysUnfinishedJobKept == [][UnfinishedJobKept]_vars

-----------------------------------------------------------------------------
(* Liveness *)

Settled(j) == job[j].status \in {"done", "failed", "absent"}
Orphan(j)  == job[j].status = "processing" /\ running # j

\* Every waiting job comes to an end, however many others arrive, fail, are
\* retried or pruned meanwhile; a restart loses nothing but the job in flight.
WaitingJobSurvivesRestart ==
    \A j \in Jobs : job[j].status = "pending" ~> (Settled(j) \/ Orphan(j))

-----------------------------------------------------------------------------
(* What the repository says of the queue and the code does not keep *)

\* The queue is restart-safe (observability and jobs design, 5.1): a claimed
\* job comes out of processing.
ClaimedJobComesBack ==
    \A j \in Jobs : job[j].status = "processing" ~> job[j].status # "processing"

\* A network error of a mail is retried (comment of sendEmailJob).
NetworkErrorIsRetried ==
    \A j \in InStatus({"done"}) : job[j].type = "email.send" => job[j].error # "network"
=============================================================================
