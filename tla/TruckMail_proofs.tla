--------------------------- MODULE TruckMail_proofs ---------------------------
(***************************************************************************)
(* Proofs about JobQueue and about TruckMail, which runs on top of it, for *)
(* any number of jobs, attempts, trucks, texts and restarts.               *)
(*                                                                         *)
(* The queue.  Its inductive invariant adds to the properties what the     *)
(* worker relies on without looking: the due rows are pending and listed   *)
(* once, a pending row has an attempt left, and the worker's job is the    *)
(* one in processing.                                                      *)
(*                                                                         *)
(* The mail.  The composition is a run of the queue, so what is proved of  *)
(* the queue holds of it; its invariant adds what ties a job to its        *)
(* payload, a mail to its job and a record to its mail.                    *)
(***************************************************************************)
EXTENDS TruckMail, FiniteSetTheorems, SequenceTheorems, TLAPS

-----------------------------------------------------------------------------
(* The queue by itself *)

DueRowsPending ==
    /\ \A i \in DOMAIN ready : job[ready[i]].status = "pending"
    /\ \A a, b \in DOMAIN ready : a # b => ready[a] # ready[b]

AttemptLeft ==
    \A j \in InStatus({"pending"}) : job[j].attempts < MaxAttempts[job[j].type]

QueueInv == TypeOK /\ DueRowsPending /\ AttemptLeft /\ WorkerOwnsItsJob /\ FailedAfterAllAttempts

USE JobsAssumption, AttemptsAssumption, RestartsAssumption

LEMMA Successor == \A x \in Nat : x + 1 \in Nat
OBVIOUS

LEMMA Between == \A x, y \in Nat : x >= y /\ x <= y => x = y
OBVIOUS

\* Rows as the handlers write them.
LEMMA NewRow ==
  \A t \in Types :
    /\ Absent(t) \in Row
    /\ [status |-> "pending", type |-> t, attempts |-> 0, error |-> NoError] \in Row
BY DEF Absent, Row, JobStatuses, NoError

LEMMA WaitingRow ==
  ASSUME NEW r \in Row
  PROVE  [r EXCEPT !.status = "pending", !.attempts = 0, !.error = NoError] \in Row
BY DEF Row, JobStatuses, NoError

LEMMA ClaimedRow ==
  ASSUME NEW r \in Row
  PROVE  [r EXCEPT !.status = "processing", !.attempts = @ + 1] \in Row
<1>1. r.attempts \in Nat
  BY DEF Row
<1>2. r.attempts + 1 \in Nat
  BY <1>1
<1> QED
  BY <1>2 DEF Row, JobStatuses

LEMMA SettledRow ==
  ASSUME NEW r \in Row, NEW s \in JobStatuses, NEW e \in ErrorKinds \cup {NoError, "no handler"}
  PROVE  [r EXCEPT !.status = s, !.error = e] \in Row
BY DEF Row

LEMMA DueRow ==
  ASSUME TypeOK, DueRowsPending
  PROVE  \A i \in DOMAIN ready : ready[i] \in Jobs /\ job[ready[i]].status = "pending"
BY DEF TypeOK, DueRowsPending

LEMMA InitQueue == Init => QueueInv
<1> SUFFICES ASSUME Init PROVE QueueInv
  OBVIOUS
<1>1. TypeOK
  <2>1. job \in [Jobs -> Row]
    BY NewRow DEF Init
  <2>2. ready \in Seq(Jobs)
    BY EmptySeq DEF Init
  <2> QED
    BY <2>1, <2>2 DEF Init, TypeOK
<1>2. DueRowsPending /\ WorkerOwnsItsJob
  BY DEF Init, DueRowsPending, WorkerOwnsItsJob
<1>3. AttemptLeft /\ FailedAfterAllAttempts
  BY DEF Init, Absent, AttemptLeft, FailedAfterAllAttempts, InStatus
<1> QED
  BY <1>1, <1>2, <1>3 DEF QueueInv

\* An enqueued row is due, pending and unused.
LEMMA EnqueueKeeps ==
  ASSUME QueueInv, NEW j \in Jobs, NEW t \in Types, Enqueue(j, t)
  PROVE  QueueInv'
<1> USE DEF QueueInv, Enqueue, workerVars
<1>1. TypeOK'
  BY NewRow DEF TypeOK
<1>2. DueRowsPending'
  <2>1. \A i \in DOMAIN ready : ready[i] \in Jobs /\ ready[i] # j
    BY DEF TypeOK, DueRowsPending
  <2>2. DOMAIN ready' = 1 .. (Len(ready) + 1) /\ ready'[Len(ready) + 1] = j
        /\ \A i \in DOMAIN ready : ready'[i] = ready[i]
    BY DEF TypeOK
  <2>3. DOMAIN ready = 1 .. Len(ready) /\ Len(ready) \in Nat
    BY DEF TypeOK
  <2>4. \A i \in DOMAIN ready : job'[ready[i]].status = "pending"
    BY <2>1 DEF TypeOK, DueRowsPending
  <2>5. job'[j].status = "pending"
    BY DEF TypeOK
  <2>6. \A i \in DOMAIN ready' : i \in DOMAIN ready \/ i = Len(ready) + 1
    BY <2>2, <2>3
  <2> QED
    BY <2>1, <2>2, <2>4, <2>5, <2>6 DEF DueRowsPending
<1>3. /\ \A k \in Jobs : k # j => job'[k] = job[k]
      /\ job'[j].status = "pending" /\ job'[j].attempts = 0 /\ job'[j].type = t
      /\ running # j
  BY DEF TypeOK, WorkerOwnsItsJob
<1>4. AttemptLeft'
  BY <1>3 DEF AttemptLeft, InStatus
<1>5. WorkerOwnsItsJob'
  BY <1>3 DEF WorkerOwnsItsJob, TypeOK
<1>6. FailedAfterAllAttempts'
  BY <1>3 DEF FailedAfterAllAttempts, InStatus
<1> QED
  BY <1>1, <1>2, <1>4, <1>5, <1>6

\* An order of a set of rows is a sequence without repetition.
LEMMA OrderSeq ==
  ASSUME NEW F \in SUBSET Jobs, NEW s \in Orders(F)
  PROVE  /\ s \in Seq(Jobs) /\ Len(s) \in Nat /\ DOMAIN s = 1 .. Len(s)
         /\ \A i \in DOMAIN s : s[i] \in F
         /\ \A a, b \in DOMAIN s : a # b => s[a] # s[b]
<1> DEFINE n == Cardinality(F)
<1>1. n \in Nat
  BY FS_Subset, FS_CardinalityType
<1>2. s \in [1 .. n -> F] /\ \A a, b \in DOMAIN s : a # b => s[a] # s[b]
  BY DEF Orders, Injection, IsInjective
<1> HIDE DEF n
<1>3. \A i \in 1 .. n : s[i] \in F /\ s[i] \in Jobs
  BY <1>2
<1>4. s \in Seq(Jobs) /\ Len(s) = n
  BY <1>1, <1>2, <1>3, IsASeq
<1> QED
  BY <1>1, <1>2, <1>3, <1>4

LEMMA RetryKeeps ==
  ASSUME QueueInv, NEW S \in SUBSET Jobs, RetryFailed(S)
  PROVE  QueueInv'
<1> USE DEF QueueInv, RetryFailed, workerVars
<1> DEFINE F == S \cap InStatus({"failed"})
<1>1. F \in SUBSET Jobs
  BY DEF InStatus
<1>2. PICK s \in Orders(F) : ready' = ready \o s
  BY DEF Requeue
<1> DEFINE m == Len(ready)
<1> DEFINE n == Len(s)
<1>3. /\ s \in Seq(Jobs) /\ n \in Nat /\ DOMAIN s = 1 .. n
      /\ \A i \in 1 .. n : s[i] \in F
      /\ \A a, b \in 1 .. n : a # b => s[a] # s[b]
  BY <1>1, <1>2, OrderSeq
<1>4. \A j \in F : /\ job'[j] \in Row
                   /\ job'[j].status = "pending" /\ job'[j].attempts = 0
                   /\ job'[j].type = job[j].type
  <2> SUFFICES ASSUME NEW j \in F
               PROVE  /\ job'[j] \in Row
                      /\ job'[j].status = "pending" /\ job'[j].attempts = 0
                      /\ job'[j].type = job[j].type
    OBVIOUS
  <2>1. j \in Jobs /\ j \in S /\ job[j].status = "failed" /\ job[j] \in Row
    BY DEF InStatus, TypeOK
  <2>2. job'[j] = [job[j] EXCEPT !.status = "pending", !.attempts = 0, !.error = NoError]
    BY <2>1 DEF Requeue
  <2>3. job'[j] \in Row
    BY <2>1, <2>2, WaitingRow
  <2> QED
    BY <2>1, <2>2, <2>3 DEF Row
<1>5. \A j \in Jobs \ F : job'[j] = job[j]
  BY DEF Requeue, InStatus
<1>6. TypeOK'
  <2>1. \A j \in Jobs : job'[j] \in Row
    BY <1>4, <1>5 DEF TypeOK
  <2>2. job' \in [Jobs -> Row]
    BY <2>1 DEF Requeue
  <2>3. ready' \in Seq(Jobs)
    BY <1>2, <1>3, ConcatProperties DEF TypeOK
  <2> QED
    BY <2>2, <2>3 DEF TypeOK
<1>7. DueRowsPending'
  <2>1. /\ m \in Nat /\ DOMAIN ready = 1 .. m
        /\ DOMAIN ready' = 1 .. (m + n)
        /\ \A i \in 1 .. m : ready'[i] = ready[i] /\ ready[i] \in Jobs
        /\ \A i \in 1 .. (m + n) : i > m => ready'[i] = s[i - m]
    BY <1>2, <1>3, ConcatProperties DEF TypeOK
  <2>2. \A i \in 1 .. m : ready'[i] \notin F /\ job'[ready'[i]].status = "pending"
    BY <1>5, <2>1 DEF DueRowsPending, InStatus
  <2> HIDE DEF m, n, F
  <2>3. \A i \in DOMAIN ready' : i > m => i - m \in 1 .. n /\ ready'[i] = s[i - m] /\ ready'[i] \in F
    <3>1. \A i \in 1 .. (m + n) : i > m => i - m \in 1 .. n
      BY <1>3, <2>1
    <3> QED
      BY <3>1, <1>3, <2>1
  <2>4. \A i \in DOMAIN ready' : i \in Int /\ (i \in 1 .. m \/ i > m)
    BY <1>3, <2>1
  <2>5. \A i \in DOMAIN ready' : job'[ready'[i]].status = "pending"
    BY <1>4, <2>2, <2>3, <2>4
  <2>6. ASSUME NEW a \in DOMAIN ready', NEW b \in DOMAIN ready', a # b
        PROVE  ready'[a] # ready'[b]
    <3>1. CASE a \in 1 .. m /\ b \in 1 .. m
      BY <3>1, <2>1, <2>6 DEF DueRowsPending
    <3>2. CASE a \in 1 .. m /\ b > m
      BY <3>2, <2>2, <2>3
    <3>3. CASE a > m /\ b \in 1 .. m
      BY <3>3, <2>2, <2>3
    <3>4. CASE a > m /\ b > m
      <4>1. a - m \in 1 .. n /\ b - m \in 1 .. n /\ a - m # b - m
        BY <3>4, <2>1, <2>3, <2>4, <2>6
      <4> QED
        BY <4>1, <3>4, <1>3, <2>3
    <3> QED
      BY <3>1, <3>2, <3>3, <3>4, <2>4
  <2> QED
    BY <2>5, <2>6 DEF DueRowsPending
<1>8. AttemptLeft'
  <2>1. \A j \in F : job[j].type \in Types
    BY <1>1 DEF TypeOK, Row
  <2>2. \A t \in Types : 0 < MaxAttempts[t]
    OBVIOUS
  <2> QED
    BY <2>1, <2>2, <1>4, <1>5 DEF AttemptLeft, InStatus
<1>9. WorkerOwnsItsJob'
  BY <1>5 DEF TypeOK, WorkerOwnsItsJob, InStatus
<1>10. FailedAfterAllAttempts'
  BY <1>4, <1>5 DEF FailedAfterAllAttempts, InStatus
<1> QED
  BY <1>6, <1>7, <1>8, <1>9, <1>10

LEMMA PruneKeeps ==
  ASSUME QueueInv, NEW S \in SUBSET Jobs, PruneJobs(S)
  PROVE  QueueInv'
<1> USE DEF QueueInv, PruneJobs, workerVars
<1>1. \A j \in S : job[j].status \in {"done", "failed"} /\ job'[j].status = "absent"
  BY DEF Prunable, Absent
<1>2. \A j \in Jobs \ S : job'[j] = job[j]
  OBVIOUS
<1>3. TypeOK'
  <2>1. \A j \in Jobs : Absent(job[j].type) \in Row
    BY NewRow DEF TypeOK, Row
  <2> QED
    BY <2>1 DEF TypeOK
<1>4. DueRowsPending'
  <2>1. \A i \in DOMAIN ready : ready[i] \in Jobs \ S
    <3>1. \A i \in DOMAIN ready : ready[i] \in Jobs /\ job[ready[i]].status = "pending"
      BY DueRow
    <3> QED
      BY <3>1, <1>1
  <2> QED
    BY <2>1, <1>2 DEF DueRowsPending
<1>5. AttemptLeft'
  BY <1>1, <1>2 DEF AttemptLeft, InStatus
<1>6. WorkerOwnsItsJob'
  BY <1>1, <1>2 DEF TypeOK, WorkerOwnsItsJob
<1>7. FailedAfterAllAttempts'
  BY <1>1, <1>2 DEF FailedAfterAllAttempts, InStatus
<1> QED
  BY <1>3, <1>4, <1>5, <1>6, <1>7

LEMMA DueKeeps ==
  ASSUME QueueInv, NEW j \in Jobs, BecomesDue(j)
  PROVE  QueueInv'
<1> USE DEF QueueInv, BecomesDue, workerVars
<1>1. TypeOK'
  BY DEF TypeOK
<1>2. DueRowsPending'
  <2>1. /\ Len(ready) \in Nat /\ DOMAIN ready = 1 .. Len(ready)
        /\ DOMAIN ready' = 1 .. (Len(ready) + 1) /\ ready'[Len(ready) + 1] = j
        /\ \A i \in DOMAIN ready : ready'[i] = ready[i]
    BY DEF TypeOK
  <2>2. \A i \in DOMAIN ready' : i \in DOMAIN ready \/ i = Len(ready) + 1
    BY <2>1
  <2> QED
    BY <2>1, <2>2 DEF DueRowsPending
<1>3. AttemptLeft' /\ WorkerOwnsItsJob' /\ FailedAfterAllAttempts'
  BY DEF AttemptLeft, WorkerOwnsItsJob, FailedAfterAllAttempts, InStatus
<1> QED
  BY <1>1, <1>2, <1>3

\* The claimed row leaves the due rows and has an attempt left.
LEMMA ClaimKeeps ==
  ASSUME QueueInv, ClaimNext
  PROVE  QueueInv'
<1> USE DEF QueueInv, ClaimNext, WorkerIsFree
<1>1. /\ Len(ready) \in Nat /\ DOMAIN ready = 1 .. Len(ready) /\ 1 \in DOMAIN ready
      /\ NextJob = ready[1] /\ NextJob \in Jobs
      /\ ready' \in Seq(Jobs) /\ DOMAIN ready' = 1 .. (Len(ready) - 1)
      /\ \A i \in DOMAIN ready' : i + 1 \in DOMAIN ready /\ i + 1 # 1 /\ ready'[i] = ready[i + 1]
  BY DEF TypeOK, NextJob
<1>2. job[NextJob].status = "pending" /\ job[NextJob].attempts < MaxAttempts[job[NextJob].type]
      /\ job[NextJob] \in Row
  BY <1>1 DEF DueRowsPending, AttemptLeft, InStatus, TypeOK
<1>8. /\ job' \in [Jobs -> Row]
      /\ \A k \in Jobs : k # NextJob => job'[k] = job[k]
      /\ job'[NextJob].status = "processing"
      /\ job'[NextJob].attempts = job[NextJob].attempts + 1
      /\ job'[NextJob].type = job[NextJob].type
  <2> DEFINE r == [job[NextJob] EXCEPT !.status = "processing", !.attempts = @ + 1]
  <2>1. r \in Row
    BY <1>2, ClaimedRow
  <2>2. job' = [job EXCEPT ![NextJob] = r]
    BY Zenon DEF r
  <2>3. /\ r.status = "processing" /\ r.attempts = job[NextJob].attempts + 1
        /\ r.type = job[NextJob].type
    BY <1>2 DEF Row
  <2> HIDE DEF r
  <2> QED
    BY <1>1, <2>1, <2>2, <2>3 DEF TypeOK
<1>3. TypeOK'
  BY <1>1, <1>2, <1>8 DEF TypeOK, Row
<1>4. \A i \in DOMAIN ready' : ready'[i] \in Jobs /\ ready'[i] # NextJob
  <2>1. \A a, b \in DOMAIN ready : a # b => ready[a] # ready[b]
    BY DEF DueRowsPending
  <2>2. \A i \in DOMAIN ready : ready[i] \in Jobs
    BY DueRow
  <2> QED
    BY <1>1, <2>1, <2>2
<1>5. DueRowsPending'
  <2>1. \A i \in DOMAIN ready' : job'[ready'[i]].status = "pending"
    BY <1>1, <1>4, <1>8 DEF DueRowsPending
  <2>2. ASSUME NEW a \in DOMAIN ready', NEW b \in DOMAIN ready', a # b
        PROVE  ready'[a] # ready'[b]
    <3>1. a + 1 # b + 1
      BY <2>2, <1>1
    <3> QED
      BY <3>1, <1>1 DEF DueRowsPending
  <2> QED
    BY <2>1, <2>2 DEF DueRowsPending
<1>6. AttemptLeft' /\ FailedAfterAllAttempts'
  BY <1>1, <1>8 DEF AttemptLeft, FailedAfterAllAttempts, InStatus
<1>7. WorkerOwnsItsJob'
  <2>1. job[NextJob].attempts \in Nat /\ MaxAttempts[job[NextJob].type] \in Nat
    BY <1>2 DEF Row
  <2> QED
    BY <1>1, <1>2, <1>8, <2>1 DEF WorkerOwnsItsJob
<1> QED
  BY <1>3, <1>5, <1>6, <1>7

\* Settling the running row; a failure needs all the attempts, another round
\* an attempt left.
LEMMA SettleKeeps ==
  ASSUME QueueInv, running # NoJob, NEW status \in JobStatuses,
         NEW kind \in ErrorKinds \cup {NoError, "no handler"}, SettleAs(status, kind),
         status # "processing",
         status = "failed" => (HasHandler(job[running].type) => held + 1 >= MaxAttempts[job[running].type]),
         status = "pending" => held + 1 < MaxAttempts[job[running].type]
  PROVE  QueueInv'
<1> USE DEF QueueInv
<1>1. running \in Jobs /\ job[running] \in Row /\ job[running].type \in Types
  BY DEF TypeOK, Row
<1>2. /\ job' \in [Jobs -> Row]
      /\ \A k \in Jobs : k # running => job'[k] = job[k]
      /\ job'[running].status = status
      /\ job'[running].attempts = job[running].attempts
      /\ job'[running].type = job[running].type
  <2> DEFINE r == [job[running] EXCEPT !.status = status, !.error = kind]
  <2>1. r \in Row
    BY <1>1, SettledRow
  <2>2. job' = [job EXCEPT ![running] = r]
    BY DEF SettleAs
  <2>3. /\ r.status = status /\ r.attempts = job[running].attempts
        /\ r.type = job[running].type
    BY <1>1 DEF Row
  <2> HIDE DEF r
  <2> QED
    BY <1>1, <2>1, <2>2, <2>3 DEF TypeOK
<1>3. TypeOK'
  BY <1>2 DEF TypeOK, SettleAs
<1>4. DueRowsPending'
  <2>1. \A i \in DOMAIN ready : ready[i] \in Jobs /\ ready[i] # running
    <3>1. \A i \in DOMAIN ready : ready[i] \in Jobs /\ job[ready[i]].status = "pending"
      BY DueRow
    <3> QED
      BY <3>1 DEF WorkerOwnsItsJob
  <2> QED
    BY <1>2, <2>1 DEF DueRowsPending, SettleAs
<1>5. /\ held + 1 \in Nat /\ MaxAttempts[job[running].type] \in Nat
      /\ job[running].attempts = held + 1
      /\ held + 1 <= MaxAttempts[job[running].type]
  <2>1. held \in Nat
    BY DEF TypeOK
  <2>2. MaxAttempts[job[running].type] \in Nat
    BY <1>1
  <2>3. held + 1 \in Nat
    BY <2>1, Successor
  <2>4. job[running].attempts = held + 1 /\ held + 1 <= MaxAttempts[job[running].type]
    BY Zenon DEF WorkerOwnsItsJob
  <2> QED
    BY <2>2, <2>3, <2>4
<1>6. AttemptLeft'
  BY <1>1, <1>2, <1>5 DEF AttemptLeft, InStatus
<1>7. WorkerOwnsItsJob'
  BY DEF WorkerOwnsItsJob, SettleAs
<1>8. FailedAfterAllAttempts'
  <2>1. status = "failed" /\ HasHandler(job[running].type)
            => job[running].attempts = MaxAttempts[job[running].type]
    BY <1>5, Between, Zenon
  <2> QED
    BY <1>1, <1>2, <2>1 DEF FailedAfterAllAttempts, InStatus
<1> QED
  BY <1>3, <1>4, <1>6, <1>7, <1>8

LEMMA HandlerKeeps ==
  ASSUME QueueInv, HandlerEnds
  PROVE  QueueInv'
<1>1. CASE HandlerSucceeds
  BY <1>1, SettleKeeps DEF HandlerSucceeds, IsRunning, JobStatuses
<1>2. CASE \E kind \in ErrorKinds : HandlerFails(kind)
  <2>1. PICK kind \in ErrorKinds : HandlerFails(kind)
    BY <1>2
  <2>2. PICK t \in Types :
          /\ IsRunning(t)
          /\ SettleAs(IF kind \in PermanentKinds[t] THEN "done"
                      ELSE IF LastAttempt(t) THEN "failed" ELSE "pending", kind)
    BY <2>1 DEF HandlerFails
  <2>3. held \in Nat /\ MaxAttempts[t] \in Nat
    BY DEF QueueInv, TypeOK
  <2>4. CASE kind \in PermanentKinds[t]
    BY <2>2, <2>4, SettleKeeps DEF IsRunning, JobStatuses
  <2>5. CASE kind \notin PermanentKinds[t] /\ LastAttempt(t)
    BY <2>2, <2>5, SettleKeeps DEF IsRunning, JobStatuses, LastAttempt
  <2>6. CASE kind \notin PermanentKinds[t] /\ ~LastAttempt(t)
    <3>1. held + 1 < MaxAttempts[t]
      BY <2>3, <2>6 DEF LastAttempt
    <3> QED
      BY <2>2, <2>6, <3>1, SettleKeeps DEF IsRunning, JobStatuses
  <2> QED
    BY <2>4, <2>5, <2>6
<1>3. CASE NoHandler
  BY <1>3, SettleKeeps DEF NoHandler, IsRunning, JobStatuses
<1> QED
  BY <1>1, <1>2, <1>3 DEF HandlerEnds

\* Steps that leave the rows alone.
LEMMA RestKeeps ==
  ASSUME QueueInv, TimerFires \/ Drain \/ Process \/ UNCHANGED vars
  PROVE  QueueInv'
<1>1. TypeOK'
  BY DEF QueueInv, TypeOK, TimerFires, Drain, Process, Sigterm, ProcessEnds, Boot, vars
<1>2. DueRowsPending' /\ AttemptLeft' /\ FailedAfterAllAttempts'
  BY DEF QueueInv, DueRowsPending, AttemptLeft, FailedAfterAllAttempts, InStatus,
         TimerFires, Drain, Process, Sigterm, ProcessEnds, Boot, vars
<1>3. WorkerOwnsItsJob'
  BY DEF QueueInv, WorkerOwnsItsJob, TimerFires, Drain, Process, Sigterm, ProcessEnds, Boot, vars
<1> QED
  BY <1>1, <1>2, <1>3 DEF QueueInv

LEMMA QueueStep == QueueInv /\ [Next]_vars => QueueInv'
<1> SUFFICES ASSUME QueueInv, [Next]_vars PROVE QueueInv'
  OBVIOUS
<1>1. CASE Requests
  BY <1>1, EnqueueKeeps, RetryKeeps, PruneKeeps, DueKeeps DEF Requests
<1>2. CASE Worker
  BY <1>2, RestKeeps, ClaimKeeps, HandlerKeeps DEF Worker
<1>3. CASE Process \/ UNCHANGED vars
  BY <1>3, RestKeeps
<1> QED
  BY <1>1, <1>2, <1>3 DEF Next

\* The rows and the worker are well typed whatever requests, handlers and
\* restarts do.
THEOREM QueueTypeCorrect == Spec => []TypeOK
<1>1. QueueInv => TypeOK
  BY DEF QueueInv
<1> QED
  BY <1>1, InitQueue, QueueStep, PTL DEF Spec

\* Nothing touches the row of the job whose handler is awaited.
THEOREM WorkerKeepsItsJob == Spec => []WorkerOwnsItsJob
<1>1. QueueInv => WorkerOwnsItsJob
  BY DEF QueueInv
<1> QED
  BY <1>1, InitQueue, QueueStep, PTL DEF Spec

\* A job with a handler fails only when its attempts are used up.
THEOREM FailureUsesAllAttempts == Spec => []FailedAfterAllAttempts
<1>1. QueueInv => FailedAfterAllAttempts
  BY DEF QueueInv
<1> QED
  BY <1>1, InitQueue, QueueStep, PTL DEF Spec

\* No step removes a job that is waiting or in flight.
THEOREM UnfinishedJobsStay == Spec => AlwaysUnfinishedJobKept
<1>1. QueueInv /\ [Next]_vars => [UnfinishedJobKept]_vars
  <2> SUFFICES ASSUME QueueInv, Next PROVE UnfinishedJobKept
    OBVIOUS
  <2>1. CASE Requests
    BY <2>1 DEF Requests, Enqueue, RetryFailed, Requeue, PruneJobs, Prunable, BecomesDue,
                UnfinishedJobKept, InStatus, QueueInv, TypeOK, Row
  <2>2. CASE ClaimNext
    <3>1. NextJob \in Jobs
      BY <2>2 DEF ClaimNext, NextJob, QueueInv, TypeOK
    <3> QED
      BY <2>2, <3>1 DEF ClaimNext, UnfinishedJobKept, InStatus, QueueInv, TypeOK, Row
  <2>3. CASE HandlerEnds
    <3>1. PICK status \in JobStatuses, kind \in ErrorKinds \cup {NoError, "no handler"} :
            SettleAs(status, kind) /\ running # NoJob
      BY <2>3 DEF HandlerEnds, HandlerSucceeds, HandlerFails, NoHandler, IsRunning, JobStatuses
    <3>2. running \in Jobs /\ job[running] \in Row
      BY <3>1 DEF QueueInv, TypeOK
    <3>3. job' = [job EXCEPT ![running] = [job[running] EXCEPT !.status = status, !.error = kind]]
      BY <3>1 DEF SettleAs
    <3>4. \A k \in Jobs : job'[k].status \in {job[k].status, status}
      BY <3>2, <3>3 DEF QueueInv, TypeOK, Row
    <3> QED
      BY <3>4 DEF UnfinishedJobKept, InStatus, JobStatuses
  <2>4. CASE TimerFires \/ Drain \/ Process
    BY <2>4 DEF TimerFires, Drain, Process, Sigterm, ProcessEnds, Boot, UnfinishedJobKept,
                InStatus
  <2> QED
    BY <2>1, <2>2, <2>3, <2>4 DEF Next, Worker
<1> QED
  BY <1>1, InitQueue, QueueStep, PTL DEF Spec, AlwaysUnfinishedJobKept

-----------------------------------------------------------------------------
(* Rows forgotten in processing. *)

Orphans == InStatus({"processing"}) \ {running}

OrphansCounted == Cardinality(Orphans) <= restarts

\* A step of anything but the process's end forgets no row.
LEMMA NoNewOrphan ==
  ASSUME QueueInv, Requests \/ Worker \/ Sigterm \/ Boot
  PROVE  Orphans' \subseteq Orphans /\ restarts' = restarts
<1>0. job \in [Jobs -> Row] /\ \A j \in Jobs : job[j] \in Row
  BY DEF QueueInv, TypeOK
<1>1. CASE Requests
  <2>1. UNCHANGED workerVars
    BY <1>1 DEF Requests, Enqueue, RetryFailed, PruneJobs, BecomesDue
  <2>2. \A k \in Jobs : job'[k] = job[k] \/ job'[k].status \in {"pending", "absent"}
    <3>1. ASSUME NEW j \in Jobs, NEW t \in Types, Enqueue(j, t)
          PROVE  \A k \in Jobs : job'[k] = job[k] \/ job'[k].status \in {"pending", "absent"}
      BY <1>0, <3>1 DEF Enqueue
    <3>2. ASSUME NEW S \in SUBSET Jobs, RetryFailed(S)
          PROVE  \A k \in Jobs : job'[k] = job[k] \/ job'[k].status \in {"pending", "absent"}
      BY <1>0, <3>2 DEF RetryFailed, Requeue, Row
    <3>3. ASSUME NEW S \in SUBSET Jobs, PruneJobs(S)
          PROVE  \A k \in Jobs : job'[k] = job[k] \/ job'[k].status \in {"pending", "absent"}
      BY <1>0, <3>3 DEF PruneJobs, Absent
    <3>4. ASSUME NEW j \in Jobs, BecomesDue(j) PROVE job' = job
      BY <3>4 DEF BecomesDue
    <3> QED BY <1>1, <3>1, <3>2, <3>3, <3>4 DEF Requests
  <2> QED BY <2>1, <2>2 DEF workerVars, Orphans, InStatus
<1>2. CASE ClaimNext
  <2>1. NextJob \in Jobs /\ running' = NextJob /\ running = NoJob /\ restarts' = restarts
    BY <1>2 DEF ClaimNext, WorkerIsFree, NextJob, QueueInv, TypeOK
  <2>2. \A k \in Jobs : k # NextJob => job'[k] = job[k]
    BY <1>2 DEF ClaimNext
  <2> QED BY <2>1, <2>2 DEF Orphans, InStatus
<1>3. CASE HandlerEnds
  <2>1. PICK status \in {"done", "failed", "pending"}, kind \in ErrorKinds \cup {NoError, "no handler"} :
          SettleAs(status, kind) /\ running # NoJob
    BY <1>3 DEF HandlerEnds, HandlerSucceeds, HandlerFails, NoHandler, IsRunning
  <2>2. running \in Jobs /\ job[running] \in Row
    BY <1>0, <2>1 DEF QueueInv, TypeOK
  <2>3. /\ job' = [job EXCEPT ![running] = [job[running] EXCEPT !.status = status, !.error = kind]]
        /\ restarts' = restarts
    BY <2>1 DEF SettleAs
  <2>4. job'[running].status = status /\ \A k \in Jobs : k # running => job'[k] = job[k]
    BY <1>0, <2>2, <2>3 DEF Row
  <2> QED BY <2>1, <2>3, <2>4 DEF Orphans, InStatus
<1>4. CASE TimerFires \/ Drain \/ Sigterm \/ Boot
  BY <1>4 DEF TimerFires, Drain, Sigterm, Boot, Orphans, InStatus
<1> QED BY <1>1, <1>2, <1>3, <1>4 DEF Worker

LEMMA OrphanStep == QueueInv /\ OrphansCounted /\ [Next]_vars => OrphansCounted'
<1> SUFFICES ASSUME QueueInv, OrphansCounted, [Next]_vars PROVE OrphansCounted'
  OBVIOUS
<1>0. /\ IsFiniteSet(Orphans) /\ Cardinality(Orphans) \in Nat /\ restarts \in Nat
  <2>1. IsFiniteSet(Orphans)
    BY FS_Subset DEF Orphans, InStatus
  <2> QED BY <2>1, FS_CardinalityType DEF QueueInv, TypeOK
<1>1. CASE Requests \/ Worker \/ Sigterm \/ Boot
  <2>1. Orphans' \subseteq Orphans /\ restarts' = restarts
    BY <1>1, NoNewOrphan
  <2>2. Cardinality(Orphans') <= Cardinality(Orphans) /\ Cardinality(Orphans') \in Nat
    BY <1>0, <2>1, FS_Subset, FS_CardinalityType
  <2> QED BY <1>0, <2>1, <2>2 DEF OrphansCounted
<1>2. CASE ProcessEnds
  <2>1. Orphans' \subseteq Orphans \cup {running} /\ restarts' = restarts + 1
    BY <1>2 DEF ProcessEnds, Orphans, InStatus
  <2>2. /\ IsFiniteSet(Orphans \cup {running})
        /\ Cardinality(Orphans \cup {running}) <= Cardinality(Orphans) + 1
        /\ Cardinality(Orphans \cup {running}) \in Nat
    <3>1. running \notin Orphans
      BY DEF Orphans
    <3> QED BY <1>0, <3>1, FS_AddElement
  <2>3. Cardinality(Orphans') <= Cardinality(Orphans \cup {running}) /\ Cardinality(Orphans') \in Nat
    BY <2>1, <2>2, FS_Subset, FS_CardinalityType
  <2> QED BY <1>0, <2>1, <2>2, <2>3 DEF OrphansCounted
<1>3. CASE UNCHANGED vars
  BY <1>3 DEF vars, OrphansCounted, Orphans, InStatus
<1> QED BY <1>1, <1>2, <1>3 DEF Next, Process

\* The worker has one job in flight, whatever the timer, the retries and the restarts do:
\* every other row in processing was forgotten by an end of the process of its own.
THEOREM OneInFlight == Spec => []OneJobInFlight
<1>1. Init => OrphansCounted
  <2> SUFFICES ASSUME Init PROVE OrphansCounted
    OBVIOUS
  <2>1. Orphans = {} /\ restarts = 0
    BY DEF Init, Absent, Orphans, InStatus
  <2> QED BY <2>1, FS_EmptySet DEF OrphansCounted
<1>2. QueueInv /\ OrphansCounted => OneJobInFlight
  <2> SUFFICES ASSUME QueueInv, OrphansCounted PROVE OneJobInFlight
    OBVIOUS
  <2> DEFINE P == InStatus({"processing"})
  <2>1. IsFiniteSet(P) /\ P \subseteq Orphans \cup {running} /\ restarts \in Nat
    BY FS_Subset DEF InStatus, Orphans, QueueInv, TypeOK
  <2>2. IsFiniteSet(Orphans) /\ running \notin Orphans
    BY <2>1, FS_Subset DEF Orphans
  <2>3. /\ IsFiniteSet(Orphans \cup {running}) /\ Cardinality(Orphans) \in Nat
        /\ Cardinality(Orphans \cup {running}) = Cardinality(Orphans) + 1
    BY <2>2, FS_AddElement, FS_CardinalityType
  <2>4. Cardinality(P) <= Cardinality(Orphans \cup {running}) /\ Cardinality(P) \in Nat
    BY <2>1, <2>3, FS_Subset, FS_CardinalityType
  <2> QED BY <2>1, <2>3, <2>4 DEF OrphansCounted, OneJobInFlight
<1> QED BY <1>1, <1>2, InitQueue, QueueStep, OrphanStep, PTL DEF Spec

-----------------------------------------------------------------------------
(* The composition and the queue *)

\* Every action of the composition is built on an action of JobQueue or leaves
\* the queue, so what is known of JobQueue holds here.
LEMMA MailStepIsQueueStep == [MailNext]_allVars => [Next]_vars
<1> SUFFICES ASSUME [MailNext]_allVars PROVE Next \/ UNCHANGED vars
  OBVIOUS
<1>1. CASE OperatorStep
  <2>1. ASSUME NEW t \in Trucks, NEW j \in Jobs, SendTruckArrivalMail(t, j)
        PROVE  Next
    <3>1. Enqueue(j, TruckMailType) /\ TruckMailType \in Types
      BY <2>1, TruckMailAssumption DEF SendTruckArrivalMail
    <3> QED BY <3>1 DEF Next, Requests
  <2> QED BY <1>1, <2>1 DEF OperatorStep, CreateTruckArrival, UpdateTruckArrival,
                            MarkTruckMailSent, DeleteTruckArrival
<1>2. CASE ClaimMail
  BY <1>2 DEF ClaimMail, Next, Worker
<1>3. CASE MailHandlerStep
  <2>1. "gone" \in ErrorKinds /\ "network" \in ErrorKinds /\ Failures \subseteq ErrorKinds
    BY TruckMailAssumption DEF ErrorKinds, MailErrors
  <2>2. CASE ServerAccepts \/ AnswerArrives
    BY <2>2 DEF ServerAccepts, AnswerArrives
  <2>3. CASE TruckMissing \/ AlreadySent \/ AnswerLost \/ MailDone \/ NotClosed
    BY <2>1, <2>3 DEF TruckMissing, AlreadySent, AnswerLost, MailDone, NotClosed,
                      Next, Worker, HandlerEnds
  <2>4. ASSUME NEW kind \in Failures, SendFails(kind) PROVE Next
    BY <2>1, <2>4 DEF SendFails, Next, Worker, HandlerEnds
  <2> QED BY <1>3, <2>2, <2>3, <2>4 DEF MailHandlerStep
<1>4. CASE \E S \in SUBSET Jobs : RetryMails(S)
  BY <1>4 DEF RetryMails, Next, Requests
<1>5. CASE Elsewhere \/ MailProcessEnds
  BY <1>5 DEF Elsewhere, MailProcessEnds, Next, Requests, Worker, Process
<1>6. CASE UNCHANGED allVars
  BY <1>6 DEF allVars
<1> QED BY <1>1, <1>2, <1>3, <1>4, <1>5, <1>6 DEF MailNext

-----------------------------------------------------------------------------
(* The invariant *)

\* A row of the queue has its payload; a present record has its fields.
Linked ==
    /\ \A j \in Jobs : job[j].status # "absent" => payload[j] # Nothing
    /\ \A t \in Trucks : Present(t) => truck[t].content \in Record
    /\ \A t \in Trucks : truck[t].there = "new" => truck[t].version = 0

\* The version of a payload is still that of the record only while the record is linked to
\* the job and shows its text.
Current ==
    \A j \in Jobs : payload[j] # Nothing =>
        LET t == payload[j].truck IN
        /\ payload[j].version > 0 /\ payload[j].version <= truck[t].version
        /\ payload[j].version = truck[t].version =>
              truck[t].link = j /\ truck[t].snapshot = payload[j].content

\* A mail has the text of its job; the one the handler awaits is the last.
Bodies ==
    /\ \A i \in DOMAIN mailbox :
          /\ payload[mailbox[i].job] # Nothing
          /\ mailbox[i].body = payload[mailbox[i].job].content
    /\ seen = "accepted" => Len(mailbox) > 0 /\ mailbox[Len(mailbox)].job = running

\* The job of an acknowledged mail is done, pruned or forgotten in processing, or the
\* handler that was told is about to end.
Acked ==
    \A i \in DOMAIN mailbox : mailbox[i].acked =>
        /\ job[mailbox[i].job].status \in {"done", "absent", "processing"}
        /\ running = mailbox[i].job => seen \in {"closed", "not closed"}

Messages ==
    \A t \in Trucks : truck[t].message # 0 =>
        /\ truck[t].message \in DOMAIN mailbox
        /\ mailbox[truck[t].message].job = truck[t].link
        /\ mailbox[truck[t].message].body = truck[t].snapshot

MailInv == MailTypeOK /\ QueueInv /\ Linked /\ Current /\ Bodies /\ Acked /\ Messages

-----------------------------------------------------------------------------
(* It is inductive. *)

\* The rows of the queue as the mails see them: no row is lost, and a row that is done,
\* pruned or forgotten does not come back.
Steady ==
    /\ \A k \in Jobs : job'[k].status # "absent" => job[k].status # "absent"
    /\ \A k \in Jobs :
          /\ job[k].status \in {"done", "absent", "processing"}
          /\ running = k => seen \in {"closed", "not closed"}
          => job'[k].status \in {"done", "absent", "processing"} /\ (running' = k => running = k)

LEMMA MailsTyped ==
    ASSUME MailTypeOK
    PROVE  \A i \in DOMAIN mailbox : mailbox[i] \in Mail /\ mailbox[i].job \in Jobs
<1>1. mailbox \in Seq(Mail)
  BY DEF MailTypeOK
<1>2. \A i \in DOMAIN mailbox : mailbox[i] \in Mail
  BY <1>1, LenProperties, ElementOfSeq
<1> QED BY <1>2 DEF Mail

LEMMA NextJobWaits ==
    ASSUME QueueInv, ClaimNext
    PROVE  NextJob \in Jobs /\ job[NextJob].status = "pending"
<1>1. 1 \in DOMAIN ready /\ NextJob = ready[1]
  BY DEF ClaimNext, QueueInv, TypeOK, NextJob
<1>2. \A i \in DOMAIN ready : ready[i] \in Jobs /\ job[ready[i]].status = "pending"
  BY DueRow DEF QueueInv
<1> QED BY <1>1, <1>2

LEMMA QueueSteady ==
    ASSUME QueueInv,
           \/ \E S \in SUBSET Jobs : RetryFailed(S) \/ PruneJobs(S)
           \/ \E j \in Jobs : BecomesDue(j)
           \/ TimerFires \/ ClaimNext \/ Drain \/ Sigterm \/ Boot \/ ProcessEnds
    PROVE  Steady
<1> USE DEF QueueInv, TypeOK
<1>0. \A j \in Jobs : job[j] \in Row
  OBVIOUS
<1>1. ASSUME NEW S \in SUBSET Jobs, RetryFailed(S) PROVE Steady
  BY <1>0, <1>1 DEF RetryFailed, Requeue, Steady, Row, workerVars
<1>2. ASSUME NEW S \in SUBSET Jobs, PruneJobs(S) PROVE Steady
  BY <1>0, <1>2 DEF PruneJobs, Prunable, Absent, Steady, Row, workerVars
<1>3. CASE ClaimNext
  <2>1. \A k \in Jobs : k # NextJob => job'[k] = job[k]
    BY <1>3 DEF ClaimNext
  <2>2. running' = NextJob
    BY <1>3 DEF ClaimNext
  <2> QED BY <1>3, <2>1, <2>2, NextJobWaits DEF Steady
<1>4. CASE (\E j \in Jobs : BecomesDue(j)) \/ TimerFires \/ Drain \/ Sigterm \/ Boot \/ ProcessEnds
  BY <1>4, JobsAssumption DEF BecomesDue, TimerFires, Drain, Sigterm, Boot, ProcessEnds, Steady, workerVars
<1> QED BY <1>1, <1>2, <1>3, <1>4

\* A step of the queue that leaves records, payloads and mails alone.
LEMMA SteadyKeeps ==
    ASSUME MailInv, QueueInv', Steady, UNCHANGED <<truck, payload, mailbox>>,
           seen' \in Record \cup {Nothing, "missing", "already sent", "accepted", "closed", "not closed"},
           (running' = NoJob) = (seen' = Nothing),
           requeued' \subseteq Jobs,
           seen' # "accepted" \/ (seen = "accepted" /\ running' = running),
           running' = running => seen' = seen
    PROVE  MailInv'
<1>1. MailTypeOK'
  BY DEF MailInv, MailTypeOK, QueueInv
<1>2. Linked'
  BY DEF MailInv, Linked, Steady, Present
<1>3. Current' /\ Messages'
  BY DEF MailInv, Current, Messages
<1>4. Bodies'
  BY DEF MailInv, Bodies
<1>5. \A i \in DOMAIN mailbox : mailbox[i].job \in Jobs
  BY MailsTyped DEF MailInv
<1>6. Acked'
  <2> SUFFICES ASSUME NEW i \in DOMAIN mailbox, mailbox[i].acked
               PROVE  /\ job'[mailbox[i].job].status \in {"done", "absent", "processing"}
                      /\ running' = mailbox[i].job => seen' \in {"closed", "not closed"}
    BY DEF Acked
  <2>1. /\ job[mailbox[i].job].status \in {"done", "absent", "processing"}
        /\ running = mailbox[i].job => seen \in {"closed", "not closed"}
    BY DEF MailInv, Acked
  <2>2. /\ job'[mailbox[i].job].status \in {"done", "absent", "processing"}
        /\ running' = mailbox[i].job => running = mailbox[i].job
    BY <1>5, <2>1 DEF Steady
  <2> QED BY <2>1, <2>2
<1> QED BY <1>1, <1>2, <1>3, <1>4, <1>6 DEF MailInv

\* The queue's own steps, the handler's claim and the end of the process.
LEMMA QueueKeepsMail ==
    ASSUME MailInv, QueueInv',
           ClaimMail \/ Elsewhere \/ MailProcessEnds \/ \E S \in SUBSET Jobs : RetryMails(S)
    PROVE  MailInv'
<1>0. /\ seen \in Record \cup {Nothing, "missing", "already sent", "accepted", "closed", "not closed"}
      /\ (running = NoJob) = (seen = Nothing) /\ requeued \subseteq Jobs /\ QueueInv
  BY DEF MailInv, MailTypeOK
<1>1. CASE ClaimMail
  <2>1. /\ ClaimNext /\ seen' = ReadTruck(payload[NextJob].truck)
        /\ UNCHANGED <<truck, payload, mailbox, requeued>>
    BY <1>1 DEF ClaimMail
  <2>2. NextJob \in Jobs /\ job[NextJob].status = "pending"
    BY <1>0, <2>1, NextJobWaits
  <2>3. payload[NextJob] \in Payload
    BY <2>2 DEF MailInv, MailTypeOK, Linked
  <2>4. seen' \in Record \cup {"missing", "already sent"}
    BY <2>1, <2>3 DEF ReadTruck, MailInv, Linked, Payload
  <2>5. seen' # Nothing /\ seen' # "accepted"
    BY <2>4, TruckMailAssumption DEF Record
  <2>6. running' = NextJob /\ running = NoJob /\ NextJob # NoJob
    BY <2>1, <2>2, JobsAssumption DEF ClaimNext, WorkerIsFree
  <2>7. Steady
    BY <1>0, <2>1, QueueSteady
  <2> QED BY <1>0, <2>1, <2>4, <2>5, <2>6, <2>7, SteadyKeeps
<1>2. CASE Elsewhere
  <2>1. UNCHANGED mailVars /\ running' = running /\ Steady
    <3>1. UNCHANGED mailVars /\ running' = running
      BY <1>2 DEF Elsewhere, PruneJobs, BecomesDue, TimerFires, Drain, Sigterm, Boot, workerVars
    <3>2. Steady
      BY <1>0, <1>2, QueueSteady DEF Elsewhere
    <3> QED BY <3>1, <3>2
  <2> QED BY <1>0, <2>1, SteadyKeeps DEF mailVars
<1>3. CASE MailProcessEnds
  <2>1. ProcessEnds /\ seen' = Nothing /\ UNCHANGED <<truck, payload, mailbox, requeued>>
    BY <1>3 DEF MailProcessEnds, Return
  <2>2. running' = NoJob /\ Steady
    BY <1>0, <2>1, QueueSteady DEF ProcessEnds
  <2>3. Nothing # "accepted"
    BY TruckMailAssumption
  <2> QED BY <1>0, <2>1, <2>2, <2>3, SteadyKeeps
<1>4. ASSUME NEW S \in SUBSET Jobs, RetryMails(S) PROVE MailInv'
  <2>1. /\ RetryFailed(S) /\ UNCHANGED <<truck, payload, mailbox, seen>>
        /\ requeued' \subseteq Jobs
    BY <1>0, <1>4 DEF RetryMails
  <2>2. running' = running /\ Steady
    BY <1>0, <2>1, QueueSteady DEF RetryFailed, workerVars
  <2> QED BY <1>0, <2>1, <2>2, SteadyKeeps
<1> QED BY <1>1, <1>2, <1>3, <1>4

LEMMA GonePermanent == "gone" \in PermanentKinds[TruckMailType]
BY DEF PermanentKinds, KindsOf, TruckMailType

\* The handler ends: a job whose mail was acknowledged is done.
LEMMA SettleKeepsMail ==
    ASSUME MailInv, QueueInv',
           \/ TruckMissing \/ AlreadySent \/ (\E kind \in Failures : SendFails(kind))
           \/ AnswerLost \/ MailDone \/ NotClosed
    PROVE  MailInv'
<1>0. /\ seen \in Record \cup {Nothing, "missing", "already sent", "accepted", "closed", "not closed"}
      /\ (running = NoJob) = (seen = Nothing) /\ requeued \subseteq Jobs /\ QueueInv
      /\ running \in Jobs \cup {NoJob} /\ job \in [Jobs -> Row]
  BY DEF MailInv, MailTypeOK, QueueInv, TypeOK
<1>1. /\ seen' = Nothing /\ UNCHANGED <<truck, payload, mailbox, requeued>>
  BY DEF TruckMissing, AlreadySent, SendFails, AnswerLost, MailDone, NotClosed, Return
<1>2. PICK status \in {"done", "failed", "pending"}, kind \in ErrorKinds \cup {NoError} :
         /\ SettleAs(status, kind) /\ running # NoJob
         /\ seen \in {"closed", "not closed"} => status = "done"
  <2>1. ASSUME NEW kind \in ErrorKinds, HandlerFails(kind), seen \notin {"closed"},
               seen = "not closed" => kind = "gone"
        PROVE  \E status \in {"done", "failed", "pending"} :
                  /\ SettleAs(status, kind) /\ running # NoJob
                  /\ seen \in {"closed", "not closed"} => status = "done"
    <3>1. PICK t \in Types :
             /\ IsRunning(t)
             /\ SettleAs(IF kind \in PermanentKinds[t] THEN "done"
                         ELSE IF LastAttempt(t) THEN "failed" ELSE "pending", kind)
      BY <2>1 DEF HandlerFails
    <3>2. t = TruckMailType
      BY TruckMailAssumption
    <3>3. CASE kind \in PermanentKinds[t]
      BY <3>1, <3>3 DEF IsRunning
    <3>4. CASE kind \notin PermanentKinds[t]
      <4>1. seen \notin {"closed", "not closed"}
        BY <2>1, <3>2, <3>4, GonePermanent
      <4> QED BY <3>1, <3>4, <4>1 DEF IsRunning
    <3> QED BY <3>3, <3>4
  <2>2. CASE AlreadySent \/ MailDone
    BY <2>2 DEF AlreadySent, MailDone, HandlerSucceeds, IsRunning
  <2>3. seen \in Record => seen \notin {"closed", "not closed"}
    BY TruckMailAssumption DEF Record
  <2>4. "gone" \in ErrorKinds /\ "network" \in ErrorKinds /\ Failures \subseteq ErrorKinds
    BY TruckMailAssumption DEF ErrorKinds, MailErrors
  <2>5. CASE TruckMissing \/ NotClosed
    BY <2>1, <2>4, <2>5 DEF TruckMissing, NotClosed
  <2>6. CASE AnswerLost
    BY <2>1, <2>4, <2>6 DEF AnswerLost
  <2>7. ASSUME NEW kind \in Failures, SendFails(kind)
        PROVE  \E status \in {"done", "failed", "pending"} :
                  /\ SettleAs(status, kind) /\ running # NoJob
                  /\ seen \in {"closed", "not closed"} => status = "done"
    BY <2>1, <2>3, <2>4, <2>7 DEF SendFails
  <2> QED BY <2>2, <2>4, <2>5, <2>6, <2>7
<1>3. running' = NoJob /\ running \in Jobs
  BY <1>0, <1>2 DEF SettleAs
<1>4. /\ \A k \in Jobs : k # running => job'[k] = job[k]
      /\ job'[running].status = status /\ job[running].status = "processing"
  <2>1. job[running] \in Row
    BY <1>0, <1>3
  <2>2. job' = [job EXCEPT ![running] = [job[running] EXCEPT !.status = status, !.error = kind]]
    BY <1>2 DEF SettleAs
  <2>3. job[running].status = "processing"
    BY <1>0, <1>2 DEF QueueInv, WorkerOwnsItsJob
  <2> QED BY <1>0, <1>3, <2>1, <2>2, <2>3 DEF Row
<1>5. Steady
  BY <1>2, <1>3, <1>4, JobsAssumption DEF Steady
<1>6. Nothing # "accepted" /\ running' # running
  BY <1>3, TruckMailAssumption, JobsAssumption
<1> QED BY <1>0, <1>1, <1>3, <1>5, <1>6, SteadyKeeps

\* Records an operator creates, edits, marks or deletes: the version of a record never falls,
\* and where it stays the link, the snapshot and the message stay.
LEMMA RecordKeeps ==
    ASSUME MailInv, UNCHANGED <<vars, payload, mailbox, seen, requeued>>,
           NEW t \in Trucks, NEW r \in TruckRow, truck' = [truck EXCEPT ![t] = r],
           r.there = "present" => r.content \in Record,
           r.there = "new" => r.version = 0,
           r.version >= truck[t].version,
           \/ r.version = truck[t].version /\ truck[t].version = 0 /\ r.message = 0
           \/ /\ r.version = truck[t].version /\ r.link = truck[t].link
              /\ r.snapshot = truck[t].snapshot /\ r.message = truck[t].message
           \/ r.version > truck[t].version /\ r.message = 0
    PROVE  MailInv'
<1>0. /\ truck \in [Trucks -> TruckRow] /\ payload \in [Jobs -> Payload \cup {Nothing}]
      /\ r.version \in Nat /\ truck[t].version \in Nat
  BY DEF MailInv, MailTypeOK, TruckRow
<1>1. MailTypeOK' /\ QueueInv'
  BY <1>0, RestKeeps DEF MailInv, MailTypeOK, vars, TypeOK
<1>2. \A u \in Trucks : truck'[u] = IF u = t THEN r ELSE truck[u]
  BY <1>0
<1>3. Linked'
  BY <1>2 DEF MailInv, Linked, Present, vars
<1>4. Current'
  <2> SUFFICES ASSUME NEW j \in Jobs, payload[j] # Nothing
               PROVE  LET u == payload[j].truck IN
                      /\ payload[j].version > 0 /\ payload[j].version <= truck'[u].version
                      /\ payload[j].version = truck'[u].version =>
                            truck'[u].link = j /\ truck'[u].snapshot = payload[j].content
    BY DEF Current
  <2>1. payload[j].truck \in Trucks /\ payload[j].version \in Nat
    BY <1>0 DEF Payload
  <2>2. LET u == payload[j].truck IN
        /\ payload[j].version > 0 /\ payload[j].version <= truck[u].version
        /\ payload[j].version = truck[u].version =>
              truck[u].link = j /\ truck[u].snapshot = payload[j].content
    BY DEF MailInv, Current
  <2> QED BY <1>0, <1>2, <2>1, <2>2
<1>5. Messages'
  BY <1>2 DEF MailInv, Messages
<1>6. Bodies' /\ Acked'
  BY DEF MailInv, Bodies, Acked, vars
<1> QED BY <1>1, <1>3, <1>4, <1>5, <1>6 DEF MailInv

LEMMA MarkedRow ==
    ASSUME NEW q \in TruckRow, NEW c \in Record
    PROVE  [q EXCEPT !.sent = TRUE, !.version = @ + 1, !.snapshot = c, !.message = 0] \in TruckRow
<1>1. q.version + 1 \in Nat /\ 0 \in Nat
  BY DEF TruckRow
<1>2. [q EXCEPT !.sent = TRUE] \in TruckRow
  BY DEF TruckRow
<1> DEFINE a == [q EXCEPT !.sent = TRUE]
           b == [a EXCEPT !.version = q.version + 1]
           d == [b EXCEPT !.snapshot = c]
<1>3. b \in TruckRow
  BY <1>1, <1>2 DEF TruckRow
<1>4. d \in TruckRow
  BY <1>3 DEF TruckRow
<1>5. [d EXCEPT !.message = 0] \in TruckRow
  BY <1>1, <1>4 DEF TruckRow
<1>6. [q EXCEPT !.sent = TRUE, !.version = @ + 1, !.snapshot = c, !.message = 0]
        = [d EXCEPT !.message = 0]
  BY DEF TruckRow
<1> QED BY <1>5, <1>6

LEMMA OperatorKeeps ==
    ASSUME MailInv, NEW t \in Trucks,
           \/ \E c \in Record : CreateTruckArrival(t, c) \/ UpdateTruckArrival(t, c)
           \/ MarkTruckMailSent(t) \/ DeleteTruckArrival(t)
    PROVE  MailInv'
<1>0. truck[t] \in TruckRow /\ truck \in [Trucks -> TruckRow]
  BY DEF MailInv, MailTypeOK
<1>1. ASSUME NEW c \in Record, CreateTruckArrival(t, c) PROVE MailInv'
  <2> DEFINE r == [NewTruck EXCEPT !.there = "present", !.content = c]
  <2>1. r \in TruckRow /\ r.there = "present" /\ r.content = c /\ r.version = 0 /\ r.message = 0
    BY DEF NewTruck, TruckRow
  <2>2. truck' = [truck EXCEPT ![t] = r] /\ UNCHANGED <<vars, payload, mailbox, seen, requeued>>
    BY <1>1 DEF CreateTruckArrival
  <2>3. truck[t].version = 0
    BY <1>1 DEF CreateTruckArrival, MailInv, Linked
  <2> HIDE DEF r
  <2>4. /\ r.version = truck[t].version /\ r.version >= truck[t].version
        /\ r.there # "new" /\ (r.there = "present" => r.content \in Record)
    BY <2>1, <2>3
  <2> QED BY <2>1, <2>2, <2>3, <2>4, RecordKeeps
<1>2. ASSUME NEW c \in Record, UpdateTruckArrival(t, c) PROVE MailInv'
  <2> DEFINE r == [truck[t] EXCEPT !.content = c]
  <2>1. /\ r \in TruckRow /\ r.there = "present" /\ r.content = c /\ r.version = truck[t].version
        /\ r.link = truck[t].link /\ r.snapshot = truck[t].snapshot /\ r.message = truck[t].message
        /\ r.version >= truck[t].version
    BY <1>0, <1>2 DEF UpdateTruckArrival, Present, TruckRow
  <2>2. truck' = [truck EXCEPT ![t] = r] /\ UNCHANGED <<vars, payload, mailbox, seen, requeued>>
    BY <1>2 DEF UpdateTruckArrival
  <2> HIDE DEF r
  <2> QED BY <2>1, <2>2, RecordKeeps
<1>3. CASE MarkTruckMailSent(t)
  <2> DEFINE r == [truck[t] EXCEPT !.sent = TRUE, !.version = @ + 1,
                                   !.snapshot = truck[t].content, !.message = 0]
  <2>1. truck[t].there = "present" /\ truck[t].content \in Record
    BY <1>3 DEF MarkTruckMailSent, Present, MailInv, Linked
  <2>0. truck[t].version \in Nat
    BY <1>0 DEF TruckRow
  <2>2. r \in TruckRow /\ r.there = "present" /\ r.content \in Record
        /\ r.version > truck[t].version /\ r.version >= truck[t].version /\ r.message = 0
    <3>1. /\ r.there = "present" /\ r.content \in Record /\ r.version = truck[t].version + 1
          /\ r.message = 0
      BY <1>0, <2>1 DEF TruckRow
    <3>2. r \in TruckRow
      BY <1>0, <2>1, MarkedRow
    <3> HIDE DEF r
    <3> QED BY <2>0, <3>1, <3>2
  <2>3. truck' = [truck EXCEPT ![t] = r] /\ UNCHANGED <<vars, payload, mailbox, seen, requeued>>
    BY <1>3 DEF MarkTruckMailSent
  <2> HIDE DEF r
  <2> QED BY <2>2, <2>3, RecordKeeps
<1>4. CASE DeleteTruckArrival(t)
  <2> DEFINE r == [truck[t] EXCEPT !.there = "deleted"]
  <2>1. /\ r \in TruckRow /\ r.there = "deleted" /\ r.version = truck[t].version
        /\ r.link = truck[t].link /\ r.snapshot = truck[t].snapshot /\ r.message = truck[t].message
        /\ r.version >= truck[t].version
    BY <1>0 DEF TruckRow
  <2>2. truck' = [truck EXCEPT ![t] = r] /\ UNCHANGED <<vars, payload, mailbox, seen, requeued>>
    BY <1>4 DEF DeleteTruckArrival
  <2> HIDE DEF r
  <2> QED BY <2>1, <2>2, RecordKeeps
<1> QED BY <1>1, <1>2, <1>3, <1>4

LEMMA QueuedRow ==
    ASSUME NEW q \in TruckRow, NEW c \in Record, NEW j \in Jobs, NEW v \in Nat
    PROVE  [q EXCEPT !.link = j, !.version = v, !.snapshot = c, !.message = 0] \in TruckRow
<1> DEFINE a == [q EXCEPT !.link = j]
           b == [a EXCEPT !.version = v]
           d == [b EXCEPT !.snapshot = c]
<1>1. a \in TruckRow
  BY DEF TruckRow
<1>2. b \in TruckRow
  BY <1>1 DEF TruckRow
<1>3. d \in TruckRow
  BY <1>2 DEF TruckRow
<1>4. [d EXCEPT !.message = 0] \in TruckRow
  BY <1>3 DEF TruckRow
<1>5. [q EXCEPT !.link = j, !.version = v, !.snapshot = c, !.message = 0]
        = [d EXCEPT !.message = 0]
  BY DEF TruckRow
<1> QED BY <1>4, <1>5

LEMMA SendKeeps ==
    ASSUME MailInv, QueueInv', NEW t \in Trucks, NEW j \in Jobs, SendTruckArrivalMail(t, j)
    PROVE  MailInv'
<1> DEFINE v == truck[t].version + 1
           p == [truck |-> t, content |-> truck[t].content, version |-> v]
           r == [truck[t] EXCEPT !.link = j, !.version = v, !.snapshot = truck[t].content,
                                 !.message = 0]
<1>0. /\ truck[t] \in TruckRow /\ truck \in [Trucks -> TruckRow] /\ truck[t].version \in Nat
      /\ payload \in [Jobs -> Payload \cup {Nothing}] /\ job \in [Jobs -> Row]
  BY DEF MailInv, MailTypeOK, TruckRow, TypeOK
<1>1. /\ payload[j] = Nothing /\ job[j].status = "absent"
      /\ job' = [job EXCEPT ![j] = [status |-> "pending", type |-> TruckMailType,
                                    attempts |-> 0, error |-> NoError]]
      /\ payload' = [payload EXCEPT ![j] = p]
      /\ truck' = [truck EXCEPT ![t] = r]
      /\ UNCHANGED <<mailbox, seen, requeued, running>>
      /\ Present(t) /\ truck[t].content # Incomplete
  BY DEF SendTruckArrivalMail, Enqueue, workerVars, Complete
<1>2. v \in Nat /\ v > truck[t].version
  BY <1>0
<1>3. truck[t].content \in Contents /\ truck[t].content \in Record
  BY <1>1 DEF MailInv, Linked, Record
<1>4. p \in Payload /\ p # Nothing /\ p.truck = t /\ p.version = v /\ p.content = truck[t].content
  <2>1. p \in Payload /\ p.truck = t /\ p.version = v /\ p.content = truck[t].content
    BY <1>2, <1>3 DEF Payload
  <2>2. Nothing \notin Payload
    BY TruckMailAssumption, Zenon DEF Payload
  <2> QED BY <2>1, <2>2
<1>5. /\ r \in TruckRow /\ r.there = "present" /\ r.link = j /\ r.version = v
      /\ r.snapshot = truck[t].content /\ r.message = 0 /\ r.content \in Record
  <2>1. r \in TruckRow
    BY <1>0, <1>2, <1>3, QueuedRow
  <2>2. /\ r.there = truck[t].there /\ r.link = j /\ r.version = v
        /\ r.snapshot = truck[t].content /\ r.message = 0 /\ r.content = truck[t].content
    BY <1>0 DEF TruckRow
  <2> HIDE DEF r
  <2> QED BY <1>1, <1>3, <2>1, <2>2 DEF Present
<1> HIDE DEF p, r, v
<1>6. /\ \A u \in Trucks : truck'[u] = IF u = t THEN r ELSE truck[u]
      /\ \A k \in Jobs : payload'[k] = IF k = j THEN p ELSE payload[k]
      /\ \A k \in Jobs : k # j => job'[k] = job[k]
  BY <1>0, <1>1
<1>7. MailTypeOK'
  <2>1. truck' \in [Trucks -> TruckRow] /\ payload' \in [Jobs -> Payload \cup {Nothing}]
    BY <1>0, <1>1, <1>4, <1>5
  <2> QED BY <1>1, <2>1 DEF MailInv, MailTypeOK, QueueInv
<1>8. Linked'
  BY <1>4, <1>5, <1>6 DEF MailInv, Linked, Present
<1>9. Current'
  <2> SUFFICES ASSUME NEW k \in Jobs, payload'[k] # Nothing
               PROVE  LET u == payload'[k].truck IN
                      /\ payload'[k].version > 0 /\ payload'[k].version <= truck'[u].version
                      /\ payload'[k].version = truck'[u].version =>
                            truck'[u].link = k /\ truck'[u].snapshot = payload'[k].content
    BY DEF Current
  <2>1. CASE k = j
    <3>1. payload'[k] = p /\ truck'[t] = r
      BY <1>6, <2>1
    <3>2. v > 0 /\ v <= v
      BY <1>0, <1>2
    <3> QED BY <1>4, <1>5, <2>1, <3>1, <3>2
  <2>2. CASE k # j
    <3>1. payload'[k] = payload[k] /\ payload[k].truck \in Trucks /\ payload[k].version \in Nat
      BY <1>0, <1>6, <2>2 DEF Payload
    <3>2. LET u == payload[k].truck IN
          /\ payload[k].version > 0 /\ payload[k].version <= truck[u].version
          /\ payload[k].version = truck[u].version =>
                truck[u].link = k /\ truck[u].snapshot = payload[k].content
      BY <3>1, <2>2, <1>6 DEF MailInv, Current
    <3> QED BY <1>0, <1>2, <1>5, <1>6, <3>1, <3>2
  <2> QED BY <2>1, <2>2
<1>10. \A i \in DOMAIN mailbox : mailbox[i].job \in Jobs /\ mailbox[i].job # j
  BY <1>1, MailsTyped DEF MailInv, Bodies
<1>11. Bodies'
  <2>1. \A i \in DOMAIN mailbox : payload'[mailbox[i].job] = payload[mailbox[i].job]
    BY <1>6, <1>10
  <2>2. mailbox' = mailbox /\ seen' = seen /\ running' = running
    BY <1>1
  <2>3. Bodies
    BY DEF MailInv
  <2> QED BY <2>1, <2>2, <2>3 DEF Bodies
<1>13. Acked'
  <2>1. \A i \in DOMAIN mailbox : job'[mailbox[i].job] = job[mailbox[i].job]
    BY <1>6, <1>10
  <2>2. mailbox' = mailbox /\ seen' = seen /\ running' = running
    BY <1>1
  <2>3. Acked
    BY DEF MailInv
  <2> QED BY <2>1, <2>2, <2>3 DEF Acked
<1>12. Messages'
  BY <1>1, <1>5, <1>6 DEF MailInv, Messages
<1> QED BY <1>7, <1>8, <1>9, <1>11, <1>12, <1>13 DEF MailInv

\* The server accepts the mail of the running job.
LEMMA AcceptKeeps == ASSUME MailInv, ServerAccepts PROVE MailInv'
<1> DEFINE m == [job |-> running, body |-> payload[running].content,
                 attached |-> seen, acked |-> FALSE]
<1>1. /\ mailbox' = Append(mailbox, m) /\ seen \in Record /\ seen' = "accepted"
      /\ UNCHANGED <<vars, truck, payload, requeued>>
  BY DEF ServerAccepts
<1>2. running # NoJob /\ running \in Jobs
  BY <1>1, TruckMailAssumption DEF MailInv, MailTypeOK, TypeOK, Record
<1>3. payload[running] # Nothing /\ payload[running] \in Payload
  BY <1>2 DEF MailInv, MailTypeOK, Linked, QueueInv, WorkerOwnsItsJob
<1>4. m \in Mail /\ m.job = running /\ m.body = payload[running].content /\ m.acked = FALSE
  BY <1>1, <1>2, <1>3 DEF Mail, Payload
<1> HIDE DEF m
<1>5. mailbox \in Seq(Mail) /\ Len(mailbox) \in Nat /\ DOMAIN mailbox = 1 .. Len(mailbox)
  BY LenProperties DEF MailInv, MailTypeOK
<1>6. /\ mailbox' \in Seq(Mail) /\ Len(mailbox') = Len(mailbox) + 1
      /\ DOMAIN mailbox' = 1 .. (Len(mailbox) + 1)
      /\ \A i \in DOMAIN mailbox : i \in DOMAIN mailbox' /\ mailbox'[i] = mailbox[i]
      /\ mailbox'[Len(mailbox) + 1] = m
  BY <1>1, <1>4, <1>5, AppendProperties
<1>7. \A i \in DOMAIN mailbox' : i \in DOMAIN mailbox \/ i = Len(mailbox) + 1
  BY <1>5, <1>6
<1>8. MailTypeOK' /\ QueueInv'
  <2>1. QueueInv' /\ TypeOK'
    BY <1>1, RestKeeps DEF MailInv, QueueInv
  <2>2. seen' # Nothing /\ running' # NoJob
    BY <1>1, <1>2, TruckMailAssumption DEF vars
  <2> QED BY <1>1, <1>6, <2>1, <2>2 DEF MailInv, MailTypeOK, vars
<1>9. Linked' /\ Current'
  BY <1>1 DEF MailInv, Linked, Current, Present, vars
<1>10. Bodies'
  <2>1. running' = running /\ payload' = payload
    BY <1>1 DEF vars
  <2>2. Len(mailbox') > 0 /\ mailbox'[Len(mailbox')].job = running'
    BY <1>4, <1>5, <1>6, <2>1
  <2> QED BY <1>3, <1>4, <1>6, <1>7, <2>1, <2>2 DEF MailInv, Bodies
<1>11. Acked'
  <2>1. seen \notin {"closed", "not closed"}
    BY <1>1, TruckMailAssumption DEF Record
  <2> QED BY <1>1, <1>4, <1>6, <1>7, <2>1 DEF MailInv, Acked, vars
<1>12. Messages'
  BY <1>1, <1>6 DEF MailInv, Messages
<1> QED BY <1>8, <1>9, <1>10, <1>11, <1>12 DEF MailInv

\* Its answer arrives; a record whose version is still the job's gets the message.
LEMMA AnswerKeeps == ASSUME MailInv, AnswerArrives PROVE MailInv'
<1> DEFINE t == payload[running].truck
           n == Len(mailbox)
<1>1. /\ seen = "accepted" /\ mailbox' = [mailbox EXCEPT ![n].acked = TRUE]
      /\ UNCHANGED <<vars, payload, requeued>> /\ seen' \in {"closed", "not closed"}
      /\ \/ truck' = truck
         \/ /\ VersionIsCurrent(t)
            /\ truck' = [truck EXCEPT ![t] = [truck[t] EXCEPT !.sent = TRUE, !.message = n]]
  BY DEF AnswerArrives
<1>2. running # NoJob /\ running \in Jobs
  BY <1>1, TruckMailAssumption DEF MailInv, MailTypeOK, TypeOK
<1>3. payload[running] # Nothing /\ payload[running] \in Payload /\ t \in Trucks
  BY <1>2 DEF MailInv, MailTypeOK, Linked, QueueInv, WorkerOwnsItsJob, Payload
<1>4. mailbox \in Seq(Mail) /\ n \in Nat /\ DOMAIN mailbox = 1 .. n
  BY LenProperties DEF MailInv, MailTypeOK
<1>5. n \in DOMAIN mailbox /\ mailbox[n].job = running /\ mailbox[n].body = payload[running].content
  <2>1. Bodies /\ seen = "accepted" /\ DOMAIN mailbox = 1 .. Len(mailbox) /\ Len(mailbox) \in Nat
    BY <1>1, <1>4 DEF MailInv
  <2>2. Len(mailbox) > 0 /\ mailbox[Len(mailbox)].job = running
    BY <2>1 DEF Bodies
  <2>3. Len(mailbox) \in DOMAIN mailbox
    BY <2>1, <2>2
  <2> QED BY <2>1, <2>2, <2>3 DEF Bodies
<1>6. mailbox[n] \in Mail
  BY <1>5, MailsTyped DEF MailInv
<1> DEFINE m == [mailbox[n] EXCEPT !.acked = TRUE]
<1>7. m \in Mail /\ m.job = mailbox[n].job /\ m.body = mailbox[n].body
  BY <1>6 DEF Mail
<1> HIDE DEF m, n, t
<1>8. /\ mailbox' \in Seq(Mail) /\ DOMAIN mailbox' = DOMAIN mailbox /\ Len(mailbox') = n
      /\ \A i \in DOMAIN mailbox : mailbox'[i] = IF i = n THEN m ELSE mailbox[i]
  <2>1. mailbox' = [mailbox EXCEPT ![n] = m]
    BY <1>1 DEF m
  <2> QED BY <1>4, <1>5, <1>7, <2>1, LenProperties, IsASeq
<1>9. \A i \in DOMAIN mailbox : mailbox'[i].job = mailbox[i].job /\ mailbox'[i].body = mailbox[i].body
  BY <1>7, <1>8
<1>10. /\ \A u \in Trucks : /\ truck'[u].there = truck[u].there
                            /\ truck'[u].content = truck[u].content
                            /\ truck'[u].version = truck[u].version
                            /\ truck'[u].link = truck[u].link
                            /\ truck'[u].snapshot = truck[u].snapshot
       /\ \A u \in Trucks : truck'[u].message = truck[u].message
                               \/ (u = t /\ VersionIsCurrent(t) /\ truck'[u].message = n)
       /\ truck' \in [Trucks -> TruckRow]
  <2>1. truck \in [Trucks -> TruckRow] /\ truck[t] \in TruckRow
    BY <1>3 DEF MailInv, MailTypeOK
  <2> DEFINE r == [truck[t] EXCEPT !.sent = TRUE, !.message = n]
  <2>2. /\ r \in TruckRow /\ r.there = truck[t].there /\ r.content = truck[t].content
        /\ r.version = truck[t].version /\ r.link = truck[t].link
        /\ r.snapshot = truck[t].snapshot /\ r.message = n
    BY <1>4, <2>1 DEF TruckRow
  <2>3. truck' = truck \/ (VersionIsCurrent(t) /\ truck' = [truck EXCEPT ![t] = r])
    BY <1>1
  <2> HIDE DEF r
  <2> QED BY <1>3, <2>1, <2>2, <2>3
<1>11. MailTypeOK' /\ QueueInv'
  <2>1. QueueInv' /\ TypeOK'
    BY <1>1, RestKeeps DEF MailInv, QueueInv
  <2>2. seen' # Nothing /\ running' # NoJob
    BY <1>1, <1>2, TruckMailAssumption DEF vars
  <2> QED BY <1>1, <1>8, <1>10, <2>1, <2>2 DEF MailInv, MailTypeOK, vars
<1>12. Linked'
  BY <1>1, <1>10 DEF MailInv, Linked, Present, vars
<1>13. Current'
  <2>1. \A j \in Jobs : payload[j] # Nothing => payload[j].truck \in Trucks
    BY DEF MailInv, MailTypeOK, Payload
  <2> QED BY <1>1, <1>10, <2>1 DEF MailInv, Current
<1>14. Bodies'
  <2>1. seen' # "accepted" /\ payload' = payload
    BY <1>1
  <2>2. Bodies /\ DOMAIN mailbox' = DOMAIN mailbox
    BY <1>8 DEF MailInv
  <2> QED BY <1>9, <2>1, <2>2 DEF Bodies
<1>15. Acked'
  <2>1. job[running].status = "processing"
    BY <1>2 DEF MailInv, QueueInv, WorkerOwnsItsJob
  <2>2. \A i \in DOMAIN mailbox : i # n => mailbox'[i] = mailbox[i]
    BY <1>8
  <2> QED BY <1>1, <1>5, <1>8, <1>9, <2>1, <2>2 DEF MailInv, Acked, vars
<1>16. Messages'
  <2> SUFFICES ASSUME NEW u \in Trucks, truck'[u].message # 0
               PROVE  /\ truck'[u].message \in DOMAIN mailbox
                      /\ mailbox[truck'[u].message].job = truck[u].link
                      /\ mailbox[truck'[u].message].body = truck[u].snapshot
    BY <1>8, <1>9, <1>10 DEF Messages
  <2>1. CASE truck'[u].message = truck[u].message
    BY <2>1 DEF MailInv, Messages
  <2>2. CASE u = t /\ VersionIsCurrent(t) /\ truck'[u].message = n
    <3>1. truck[u].link = running /\ truck[u].snapshot = payload[running].content
      BY <1>2, <1>3, <2>2 DEF MailInv, Current, VersionIsCurrent, t
    <3> QED BY <1>5, <2>2, <3>1
  <2> QED BY <1>10, <2>1, <2>2
<1> QED BY <1>11, <1>12, <1>13, <1>14, <1>15, <1>16 DEF MailInv

LEMMA MailStart == MailInit => MailInv
<1> SUFFICES ASSUME MailInit PROVE MailInv
  OBVIOUS
<1>1. QueueInv /\ TypeOK /\ running = NoJob /\ \A j \in Jobs : job[j].status = "absent"
  BY InitQueue DEF MailInit, QueueInv, Init, Absent
<1>2. /\ mailbox = <<>> /\ seen = Nothing /\ requeued = {}
      /\ payload = [j \in Jobs |-> Nothing] /\ truck = [t \in Trucks |-> NewTruck]
  BY DEF MailInit
<1>3. NewTruck \in TruckRow
  BY DEF NewTruck, TruckRow
<1>4. /\ \A j \in Jobs : payload[j] = Nothing
      /\ \A t \in Trucks : truck[t] = NewTruck
  BY <1>2
<1>5. <<>> \in Seq(Mail) /\ DOMAIN mailbox = {}
  BY <1>2
<1>6. MailTypeOK
  BY <1>1, <1>2, <1>3, <1>5 DEF MailTypeOK
<1>7. Linked /\ Current /\ Messages
  BY <1>1, <1>4 DEF Linked, Current, Messages, NewTruck, Present
<1>8. Bodies /\ Acked
  BY <1>2, <1>5, TruckMailAssumption DEF Bodies, Acked
<1> QED BY <1>1, <1>6, <1>7, <1>8 DEF MailInv

LEMMA MailStep == MailInv /\ [MailNext]_allVars => MailInv'
<1> SUFFICES ASSUME MailInv, [MailNext]_allVars PROVE MailInv'
  OBVIOUS
<1>0. QueueInv'
  <2>1. QueueInv
    BY DEF MailInv
  <2> QED BY <2>1, MailStepIsQueueStep, QueueStep
<1>1. CASE OperatorStep
  <2>1. ASSUME NEW t \in Trucks, NEW j \in Jobs, SendTruckArrivalMail(t, j) PROVE MailInv'
    BY <1>0, <2>1, SendKeeps
  <2>2. ASSUME NEW t \in Trucks, NEW c \in Record, CreateTruckArrival(t, c) \/ UpdateTruckArrival(t, c)
        PROVE  MailInv'
    BY <2>2, OperatorKeeps
  <2>3. ASSUME NEW t \in Trucks, MarkTruckMailSent(t) \/ DeleteTruckArrival(t) PROVE MailInv'
    BY <2>3, OperatorKeeps
  <2> QED BY <1>1, <2>1, <2>2, <2>3 DEF OperatorStep
<1>2. CASE MailHandlerStep
  BY <1>0, <1>2, AcceptKeeps, AnswerKeeps, SettleKeepsMail DEF MailHandlerStep
<1>3. CASE ClaimMail \/ Elsewhere \/ MailProcessEnds \/ \E S \in SUBSET Jobs : RetryMails(S)
  BY <1>0, <1>3, QueueKeepsMail
<1>4. CASE UNCHANGED allVars
  <2>1. UNCHANGED vars /\ UNCHANGED <<truck, payload, mailbox, seen, requeued>>
    BY <1>4 DEF allVars, mailVars
  <2>2. UNCHANGED <<job, running>>
    BY <2>1 DEF vars
  <2>3. MailTypeOK'
    BY <1>0, <2>1, <2>2 DEF MailInv, MailTypeOK, QueueInv
  <2> QED BY <1>0, <2>1, <2>2, <2>3 DEF MailInv, Linked, Current, Bodies, Acked, Messages, Present
<1> QED BY <1>1, <1>2, <1>3, <1>4 DEF MailNext

LEMMA MailAlways == MailSpec => []MailInv
BY MailStart, MailStep, PTL DEF MailSpec

\* Every variable of the composition stays in its set.
THEOREM MailTypeCorrect == MailSpec => []MailTypeOK
<1>1. MailInv => MailTypeOK
  BY DEF MailInv
<1> QED BY <1>1, MailAlways, PTL

\* The message stored with a record is a mail that carries the text stored beside it,
\* whichever job of the record sent it and whoever retried it.
THEOREM MessagesMatch == MailSpec => []MessageIdIsOfSnapshot
<1>1. MailInv => MessageIdIsOfSnapshot
  BY DEF MailInv, Messages, MessageIdIsOfSnapshot
<1> QED BY <1>1, MailAlways, PTL

\* Only the server's acceptance adds a mail, and the job it adds it for runs.
LEMMA NewMailRuns ==
    ASSUME MailInv, [MailNext]_allVars, NEW n \in DOMAIN mailbox' \ DOMAIN mailbox
    PROVE  mailbox'[n].job = running /\ running # NoJob /\ seen \in Record
<1>1. CASE ServerAccepts
  <2>1. mailbox \in Seq(Mail)
    BY DEF MailInv, MailTypeOK
  <2> DEFINE m == [job |-> running, body |-> payload[running].content,
                   attached |-> seen, acked |-> FALSE]
  <2>2. mailbox' = Append(mailbox, m) /\ seen \in Record /\ m.job = running
    BY <1>1 DEF ServerAccepts
  <2> HIDE DEF m
  <2>3. running # NoJob
    BY <2>2, TruckMailAssumption DEF MailInv, MailTypeOK, Record
  <2>4. n = Len(mailbox) + 1 /\ mailbox'[n] = m
    BY <2>1, <2>2
  <2> QED BY <2>2, <2>3, <2>4
<1>2. CASE AnswerArrives
  <2>1. mailbox' = [mailbox EXCEPT ![Len(mailbox)].acked = TRUE]
    BY <1>2 DEF AnswerArrives
  <2> QED BY <2>1
<1>3. CASE UNCHANGED mailbox
  BY <1>3
<1>4. ServerAccepts \/ AnswerArrives \/ UNCHANGED mailbox
  BY DEF MailNext, allVars, mailVars, OperatorStep, CreateTruckArrival, UpdateTruckArrival,
         SendTruckArrivalMail, MarkTruckMailSent, DeleteTruckArrival, ClaimMail,
         MailHandlerStep, TruckMissing, AlreadySent, SendFails, AnswerLost, MailDone, NotClosed,
         Return, RetryMails, Elsewhere, MailProcessEnds
<1> QED BY <1>1, <1>2, <1>3, <1>4

\* A job whose mail was acknowledged sends no other mail, after any retries and restarts.
THEOREM AnsweredJobIsQuiet == MailSpec => AlwaysNoMailAfterAnswer
<1>1. MailInv /\ [MailNext]_allVars => [NoMailAfterAnswer]_allVars
  <2> SUFFICES ASSUME MailInv, [MailNext]_allVars, NEW n \in DOMAIN mailbox' \ DOMAIN mailbox,
                      NEW i \in DOMAIN mailbox, mailbox[i].acked
               PROVE  mailbox[i].job # mailbox'[n].job
    BY DEF NoMailAfterAnswer
  <2>1. mailbox'[n].job = running /\ seen \in Record
    BY NewMailRuns
  <2>2. seen \notin {"closed", "not closed"}
    BY <2>1, TruckMailAssumption DEF Record
  <2>3. running = mailbox[i].job => seen \in {"closed", "not closed"}
    BY DEF MailInv, Acked
  <2> QED BY <2>1, <2>2, <2>3
<1> QED BY <1>1, MailAlways, PTL DEF MailSpec, AlwaysNoMailAfterAnswer

-----------------------------------------------------------------------------
(* Text and documents. *)

Unretried(j) == job[j].status \in {"pending", "processing"} /\ j \notin requeued

\* While a job that nobody retried by hand waits or runs, its record is linked to it and
\* locked, so it still says what was queued.
Kept ==
    \A j \in Jobs : Unretried(j) =>
        LET t == payload[j].truck IN
        /\ truck[t].link = j /\ truck[t].content = payload[j].content
        /\ truck[t].version = payload[j].version

SeenIsQueued == seen \in Record /\ running \notin requeued => seen = payload[running].content

DocInv == Kept /\ SeenIsQueued /\ DocumentsMatchText

\* The record of a waiting job was there when the job was queued.
LEMMA RecordExists ==
    ASSUME MailInv, NEW j \in Jobs, job[j].status \in {"pending", "processing"}
    PROVE  /\ payload[j] \in Payload /\ payload[j].truck \in Trucks
           /\ truck[payload[j].truck].there # "new"
<1>1. payload[j] # Nothing /\ payload[j] \in Payload
  BY DEF MailInv, MailTypeOK, Linked
<1>2. payload[j].truck \in Trucks /\ payload[j].version \in Nat
  BY <1>1 DEF Payload
<1>3. payload[j].version > 0 /\ payload[j].version <= truck[payload[j].truck].version
  BY <1>1 DEF MailInv, Current
<1>4. truck[payload[j].truck].version # 0
  BY <1>2, <1>3
<1> QED BY <1>1, <1>2, <1>4 DEF MailInv, Linked

\* Steps that write no record, no payload and no mail: no job becomes unretried, and the
\* handler learns nothing.
LEMMA QuietKeepsDocs ==
    ASSUME DocInv, UNCHANGED <<truck, payload, mailbox>>, requeued \subseteq requeued',
           \A k \in Jobs : Unretried(k)' => Unretried(k),
           seen' \in Record => seen' = seen /\ running' = running
    PROVE  DocInv'
<1>1. Kept'
  BY DEF DocInv, Kept
<1>2. SeenIsQueued'
  BY DEF DocInv, SeenIsQueued
<1>3. DocumentsMatchText'
  BY DEF DocInv, DocumentsMatchText
<1> QED BY <1>1, <1>2, <1>3 DEF DocInv

LEMMA OperatorKeepsDocs ==
    ASSUME MailInv, DocInv, NEW t \in Trucks,
           \/ \E c \in Record : CreateTruckArrival(t, c) \/ UpdateTruckArrival(t, c)
           \/ MarkTruckMailSent(t) \/ DeleteTruckArrival(t)
    PROVE  DocInv'
<1>0. truck \in [Trucks -> TruckRow] /\ truck[t] \in TruckRow
  BY DEF MailInv, MailTypeOK
<1>1. UNCHANGED <<job, running, payload, mailbox, seen, requeued>>
  BY DEF CreateTruckArrival, UpdateTruckArrival, MarkTruckMailSent, DeleteTruckArrival, vars
<1>2. SeenIsQueued' /\ DocumentsMatchText'
  BY <1>1 DEF DocInv, SeenIsQueued, DocumentsMatchText
<1>3. \A u \in Trucks : u # t => truck'[u] = truck[u]
  BY <1>0 DEF CreateTruckArrival, UpdateTruckArrival, MarkTruckMailSent, DeleteTruckArrival
<1>4. Kept'
  <2> SUFFICES ASSUME NEW j \in Jobs, Unretried(j)
               PROVE  LET u == payload[j].truck IN
                      /\ truck'[u].link = j /\ truck'[u].content = payload[j].content
                      /\ truck'[u].version = payload[j].version
    BY <1>1 DEF Kept, Unretried
  <2>1. job[j].status \in {"pending", "processing"}
    BY DEF Unretried
  <2>2. payload[j].truck \in Trucks /\ truck[payload[j].truck].there # "new"
    BY <2>1, RecordExists
  <2>3. LET u == payload[j].truck IN
        /\ truck[u].link = j /\ truck[u].content = payload[j].content
        /\ truck[u].version = payload[j].version
    BY DEF DocInv, Kept
  <2>4. CASE payload[j].truck # t
    BY <1>3, <2>2, <2>3, <2>4
  <2>5. CASE payload[j].truck = t
    <3>1. MailActive(t) /\ truck[t].there # "new"
      BY <2>1, <2>2, <2>3, <2>5, JobsAssumption DEF MailActive
    <3>2. DeleteTruckArrival(t)
      BY <3>1 DEF CreateTruckArrival, UpdateTruckArrival, MayEdit, MarkTruckMailSent
    <3>3. /\ truck'[t].link = truck[t].link /\ truck'[t].content = truck[t].content
          /\ truck'[t].version = truck[t].version
      BY <1>0, <3>2 DEF DeleteTruckArrival, TruckRow
    <3> QED BY <2>3, <2>5, <3>3
  <2> QED BY <2>4, <2>5
<1> QED BY <1>2, <1>4 DEF DocInv

LEMMA SendKeepsDocs ==
    ASSUME MailInv, DocInv, NEW t \in Trucks, NEW j \in Jobs, SendTruckArrivalMail(t, j)
    PROVE  DocInv'
<1>0. /\ truck \in [Trucks -> TruckRow] /\ truck[t] \in TruckRow
      /\ payload \in [Jobs -> Payload \cup {Nothing}] /\ job \in [Jobs -> Row]
  BY DEF MailInv, MailTypeOK, TypeOK
<1>1. /\ Present(t) /\ ~MailActive(t) /\ payload[j] = Nothing
      /\ UNCHANGED <<mailbox, seen, requeued, running>>
  BY DEF SendTruckArrivalMail, MayQueue, Enqueue, workerVars
<1>2. /\ payload'[j].truck = t /\ payload'[j].content = truck[t].content
      /\ payload'[j].version = truck[t].version + 1
      /\ \A k \in Jobs : k # j => payload'[k] = payload[k] /\ job'[k] = job[k]
  BY <1>0 DEF SendTruckArrivalMail, Enqueue
<1>3. /\ truck'[t].link = j /\ truck'[t].content = truck[t].content
      /\ truck'[t].version = truck[t].version + 1
      /\ \A u \in Trucks : u # t => truck'[u] = truck[u]
  BY <1>0 DEF SendTruckArrivalMail, TruckRow
<1>4. Kept'
  <2> SUFFICES ASSUME NEW k \in Jobs, Unretried(k)'
               PROVE  /\ truck'[payload'[k].truck].link = k
                      /\ truck'[payload'[k].truck].content = payload'[k].content
                      /\ truck'[payload'[k].truck].version = payload'[k].version
    BY DEF Kept
  <2>1. CASE k = j
    BY <1>2, <1>3, <2>1
  <2>2. CASE k # j
    <3>1. payload'[k] = payload[k] /\ Unretried(k) /\ job[k].status \in {"pending", "processing"}
      BY <1>1, <1>2, <2>2 DEF Unretried
    <3>2. payload[k].truck \in Trucks
      BY <3>1, RecordExists
    <3>3. /\ truck[payload[k].truck].link = k
          /\ truck[payload[k].truck].content = payload[k].content
          /\ truck[payload[k].truck].version = payload[k].version
      BY <3>1 DEF DocInv, Kept
    <3>4. payload[k].truck # t
      BY <1>1, <3>1, <3>3, JobsAssumption DEF MailActive
    <3> QED BY <1>3, <3>1, <3>2, <3>3, <3>4
  <2> QED BY <2>1, <2>2
<1>5. SeenIsQueued'
  <2>1. seen \in Record => running \in Jobs /\ running # j
    <3>1. ASSUME seen \in Record PROVE running # NoJob /\ running \in Jobs
      BY <3>1, TruckMailAssumption DEF MailInv, MailTypeOK, TypeOK, Record
    <3>2. ASSUME seen \in Record PROVE payload[running] # Nothing
      BY <3>1, <3>2 DEF MailInv, Linked, QueueInv, WorkerOwnsItsJob
    <3> QED BY <1>1, <3>1, <3>2
  <2> QED BY <1>1, <1>2, <2>1 DEF DocInv, SeenIsQueued
<1>6. DocumentsMatchText'
  BY <1>1 DEF DocInv, DocumentsMatchText
<1> QED BY <1>4, <1>5, <1>6 DEF DocInv

LEMMA AcceptKeepsDocs == ASSUME MailInv, DocInv, ServerAccepts PROVE DocInv'
<1> DEFINE m == [job |-> running, body |-> payload[running].content,
                 attached |-> seen, acked |-> FALSE]
<1>1. /\ mailbox' = Append(mailbox, m) /\ seen \in Record /\ seen' = "accepted"
      /\ UNCHANGED <<job, running, truck, payload, requeued>>
  BY DEF ServerAccepts, vars
<1>2. m.job = running /\ m.body = payload[running].content /\ m.attached = seen
  OBVIOUS
<1> HIDE DEF m
<1>3. mailbox \in Seq(Mail) /\ DOMAIN mailbox = 1 .. Len(mailbox) /\ Len(mailbox) \in Nat
  BY LenProperties DEF MailInv, MailTypeOK
<1>4. \A i \in DOMAIN mailbox' :
        (i \in DOMAIN mailbox /\ mailbox'[i] = mailbox[i]) \/ mailbox'[i] = m
  BY <1>1, <1>3
<1>5. DocumentsMatchText'
  BY <1>1, <1>2, <1>4 DEF DocInv, DocumentsMatchText, SeenIsQueued
<1>6. SeenIsQueued'
  BY <1>1, TruckMailAssumption DEF SeenIsQueued, Record
<1>7. Kept'
  BY <1>1 DEF DocInv, Kept, Unretried
<1> QED BY <1>5, <1>6, <1>7 DEF DocInv

LEMMA AnswerKeepsDocs == ASSUME MailInv, DocInv, AnswerArrives PROVE DocInv'
<1>1. /\ mailbox' = [mailbox EXCEPT ![Len(mailbox)].acked = TRUE]
      /\ UNCHANGED <<job, running, payload, requeued>> /\ seen' \in {"closed", "not closed"}
      /\ \/ truck' = truck
         \/ truck' = [truck EXCEPT ![payload[running].truck] =
                        [truck[payload[running].truck] EXCEPT !.sent = TRUE, !.message = Len(mailbox)]]
  BY DEF AnswerArrives, vars
<1>2. \A i \in DOMAIN mailbox' : /\ i \in DOMAIN mailbox /\ mailbox'[i].job = mailbox[i].job
                                 /\ mailbox'[i].body = mailbox[i].body
                                 /\ mailbox'[i].attached = mailbox[i].attached
  <2>1. \A i \in DOMAIN mailbox : mailbox[i] \in Mail
    BY MailsTyped DEF MailInv
  <2>2. DOMAIN mailbox' = DOMAIN mailbox
    BY <1>1
  <2> QED BY <1>1, <2>1, <2>2 DEF Mail
<1>3. DocumentsMatchText'
  <2>1. requeued' = requeued
    BY <1>1
  <2> QED BY <1>2, <2>1 DEF DocInv, DocumentsMatchText
<1>4. SeenIsQueued'
  BY <1>1, TruckMailAssumption DEF SeenIsQueued, Record
<1>5. \A u \in Trucks : truck'[u].version = truck[u].version /\ truck'[u].link = truck[u].link
                        /\ truck'[u].content = truck[u].content
  <2>1. truck \in [Trucks -> TruckRow]
    BY DEF MailInv, MailTypeOK
  <2> DEFINE t == payload[running].truck
             r == [truck[t] EXCEPT !.sent = TRUE, !.message = Len(mailbox)]
  <2>2. t \in Trucks => /\ r.version = truck[t].version /\ r.link = truck[t].link
                        /\ r.content = truck[t].content
    BY <2>1 DEF TruckRow
  <2>3. truck' = truck \/ truck' = [truck EXCEPT ![t] = r]
    BY <1>1
  <2> HIDE DEF r, t
  <2> QED BY <2>1, <2>2, <2>3
<1>6. \A j \in Jobs : Unretried(j) => payload[j].truck \in Trucks
  BY RecordExists DEF Unretried
<1>7. Kept'
  BY <1>1, <1>5, <1>6 DEF DocInv, Kept, Unretried
<1> QED BY <1>3, <1>4, <1>7 DEF DocInv

\* Neither the worker nor the queue's own requests make a job unretried.
LEMMA ClaimQuiet ==
    ASSUME MailInv, ClaimMail
    PROVE  \A k \in Jobs : Unretried(k)' => Unretried(k)
<1>1. ClaimNext /\ UNCHANGED requeued
  BY DEF ClaimMail
<1>2. NextJob \in Jobs /\ job[NextJob].status = "pending"
  BY <1>1, NextJobWaits DEF MailInv
<1>3. \A k \in Jobs : k # NextJob => job'[k] = job[k]
  BY <1>1 DEF ClaimNext
<1> QED BY <1>1, <1>2, <1>3 DEF Unretried

LEMMA SettleQuiet ==
    ASSUME MailInv,
           \/ TruckMissing \/ AlreadySent \/ (\E kind \in Failures : SendFails(kind))
           \/ AnswerLost \/ MailDone \/ NotClosed
    PROVE  /\ seen' = Nothing /\ UNCHANGED <<truck, payload, mailbox, requeued>>
           /\ \A k \in Jobs : Unretried(k)' => Unretried(k)
<1>1. seen' = Nothing /\ UNCHANGED <<truck, payload, mailbox, requeued>>
  BY DEF TruckMissing, AlreadySent, SendFails, AnswerLost, MailDone, NotClosed, Return
<1>2. PICK status \in JobStatuses, kind \in ErrorKinds \cup {NoError, "no handler"} :
        SettleAs(status, kind) /\ running # NoJob
  <2>1. "gone" \in ErrorKinds /\ "network" \in ErrorKinds /\ Failures \subseteq ErrorKinds
    BY TruckMailAssumption DEF ErrorKinds, MailErrors
  <2> QED BY <2>1 DEF TruckMissing, AlreadySent, SendFails, AnswerLost, MailDone, NotClosed,
                      HandlerSucceeds, HandlerFails, IsRunning, JobStatuses
<1>3. running \in Jobs /\ job[running].status = "processing"
  BY <1>2 DEF MailInv, MailTypeOK, TypeOK, QueueInv, WorkerOwnsItsJob
<1>4. \A k \in Jobs : k # running => job'[k] = job[k]
  <2>1. job \in [Jobs -> Row]
    BY DEF MailInv, MailTypeOK, TypeOK
  <2> QED BY <1>2, <2>1 DEF SettleAs
<1>5. \A k \in Jobs : Unretried(k)' => Unretried(k)
  BY <1>1, <1>3, <1>4 DEF Unretried
<1> QED BY <1>1, <1>5

LEMMA QueueQuiet ==
    ASSUME MailInv, Elsewhere \/ MailProcessEnds \/ \E S \in SUBSET Jobs : RetryMails(S)
    PROVE  /\ UNCHANGED <<truck, payload, mailbox>> /\ requeued \subseteq requeued'
           /\ seen' = Nothing \/ (seen' = seen /\ running' = running)
           /\ \A k \in Jobs : Unretried(k)' => Unretried(k)
<1>0. job \in [Jobs -> Row]
  BY DEF MailInv, MailTypeOK, TypeOK
<1>1. CASE Elsewhere
  <2>1. UNCHANGED mailVars /\ running' = running
    BY <1>1 DEF Elsewhere, PruneJobs, BecomesDue, TimerFires, Drain, Sigterm, Boot, workerVars
  <2>2. \A k \in Jobs : job'[k] = job[k] \/ job'[k].status = "absent"
    BY <1>0, <1>1 DEF Elsewhere, PruneJobs, BecomesDue, TimerFires, Drain, Sigterm, Boot, Absent
  <2>3. \A k \in Jobs : Unretried(k)' => Unretried(k)
    BY <2>1, <2>2 DEF Unretried, mailVars
  <2> QED BY <2>1, <2>3 DEF mailVars
<1>2. CASE MailProcessEnds
  BY <1>2 DEF MailProcessEnds, Return, ProcessEnds, Unretried
<1>3. ASSUME NEW S \in SUBSET Jobs, RetryMails(S)
      PROVE  /\ UNCHANGED <<truck, payload, mailbox>> /\ requeued \subseteq requeued'
             /\ seen' = seen /\ running' = running
             /\ \A k \in Jobs : Unretried(k)' => Unretried(k)
  <2>1. /\ Requeue(S) /\ UNCHANGED <<truck, payload, mailbox, seen, running>>
        /\ requeued' = requeued \cup (S \cap InStatus({"failed"}))
    BY <1>3 DEF RetryMails, RetryFailed, workerVars
  <2>2. \A k \in Jobs : Unretried(k)' => Unretried(k)
    BY <1>0, <2>1 DEF Requeue, Unretried, InStatus
  <2> QED BY <2>1, <2>2
<1> QED BY <1>1, <1>2, <1>3

\* The handler reads the record of a job that nobody retried: it still says what was queued.
LEMMA ClaimKeepsDocs == ASSUME MailInv, DocInv, ClaimMail PROVE DocInv'
<1>1. /\ ClaimNext /\ seen' = ReadTruck(payload[NextJob].truck)
      /\ UNCHANGED <<truck, payload, mailbox, requeued>> /\ running' = NextJob
  BY DEF ClaimMail, ClaimNext
<1>2. NextJob \in Jobs /\ job[NextJob].status = "pending"
  BY <1>1, NextJobWaits DEF MailInv
<1>3. Kept' /\ DocumentsMatchText'
  BY <1>1, ClaimQuiet DEF DocInv, Kept, DocumentsMatchText
<1>4. SeenIsQueued'
  <2> SUFFICES ASSUME seen' \in Record, NextJob \notin requeued
               PROVE  seen' = payload[NextJob].content
    BY <1>1 DEF SeenIsQueued
  <2>1. seen' = truck[payload[NextJob].truck].content
    BY <1>1, TruckMailAssumption DEF ReadTruck, Record
  <2>2. Unretried(NextJob)
    BY <1>2 DEF Unretried
  <2> QED BY <1>2, <2>1, <2>2 DEF DocInv, Kept
<1> QED BY <1>3, <1>4 DEF DocInv

LEMMA DocStep == MailInv /\ DocInv /\ [MailNext]_allVars => DocInv'
<1> SUFFICES ASSUME MailInv, DocInv, [MailNext]_allVars PROVE DocInv'
  OBVIOUS
<1>1. CASE OperatorStep
  BY <1>1, SendKeepsDocs, OperatorKeepsDocs DEF OperatorStep
<1>2. CASE MailHandlerStep
  <2>1. CASE \/ TruckMissing \/ AlreadySent \/ (\E kind \in Failures : SendFails(kind))
             \/ AnswerLost \/ MailDone \/ NotClosed
    <3>1. seen' \notin Record
      BY <2>1, SettleQuiet, TruckMailAssumption DEF Record
    <3> QED BY <2>1, <3>1, SettleQuiet, QuietKeepsDocs
  <2> QED BY <1>2, <2>1, AcceptKeepsDocs, AnswerKeepsDocs DEF MailHandlerStep
<1>3. CASE ClaimMail
  BY <1>3, ClaimKeepsDocs
<1>5. CASE Elsewhere \/ MailProcessEnds \/ \E S \in SUBSET Jobs : RetryMails(S)
  <2>1. seen' \in Record => seen' = seen /\ running' = running
    BY <1>5, QueueQuiet, TruckMailAssumption DEF Record
  <2> QED BY <1>5, <2>1, QueueQuiet, QuietKeepsDocs
<1>4. CASE UNCHANGED allVars
  BY <1>4, QuietKeepsDocs DEF allVars, mailVars, vars, Unretried
<1> QED BY <1>1, <1>2, <1>3, <1>4, <1>5 DEF MailNext

LEMMA DocStart == MailInit => DocInv
<1> SUFFICES ASSUME MailInit PROVE DocInv
  OBVIOUS
<1>1. mailbox = <<>> /\ seen = Nothing /\ \A j \in Jobs : job[j].status = "absent"
  BY DEF MailInit, Init, Absent
<1>2. Kept /\ SeenIsQueued
  BY <1>1, TruckMailAssumption DEF Kept, Unretried, SeenIsQueued, Record
<1>3. DOMAIN mailbox = {}
  BY <1>1
<1> QED BY <1>2, <1>3 DEF DocInv, DocumentsMatchText

\* However the record is edited, marked, deleted or queued again while a job backs off, the
\* documents of its mail are built from the text that was queued, unless the job was retried
\* by hand.
THEOREM DocumentsAgree == MailSpec => []DocumentsMatchText
<1>1. DocInv => DocumentsMatchText
  BY DEF DocInv
<1> QED BY <1>1, DocStart, MailAlways, DocStep, PTL DEF MailSpec

-----------------------------------------------------------------------------
(* One mail for a truck. *)

AckedUnretried(i) == mailbox[i].acked /\ mailbox[i].job \notin requeued

\* Nothing queues a record again that is closed or deleted, and that is what the answer to
\* its mail makes it.
Shut(t) == truck[t].there = "deleted" \/ (truck[t].there = "present" /\ truck[t].sent)

Closed == \A i \in DOMAIN mailbox : AckedUnretried(i) => Shut(TruckOf(i))

\* No other job of that record is under way, unless somebody retried it by hand.
Alone ==
    \A i \in DOMAIN mailbox : AckedUnretried(i) =>
        \A k \in Jobs : Unretried(k) /\ payload[k].truck = TruckOf(i) => k = mailbox[i].job

OnceInv == Closed /\ Alone /\ UnretriedTruckMailedOnce

LEMMA MailedTruck ==
    ASSUME MailInv, NEW i \in DOMAIN mailbox
    PROVE  mailbox[i].job \in Jobs /\ payload[mailbox[i].job] \in Payload /\ TruckOf(i) \in Trucks
<1>1. mailbox[i].job \in Jobs
  BY MailsTyped DEF MailInv
<1>2. payload[mailbox[i].job] # Nothing
  BY DEF MailInv, Bodies
<1> QED BY <1>1, <1>2 DEF MailInv, MailTypeOK, Payload, TruckOf

\* A step that acknowledges no mail: closed records stay closed, and no job of one of them
\* becomes unretried.
LEMMA UnansweredKeepsOnce ==
    ASSUME MailInv, OnceInv, requeued \subseteq requeued',
           \A i \in DOMAIN mailbox' : mailbox'[i].acked =>
               i \in DOMAIN mailbox /\ mailbox[i].acked /\ mailbox'[i].job = mailbox[i].job,
           \A j \in Jobs : payload[j] # Nothing => payload'[j] = payload[j],
           \A t \in Trucks : Shut(t) => Shut(t)',
           \A k \in Jobs : Unretried(k)' =>
               \/ Unretried(k) /\ payload'[k] = payload[k]
               \/ \E t \in Trucks : payload'[k].truck = t /\ ~Shut(t)
    PROVE  OnceInv'
<1>1. \A i \in DOMAIN mailbox' : AckedUnretried(i)' =>
         /\ i \in DOMAIN mailbox /\ AckedUnretried(i) /\ mailbox'[i].job = mailbox[i].job
         /\ TruckOf(i)' = TruckOf(i) /\ TruckOf(i) \in Trucks
  <2> SUFFICES ASSUME NEW i \in DOMAIN mailbox', AckedUnretried(i)'
               PROVE  /\ i \in DOMAIN mailbox /\ AckedUnretried(i) /\ mailbox'[i].job = mailbox[i].job
                      /\ TruckOf(i)' = TruckOf(i) /\ TruckOf(i) \in Trucks
    OBVIOUS
  <2>1. i \in DOMAIN mailbox /\ AckedUnretried(i) /\ mailbox'[i].job = mailbox[i].job
    BY DEF AckedUnretried
  <2>2. mailbox[i].job \in Jobs /\ TruckOf(i) \in Trucks
    BY <2>1, MailedTruck
  <2>3. payload[mailbox[i].job] # Nothing
    BY <2>1 DEF MailInv, Bodies
  <2> QED BY <2>1, <2>2, <2>3 DEF TruckOf
<1>2. Closed'
  BY <1>1 DEF OnceInv, Closed
<1>3. Alone'
  <2> SUFFICES ASSUME NEW i \in DOMAIN mailbox', AckedUnretried(i)', NEW k \in Jobs, Unretried(k)',
                      payload'[k].truck = TruckOf(i)'
               PROVE  k = mailbox'[i].job
    BY DEF Alone
  <2>1. /\ i \in DOMAIN mailbox /\ AckedUnretried(i) /\ mailbox'[i].job = mailbox[i].job
        /\ payload'[k].truck = TruckOf(i)
    BY <1>1
  <2>2. Shut(TruckOf(i))
    BY <2>1 DEF OnceInv, Closed
  <2>3. Unretried(k) /\ payload'[k] = payload[k]
    BY <2>1, <2>2
  <2> QED BY <2>1, <2>3 DEF OnceInv, Alone
<1>4. UnretriedTruckMailedOnce'
  BY <1>1 DEF OnceInv, UnretriedTruckMailedOnce, AckedUnretried
<1> QED BY <1>2, <1>3, <1>4 DEF OnceInv

\* The answer closes a record that is still there: its version is the job's, as nobody could
\* queue or mark it meanwhile.
LEMMA AnswerKeepsOnce == ASSUME MailInv, DocInv, OnceInv, AnswerArrives PROVE OnceInv'
<1> DEFINE t == payload[running].truck
<1>0. PICK n : n = Len(mailbox)
  OBVIOUS
<1>1. /\ seen = "accepted" /\ mailbox' = [mailbox EXCEPT ![n].acked = TRUE]
      /\ UNCHANGED <<job, running, payload, requeued>>
      /\ truck' = IF VersionIsCurrent(t)
                  THEN [truck EXCEPT ![t] = [truck[t] EXCEPT !.sent = TRUE, !.message = n]]
                  ELSE truck
  BY <1>0 DEF AnswerArrives, vars
<1>2. /\ running \in Jobs /\ job[running].status = "processing"
      /\ n \in DOMAIN mailbox /\ mailbox[n].job = running
  <2>1. running # NoJob /\ running \in Jobs
    BY <1>1, TruckMailAssumption DEF MailInv, MailTypeOK, TypeOK
  <2>2. n \in Nat /\ DOMAIN mailbox = 1 .. n
    BY <1>0, LenProperties DEF MailInv, MailTypeOK
  <2>3. n > 0 /\ mailbox[n].job = running
    BY <1>0, <1>1 DEF MailInv, Bodies
  <2> QED BY <2>1, <2>2, <2>3 DEF MailInv, QueueInv, WorkerOwnsItsJob
<1>3. /\ DOMAIN mailbox' = DOMAIN mailbox
      /\ \A i \in DOMAIN mailbox : /\ mailbox'[i].job = mailbox[i].job
                                   /\ i # n => mailbox'[i].acked = mailbox[i].acked
                                   /\ TruckOf(i)' = TruckOf(i)
  <2>1. \A i \in DOMAIN mailbox : mailbox[i] \in Mail
    BY MailsTyped DEF MailInv
  <2>2. DOMAIN mailbox' = DOMAIN mailbox
    BY <1>1
  <2>3. \A i \in DOMAIN mailbox : mailbox'[i].job = mailbox[i].job /\ (i # n => mailbox'[i] = mailbox[i])
    BY <1>1, <2>1 DEF Mail
  <2> QED BY <1>1, <2>2, <2>3 DEF TruckOf
<1>4. /\ truck \in [Trucks -> TruckRow] /\ t \in Trucks /\ truck[t].there # "new"
      /\ TruckOf(n) = t
  <2>1. truck \in [Trucks -> TruckRow]
    BY DEF MailInv, MailTypeOK
  <2> QED BY <1>2, <2>1, RecordExists DEF TruckOf
<1>5. \A u \in Trucks : truck'[u].there = truck[u].there /\ (truck[u].sent => truck'[u].sent)
  <2> DEFINE r == [truck[t] EXCEPT !.sent = TRUE, !.message = n]
  <2>1. r.there = truck[t].there /\ r.sent = TRUE
    BY <1>4 DEF TruckRow
  <2>2. truck' = truck \/ truck' = [truck EXCEPT ![t] = r]
    BY <1>1
  <2> HIDE DEF r, t
  <2> QED BY <1>4, <2>1, <2>2
<1>6. running \notin requeued => \A u \in Trucks : u = t => Shut(u)'
  <2> SUFFICES ASSUME running \notin requeued
               PROVE  truck'[t].there = "deleted" \/ (truck'[t].there = "present" /\ truck'[t].sent)
    BY DEF Shut
  <2>1. truck[t].version = payload[running].version
    BY <1>2 DEF DocInv, Kept, Unretried
  <2>2. truck[t].there \in {"present", "deleted"}
    BY <1>4 DEF TruckRow
  <2>3. CASE truck[t].there = "present"
    <3>1. VersionIsCurrent(t)
      BY <2>1, <2>3 DEF VersionIsCurrent, Present
    <3>2. truck' = [truck EXCEPT ![t] = [truck[t] EXCEPT !.sent = TRUE, !.message = n]]
      BY <1>1, <3>1
    <3> QED BY <1>4, <2>3, <3>2 DEF TruckRow
  <2>4. CASE truck[t].there = "deleted"
    BY <1>4, <1>5, <2>4
  <2> QED BY <2>2, <2>3, <2>4
<1> HIDE DEF t
<1>7. \A i \in DOMAIN mailbox : AckedUnretried(i)' => i = n \/ AckedUnretried(i)
  BY <1>1, <1>3 DEF AckedUnretried
<1>8. AckedUnretried(n)' => running \notin requeued /\ Unretried(running)
  <2>1. mailbox'[n].job = running /\ requeued' = requeued
    BY <1>1, <1>2, <1>3
  <2>2. AckedUnretried(n)' => running \notin requeued
    BY <2>1 DEF AckedUnretried
  <2> QED BY <1>2, <2>2 DEF Unretried
<1>9. \A i \in DOMAIN mailbox : TruckOf(i) \in Trucks
  BY MailedTruck
<1>10. Closed'
  <2>1. \A u \in Trucks : Shut(u) => Shut(u)'
    BY <1>5 DEF Shut
  <2> QED BY <1>3, <1>4, <1>6, <1>7, <1>8, <1>9, <2>1 DEF OnceInv, Closed
<1>11. Alone'
  <2> SUFFICES ASSUME NEW i \in DOMAIN mailbox, AckedUnretried(i)', NEW k \in Jobs, Unretried(k),
                      payload[k].truck = TruckOf(i)
               PROVE  k = mailbox[i].job
    BY <1>1, <1>3 DEF Alone, Unretried
  <2>1. CASE AckedUnretried(i)
    BY <2>1 DEF OnceInv, Alone
  <2>2. CASE i = n
    <3>1. Unretried(running) /\ payload[running].truck = t /\ payload[k].truck = t
      BY <1>4, <1>8, <2>2 DEF t
    <3>2. truck[t].link = running /\ truck[t].link = k
      BY <1>2, <3>1 DEF DocInv, Kept
    <3> QED BY <1>2, <2>2, <3>2
  <2> QED BY <1>7, <2>1, <2>2
<1>12. UnretriedTruckMailedOnce'
  <2>1. \A i \in DOMAIN mailbox :
          AckedUnretried(i) /\ AckedUnretried(n)' /\ TruckOf(i) = TruckOf(n) => i = n
    <3> SUFFICES ASSUME NEW i \in DOMAIN mailbox, AckedUnretried(i), AckedUnretried(n)',
                        TruckOf(i) = TruckOf(n)
                 PROVE  FALSE
      OBVIOUS
    <3>1. running = mailbox[i].job
      BY <1>2, <1>4, <1>8 DEF OnceInv, Alone, t
    <3>2. seen \in {"closed", "not closed"}
      BY <3>1 DEF MailInv, Acked, AckedUnretried
    <3> QED BY <1>1, <3>2, TruckMailAssumption
  <2> QED BY <1>2, <1>3, <1>7, <2>1 DEF OnceInv, UnretriedTruckMailedOnce, AckedUnretried
<1> QED BY <1>10, <1>11, <1>12 DEF OnceInv

LEMMA OnceStep == MailInv /\ DocInv /\ OnceInv /\ [MailNext]_allVars => OnceInv'
<1> SUFFICES ASSUME MailInv, DocInv, OnceInv, [MailNext]_allVars PROVE OnceInv'
  OBVIOUS
<1>0. /\ truck \in [Trucks -> TruckRow] /\ payload \in [Jobs -> Payload \cup {Nothing}]
      /\ job \in [Jobs -> Row]
  BY DEF MailInv, MailTypeOK, TypeOK
<1>1. ASSUME UNCHANGED <<job, running, payload, mailbox, requeued>>,
             \A t \in Trucks : Shut(t) => Shut(t)'
      PROVE  OnceInv'
  BY <1>1, UnansweredKeepsOnce DEF Unretried
<1>2. ASSUME NEW t \in Trucks, NEW c \in Record, CreateTruckArrival(t, c) PROVE OnceInv'
  <2>1. truck[t].there = "new" /\ \A u \in Trucks : u # t => truck'[u] = truck[u]
    BY <1>0, <1>2 DEF CreateTruckArrival
  <2>2. \A u \in Trucks : Shut(u) => Shut(u)'
    BY <2>1 DEF Shut
  <2> QED BY <1>1, <1>2, <2>2 DEF CreateTruckArrival, vars
<1>3. ASSUME NEW t \in Trucks, NEW c \in Record, UpdateTruckArrival(t, c) PROVE OnceInv'
  <2>1. \A u \in Trucks : truck'[u].sent = truck[u].sent /\ truck'[u].there = truck[u].there
    BY <1>0, <1>3 DEF UpdateTruckArrival, TruckRow
  <2>2. \A u \in Trucks : Shut(u) => Shut(u)'
    BY <2>1 DEF Shut
  <2> QED BY <1>1, <1>3, <2>2 DEF UpdateTruckArrival, vars
<1>4. ASSUME NEW t \in Trucks, MarkTruckMailSent(t) PROVE OnceInv'
  <2>1. \A u \in Trucks : (truck[u].sent => truck'[u].sent) /\ truck'[u].there = truck[u].there
    BY <1>0, <1>4 DEF MarkTruckMailSent, TruckRow
  <2>2. \A u \in Trucks : Shut(u) => Shut(u)'
    BY <2>1 DEF Shut
  <2> QED BY <1>1, <1>4, <2>2 DEF MarkTruckMailSent, vars
<1>5. ASSUME NEW t \in Trucks, DeleteTruckArrival(t) PROVE OnceInv'
  <2>1. \A u \in Trucks : /\ truck[u].sent => truck'[u].sent
                          /\ truck'[u].there \in {truck[u].there, "deleted"}
                          /\ truck[u].there = "deleted" => truck'[u].there = "deleted"
    BY <1>0, <1>5 DEF DeleteTruckArrival, TruckRow
  <2>2. \A u \in Trucks : Shut(u) => Shut(u)'
    BY <2>1 DEF Shut
  <2> QED BY <1>1, <1>5, <2>2 DEF DeleteTruckArrival, vars
<1>6. ASSUME NEW t \in Trucks, NEW j \in Jobs, SendTruckArrivalMail(t, j) PROVE OnceInv'
  <2>1. /\ ~truck[t].sent /\ truck[t].there = "present" /\ payload[j] = Nothing
        /\ UNCHANGED <<mailbox, requeued>>
    BY <1>6 DEF SendTruckArrivalMail, MayQueue, Present
  <2>2. /\ payload'[j].truck = t
        /\ \A k \in Jobs : k # j => payload'[k] = payload[k] /\ job'[k] = job[k]
    BY <1>0, <1>6 DEF SendTruckArrivalMail, Enqueue
  <2>3. \A u \in Trucks : truck'[u].sent = truck[u].sent /\ truck'[u].there = truck[u].there
    BY <1>0, <1>6 DEF SendTruckArrivalMail, TruckRow
  <2>4. \A k \in Jobs : Unretried(k)' =>
          \/ Unretried(k) /\ payload'[k] = payload[k]
          \/ \E u \in Trucks : payload'[k].truck = u /\ ~Shut(u)
    BY <2>1, <2>2 DEF Unretried, Shut
  <2>5. \A u \in Trucks : Shut(u) => Shut(u)'
    BY <2>3 DEF Shut
  <2> QED BY <2>1, <2>2, <2>4, <2>5, UnansweredKeepsOnce
<1>7. CASE OperatorStep
  BY <1>2, <1>3, <1>4, <1>5, <1>6, <1>7 DEF OperatorStep
<1>8. CASE ServerAccepts
  <2> DEFINE m == [job |-> running, body |-> payload[running].content,
                   attached |-> seen, acked |-> FALSE]
  <2>1. /\ mailbox' = Append(mailbox, m) /\ m.acked = FALSE
        /\ UNCHANGED <<job, running, truck, payload, requeued>>
    BY <1>8 DEF ServerAccepts, vars
  <2> HIDE DEF m
  <2>2. mailbox \in Seq(Mail)
    BY DEF MailInv, MailTypeOK
  <2>3. \A i \in DOMAIN mailbox' : mailbox'[i].acked =>
           i \in DOMAIN mailbox /\ mailbox[i].acked /\ mailbox'[i].job = mailbox[i].job
    BY <2>1, <2>2
  <2> QED BY <2>1, <2>3, UnansweredKeepsOnce DEF Unretried, Shut
<1>9. CASE AnswerArrives
  BY <1>9, AnswerKeepsOnce
<1>10. ASSUME UNCHANGED <<truck, payload, mailbox>>, requeued \subseteq requeued',
              \A k \in Jobs : Unretried(k)' => Unretried(k)
       PROVE  OnceInv'
  BY <1>10, UnansweredKeepsOnce DEF Shut
<1>11. CASE \/ TruckMissing \/ AlreadySent \/ (\E kind \in Failures : SendFails(kind))
            \/ AnswerLost \/ MailDone \/ NotClosed
  BY <1>10, <1>11, SettleQuiet
<1>12. CASE ClaimMail
  BY <1>10, <1>12, ClaimQuiet DEF ClaimMail
<1>13. CASE Elsewhere \/ MailProcessEnds \/ \E S \in SUBSET Jobs : RetryMails(S)
  BY <1>10, <1>13, QueueQuiet
<1>14. CASE UNCHANGED allVars
  BY <1>10, <1>14 DEF allVars, mailVars, vars, Unretried
<1> QED BY <1>7, <1>8, <1>9, <1>11, <1>12, <1>13, <1>14 DEF MailNext, MailHandlerStep

\* Without a retry by hand a truck gets one acknowledged mail, for any number of trucks, jobs
\* and restarts.
THEOREM TruckMailedOnce == MailSpec => []UnretriedTruckMailedOnce
<1>1. MailInit => DocInv /\ OnceInv
  <2> SUFFICES ASSUME MailInit PROVE OnceInv
    BY DocStart
  <2>1. DOMAIN mailbox = {}
    BY DEF MailInit
  <2> QED BY <2>1 DEF OnceInv, Closed, Alone, UnretriedTruckMailedOnce
<1>2. OnceInv => UnretriedTruckMailedOnce
  BY DEF OnceInv
<1> QED BY <1>1, <1>2, MailAlways, DocStep, OnceStep, PTL DEF MailSpec
=============================================================================
