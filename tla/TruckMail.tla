------------------------------ MODULE TruckMail ------------------------------
(***************************************************************************)
(* The gate-entry mail of an announced truck (modules/water): the record   *)
(* an operator edits, the snapshot that is queued with it, the handler     *)
(* that builds the attachments and talks to the SMTP server, and the job   *)
(* queue of JobQueue between them, whose rows an administrator may requeue.*)
(*                                                                         *)
(* The handler reads the record when its job is claimed and awaits the     *)
(* attachments and the server; the record may be edited, marked or deleted *)
(* meanwhile, and the process may end before the server's answer arrives,  *)
(* or between the write of the record and the write of the job's row.      *)
(***************************************************************************)
EXTENDS JobQueue

CONSTANTS
    Trucks,      \* ids; AUTOINCREMENT, so a deleted one does not return
    Contents,    \* what a mail says: the locked fields, all filled in
    Incomplete,  \* the locked fields, with one missing
    Nothing,     \* NULL, and no record read
    Failures,    \* errors of an attempt that are looked at
    MaxVersion,  \* bound on mail_version
    MaxMails     \* bound on the mails the SMTP server accepts

TruckMailType == "water.truck-mail"

ASSUME TruckMailAssumption ==
    /\ Types = {TruckMailType} /\ Failures \subseteq MailErrors
    /\ Incomplete \notin Contents
    /\ Nothing \notin Contents \cup {Incomplete, "missing", "already sent", "accepted", "closed", "not closed"}
    /\ Nothing \notin [truck : Trucks, content : Contents, version : Nat]
    /\ (Contents \cup {Incomplete}) \cap {"missing", "already sent", "accepted", "closed", "not closed"} = {}
    /\ MaxVersion \in Nat /\ MaxMails \in Nat

VARIABLES
    truck,     \* rows of water_truck_arrivals
    payload,   \* payload of the job with that id
    mailbox,   \* mails the SMTP server accepted; the index is the messageId
    seen,      \* what the handler in flight knows
    requeued   \* history: jobs an administrator has requeued

Record    == Contents \cup {Incomplete}
mailVars  == <<truck, payload, mailbox, seen, requeued>>
allVars   == <<vars, mailVars>>

TruckRow == [there : {"new", "present", "deleted"}, content : Record \cup {Nothing},
             sent : BOOLEAN, version : Nat, link : Jobs \cup {NoJob},
             snapshot : Record \cup {Nothing}, message : Nat]
Payload  == [truck : Trucks, content : Contents, version : Nat]
Mail     == [job : Jobs, body : Contents, attached : Record, acked : BOOLEAN]

MailTypeOK ==
    /\ TypeOK
    /\ truck \in [Trucks -> TruckRow]
    /\ payload \in [Jobs -> Payload \cup {Nothing}]
    /\ mailbox \in Seq(Mail)
    /\ seen \in Record \cup {Nothing, "missing", "already sent", "accepted", "closed", "not closed"}
    /\ (running = NoJob) = (seen = Nothing)
    /\ requeued \subseteq Jobs

NewTruck == [there |-> "new", content |-> Nothing, sent |-> FALSE, version |-> 0,
             link |-> NoJob, snapshot |-> Nothing, message |-> 0]

MailInit ==
    /\ Init
    /\ truck = [t \in Trucks |-> NewTruck]
    /\ payload = [j \in Jobs |-> Nothing]
    /\ mailbox = <<>>
    /\ seen = Nothing
    /\ requeued = {}

-----------------------------------------------------------------------------
(* The operators' requests *)

Present(t) == truck[t].there = "present"

\* Mutant of MailActive: a failed mail keeps the record locked.
MailActiveMutant(t) ==
    truck[t].link # NoJob /\ job[truck[t].link].status \in {"pending", "processing", "failed"}

\* mail_job_status of the joined row is pending or processing.
MailActive(t) ==
    truck[t].link # NoJob /\ job[truck[t].link].status \in {"pending", "processing"}

CreateTruckArrival(t, c) ==
    /\ server # "down"
    /\ truck[t].there = "new"
    /\ truck' = [truck EXCEPT ![t] = [NewTruck EXCEPT !.there = "present", !.content = c]]
    /\ UNCHANGED <<vars, payload, mailbox, seen, requeued>>

\* Mutant of MayEdit: locked while the worker has the job, not while it waits.
MayEditMutant(t) == ~(truck[t].link # NoJob /\ job[truck[t].link].status = "processing")

\* 409 when a locked field changes while the mail is queued.
MayEdit(t) == ~MailActive(t)

UpdateTruckArrival(t, c) ==
    /\ server # "down"
    /\ Present(t)
    /\ MayEdit(t)
    /\ truck' = [truck EXCEPT ![t].content = c]
    /\ UNCHANGED <<vars, payload, mailbox, seen, requeued>>

\* Mutant of MayQueue: a mail the worker is sending is not looked at.
MayQueueMutant(t) ==
    ~truck[t].sent /\ ~(truck[t].link # NoJob /\ job[truck[t].link].status = "pending")

Complete(t) == truck[t].content # Incomplete

\* Not sent before, and no active job is linked (that one is returned instead).
MayQueue(t) == ~truck[t].sent /\ ~MailActive(t)

\* sendTruckArrivalMailService: job, payload and link in one transaction.
SendTruckArrivalMail(t, j) ==
    LET version == truck[t].version + 1 IN
    /\ Present(t)
    /\ MayQueue(t)
    /\ Complete(t)
    /\ payload[j] = Nothing
    /\ version <= MaxVersion
    /\ Enqueue(j, TruckMailType)
    /\ payload' = [payload EXCEPT ![j] =
                      [truck |-> t, content |-> truck[t].content, version |-> version]]
    /\ truck' = [truck EXCEPT ![t].link = j, ![t].version = version,
                              ![t].snapshot = truck[t].content, ![t].message = 0]
    /\ UNCHANGED <<mailbox, seen, requeued>>

\* An operator sent the mail by hand; also when it is marked already
\* or a field is missing.
MarkTruckMailSent(t) ==
    /\ server # "down"
    /\ Present(t)
    /\ ~MailActive(t)
    /\ truck[t].version < MaxVersion
    /\ truck' = [truck EXCEPT ![t].sent = TRUE, ![t].version = @ + 1,
                              ![t].snapshot = truck[t].content, ![t].message = 0]
    /\ UNCHANGED <<vars, payload, mailbox, seen, requeued>>

\* Neither the job nor the mail in flight is looked at.
DeleteTruckArrival(t) ==
    /\ server # "down"
    /\ Present(t)
    /\ truck' = [truck EXCEPT ![t].there = "deleted"]
    /\ UNCHANGED <<vars, payload, mailbox, seen, requeued>>

-----------------------------------------------------------------------------
(* The handler, between the worker's claim and its write of the row *)

\* The first statements of the handler run in the step of the claim; the
\* attachments are built from the record they read.
ReadTruck(t) ==
    IF ~Present(t) THEN "missing"
    ELSE IF truck[t].sent THEN "already sent"
    ELSE truck[t].content

ClaimMail ==
    /\ ClaimNext
    /\ seen' = ReadTruck(payload[NextJob].truck)
    /\ UNCHANGED <<truck, payload, mailbox, requeued>>

Return ==
    /\ seen' = Nothing
    /\ UNCHANGED <<truck, payload, mailbox, requeued>>

TruckMissing == seen = "missing" /\ HandlerFails("gone") /\ Return

\* { skipped: 'already_sent' }
AlreadySent == seen = "already sent" /\ HandlerSucceeds /\ Return

\* The attachments or the server fail before the mail is accepted.
SendFails(kind) == seen \in Record /\ HandlerFails(kind) /\ Return

\* The server accepts the mail; its answer is still on the way.
ServerAccepts ==
    /\ server # "down"
    /\ seen \in Record
    /\ Len(mailbox) < MaxMails
    /\ mailbox' = Append(mailbox, [job |-> running, body |-> payload[running].content,
                                   attached |-> seen, acked |-> FALSE])
    /\ seen' = "accepted"
    /\ UNCHANGED <<vars, truck, payload, requeued>>

\* The connection breaks before the answer arrives: an error like any other.
AnswerLost == seen = "accepted" /\ HandlerFails("network") /\ Return

\* Mutant of VersionIsCurrent: the record is closed whatever its version.
VersionIsCurrentMutant(t) == Present(t)

\* UPDATE ... WHERE id=? AND mail_version=?
VersionIsCurrent(t) == Present(t) /\ truck[t].version = payload[running].version

\* setTruckMailSent with the version that was queued.
AnswerArrives ==
    LET t == payload[running].truck IN
    /\ seen = "accepted"
    /\ mailbox' = [mailbox EXCEPT ![Len(mailbox)].acked = TRUE]
    /\ IF VersionIsCurrent(t)
       THEN /\ truck' = [truck EXCEPT ![t].sent = TRUE, ![t].message = Len(mailbox)]
            /\ seen' = "closed"
       ELSE truck' = truck /\ seen' = "not closed"
    /\ UNCHANGED <<vars, payload, requeued>>

MailDone == seen = "closed" /\ HandlerSucceeds /\ Return

\* Mutant of NotClosed: the error is not marked permanent.
NotClosedMutant == seen = "not closed" /\ HandlerFails("other") /\ Return

\* Sent, but the record could not be closed: a permanent error.
NotClosed == seen = "not closed" /\ HandlerFails("gone") /\ Return

-----------------------------------------------------------------------------
(* The rest of the queue *)

\* A payload names a truck, so rows are enqueued by SendTruckArrivalMail only.
RetryMails(S) ==
    /\ RetryFailed(S)
    /\ requeued' = requeued \cup (S \cap InStatus({"failed"}))
    /\ UNCHANGED <<truck, payload, mailbox, seen>>

Elsewhere ==
    /\ \/ \E S \in SUBSET Jobs : PruneJobs(S)
       \/ \E j \in Jobs : BecomesDue(j)
       \/ TimerFires \/ Drain \/ Sigterm \/ Boot
    /\ UNCHANGED mailVars

\* What the handler knew is lost.
MailProcessEnds == ProcessEnds /\ Return

-----------------------------------------------------------------------------
OperatorStep ==
    \/ \E t \in Trucks, c \in Record : CreateTruckArrival(t, c) \/ UpdateTruckArrival(t, c)
    \/ \E t \in Trucks, j \in Jobs : SendTruckArrivalMail(t, j)
    \/ \E t \in Trucks : MarkTruckMailSent(t) \/ DeleteTruckArrival(t)

MailHandlerStep ==
    \/ TruckMissing \/ AlreadySent \/ (\E kind \in Failures : SendFails(kind))
    \/ ServerAccepts \/ AnswerLost \/ AnswerArrives \/ MailDone \/ NotClosed

MailNext ==
    \/ OperatorStep
    \/ ClaimMail
    \/ MailHandlerStep
    \/ \E S \in SUBSET Jobs : RetryMails(S)
    \/ Elsewhere
    \/ MailProcessEnds

MailSpec == MailInit /\ [][MailNext]_allVars

\* As in JobQueue; every await of the handler ends.
MailFairness ==
    /\ WF_allVars(TimerFires /\ UNCHANGED mailVars)
    /\ WF_allVars(ClaimMail)
    /\ WF_allVars(Drain /\ UNCHANGED mailVars)
    /\ WF_allVars(Boot /\ UNCHANGED mailVars)
    /\ WF_allVars(server = "stopping" /\ MailProcessEnds)
    /\ WF_allVars(MailHandlerStep)
    /\ \A j \in Jobs : WF_allVars(BecomesDue(j) /\ UNCHANGED mailVars)

MailFairSpec == MailSpec /\ MailFairness

-----------------------------------------------------------------------------
(* Properties *)

\* In one round of attempts, however long the back-off, the text queued with
\* the job and the documents built from the record on each attempt agree.
\* (After an administrator's retry they need not: the record was unlocked.)
DocumentsMatchText ==
    \A i \in DOMAIN mailbox :
        mailbox[i].job \notin requeued => mailbox[i].attached = mailbox[i].body

\* mail_message_id is the id of a mail with the text stored beside it, even
\* when an older job of the same truck is retried.
MessageIdIsOfSnapshot ==
    \A t \in Trucks : truck[t].message # 0 =>
        /\ mailbox[truck[t].message].job = truck[t].link
        /\ mailbox[truck[t].message].body = truck[t].snapshot

\* A job whose mail was acknowledged never sends another one: not when the
\* record could not be closed, and not after the process ended in between.
NoMailAfterAnswer ==
    \A m \in DOMAIN mailbox' \ DOMAIN mailbox :
        \A i \in DOMAIN mailbox : mailbox[i].acked => mailbox[i].job # mailbox'[m].job

AlwaysNoMailAfterAnswer == [][NoMailAfterAnswer]_allVars

TruckOf(i) == payload[mailbox[i].job].truck

\* Without a retry by an administrator a truck gets one acknowledged mail,
\* whatever is edited, queued again or marked while a job is in flight.
UnretriedTruckMailedOnce ==
    \A i, k \in DOMAIN mailbox :
        (/\ mailbox[i].acked /\ mailbox[k].acked /\ TruckOf(i) = TruckOf(k)
         /\ mailbox[i].job \notin requeued /\ mailbox[k].job \notin requeued) => i = k

\* A queued mail does not lock its truck for ever: the lock ends, or the
\* process ended while the server was being talked to (then nothing ends it).
QueuedTruckUnlocks ==
    \A t \in Trucks : MailActive(t) ~>
        (truck[t].sent \/ ~Present(t) \/ MayEdit(t) \/ Orphan(truck[t].link))
=============================================================================
