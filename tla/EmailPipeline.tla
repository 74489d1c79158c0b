--------------------------- MODULE EmailPipeline ---------------------------
(***************************************************************************)
(* The life of a transactional email from the API call to SES.             *)
(*                                                                         *)
(*   - sendEmail and sendBulkEmails (email-service.ts) create the row and  *)
(*     queue a BullMQ job whose id is the email's id;                      *)
(*   - executeEmail (email-queue-service.ts) is the handler of that job:   *)
(*     one run per time a worker takes it;                                 *)
(*   - cancelEmail and updateEmail (email-service.ts) are requests that    *)
(*     arrive at any moment, on the API or from the dashboard.             *)
(*                                                                         *)
(* An action is what happens between two awaits that another process can   *)
(* come between: a read of the database on which nothing else depends is   *)
(* part of the action that uses it.                                        *)
(***************************************************************************)
EXTENDS EmailStore

CONSTANTS
  Requests,     \* the cancel and update requests users make, each once
  Times         \* the values a user gives scheduledAt

ASSUME TimesAssumption == Times \subseteq Nat \ {0}

VARIABLES
  api,      \* api[e]: where the request that creates e is
  due,      \* due[e]: the row's scheduledAt, 0 for NULL
  job,      \* job[e]: the state of BullMQ's job e
  jobDue,   \* jobDue[e]: when the job is to run, as its request asked or an update set it
  stalls,   \* stalls[e]: how often job e was found stalled
  run,      \* run[e][i]: where the i-th run of executeEmail for e is
  req       \* req[r]: a cancel or update request

pipeVars == << api, due, job, jobDue, stalls, run, req >>
vars == << storeVars, pipeVars >>

ApiStates ==
  { "idle", "created", "bulkCreated", "queueFailed", "failEvent",
    "suppressed", "done", "crashed" }

\* "none": never added, or removed; a completed job is removed at once.
JobStates == { "none", "delayed", "waiting", "active", "failed" }

RunStates ==
  { "idle", "loaded", "limited", "limitEvent", "sending", "accepted",
    "failing", "failEvent", "returned", "thrown", "done", "dead" }

ReqStates ==
  { "new", "checked", "removed", "cancelled", "moved", "done", "thrown", "crashed" }

ReqOps == { "none", "cancel", "update" }

NewRequest ==
  [pc |-> "new", op |-> "none", email |-> CHOOSE e \in Emails : TRUE, at |-> 0]

PipeTypeOK ==
  /\ api \in [Emails -> ApiStates]
  /\ due \in [Emails -> Times \cup {0}]
  /\ job \in [Emails -> JobStates]
  /\ jobDue \in [Emails -> Times \cup {0}]
  /\ stalls \in [Emails -> 0 .. (MaxStalled + 1)]
  /\ run \in [Emails -> [Runs -> RunStates]]
  /\ req \in [Requests -> [pc : ReqStates, op : ReqOps, email : Emails,
                           at : Times \cup {0}]]

PipeInit ==
  /\ api = [e \in Emails |-> "idle"]
  /\ due = [e \in Emails |-> 0]
  /\ job = [e \in Emails |-> "none"]
  /\ jobDue = [e \in Emails |-> 0]
  /\ stalls = [e \in Emails |-> 0]
  /\ run = [e \in Emails |-> [i \in Runs |-> "idle"]]
  /\ req = [r \in Requests |-> NewRequest]

SetApi(e, s) == api' = [api EXCEPT ![e] = s]
SetJob(e, s) == job' = [job EXCEPT ![e] = s]
SetRun(e, i, s) == run' = [run EXCEPT ![e][i] = s]
SetReq(r, s) == req' = [req EXCEPT ![r].pc = s]

-----------------------------------------------------------------------------
(* sendEmail and sendBulkEmails *)

\* The row of a new email; pc says which of the two requests creates it.
CreateRow(e, at, pc) ==
  /\ api[e] = "idle"
  /\ SetApi(e, pc)
  /\ SetStatus(e, IF at = 0 THEN "QUEUED" ELSE "SCHEDULED")
  /\ due' = [due EXCEPT ![e] = at]
  /\ jobDue' = [jobDue EXCEPT ![e] = at]
  /\ UNCHANGED << events, sesId, accepted, suffered, job, stalls, run, req >>

SendEmail(e) == \E at \in Times \cup {0} : CreateRow(e, at, "created")

SendBulkEmail(e) == \E at \in Times \cup {0} : CreateRow(e, at, "bulkCreated")

\* Every TO recipient is suppressed: a row and an event, and no job.
SendSuppressed(e) ==
  /\ api[e] = "idle"
  /\ SetApi(e, "suppressed")
  /\ SetStatus(e, "SUPPRESSED")
  /\ UNCHANGED << events, sesId, accepted, suffered, due, job, jobDue, stalls, run, req >>

SuppressedEvent(e) ==
  /\ api[e] = "suppressed"
  /\ SetApi(e, "done")
  /\ AddEvent(e, "SUPPRESSED")
  /\ UNCHANGED << status, sesId, accepted, suffered, due, job, jobDue, stalls, run, req >>

\* queue.add, with the delay the request had in hand when it created the row,
\* whatever the row says by now: a job with one waits in the delayed set.
AddJobs(S) ==
  job' = [e \in Emails |-> IF e \in S THEN IF jobDue[e] = 0 THEN "waiting"
                                                            ELSE "delayed"
                                       ELSE job[e]]

QueueEmail(e) ==
  /\ api[e] = "created"
  /\ AddJobs({e})
  /\ SetApi(e, "done")
  /\ UNCHANGED << storeVars, due, jobDue, stalls, run, req >>

\* queueEmail throws: no queue for the region, or Redis fails.  The job is
\* not there, unless Redis performed the command and only its answer was lost.
QueueEmailThrows(e) ==
  /\ api[e] = "created"
  /\ SetApi(e, "queueFailed")
  /\ \/ UNCHANGED << suffered, job >>
     \/ Suffer(e, "redis") /\ AddJobs({e})
  /\ UNCHANGED << status, events, sesId, accepted, due, jobDue, stalls, run, req >>

BulkBatch == { e \in Emails : api[e] = "bulkCreated" }

\* queueBulk: the groups of Lost have no queue, or their addBulk fails; both
\* are logged and swallowed, and the request goes on as if they were queued.
QueueBulk(Lost) ==
  /\ BulkBatch # {}
  /\ AddJobs(BulkBatch \ Lost)
  /\ api' = [e \in Emails |-> IF e \in BulkBatch THEN "done" ELSE api[e]]
  /\ \A e \in Lost : MayMeet(e, "redis")
  /\ suffered' = [e \in Emails |-> IF e \in Lost THEN suffered[e] \cup {"redis"}
                                                 ELSE suffered[e]]
  /\ UNCHANGED << status, events, sesId, accepted, due, jobDue, stalls, run, req >>

\* queueBulk throws only in init, before any job is added.
QueueBulkThrows ==
  /\ BulkBatch # {}
  /\ api' = [e \in Emails |-> IF e \in BulkBatch THEN "queueFailed" ELSE api[e]]
  /\ UNCHANGED << storeVars, due, job, jobDue, stalls, run, req >>

\* The catch of both requests: a FAILED event, then the status.
QueueFailedEvent(e) ==
  /\ api[e] = "queueFailed"
  /\ SetApi(e, "failEvent")
  /\ AddEvent(e, "FAILED")
  /\ UNCHANGED << status, sesId, accepted, suffered, due, job, jobDue, stalls, run, req >>

\* Mutant of QueueFailedStatus: the event is written, the status forgotten.
QueueFailedStatusForgotten(e) ==
  /\ api[e] = "failEvent"
  /\ SetApi(e, "done")
  /\ UNCHANGED << storeVars, due, job, jobDue, stalls, run, req >>

QueueFailedStatus(e) ==
  /\ api[e] = "failEvent"
  /\ SetApi(e, "done")
  /\ SetStatus(e, "FAILED")
  /\ UNCHANGED << events, sesId, accepted, suffered, due, job, jobDue, stalls, run, req >>

\* The process dies, or a write of the catch fails: alone for a request with
\* one email, with the whole batch for a bulk request that is about to queue.
ApiCrash(S) ==
  /\ S # {}
  /\ \A e \in S : api[e] \notin {"idle", "done", "crashed"} /\ MayMeet(e, "crash")
  /\ api' = [e \in Emails |-> IF e \in S THEN "crashed" ELSE api[e]]
  /\ suffered' = [e \in Emails |-> IF e \in S THEN suffered[e] \cup {"crash"}
                                              ELSE suffered[e]]
  /\ UNCHANGED << status, events, sesId, accepted, due, job, jobDue, stalls, run, req >>

ApiProgress ==
  \/ \E e \in Emails :
       \/ SuppressedEvent(e) \/ QueueEmail(e) \/ QueueEmailThrows(e)
       \/ QueueFailedEvent(e) \/ QueueFailedStatus(e)
  \/ \E Lost \in SUBSET Emails : Lost \subseteq BulkBatch /\ QueueBulk(Lost)
  \/ QueueBulkThrows

ApiNext ==
  \/ \E e \in Emails : SendEmail(e) \/ SendBulkEmail(e) \/ SendSuppressed(e)
  \/ ApiProgress
  \/ \E e \in Emails \ BulkBatch : ApiCrash({e})
  \/ ApiCrash(BulkBatch)

-----------------------------------------------------------------------------
(* BullMQ and executeEmail *)

\* The run that owns the job: the one whose worker holds its lock.
Owner(e) == stalls[e] + 1

\* The time of a delayed job has come.
Promote(e) ==
  /\ job[e] = "delayed"
  /\ SetJob(e, "waiting")
  /\ UNCHANGED << storeVars, api, due, jobDue, stalls, run, req >>

\* A worker takes the job; executeEmail reads the row and the domain.  It does
\* not look at latestStatus or at sesEmailId.
StartRun(e) ==
  /\ job[e] = "waiting"
  /\ SetJob(e, "active")
  /\ SetRun(e, Owner(e), "loaded")
  /\ UNCHANGED << storeVars, api, due, jobDue, stalls, req >>

\* The region has a setting without this configuration set: return, silently.
NoConfigurationSet(e, i) ==
  /\ run[e][i] = "loaded"
  /\ Suffer(e, "config")
  /\ SetRun(e, i, "returned")
  /\ UNCHANGED << status, events, sesId, accepted, api, due, job, jobDue, stalls, req >>

\* A read before the try fails, or the region has no setting.
LoadThrows(e, i) ==
  /\ run[e][i] = "loaded"
  /\ Suffer(e, "config")
  /\ SetRun(e, i, "thrown")
  /\ UNCHANGED << status, events, sesId, accepted, api, due, job, jobDue, stalls, req >>

\* LimitService.checkEmailLimit: go on, stop the email, or throw.
CheckLimit(e, i) ==
  /\ run[e][i] = "loaded"
  /\ \E pc \in {"sending", "limited", "failing"} : SetRun(e, i, pc)
  /\ UNCHANGED << storeVars, api, due, job, jobDue, stalls, req >>

\* FAILED events are written in two places: where the limit is reached, and in
\* the catch.  Each is followed by the status.
FailedEvent(e, i) ==
  /\ \/ run[e][i] = "limited" /\ SetRun(e, i, "limitEvent")
     \/ run[e][i] = "failing" /\ SetRun(e, i, "failEvent")
  /\ AddEvent(e, "FAILED")
  /\ UNCHANGED << status, sesId, accepted, suffered, api, due, job, jobDue, stalls, req >>

\* Mutant of FailedStatus: the run returns after the event.
FailedStatusForgotten(e, i) ==
  /\ run[e][i] \in {"limitEvent", "failEvent"}
  /\ SetRun(e, i, "returned")
  /\ UNCHANGED << storeVars, api, due, job, jobDue, stalls, req >>

FailedStatus(e, i) ==
  /\ run[e][i] \in {"limitEvent", "failEvent"}
  /\ SetStatus(e, "FAILED")
  /\ SetRun(e, i, "returned")
  /\ UNCHANGED << events, sesId, accepted, suffered, api, due, job, jobDue, stalls, req >>

SesAccepts(e, i) ==
  /\ run[e][i] = "sending"
  /\ accepted' = [accepted EXCEPT ![e] = @ \cup {i}]
  /\ SetRun(e, i, "accepted")
  /\ UNCHANGED << status, events, sesId, suffered, api, due, job, jobDue, stalls, req >>

\* sendRawEmail throws: SES refused the message, or took it and the answer
\* was lost.
SesThrows(e, i) ==
  /\ run[e][i] = "sending"
  /\ SetRun(e, i, "failing")
  /\ \/ UNCHANGED << suffered, accepted >>
     \/ Suffer(e, "ses") /\ accepted' = [accepted EXCEPT ![e] = @ \cup {i}]
  /\ UNCHANGED << status, events, sesId, api, due, job, jobDue, stalls, req >>

\* Mutant of RecordSesId: the limit is checked after the send.
RecordSesIdThenLimit(e, i) ==
  /\ run[e][i] = "accepted"
  /\ sesId' = [sesId EXCEPT ![e] = i]
  /\ SetRun(e, i, "returned") \/ SetRun(e, i, "limited")
  /\ UNCHANGED << status, events, accepted, suffered, api, due, job, jobDue, stalls, req >>

RecordSesId(e, i) ==
  /\ run[e][i] = "accepted"
  /\ sesId' = [sesId EXCEPT ![e] = i]
  /\ SetRun(e, i, "returned")
  /\ UNCHANGED << status, events, accepted, suffered, api, due, job, jobDue, stalls, req >>

\* A write to Postgres fails: inside the try the catch takes over, also when
\* SES has the message; inside the catch the handler throws.
WriteFails(e, i) ==
  /\ \/ run[e][i] \in {"limited", "limitEvent", "accepted"} /\ SetRun(e, i, "failing")
     \/ run[e][i] \in {"failing", "failEvent"} /\ SetRun(e, i, "thrown")
  /\ Suffer(e, "db")
  /\ UNCHANGED << status, events, sesId, accepted, api, due, job, jobDue, stalls, req >>

\* Mutant of FinishRun: jobs are queued with attempts: 2.
FinishRunRetrying(e, i) ==
  /\ run[e][i] \in {"returned", "thrown"}
  /\ SetRun(e, i, "done")
  /\ IF job[e] = "active" /\ i = Owner(e)
       THEN IF run[e][i] = "thrown" /\ stalls[e] < MaxStalled
              THEN SetJob(e, "waiting") /\ stalls' = [stalls EXCEPT ![e] = @ + 1]
              ELSE SetJob(e, "none") /\ UNCHANGED stalls
       ELSE UNCHANGED << job, stalls >>
  /\ UNCHANGED << storeVars, api, due, jobDue, req >>

\* BullMQ's moveToFinished.  A handler that threw is not retried (attempts is
\* 1) and its job stays in the failed set; a run that lost the lock no longer
\* has a say.
FinishRun(e, i) ==
  /\ run[e][i] \in {"returned", "thrown"}
  /\ SetRun(e, i, "done")
  /\ IF job[e] = "active" /\ i = Owner(e)
       THEN SetJob(e, IF run[e][i] = "returned" THEN "none" ELSE "failed")
       ELSE UNCHANGED job
  /\ UNCHANGED << storeVars, api, due, jobDue, stalls, req >>

\* Mutant of Stall: no limit on requeues.
StallUnlimited(e) ==
  /\ job[e] = "active"
  /\ Suffer(e, "stall")
  /\ SetJob(e, "waiting")
  /\ stalls' = [stalls EXCEPT ![e] = @ + 1]
  /\ SetRun(e, Owner(e), "dead") \/ UNCHANGED run
  /\ UNCHANGED << status, events, sesId, accepted, api, due, jobDue, req >>

\* The lock of an active job expires.  Its worker died, or goes on unaware.
\* The job is requeued up to MaxStalled times, then failed.
Stall(e) ==
  /\ job[e] = "active"
  /\ Suffer(e, "stall")
  /\ SetJob(e, IF stalls[e] < MaxStalled THEN "waiting" ELSE "failed")
  /\ stalls' = [stalls EXCEPT ![e] = @ + 1]
  /\ SetRun(e, Owner(e), "dead") \/ UNCHANGED run
  /\ UNCHANGED << status, events, sesId, accepted, api, due, jobDue, req >>

RunStep(e, i) ==
  \/ NoConfigurationSet(e, i) \/ LoadThrows(e, i) \/ CheckLimit(e, i)
  \/ FailedEvent(e, i) \/ FailedStatus(e, i)
  \/ SesAccepts(e, i) \/ SesThrows(e, i) \/ RecordSesId(e, i)
  \/ WriteFails(e, i) \/ FinishRun(e, i)

WorkerProgress(e) ==
  \/ Promote(e) \/ StartRun(e)
  \/ \E i \in Runs : RunStep(e, i)

WorkerNext == \E e \in Emails : WorkerProgress(e) \/ Stall(e)

-----------------------------------------------------------------------------
(* cancelEmail and updateEmail *)

reqOnly == << storeVars, api, due, job, jobDue, stalls, run >>

\* Both begin by reading the row: anything but SCHEDULED is refused.
BeginRequest(r) ==
  /\ req[r].pc = "new"
  /\ \E e \in Emails :
       /\ status[e] = "SCHEDULED"
       /\ \E ask \in [op : {"cancel"}, at : {0}] \cup [op : {"update"}, at : Times] :
            req' = [req EXCEPT ![r] =
                      [pc |-> "checked", op |-> ask.op, email |-> e, at |-> ask.at]]
  /\ UNCHANGED reqOnly

\* Mutant of RemoveJob: an active job is dropped from the queue as well.
RemoveJobActive(r) ==
  LET e == req[r].email IN
  /\ req[r].op = "cancel" /\ req[r].pc = "checked"
  /\ IF job[e] # "none"
       THEN SetJob(e, "none") /\ SetReq(r, "removed")
       ELSE SetReq(r, "done") /\ UNCHANGED job
  /\ UNCHANGED << storeVars, api, due, jobDue, stalls, run >>

\* Mutant of RemoveJob: a missing job counts as removed.
RemoveJobMissing(r) ==
  LET e == req[r].email IN
  /\ req[r].op = "cancel" /\ req[r].pc = "checked"
  /\ IF job[e] # "active"
       THEN SetJob(e, "none") /\ SetReq(r, "removed")
       ELSE SetReq(r, "done") /\ UNCHANGED job
  /\ UNCHANGED << storeVars, api, due, jobDue, stalls, run >>

\* chancelEmail: job.remove takes a job that no worker has locked.  Without
\* a job, or with an active one, the request throws.
RemoveJob(r) ==
  LET e == req[r].email IN
  /\ req[r].op = "cancel" /\ req[r].pc = "checked"
  /\ IF job[e] \in {"delayed", "waiting", "failed"}
       THEN SetJob(e, "none") /\ SetReq(r, "removed")
       ELSE SetReq(r, "done") /\ UNCHANGED job
  /\ UNCHANGED << storeVars, api, due, jobDue, stalls, run >>

CancelStatus(r) ==
  /\ req[r].pc = "removed"
  /\ SetStatus(req[r].email, "CANCELLED")
  /\ SetReq(r, "cancelled")
  /\ UNCHANGED << events, sesId, accepted, suffered, api, due, job, jobDue, stalls, run >>

CancelEvent(r) ==
  /\ req[r].pc = "cancelled"
  /\ AddEvent(req[r].email, "CANCELLED")
  /\ SetReq(r, "done")
  /\ UNCHANGED << status, sesId, accepted, suffered, api, due, job, jobDue, stalls, run >>

UpdateRow(r) ==
  /\ req[r].op = "update" /\ req[r].pc = "checked"
  /\ due' = [due EXCEPT ![req[r].email] = req[r].at]
  /\ SetReq(r, "moved")
  /\ UNCHANGED << storeVars, api, job, jobDue, stalls, run >>

\* Mutant of ChangeDelay: the delay is always 0.
ChangeDelayToZero(r) ==
  LET e == req[r].email IN
  /\ req[r].pc = "moved"
  /\ jobDue' = IF job[e] = "delayed" THEN [jobDue EXCEPT ![e] = 0] ELSE jobDue
  /\ SetReq(r, "done")
  /\ UNCHANGED << storeVars, api, due, job, stalls, run >>

\* changeDelay: only a delayed job can be moved.  Any other, and one that is
\* not there, or not yet, makes the request throw with the row written.
ChangeDelay(r) ==
  LET e == req[r].email IN
  /\ req[r].pc = "moved"
  /\ IF job[e] = "delayed"
       THEN jobDue' = [jobDue EXCEPT ![e] = req[r].at] /\ SetReq(r, "done")
       ELSE SetReq(r, "thrown") /\ UNCHANGED jobDue
  /\ UNCHANGED << storeVars, api, due, job, stalls, run >>

RequestCrash(r) ==
  /\ req[r].pc \notin {"new", "done", "thrown", "crashed"}
  /\ SetReq(r, "crashed")
  /\ Suffer(req[r].email, "crash")
  /\ UNCHANGED << status, events, sesId, accepted, api, due, job, jobDue, stalls, run >>

RequestProgress(r) ==
  \/ RemoveJob(r) \/ CancelStatus(r) \/ CancelEvent(r)
  \/ UpdateRow(r) \/ ChangeDelay(r)

RequestNext ==
  \E r \in Requests : BeginRequest(r) \/ RequestProgress(r) \/ RequestCrash(r)

-----------------------------------------------------------------------------
Init == StoreInit /\ PipeInit

Next == ApiNext \/ WorkerNext \/ RequestNext

Spec == Init /\ [][Next]_vars

(***************************************************************************)
(* A request that has begun and a job that is due are carried on: Node and *)
(* BullMQ run what is ready.  Nobody has to make a request, no fault has   *)
(* to happen, and a run that SES is to answer gets an answer.              *)
(***************************************************************************)
Fairness ==
  /\ WF_vars(ApiProgress)
  /\ \A e \in Emails : WF_vars(WorkerProgress(e))
  /\ \A r \in Requests : WF_vars(RequestProgress(r))

-----------------------------------------------------------------------------
(* Properties *)

TypeOK == StoreTypeOK /\ PipeTypeOK

Met(e, kinds) == suffered[e] \cap kinds # {}

(***************************************************************************)
(* SES accepts two messages for one email only if the job of the email was *)
(* found stalled.  executeEmail looks at neither latestStatus nor          *)
(* sesEmailId, so that the job runs once is all that keeps a recipient     *)
(* from getting the email twice.                                           *)
(***************************************************************************)
NoDuplicateSend ==
  \A e \in Emails : \A i, j \in accepted[e] : i # j => Met(e, {"stall"})

\* The cancel requests that took the job of e and have not written the event.
Withdrawers(e) ==
  {r \in Requests : req[r].email = e /\ req[r].pc \in {"removed", "cancelled"}}

\* A cancel request took the job of e out of the queue.
Withdrawn(e) ==
  \/ status[e] = "CANCELLED"
  \/ events[e]["CANCELLED"] > 0
  \/ Withdrawers(e) # {}

(***************************************************************************)
(* A cancelled email was not sent: job.remove succeeds only on a job that  *)
(* no worker holds.  What it takes to break this is a job that is in the   *)
(* queue although a run of it reached SES: requeued by a stall, or failed  *)
(* because the run could not write down what it did.                       *)
(***************************************************************************)
CancelledIsUnsent ==
  \A e \in Emails :
    Withdrawn(e) /\ accepted[e] # {} => Met(e, {"stall", "db"})

(***************************************************************************)
(* An email shown as FAILED was not sent, unless a run stalled, its write  *)
(* of sesEmailId failed after SES took the message, SES's or Redis's       *)
(* answer was lost.                                                        *)
(***************************************************************************)
FailedIsUnsent ==
  \A e \in Emails :
    status[e] = "FAILED" /\ accepted[e] # {} =>
      Met(e, {"stall", "db", "ses", "redis"})

(***************************************************************************)
(* Nobody gets what the row says was withdrawn or has failed.              *)
(***************************************************************************)
UnsentStaysUnsent == CancelledIsUnsent /\ FailedIsUnsent

(***************************************************************************)
(* Of any number of cancel requests for an email, that all may read        *)
(* SCHEDULED, one at most withdraws it and writes the CANCELLED event.     *)
(***************************************************************************)
OneCancelWins ==
  \A e \in Emails :
    /\ events[e]["CANCELLED"] <= 1
    /\ \A r, q \in Withdrawers(e) : r = q
    /\ Withdrawers(e) # {} => events[e]["CANCELLED"] = 0

(***************************************************************************)
(* An email that is shown as pending and was not sent is in somebody's     *)
(* hands: a live job, the request that creates it, or a cancel request     *)
(* about to write its status.  The exceptions are the faults that orphan   *)
(* it; nothing in the code ever looks for such an email again.             *)
(***************************************************************************)
PendingHasOwner ==
  \A e \in Emails :
    status[e] \in {"SCHEDULED", "QUEUED"} /\ accepted[e] = {} =>
      \/ job[e] \in {"delayed", "waiting", "active"}
      \/ api[e] \in {"created", "bulkCreated", "queueFailed", "failEvent"}
      \/ \E r \in Requests : req[r].email = e /\ req[r].pc = "removed"
      \/ Met(e, {"crash", "redis", "config", "db", "stall"})

UpdatesOf(e) == {r \in Requests : req[r].email = e /\ req[r].op = "update"}

(***************************************************************************)
(* The scheduledAt that the dashboard shows is the time the queue will     *)
(* honour, once a lone update request is answered with success.  Two       *)
(* overlapping updates can write the row in one order and move the job in  *)
(* the other, and one that comes before the job is queued changes the row  *)
(* alone, with an error for an answer.                                     *)
(***************************************************************************)
RowAndJobAgree ==
  \A e \in Emails :
    /\ job[e] = "delayed"
    /\ \A r, q \in UpdatesOf(e) : r = q /\ req[r].pc \notin {"moved", "thrown"}
    /\ ~ Met(e, {"crash"})
    => due[e] = jobDue[e]

(***************************************************************************)
(* Between requests, worker and queue the row tells what will become of    *)
(* the email: who has it, when it leaves, and who withdrew it.             *)
(***************************************************************************)
RowsAndJobsAgree == PendingHasOwner /\ RowAndJobAgree /\ OneCancelWins

(***************************************************************************)
(* What a user reads as final stays: no step takes an email out of FAILED, *)
(* CANCELLED or SUPPRESSED, unless a zombie run, a lost answer of Redis or *)
(* a run that could not write down its send left somebody at work on it.   *)
(***************************************************************************)
FinalStatusSticks ==
  [][\A e \in Emails :
       status[e] \in {"FAILED", "CANCELLED", "SUPPRESSED"}
         => status'[e] = status[e] \/ Met(e, {"stall", "redis", "db"})]_vars

Settled(e) ==
  \/ accepted[e] # {}
  \/ status[e] \in {"FAILED", "CANCELLED", "SUPPRESSED"}
  \/ job[e] = "failed"

(***************************************************************************)
(* Every email a request begins to create is sent, failed, cancelled or    *)
(* suppressed in the end, or its job is left in the failed set, however    *)
(* often its worker stalls or cannot write; what can make it vanish is a   *)
(* crash of a request, a lost enqueue, or a missing configuration set.     *)
(***************************************************************************)
EveryEmailSettles ==
  \A e \in Emails :
    api[e] # "idle" ~> Settled(e) \/ Met(e, {"crash", "redis", "config"})

-----------------------------------------------------------------------------
(* The refinement of EmailOutcome *)

OutcomeOf(e) ==
  IF suffered[e] # {} THEN "excused"
  ELSE IF api[e] = "idle" THEN "new"
  ELSE IF status[e] = "SUPPRESSED" THEN "suppressed"
  ELSE IF accepted[e] # {} THEN "sent"
  ELSE IF Withdrawn(e) THEN "cancelled"
  ELSE IF status[e] = "FAILED" THEN "failed"
  ELSE "pending"

Outcome == INSTANCE EmailOutcome WITH outcome <- [e \in Emails |-> OutcomeOf(e)]

(***************************************************************************)
(* The requests, the queue, the workers and any number of overlapping      *)
(* cancel and update requests together do what EmailOutcome promises: each *)
(* email that meets no fault is resolved once, and in one way, whatever    *)
(* happens to the others.                                                  *)
(***************************************************************************)
ImplementsOutcome == Outcome!Spec
=============================================================================
