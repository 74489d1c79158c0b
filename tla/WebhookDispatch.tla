-------------------------- MODULE WebhookDispatch --------------------------
(***************************************************************************)
(* WebhookService and WebhookQueueService for one webhook: an event makes  *)
(* a WebhookCall row and a BullMQ job, whose runs post the call to the     *)
(* customer's endpoint, one post at a time under a Redis lock, up to       *)
(* MaxAttempts times; a webhook that exhausts Threshold calls in a row is  *)
(* disabled.  Calls of other webhooks share nothing with these but the     *)
(* workers, of which there are many.                                       *)
(*                                                                         *)
(* received, exhausted and suffered are history: what the endpoint got,    *)
(* the calls exhausted since a success or an activation, and the events a  *)
(* call went through.                                                      *)
(***************************************************************************)
EXTENDS Naturals, FiniteSets, FiniteSetsExt

CONSTANTS
  Calls,          \* the webhook's calls
  MaxAttempts,    \* WEBHOOK_MAX_ATTEMPTS
  Threshold,      \* WEBHOOK_AUTO_DISABLE_THRESHOLD
  MaxStalled,     \* BullMQ's maxStalledCount
  StatusRequests, \* setWebhookStatus requests, each made once
  MaxDisturbances \* bound on faults, retryCall and setWebhookStatus requests, together

FaultKinds == { "crash", "db", "stall", "slow", "timeout", "cleanup" }

ASSUME AttemptsAssumption == MaxAttempts \in Nat \ {0}
ASSUME ThresholdAssumption == Threshold \in Nat \ {0}
ASSUME DispatchAssumption ==
  /\ MaxStalled \in Nat
  /\ MaxDisturbances \in Nat

VARIABLES
  webhook,   \* the row: [status, failures]
  call,      \* call[c]: c's row
  caller,    \* caller[c]: the API request that is making or retrying c
  job,       \* job[c]: c's BullMQ job
  run,       \* run[c][i]: the worker runs of that job, two of them if one stalls
  lock,      \* webhook:lock:<id>: at most one <<c, i>>, <<c, 0>> if its run died
  request,   \* request[r]: a setWebhookStatus request
  retries,   \* retries[c]: the retryCall requests c has had
  received,  \* received[c]: how often the endpoint got c
  exhausted, \* final attempts failed since the last success or activation
  late,      \* late[c]: posts of c begun since the webhook was last ACTIVE
  suffered   \* suffered[c]: what happened to c

webhookVars == << webhook, call, caller, job, run, lock, request, retries,
                  received, exhausted, late, suffered >>

Slots == 1 .. MaxStalled + 1
WebhookStatus == { "ACTIVE", "PAUSED", "AUTO_DISABLED" }
WebhookCallStatus == { "PENDING", "IN_PROGRESS", "DELIVERED", "FAILED", "DISCARDED" }
Marks == FaultKinds \cup { "contended", "disabled", "retried", "ignored", "gone" }

Exists(c) == call[c].status \in WebhookCallStatus
WebhookExists == webhook.status # "deleted"
Gone == [status |-> "gone", attempt |-> 0]
NoRun == [pc |-> "idle", attempt |-> 0, flag |-> FALSE]

Mark(c, k) == suffered' = [suffered EXCEPT ![c] = @ \cup {k}]
SetCall(c, s, n) == call' = [call EXCEPT ![c] = [status |-> s, attempt |-> n]]
GoTo(c, i, s) == run' = [run EXCEPT ![c][i].pc = s]

\* flag: what a run read or will do; "throws" once it is leaving.
Leave(c, i, s, throws) ==
  run' = [run EXCEPT ![c][i].pc = s, ![c][i].flag = throws]

RunPCs ==
  { "idle", "loaded", "locking", "contended", "posting", "accepted",
    "rejected", "counted", "releasing", "leaving" }

DispatchTypeOK ==
  /\ webhook \in [status : WebhookStatus \cup {"deleted"}, failures : Nat]
  /\ call \in [Calls -> [status : WebhookCallStatus \cup {"none", "gone"},
                         attempt : 0 .. MaxAttempts]]
  /\ caller \in [Calls -> {"new", "enqueuing", "idle"}]
  /\ job \in [Calls -> [state : {"none", "waiting", "active", "failed"},
                        made : 0 .. MaxAttempts, stalls : 0 .. MaxStalled,
                        owner : Slots \cup {0}]]
  /\ run \in [Calls -> [Slots -> [pc : RunPCs, attempt : 0 .. MaxAttempts,
                                  flag : BOOLEAN]]]
  /\ lock \subseteq Calls \X (Slots \cup {0}) /\ Cardinality(lock) <= 1
  /\ request \in [StatusRequests -> [pc : {"new", "read", "done"},
                                     status : WebhookStatus, failures : Nat]]
  /\ retries \in [Calls -> Nat]
  /\ received \in [Calls -> Nat]
  /\ exhausted \in Nat /\ late \in [Calls -> Nat]
  /\ suffered \in [Calls -> SUBSET Marks]

NoJob == [state |-> "none", made |-> 0, stalls |-> 0, owner |-> 0]

DispatchInit ==
  /\ webhook = [status |-> "ACTIVE", failures |-> 0]
  /\ call = [c \in Calls |-> [status |-> "none", attempt |-> 0]]
  /\ caller = [c \in Calls |-> "new"]
  /\ job = [c \in Calls |-> NoJob]
  /\ run = [c \in Calls |-> [i \in Slots |-> NoRun]]
  /\ lock = {}
  /\ request = [r \in StatusRequests |->
                  [pc |-> "new", status |-> "ACTIVE", failures |-> 0]]
  /\ retries = [c \in Calls |-> 0]
  /\ received = [c \in Calls |-> 0]
  /\ exhausted = 0 /\ late = [c \in Calls |-> 0]
  /\ suffered = [c \in Calls |-> {}]

\* The bound on an instance: what happens besides calls being made and run.
Disturbances ==
  MapThenSumSet(LAMBDA c : retries[c] + Cardinality(suffered[c] \cap FaultKinds), Calls)
    + Cardinality({ r \in StatusRequests : request[r].pc # "new" })
    + (IF WebhookExists THEN 0 ELSE 1)
Within == Disturbances' <= MaxDisturbances

-----------------------------------------------------------------------------
\* API requests.

\* emit, which asked for an ACTIVE webhook some time before, and testWebhook,
\* which takes any, store the call.
CreateCall(c) ==
  /\ caller[c] = "new" /\ WebhookExists
  /\ caller' = [caller EXCEPT ![c] = "enqueuing"]
  /\ SetCall(c, "PENDING", 0)
  /\ UNCHANGED << webhook, job, run, lock, request, retries, received,
                  exhausted, late, suffered >>

\* retryCall resets the row whatever its status is.
RetryCall(c) ==
  /\ caller[c] = "idle" /\ Exists(c)
  /\ caller' = [caller EXCEPT ![c] = "enqueuing"]
  /\ retries' = [retries EXCEPT ![c] = @ + 1]
  /\ SetCall(c, "PENDING", 0)
  /\ Mark(c, "retried")
  /\ UNCHANGED << webhook, job, run, lock, request, received, exhausted, late >>
  /\ Within

\* enqueueCall: the job id is the call's, and BullMQ ignores an add whose id
\* it still knows: a failed job is kept for 30 days.
EnqueueCall(c) ==
  /\ caller[c] = "enqueuing"
  /\ caller' = [caller EXCEPT ![c] = "idle"]
  /\ \/ /\ job[c].state = "none"
        /\ job' = [job EXCEPT ![c].state = "waiting"]
        /\ UNCHANGED suffered
     \/ /\ job[c].state # "none"
        /\ Mark(c, "ignored")
        /\ UNCHANGED job
  /\ UNCHANGED << webhook, call, run, lock, request, retries, received,
                  exhausted, late >>

\* The server dies, or Redis does not answer, before the job is added.
EnqueueFails(c) ==
  /\ caller[c] = "enqueuing"
  /\ caller' = [caller EXCEPT ![c] = "idle"]
  /\ Mark(c, "crash")
  /\ UNCHANGED << webhook, call, job, run, lock, request, retries, received,
                  exhausted, late >>
  /\ Within

\* setWebhookStatus, with one of the two statuses the dashboard sends, reads
\* the row ...
ReadWebhook(r) ==
  /\ request[r].pc = "new" /\ WebhookExists
  /\ \E s \in {"ACTIVE", "PAUSED"} :
       request' = [request EXCEPT ![r] =
                     [pc |-> "read", status |-> s, failures |-> webhook.failures]]
  /\ UNCHANGED << webhook, call, caller, job, run, lock, retries, received,
                  exhausted, late, suffered >>
  /\ Within

\* Mutant of WriteWebhookStatus: an activation keeps the failures it read.
WriteWebhookStatusKeeping(r) ==
  /\ request[r].pc = "read"
  /\ request' = [request EXCEPT ![r].pc = "done"]
  /\ webhook' = IF WebhookExists
                  THEN [status |-> request[r].status, failures |-> request[r].failures]
                  ELSE webhook
  /\ exhausted' = IF request[r].status = "ACTIVE" THEN 0 ELSE exhausted
  /\ UNCHANGED << late, call, caller, job, run, lock, retries, received, suffered >>

\* ... and writes it: an activation clears the failures, any other status
\* writes back the failures it read.
WriteWebhookStatus(r) ==
  /\ request[r].pc = "read"
  /\ request' = [request EXCEPT ![r].pc = "done"]
  /\ \/ /\ WebhookExists /\ request[r].status = "ACTIVE"
        /\ webhook' = [status |-> "ACTIVE", failures |-> 0]
        /\ exhausted' = 0 /\ late' = [c \in Calls |-> 0]
     \/ /\ WebhookExists /\ request[r].status # "ACTIVE"
        /\ webhook' = [status |-> request[r].status, failures |-> request[r].failures]
        /\ UNCHANGED << exhausted, late >>
     \/ ~WebhookExists /\ UNCHANGED << webhook, exhausted, late >>
  /\ UNCHANGED << call, caller, job, run, lock, retries, received, suffered >>

\* deleteWebhook: the calls go with the webhook, their jobs do not.
DeleteWebhook ==
  /\ WebhookExists
  /\ webhook' = [webhook EXCEPT !.status = "deleted"]
  /\ call' = [c \in Calls |-> IF Exists(c) THEN Gone ELSE call[c]]
  /\ UNCHANGED << caller, job, run, lock, request, retries, received,
                  exhausted, late, suffered >>
  /\ Within

\* The daily cleanup deletes the calls made 30 days ago, whatever their status.
CleanUp(c) ==
  /\ caller[c] = "idle" /\ Exists(c)
  /\ call' = [call EXCEPT ![c] = Gone]
  /\ Mark(c, "cleanup")
  /\ UNCHANGED << webhook, caller, job, run, lock, request, retries, received,
                  exhausted, late >>
  /\ Within

-----------------------------------------------------------------------------
\* processWebhookCall, run i of c's job.

\* Mutant of StartRun: only the first attempt asks for an ACTIVE webhook.
StartRunOnce(c, i) ==
  /\ job[c].state = "waiting"
  /\ run[c][i].pc = "idle" /\ \A j \in Slots : j < i => run[c][j].pc # "idle"
  /\ job' = [job EXCEPT ![c].state = "active", ![c].owner = i]
  /\ run' = [run EXCEPT ![c][i] =
               IF Exists(c) THEN [pc |-> "loaded", attempt |-> job[c].made + 1,
                                  flag |-> webhook.status = "ACTIVE" \/ job[c].made > 0]
                            ELSE [pc |-> "leaving", attempt |-> 0, flag |-> FALSE]]
  /\ UNCHANGED << webhook, call, caller, lock, request, retries, received, exhausted,
                  late, suffered >>

\* A worker takes a waiting job, at once or after its backoff, and reads the
\* call with its webhook; a call that is gone ends the job.
StartRun(c, i) ==
  /\ job[c].state = "waiting"
  /\ run[c][i].pc = "idle" /\ \A j \in Slots : j < i => run[c][j].pc # "idle"
  /\ job' = [job EXCEPT ![c].state = "active", ![c].owner = i]
  /\ run' = [run EXCEPT ![c][i] =
               IF Exists(c) THEN [pc |-> "loaded", attempt |-> job[c].made + 1,
                                  flag |-> webhook.status = "ACTIVE"]
                            ELSE [pc |-> "leaving", attempt |-> 0, flag |-> FALSE]]
  /\ UNCHANGED << webhook, call, caller, lock, request, retries, received,
                  exhausted, late, suffered >>

DiscardCall(c, i) ==
  /\ run[c][i].pc = "loaded" /\ ~run[c][i].flag
  /\ Exists(c)
  /\ SetCall(c, "DISCARDED", run[c][i].attempt)
  /\ Leave(c, i, "leaving", FALSE)
  /\ UNCHANGED << webhook, caller, job, lock, request, retries, received,
                  exhausted, late, suffered >>

MarkInProgress(c, i) ==
  /\ run[c][i].pc = "loaded" /\ run[c][i].flag
  /\ Exists(c)
  /\ SetCall(c, "IN_PROGRESS", run[c][i].attempt)
  /\ GoTo(c, i, "locking")
  /\ UNCHANGED << webhook, caller, job, lock, request, retries, received,
                  exhausted, late, suffered >>

\* With the lock the post begins, whatever the webhook's status is by now.
AcquireLock(c, i) ==
  /\ run[c][i].pc = "locking" /\ lock = {}
  /\ lock' = { << c, i >> }
  /\ late' = IF webhook.status = "ACTIVE" THEN late ELSE [late EXCEPT ![c] = @ + 1]
  /\ GoTo(c, i, "posting")
  /\ UNCHANGED << webhook, call, caller, job, request, retries, received, exhausted, suffered >>

\* Not acquiring the lock uses up an attempt; on the last one the row keeps
\* the PENDING it gets next.
LockBusy(c, i) ==
  /\ run[c][i].pc = "locking" /\ lock # {}
  /\ GoTo(c, i, "contended")
  /\ suffered' = [suffered EXCEPT ![c] =
                    IF run[c][i].attempt = MaxAttempts THEN @ \cup {"contended"} ELSE @]
  /\ UNCHANGED << webhook, call, caller, job, lock, request, retries, received,
                  exhausted, late >>

MarkContended(c, i) ==
  /\ run[c][i].pc = "contended"
  /\ Exists(c)
  /\ SetCall(c, "PENDING", call[c].attempt)
  /\ Leave(c, i, "leaving", TRUE)
  /\ UNCHANGED << webhook, caller, job, lock, request, retries, received,
                  exhausted, late, suffered >>

\* The endpoint answers 2xx.
PostAccepted(c, i) ==
  /\ run[c][i].pc = "posting"
  /\ received' = [received EXCEPT ![c] = @ + 1]
  /\ GoTo(c, i, "accepted")
  /\ UNCHANGED << webhook, call, caller, job, lock, request, retries,
                  exhausted, late, suffered >>

\* It answers otherwise, or not within WEBHOOK_REQUEST_TIMEOUT_MS.
PostRejected(c, i) ==
  /\ run[c][i].pc = "posting"
  /\ GoTo(c, i, "rejected")
  /\ UNCHANGED << webhook, call, caller, job, lock, request, retries, received,
                  exhausted, late, suffered >>

\* It takes the call and its answer comes too late or not at all.
PostTimesOut(c, i) ==
  /\ run[c][i].pc = "posting"
  /\ received' = [received EXCEPT ![c] = @ + 1]
  /\ Mark(c, "timeout")
  /\ GoTo(c, i, "rejected")
  /\ UNCHANGED << webhook, call, caller, job, lock, request, retries, exhausted, late >>
  /\ Within

\* Mutant of RecordDelivered: the error path's rethrow is taken as well.
RecordDeliveredThrowing(c, i) ==
  /\ run[c][i].pc = "accepted" /\ Exists(c)
  /\ SetCall(c, "DELIVERED", run[c][i].attempt)
  /\ webhook' = [webhook EXCEPT !.failures = 0]
  /\ exhausted' = 0
  /\ Leave(c, i, "releasing", TRUE)
  /\ UNCHANGED << late, caller, job, lock, request, retries, received, suffered >>

\* One transaction on the call and the webhook.
RecordDelivered(c, i) ==
  /\ run[c][i].pc = "accepted" /\ Exists(c)
  /\ SetCall(c, "DELIVERED", run[c][i].attempt)
  /\ webhook' = [webhook EXCEPT !.failures = 0]
  /\ exhausted' = 0
  /\ Leave(c, i, "releasing", FALSE)
  /\ UNCHANGED << late, caller, job, lock, request, retries, received, suffered >>

Final(c, i) == run[c][i].attempt = MaxAttempts

\* The webhook after a failed run: only a final attempt counts, and only an
\* ACTIVE webhook is disabled.
AfterFailure(c, i) ==
  LET failures == IF Final(c, i) THEN webhook.failures + 1 ELSE webhook.failures IN
  [ failures |-> failures,
    status |-> IF Final(c, i) /\ webhook.status = "ACTIVE" /\ failures >= Threshold
                 THEN "AUTO_DISABLED" ELSE webhook.status ]

\* One transaction; flag remembers that the webhook is disabled by now,
\* through this run or another.
CountFailure(c, i) ==
  /\ run[c][i].pc = "rejected" /\ WebhookExists
  /\ webhook' = AfterFailure(c, i)
  /\ exhausted' = IF Final(c, i) THEN exhausted + 1 ELSE exhausted
  /\ Leave(c, i, "counted", AfterFailure(c, i).status = "AUTO_DISABLED")
  /\ UNCHANGED << late, call, caller, job, lock, request, retries, received, suffered >>

\* Mutant of RecordFailure: FAILED only past the last attempt.
RecordFailureLate(c, i) ==
  /\ run[c][i].pc = "counted" /\ Exists(c)
  /\ SetCall(c, "PENDING", run[c][i].attempt)
  /\ Leave(c, i, "releasing", ~run[c][i].flag)
  /\ UNCHANGED << webhook, caller, job, lock, request, retries, received,
                  exhausted, late, suffered >>

\* The call is FAILED or PENDING for another attempt.  The run rethrows, which
\* makes BullMQ try again, unless the webhook is disabled: a call with
\* attempts left is then PENDING and its job is complete.
RecordFailure(c, i) ==
  /\ run[c][i].pc = "counted" /\ Exists(c)
  /\ SetCall(c, IF Final(c, i) THEN "FAILED" ELSE "PENDING", run[c][i].attempt)
  /\ Leave(c, i, "releasing", ~run[c][i].flag)
  /\ suffered' = [suffered EXCEPT ![c] =
                    IF run[c][i].flag /\ ~Final(c, i) THEN @ \cup {"disabled"} ELSE @]
  /\ UNCHANGED << webhook, caller, job, lock, request, retries, received,
                  exhausted, late >>

\* Where a run that fails to write goes: out of processWebhookCall before the
\* try, into the catch from the try, and through the finally from the catch.
WriteThrows(c, i) ==
  LET pc == run[c][i].pc IN
  /\ \/ Mark(c, "db")
     \/ pc # "rejected" /\ ~Exists(c) /\ Mark(c, "gone")
     \/ pc = "rejected" /\ ~WebhookExists /\ Mark(c, "gone")
  /\ \/ pc \in {"loaded", "contended"} /\ Leave(c, i, "leaving", TRUE)
     \/ pc = "accepted" /\ GoTo(c, i, "rejected")
     \/ pc \in {"rejected", "counted"} /\ Leave(c, i, "releasing", TRUE)
  /\ UNCHANGED << webhook, call, caller, job, lock, request, retries, received,
                  exhausted, late >>
  /\ Within

\* Mutant of ReleaseLock: a DEL that does not compare the lock's value.
ReleaseLockBlindly(c, i) ==
  /\ run[c][i].pc = "releasing"
  /\ lock' = {}
  /\ GoTo(c, i, "leaving")
  /\ UNCHANGED << webhook, call, caller, job, request, retries, received,
                  exhausted, late, suffered >>

\* The finally of every run that had the lock: compare and delete.
ReleaseLock(c, i) ==
  /\ run[c][i].pc = "releasing"
  /\ lock' = lock \ { << c, i >> }
  /\ GoTo(c, i, "leaving")
  /\ UNCHANGED << webhook, call, caller, job, request, retries, received,
                  exhausted, late, suffered >>

-----------------------------------------------------------------------------
\* BullMQ and Redis.

\* Mutant of FinishRun: attempts are not counted against MaxAttempts.
FinishRunUnlimited(c, i) ==
  /\ run[c][i].pc = "leaving"
  /\ run' = [run EXCEPT ![c][i] = NoRun]
  /\ job' = IF job[c].owner # i THEN job
            ELSE IF run[c][i].flag
              THEN [job EXCEPT ![c].state = "waiting", ![c].made = @ + 1, ![c].owner = 0]
              ELSE [job EXCEPT ![c] = NoJob]
  /\ UNCHANGED << webhook, call, caller, lock, request, retries, received,
                  exhausted, late, suffered >>

\* A run that returns completes its job, which is removed; one that throws
\* has it tried again or, after MaxAttempts, kept as failed.  A run that lost
\* its job to another changes nothing.
FinishRun(c, i) ==
  /\ run[c][i].pc = "leaving"
  /\ run' = [run EXCEPT ![c][i] = NoRun]
  /\ \/ job[c].owner # i /\ UNCHANGED job
     \/ job[c].owner = i /\ ~run[c][i].flag /\ job' = [job EXCEPT ![c] = NoJob]
     \/ /\ job[c].owner = i /\ run[c][i].flag
        /\ job' = [job EXCEPT
             ![c].state = IF job[c].made + 1 < MaxAttempts THEN "waiting" ELSE "failed",
             ![c].made = @ + 1, ![c].owner = 0]
  /\ UNCHANGED << webhook, call, caller, lock, request, retries, received,
                  exhausted, late, suffered >>

Active(c, i) == run[c][i].pc # "idle"

\* The worker does not renew the job in time: the job goes to another run, or
\* fails when it stalled too often, and the run goes on or is dead.
Stall(c, i) ==
  /\ job[c].owner = i /\ Active(c, i)
  /\ Mark(c, "stall")
  /\ job' = IF job[c].stalls < MaxStalled
              THEN [job EXCEPT ![c].state = "waiting", ![c].owner = 0, ![c].stalls = @ + 1]
              ELSE [job EXCEPT ![c].state = "failed", ![c].owner = 0]
  /\ \/ UNCHANGED << run, lock >>
     \/ /\ run' = [run EXCEPT ![c][i] = NoRun]
        /\ lock' = IF << c, i >> \in lock THEN { << c, 0 >> } ELSE lock
  /\ UNCHANGED << webhook, call, caller, request, retries, received, exhausted, late >>
  /\ Within

\* WEBHOOK_LOCK_TTL_MS is longer than a post may take, so that a lock expires
\* with its run dead or, a fault, with its run slow.
LockExpires ==
  /\ \E h \in lock : IF h[2] = 0 THEN UNCHANGED suffered ELSE Mark(h[1], "slow")
  /\ lock' = {}
  /\ UNCHANGED << webhook, call, caller, job, run, request, retries, received,
                  exhausted, late >>
  /\ Within

-----------------------------------------------------------------------------
WorkerStep(c) ==
  \E i \in Slots :
    \/ StartRun(c, i) \/ DiscardCall(c, i) \/ MarkInProgress(c, i)
    \/ AcquireLock(c, i) \/ LockBusy(c, i) \/ MarkContended(c, i)
    \/ PostAccepted(c, i) \/ PostRejected(c, i) \/ RecordDelivered(c, i)
    \/ CountFailure(c, i) \/ RecordFailure(c, i) \/ WriteThrows(c, i)
    \/ ReleaseLock(c, i) \/ FinishRun(c, i)

WebhookNext ==
  \/ \E c \in Calls : CreateCall(c) \/ RetryCall(c) \/ EnqueueCall(c) \/ EnqueueFails(c)
                      \/ CleanUp(c) \/ WorkerStep(c)
  \/ \E c \in Calls, i \in Slots : PostTimesOut(c, i) \/ Stall(c, i)
  \/ \E r \in StatusRequests : ReadWebhook(r) \/ WriteWebhookStatus(r)
  \/ DeleteWebhook
  \/ LockExpires

WebhookSpec == DispatchInit /\ [][WebhookNext]_webhookVars

\* A server that does not crash finishes its requests, BullMQ runs the jobs it
\* has and a Redis key expires; nobody has to make a call or a request.
WebhookFairness ==
  /\ \A c \in Calls : WF_webhookVars(EnqueueCall(c) \/ EnqueueFails(c))
                      /\ WF_webhookVars(WorkerStep(c))
  /\ WF_webhookVars(LockExpires)
WebhookFairSpec == WebhookSpec /\ WebhookFairness

-----------------------------------------------------------------------------
(* Properties. *)

Excuses(c, ks) == suffered[c] \cap ks # {}

\* A run that posts holds the lock, so that no two runs post to the webhook
\* at once, unless the lock outlived its 15 seconds; in particular nobody
\* releases another run's lock.
PostsHoldTheLock ==
  \A c \in Calls, i \in Slots :
    run[c][i].pc = "posting" /\ ~Excuses(c, {"slow"}) => << c, i >> \in lock

\* The endpoint takes a call once unless its worker stalled, a write or an
\* answer failed, or the customer asked for it again.
CallReceivedOnce ==
  \A c \in Calls :
    received[c] > 1 => Excuses(c, {"stall", "db", "timeout", "retried"})

\* With the same exceptions a call shown as FAILED or DISCARDED was never
\* taken by the endpoint.
FailedWasNotReceived ==
  \A c \in Calls :
    /\ call[c].status \in {"FAILED", "DISCARDED"} /\ received[c] > 0
    => Excuses(c, {"stall", "db", "timeout", "retried"})

\* A call waiting to be delivered has a job that will, or a request about to
\* add it.  What orphans a call: a crash before the job is added, a failed
\* write, a stall too many, the lock being busy on the last attempt, the
\* webhook being disabled by another call's failure, an ignored add.
PendingCallHasJob ==
  \A c \in Calls :
    call[c].status \in {"PENDING", "IN_PROGRESS"} =>
      \/ caller[c] = "enqueuing"
      \/ job[c].state \in {"waiting", "active"}
      \/ Excuses(c, {"crash", "db", "stall", "contended", "disabled", "ignored"})

\* A failure disables the webhook only after Threshold calls have used up
\* their attempts since the last success and since the last activation,
\* whatever a stale setWebhookStatus wrote in between.
AutoDisableDeserved ==
  [][ webhook.status # "AUTO_DISABLED" /\ webhook'.status = "AUTO_DISABLED"
      => exhausted' >= Threshold ]_webhookVars

\* A webhook that is paused, disabled or deleted gets of each call at most the
\* one post of a run that had read it as ACTIVE and was waiting for the lock,
\* until it is activated again; two if the run's worker stalled.
LatePostsAreFew ==
  \A c \in Calls : late[c] > 1 => Excuses(c, {"stall"})

\* Nothing is posted without the lock, nor long after the webhook was disabled.
PostsAreGuarded == PostsHoldTheLock /\ LatePostsAreFew

\* Every call is delivered, failed or discarded in the end, unless orphaned.
EveryCallSettles ==
  \A c \in Calls :
    call[c].status = "PENDING" ~>
      \/ call[c].status \in {"DELIVERED", "FAILED", "DISCARDED", "gone"}
      \/ Excuses(c, {"crash", "db", "stall", "contended", "disabled", "ignored"})

\* What a call's row says is so: received once if at all, not received if
\* FAILED or DISCARDED, and on its way if PENDING.
CallIsAsShown ==
  DispatchTypeOK /\ CallReceivedOnce /\ FailedWasNotReceived /\ PendingCallHasJob
=============================================================================
