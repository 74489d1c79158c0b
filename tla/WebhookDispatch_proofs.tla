----------------------- MODULE WebhookDispatch_proofs -----------------------
(***************************************************************************)
(* Theorems about WebhookDispatch, for every set of calls and of status    *)
(* requests, every number of attempts and of stalls, and whatever bound on *)
(* the disturbances.                                                       *)
(***************************************************************************)
EXTENDS MCWebhookDispatch, FiniteSetTheorems, TLAPS

USE AttemptsAssumption, ThresholdAssumption, DispatchAssumption

RunRecords == [pc : RunPCs, attempt : 0 .. MaxAttempts, flag : BOOLEAN]
JobRecords == [state : {"none", "waiting", "active", "failed"}, made : 0 .. MaxAttempts,
               stalls : 0 .. MaxStalled, owner : Slots \cup {0}]
CallRecords == [status : WebhookCallStatus \cup {"none", "gone"}, attempt : 0 .. MaxAttempts]

(***************************************************************************)
(* The types, of which only the lock's is more than DispatchTypeOK says: a *)
(* lock has one holder.                                                    *)
(***************************************************************************)
Typed ==
  /\ webhook \in [status : WebhookStatus \cup {"deleted"}, failures : Nat]
  /\ call \in [Calls -> CallRecords]
  /\ caller \in [Calls -> {"new", "enqueuing", "idle"}]
  /\ job \in [Calls -> JobRecords]
  /\ run \in [Calls -> [Slots -> RunRecords]]
  /\ lock \subseteq Calls \X (Slots \cup {0}) /\ \A h, k \in lock : h = k
  /\ request \in [StatusRequests -> [pc : {"new", "read", "done"},
                                     status : WebhookStatus, failures : Nat]]
  /\ retries \in [Calls -> Nat] /\ received \in [Calls -> Nat]
  /\ exhausted \in Nat /\ late \in [Calls -> Nat]
  /\ suffered \in [Calls -> SUBSET Marks]

\* Who has a job's runs: its owner if it is active; and the attempts it made.
JobIsRun(c) ==
  /\ job[c].owner \in Slots \cup {0}
  /\ job[c].state = "active" <=> job[c].owner # 0
  /\ job[c].state # "failed" => job[c].made < MaxAttempts
  /\ job[c].owner # 0 =>
       LET r == run[c][job[c].owner] IN
       r.pc # "idle" /\ (r.attempt = job[c].made + 1 \/ (r.pc = "leaving" /\ ~r.flag))

\* A job whose worker never stalled has no run but its owner's.
OwnerAlone(c) ==
  "stall" \notin suffered[c] => \A i \in Slots : Active(c, i) => job[c].owner = i

\* Before its first job a call has neither runs nor posts.
FreshHasNoRun(c) ==
  /\ caller[c] = "new" => call[c].status = "none"
  /\ caller[c] = "new" \/ (caller[c] = "enqueuing" /\ "retried" \notin suffered[c]) =>
       job[c].state = "none" /\ received[c] = 0 /\ \A i \in Slots : ~Active(c, i)

\* A run that has not written its result finds the call IN_PROGRESS or gone.
Clean(c) == \A k \in {"stall", "db", "timeout", "retried"} : k \notin suffered[c]
RunInProgress(c) ==
  Clean(c) => \A i \in Slots :
    run[c][i].pc \in {"locking", "contended", "posting", "accepted", "rejected", "counted"}
    => call[c].status \in {"IN_PROGRESS", "gone"}

\* Once received, a call is gone, delivered with its run on the way out, or
\* about to be marked so; no run of it will post again.
ReceivedIsShown(c) ==
  Clean(c) /\ received[c] > 0 =>
    /\ received[c] = 1
    /\ \A i \in Slots : run[c][i].pc \notin {"loaded", "locking", "contended", "posting"}
    /\ \/ call[c].status = "gone"
       \/ /\ call[c].status = "DELIVERED" /\ job[c].state # "waiting"
          /\ \A i \in Slots : Active(c, i) =>
               run[c][i].pc \in {"releasing", "leaving"} /\ ~run[c][i].flag
       \/ \E i \in Slots : run[c][i].pc = "accepted"

\* A run that leaves without another attempt has settled the call.
Tended(c) ==
  \A k \in {"crash", "db", "stall", "contended", "disabled", "ignored"} : k \notin suffered[c]
Unsettled(c) == call[c].status \in {"PENDING", "IN_PROGRESS"} /\ caller[c] # "enqueuing"
LeavesSettled(c) ==
  /\ Tended(c) => \A i \in Slots :
       /\ run[c][i].pc \in {"releasing", "leaving"}
       /\ ~run[c][i].flag \/ run[c][i].attempt = MaxAttempts
       => ~Unsettled(c)
  /\ \A i \in Slots :
       run[c][i].pc = "contended" /\ run[c][i].attempt = MaxAttempts
       => "contended" \in suffered[c]
  /\ Tended(c) /\ Unsettled(c) => job[c].state \in {"waiting", "active"}

\* Once a post began late, no run of the call is left that read ACTIVE.
LateIsLast(c) ==
  "stall" \notin suffered[c] /\ late[c] > 0 =>
    /\ late[c] = 1 /\ webhook.status # "ACTIVE"
    /\ \A i \in Slots : /\ run[c][i].pc # "locking"
                        /\ run[c][i].pc = "loaded" => ~run[c][i].flag

\* A run keeps the lock until it frees it, unless it expires.
HeldPCs == {"posting", "accepted", "rejected", "counted", "releasing"}
LockIsKept(c) ==
  "slow" \notin suffered[c] =>
    \A i \in Slots : run[c][i].pc \in HeldPCs => << c, i >> \in lock

CallInv(c) ==
  /\ JobIsRun(c) /\ OwnerAlone(c) /\ FreshHasNoRun(c) /\ RunInProgress(c)
  /\ ReceivedIsShown(c) /\ LeavesSettled(c) /\ LateIsLast(c) /\ LockIsKept(c)

\* A webhook that is deleted has no calls.
DeletedHasNoCalls == ~WebhookExists => \A c \in Calls : ~Exists(c)

DispatchInv == Typed /\ DeletedHasNoCalls /\ \A c \in Calls : CallInv(c)

(***************************************************************************)
(* What a step of a run does to the runs.                                  *)
(***************************************************************************)
Becomes(c, i, s, n, throws) ==
  /\ run' \in [Calls -> [Slots -> RunRecords]]
  /\ run'[c][i].pc = s /\ run'[c][i].attempt = n /\ run'[c][i].flag = throws
  /\ \A j \in Slots \ {i} : run'[c][j] = run[c][j]
  /\ \A d \in Calls \ {c} : run'[d] = run[d]

LEMMA RunSet ==
  ASSUME Typed, NEW c \in Calls, NEW i \in Slots, NEW x \in RunRecords,
         run' = [run EXCEPT ![c][i] = x]
  PROVE  Becomes(c, i, x.pc, x.attempt, x.flag)
  BY DEF Typed, Becomes

LEMMA RunGoes ==
  ASSUME Typed, NEW c \in Calls, NEW i \in Slots, NEW s \in RunPCs, GoTo(c, i, s)
  PROVE  Becomes(c, i, s, run[c][i].attempt, run[c][i].flag)
<1>1. run[c][i] \in RunRecords
  BY DEF Typed
<1>2. PICK x \in RunRecords : x = [run[c][i] EXCEPT !.pc = s]
  BY <1>1 DEF RunRecords
<1>3. x.pc = s /\ x.attempt = run[c][i].attempt /\ x.flag = run[c][i].flag
  BY <1>1, <1>2 DEF RunRecords
<1>4. run' = [run EXCEPT ![c][i] = x]
  BY <1>2 DEF GoTo, Typed
<1> QED
  BY <1>3, <1>4, RunSet

LEMMA RunLeaves ==
  ASSUME Typed, NEW c \in Calls, NEW i \in Slots, NEW s \in RunPCs, NEW throws \in BOOLEAN,
         Leave(c, i, s, throws)
  PROVE  Becomes(c, i, s, run[c][i].attempt, throws)
<1>1. run[c][i] \in RunRecords
  BY DEF Typed
<1>2. PICK y \in RunRecords : y = [run[c][i] EXCEPT !.pc = s]
  BY <1>1 DEF RunRecords
<1>3. PICK x \in RunRecords : x = [y EXCEPT !.flag = throws]
  BY DEF RunRecords
<1>4. x.pc = s /\ x.attempt = run[c][i].attempt /\ x.flag = throws
  BY <1>1, <1>2, <1>3 DEF RunRecords
<1>5. run' = [run EXCEPT ![c][i] = x]
  BY <1>2, <1>3, ZenonT(60) DEF Leave, Typed
<1> QED
  BY <1>4, <1>5, RunSet

(***************************************************************************)
(* A step of one call leaves the others what they are.                     *)
(***************************************************************************)
LEMMA OtherCall ==
  ASSUME NEW d \in Calls, CallInv(d),
         run'[d] = run[d], job'[d] = job[d], call'[d] = call[d], caller'[d] = caller[d],
         received'[d] = received[d], late'[d] = late[d], suffered'[d] = suffered[d],
         webhook'.status = "ACTIVE" => webhook.status = "ACTIVE",
         \A i \in Slots : << d, i >> \in lock => << d, i >> \in lock'
  PROVE  CallInv(d)'
  BY DEF CallInv, JobIsRun, OwnerAlone, FreshHasNoRun, RunInProgress, ReceivedIsShown,
     LeavesSettled, LateIsLast, LockIsKept, Active, Clean, Tended, Unsettled

(***************************************************************************)
(* The steps of the requests that make a call.                             *)
(***************************************************************************)
LEMMA MakesCall ==
  ASSUME Typed, NEW c \in Calls, CallInv(c),
         CreateCall(c) \/ RetryCall(c) \/ EnqueueCall(c) \/ EnqueueFails(c) \/ CleanUp(c)
  PROVE  CallInv(c)'
<1> USE DEF Typed, CallInv, JobIsRun, OwnerAlone, FreshHasNoRun, RunInProgress, ReceivedIsShown,
     LeavesSettled, LateIsLast, LockIsKept, Active, Clean, Tended, Unsettled,
     JobRecords, CallRecords, SetCall, Mark, Exists, WebhookCallStatus, Gone
<1>1. CASE CreateCall(c)
  BY <1>1 DEF CreateCall
<1>2. CASE RetryCall(c)
  BY <1>2 DEF RetryCall
<1>3. CASE EnqueueCall(c)
  <2>1. caller'[c] = "idle" /\ run' = run /\ call' = call /\ received' = received /\ late' = late
        /\ webhook' = webhook /\ lock' = lock /\ caller[c] = "enqueuing"
    BY <1>3 DEF EnqueueCall
  <2>2. CASE job[c].state = "none" /\ job' = [job EXCEPT ![c].state = "waiting"] /\ UNCHANGED suffered
    <3>1. job'[c].state = "waiting" /\ job'[c].owner = job[c].owner /\ job'[c].made = job[c].made
      BY <2>2
    <3>2. job[c].owner = 0 /\ 0 \notin Slots
      BY <2>2 DEF Slots
    <3> QED
      <4>1. JobIsRun(c)'
        BY <2>1, <2>2, <3>1, <3>2
      <4>2. OwnerAlone(c)'
        BY <2>1, <2>2, <3>1, <3>2
      <4>3. FreshHasNoRun(c)'
        BY <2>1, <2>2, <3>1, <3>2
      <4>4. RunInProgress(c)'
        BY <2>1, <2>2, <3>1, <3>2
      <4>5. ReceivedIsShown(c)'
        BY <2>1, <2>2, <3>1, <3>2
      <4>6. LeavesSettled(c)'
        BY <2>1, <2>2, <3>1, <3>2
      <4>7. LateIsLast(c)'
        BY <2>1, <2>2, <3>1, <3>2
      <4>8. LockIsKept(c)'
        BY <2>1, <2>2, <3>1, <3>2
      <4> QED
        BY <4>1, <4>2, <4>3, <4>4, <4>5, <4>6, <4>7, <4>8, ZenonT(60)
  <2>3. CASE job[c].state # "none" /\ Mark(c, "ignored") /\ UNCHANGED job
    BY <2>1, <2>3
  <2> QED
    BY <1>3, <2>2, <2>3, ZenonT(60) DEF EnqueueCall
<1>4. CASE EnqueueFails(c)
  BY <1>4 DEF EnqueueFails
<1>5. CASE CleanUp(c)
  BY <1>5 DEF CleanUp
<1> QED
  BY <1>1, <1>2, <1>3, <1>4, <1>5, ZenonT(60)

(***************************************************************************)
(* The steps of a run.                                                     *)
(***************************************************************************)
LEMMA RunStep ==
  ASSUME Typed, DeletedHasNoCalls, NEW c \in Calls, NEW i \in Slots, CallInv(c),
         \/ StartRun(c, i) \/ DiscardCall(c, i) \/ MarkInProgress(c, i)
         \/ AcquireLock(c, i) \/ LockBusy(c, i) \/ MarkContended(c, i)
         \/ PostAccepted(c, i) \/ PostRejected(c, i) \/ PostTimesOut(c, i)
         \/ RecordDelivered(c, i) \/ CountFailure(c, i) \/ RecordFailure(c, i)
         \/ WriteThrows(c, i) \/ ReleaseLock(c, i) \/ FinishRun(c, i) \/ Stall(c, i)
  PROVE  CallInv(c)'
<1> USE DEF CallInv, JobIsRun, OwnerAlone, FreshHasNoRun, RunInProgress, ReceivedIsShown,
     LeavesSettled, LateIsLast, LockIsKept, Active, Clean, Tended, Unsettled
<1>0. /\ run[c] \in [Slots -> RunRecords] /\ job[c] \in JobRecords /\ call[c] \in CallRecords
      /\ 0 \notin Slots /\ MaxAttempts \in Nat \ {0} /\ received[c] \in Nat /\ late[c] \in Nat
  BY DEF Typed, Slots
<1>1. CASE StartRun(c, i)
  <2> DEFINE x == IF Exists(c) THEN [pc |-> "loaded", attempt |-> job[c].made + 1,
                                     flag |-> webhook.status = "ACTIVE"]
                  ELSE [pc |-> "leaving", attempt |-> 0, flag |-> FALSE]
  <2>1. x \in RunRecords
    BY <1>0, <1>1 DEF RunRecords, RunPCs, JobRecords, StartRun
  <2>2. Becomes(c, i, x.pc, x.attempt, x.flag)
    BY <1>1, <2>1, RunSet DEF StartRun
  <2>3. job'[c].state = "active" /\ job'[c].owner = i /\ job'[c].made = job[c].made
    BY <1>1 DEF StartRun, Typed, JobRecords
  <2>4. CASE Exists(c)
    <3>1. Becomes(c, i, "loaded", job[c].made + 1, webhook.status = "ACTIVE")
      BY <2>2, <2>4
    <3> QED
      <4>1. JobIsRun(c)'
        BY <1>0, <1>1, <2>3, <2>4, <3>1 DEF StartRun, Becomes, Exists, WebhookCallStatus, HeldPCs
      <4>2. OwnerAlone(c)'
        BY <1>0, <1>1, <2>3, <2>4, <3>1 DEF StartRun, Becomes, Exists, WebhookCallStatus, HeldPCs
      <4>3. FreshHasNoRun(c)'
        BY <1>0, <1>1, <2>3, <2>4, <3>1 DEF StartRun, Becomes, Exists, WebhookCallStatus, HeldPCs
      <4>4. RunInProgress(c)'
        BY <1>0, <1>1, <2>3, <2>4, <3>1 DEF StartRun, Becomes, Exists, WebhookCallStatus, HeldPCs
      <4>5. ReceivedIsShown(c)'
        BY <1>0, <1>1, <2>3, <2>4, <3>1 DEF StartRun, Becomes, Exists, WebhookCallStatus, HeldPCs
      <4>6. LeavesSettled(c)'
        BY <1>0, <1>1, <2>3, <2>4, <3>1 DEF StartRun, Becomes, Exists, WebhookCallStatus, HeldPCs
      <4>7. LateIsLast(c)'
        BY <1>0, <1>1, <2>3, <2>4, <3>1, ZenonT(60)
           DEF StartRun, Becomes, Exists, WebhookCallStatus, HeldPCs
      <4>8. LockIsKept(c)'
        BY <1>0, <1>1, <2>3, <2>4, <3>1 DEF StartRun, Becomes, Exists, WebhookCallStatus, HeldPCs
      <4> QED
        BY <4>1, <4>2, <4>3, <4>4, <4>5, <4>6, <4>7, <4>8, ZenonT(60)
  <2>5. CASE ~Exists(c)
    <3>1. Becomes(c, i, "leaving", 0, FALSE)
      BY <2>2, <2>5
    <3>2. call[c].status \in {"none", "gone"}
      BY <1>0, <2>5 DEF CallRecords, Exists
    <3> QED
      <4>1. JobIsRun(c)'
        BY <1>0, <1>1, <2>3, <3>1, <3>2 DEF StartRun, Becomes, HeldPCs
      <4>2. OwnerAlone(c)'
        BY <1>0, <1>1, <2>3, <3>1, <3>2 DEF StartRun, Becomes, HeldPCs
      <4>3. FreshHasNoRun(c)'
        BY <1>0, <1>1, <2>3, <3>1, <3>2 DEF StartRun, Becomes, HeldPCs
      <4>4. RunInProgress(c)'
        BY <1>0, <1>1, <2>3, <3>1, <3>2 DEF StartRun, Becomes, HeldPCs
      <4>5. ReceivedIsShown(c)'
        BY <1>0, <1>1, <2>3, <3>1, <3>2 DEF StartRun, Becomes, HeldPCs
      <4>6. LeavesSettled(c)'
        BY <1>0, <1>1, <2>3, <3>1, <3>2 DEF StartRun, Becomes, HeldPCs
      <4>7. LateIsLast(c)'
        BY <1>0, <1>1, <2>3, <3>1, <3>2 DEF StartRun, Becomes, HeldPCs
      <4>8. LockIsKept(c)'
        BY <1>0, <1>1, <2>3, <3>1, <3>2 DEF StartRun, Becomes, HeldPCs
      <4> QED
        BY <4>1, <4>2, <4>3, <4>4, <4>5, <4>6, <4>7, <4>8
  <2> QED
    BY <2>4, <2>5, ZenonT(60)
<1>2. CASE DiscardCall(c, i)
  <2>1. Becomes(c, i, "leaving", run[c][i].attempt, FALSE)
    BY <1>2, <1>0, RunLeaves DEF DiscardCall, RunPCs, RunRecords
  <2>2. call'[c].status = "DISCARDED"
    BY <1>2, <1>0 DEF DiscardCall, SetCall, Typed
  <2> QED
    BY <1>2, <1>0, <2>1, <2>2, ZenonT(60) DEF DiscardCall, Becomes, HeldPCs
<1>3. CASE MarkInProgress(c, i)
  <2>1. Becomes(c, i, "locking", run[c][i].attempt, run[c][i].flag)
    BY <1>3, <1>0, RunGoes, ZenonT(60) DEF MarkInProgress, RunPCs, RunRecords
  <2>2. call'[c].status = "IN_PROGRESS"
    BY <1>3, <1>0 DEF MarkInProgress, SetCall, Typed
  <2> QED
    BY <1>3, <1>0, <2>1, <2>2, ZenonT(60) DEF MarkInProgress, Becomes, HeldPCs
<1>4. CASE AcquireLock(c, i)
  <2>1. Becomes(c, i, "posting", run[c][i].attempt, run[c][i].flag)
    BY <1>4, <1>0, RunGoes DEF AcquireLock, RunPCs, RunRecords
  <2>2. late'[c] = IF webhook.status = "ACTIVE" THEN late[c] ELSE late[c] + 1
    BY <1>4, <1>0 DEF AcquireLock, Typed
  <2> QED
    <3>1. JobIsRun(c)'
      BY <1>4, <1>0, <2>1, <2>2 DEF AcquireLock, Becomes, HeldPCs
    <3>2. OwnerAlone(c)'
      BY <1>4, <1>0, <2>1, <2>2 DEF AcquireLock, Becomes, HeldPCs
    <3>3. FreshHasNoRun(c)'
      BY <1>4, <1>0, <2>1, <2>2 DEF AcquireLock, Becomes, HeldPCs
    <3>4. RunInProgress(c)'
      BY <1>4, <1>0, <2>1, <2>2 DEF AcquireLock, Becomes, HeldPCs
    <3>5. ReceivedIsShown(c)'
      BY <1>4, <1>0, <2>1, <2>2 DEF AcquireLock, Becomes, HeldPCs
    <3>6. LeavesSettled(c)'
      BY <1>4, <1>0, <2>1, <2>2 DEF AcquireLock, Becomes, HeldPCs
    <3>7. LateIsLast(c)'
      BY <1>4, <1>0, <2>1, <2>2 DEF AcquireLock, Becomes, HeldPCs
    <3>8. LockIsKept(c)'
      BY <1>4, <1>0, <2>1, <2>2 DEF AcquireLock, Becomes, HeldPCs
    <3> QED
      BY <3>1, <3>2, <3>3, <3>4, <3>5, <3>6, <3>7, <3>8, ZenonT(30)
<1>5. CASE LockBusy(c, i)
  <2>1. Becomes(c, i, "contended", run[c][i].attempt, run[c][i].flag)
    BY <1>5, <1>0, RunGoes DEF LockBusy, RunPCs, RunRecords
  <2>2. /\ suffered[c] \subseteq suffered'[c]
        /\ run[c][i].attempt = MaxAttempts => "contended" \in suffered'[c]
    BY <1>5, <1>0 DEF LockBusy, Typed
  <2> QED
    <3>1. JobIsRun(c)'
      BY <1>5, <1>0, <2>1, <2>2 DEF LockBusy, Becomes, HeldPCs
    <3>2. OwnerAlone(c)'
      BY <1>5, <1>0, <2>1, <2>2 DEF LockBusy, Becomes, HeldPCs
    <3>3. FreshHasNoRun(c)'
      BY <1>5, <1>0, <2>1, <2>2 DEF LockBusy, Becomes, HeldPCs
    <3>4. RunInProgress(c)'
      BY <1>5, <1>0, <2>1, <2>2 DEF LockBusy, Becomes, HeldPCs
    <3>5. ReceivedIsShown(c)'
      BY <1>5, <1>0, <2>1, <2>2 DEF LockBusy, Becomes, HeldPCs
    <3>6. LeavesSettled(c)'
      BY <1>5, <2>1, <2>2 DEF LockBusy, Becomes
    <3>7. LateIsLast(c)'
      BY <1>5, <2>1, <2>2 DEF LockBusy, Becomes, HeldPCs
    <3>8. LockIsKept(c)'
      BY <1>5, <1>0, <2>1, <2>2 DEF LockBusy, Becomes, HeldPCs
    <3> QED
      BY <3>1, <3>2, <3>3, <3>4, <3>5, <3>6, <3>7, <3>8, ZenonT(30)
<1>6. CASE MarkContended(c, i)
  <2>1. Becomes(c, i, "leaving", run[c][i].attempt, TRUE)
    BY <1>6, <1>0, RunLeaves DEF MarkContended, RunPCs, RunRecords
  <2>2. call'[c].status = "PENDING"
    BY <1>6, <1>0 DEF MarkContended, SetCall, Typed
  <2> QED
    <3>1. JobIsRun(c)'
      BY <1>6, <1>0, <2>1, <2>2 DEF MarkContended, Becomes, HeldPCs
    <3>2. OwnerAlone(c)'
      BY <1>6, <1>0, <2>1, <2>2 DEF MarkContended, Becomes, HeldPCs
    <3>3. FreshHasNoRun(c)'
      BY <1>6, <1>0, <2>1, <2>2 DEF MarkContended, Becomes, HeldPCs
    <3>4. RunInProgress(c)'
      BY <1>6, <1>0, <2>1, <2>2 DEF MarkContended, Becomes, HeldPCs
    <3>5. ReceivedIsShown(c)'
      BY <1>6, <1>0, <2>1, <2>2 DEF MarkContended, Becomes, HeldPCs
    <3>6. LeavesSettled(c)'
      BY <1>6, <1>0, <2>1, <2>2 DEF MarkContended, Becomes, HeldPCs
    <3>7. LateIsLast(c)'
      BY <1>6, <1>0, <2>1, <2>2 DEF MarkContended, Becomes, HeldPCs
    <3>8. LockIsKept(c)'
      BY <1>6, <1>0, <2>1, <2>2 DEF MarkContended, Becomes, HeldPCs
    <3> QED
      BY <3>1, <3>2, <3>3, <3>4, <3>5, <3>6, <3>7, <3>8, ZenonT(30)
<1>7. CASE PostAccepted(c, i)
  <2>1. Becomes(c, i, "accepted", run[c][i].attempt, run[c][i].flag)
    BY <1>7, <1>0, RunGoes DEF PostAccepted, RunPCs, RunRecords
  <2>2. received'[c] = received[c] + 1
    BY <1>7, <1>0 DEF PostAccepted, Typed
  <2> QED
    <3>1. JobIsRun(c)'
      BY <1>7, <1>0, <2>1, <2>2 DEF PostAccepted, Becomes, HeldPCs
    <3>2. OwnerAlone(c)'
      BY <1>7, <1>0, <2>1, <2>2 DEF PostAccepted, Becomes, HeldPCs
    <3>3. FreshHasNoRun(c)'
      BY <1>7, <1>0, <2>1, <2>2 DEF PostAccepted, Becomes, HeldPCs
    <3>4. RunInProgress(c)'
      BY <1>7, <1>0, <2>1, <2>2, SMTT(30) DEF PostAccepted, Becomes, HeldPCs
    <3>5. ReceivedIsShown(c)'
      BY <1>7, <1>0, <2>1, <2>2 DEF PostAccepted, Becomes, HeldPCs
    <3>6. LeavesSettled(c)'
      BY <1>7, <1>0, <2>1, <2>2 DEF PostAccepted, Becomes, HeldPCs
    <3>7. LateIsLast(c)'
      BY <1>7, <1>0, <2>1, <2>2 DEF PostAccepted, Becomes, HeldPCs
    <3>8. LockIsKept(c)'
      BY <1>7, <1>0, <2>1, <2>2 DEF PostAccepted, Becomes, HeldPCs
    <3> QED
      BY <3>1, <3>2, <3>3, <3>4, <3>5, <3>6, <3>7, <3>8
<1>8. CASE PostRejected(c, i)
  <2>1. Becomes(c, i, "rejected", run[c][i].attempt, run[c][i].flag)
    BY <1>8, <1>0, RunGoes DEF PostRejected, RunPCs, RunRecords
  <2> QED
    <3>1. JobIsRun(c)'
      BY <1>8, <1>0, <2>1 DEF PostRejected, Becomes, HeldPCs
    <3>2. OwnerAlone(c)'
      BY <1>8, <1>0, <2>1 DEF PostRejected, Becomes, HeldPCs
    <3>3. FreshHasNoRun(c)'
      BY <1>8, <1>0, <2>1, SMTT(30) DEF PostRejected, Becomes, HeldPCs
    <3>4. RunInProgress(c)'
      BY <1>8, <1>0, <2>1 DEF PostRejected, Becomes, HeldPCs
    <3>5. ReceivedIsShown(c)'
      BY <1>8, <1>0, <2>1 DEF PostRejected, Becomes, HeldPCs
    <3>6. LeavesSettled(c)'
      BY <1>8, <1>0, <2>1 DEF PostRejected, Becomes, HeldPCs
    <3>7. LateIsLast(c)'
      BY <1>8, <1>0, <2>1 DEF PostRejected, Becomes, HeldPCs
    <3>8. LockIsKept(c)'
      BY <1>8, <1>0, <2>1 DEF PostRejected, Becomes, HeldPCs
    <3> QED
      BY <3>1, <3>2, <3>3, <3>4, <3>5, <3>6, <3>7, <3>8, ZenonT(30)
<1>9. CASE PostTimesOut(c, i)
  <2>1. Becomes(c, i, "rejected", run[c][i].attempt, run[c][i].flag)
    BY <1>9, <1>0, RunGoes DEF PostTimesOut, RunPCs, RunRecords
  <2>2. "timeout" \in suffered'[c] /\ suffered[c] \subseteq suffered'[c]
    BY <1>9, <1>0, SMTT(30) DEF PostTimesOut, Mark, Typed
  <2> QED
    <3>1. JobIsRun(c)'
      BY <1>9, <2>1, <2>2 DEF PostTimesOut, Becomes
    <3>2. OwnerAlone(c)'
      BY <1>9, <1>0, <2>1, <2>2 DEF PostTimesOut, Becomes, HeldPCs
    <3>3. FreshHasNoRun(c)'
      BY <1>9, <1>0, <2>1, <2>2 DEF PostTimesOut, Becomes, HeldPCs
    <3>4. RunInProgress(c)'
      BY <1>9, <1>0, <2>1, <2>2 DEF PostTimesOut, Becomes, HeldPCs
    <3>5. ReceivedIsShown(c)'
      BY <1>9, <1>0, <2>1, <2>2 DEF PostTimesOut, Becomes, HeldPCs
    <3>6. LeavesSettled(c)'
      BY <1>9, <1>0, <2>1, <2>2 DEF PostTimesOut, Becomes, HeldPCs
    <3>7. LateIsLast(c)'
      BY <1>9, <1>0, <2>1, <2>2 DEF PostTimesOut, Becomes, HeldPCs
    <3>8. LockIsKept(c)'
      BY <1>9, <1>0, <2>1, <2>2 DEF PostTimesOut, Becomes, HeldPCs
    <3> QED
      BY <3>1, <3>2, <3>3, <3>4, <3>5, <3>6, <3>7, <3>8, ZenonT(30)
<1>10. CASE RecordDelivered(c, i)
  <2>1. Becomes(c, i, "releasing", run[c][i].attempt, FALSE)
    BY <1>10, <1>0, RunLeaves DEF RecordDelivered, RunPCs, RunRecords
  <2>2. call'[c].status = "DELIVERED"
    BY <1>10, <1>0 DEF RecordDelivered, SetCall, Typed
  <2>3. webhook'.status = webhook.status
    BY <1>10, <1>0 DEF RecordDelivered, Typed
  <2>4. /\ run[c][i].pc = "accepted"
        /\ "stall" \notin suffered[c] => /\ job[c].owner = i /\ job[c].state = "active"
                                       /\ \A j \in Slots : j # i => run[c][j].pc = "idle"
    BY <1>10, <1>0 DEF RecordDelivered
  <2> QED
    <3>1. JobIsRun(c)'
      BY <1>10, <1>0, <2>1, <2>2, <2>3 DEF RecordDelivered, Becomes, HeldPCs
    <3>2. OwnerAlone(c)'
      BY <1>10, <1>0, <2>1, <2>2, <2>3 DEF RecordDelivered, Becomes, HeldPCs
    <3>3. FreshHasNoRun(c)'
      BY <1>10, <1>0, <2>1, <2>2, <2>3 DEF RecordDelivered, Becomes, HeldPCs
    <3>4. RunInProgress(c)'
      BY <1>10, <1>0, <2>1, <2>2, <2>3, SMTT(30) DEF RecordDelivered, Becomes, HeldPCs
    <3>5. ReceivedIsShown(c)'
      BY <1>10, <1>0, <2>1, <2>2, <2>4 DEF RecordDelivered, Becomes
    <3>6. LeavesSettled(c)'
      BY <1>10, <1>0, <2>1, <2>2, <2>3 DEF RecordDelivered, Becomes, HeldPCs
    <3>7. LateIsLast(c)'
      BY <1>10, <1>0, <2>1, <2>2, <2>3 DEF RecordDelivered, Becomes, HeldPCs
    <3>8. LockIsKept(c)'
      BY <1>10, <1>0, <2>1, <2>2, <2>3 DEF RecordDelivered, Becomes, HeldPCs
    <3> QED
      BY <3>1, <3>2, <3>3, <3>4, <3>5, <3>6, <3>7, <3>8
<1>11. CASE CountFailure(c, i)
  <2> DEFINE disabled == AfterFailure(c, i).status = "AUTO_DISABLED"
  <2>1. Becomes(c, i, "counted", run[c][i].attempt, disabled)
    BY <1>11, RunLeaves DEF CountFailure, RunPCs
  <2>2. webhook'.status = "ACTIVE" => webhook.status = "ACTIVE"
    BY <1>11 DEF CountFailure, AfterFailure
  <2> HIDE DEF disabled
  <2> QED
    <3>1. JobIsRun(c)'
      BY <1>11, <1>0, <2>1, <2>2 DEF CountFailure, Becomes, HeldPCs
    <3>2. OwnerAlone(c)'
      BY <1>11, <1>0, <2>1, <2>2 DEF CountFailure, Becomes, HeldPCs
    <3>3. FreshHasNoRun(c)'
      BY <1>11, <1>0, <2>1, <2>2 DEF CountFailure, Becomes, HeldPCs
    <3>4. RunInProgress(c)'
      BY <1>11, <1>0, <2>1, <2>2 DEF CountFailure, Becomes, HeldPCs
    <3>5. ReceivedIsShown(c)'
      BY <1>11, <1>0, <2>1, <2>2 DEF CountFailure, Becomes, HeldPCs
    <3>6. LeavesSettled(c)'
      BY <1>11, <1>0, <2>1, <2>2 DEF CountFailure, Becomes, HeldPCs
    <3>7. LateIsLast(c)'
      BY <1>11, <1>0, <2>1, <2>2 DEF CountFailure, Becomes, HeldPCs
    <3>8. LockIsKept(c)'
      BY <1>11, <1>0, <2>1, <2>2 DEF CountFailure, Becomes, HeldPCs
    <3> QED
      BY <3>1, <3>2, <3>3, <3>4, <3>5, <3>6, <3>7, <3>8, ZenonT(30)
<1>12. CASE RecordFailure(c, i)
  <2>1. Becomes(c, i, "releasing", run[c][i].attempt, ~run[c][i].flag)
    BY <1>12, <1>0, RunLeaves, ZenonT(60) DEF RecordFailure, RunPCs
  <2>2. call'[c].status = IF Final(c, i) THEN "FAILED" ELSE "PENDING"
    BY <1>12 DEF RecordFailure, SetCall, Typed
  <2>3. /\ suffered[c] \subseteq suffered'[c]
        /\ run[c][i].flag /\ ~Final(c, i) => "disabled" \in suffered'[c]
    BY <1>12 DEF RecordFailure, Typed
  <2>4. call[c].status # "DELIVERED" => call'[c].status # "gone"
    BY <2>2
  <2>5. run[c][i].pc = "counted" /\ UNCHANGED << webhook, caller, job, lock, received, late >>
        /\ call[c].status \in WebhookCallStatus
    BY <1>12, SMTT(30) DEF RecordFailure, Exists
  <2>6. /\ job[c].owner # 0 => run[c][i].attempt = job[c].made + 1 \/ job[c].owner # i
        /\ "stall" \notin suffered[c] =>
             job[c].owner = i /\ \A j \in Slots : j # i => run[c][j].pc = "idle"
    BY <1>0, <2>5
  <2> QED
    <3>1. JobIsRun(c)'
      BY <1>0, <2>1, <2>5, <2>6 DEF Becomes
    <3>2. OwnerAlone(c)'
      BY <1>0, <2>1, <2>2, <2>3, <2>5 DEF Becomes, HeldPCs, Final, WebhookCallStatus, RunRecords
    <3>3. FreshHasNoRun(c)'
      BY <1>0, <2>1, <2>2, <2>3, <2>5 DEF Becomes, HeldPCs, Final, WebhookCallStatus, RunRecords
    <3>4. RunInProgress(c)'
      BY <1>0, <2>1, <2>2, <2>3, <2>5 DEF Becomes, HeldPCs, Final, WebhookCallStatus, RunRecords
    <3>5. ReceivedIsShown(c)'
      BY <1>0, <2>1, <2>2, <2>3, <2>5, ZenonT(60)
         DEF Becomes, HeldPCs, Final, WebhookCallStatus, RunRecords
    <3>6. LeavesSettled(c)'
      <4>1. Tended(c)' => Final(c, i) \/ ~run[c][i].flag
        BY <2>3
      <4>2. Tended(c)' => \A j \in Slots : j # i => run'[c][j].pc = "idle"
        BY <2>1, <2>3, <2>6 DEF Becomes
      <4>3. run'[c][i].pc = "releasing" /\ run'[c][i].attempt = run[c][i].attempt
            /\ (~run'[c][i].flag => run[c][i].flag)
        BY <2>1, Zenon DEF Becomes
      <4>4. Tended(c)' => job'[c].state = "active"
        BY <1>0, <2>3, <2>5, <2>6
      <4>5. Final(c, i) => ~Unsettled(c)'
        BY <2>2
      <4>6. \A j \in Slots : run'[c][j].pc = "contended" /\ run'[c][j].attempt = MaxAttempts
              => "contended" \in suffered'[c]
        BY <2>1, <2>3 DEF Becomes
      <4> QED
        BY <4>1, <4>2, <4>3, <4>4, <4>5, <4>6 DEF Final
    <3>7. LateIsLast(c)'
      <4>1. /\ UNCHANGED << webhook, late >> /\ run'[c][i].pc = "releasing"
            /\ "stall" \in suffered[c] => "stall" \in suffered'[c]
        BY <2>1, <2>3, <2>5 DEF Becomes
      <4>2. \A j \in Slots \ {i} : run'[c][j] = run[c][j]
        BY <2>1 DEF Becomes
      <4>3. LateIsLast(c)
        BY <1>0
      <4> HIDE <1>0
      <4> QED BY <4>1, <4>2, <4>3 DEF LateIsLast
    <3>8. LockIsKept(c)'
      BY <1>0, <2>1, <2>2, <2>3, <2>5, ZenonT(60)
         DEF Becomes, HeldPCs, Final, WebhookCallStatus, RunRecords
    <3> QED
      BY <3>1, <3>2, <3>3, <3>4, <3>5, <3>6, <3>7, <3>8
<1>13. CASE WriteThrows(c, i)
  <2>1. suffered[c] \subseteq suffered'[c] /\ ("db" \in suffered'[c] \/ ~Exists(c))
    BY <1>13 DEF WriteThrows, Mark, Typed, DeletedHasNoCalls
  <2>2. "db" \in suffered'[c] \/ call[c].status \in {"none", "gone"}
    BY <2>1, <1>0 DEF Exists, CallRecords
  <2>3. UNCHANGED << webhook, call, caller, job, lock, received, late >>
    BY <1>13 DEF WriteThrows
  <2>4. CASE run[c][i].pc \in {"loaded", "contended"} /\ Leave(c, i, "leaving", TRUE)
    <3>1. Becomes(c, i, "leaving", run[c][i].attempt, TRUE)
      BY <2>4, RunLeaves DEF RunPCs
    <3> QED
      <4>1. JobIsRun(c)'
        BY <1>0, <2>1, <2>2, <2>3, <2>4, <3>1 DEF Becomes, HeldPCs
      <4>2. OwnerAlone(c)'
        BY <1>0, <2>1, <2>2, <2>3, <2>4, <3>1 DEF Becomes, HeldPCs
      <4>3. FreshHasNoRun(c)'
        BY <1>0, <2>1, <2>2, <2>3, <2>4, <3>1 DEF Becomes, HeldPCs
      <4>4. RunInProgress(c)'
        BY <1>0, <2>1, <2>2, <2>3, <2>4, <3>1 DEF Becomes, HeldPCs
      <4>5. ReceivedIsShown(c)'
        BY <1>0, <2>1, <2>2, <2>3, <2>4, <3>1 DEF Becomes, HeldPCs
      <4>6. LeavesSettled(c)'
        BY <1>0, <2>1, <2>2, <2>3, <2>4, <3>1 DEF Becomes, HeldPCs
      <4>7. LateIsLast(c)'
        BY <1>0, <2>1, <2>2, <2>3, <2>4, <3>1 DEF Becomes, HeldPCs
      <4>8. LockIsKept(c)'
        BY <1>0, <2>1, <2>2, <2>3, <2>4, <3>1 DEF Becomes, HeldPCs
      <4> QED
        BY <4>1, <4>2, <4>3, <4>4, <4>5, <4>6, <4>7, <4>8, ZenonT(30)
  <2>5. CASE run[c][i].pc = "accepted" /\ GoTo(c, i, "rejected")
    <3>1. Becomes(c, i, "rejected", run[c][i].attempt, run[c][i].flag)
      BY <2>5, RunGoes DEF RunPCs
    <3> QED
      <4>1. JobIsRun(c)'
        BY <1>0, <2>1, <2>2, <2>3, <2>5, <3>1 DEF Becomes, HeldPCs
      <4>2. OwnerAlone(c)'
        BY <1>0, <2>1, <2>2, <2>3, <2>5, <3>1 DEF Becomes, HeldPCs
      <4>3. FreshHasNoRun(c)'
        BY <1>0, <2>1, <2>2, <2>3, <2>5, <3>1 DEF Becomes, HeldPCs
      <4>4. RunInProgress(c)'
        BY <1>0, <2>1, <2>2, <2>3, <2>5, <3>1 DEF Becomes, HeldPCs
      <4>5. ReceivedIsShown(c)'
        BY <1>0, <2>1, <2>2, <2>3, <2>5, <3>1 DEF Becomes, HeldPCs
      <4>6. LeavesSettled(c)'
        BY <1>0, <2>1, <2>2, <2>3, <2>5, <3>1 DEF Becomes, HeldPCs
      <4>7. LateIsLast(c)'
        BY <1>0, <2>1, <2>2, <2>3, <2>5, <3>1 DEF Becomes, HeldPCs
      <4>8. LockIsKept(c)'
        BY <1>0, <2>1, <2>2, <2>3, <2>5, <3>1 DEF Becomes, HeldPCs
      <4> QED
        BY <4>1, <4>2, <4>3, <4>4, <4>5, <4>6, <4>7, <4>8, ZenonT(30)
  <2>6. CASE run[c][i].pc \in {"rejected", "counted"} /\ Leave(c, i, "releasing", TRUE)
    <3>1. Becomes(c, i, "releasing", run[c][i].attempt, TRUE)
      BY <2>6, RunLeaves DEF RunPCs
    <3> QED
      <4>1. JobIsRun(c)'
        BY <1>0, <2>1, <2>2, <2>3, <2>6, <3>1 DEF Becomes, HeldPCs
      <4>2. OwnerAlone(c)'
        BY <1>0, <2>1, <2>2, <2>3, <2>6, <3>1 DEF Becomes, HeldPCs
      <4>3. FreshHasNoRun(c)'
        BY <1>0, <2>1, <2>2, <2>3, <2>6, <3>1 DEF Becomes, HeldPCs
      <4>4. RunInProgress(c)'
        BY <1>0, <2>1, <2>2, <2>3, <2>6, <3>1 DEF Becomes, HeldPCs
      <4>5. ReceivedIsShown(c)'
        BY <1>0, <2>1, <2>2, <2>3, <2>6, <3>1 DEF Becomes, HeldPCs
      <4>6. LeavesSettled(c)'
        BY <1>0, <2>1, <2>2, <2>3, <2>6, <3>1 DEF Becomes, HeldPCs
      <4>7. LateIsLast(c)'
        BY <1>0, <2>1, <2>2, <2>3, <2>6, <3>1 DEF Becomes, HeldPCs
      <4>8. LockIsKept(c)'
        BY <1>0, <2>1, <2>2, <2>3, <2>6, <3>1 DEF Becomes, HeldPCs
      <4> QED
        BY <4>1, <4>2, <4>3, <4>4, <4>5, <4>6, <4>7, <4>8, ZenonT(30)
  <2> QED
    BY <1>13, <2>4, <2>5, <2>6, ZenonT(60) DEF WriteThrows
<1>14. CASE ReleaseLock(c, i)
  <2>1. Becomes(c, i, "leaving", run[c][i].attempt, run[c][i].flag)
    BY <1>14, <1>0, RunGoes DEF ReleaseLock, RunPCs, RunRecords
  <2> QED
    <3>1. JobIsRun(c)'
      BY <1>14, <1>0, <2>1 DEF ReleaseLock, Becomes, HeldPCs
    <3>2. OwnerAlone(c)'
      BY <1>14, <1>0, <2>1 DEF ReleaseLock, Becomes, HeldPCs
    <3>3. FreshHasNoRun(c)'
      BY <1>14, <1>0, <2>1 DEF ReleaseLock, Becomes, HeldPCs
    <3>4. RunInProgress(c)'
      BY <1>14, <1>0, <2>1 DEF ReleaseLock, Becomes, HeldPCs
    <3>5. ReceivedIsShown(c)'
      BY <1>14, <1>0, <2>1, SMTT(30) DEF ReleaseLock, Becomes, HeldPCs
    <3>6. LeavesSettled(c)'
      BY <1>14, <1>0, <2>1 DEF ReleaseLock, Becomes, HeldPCs
    <3>7. LateIsLast(c)'
      BY <1>14, <1>0, <2>1 DEF ReleaseLock, Becomes, HeldPCs
    <3>8. LockIsKept(c)'
      BY <1>14, <1>0, <2>1 DEF ReleaseLock, Becomes, HeldPCs
    <3> QED
      BY <3>1, <3>2, <3>3, <3>4, <3>5, <3>6, <3>7, <3>8, ZenonT(30)
<1>15. CASE FinishRun(c, i)
  <2>1. Becomes(c, i, "idle", 0, FALSE)
    <3>1. NoRun \in RunRecords
      BY DEF NoRun, RunRecords, RunPCs
    <3> QED
      <4>1. run' = [run EXCEPT ![c][i] = NoRun]
        BY <1>15, ZenonT(60) DEF FinishRun
      <4>2. NoRun.pc = "idle" /\ NoRun.attempt = 0 /\ NoRun.flag = FALSE
        BY DEF NoRun
      <4>3. Becomes(c, i, NoRun.pc, NoRun.attempt, NoRun.flag)
        BY <3>1, <4>1, RunSet
      <4> QED
        BY <4>2, <4>3
  <2>2. run[c][i].pc = "leaving"
        /\ UNCHANGED << webhook, call, caller, lock, received, late, suffered >>
    BY <1>15, ZenonT(60) DEF FinishRun
  <2>3. CASE job[c].owner # i /\ UNCHANGED job
    BY <1>0, <2>1, <2>2, <2>3, ZenonT(60) DEF Becomes, HeldPCs
  <2>4. CASE job[c].owner = i /\ ~run[c][i].flag /\ job' = [job EXCEPT ![c] = NoJob]
    <3>1. job'[c].state = "none" /\ job'[c].owner = 0 /\ job'[c].made = 0
      BY <2>4, SMTT(30) DEF NoJob, Typed
    <3> QED
      <4>1. JobIsRun(c)'
        BY <1>0, <2>1, <2>2, <2>4, <3>1 DEF Becomes, HeldPCs
      <4>2. OwnerAlone(c)'
        BY <1>0, <2>1, <2>2, <2>4, <3>1 DEF Becomes, HeldPCs
      <4>3. FreshHasNoRun(c)'
        BY <1>0, <2>1, <2>2, <2>4, <3>1 DEF Becomes, HeldPCs
      <4>4. RunInProgress(c)'
        BY <1>0, <2>1, <2>2, <2>4, <3>1 DEF Becomes, HeldPCs
      <4>5. ReceivedIsShown(c)'
        BY <1>0, <2>1, <2>2, <2>4, <3>1 DEF Becomes, HeldPCs
      <4>6. LeavesSettled(c)'
        BY <1>0, <2>1, <2>2, <2>4, <3>1 DEF Becomes, HeldPCs
      <4>7. LateIsLast(c)'
        BY <1>0, <2>1, <2>2, <2>4, <3>1 DEF Becomes, HeldPCs
      <4>8. LockIsKept(c)'
        BY <1>0, <2>1, <2>2, <2>4, <3>1 DEF Becomes, HeldPCs
      <4> QED
        BY <4>1, <4>2, <4>3, <4>4, <4>5, <4>6, <4>7, <4>8
  <2>5. CASE /\ job[c].owner = i /\ run[c][i].flag
             /\ job' = [job EXCEPT
                  ![c].state = IF job[c].made + 1 < MaxAttempts THEN "waiting" ELSE "failed",
                  ![c].made = @ + 1, ![c].owner = 0]
    <3>1. /\ job'[c].state = IF job[c].made + 1 < MaxAttempts THEN "waiting" ELSE "failed"
          /\ job'[c].made = job[c].made + 1 /\ job'[c].owner = 0
      BY <2>5 DEF Typed, JobRecords
    <3>2. job[c].made \in Nat /\ run[c][i].attempt = job[c].made + 1 /\ job[c].made < MaxAttempts
      BY <1>0, <2>5 DEF JobRecords
    <3>3. job'[c].state = "failed" => run[c][i].attempt = MaxAttempts
      BY <1>0, <3>1, <3>2
    <3> QED
      <4>1. JobIsRun(c)'
        BY <2>1, <2>2, <2>5, <3>1 DEF Becomes
      <4>2. OwnerAlone(c)'
        BY <1>0, <2>1, <2>2, <2>5, <3>1, <3>2, <3>3 DEF Becomes, HeldPCs
      <4>3. FreshHasNoRun(c)'
        BY <1>0, <2>1, <2>2, <2>5, <3>1, <3>2, <3>3 DEF Becomes, HeldPCs
      <4>4. RunInProgress(c)'
        BY <1>0, <2>1, <2>2, <2>5, <3>1, <3>2, <3>3 DEF Becomes, HeldPCs
      <4>5. ReceivedIsShown(c)'
        BY <1>0, <2>1, <2>2, <2>5, <3>1, <3>2, <3>3, SMTT(30) DEF Becomes, HeldPCs
      <4>6. LeavesSettled(c)'
        BY <1>0, <2>1, <2>2, <2>5, <3>1, <3>2, <3>3 DEF Becomes, HeldPCs
      <4>7. LateIsLast(c)'
        BY <1>0, <2>1, <2>2, <2>5, <3>1, <3>2, <3>3 DEF Becomes, HeldPCs
      <4>8. LockIsKept(c)'
        BY <1>0, <2>1, <2>2, <2>5, <3>1, <3>2, <3>3 DEF Becomes, HeldPCs
      <4> QED
        BY <4>1, <4>2, <4>3, <4>4, <4>5, <4>6, <4>7, <4>8, SMTT(30)
  <2> QED
    BY <1>15, <2>3, <2>4, <2>5, ZenonT(60) DEF FinishRun
<1>16. CASE Stall(c, i)
  <2>1. "stall" \in suffered'[c] /\ suffered[c] \subseteq suffered'[c]
    BY <1>16 DEF Stall, Mark, Typed
  <2>2. /\ job'[c].owner = 0 /\ job'[c].state \in {"waiting", "failed"} /\ job'[c].made = job[c].made
        /\ job[c].owner = i
    BY <1>16 DEF Stall, Typed, JobRecords
  <2>3. UNCHANGED << webhook, call, caller, received, late >>
    BY <1>16 DEF Stall
  <2>4. CASE UNCHANGED << run, lock >>
    BY <1>0, <2>1, <2>2, <2>3, <2>4
  <2>5. CASE /\ run' = [run EXCEPT ![c][i] = NoRun]
             /\ lock' = IF << c, i >> \in lock THEN { << c, 0 >> } ELSE lock
    <3>1. Becomes(c, i, "idle", 0, FALSE)
      <4>1. NoRun \in RunRecords
        BY DEF NoRun, RunRecords, RunPCs
      <4> QED
        BY <2>5, <4>1, RunSet DEF NoRun
    <3>2. \A j \in Slots \ {i} : << c, j >> \in lock => << c, j >> \in lock'
      BY <2>5 DEF Typed
    <3> QED
      BY <1>0, <2>1, <2>2, <2>3, <3>1, <3>2, SMTT(30) DEF Becomes, HeldPCs
  <2> QED
    BY <1>16, <2>4, <2>5, ZenonT(60) DEF Stall
<1> QED
  BY <1>1, <1>2, <1>3, <1>4, <1>5, <1>6, <1>7, <1>8, <1>9, <1>10, <1>11, <1>12, <1>13, <1>14,
     <1>15, <1>16, ZenonT(60)

(***************************************************************************)
(* The steps of a call change nothing of the others, take no lock of       *)
(* theirs away and make no webhook ACTIVE.                                 *)
(***************************************************************************)
Leaves(c) ==
  /\ \A d \in Calls \ {c} :
       /\ run'[d] = run[d] /\ job'[d] = job[d] /\ call'[d] = call[d] /\ caller'[d] = caller[d]
       /\ received'[d] = received[d] /\ late'[d] = late[d] /\ suffered'[d] = suffered[d]
       /\ \A i \in Slots : << d, i >> \in lock => << d, i >> \in lock'
  /\ webhook'.status = "ACTIVE" => webhook.status = "ACTIVE"

LEMMA MakesCallLeaves ==
  ASSUME Typed, NEW c \in Calls,
         CreateCall(c) \/ RetryCall(c) \/ EnqueueCall(c) \/ EnqueueFails(c) \/ CleanUp(c)
  PROVE  Leaves(c)
<1> USE DEF Typed, Leaves, SetCall, Mark
<1>1. CASE CreateCall(c)
  BY <1>1 DEF CreateCall
<1>2. CASE RetryCall(c)
  BY <1>2 DEF RetryCall
<1>3. CASE EnqueueCall(c)
  BY <1>3 DEF EnqueueCall
<1>4. CASE EnqueueFails(c)
  BY <1>4 DEF EnqueueFails
<1>5. CASE CleanUp(c)
  BY <1>5 DEF CleanUp
<1> QED
  BY <1>1, <1>2, <1>3, <1>4, <1>5

LEMMA RunStepLeaves ==
  ASSUME Typed, NEW c \in Calls, NEW i \in Slots,
         \/ StartRun(c, i) \/ DiscardCall(c, i) \/ MarkInProgress(c, i)
         \/ AcquireLock(c, i) \/ LockBusy(c, i) \/ MarkContended(c, i)
         \/ PostAccepted(c, i) \/ PostRejected(c, i) \/ PostTimesOut(c, i)
         \/ RecordDelivered(c, i) \/ CountFailure(c, i) \/ RecordFailure(c, i)
         \/ WriteThrows(c, i) \/ ReleaseLock(c, i) \/ FinishRun(c, i) \/ Stall(c, i)
  PROVE  Leaves(c)
<1> USE DEF Typed, Leaves, SetCall, Mark, GoTo, Leave
<1>1. CASE StartRun(c, i)
  BY <1>1 DEF StartRun
<1>2. CASE DiscardCall(c, i)
  BY <1>2 DEF DiscardCall
<1>3. CASE MarkInProgress(c, i)
  BY <1>3 DEF MarkInProgress
<1>4. CASE AcquireLock(c, i)
  BY <1>4 DEF AcquireLock
<1>5. CASE LockBusy(c, i)
  BY <1>5 DEF LockBusy
<1>6. CASE MarkContended(c, i)
  BY <1>6 DEF MarkContended
<1>7. CASE PostAccepted(c, i)
  BY <1>7 DEF PostAccepted
<1>8. CASE PostRejected(c, i)
  BY <1>8 DEF PostRejected
<1>9. CASE PostTimesOut(c, i)
  BY <1>9 DEF PostTimesOut
<1>10. CASE RecordDelivered(c, i)
  BY <1>10 DEF RecordDelivered
<1>11. CASE CountFailure(c, i)
  BY <1>11 DEF CountFailure, AfterFailure
<1>12. CASE RecordFailure(c, i)
  BY <1>12 DEF RecordFailure
<1>13. CASE WriteThrows(c, i)
  BY <1>13 DEF WriteThrows
<1>14. CASE ReleaseLock(c, i)
  BY <1>14 DEF ReleaseLock
<1>15. CASE FinishRun(c, i)
  BY <1>15 DEF FinishRun
<1>16. CASE Stall(c, i)
  BY <1>16 DEF Stall
<1> QED
  BY <1>1, <1>2, <1>3, <1>4, <1>5, <1>6, <1>7, <1>8, <1>9, <1>10,
     <1>11, <1>12, <1>13, <1>14, <1>15, <1>16

LEMMA LeavesOthers ==
  ASSUME NEW c \in Calls, Leaves(c), CallInv(c)', \A d \in Calls : CallInv(d)
  PROVE  \A d \in Calls : CallInv(d)'
<1>1. ASSUME NEW d \in Calls \ {c} PROVE CallInv(d)'
  BY <1>1, OtherCall DEF Leaves
<1> QED
  BY <1>1

(***************************************************************************)
(* The steps of the webhook's own requests, and of its lock.               *)
(***************************************************************************)
LEMMA RequestStep ==
  ASSUME Typed, \A c \in Calls : CallInv(c),
         \/ \E r \in StatusRequests : ReadWebhook(r) \/ WriteWebhookStatus(r)
         \/ DeleteWebhook \/ LockExpires \/ UNCHANGED webhookVars
  PROVE  \A c \in Calls : CallInv(c)'
<1> SUFFICES ASSUME NEW c \in Calls, CallInv(c) PROVE CallInv(c)'
  OBVIOUS
<1>1. ASSUME NEW r \in StatusRequests, ReadWebhook(r) PROVE CallInv(c)'
  BY <1>1, OtherCall DEF ReadWebhook
<1>2. ASSUME NEW r \in StatusRequests, WriteWebhookStatus(r) PROVE CallInv(c)'
  <2>1. UNCHANGED << call, caller, job, lock, run, received, suffered >>
    BY <1>2 DEF WriteWebhookStatus
  <2>2. CASE webhook'.status # "ACTIVE" /\ UNCHANGED late
    BY <2>1, <2>2, OtherCall
  <2>3. CASE late' = [d \in Calls |-> 0]
    <3>1. JobIsRun(c)'
      BY <2>1, <2>3 DEF CallInv, JobIsRun, Active
    <3>2. OwnerAlone(c)'
      BY <2>1, <2>3 DEF CallInv, OwnerAlone, Active
    <3>3. FreshHasNoRun(c)'
      BY <2>1, <2>3 DEF CallInv, FreshHasNoRun, Active
    <3>4. RunInProgress(c)'
      BY <2>1, <2>3 DEF CallInv, RunInProgress, Clean
    <3>5. ReceivedIsShown(c)'
      BY <2>1, <2>3 DEF CallInv, ReceivedIsShown, Clean, Active
    <3>6. LeavesSettled(c)'
      BY <2>1, <2>3 DEF CallInv, LeavesSettled, Tended, Unsettled
    <3>7. LateIsLast(c)'
      BY <2>1, <2>3 DEF CallInv, LateIsLast
    <3>8. LockIsKept(c)'
      BY <2>1, <2>3 DEF CallInv, LockIsKept
    <3> QED
      BY <3>1, <3>2, <3>3, <3>4, <3>5, <3>6, <3>7, <3>8 DEF CallInv
  <2>4. CASE UNCHANGED << webhook, late >>
    BY <2>1, <2>4, OtherCall
  <2> QED
    BY <1>2, <2>2, <2>3, <2>4 DEF WriteWebhookStatus
<1>3. CASE DeleteWebhook
  <2>1. JobIsRun(c)'
    BY <1>3
       DEF DeleteWebhook, Typed, Exists, Gone, WebhookCallStatus, CallRecords, CallInv, JobIsRun, Active
  <2>2. OwnerAlone(c)'
    BY <1>3
       DEF DeleteWebhook, Typed, Exists, Gone, WebhookCallStatus, CallRecords, CallInv, OwnerAlone, Active
  <2>3. FreshHasNoRun(c)'
    BY <1>3
       DEF DeleteWebhook, Typed, Exists, Gone, WebhookCallStatus, CallRecords, CallInv, FreshHasNoRun, Active
  <2>4. RunInProgress(c)'
    BY <1>3
       DEF DeleteWebhook, Typed, Exists, Gone, WebhookCallStatus, CallRecords, CallInv, RunInProgress, Clean
  <2>5. ReceivedIsShown(c)'
    BY <1>3
       DEF DeleteWebhook, Typed, Exists, Gone, WebhookCallStatus, CallRecords, CallInv, ReceivedIsShown, Clean, Active
  <2>6. LeavesSettled(c)'
    BY <1>3
       DEF DeleteWebhook, Typed, Exists, Gone, WebhookCallStatus, CallRecords, CallInv, LeavesSettled, Tended, Unsettled
  <2>7. LateIsLast(c)'
    BY <1>3
       DEF DeleteWebhook, Typed, Exists, Gone, WebhookCallStatus, CallRecords, CallInv, LateIsLast
  <2>8. LockIsKept(c)'
    BY <1>3
       DEF DeleteWebhook, Typed, Exists, Gone, WebhookCallStatus, CallRecords, CallInv, LockIsKept
  <2> QED
    BY <2>1, <2>2, <2>3, <2>4, <2>5, <2>6, <2>7, <2>8 DEF CallInv
<1>4. CASE LockExpires
  <2>1. PICK h \in lock : IF h[2] = 0 THEN UNCHANGED suffered ELSE Mark(h[1], "slow")
    BY <1>4 DEF LockExpires
  <2>2. /\ suffered[c] \subseteq suffered'[c]
        /\ \A k \in suffered'[c] : k \in suffered[c] \/ k = "slow"
    BY <2>1 DEF Typed, Mark
  <2>3. UNCHANGED << webhook, call, caller, job, run, received, late >>
    BY <1>4 DEF LockExpires
  <2>4. LockIsKept(c)'
    <3>1. SUFFICES ASSUME "slow" \notin suffered'[c], NEW i \in Slots, run[c][i].pc \in HeldPCs
                   PROVE  FALSE
      BY <2>3 DEF LockIsKept
    <3>2. << c, i >> \in lock
      BY <2>2, <3>1 DEF CallInv, LockIsKept
    <3>3. h = << c, i >> /\ i # 0
      BY <3>2 DEF Typed, Slots
    <3> QED
      BY <2>1, <3>1, <3>3 DEF Mark, Typed
  <2> QED
    BY <2>2, <2>3, <2>4 DEF CallInv, JobIsRun, OwnerAlone, FreshHasNoRun, RunInProgress,
       ReceivedIsShown, LeavesSettled, LateIsLast, Active, Clean, Tended, Unsettled
<1>5. CASE UNCHANGED webhookVars
  BY <1>5, OtherCall DEF webhookVars
<1> QED
  BY <1>1, <1>2, <1>3, <1>4, <1>5

(***************************************************************************)
(* The types.                                                              *)
(***************************************************************************)
LEMMA SetCallTyped ==
  ASSUME Typed, NEW c \in Calls, NEW s \in WebhookCallStatus, NEW n \in 0 .. MaxAttempts,
         SetCall(c, s, n)
  PROVE  call' \in [Calls -> CallRecords]
  BY DEF Typed, SetCall, CallRecords

LEMMA MarkTyped ==
  ASSUME Typed, NEW c \in Calls, NEW k \in Marks, Mark(c, k)
  PROVE  suffered' \in [Calls -> SUBSET Marks]
  BY DEF Typed, Mark

LEMMA MakesCallTyped ==
  ASSUME Typed, NEW c \in Calls,
         CreateCall(c) \/ RetryCall(c) \/ EnqueueCall(c) \/ EnqueueFails(c) \/ CleanUp(c)
  PROVE  Typed'
<1>0. 0 \in 0 .. MaxAttempts /\ "PENDING" \in WebhookCallStatus
  BY DEF WebhookCallStatus
<1>1. CASE CreateCall(c)
  BY <1>0, <1>1, SetCallTyped DEF CreateCall, Typed
<1>2. CASE RetryCall(c)
  BY <1>0, <1>2, SetCallTyped, MarkTyped DEF RetryCall, Typed, Marks
<1>3. CASE EnqueueCall(c)
  <2>1. suffered' \in [Calls -> SUBSET Marks]
    BY <1>3, MarkTyped DEF EnqueueCall, Typed, Marks
  <2>2. [job[c] EXCEPT !.state = "waiting"] \in JobRecords
    <3>1. job[c] \in JobRecords
      BY DEF Typed
    <3> QED
      BY <3>1 DEF JobRecords
  <2>3. job' = [job EXCEPT ![c] = [job[c] EXCEPT !.state = "waiting"]] \/ UNCHANGED job
    BY <1>3 DEF EnqueueCall, Typed
  <2>4. job' \in [Calls -> JobRecords]
    BY <2>2, <2>3 DEF Typed
  <2> QED
    BY <1>3, <2>1, <2>4 DEF EnqueueCall, Typed
<1>4. CASE EnqueueFails(c)
  BY <1>4, MarkTyped DEF EnqueueFails, Typed, Marks, FaultKinds
<1>5. CASE CleanUp(c)
  <2>1. call' \in [Calls -> CallRecords]
    BY <1>5 DEF CleanUp, Typed, Gone, CallRecords
  <2> QED
    BY <1>5, <2>1, MarkTyped DEF CleanUp, Typed, Marks, FaultKinds
<1> QED
  BY <1>1, <1>2, <1>3, <1>4, <1>5

LEMMA RequestTyped ==
  ASSUME Typed,
         \/ \E r \in StatusRequests : ReadWebhook(r) \/ WriteWebhookStatus(r)
         \/ DeleteWebhook \/ LockExpires \/ UNCHANGED webhookVars
  PROVE  Typed'
<1>1. ASSUME NEW r \in StatusRequests, ReadWebhook(r) PROVE Typed'
  BY <1>1 DEF ReadWebhook, Typed, WebhookStatus
<1>2. ASSUME NEW r \in StatusRequests, WriteWebhookStatus(r) PROVE Typed'
  BY <1>2 DEF WriteWebhookStatus, Typed, WebhookStatus
<1>3. CASE DeleteWebhook
  BY <1>3 DEF DeleteWebhook, Typed, WebhookStatus, Gone, CallRecords
<1>4. CASE LockExpires
  <2>1. PICK h \in lock : IF h[2] = 0 THEN UNCHANGED suffered ELSE Mark(h[1], "slow")
    BY <1>4 DEF LockExpires
  <2>2. h[1] \in Calls /\ "slow" \in Marks
    BY DEF Typed, Marks, FaultKinds
  <2> QED
    BY <1>4, <2>1, <2>2, MarkTyped DEF LockExpires, Typed
<1>5. CASE UNCHANGED webhookVars
  BY <1>5 DEF webhookVars, Typed
<1> QED
  BY <1>1, <1>2, <1>3, <1>4, <1>5

LEMMA RunStepTyped ==
  ASSUME Typed, NEW c \in Calls, NEW i \in Slots, CallInv(c),
         \/ StartRun(c, i) \/ DiscardCall(c, i) \/ MarkInProgress(c, i)
         \/ AcquireLock(c, i) \/ LockBusy(c, i) \/ MarkContended(c, i)
         \/ PostAccepted(c, i) \/ PostRejected(c, i) \/ PostTimesOut(c, i)
         \/ RecordDelivered(c, i) \/ CountFailure(c, i) \/ RecordFailure(c, i)
         \/ WriteThrows(c, i) \/ ReleaseLock(c, i) \/ FinishRun(c, i) \/ Stall(c, i)
  PROVE  Typed'
<1>0. /\ run[c][i] \in RunRecords /\ job[c] \in JobRecords /\ call[c] \in CallRecords
      /\ 0 .. MaxAttempts \subseteq Nat /\ i \in Slots \cup {0}
      /\ job[c].state # "failed" => job[c].made < MaxAttempts
  BY DEF Typed, CallInv, JobIsRun
<1>a. \A s \in RunPCs : GoTo(c, i, s) => run' \in [Calls -> [Slots -> RunRecords]]
  BY RunGoes DEF Becomes
<1>b. \A s \in RunPCs, t \in BOOLEAN :
        Leave(c, i, s, t) => run' \in [Calls -> [Slots -> RunRecords]]
  BY RunLeaves DEF Becomes
<1>c. /\ \A s \in WebhookCallStatus, n \in 0 .. MaxAttempts :
           SetCall(c, s, n) => call' \in [Calls -> CallRecords]
      /\ \A k \in Marks : Mark(c, k) => suffered' \in [Calls -> SUBSET Marks]
  BY SetCallTyped, MarkTyped
<1>1. CASE StartRun(c, i)
  <2> DEFINE x == IF Exists(c) THEN [pc |-> "loaded", attempt |-> job[c].made + 1,
                                     flag |-> webhook.status = "ACTIVE"]
                  ELSE [pc |-> "leaving", attempt |-> 0, flag |-> FALSE]
  <2>1. x \in RunRecords
    BY <1>0, <1>1 DEF RunRecords, RunPCs, JobRecords, StartRun
  <2>2. run' \in [Calls -> [Slots -> RunRecords]]
    BY <1>1, <2>1, RunSet DEF StartRun, Becomes
  <2>3. job' \in [Calls -> JobRecords]
    BY <1>0, <1>1 DEF StartRun, Typed, JobRecords
  <2> QED
    BY <1>1, <2>2, <2>3 DEF StartRun, Typed
<1>2. CASE DiscardCall(c, i)
  BY <1>0, <1>a, <1>b, <1>c, <1>2 DEF DiscardCall, Typed, RunPCs, WebhookCallStatus, RunRecords,
     CallRecords, Marks, FaultKinds
<1>3. CASE MarkInProgress(c, i)
  BY <1>0, <1>a, <1>b, <1>c, <1>3 DEF MarkInProgress, Typed, RunPCs, WebhookCallStatus, RunRecords,
     CallRecords, Marks, FaultKinds
<1>4. CASE AcquireLock(c, i)
  BY <1>0, <1>a, <1>b, <1>c, <1>4 DEF AcquireLock, Typed, RunPCs, WebhookCallStatus, RunRecords,
     CallRecords, Marks, FaultKinds
<1>5. CASE LockBusy(c, i)
  <2>1. suffered' \in [Calls -> SUBSET Marks]
    BY <1>5 DEF LockBusy, Typed, Marks
  <2> QED
    BY <1>a, <1>5, <2>1 DEF LockBusy, Typed, RunPCs
<1>6. CASE MarkContended(c, i)
  BY <1>0, <1>a, <1>b, <1>c, <1>6 DEF MarkContended, Typed, RunPCs, WebhookCallStatus, RunRecords,
     CallRecords, Marks, FaultKinds
<1>7. CASE PostAccepted(c, i)
  BY <1>0, <1>a, <1>b, <1>c, <1>7 DEF PostAccepted, Typed, RunPCs, WebhookCallStatus, RunRecords,
     CallRecords, Marks, FaultKinds
<1>8. CASE PostRejected(c, i)
  BY <1>0, <1>a, <1>b, <1>c, <1>8 DEF PostRejected, Typed, RunPCs, WebhookCallStatus, RunRecords,
     CallRecords, Marks, FaultKinds
<1>9. CASE PostTimesOut(c, i)
  BY <1>0, <1>a, <1>b, <1>c, <1>9 DEF PostTimesOut, Typed, RunPCs, WebhookCallStatus, RunRecords,
     CallRecords, Marks, FaultKinds
<1>10. CASE RecordDelivered(c, i)
  BY <1>0, <1>a, <1>b, <1>c, <1>10 DEF RecordDelivered, Typed, RunPCs, WebhookCallStatus, RunRecords,
     CallRecords, Marks, FaultKinds
<1>11. CASE CountFailure(c, i)
  <2>1. webhook' \in [status : WebhookStatus \cup {"deleted"}, failures : Nat]
    BY <1>11 DEF CountFailure, AfterFailure, Typed, WebhookStatus
  <2> DEFINE disabled == AfterFailure(c, i).status = "AUTO_DISABLED"
  <2>2. disabled \in BOOLEAN /\ Leave(c, i, "counted", disabled)
    BY <1>11 DEF CountFailure
  <2> HIDE DEF disabled
  <2> QED
    BY <1>b, <1>11, <2>1, <2>2 DEF CountFailure, Typed, RunPCs
<1>12. CASE RecordFailure(c, i)
  <2>1. suffered' \in [Calls -> SUBSET Marks]
    BY <1>12 DEF RecordFailure, Typed, Marks
  <2>2. call' \in [Calls -> CallRecords]
    BY <1>0, <1>c, <1>12 DEF RecordFailure, WebhookCallStatus, RunRecords
  <2>3. (~run[c][i].flag) \in BOOLEAN
    OBVIOUS
  <2> QED
    BY <1>b, <1>12, <2>1, <2>2, <2>3 DEF RecordFailure, Typed, RunPCs
<1>13. CASE WriteThrows(c, i)
  <2>1. suffered' \in [Calls -> SUBSET Marks]
    BY <1>c, <1>13 DEF WriteThrows, Marks, FaultKinds
  <2>2. run' \in [Calls -> [Slots -> RunRecords]]
    BY <1>a, <1>b, <1>13 DEF WriteThrows, RunPCs
  <2> QED
    BY <1>13, <2>1, <2>2 DEF WriteThrows, Typed
<1>14. CASE ReleaseLock(c, i)
  BY <1>0, <1>a, <1>b, <1>c, <1>14 DEF ReleaseLock, Typed, RunPCs, WebhookCallStatus, RunRecords,
     CallRecords, Marks, FaultKinds
<1>15. CASE FinishRun(c, i)
  <2>1. NoRun \in RunRecords /\ NoJob \in JobRecords
    BY DEF NoRun, RunRecords, RunPCs, NoJob, JobRecords
  <2>2. run' \in [Calls -> [Slots -> RunRecords]]
    BY <1>15, <2>1, RunSet, ZenonT(60) DEF FinishRun, Becomes
  <2>3. CASE job[c].owner = i /\ run[c][i].flag
    <3>1. job[c].made + 1 \in 0 .. MaxAttempts
      BY <1>0, <2>3 DEF CallInv, JobIsRun, JobRecords, Slots
    <3> DEFINE s == IF job[c].made + 1 < MaxAttempts THEN "waiting" ELSE "failed"
               x == [job[c] EXCEPT !.state = s, !.made = job[c].made + 1, !.owner = 0]
    <3>2. s \in {"waiting", "failed"}
      OBVIOUS
    <3> HIDE DEF s
    <3>3. x \in JobRecords
      BY <1>0, <3>1, <3>2 DEF JobRecords
    <3>4. job' = [job EXCEPT ![c] = x]
      BY <1>15, <2>3 DEF FinishRun, Typed, s
    <3>5. job' \in [Calls -> JobRecords]
      BY <3>3, <3>4 DEF Typed
    <3> QED
      BY <1>15, <2>2, <3>5 DEF FinishRun, Typed
  <2>4. CASE ~(job[c].owner = i /\ run[c][i].flag)
    <3>1. job' \in [Calls -> JobRecords]
      BY <1>15, <2>1, <2>4 DEF FinishRun, Typed
    <3> QED
      BY <1>15, <2>2, <3>1 DEF FinishRun, Typed
  <2> QED
    BY <2>3, <2>4
<1>16. CASE Stall(c, i)
  <2>1. NoRun \in RunRecords
    BY DEF NoRun, RunRecords, RunPCs
  <2>2. run' \in [Calls -> [Slots -> RunRecords]]
    BY <1>16, <2>1, RunSet DEF Stall, Becomes, Typed
  <2>3. job' \in [Calls -> JobRecords]
    <3> DEFINE x == [job[c] EXCEPT !.state = "waiting", !.owner = 0, !.stalls = job[c].stalls + 1]
               y == [job[c] EXCEPT !.state = "failed", !.owner = 0]
    <3>a. y \in JobRecords
      BY <1>0 DEF JobRecords
    <3>b. ASSUME job[c].stalls < MaxStalled PROVE x \in JobRecords
      <4>1. job[c].stalls + 1 \in 0 .. MaxStalled
        BY <1>0, <3>b DEF JobRecords
      <4> QED
        BY <1>0, <4>1 DEF JobRecords
    <3>1. y \in JobRecords /\ (job[c].stalls < MaxStalled => x \in JobRecords)
      BY <3>a, <3>b
    <3>2. job' = IF job[c].stalls < MaxStalled THEN [job EXCEPT ![c] = x]
                 ELSE [job EXCEPT ![c] = y]
      BY <1>16 DEF Stall, Typed
    <3> HIDE DEF x, y
    <3> QED
      BY <3>1, <3>2 DEF Typed
  <2>4. lock' \subseteq Calls \X (Slots \cup {0}) /\ \A h, k \in lock' : h = k
    <3>1. lock' = lock \/ lock' = {<< c, 0 >>}
      BY <1>16 DEF Stall
    <3>2. CASE lock' = lock
      BY <3>2 DEF Typed
    <3>3. CASE lock' = {<< c, 0 >>}
      BY <3>3
    <3> QED
      BY <3>1, <3>2, <3>3
  <2>5. Mark(c, "stall") /\ "stall" \in Marks
    BY <1>16 DEF Stall, Marks, FaultKinds
  <2>6. suffered' \in [Calls -> SUBSET Marks]
    BY <1>c, <2>5
  <2> QED
    BY <1>16, <2>2, <2>3, <2>4, <2>6 DEF Stall, Typed
<1> QED
  BY <1>1, <1>2, <1>3, <1>4, <1>5, <1>6, <1>7, <1>8, <1>9, <1>10,
     <1>11, <1>12, <1>13, <1>14, <1>15, <1>16

(***************************************************************************)
(* The webhook's calls go with it.                                         *)
(***************************************************************************)
LEMMA DeletedStays ==
  ASSUME Typed, DeletedHasNoCalls, [WebhookNext]_webhookVars
  PROVE  DeletedHasNoCalls'
<1>1. CASE DeleteWebhook
  BY <1>1 DEF DeleteWebhook, DeletedHasNoCalls, Exists, Gone, WebhookCallStatus, Typed
<1>2. CASE UNCHANGED << webhook, call >>
  BY <1>2 DEF DeletedHasNoCalls, Exists, WebhookExists
<1>3. CASE WebhookExists /\ WebhookExists'
  BY <1>3 DEF DeletedHasNoCalls
<1>4. ASSUME NEW c \in Calls, CleanUp(c) PROVE DeletedHasNoCalls'
  BY <1>4 DEF CleanUp, DeletedHasNoCalls, Exists, WebhookExists
<1>5. ASSUME NEW c \in Calls, CreateCall(c) \/ RetryCall(c) PROVE DeletedHasNoCalls'
  BY <1>5, <1>3 DEF CreateCall, RetryCall, DeletedHasNoCalls, WebhookExists
<1>6. ASSUME NEW r \in StatusRequests, WriteWebhookStatus(r) PROVE DeletedHasNoCalls'
  <2>1. call' = call /\ (WebhookExists' => WebhookExists)
    BY <1>6 DEF WriteWebhookStatus, WebhookExists
  <2>2. request[r].status # "deleted"
    BY DEF Typed, WebhookStatus
  <2>3. CASE WebhookExists
    BY <1>3, <1>6, <2>2, <2>3 DEF WriteWebhookStatus, WebhookExists
  <2>4. CASE ~WebhookExists
    BY <1>6, <2>1, <2>4 DEF WriteWebhookStatus, DeletedHasNoCalls, Exists
  <2> QED
    BY <2>3, <2>4
<1>7. ASSUME NEW c \in Calls, NEW i \in Slots,
             DiscardCall(c, i) \/ MarkInProgress(c, i) \/ MarkContended(c, i) \/ RecordFailure(c, i)
      PROVE  DeletedHasNoCalls'
  BY <1>7, <1>3 DEF DiscardCall, MarkInProgress, MarkContended, RecordFailure, DeletedHasNoCalls,
     WebhookExists
<1>8. ASSUME NEW c \in Calls, NEW i \in Slots, RecordDelivered(c, i) PROVE DeletedHasNoCalls'
  BY <1>8, <1>3 DEF RecordDelivered, DeletedHasNoCalls, WebhookExists, Typed
<1>9. ASSUME NEW c \in Calls, NEW i \in Slots, CountFailure(c, i) PROVE DeletedHasNoCalls'
  BY <1>9, <1>3 DEF CountFailure, AfterFailure, WebhookExists, Typed
<1>10. ASSUME NEW c \in Calls, EnqueueCall(c) \/ EnqueueFails(c) PROVE DeletedHasNoCalls'
  BY <1>10, <1>2 DEF EnqueueCall, EnqueueFails
<1>11. ASSUME NEW c \in Calls, NEW i \in Slots,
              \/ StartRun(c, i) \/ AcquireLock(c, i) \/ LockBusy(c, i) \/ PostAccepted(c, i)
              \/ PostRejected(c, i) \/ PostTimesOut(c, i) \/ WriteThrows(c, i)
              \/ ReleaseLock(c, i) \/ FinishRun(c, i) \/ Stall(c, i)
       PROVE  DeletedHasNoCalls'
  BY <1>11, <1>2 DEF StartRun, AcquireLock, LockBusy, PostAccepted, PostRejected, PostTimesOut,
     WriteThrows, ReleaseLock, FinishRun, Stall
<1>12. ASSUME \/ \E r \in StatusRequests : ReadWebhook(r)
              \/ LockExpires \/ UNCHANGED webhookVars
       PROVE  DeletedHasNoCalls'
  BY <1>12, <1>2 DEF ReadWebhook, LockExpires, webhookVars
<1> QED
  BY <1>1, <1>4, <1>5, <1>6, <1>7, <1>8, <1>9, <1>10, <1>11, <1>12 DEF WebhookNext, WorkerStep

(***************************************************************************)
(* The invariant, and what it says of a call.                              *)
(***************************************************************************)
LEMMA Begins == DispatchInit => DispatchInv
<1> SUFFICES ASSUME DispatchInit PROVE DispatchInv
  OBVIOUS
<1> USE DEF DispatchInit, NoRun, NoJob
<1>1. NoRun \in RunRecords /\ NoJob \in JobRecords
  BY DEF RunRecords, RunPCs, JobRecords
<1>2. Typed
  BY <1>1 DEF Typed, WebhookStatus, CallRecords
<1>3. DeletedHasNoCalls
  BY DEF DeletedHasNoCalls, WebhookExists
<1>4. \A c \in Calls : CallInv(c)
  BY DEF CallInv, JobIsRun, OwnerAlone, FreshHasNoRun, RunInProgress, ReceivedIsShown,
     LeavesSettled, LateIsLast, LockIsKept, Active, Clean, Tended, Unsettled, HeldPCs, Slots
<1> QED
  BY <1>2, <1>3, <1>4 DEF DispatchInv

LEMMA Goes == DispatchInv /\ [WebhookNext]_webhookVars => DispatchInv'
<1> SUFFICES ASSUME DispatchInv, [WebhookNext]_webhookVars PROVE DispatchInv'
  OBVIOUS
<1>1. Typed /\ DeletedHasNoCalls /\ \A c \in Calls : CallInv(c)
  BY DEF DispatchInv
<1>2. DeletedHasNoCalls'
  BY <1>1, DeletedStays
<1>3. ASSUME NEW c \in Calls,
             CreateCall(c) \/ RetryCall(c) \/ EnqueueCall(c) \/ EnqueueFails(c) \/ CleanUp(c)
      PROVE  Typed' /\ \A d \in Calls : CallInv(d)'
  BY <1>1, <1>3, MakesCall, MakesCallLeaves, MakesCallTyped, LeavesOthers
<1>4. ASSUME NEW c \in Calls, NEW i \in Slots,
             \/ StartRun(c, i) \/ DiscardCall(c, i) \/ MarkInProgress(c, i)
             \/ AcquireLock(c, i) \/ LockBusy(c, i) \/ MarkContended(c, i)
             \/ PostAccepted(c, i) \/ PostRejected(c, i) \/ PostTimesOut(c, i)
             \/ RecordDelivered(c, i) \/ CountFailure(c, i) \/ RecordFailure(c, i)
             \/ WriteThrows(c, i) \/ ReleaseLock(c, i) \/ FinishRun(c, i) \/ Stall(c, i)
      PROVE  Typed' /\ \A d \in Calls : CallInv(d)'
  BY <1>1, <1>4, RunStep, RunStepLeaves, RunStepTyped, LeavesOthers
<1>5. ASSUME \/ \E r \in StatusRequests : ReadWebhook(r) \/ WriteWebhookStatus(r)
             \/ DeleteWebhook \/ LockExpires \/ UNCHANGED webhookVars
      PROVE  Typed' /\ \A d \in Calls : CallInv(d)'
  BY <1>1, <1>5, RequestStep, RequestTyped
<1> QED
  BY <1>2, <1>3, <1>4, <1>5 DEF DispatchInv, WebhookNext, WorkerStep

LEMMA AlwaysInv == WebhookSpec => []DispatchInv
  BY Begins, Goes, PTL DEF WebhookSpec

\* A set that has no two members has at most one.
LEMMA FewIsOne ==
  ASSUME NEW S, \A h, k \in S : h = k
  PROVE  Cardinality(S) <= 1
<1>1. CASE S = {}
  BY <1>1, FS_EmptySet
<1>2. ASSUME NEW h \in S PROVE Cardinality(S) <= 1
  <2>1. S = {h}
    OBVIOUS
  <2> QED
    BY <2>1, FS_Singleton
<1> QED
  BY <1>1, <1>2

(***************************************************************************)
(* A run that posts holds the lock unless it expired, and a webhook that   *)
(* is no longer active gets at most one more post of each call.            *)
(***************************************************************************)
THEOREM PostsAreAlwaysGuarded == WebhookSpec => []PostsAreGuarded
<1>1. DispatchInv => PostsAreGuarded
  BY DEF DispatchInv, CallInv, Typed, LockIsKept, LateIsLast, HeldPCs, PostsAreGuarded,
     PostsHoldTheLock, LatePostsAreFew, Excuses
<1> QED
  BY <1>1, AlwaysInv, PTL

(***************************************************************************)
(* What a call's row says is so: received once if at all, not received if  *)
(* FAILED or DISCARDED, and on its way if PENDING, or something happened   *)
(* to it that takes the promise away.                                      *)
(***************************************************************************)
THEOREM CallIsAlwaysAsShown == WebhookSpec => []CallIsAsShown
<1>1. ASSUME DispatchInv PROVE CallIsAsShown
  <2> USE <1>1 DEF DispatchInv, CallInv
  <2>1. DispatchTypeOK
    BY FewIsOne DEF Typed, DispatchTypeOK, RunRecords, JobRecords, CallRecords
  <2>2. CallReceivedOnce
    BY SMTT(30) DEF CallReceivedOnce, ReceivedIsShown, Clean, Excuses, Typed
  <2>3. FailedWasNotReceived
    BY DEF FailedWasNotReceived, ReceivedIsShown, RunInProgress, Clean, Excuses, Typed
  <2>4. PendingCallHasJob
    BY DEF PendingCallHasJob, LeavesSettled, Tended, Unsettled, Excuses
  <2> QED
    BY <2>1, <2>2, <2>3, <2>4 DEF CallIsAsShown
<1> QED
  BY <1>1, AlwaysInv, PTL

(***************************************************************************)
(* What the failures of an ACTIVE webhook count: calls that used up their  *)
(* attempts since the last success and the last activation.  A stale write *)
(* of a count leaves the webhook with another status.                      *)
(***************************************************************************)
FailuresAreExhausted ==
  /\ webhook.status = "ACTIVE" => webhook.failures <= exhausted
  /\ \A r \in StatusRequests : request[r].status # "AUTO_DISABLED"

\* The steps that neither write the webhook's row nor a request.
LEMMA LeavesCount ==
  ASSUME FailuresAreExhausted, UNCHANGED << webhook, request, exhausted >>
  PROVE  FailuresAreExhausted'
  BY DEF FailuresAreExhausted

LEMMA RequestCount ==
  ASSUME Typed, FailuresAreExhausted, NEW r \in StatusRequests,
         ReadWebhook(r) \/ WriteWebhookStatus(r)
  PROVE  /\ FailuresAreExhausted'
         /\ webhook'.status = "AUTO_DISABLED" => webhook.status = "AUTO_DISABLED"
<1> USE DEF FailuresAreExhausted, Typed
<1>1. CASE ReadWebhook(r)
  BY <1>1 DEF ReadWebhook
<1>2. CASE WriteWebhookStatus(r)
  <2>1. \A q \in StatusRequests : request'[q].status = request[q].status
    BY <1>2 DEF WriteWebhookStatus
  <2>2. \/ webhook' = [status |-> "ACTIVE", failures |-> 0] /\ exhausted' = 0
        \/ /\ webhook' = [status |-> request[r].status, failures |-> request[r].failures]
           /\ request[r].status # "ACTIVE"
        \/ UNCHANGED << webhook, exhausted >>
    BY <1>2 DEF WriteWebhookStatus
  <2> QED
    BY <2>1, <2>2
<1> QED
  BY <1>1, <1>2

LEMMA FailureCount ==
  ASSUME Typed, FailuresAreExhausted, NEW c \in Calls, NEW i \in Slots, CountFailure(c, i)
  PROVE  /\ FailuresAreExhausted'
         /\ webhook.status # "AUTO_DISABLED" /\ webhook'.status = "AUTO_DISABLED"
              => exhausted' >= Threshold
<1> USE DEF FailuresAreExhausted, Typed
<1>1. webhook' = AfterFailure(c, i) /\ request' = request
      /\ exhausted' = IF Final(c, i) THEN exhausted + 1 ELSE exhausted
  BY DEF CountFailure
<1>2. CASE Final(c, i)
  BY <1>1, <1>2 DEF AfterFailure
<1>3. CASE ~Final(c, i)
  BY <1>1, <1>3 DEF AfterFailure
<1> QED
  BY <1>2, <1>3

LEMMA CountStep ==
  ASSUME Typed, FailuresAreExhausted, [WebhookNext]_webhookVars
  PROVE  /\ FailuresAreExhausted'
         /\ webhook.status # "AUTO_DISABLED" /\ webhook'.status = "AUTO_DISABLED"
              => exhausted' >= Threshold
<1>1. ASSUME NEW c \in Calls, \/ CreateCall(c) \/ RetryCall(c) \/ EnqueueCall(c)
                             \/ EnqueueFails(c) \/ CleanUp(c)
      PROVE  UNCHANGED << webhook, request, exhausted >>
  BY <1>1 DEF CreateCall, RetryCall, EnqueueCall, EnqueueFails, CleanUp
<1>2. ASSUME NEW c \in Calls, NEW i \in Slots,
             \/ StartRun(c, i) \/ DiscardCall(c, i) \/ MarkInProgress(c, i)
             \/ AcquireLock(c, i) \/ LockBusy(c, i) \/ MarkContended(c, i)
             \/ PostAccepted(c, i) \/ PostRejected(c, i) \/ PostTimesOut(c, i)
             \/ RecordFailure(c, i) \/ WriteThrows(c, i) \/ ReleaseLock(c, i)
             \/ FinishRun(c, i) \/ Stall(c, i)
      PROVE  UNCHANGED << webhook, request, exhausted >>
  BY <1>2 DEF StartRun, DiscardCall, MarkInProgress, AcquireLock, LockBusy, MarkContended,
     PostAccepted, PostRejected, PostTimesOut, RecordFailure, WriteThrows, ReleaseLock,
     FinishRun, Stall
<1>3. ASSUME LockExpires \/ UNCHANGED webhookVars
      PROVE  UNCHANGED << webhook, request, exhausted >>
  BY <1>3 DEF LockExpires, webhookVars
<1>4. ASSUME DeleteWebhook
      PROVE  FailuresAreExhausted' /\ webhook'.status # "AUTO_DISABLED"
  BY <1>4 DEF DeleteWebhook, FailuresAreExhausted, Typed
<1>5. ASSUME NEW c \in Calls, NEW i \in Slots, RecordDelivered(c, i)
      PROVE  FailuresAreExhausted' /\ webhook'.status = webhook.status
  BY <1>5 DEF RecordDelivered, FailuresAreExhausted, Typed
<1> QED
  BY <1>1, <1>2, <1>3, <1>4, <1>5, LeavesCount, RequestCount, FailureCount
     DEF WebhookNext, WorkerStep

(***************************************************************************)
(* A failure disables the webhook only after Threshold calls have used up  *)
(* their attempts since the last success and since the last activation,    *)
(* whatever stale count a setWebhookStatus wrote in between.               *)
(***************************************************************************)
THEOREM AutoDisableAlwaysDeserved == WebhookSpec => AutoDisableDeserved
<1>1. DispatchInit => DispatchInv /\ FailuresAreExhausted
  BY Begins DEF DispatchInit, FailuresAreExhausted
<1>2. DispatchInv /\ FailuresAreExhausted /\ [WebhookNext]_webhookVars
        => /\ DispatchInv' /\ FailuresAreExhausted'
           /\ webhook.status # "AUTO_DISABLED" /\ webhook'.status = "AUTO_DISABLED"
                => exhausted' >= Threshold
  BY Goes, CountStep DEF DispatchInv
<1>3. DispatchInv /\ FailuresAreExhausted /\ [WebhookNext]_webhookVars
        => [webhook.status # "AUTO_DISABLED" /\ webhook'.status = "AUTO_DISABLED"
              => exhausted' >= Threshold]_webhookVars
  BY <1>2
<1> QED
  BY <1>1, <1>2, <1>3, PTL DEF WebhookSpec, AutoDisableDeserved

-----------------------------------------------------------------------------
(* The ends of a team's connections: the SMTP server, its certificate, and *)
(* the receiver of the webhook.                                            *)

HIDE AttemptsAssumption
HIDE ThresholdAssumption
HIDE DispatchAssumption

Fields == [to: SUBSET Addresses, cc: SUBSET Addresses, bcc: SUBSET Addresses]
MailTyped ==
  /\ mail \in [to: SUBSET Addresses, cc: SUBSET Addresses, hidden: SUBSET Addresses,
               named: BOOLEAN, leaked: BOOLEAN]
  /\ mail.to \cap mail.cc = {} /\ mail.hidden \cap (mail.to \cup mail.cc) = {}
  /\ Everyone(mail) # {} /\ suppressed \subseteq Everyone(mail)
  /\ todo \subseteq SUBSET Everyone(mail)
  /\ session \in [pc: {"none", "data", "api", "taken", "refused"},
                  rcpts: SUBSET Everyone(mail), fields: Fields]
  /\ mailed \in [Addresses -> Nat] /\ lost \in 0 .. MaxLost /\ blind \in BOOLEAN

\* The transaction under way is one the client has still to see accepted, and
\* its request is what resolveRecipients makes of it.
SessionFits ==
  /\ session.pc # "none" => session.rcpts \in todo
  /\ session.pc \in {"api", "taken", "refused"} =>
       session.fields = resolveRecipients(mail, session.rcpts)

\* The mail goes in one transaction or in one for each of its people, and the
\* others than those of D are still to be accepted: nobody is mailed more often
\* than there are of D, but for the transaction taken on and the answers lost.
Taken == IF session.pc = "taken" THEN 1 ELSE 0
Unaccepted(D) ==
  \/ todo = { {a} : a \in Everyone(mail) \ D }
  \/ todo = {Everyone(mail)} /\ D = {}
  \/ todo = {} /\ D # {}
MailedByTransaction ==
  \E D \in SUBSET Everyone(mail) :
    /\ Unaccepted(D)
    /\ \A a \in Addresses : mailed[a] <= lost + Taken + Cardinality(D)

\* Only its own transaction mails a person who is in no header.
OwnDone(a) == IF \E t \in todo : a \in t THEN 0 ELSE 1
OwnTaken(a) == IF session.pc = "taken" /\ a \in session.rcpts THEN 1 ELSE 0
HiddenOnce ==
  /\ \A t, u \in todo : t = u \/ t \cap u = {}
  /\ \A a \in mail.hidden : ~mail.leaked => mailed[a] <= lost + OwnDone(a) + OwnTaken(a)

\* A To of one suppressed address keeps the mail from everybody.
Barred == mail.to # {} /\ LeftOut(mail.to, mail.named) = mail.to
Served ==
  /\ \A a \in Everyone(mail) \ suppressed :
       OwnDone(a) = 1 \/ OwnTaken(a) = 1 => mailed[a] > 0 \/ Barred
  /\ Barred /\ ~blind => \A a \in Addresses : mailed[a] = 0

MailInv ==
  /\ MailTyped /\ SessionFits /\ MailedByTransaction /\ HiddenOnce /\ Served
  /\ SuppressedAreSpared

\* A change that was seen is still to be acted on, or was read in full, or is
\* one of two of which the other is to come.
CertInv ==
  /\ file \in [Files -> 0 .. MaxRenewals] /\ served \in [Files -> 0 .. MaxRenewals]
  /\ changed \subseteq Files /\ read \in 0 .. NotRead
  /\ served["key"] = served["cert"]
  /\ watched = Files =>
       \/ served = file \/ changed # {} \/ file["key"] # file["cert"]
       \/ read = file["key"]

SignatureInv ==
  /\ SignatureTypeOK /\ skew \in Int /\ tolerance \in Int
  /\ reading.secret \in 0 .. MaxRotations
  /\ reading.pc = "read" => tries > 0
  /\ \A p \in posts : p.stamp = p.made
  /\ SdksAgree /\ RefusedForCause

(***************************************************************************)
(* The receiver: what is signed carries the time it was signed at, so that *)
(* both SDKs see a post as it was sent at the age it has.                  *)
(***************************************************************************)
LEMMA ReceiverBegins ==
  ASSUME SignatureAssumption, SignatureInit
  PROVE  SignatureInv
  BY DEF SignatureAssumption, SignatureInit, SignatureInv, SignatureTypeOK, NoReading,
     NoVerdict, SdksAgree, RefusedForCause

LEMMA SignedWhenMade ==
  ASSUME SignatureAssumption, SignatureInv, postWebhook
  PROVE  SignatureInv'
<1> USE DEF SignatureInv, SignatureTypeOK
<1>1. signBody \in Posts /\ signBody.stamp = signBody.made
  BY DEF SignatureAssumption, postWebhook, signBody, Posts
<1> QED
  BY <1>1 DEF postWebhook, NoReading, NoVerdict, SdksAgree, RefusedForCause

LEMMA Verified ==
  ASSUME SignatureAssumption, SignatureInv, NEW p \in posts, Receive(p)
  PROVE  SdksAgree' /\ RefusedForCause'
<1>1. PICK body \in Bodies, head \in Heads :
        verdict' = [post |-> p, body |-> body, head |-> head, at |-> clock, known |-> known,
                    ts |-> verify("ts", p, body, head), py |-> verify("py", p, body, head)]
  BY DEF Receive
<1>2. PICK v : v = verdict'
  OBVIOUS
<1>3. /\ v.post = p /\ v.body = body /\ v.head = head /\ v.at = clock /\ v.known = known
      /\ v.ts = verify("ts", p, body, head) /\ v.py = verify("py", p, body, head)
  BY <1>1, <1>2
<1>4. /\ head.signature \in {"v1", "lost", "other"}
      /\ head.stamp \in {"lost", "digits", "fraction", "grouped", "word"}
      /\ head.signature # "v1" => head.stamp = "digits"
  BY DEF Heads
<1>5. /\ v.ts = "OK" <=> v.py = "OK"
      /\ v.body # "latin1" /\ v.head.stamp \in {"lost", "digits", "word"} => v.ts = v.py
  BY <1>3, <1>4 DEF verify, Reads, Readable, Genuine, Bodies
<1>6. skew' = skew /\ tolerance' = tolerance /\ p.stamp = p.made
  BY DEF Receive, SignatureInv
<1>7. v.body \in {"text", "bytes"} /\ v.head.signature = "v1" /\ v.head.stamp = "digits" =>
        v.ts = IF tolerance >= 0 /\ Distance(v.at + skew, v.post.made) > tolerance
                 THEN "TIMESTAMP_OUT_OF_RANGE"
               ELSE IF v.post.by # v.known THEN "SIGNATURE_MISMATCH"
               ELSE "OK"
  BY <1>3, <1>6 DEF verify, Reads, Readable, Genuine, OutOfRange
<1> QED
  BY <1>2, <1>5, <1>6, <1>7 DEF SdksAgree, RefusedForCause

LEMMA ReceiverStep ==
  ASSUME SignatureAssumption, SignatureInv, SignatureNext
  PROVE  SignatureInv'
<1> USE DEF SignatureInv
<1>1. CASE ReadSecret \/ RotateSecret \/ Learn \/ Advance
  <2>1. SdksAgree' /\ RefusedForCause'
    BY <1>1 DEF ReadSecret, RotateSecret, Learn, Advance, NoVerdict, SdksAgree, RefusedForCause
  <2> QED
    BY <1>1, <2>1 DEF ReadSecret, RotateSecret, Learn, Advance, SignatureTypeOK,
       SignatureAssumption
<1>2. CASE postWebhook
  BY <1>2, SignedWhenMade
<1>3. ASSUME NEW p \in posts, Receive(p) PROVE SignatureInv'
  BY <1>3, Verified DEF Receive, SignatureTypeOK
<1> QED
  BY <1>1, <1>2, <1>3 DEF SignatureNext

LEMMA ReceiverStays ==
  ASSUME SignatureInv, UNCHANGED signatureVars
  PROVE  SignatureInv'
  BY DEF SignatureInv, SignatureTypeOK, SdksAgree, RefusedForCause, signatureVars

(***************************************************************************)
(* The certificate: a change that is seen is acted on after it was made.   *)
(***************************************************************************)
LEMMA CertBegins ==
  ASSUME MailServerAssumption, CertInit
  PROVE  CertInv
  BY DEF MailServerAssumption, CertInit, CertInv, Files, NotRead

LEMMA CertStep ==
  ASSUME MailServerAssumption, CertInv, CertNext
  PROVE  CertInv'
<1> USE DEF CertInv, Files, NotRead, MailServerAssumption
<1>1. ASSUME NEW f \in Files, Renew(f) PROVE CertInv'
  <2>1. file' \in [Files -> 0 .. MaxRenewals]
    BY <1>1 DEF Renew
  <2>2. watched' = Files => changed' # {}
    BY <1>1 DEF Renew
  <2> QED
    BY <1>1, <2>1, <2>2 DEF Renew
<1>2. ASSUME NEW f \in Files, ReadKey(f) PROVE CertInv'
  BY <1>2 DEF ReadKey
<1>3. CASE ReadCert
  <2>1. CASE read = file["cert"]
    <3>1. served' = [key |-> read, cert |-> read] /\ UNCHANGED << file, watched, changed >>
      BY <1>3, <2>1 DEF ReadCert, Installed
    <3>2. served'["key"] = read /\ served'["cert"] = read /\ served' \in [Files -> 0 .. MaxRenewals]
      BY <2>1, <3>1
    <3>3. file["key"] = file["cert"] => served' = file
      BY <2>1, <3>2
    <3> QED
      BY <1>3, <3>1, <3>2, <3>3 DEF ReadCert
  <2>2. CASE read # file["cert"]
    BY <1>3, <2>2 DEF ReadCert, Installed
  <2> QED
    BY <2>1, <2>2
<1>4. CASE RestartServer
  BY <1>4 DEF RestartServer
<1> QED
  BY <1>1, <1>2, <1>3, <1>4 DEF CertNext

LEMMA CertStays ==
  ASSUME CertInv, UNCHANGED certVars
  PROVE  CertInv'
  BY DEF CertInv, certVars

LEMMA CertFits ==
  ASSUME MailServerAssumption, CertInv
  PROVE  CertificateFits
<1>1. file["key"] \in 0 .. MaxRenewals /\ MaxRenewals \in Nat
  BY DEF CertInv, Files, MailServerAssumption
<1>2. file["key"] # NotRead
  BY <1>1 DEF NotRead
<1> QED
  BY <1>2 DEF CertInv, CertificateFits

(***************************************************************************)
(* A mail: who is in one field of a request is in no other.                *)
(***************************************************************************)
LEMMA CopiesAreOne ==
  ASSUME NEW fields, NEW a,
         fields["to"] \cap fields["cc"] = {}, fields["bcc"] \cap (fields["to"] \cup fields["cc"]) = {}
  PROVE  Copies(fields, a) =
           IF a \in fields["to"] \cup fields["cc"] \cup fields["bcc"] THEN 1 ELSE 0
<1> DEFINE S == { f \in {"to", "cc", "bcc"} : a \in fields[f] }
<1>1. ASSUME NEW f \in S PROVE S = {f}
  OBVIOUS
<1>2. CASE S = {}
  BY <1>2, FS_EmptySet DEF Copies
<1>3. CASE S # {}
  <2>1. PICK f \in S : TRUE
    BY <1>3
  <2>2. S = {f}
    BY <1>1, <2>1
  <2> QED
    BY <2>1, <2>2, FS_Singleton DEF Copies
<1> QED
  BY <1>2, <1>3

\* A field from which nobody is left out is not one suppressed address alone.
LEMMA NotLeftOut ==
  ASSUME NEW field, NEW named, NEW a \in field, IsFiniteSet(field), a \in suppressed,
         a \notin LeftOut(field, named)
  PROVE  named \/ Cardinality(field) > 1
<1>1. CASE Cardinality(field) = 1
  <2>1. PICK x : field = {x}
    BY <1>1, FS_Singleton
  <2> QED
    BY <1>1, <2>1 DEF LeftOut
<1>2. CASE Cardinality(field) # 1
  <2>1. Cardinality(field) \in Nat /\ Cardinality(field) # 0
    BY FS_CardinalityType, FS_EmptySet
  <2> QED
    BY <1>2, <2>1
<1> QED
  BY <1>1, <1>2

\* What the API makes of a request: whom it mails, whom it must, and whom it
\* leaves out.
Reached(rcpts) ==
  LET fields == resolveRecipients(mail, rcpts) IN
  fields["to"] \cup fields["cc"] \cup fields["bcc"]
MayBeMailed(a) ==
  \/ a \in mail.to /\ (mail.named \/ Cardinality(mail.to) > 1)
  \/ a \in mail.cc /\ Cardinality(mail.cc) > 1
  \/ a \in mail.hidden /\ Cardinality(mail.hidden) > 1

LEMMA SparedFields ==
  ASSUME MailServerAssumption, MailTyped, NEW rcpts \in SUBSET Everyone(mail),
         NEW fields, fields = resolveRecipients(mail, rcpts),
         NEW left, left = Spared(fields), NEW a \in Addresses
  PROVE  /\ Copies(fields, a) = IF a \in Reached(rcpts) THEN 1 ELSE 0
         /\ Copies(left, a) \in {0, 1}
         /\ Copies(left, a) = 1 => a \in Reached(rcpts)
         /\ a \in Reached(rcpts) \ suppressed => Copies(left, a) = 1
         /\ Copies(left, a) = 1 /\ a \in suppressed => MayBeMailed(a)
<1>1. /\ fields["to"] = mail.to /\ fields["cc"] = mail.cc
      /\ fields["bcc"] = ((IF mail.leaked THEN mail.hidden ELSE {}) \cup rcpts)
                           \ (mail.to \cup mail.cc)
      /\ fields.to = mail.to /\ fields.cc = mail.cc /\ fields.bcc = fields["bcc"]
  BY DEF resolveRecipients
<1>2. /\ mail.to \cap mail.cc = {} /\ fields["bcc"] \cap (mail.to \cup mail.cc) = {}
      /\ fields["bcc"] \subseteq mail.hidden
  BY <1>1 DEF MailTyped, Everyone
<1>3. /\ left["to"] = mail.to \ LeftOut(mail.to, mail.named)
      /\ left["cc"] = mail.cc \ LeftOut(mail.cc, FALSE)
      /\ left["bcc"] = fields["bcc"] \ LeftOut(fields["bcc"], FALSE)
  BY <1>1 DEF Spared
<1>4. Reached(rcpts) = mail.to \cup mail.cc \cup fields["bcc"]
  BY <1>1 DEF Reached
<1>5. Copies(fields, a) = IF a \in Reached(rcpts) THEN 1 ELSE 0
  BY <1>1, <1>2, <1>4, CopiesAreOne
<1>6. Copies(left, a) = IF a \in left["to"] \cup left["cc"] \cup left["bcc"] THEN 1 ELSE 0
  <2>1. left["to"] \cap left["cc"] = {} /\ left["bcc"] \cap (left["to"] \cup left["cc"]) = {}
    BY <1>2, <1>3
  <2> QED
    BY <2>1, CopiesAreOne
<1>7. \A field, named : LeftOut(field, named) \subseteq suppressed
  BY DEF LeftOut
<1>8. IsFiniteSet(mail.to) /\ IsFiniteSet(mail.cc) /\ IsFiniteSet(mail.hidden)
  BY FS_Subset DEF MailServerAssumption, MailTyped
<1>9. IsFiniteSet(fields["bcc"]) /\ Cardinality(fields["bcc"]) <= Cardinality(mail.hidden)
  BY <1>2, <1>8, FS_Subset
<1>10. ASSUME Copies(left, a) = 1, a \in suppressed PROVE MayBeMailed(a)
  <2>1. CASE a \in left["to"]
    BY <1>3, <1>8, <1>10, <2>1, NotLeftOut DEF MayBeMailed
  <2>2. CASE a \in left["cc"]
    BY <1>3, <1>8, <1>10, <2>2, NotLeftOut DEF MayBeMailed
  <2>3. CASE a \in left["bcc"]
    <3>1. Cardinality(fields["bcc"]) > 1
      BY <1>3, <1>9, <1>10, <2>3, NotLeftOut
    <3>2. Cardinality(fields["bcc"]) \in Nat /\ Cardinality(mail.hidden) \in Nat
      BY <1>8, <1>9, FS_CardinalityType
    <3> QED
      BY <1>2, <1>3, <1>9, <2>3, <3>1, <3>2 DEF MayBeMailed
  <2> QED
    BY <1>6, <1>10, <2>1, <2>2, <2>3
<1>11. Copies(left, a) \in {0, 1} /\ (Copies(left, a) = 1 => a \in Reached(rcpts))
  <2>1. left["to"] \cup left["cc"] \cup left["bcc"] \subseteq Reached(rcpts)
    BY <1>3, <1>4
  <2>2. CASE a \in left["to"] \cup left["cc"] \cup left["bcc"]
    BY <1>6, <2>1, <2>2
  <2>3. CASE a \notin left["to"] \cup left["cc"] \cup left["bcc"]
    BY <1>6, <2>3
  <2> QED
    BY <2>2, <2>3
<1>12. a \in Reached(rcpts) \ suppressed => Copies(left, a) = 1
  BY <1>3, <1>4, <1>6, <1>7
<1> QED
  BY <1>5, <1>10, <1>11, <1>12

\* A request that is taken on.
LEMMA Sends ==
  ASSUME MailServerAssumption, MailInv, sendEmail, session'.pc # "refused"
  PROVE  /\ session' = [session EXCEPT !.pc = "taken"] /\ UNCHANGED << mail, suppressed, todo, lost >>
         /\ blind' \in BOOLEAN /\ (blind => blind')
         /\ mailed' \in [Addresses -> Nat]
         /\ \A a \in Addresses :
              /\ mailed'[a] = mailed[a] \/ mailed'[a] = mailed[a] + 1
              /\ mailed'[a] # mailed[a] => a \in Reached(session.rcpts)
              /\ a \in Reached(session.rcpts) \ suppressed /\ ~Barred => mailed'[a] = mailed[a] + 1
              /\ Barred /\ ~blind' => mailed'[a] = mailed[a]
              /\ mailed'[a] # mailed[a] /\ a \in suppressed => blind' \/ MayBeMailed(a)
<1>1. MailTyped /\ session.pc = "api" /\ session.rcpts \in SUBSET Everyone(mail)
      /\ session.fields = resolveRecipients(mail, session.rcpts)
      /\ mailed \in [Addresses -> Nat] /\ blind \in BOOLEAN
  BY DEF MailInv, MailTyped, SessionFits, sendEmail
<1>2. PICK left : left = Spared(session.fields)
  OBVIOUS
<1>3. session.fields.to = mail.to /\ left.to = mail.to \ LeftOut(mail.to, mail.named)
  BY <1>1, <1>2 DEF resolveRecipients, Spared
<1>4. left.to = {} /\ mail.to # {} <=> Barred
  <2>1. LeftOut(mail.to, mail.named) \subseteq mail.to
    BY DEF LeftOut
  <2> QED
    BY <1>3, <2>1 DEF Barred
<1>5. /\ session' = [session EXCEPT !.pc = "taken"]
      /\ \/ /\ mailed' = [a \in Addresses |-> mailed[a] + IF Barred THEN 0 ELSE Copies(left, a)]
            /\ UNCHANGED blind
         \/ /\ mailed' = [a \in Addresses |-> mailed[a] + Copies(session.fields, a)]
            /\ blind' = TRUE
      /\ UNCHANGED << mail, suppressed, todo, lost >>
  <2>1. ~(mail.to = {} /\ ~mail.named)
    BY <1>3, <1>1 DEF sendEmail, MailTyped
  <2> QED
    BY <1>2, <1>3, <1>4, <2>1 DEF sendEmail
<1>6. \A a \in Addresses :
         /\ Copies(session.fields, a) = IF a \in Reached(session.rcpts) THEN 1 ELSE 0
         /\ Copies(left, a) \in {0, 1}
         /\ Copies(left, a) = 1 => a \in Reached(session.rcpts)
         /\ a \in Reached(session.rcpts) \ suppressed => Copies(left, a) = 1
         /\ Copies(left, a) = 1 /\ a \in suppressed => MayBeMailed(a)
  BY <1>1, <1>2, SparedFields
<1>7. CASE /\ mailed' = [a \in Addresses |-> mailed[a] + IF Barred THEN 0 ELSE Copies(left, a)]
           /\ UNCHANGED blind
  BY <1>1, <1>5, <1>6, <1>7
<1>8. CASE /\ mailed' = [a \in Addresses |-> mailed[a] + Copies(session.fields, a)]
           /\ blind' = TRUE
  BY <1>1, <1>5, <1>6, <1>8
<1> QED
  BY <1>5, <1>7, <1>8

LEMMA MailBegins ==
  ASSUME MailServerAssumption, MailInit
  PROVE  MailInv
<1> USE DEF MailInit
<1>1. NoSession.pc = "none" /\ NoSession \in
        [pc: {"none", "data", "api", "taken", "refused"}, rcpts: SUBSET Everyone(mail), fields: Fields]
  BY DEF NoSession, NoFields, Fields
<1>2. Everyone(mail) \subseteq Addresses /\ Everyone(mail) # {}
  BY DEF Everyone
<1>3. MailTyped
  <2>1. todo \subseteq SUBSET Everyone(mail)
    OBVIOUS
  <2>2. lost \in 0 .. MaxLost /\ blind \in BOOLEAN /\ mailed \in [Addresses -> Nat]
    <3>1. MaxLost \in Nat /\ lost = 0
      BY DEF MailServerAssumption
    <3>2. blind \in BOOLEAN
      OBVIOUS
    <3>3. mailed \in [Addresses -> Nat]
      OBVIOUS
    <3> QED
      BY <3>1, <3>2, <3>3
  <2>3. suppressed \subseteq Everyone(mail)
    OBVIOUS
  <2> QED
    BY <1>1, <1>2, <2>1, <2>2, <2>3 DEF MailTyped
<1>4. SessionFits
  BY <1>1 DEF SessionFits
<1>5. \A a \in Everyone(mail) : \E t \in todo : a \in t
  OBVIOUS
<1>6. Taken = 0 /\ \A a \in Addresses : OwnTaken(a) = 0
  BY <1>1 DEF Taken, OwnTaken
<1>7. MailedByTransaction
  <2>1. Unaccepted({})
    BY DEF Unaccepted
  <2> QED
    BY <1>6, <2>1, FS_EmptySet DEF MailedByTransaction
<1>8. HiddenOnce
  <2>1. \A t, u \in todo : t = u \/ t \cap u = {}
    <3>1. CASE todo = {Everyone(mail)}
      BY <3>1
    <3>2. CASE todo = { {a} : a \in Everyone(mail) }
      BY <3>2
    <3> QED
      BY <3>1, <3>2
  <2>2. \A a \in mail.hidden : OwnDone(a) \in Nat /\ a \in Addresses
    BY DEF OwnDone
  <2> QED
    BY <1>6, <2>1, <2>2 DEF HiddenOnce
<1>9. Served
  <2>1. \A a \in Everyone(mail) : OwnDone(a) = 0 /\ OwnTaken(a) = 0
    BY <1>2, <1>5, <1>6 DEF OwnDone
  <2> QED
    BY <2>1 DEF Served
<1> QED
  BY <1>2, <1>3, <1>4, <1>7, <1>8, <1>9 DEF MailInv, SuppressedAreSpared

\* A step before or after the API takes a request on.
LEMMA Quiet ==
  ASSUME MailInv, UNCHANGED << mail, suppressed, todo, mailed, lost, blind >>,
         session.pc # "taken", session'.pc # "taken", SessionFits',
         session' \in [pc: {"none", "data", "api", "taken", "refused"},
                       rcpts: SUBSET Everyone(mail), fields: Fields]
  PROVE  MailInv'
<1>1. MailTyped'
  BY DEF MailInv, MailTyped, Everyone
<1>2. Taken' = Taken /\ \A a \in Addresses : OwnTaken(a)' = OwnTaken(a)
  BY DEF Taken, OwnTaken
<1>3. MailedByTransaction'
  BY <1>2 DEF MailInv, MailedByTransaction, Unaccepted, Everyone
<1>4. HiddenOnce'
  BY <1>2 DEF MailInv, HiddenOnce, OwnDone, OwnTaken
<1>5. Served'
  BY <1>2 DEF MailInv, Served, OwnDone, OwnTaken, Barred, LeftOut, Everyone
<1> QED
  BY <1>1, <1>3, <1>4, <1>5 DEF MailInv, SuppressedAreSpared

SessionRecords == [pc: {"none", "data", "api", "taken", "refused"},
                   rcpts: SUBSET Everyone(mail), fields: Fields]

LEMMA SendStep ==
  ASSUME MailServerAssumption, MailInv, sendEmail, session'.pc # "refused"
  PROVE  MailInv'
<1>1. /\ session' = [session EXCEPT !.pc = "taken"] /\ UNCHANGED << mail, suppressed, todo, lost >>
      /\ blind' \in BOOLEAN /\ (blind => blind')
      /\ mailed' \in [Addresses -> Nat]
      /\ \A a \in Addresses :
           /\ mailed'[a] = mailed[a] \/ mailed'[a] = mailed[a] + 1
           /\ mailed'[a] # mailed[a] => a \in Reached(session.rcpts)
           /\ a \in Reached(session.rcpts) \ suppressed /\ ~Barred => mailed'[a] = mailed[a] + 1
           /\ Barred /\ ~blind' => mailed'[a] = mailed[a]
           /\ mailed'[a] # mailed[a] /\ a \in suppressed => blind' \/ MayBeMailed(a)
  BY Sends
<1>2. /\ MailTyped /\ SessionFits /\ MailedByTransaction /\ HiddenOnce /\ Served
      /\ SuppressedAreSpared /\ session.pc = "api"
  BY DEF MailInv, sendEmail
<1>3. /\ session \in SessionRecords /\ session' \in SessionRecords
      /\ session'.pc = "taken" /\ session'.rcpts = session.rcpts
      /\ session'.fields = session.fields
  BY <1>1, <1>2 DEF MailTyped, SessionRecords
<1>4. MailTyped'
  <2>1. Everyone(mail)' = Everyone(mail) /\ session' \in SessionRecords'
    BY <1>1, <1>3 DEF SessionRecords, Everyone
  <2>2. mailed' \in [Addresses -> Nat] /\ blind' \in BOOLEAN
    BY <1>1, ZenonT(30)
  <2> QED
    BY <1>1, <1>2, <2>1, <2>2 DEF MailTyped, SessionRecords
<1>5. SessionFits'
  BY <1>1, <1>2, <1>3 DEF SessionFits
<1>6. /\ Taken = 0 /\ Taken' = 1 /\ lost \in Nat /\ mailed \in [Addresses -> Nat]
      /\ \A a \in Addresses : OwnTaken(a) = 0 /\ (OwnTaken(a)' = IF a \in session.rcpts THEN 1 ELSE 0)
      /\ \A a \in Addresses : OwnDone(a) \in {0, 1} /\ OwnDone(a)' = OwnDone(a)
  BY <1>1, <1>2, <1>3 DEF Taken, OwnTaken, OwnDone, MailTyped
<1>7. MailedByTransaction'
  <2>1. PICK D \in SUBSET Everyone(mail) :
          Unaccepted(D) /\ \A a \in Addresses : mailed[a] <= lost + Taken + Cardinality(D)
    BY <1>2 DEF MailedByTransaction
  <2>2. Cardinality(D) \in Nat
    <3>1. D \in SUBSET Addresses
      BY <1>2 DEF MailTyped, Everyone
    <3> QED
      BY <3>1, FS_Subset, FS_CardinalityType DEF MailServerAssumption
  <2>3. \A a \in Addresses : mailed'[a] <= lost' + Taken' + Cardinality(D)
    BY <1>1, <1>6, <2>1, <2>2
  <2>4. Unaccepted(D)' /\ D \in SUBSET Everyone(mail)'
    BY <1>1, <2>1 DEF Unaccepted, Everyone
  <2> QED
    BY <2>3, <2>4 DEF MailedByTransaction
<1>8. HiddenOnce'
  <2>1. ASSUME NEW a \in mail.hidden, ~mail.leaked
        PROVE  mailed'[a] <= lost' + OwnDone(a)' + OwnTaken(a)'
    <3>1. a \in Addresses /\ mailed[a] <= lost + OwnDone(a) + OwnTaken(a)
      BY <1>2, <2>1 DEF MailTyped, HiddenOnce
    <3>2. a \in Reached(session.rcpts) => a \in session.rcpts
      BY <1>2, <2>1 DEF Reached, resolveRecipients, MailTyped
    <3> QED
      BY <1>1, <1>6, <3>1, <3>2
  <2> QED
    BY <1>1, <1>2, <2>1 DEF HiddenOnce
<1>9. Served'
  <2>1. Barred' = Barred
    BY <1>1 DEF Barred, LeftOut
  <2>2. ASSUME NEW a \in Everyone(mail) \ suppressed, OwnDone(a)' = 1 \/ OwnTaken(a)' = 1
        PROVE  mailed'[a] > 0 \/ Barred
    <3>1. a \in Addresses
      BY <1>2 DEF MailTyped, Everyone
    <3>2. CASE OwnDone(a) = 1
      BY <1>1, <1>2, <1>6, <3>1, <3>2 DEF Served
    <3>3. CASE a \in session.rcpts
      <4>1. a \in Reached(session.rcpts)
        BY <3>3 DEF Reached, resolveRecipients
      <4> QED
        BY <1>1, <1>6, <3>1, <4>1
    <3> QED
      BY <1>6, <2>2, <3>1, <3>2, <3>3
  <2>3. Barred /\ ~blind' => \A a \in Addresses : mailed'[a] = 0
    <3>1. ~blind' => ~blind
      BY <1>1, ZenonT(30)
    <3>2. Barred /\ ~blind => \A a \in Addresses : mailed[a] = 0
      BY <1>2 DEF Served
    <3>3. Barred /\ ~blind' => \A a \in Addresses : mailed'[a] = mailed[a]
      BY <1>1, ZenonT(30)
    <3> QED
      BY <3>1, <3>2, <3>3
  <2> QED
    BY <1>1, <2>1, <2>2, <2>3 DEF Served, Everyone
<1>10. SuppressedAreSpared'
  BY <1>1, <1>2, <1>4 DEF SuppressedAreSpared, MayBeMailed, MailTyped, Everyone
<1> QED
  BY <1>4, <1>5, <1>7, <1>8, <1>9, <1>10 DEF MailInv

\* The client has seen a transaction accepted.
LEMMA AcceptedStep ==
  ASSUME MailServerAssumption, MailInv, Answer, session.pc = "taken"
  PROVE  MailInv'
<1>1. /\ todo' = todo \ {session.rcpts} /\ session' = NoSession
      /\ UNCHANGED << mail, suppressed, mailed, lost, blind >>
  BY DEF Answer
<1>2. /\ MailTyped /\ SessionFits /\ MailedByTransaction /\ HiddenOnce /\ Served
      /\ SuppressedAreSpared /\ session.rcpts \in todo
  BY DEF MailInv, SessionFits
<1>3. NoSession.pc = "none" /\ NoSession \in SessionRecords
  BY DEF NoSession, NoFields, SessionRecords, Fields
<1>4. MailTyped'
  BY <1>1, <1>2, <1>3 DEF MailTyped, SessionRecords, Everyone
<1>5. SessionFits'
  BY <1>1, <1>3 DEF SessionFits
<1>6. /\ Taken = 1 /\ Taken' = 0 /\ lost \in Nat /\ mailed \in [Addresses -> Nat]
      /\ \A a \in Addresses : (OwnTaken(a) = IF a \in session.rcpts THEN 1 ELSE 0) /\ OwnTaken(a)' = 0
  BY <1>1, <1>2, <1>3 DEF Taken, OwnTaken, MailTyped
<1>7. ASSUME NEW a \in Addresses
      PROVE  /\ a \in session.rcpts => OwnDone(a) = 0 /\ OwnDone(a)' = 1
             /\ a \notin session.rcpts => OwnDone(a)' = OwnDone(a)
             /\ OwnDone(a) \in {0, 1}
  BY <1>1, <1>2 DEF OwnDone, HiddenOnce
<1>8. MailedByTransaction'
  <2>1. PICK D \in SUBSET Everyone(mail) :
          Unaccepted(D) /\ \A a \in Addresses : mailed[a] <= lost + Taken + Cardinality(D)
    BY <1>2 DEF MailedByTransaction
  <2>2. IsFiniteSet(D) /\ Cardinality(D) \in Nat
    <3>1. D \in SUBSET Addresses
      BY <1>2 DEF MailTyped, Everyone
    <3> QED
      BY <3>1, FS_Subset, FS_CardinalityType DEF MailServerAssumption
  <2>3. PICK x \in Everyone(mail) \ D :
          /\ todo = { {a} : a \in Everyone(mail) \ D } => session.rcpts = {x}
    BY <1>2, <2>1 DEF Unaccepted, MailTyped
  <2>4. Cardinality(D \cup {x}) = Cardinality(D) + 1
    BY <2>2, <2>3, FS_AddElement
  <2>5. \A a \in Addresses : mailed'[a] <= lost' + Taken' + Cardinality(D \cup {x})
    BY <1>1, <1>6, <2>1, <2>2, <2>4
  <2>6. Unaccepted(D \cup {x})'
    <3>1. CASE todo = { {a} : a \in Everyone(mail) \ D }
      <4>1. session.rcpts = {x}
        BY <2>3, <3>1
      <4>2. todo' = { {a} : a \in Everyone(mail) \ (D \cup {x}) }
        BY <1>1, <3>1, <4>1
      <4> QED
        BY <1>1, <4>2 DEF Unaccepted
    <3>2. CASE todo = {Everyone(mail)}
      BY <1>1, <1>2, <3>2 DEF Unaccepted
    <3> QED
      BY <1>2, <2>1, <3>1, <3>2 DEF Unaccepted
  <2> QED
    BY <1>1, <2>3, <2>5, <2>6 DEF MailedByTransaction
<1>9. HiddenOnce'
  BY <1>1, <1>2, <1>6, <1>7 DEF HiddenOnce, MailTyped
<1>10. Served'
  BY <1>1, <1>2, <1>6, <1>7 DEF Served, Barred, LeftOut, MailTyped, Everyone
<1>11. SuppressedAreSpared'
  BY <1>1, <1>2 DEF SuppressedAreSpared
<1> QED
  BY <1>4, <1>5, <1>8, <1>9, <1>10, <1>11 DEF MailInv

\* An answer to a request taken on is lost.
LEMMA LostStep ==
  ASSUME MailServerAssumption, MailInv, AnswerLost, session.pc = "taken"
  PROVE  MailInv'
<1>1. /\ session' = NoSession /\ lost' = lost + 1 /\ lost < MaxLost
      /\ UNCHANGED << mail, suppressed, todo, mailed, blind >>
  BY DEF AnswerLost
<1>2. /\ MailTyped /\ MailedByTransaction /\ HiddenOnce /\ Served /\ SuppressedAreSpared
  BY DEF MailInv
<1>3. NoSession.pc = "none" /\ NoSession \in SessionRecords
  BY DEF NoSession, NoFields, SessionRecords, Fields
<1>4. lost \in Nat /\ mailed \in [Addresses -> Nat] /\ lost' \in 0 .. MaxLost
  BY <1>1, <1>2 DEF MailTyped, MailServerAssumption
<1>5. MailTyped'
  BY <1>1, <1>2, <1>3, <1>4 DEF MailTyped, SessionRecords, Everyone
<1>6. SessionFits'
  BY <1>1, <1>3 DEF SessionFits
<1>7. /\ Taken = 1 /\ Taken' = 0
      /\ \A a \in Addresses : /\ OwnTaken(a) \in {0, 1} /\ OwnTaken(a)' = 0
                              /\ OwnDone(a) \in {0, 1} /\ OwnDone(a)' = OwnDone(a)
  BY <1>1, <1>3 DEF Taken, OwnTaken, OwnDone
<1>8. MailedByTransaction'
  <2>1. PICK D \in SUBSET Everyone(mail) :
          Unaccepted(D) /\ \A a \in Addresses : mailed[a] <= lost + Taken + Cardinality(D)
    BY <1>2 DEF MailedByTransaction
  <2>2. Cardinality(D) \in Nat
    <3>1. D \in SUBSET Addresses
      BY <1>2 DEF MailTyped, Everyone
    <3> QED
      BY <3>1, FS_Subset, FS_CardinalityType DEF MailServerAssumption
  <2>3. \A a \in Addresses : mailed'[a] <= lost' + Taken' + Cardinality(D)
    BY <1>1, <1>4, <1>7, <2>1, <2>2
  <2>4. Unaccepted(D)' /\ D \in SUBSET Everyone(mail)'
    BY <1>1, <2>1 DEF Unaccepted, Everyone
  <2> QED
    BY <2>3, <2>4 DEF MailedByTransaction
<1>9. HiddenOnce'
  BY <1>1, <1>2, <1>4, <1>7 DEF HiddenOnce, MailTyped
<1>10. Served'
  BY <1>1, <1>2, <1>7 DEF Served, Barred, LeftOut, MailTyped, Everyone
<1>11. SuppressedAreSpared'
  BY <1>1, <1>2 DEF SuppressedAreSpared
<1> QED
  BY <1>5, <1>6, <1>8, <1>9, <1>10, <1>11 DEF MailInv

LEMMA MailStep ==
  ASSUME MailServerAssumption, MailInv, MailNext
  PROVE  MailInv'
<1>1. MailTyped /\ SessionFits /\ session \in SessionRecords /\ todo \subseteq SUBSET Everyone(mail)
  BY DEF MailInv, MailTyped, SessionRecords
<1>2. NoSession \in SessionRecords /\ NoSession.pc = "none"
  BY DEF NoSession, NoFields, SessionRecords, Fields
<1>3. CASE Transact
  <2>1. PICK t \in todo : session' = [NoSession EXCEPT !.pc = "data", !.rcpts = t]
    BY <1>3 DEF Transact
  <2>2. session' \in SessionRecords /\ session'.pc = "data" /\ session'.rcpts = t
    BY <1>1, <1>2, <2>1 DEF SessionRecords, NoSession
  <2> QED
    BY <1>3, <2>2, Quiet DEF Transact, SessionFits, SessionRecords
<1>4. CASE onData
  <2>1. resolveRecipients(mail, session.rcpts) \in Fields
    BY <1>1 DEF resolveRecipients, Fields, MailTyped, SessionRecords, Everyone
  <2>2. PICK x \in Fields : x = resolveRecipients(mail, session.rcpts)
    BY <2>1
  <2>3. session' = [session EXCEPT !.pc = "api", !.fields = x]
    BY <1>4, <2>2 DEF onData
  <2>4. session' \in SessionRecords /\ session'.pc = "api" /\ session'.rcpts = session.rcpts
        /\ session'.fields = x
    BY <1>1, <2>3 DEF SessionRecords
  <2>5. session.rcpts \in todo /\ UNCHANGED << mail, suppressed, todo, mailed, lost, blind >>
    BY <1>1, <1>4 DEF onData, SessionFits
  <2>6. SessionFits'
    BY <2>2, <2>4, <2>5 DEF SessionFits
  <2> QED
    BY <1>4, <2>4, <2>5, <2>6, Quiet DEF onData, SessionRecords
<1>5. CASE sendEmail /\ session'.pc = "refused"
  <2>1. /\ session' \in SessionRecords /\ session'.rcpts = session.rcpts
        /\ session'.fields = session.fields /\ session.pc = "api"
        /\ UNCHANGED << mail, suppressed, todo, mailed, lost, blind >>
    BY <1>1, <1>5 DEF sendEmail, SessionRecords
  <2>2. SessionFits'
    BY <1>1, <1>5, <2>1 DEF SessionFits
  <2> QED
    BY <1>5, <2>1, <2>2, Quiet DEF SessionRecords
<1>6. CASE sendEmail /\ session'.pc # "refused"
  BY <1>6, SendStep
<1>7. CASE Answer /\ session.pc = "taken"
  BY <1>7, AcceptedStep
<1>8. CASE AnswerLost /\ session.pc = "taken"
  BY <1>8, LostStep
<1>9. CASE (Answer \/ AnswerLost) /\ session.pc # "taken"
  <2>1. session' = NoSession /\ UNCHANGED << mail, suppressed, todo, mailed, lost, blind >>
    BY <1>1, <1>9 DEF Answer, ApiAnswered, AnswerLost, MailTyped
  <2>2. SessionFits'
    BY <1>2, <2>1 DEF SessionFits
  <2> QED
    BY <1>2, <1>9, <2>1, <2>2, Quiet DEF SessionRecords
<1> QED
  BY <1>3, <1>4, <1>5, <1>6, <1>7, <1>8, <1>9 DEF MailNext

LEMMA MailStays ==
  ASSUME MailInv, UNCHANGED smtpVars
  PROVE  MailInv'
  BY DEF MailInv, smtpVars, MailTyped, SessionFits, MailedByTransaction, Unaccepted, Taken,
     HiddenOnce, OwnDone, OwnTaken, Served, Barred, LeftOut, SuppressedAreSpared, Everyone

LEMMA MailHolds ==
  ASSUME MailServerAssumption, MailInv
  PROVE  MailTypeOK /\ SentIsSent /\ TwiceIfLost /\ SuppressedAreSpared
<1>1. /\ MailTyped /\ SessionFits /\ MailedByTransaction /\ HiddenOnce /\ Served
      /\ SuppressedAreSpared
  BY DEF MailInv
<1>2. Everyone(mail) \subseteq Addresses /\ lost \in Nat /\ mailed \in [Addresses -> Nat]
  BY <1>1 DEF MailTyped, Everyone
<1>3. MailTypeOK
  BY <1>1, <1>2 DEF MailTyped, MailTypeOK
<1>4. SentIsSent
  <2>1. Barred => mail.to # {} /\ mail.to \subseteq suppressed
    BY DEF Barred, LeftOut
  <2>2. todo = {} => \A a \in Everyone(mail) : OwnDone(a) = 1
    BY DEF OwnDone
  <2>3. todo = {} => \A a \in Everyone(mail) \ suppressed : mailed[a] > 0 \/ Barred
    BY <1>1, <2>2 DEF Served
  <2>4. Barred /\ ~blind => \A a \in Addresses : mailed[a] = 0
    BY <1>1 DEF Served
  <2> QED
    BY <2>1, <2>3, <2>4 DEF SentIsSent
<1>5. TwiceIfLost
  <2>1. ASSUME NEW a \in mail.hidden, ~mail.leaked PROVE mailed[a] <= lost + 1
    <3>1. mailed[a] \in Nat /\ mailed[a] <= lost + OwnDone(a) + OwnTaken(a)
      BY <1>1, <1>2, <2>1 DEF HiddenOnce, Everyone
    <3>2. OwnTaken(a) = 1 => OwnDone(a) = 0
      BY <1>1 DEF OwnTaken, OwnDone, SessionFits
    <3>3. OwnDone(a) \in {0, 1} /\ OwnTaken(a) \in {0, 1}
      BY DEF OwnDone, OwnTaken
    <3> QED
      BY <1>2, <3>1, <3>2, <3>3
  <2>2. ASSUME NEW a \in Addresses PROVE mailed[a] <= lost + Cardinality(Everyone(mail))
    <3>1. PICK D \in SUBSET Everyone(mail) :
            Unaccepted(D) /\ mailed[a] <= lost + Taken + Cardinality(D)
      BY <1>1 DEF MailedByTransaction
    <3>2. /\ IsFiniteSet(Everyone(mail)) /\ IsFiniteSet(D)
          /\ Cardinality(D) <= Cardinality(Everyone(mail))
          /\ Cardinality(D) = Cardinality(Everyone(mail)) => D = Everyone(mail)
          /\ Cardinality(D) \in Nat /\ Cardinality(Everyone(mail)) \in Nat
      BY <1>2, FS_Subset, FS_CardinalityType DEF MailServerAssumption
    <3>3. session.pc = "taken" => D # Everyone(mail)
      BY <1>1, <3>1 DEF SessionFits, Unaccepted, MailTyped
    <3>4. Taken = (IF session.pc = "taken" THEN 1 ELSE 0) /\ mailed[a] \in Nat
      BY <1>2 DEF Taken
    <3> QED
      BY <1>2, <3>1, <3>2, <3>3, <3>4
  <2> QED
    BY <2>1, <2>2 DEF TwiceIfLost
<1> QED
  BY <1>1, <1>3, <1>4, <1>5

(***************************************************************************)
(* Everybody of a mail handed to the SMTP server is mailed, and but for    *)
(* lost answers no oftener than transactions name them; its certificate    *)
(* fits; and a webhook's receiver takes what was signed for it.            *)
(***************************************************************************)
THEOREM ConnectionsAlwaysHold == ConnectionsSpec => []ConnectionsHold
<1> USE MailServerAssumption, SignatureAssumption
<1> DEFINE Inv == MailInv /\ CertInv /\ SignatureInv
           vars == << webhookVars, smtpVars, certVars, signatureVars >>
<1>1. ConnectionsInit => Inv
  BY MailBegins, CertBegins, ReceiverBegins DEF ConnectionsInit
<1>2. Inv /\ [ConnectionsNext]_vars => Inv'
  <2> SUFFICES ASSUME Inv, ConnectionsNext \/ UNCHANGED vars PROVE Inv'
    OBVIOUS
  <2>1. MailNext \/ UNCHANGED smtpVars
    BY DEF ConnectionsNext, NoMailStep
  <2>2. CertNext \/ UNCHANGED certVars
    BY DEF ConnectionsNext, NoRenewal
  <2>3. SignatureNext \/ UNCHANGED signatureVars
    BY DEF ConnectionsNext, NoPostStep
  <2> QED
    BY <2>1, <2>2, <2>3, MailStep, MailStays, CertStep, CertStays, ReceiverStep, ReceiverStays
<1>3. Inv => ConnectionsHold
  BY MailHolds, CertFits DEF ConnectionsHold, MailServerHolds, ReceiverHolds, SignatureInv
<1> QED
  BY <1>1, <1>2, <1>3, PTL DEF ConnectionsSpec
============================================================================
