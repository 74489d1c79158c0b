------------------------ MODULE EmailDelivery_proofs ------------------------
(***************************************************************************)
(* Theorems about EmailPipeline, for every set of emails and requests,     *)
(* every bound on stalled jobs and every set of faults; and after them     *)
(* about EmailDelivery, which adds the handlers of SES's notifications,    *)
(* about SesHook by itself, whose counters it leaves out, and BulkSend.    *)
(***************************************************************************)
EXTENDS EmailDelivery, MCSesHook, FiniteSetTheorems, WellFoundedInduction, TLAPS

(***************************************************************************)
(* The inductive part of TypeOK: a job can only be requeued while it has   *)
(* stalled at most MaxStalled times, and it has not stalled at all before  *)
(* the request adds it.                                                    *)
(***************************************************************************)
Live(e) == job[e] \in {"delayed", "waiting", "active"}

Early(e) == api[e] \in {"idle", "created", "bulkCreated"}

StallsBounded ==
  \A e \in Emails :
    /\ Live(e) => stalls[e] <= MaxStalled
    /\ Early(e) => job[e] = "none" /\ stalls[e] = 0

TypeInv == TypeOK /\ StallsBounded

USE EmailsAssumption, MaxStalledAssumption, FaultsAssumption, TimesAssumption

LEMMA EventTyped ==
  ASSUME StoreTypeOK, NEW e \in Emails, NEW s \in EmailStatuses, AddEvent(e, s)
  PROVE  events' \in [Emails -> [EmailStatuses -> Nat]]
  BY SMT DEF StoreTypeOK, AddEvent

LEMMA RunTyped ==
  ASSUME PipeTypeOK, NEW e \in Emails, NEW i \in Runs, NEW s \in RunStates,
         SetRun(e, i, s)
  PROVE  run' \in [Emails -> [Runs -> RunStates]]
  BY SMT DEF PipeTypeOK, SetRun

LEMMA ReqTyped ==
  ASSUME PipeTypeOK, NEW r \in Requests, NEW s \in ReqStates, SetReq(r, s)
  PROVE  /\ req' \in [Requests -> [pc : ReqStates, op : ReqOps, email : Emails,
                                   at : Times \cup {0}]]
         /\ req[r].email \in Emails /\ req[r].at \in Times \cup {0}
<1> DEFINE R == [pc : ReqStates, op : ReqOps, email : Emails, at : Times \cup {0}]
<1>1. req \in [Requests -> R] /\ req[r] \in R
  BY DEF PipeTypeOK
<1>2. [req[r] EXCEPT !.pc = s] \in R
  BY <1>1
<1>3. req' = [req EXCEPT ![r] = [req[r] EXCEPT !.pc = s]]
  BY DEF SetReq
<1>4. req' \in [Requests -> R]
  BY <1>1, <1>2, <1>3, Zenon
<1> QED
  BY <1>1, <1>4

LEMMA StatusNames ==
  EmailStatuses = { "SCHEDULED", "CANCELLED", "RENDERING_FAILURE", "QUEUED", "SENT",
                    "REJECTED", "DELIVERY_DELAYED", "DELIVERED", "BOUNCED", "OPENED",
                    "CLICKED", "COMPLAINED", "FAILED", "SUPPRESSED" }
  BY DEF EmailStatuses, StatusRank

LEMMA TypeInvInit == Init => TypeInv
  BY SMT DEF Init, StoreInit, PipeInit, TypeInv, TypeOK, StoreTypeOK, PipeTypeOK,
     StallsBounded, Live, Early, ApiStates, JobStates, RunStates, ReqStates, ReqOps,
     NewRequest, EmailStatuses, Runs

LEMMA TypeInvApi == TypeInv /\ ApiNext => TypeInv'
<1> SUFFICES ASSUME TypeInv, ApiNext PROVE TypeInv'
  OBVIOUS
<1> USE StatusNames DEF TypeInv, TypeOK, StoreTypeOK, PipeTypeOK, StallsBounded, Live, Early,
        ApiStates, JobStates, SetApi, SetStatus, AddEvent, storeVars, BulkBatch,
        FaultKinds, Suffer, AddJobs
<1>1. ASSUME NEW e \in Emails, NEW at \in Times \cup {0},
             NEW pc \in {"created", "bulkCreated"}, CreateRow(e, at, pc)
      PROVE  TypeInv'
  BY <1>1, SMT DEF CreateRow
<1>2. ASSUME NEW e \in Emails, SendSuppressed(e) PROVE TypeInv'
  BY <1>2, SMT DEF SendSuppressed
<1>3. ASSUME NEW e \in Emails, SuppressedEvent(e) PROVE TypeInv'
  BY <1>3, SMT DEF SuppressedEvent
<1>4. ASSUME NEW e \in Emails, QueueEmail(e) PROVE TypeInv'
  BY <1>4, SMT DEF QueueEmail
<1>5. ASSUME NEW e \in Emails, QueueEmailThrows(e) PROVE TypeInv'
  <2>1. CASE UNCHANGED << suffered, job >>
    BY <1>5, <2>1, SMT DEF QueueEmailThrows
  <2>2. CASE Suffer(e, "redis") /\ AddJobs({e})
    BY <1>5, <2>2, SMT DEF QueueEmailThrows
  <2> QED
    BY <1>5, <2>1, <2>2 DEF QueueEmailThrows
<1>6. ASSUME NEW e \in Emails, QueueFailedEvent(e) PROVE TypeInv'
  BY <1>6, SMT DEF QueueFailedEvent
<1>7. ASSUME NEW e \in Emails, QueueFailedStatus(e) PROVE TypeInv'
  BY <1>7, SMT DEF QueueFailedStatus
<1>8. ASSUME NEW Lost \in SUBSET Emails, Lost \subseteq BulkBatch, QueueBulk(Lost) PROVE TypeInv'
  BY <1>8, SMT DEF QueueBulk
<1>9. ASSUME QueueBulkThrows PROVE TypeInv'
  BY <1>9, SMT DEF QueueBulkThrows
<1>10. ASSUME NEW S \in SUBSET Emails, ApiCrash(S) PROVE TypeInv'
  BY <1>10, SMT DEF ApiCrash
<1> QED
  BY <1>1, <1>2, <1>3, <1>4, <1>5, <1>6, <1>7, <1>8, <1>9, <1>10, ZenonT(60)
     DEF ApiNext, ApiProgress, SendEmail, SendBulkEmail

LEMMA TypeInvWorker == TypeInv /\ WorkerNext => TypeInv'
<1> SUFFICES ASSUME TypeInv, NEW e \in Emails, WorkerProgress(e) \/ Stall(e)
             PROVE  TypeInv'
  BY DEF WorkerNext
<1>1. ASSUME Promote(e) PROVE TypeInv'
  BY <1>1, SMT DEF Promote, TypeInv, TypeOK, StoreTypeOK, PipeTypeOK, StallsBounded,
     Live, Early, JobStates, SetJob, storeVars
<1>2. ASSUME StartRun(e) PROVE TypeInv'
  <2>1. Owner(e) \in Runs
    BY <1>2, SMT DEF StartRun, Owner, Runs, TypeInv, TypeOK, PipeTypeOK, StallsBounded, Live
  <2>2. run' \in [Emails -> [Runs -> RunStates]]
    BY <1>2, <2>1, RunTyped DEF StartRun, RunStates, TypeInv, TypeOK
  <2>3. StoreTypeOK'
    BY <1>2 DEF StartRun, storeVars, TypeInv, TypeOK, StoreTypeOK
  <2>4. PipeTypeOK'
    <3>1. job' \in [Emails -> JobStates]
      BY <1>2, SMT DEF StartRun, SetJob, JobStates, TypeInv, TypeOK, PipeTypeOK
    <3> QED
      BY <1>2, <2>2, <3>1 DEF StartRun, TypeInv, TypeOK, PipeTypeOK
  <2>5. StallsBounded'
    BY <1>2, SMT DEF StartRun, SetJob, TypeInv, TypeOK, PipeTypeOK, StallsBounded, Live, Early
  <2> QED
    BY <2>3, <2>4, <2>5 DEF TypeInv, TypeOK
<1>3. ASSUME Stall(e) PROVE TypeInv'
  <2>1. Owner(e) \in Runs /\ stalls[e] <= MaxStalled /\ stalls[e] \in Nat
    BY <1>3, SMT DEF Stall, Owner, Runs, TypeInv, TypeOK, PipeTypeOK, StallsBounded, Live
  <2>2. run' \in [Emails -> [Runs -> RunStates]]
    BY <1>3, <2>1, RunTyped DEF Stall, RunStates, TypeInv, TypeOK, PipeTypeOK
  <2>3. stalls' \in [Emails -> 0 .. (MaxStalled + 1)] /\ job' \in [Emails -> JobStates]
    BY <1>3, <2>1, SMT DEF Stall, SetJob, JobStates, TypeInv, TypeOK, PipeTypeOK
  <2>4. StallsBounded'
    BY <1>3, <2>1, SMT DEF Stall, SetJob, TypeInv, TypeOK, PipeTypeOK, StallsBounded, Live, Early
  <2>5. StoreTypeOK'
    BY <1>3, SMT DEF Stall, Suffer, FaultKinds, TypeInv, TypeOK, StoreTypeOK
  <2> QED
    BY <1>3, <2>2, <2>3, <2>4, <2>5 DEF Stall, TypeInv, TypeOK, PipeTypeOK
<1>4. ASSUME NEW i \in Runs, NoConfigurationSet(e, i) PROVE TypeInv'
  <2>1. run' \in [Emails -> [Runs -> RunStates]]
    BY <1>4, RunTyped DEF NoConfigurationSet, RunStates, TypeInv, TypeOK
  <2>2. StoreTypeOK'
    BY <1>4, StatusNames, SMT DEF NoConfigurationSet, Suffer, FaultKinds, TypeInv, TypeOK, StoreTypeOK
  <2>3. PipeTypeOK'
    BY <1>4, <2>1 DEF NoConfigurationSet, TypeInv, TypeOK, PipeTypeOK
  <2>4. StallsBounded'
    BY <1>4 DEF NoConfigurationSet, TypeInv, TypeOK, PipeTypeOK, StallsBounded, Live, Early
  <2> QED
    BY <2>2, <2>3, <2>4 DEF TypeInv, TypeOK
<1>5. ASSUME NEW i \in Runs, LoadThrows(e, i) PROVE TypeInv'
  <2>1. run' \in [Emails -> [Runs -> RunStates]]
    BY <1>5, RunTyped DEF LoadThrows, RunStates, TypeInv, TypeOK
  <2>2. StoreTypeOK'
    BY <1>5, StatusNames, SMT DEF LoadThrows, Suffer, FaultKinds, TypeInv, TypeOK, StoreTypeOK
  <2>3. PipeTypeOK'
    BY <1>5, <2>1 DEF LoadThrows, TypeInv, TypeOK, PipeTypeOK
  <2>4. StallsBounded'
    BY <1>5 DEF LoadThrows, TypeInv, TypeOK, PipeTypeOK, StallsBounded, Live, Early
  <2> QED
    BY <2>2, <2>3, <2>4 DEF TypeInv, TypeOK
<1>6. ASSUME NEW i \in Runs, CheckLimit(e, i) PROVE TypeInv'
  <2>1. run' \in [Emails -> [Runs -> RunStates]]
    BY <1>6, RunTyped DEF CheckLimit, RunStates, TypeInv, TypeOK
  <2>2. StoreTypeOK'
    BY <1>6 DEF CheckLimit, storeVars, TypeInv, TypeOK, StoreTypeOK
  <2>3. PipeTypeOK'
    BY <1>6, <2>1 DEF CheckLimit, TypeInv, TypeOK, PipeTypeOK
  <2>4. StallsBounded'
    BY <1>6 DEF CheckLimit, TypeInv, TypeOK, PipeTypeOK, StallsBounded, Live, Early
  <2> QED
    BY <2>2, <2>3, <2>4 DEF TypeInv, TypeOK
<1>7. ASSUME NEW i \in Runs, FailedEvent(e, i) PROVE TypeInv'
  <2>1. run' \in [Emails -> [Runs -> RunStates]]
    BY <1>7, RunTyped DEF FailedEvent, RunStates, TypeInv, TypeOK
  <2>2. StoreTypeOK'
    BY <1>7, EventTyped, StatusNames DEF FailedEvent, TypeInv, TypeOK, StoreTypeOK
  <2>3. PipeTypeOK'
    BY <1>7, <2>1 DEF FailedEvent, TypeInv, TypeOK, PipeTypeOK
  <2>4. StallsBounded'
    BY <1>7 DEF FailedEvent, TypeInv, TypeOK, PipeTypeOK, StallsBounded, Live, Early
  <2> QED
    BY <2>2, <2>3, <2>4 DEF TypeInv, TypeOK
<1>8. ASSUME NEW i \in Runs, FailedStatus(e, i) PROVE TypeInv'
  <2>1. run' \in [Emails -> [Runs -> RunStates]]
    BY <1>8, RunTyped DEF FailedStatus, RunStates, TypeInv, TypeOK
  <2>2. StoreTypeOK'
    BY <1>8, StatusNames, SMT DEF FailedStatus, SetStatus, TypeInv, TypeOK, StoreTypeOK
  <2>3. PipeTypeOK'
    BY <1>8, <2>1 DEF FailedStatus, TypeInv, TypeOK, PipeTypeOK
  <2>4. StallsBounded'
    BY <1>8 DEF FailedStatus, TypeInv, TypeOK, PipeTypeOK, StallsBounded, Live, Early
  <2> QED
    BY <2>2, <2>3, <2>4 DEF TypeInv, TypeOK
<1>9. ASSUME NEW i \in Runs, SesAccepts(e, i) PROVE TypeInv'
  <2>1. run' \in [Emails -> [Runs -> RunStates]]
    BY <1>9, RunTyped DEF SesAccepts, RunStates, TypeInv, TypeOK
  <2>2. StoreTypeOK'
    BY <1>9, StatusNames, SMT DEF SesAccepts, Runs, TypeInv, TypeOK, StoreTypeOK
  <2>3. PipeTypeOK'
    BY <1>9, <2>1 DEF SesAccepts, TypeInv, TypeOK, PipeTypeOK
  <2>4. StallsBounded'
    BY <1>9 DEF SesAccepts, TypeInv, TypeOK, PipeTypeOK, StallsBounded, Live, Early
  <2> QED
    BY <2>2, <2>3, <2>4 DEF TypeInv, TypeOK
<1>10. ASSUME NEW i \in Runs, SesThrows(e, i) PROVE TypeInv'
  <2>1. run' \in [Emails -> [Runs -> RunStates]]
    BY <1>10, RunTyped DEF SesThrows, RunStates, TypeInv, TypeOK
  <2>2. StoreTypeOK'
    <3>1. accepted' \in [Emails -> SUBSET Runs]
      BY <1>10, SMT DEF SesThrows, TypeInv, TypeOK, StoreTypeOK
    <3>2. suffered' \in [Emails -> SUBSET FaultKinds]
      BY <1>10, SMT DEF SesThrows, Suffer, FaultKinds, TypeInv, TypeOK, StoreTypeOK
    <3> QED
      BY <1>10, <3>1, <3>2 DEF SesThrows, TypeInv, TypeOK, StoreTypeOK
  <2>3. PipeTypeOK'
    BY <1>10, <2>1 DEF SesThrows, TypeInv, TypeOK, PipeTypeOK
  <2>4. StallsBounded'
    BY <1>10 DEF SesThrows, TypeInv, TypeOK, PipeTypeOK, StallsBounded, Live, Early
  <2> QED
    BY <2>2, <2>3, <2>4 DEF TypeInv, TypeOK
<1>11. ASSUME NEW i \in Runs, RecordSesId(e, i) PROVE TypeInv'
  <2>1. run' \in [Emails -> [Runs -> RunStates]]
    BY <1>11, RunTyped DEF RecordSesId, RunStates, TypeInv, TypeOK
  <2>2. StoreTypeOK'
    BY <1>11, StatusNames, SMT DEF RecordSesId, Runs, TypeInv, TypeOK, StoreTypeOK
  <2>3. PipeTypeOK'
    BY <1>11, <2>1 DEF RecordSesId, TypeInv, TypeOK, PipeTypeOK
  <2>4. StallsBounded'
    BY <1>11 DEF RecordSesId, TypeInv, TypeOK, PipeTypeOK, StallsBounded, Live, Early
  <2> QED
    BY <2>2, <2>3, <2>4 DEF TypeInv, TypeOK
<1>12. ASSUME NEW i \in Runs, WriteFails(e, i) PROVE TypeInv'
  <2>1. run' \in [Emails -> [Runs -> RunStates]]
    BY <1>12, RunTyped DEF WriteFails, RunStates, TypeInv, TypeOK
  <2>2. StoreTypeOK'
    BY <1>12, StatusNames, SMT DEF WriteFails, Suffer, FaultKinds, TypeInv, TypeOK, StoreTypeOK
  <2>3. PipeTypeOK'
    BY <1>12, <2>1 DEF WriteFails, TypeInv, TypeOK, PipeTypeOK
  <2>4. StallsBounded'
    BY <1>12 DEF WriteFails, TypeInv, TypeOK, PipeTypeOK, StallsBounded, Live, Early
  <2> QED
    BY <2>2, <2>3, <2>4 DEF TypeInv, TypeOK
<1>13. ASSUME NEW i \in Runs, FinishRun(e, i) PROVE TypeInv'
  <2>1. run' \in [Emails -> [Runs -> RunStates]]
    BY <1>13, RunTyped DEF FinishRun, RunStates, TypeInv, TypeOK
  <2>2. StoreTypeOK'
    BY <1>13 DEF FinishRun, storeVars, TypeInv, TypeOK, StoreTypeOK
  <2>3. PipeTypeOK'
    <3>1. job' \in [Emails -> JobStates]
      BY <1>13, SMT DEF FinishRun, SetJob, JobStates, TypeInv, TypeOK, PipeTypeOK
    <3> QED
      BY <1>13, <2>1, <3>1 DEF FinishRun, TypeInv, TypeOK, PipeTypeOK
  <2>4. StallsBounded'
    BY <1>13, SMT DEF FinishRun, SetJob, TypeInv, TypeOK, PipeTypeOK, StallsBounded, Live, Early
  <2> QED
    BY <2>2, <2>3, <2>4 DEF TypeInv, TypeOK
<1> QED
  BY <1>1, <1>2, <1>3, <1>4, <1>5, <1>6, <1>7, <1>8, <1>9, <1>10, <1>11, <1>12,
     <1>13 DEF WorkerProgress, RunStep

LEMMA TypeInvRequest == TypeInv /\ RequestNext => TypeInv'
<1> SUFFICES ASSUME TypeInv, NEW r \in Requests,
                    BeginRequest(r) \/ RequestProgress(r) \/ RequestCrash(r)
             PROVE  TypeInv'
  BY DEF RequestNext
<1>1. ASSUME BeginRequest(r) PROVE TypeInv'
  BY <1>1, SMT DEF BeginRequest, reqOnly, ReqStates, ReqOps, TypeInv, TypeOK,
     StoreTypeOK, PipeTypeOK, StallsBounded, Live, Early, storeVars
<1>2. ASSUME RemoveJob(r) PROVE TypeInv'
  <2>1. /\ req' \in [Requests -> [pc : ReqStates, op : ReqOps, email : Emails,
                                   at : Times \cup {0}]]
        /\ req[r].email \in Emails /\ req[r].at \in Times \cup {0}
    BY <1>2, ReqTyped DEF RemoveJob, ReqStates, TypeInv, TypeOK
  <2>2. StoreTypeOK'
    BY <1>2 DEF RemoveJob, storeVars, TypeInv, TypeOK, StoreTypeOK
  <2>3. PipeTypeOK'
    BY <1>2, <2>1, SMTT(30) DEF RemoveJob, SetJob, JobStates, TypeInv, TypeOK, PipeTypeOK
  <2>4. StallsBounded'
    BY <1>2, SMT DEF RemoveJob, SetJob, TypeInv, TypeOK, PipeTypeOK, StallsBounded, Live, Early
  <2> QED
    BY <2>2, <2>3, <2>4 DEF TypeInv, TypeOK
<1>3. ASSUME CancelStatus(r) PROVE TypeInv'
  <2>1. /\ req' \in [Requests -> [pc : ReqStates, op : ReqOps, email : Emails,
                                   at : Times \cup {0}]]
        /\ req[r].email \in Emails /\ req[r].at \in Times \cup {0}
    BY <1>3, ReqTyped DEF CancelStatus, ReqStates, TypeInv, TypeOK
  <2>2. StoreTypeOK'
    BY <1>3, <2>1, StatusNames, SMT DEF CancelStatus, SetStatus, TypeInv, TypeOK, StoreTypeOK
  <2>3. PipeTypeOK'
    BY <1>3, <2>1 DEF CancelStatus, TypeInv, TypeOK, PipeTypeOK
  <2>4. StallsBounded'
    BY <1>3 DEF CancelStatus, TypeInv, TypeOK, PipeTypeOK, StallsBounded, Live, Early
  <2> QED
    BY <2>2, <2>3, <2>4 DEF TypeInv, TypeOK
<1>4. ASSUME CancelEvent(r) PROVE TypeInv'
  <2>1. /\ req' \in [Requests -> [pc : ReqStates, op : ReqOps, email : Emails,
                                   at : Times \cup {0}]]
        /\ req[r].email \in Emails /\ req[r].at \in Times \cup {0}
    BY <1>4, ReqTyped DEF CancelEvent, ReqStates, TypeInv, TypeOK
  <2>2. StoreTypeOK'
    BY <1>4, <2>1, EventTyped, StatusNames DEF CancelEvent, TypeInv, TypeOK, StoreTypeOK
  <2>3. PipeTypeOK'
    BY <1>4, <2>1 DEF CancelEvent, TypeInv, TypeOK, PipeTypeOK
  <2>4. StallsBounded'
    BY <1>4 DEF CancelEvent, TypeInv, TypeOK, PipeTypeOK, StallsBounded, Live, Early
  <2> QED
    BY <2>2, <2>3, <2>4 DEF TypeInv, TypeOK
<1>5. ASSUME UpdateRow(r) PROVE TypeInv'
  <2>1. /\ req' \in [Requests -> [pc : ReqStates, op : ReqOps, email : Emails,
                                   at : Times \cup {0}]]
        /\ req[r].email \in Emails /\ req[r].at \in Times \cup {0}
    BY <1>5, ReqTyped DEF UpdateRow, ReqStates, TypeInv, TypeOK
  <2>2. StoreTypeOK'
    BY <1>5 DEF UpdateRow, storeVars, TypeInv, TypeOK, StoreTypeOK
  <2>3. PipeTypeOK'
    BY <1>5, <2>1, SMT DEF UpdateRow, TypeInv, TypeOK, PipeTypeOK
  <2>4. StallsBounded'
    BY <1>5, SMT DEF UpdateRow, TypeInv, TypeOK, PipeTypeOK, StallsBounded, Live, Early
  <2> QED
    BY <2>2, <2>3, <2>4 DEF TypeInv, TypeOK
<1>6. ASSUME ChangeDelay(r) PROVE TypeInv'
  <2>1. /\ req' \in [Requests -> [pc : ReqStates, op : ReqOps, email : Emails,
                                   at : Times \cup {0}]]
        /\ req[r].email \in Emails /\ req[r].at \in Times \cup {0}
    BY <1>6, ReqTyped DEF ChangeDelay, ReqStates, TypeInv, TypeOK
  <2>2. StoreTypeOK'
    BY <1>6 DEF ChangeDelay, storeVars, TypeInv, TypeOK, StoreTypeOK
  <2>3. PipeTypeOK'
    <3>1. CASE jobDue' = [jobDue EXCEPT ![req[r].email] = req[r].at]
      BY <1>6, <2>1, <3>1, SMT DEF ChangeDelay, TypeInv, TypeOK, PipeTypeOK
    <3>2. CASE jobDue' = jobDue
      BY <1>6, <2>1, <3>2, SMT DEF ChangeDelay, TypeInv, TypeOK, PipeTypeOK
    <3> QED
      BY <1>6, <3>1, <3>2 DEF ChangeDelay
  <2>4. StallsBounded'
    BY <1>6, SMT DEF ChangeDelay, TypeInv, TypeOK, PipeTypeOK, StallsBounded, Live, Early
  <2> QED
    BY <2>2, <2>3, <2>4 DEF TypeInv, TypeOK
<1>7. ASSUME RequestCrash(r) PROVE TypeInv'
  <2>1. /\ req' \in [Requests -> [pc : ReqStates, op : ReqOps, email : Emails,
                                   at : Times \cup {0}]]
        /\ req[r].email \in Emails /\ req[r].at \in Times \cup {0}
    BY <1>7, ReqTyped DEF RequestCrash, ReqStates, TypeInv, TypeOK
  <2>2. StoreTypeOK'
    BY <1>7, <2>1, StatusNames, SMT DEF RequestCrash, Suffer, FaultKinds, TypeInv, TypeOK, StoreTypeOK
  <2>3. PipeTypeOK'
    BY <1>7, <2>1 DEF RequestCrash, TypeInv, TypeOK, PipeTypeOK
  <2>4. StallsBounded'
    BY <1>7 DEF RequestCrash, TypeInv, TypeOK, PipeTypeOK, StallsBounded, Live, Early
  <2> QED
    BY <2>2, <2>3, <2>4 DEF TypeInv, TypeOK
<1> QED
  BY <1>1, <1>2, <1>3, <1>4, <1>5, <1>6, <1>7 DEF RequestProgress

LEMMA TypeInvStutter == TypeInv /\ UNCHANGED vars => TypeInv'
  BY SMT DEF TypeInv, TypeOK, StoreTypeOK, PipeTypeOK, StallsBounded, Live, Early,
     vars, storeVars, pipeVars

LEMMA TypeInvStep == TypeInv /\ [Next]_vars => TypeInv'
  BY TypeInvApi, TypeInvWorker, TypeInvRequest, TypeInvStutter DEF Next

(***************************************************************************)
(* Every reachable state is well typed; in particular a job is never run   *)
(* more often than BullMQ's limit on stalled jobs allows, so that every    *)
(* message SES accepts belongs to one of MaxStalled + 1 runs.              *)
(***************************************************************************)
THEOREM TypeCorrect == Spec => []TypeOK
<1>1. Spec => []TypeInv
  BY TypeInvInit, TypeInvStep, PTL DEF Spec
<1>2. TypeInv => TypeOK
  BY DEF TypeInv
<1> QED
  BY <1>1, <1>2, PTL

-----------------------------------------------------------------------------
(***************************************************************************)
(* Runs and acceptances.  Only the runs up to the one that owns the job    *)
(* have begun, only a run that has begun can have been accepted, and the   *)
(* owner is past run 1 only after a stall.                                 *)
(***************************************************************************)
RunsInv ==
  \A e \in Emails :
    /\ stalls[e] > 0 => "stall" \in suffered[e]
    /\ \A i \in Runs : i > Owner(e) => run[e][i] = "idle"
    /\ \A i \in accepted[e] : run[e][i] # "idle"

\* What the actions that run nothing leave of the state RunsInv is about.
LEMMA RunsInvFrame ==
  ASSUME RunsInv, UNCHANGED << run, accepted, stalls >>,
         \A e \in Emails : suffered[e] \subseteq suffered'[e]
  PROVE  RunsInv'
  BY DEF RunsInv, Owner

LEMMA RunsInvApi == TypeInv /\ RunsInv /\ ApiNext => RunsInv'
<1> SUFFICES ASSUME TypeInv, RunsInv, ApiNext PROVE RunsInv'
  OBVIOUS
<1>1. UNCHANGED << run, accepted, stalls >>
  BY DEF ApiNext, ApiProgress, SendEmail, SendBulkEmail, CreateRow, SendSuppressed,
     SuppressedEvent, QueueEmail, QueueEmailThrows, QueueBulk, QueueBulkThrows,
     QueueFailedEvent, QueueFailedStatus, ApiCrash, storeVars
<1>2. \A e \in Emails : suffered[e] \subseteq suffered'[e]
  <2>1. ASSUME NEW Lost \in SUBSET Emails, QueueBulk(Lost)
        PROVE  \A e \in Emails : suffered[e] \subseteq suffered'[e]
    BY <2>1 DEF QueueBulk
  <2>2. ASSUME NEW S \in SUBSET Emails, ApiCrash(S)
        PROVE  \A e \in Emails : suffered[e] \subseteq suffered'[e]
    BY <2>2 DEF ApiCrash
  <2>3. ASSUME NEW e \in Emails, QueueEmailThrows(e)
        PROVE  \A f \in Emails : suffered[f] \subseteq suffered'[f]
    BY <2>3 DEF QueueEmailThrows, Suffer, TypeInv, TypeOK, StoreTypeOK
  <2>4. CASE UNCHANGED suffered
    BY <2>4
  <2> QED
    BY <2>1, <2>2, <2>3, <2>4
       DEF ApiNext, ApiProgress, SendEmail, SendBulkEmail, CreateRow, SendSuppressed,
       SuppressedEvent, QueueEmail, QueueBulkThrows, QueueFailedEvent,
       QueueFailedStatus, storeVars, BulkBatch
<1> QED
  BY <1>1, <1>2, RunsInvFrame

LEMMA RunsInvRequest == TypeInv /\ RunsInv /\ RequestNext => RunsInv'
<1> SUFFICES ASSUME TypeInv, RunsInv, RequestNext PROVE RunsInv'
  OBVIOUS
<1>1. UNCHANGED << run, accepted, stalls >>
  BY DEF RequestNext, RequestProgress, BeginRequest, RemoveJob, CancelStatus,
     CancelEvent, UpdateRow, ChangeDelay, RequestCrash, reqOnly, storeVars
<1>2. \A e \in Emails : suffered[e] \subseteq suffered'[e]
  BY DEF RequestNext, RequestProgress, BeginRequest, RemoveJob, CancelStatus,
     CancelEvent, UpdateRow, ChangeDelay, RequestCrash, reqOnly, storeVars, Suffer,
     TypeInv, TypeOK, StoreTypeOK
<1> QED
  BY <1>1, <1>2, RunsInvFrame

\* A step of run i of e: it had begun, and SES may have accepted its message.
LEMMA RunsInvRun ==
  ASSUME TypeInv, RunsInv, NEW e \in Emails, NEW i \in Runs, RunStep(e, i)
  PROVE  RunsInv'
<1>1. run[e][i] # "idle" /\ UNCHANGED stalls
  BY DEF RunStep, NoConfigurationSet, LoadThrows, CheckLimit, FailedEvent, FailedStatus,
     SesAccepts, SesThrows, RecordSesId, WriteFails, FinishRun
<1>2. PICK s \in RunStates \ {"idle"} : SetRun(e, i, s)
  BY DEF RunStep, NoConfigurationSet, LoadThrows, CheckLimit, FailedEvent, FailedStatus,
     SesAccepts, SesThrows, RecordSesId, WriteFails, FinishRun, RunStates
<1>3. accepted' = accepted \/ accepted' = [accepted EXCEPT ![e] = @ \cup {i}]
  BY DEF RunStep, NoConfigurationSet, LoadThrows, CheckLimit, FailedEvent, FailedStatus,
     SesAccepts, SesThrows, RecordSesId, WriteFails, FinishRun, storeVars
<1>4. \A f \in Emails : suffered[f] \subseteq suffered'[f]
  BY DEF RunStep, NoConfigurationSet, LoadThrows, CheckLimit, FailedEvent, FailedStatus,
     SesAccepts, SesThrows, RecordSesId, WriteFails, FinishRun, storeVars, Suffer,
     TypeInv, TypeOK, StoreTypeOK
<1>5. run' = [run EXCEPT ![e][i] = s] /\ run \in [Emails -> [Runs -> RunStates]]
  BY <1>2 DEF SetRun, TypeInv, TypeOK, PipeTypeOK
<1>6. accepted \in [Emails -> SUBSET Runs]
  BY DEF TypeInv, TypeOK, StoreTypeOK
<1>7. ASSUME NEW f \in Emails, NEW j \in Runs, j > Owner(f)' PROVE run'[f][j] = "idle"
  BY <1>1, <1>5, <1>7, SMT DEF RunsInv, Owner
<1>8. ASSUME NEW f \in Emails, NEW j \in accepted'[f] PROVE run'[f][j] # "idle"
  <2>1. j \in accepted[f] \/ (f = e /\ j = i)
    BY <1>3, <1>6, <1>8
  <2>2. j \in Runs
    BY <1>6, <2>1
  <2>3. run[f][j] # "idle" \/ (f = e /\ j = i)
    BY <2>1 DEF RunsInv
  <2> QED
    BY <1>5, <2>2, <2>3
<1> QED
  BY <1>1, <1>4, <1>7, <1>8 DEF RunsInv

LEMMA RunsInvWorker == TypeInv /\ RunsInv /\ WorkerNext => RunsInv'
<1> SUFFICES ASSUME TypeInv, RunsInv, NEW e \in Emails, WorkerProgress(e) \/ Stall(e)
             PROVE  RunsInv'
  BY DEF WorkerNext
<1>1. CASE Promote(e)
  BY <1>1, RunsInvFrame DEF Promote, storeVars
<1>2. CASE StartRun(e)
  <2>1. Owner(e) \in Runs /\ stalls \in [Emails -> Nat]
    BY <1>2, SMT DEF StartRun, Owner, Runs, TypeInv, TypeOK, PipeTypeOK, StallsBounded, Live
  <2>2. run' = [run EXCEPT ![e][Owner(e)] = "loaded"] /\ UNCHANGED << stalls, accepted, suffered >>
    BY <1>2 DEF StartRun, SetRun, storeVars
  <2> QED
    BY <2>1, <2>2, SMT DEF RunsInv, Owner, TypeInv, TypeOK, PipeTypeOK, StoreTypeOK
<1>3. CASE Stall(e)
  <2>1. Owner(e) \in Runs /\ stalls \in [Emails -> Nat]
    BY <1>3, SMT DEF Stall, Owner, Runs, TypeInv, TypeOK, PipeTypeOK, StallsBounded, Live
  <2>2. /\ stalls' = [stalls EXCEPT ![e] = @ + 1]
        /\ UNCHANGED accepted
        /\ suffered' = [suffered EXCEPT ![e] = @ \cup {"stall"}]
        /\ run' = [run EXCEPT ![e][Owner(e)] = "dead"] \/ UNCHANGED run
    BY <1>3 DEF Stall, SetRun, Suffer
  <2>3. run \in [Emails -> [Runs -> RunStates]] /\ accepted \in [Emails -> SUBSET Runs]
    BY DEF TypeInv, TypeOK, PipeTypeOK, StoreTypeOK
  <2>4. ASSUME NEW f \in Emails, stalls'[f] > 0 PROVE "stall" \in suffered'[f]
    BY <2>1, <2>2, <2>4, SMT DEF RunsInv, TypeInv, TypeOK, StoreTypeOK
  <2>5. ASSUME NEW f \in Emails, NEW i \in Runs, i > Owner(f)' PROVE run'[f][i] = "idle"
    <3>1. stalls[f] \in Nat /\ stalls'[f] = IF f = e THEN stalls[f] + 1 ELSE stalls[f]
      BY <2>1, <2>2, SMT
    <3>2. i > stalls[f] + 1 /\ (f = e => i # stalls[e] + 1)
      BY <2>5, <3>1, SMT DEF Owner, Runs
    <3>3. run[f][i] = "idle" /\ (f = e => i # Owner(e))
      BY <3>2 DEF RunsInv, Owner
    <3>4. CASE UNCHANGED run
      BY <3>3, <3>4
    <3>5. CASE run' = [run EXCEPT ![e][Owner(e)] = "dead"]
      BY <2>1, <2>3, <3>3, <3>5, SMT
    <3> QED
      BY <2>2, <3>4, <3>5
  <2>6. ASSUME NEW f \in Emails, NEW i \in accepted'[f] PROVE run'[f][i] # "idle"
    <3>1. i \in Runs /\ run[f][i] # "idle"
      BY <2>2, <2>3, <2>6 DEF RunsInv
    <3>2. CASE UNCHANGED run
      BY <3>1, <3>2
    <3>3. CASE run' = [run EXCEPT ![e][Owner(e)] = "dead"]
      BY <2>1, <2>3, <3>1, <3>3, SMT
    <3> QED
      BY <2>2, <3>2, <3>3
  <2> QED
    BY <2>4, <2>5, <2>6 DEF RunsInv
<1>4. ASSUME NEW i \in Runs, RunStep(e, i) PROVE RunsInv'
  BY <1>4, RunsInvRun
<1> QED
  BY <1>1, <1>2, <1>3, <1>4 DEF WorkerProgress

LEMMA RunsInvStep == TypeInv /\ RunsInv /\ [Next]_vars => RunsInv'
<1> SUFFICES ASSUME TypeInv, RunsInv, [Next]_vars PROVE RunsInv'
  OBVIOUS
<1>1. CASE UNCHANGED vars
  BY <1>1, RunsInvFrame DEF vars, storeVars, pipeVars
<1> QED
  BY <1>1, RunsInvApi, RunsInvWorker, RunsInvRequest DEF Next

LEMMA RunsInvInit == Init => RunsInv
  BY SMT DEF Init, StoreInit, PipeInit, RunsInv, Owner

LEMMA NoDuplicateIn == TypeInv /\ RunsInv => NoDuplicateSend
<1> SUFFICES ASSUME TypeInv, RunsInv, NEW e \in Emails,
                    NEW i \in accepted[e], NEW j \in accepted[e], i # j
             PROVE  "stall" \in suffered[e]
  BY DEF NoDuplicateSend, Met
<1>1. i \in Runs /\ j \in Runs /\ stalls[e] \in Nat
  BY SMT DEF TypeInv, TypeOK, StoreTypeOK, PipeTypeOK
<1>2. ~ (i > Owner(e)) /\ ~ (j > Owner(e))
  BY <1>1 DEF RunsInv
<1>3. stalls[e] > 0
  BY <1>1, <1>2, SMT DEF Owner, Runs
<1> QED
  BY <1>3 DEF RunsInv

(***************************************************************************)
(* Two messages for one email take a stall: with a single run there is a   *)
(* single number an accepted message can have.                             *)
(***************************************************************************)
THEOREM NoDuplicateSendHolds == Spec => []NoDuplicateSend
<1>1. Spec => [](TypeInv /\ RunsInv)
  <2>1. Init => TypeInv /\ RunsInv
    BY TypeInvInit, RunsInvInit
  <2>2. TypeInv /\ RunsInv /\ [Next]_vars => (TypeInv /\ RunsInv)'
    BY TypeInvStep, RunsInvStep
  <2> QED
    BY <2>1, <2>2, PTL DEF Spec
<1> QED
  BY <1>1, NoDuplicateIn, PTL

-----------------------------------------------------------------------------
(***************************************************************************)
(* What an email that is withdrawn or failed rests on: whose hands it is   *)
(* in, and that every way out of a run leaves SES without the message or a *)
(* fault behind.                                                           *)
(***************************************************************************)
Free(e, kinds) == \A k \in kinds : k \notin suffered[e]

\* Before its job is added, and where adding it failed, nothing runs.
Unqueued(e) == Early(e) \/ (api[e] \in {"queueFailed", "failEvent"} /\ Free(e, {"redis"}))
UnqueuedIsIdle(e) == Unqueued(e) => job[e] = "none" /\ \A i \in Runs : run[e][i] = "idle"

\* A job that never stalled has at most one run, while it is active.
RunHasJob(e) ==
  Free(e, {"stall"}) =>
    /\ job[e] \in {"delayed", "waiting"} => \A i \in Runs : run[e][i] = "idle"
    /\ \A i \in Runs : run[e][i] \in {"idle", "done"} \/ job[e] = "active"

\* Where a run is tells whether SES can have the message.
RunTells(e) ==
  /\ Free(e, {"stall"}) => \A i \in Runs :
       run[e][i] \in {"loaded", "limited", "limitEvent", "sending"} => accepted[e] = {}
  /\ Free(e, {"stall", "db"}) =>
       /\ \A i \in Runs : run[e][i] = "thrown" => accepted[e] = {}
       /\ job[e] = "failed" => accepted[e] = {}
  /\ Free(e, {"stall", "db", "ses"}) => \A i \in Runs :
       run[e][i] \in {"failing", "failEvent"} => accepted[e] = {}

Asked(e) ==
  \/ status[e] = "CANCELLED" \/ events[e]["CANCELLED"] > 0
  \/ \E r \in Requests : req[r].email = e /\ req[r].pc \in {"removed", "cancelled"}
WithdrawnIsOut(e) ==
  Asked(e) /\ Free(e, {"stall", "db"}) =>
    ~Early(e) /\ job[e] = "none" /\ accepted[e] = {}

FailedIsOut(e) ==
  status[e] = "FAILED" /\ Free(e, {"stall", "db", "ses", "redis"}) =>
    /\ ~Early(e) /\ accepted[e] = {} /\ job[e] \notin {"delayed", "waiting"}
    /\ \A i \in Runs : run[e][i] \in {"idle", "returned", "done"}

UnsentOf(e) ==
  UnqueuedIsIdle(e) /\ RunHasJob(e) /\ RunTells(e) /\ WithdrawnIsOut(e) /\ FailedIsOut(e)
UnsentInv == \A e \in Emails : UnsentOf(e)

\* Without a stall there is one run, and what was not begun was not accepted.
LEMMA OneRun ==
  ASSUME TypeInv, RunsInv, NEW e \in Emails, "stall" \notin suffered[e]
  PROVE  /\ \A i, j \in Runs : run[e][i] # "idle" /\ run[e][j] # "idle" => i = j
         /\ (\A i \in Runs : run[e][i] = "idle") => accepted[e] = {}
<1>1. stalls[e] = 0 /\ accepted[e] \subseteq Runs
  BY DEF TypeInv, TypeOK, StoreTypeOK, PipeTypeOK, RunsInv
<1>2. \A i \in Runs : i # 1 => run[e][i] = "idle"
  BY <1>1 DEF RunsInv, Owner, Runs
<1> QED
  BY <1>1, <1>2 DEF RunsInv

LEMMA UnsentInit == Init => UnsentInv
<1> SUFFICES ASSUME Init, NEW e \in Emails PROVE UnsentOf(e)
  BY DEF UnsentInv
<1>1. /\ status[e] = "absent" /\ events[e]["CANCELLED"] = 0 /\ accepted[e] = {} /\ job[e] = "none"
      /\ \A i \in Runs : run[e][i] = "idle"
      /\ \A r \in Requests : req[r].pc = "new"
  BY StatusNames DEF Init, StoreInit, PipeInit, NewRequest
<1> QED
  BY <1>1 DEF UnsentOf, UnqueuedIsIdle, RunHasJob, RunTells, WithdrawnIsOut, FailedIsOut, Asked

\* What an email's invariant is about; faults only accumulate.
LEMMA UnsentFrame ==
  ASSUME NEW e \in Emails, UnsentInv,
         api'[e] = api[e], job'[e] = job[e], run'[e] = run[e], accepted'[e] = accepted[e],
         suffered[e] \subseteq suffered'[e], status'[e] = status[e] \/ status'[e] = "SUPPRESSED",
         events'[e]["CANCELLED"] = events[e]["CANCELLED"],
         \A r \in Requests : req'[r].pc \in {"removed", "cancelled"} /\ req'[r].email = e
           => req[r].pc \in {"removed", "cancelled"} /\ req[r].email = e
  PROVE  UnsentOf(e)'
  BY DEF UnsentInv, UnsentOf, UnqueuedIsIdle, RunHasJob, RunTells, WithdrawnIsOut, FailedIsOut,
     Free, Asked, Unqueued, Early

LEMMA UnsentApi == TypeInv /\ RunsInv /\ UnsentInv /\ ApiNext => UnsentInv'
<1> SUFFICES ASSUME TypeInv, RunsInv, UnsentInv, ApiNext PROVE UnsentInv'
  OBVIOUS
<1>0. /\ status \in [Emails -> EmailStatuses \cup {"absent"}]
      /\ events \in [Emails -> [EmailStatuses -> Nat]]
      /\ suffered \in [Emails -> SUBSET FaultKinds]
      /\ api \in [Emails -> ApiStates] /\ job \in [Emails -> JobStates]
  BY DEF TypeInv, TypeOK, StoreTypeOK, PipeTypeOK
<1>a. \A e \in Emails : Unqueued(e) => ~Free(e, {"stall"}) \/ accepted[e] = {}
  BY OneRun DEF UnsentInv, UnsentOf, UnqueuedIsIdle, Free
<1> USE DEF UnsentInv, UnsentOf, UnqueuedIsIdle, RunHasJob, RunTells, WithdrawnIsOut, FailedIsOut,
        Free, Asked, Unqueued, Early
<1>1. ASSUME NEW e \in Emails, NEW at \in Times \cup {0},
             NEW pc \in {"created", "bulkCreated"}, CreateRow(e, at, pc) PROVE UnsentInv'
  BY <1>0, <1>a, <1>1, StatusNames DEF CreateRow, SetApi, SetStatus, AddEvent, storeVars, BulkBatch, Suffer, AddJobs
<1>2. ASSUME NEW e \in Emails, SendSuppressed(e) PROVE UnsentInv'
  BY <1>0, <1>a, <1>2, StatusNames DEF SendSuppressed, SetApi, SetStatus, AddEvent, storeVars, BulkBatch, Suffer, AddJobs
<1>3. ASSUME NEW e \in Emails, SuppressedEvent(e) PROVE UnsentInv'
  BY <1>0, <1>a, <1>3, StatusNames DEF SuppressedEvent, SetApi, SetStatus, AddEvent, storeVars, BulkBatch, Suffer, AddJobs
<1>4. ASSUME NEW e \in Emails, QueueEmail(e) PROVE UnsentInv'
  BY <1>0, <1>a, <1>4, StatusNames DEF QueueEmail, SetApi, SetStatus, AddEvent, storeVars, BulkBatch, Suffer, AddJobs
<1>5. ASSUME NEW e \in Emails, QueueEmailThrows(e) PROVE UnsentInv'
  BY <1>0, <1>a, <1>5, StatusNames DEF QueueEmailThrows, SetApi, SetStatus, AddEvent, storeVars, BulkBatch, Suffer, AddJobs
<1>6. ASSUME NEW e \in Emails, QueueFailedEvent(e) PROVE UnsentInv'
  BY <1>0, <1>a, <1>6, StatusNames DEF QueueFailedEvent, SetApi, SetStatus, AddEvent, storeVars, BulkBatch, Suffer, AddJobs
<1>7. ASSUME NEW e \in Emails, QueueFailedStatus(e) PROVE UnsentInv'
  BY <1>0, <1>a, <1>7, StatusNames DEF QueueFailedStatus, SetApi, SetStatus, AddEvent, storeVars, BulkBatch, Suffer, AddJobs
<1>8. ASSUME NEW Lost \in SUBSET Emails, Lost \subseteq BulkBatch, QueueBulk(Lost) PROVE UnsentInv'
  BY <1>0, <1>a, <1>8, StatusNames DEF QueueBulk, SetApi, SetStatus, AddEvent, storeVars, BulkBatch, Suffer, AddJobs
<1>9. ASSUME QueueBulkThrows PROVE UnsentInv'
  BY <1>0, <1>a, <1>9, StatusNames DEF QueueBulkThrows, SetApi, SetStatus, AddEvent, storeVars, BulkBatch, Suffer, AddJobs
<1>10. ASSUME NEW S \in SUBSET Emails, ApiCrash(S) PROVE UnsentInv'
  BY <1>0, <1>a, <1>10, StatusNames DEF ApiCrash, SetApi, SetStatus, AddEvent, storeVars, BulkBatch, Suffer, AddJobs
<1> HIDE DEF UnsentInv
<1>11. ASSUME NEW e \in Emails, ApiCrash({e}) PROVE UnsentInv'
  BY <1>10, <1>11
<1>12. BulkBatch \in SUBSET Emails
  BY DEF BulkBatch
<1> QED
  BY <1>1, <1>2, <1>3, <1>4, <1>5, <1>6, <1>7, <1>8, <1>9, <1>10, <1>11, <1>12
     DEF ApiNext, ApiProgress, SendEmail, SendBulkEmail

\* A worker's step is about one email.
OnlyOf(e) ==
  /\ api' = api /\ req' = req
  /\ \A f \in Emails \ {e} :
       /\ job'[f] = job[f] /\ run'[f] = run[f] /\ accepted'[f] = accepted[f]
       /\ suffered'[f] = suffered[f] /\ status'[f] = status[f] /\ events'[f] = events[f]
  /\ suffered[e] \subseteq suffered'[e] /\ events'[e]["CANCELLED"] = events[e]["CANCELLED"]

LEMMA WorkerOnlyOf ==
  ASSUME TypeInv, NEW e \in Emails, WorkerProgress(e) \/ Stall(e)
  PROVE  OnlyOf(e)
<1>0. /\ status \in [Emails -> EmailStatuses \cup {"absent"}]
      /\ events \in [Emails -> [EmailStatuses -> Nat]]
      /\ accepted \in [Emails -> SUBSET Runs]
      /\ suffered \in [Emails -> SUBSET FaultKinds]
      /\ job \in [Emails -> JobStates] /\ run \in [Emails -> [Runs -> RunStates]]
  BY DEF TypeInv, TypeOK, StoreTypeOK, PipeTypeOK
<1>1. CASE Promote(e)
  BY <1>0, <1>1 DEF Promote, SetJob, storeVars, OnlyOf
<1>2. CASE StartRun(e)
  BY <1>0, <1>2 DEF StartRun, SetJob, SetRun, storeVars, OnlyOf
<1>3. CASE Stall(e)
  BY <1>0, <1>3 DEF Stall, SetJob, SetRun, Suffer, OnlyOf
<1>4. ASSUME NEW i \in Runs, NoConfigurationSet(e, i) PROVE OnlyOf(e)
  BY <1>0, <1>4, StatusNames DEF NoConfigurationSet, SetRun, SetJob, SetStatus, AddEvent, Suffer, storeVars, OnlyOf
<1>5. ASSUME NEW i \in Runs, LoadThrows(e, i) PROVE OnlyOf(e)
  BY <1>0, <1>5, StatusNames DEF LoadThrows, SetRun, SetJob, SetStatus, AddEvent, Suffer, storeVars, OnlyOf
<1>6. ASSUME NEW i \in Runs, CheckLimit(e, i) PROVE OnlyOf(e)
  BY <1>0, <1>6, StatusNames DEF CheckLimit, SetRun, SetJob, SetStatus, AddEvent, Suffer, storeVars, OnlyOf
<1>7. ASSUME NEW i \in Runs, FailedEvent(e, i) PROVE OnlyOf(e)
  BY <1>0, <1>7, StatusNames DEF FailedEvent, SetRun, SetJob, SetStatus, AddEvent, Suffer, storeVars, OnlyOf
<1>8. ASSUME NEW i \in Runs, FailedStatus(e, i) PROVE OnlyOf(e)
  BY <1>0, <1>8, StatusNames DEF FailedStatus, SetRun, SetJob, SetStatus, AddEvent, Suffer, storeVars, OnlyOf
<1>9. ASSUME NEW i \in Runs, SesAccepts(e, i) PROVE OnlyOf(e)
  BY <1>0, <1>9, StatusNames DEF SesAccepts, SetRun, SetJob, SetStatus, AddEvent, Suffer, storeVars, OnlyOf
<1>10. ASSUME NEW i \in Runs, SesThrows(e, i) PROVE OnlyOf(e)
  BY <1>0, <1>10, StatusNames DEF SesThrows, SetRun, SetJob, SetStatus, AddEvent, Suffer, storeVars, OnlyOf
<1>11. ASSUME NEW i \in Runs, RecordSesId(e, i) PROVE OnlyOf(e)
  BY <1>0, <1>11, StatusNames DEF RecordSesId, SetRun, SetJob, SetStatus, AddEvent, Suffer, storeVars, OnlyOf
<1>12. ASSUME NEW i \in Runs, WriteFails(e, i) PROVE OnlyOf(e)
  BY <1>0, <1>12, StatusNames DEF WriteFails, SetRun, SetJob, SetStatus, AddEvent, Suffer, storeVars, OnlyOf
<1>13. ASSUME NEW i \in Runs, FinishRun(e, i) PROVE OnlyOf(e)
  BY <1>0, <1>13, StatusNames DEF FinishRun, SetRun, SetJob, SetStatus, AddEvent, Suffer, storeVars, OnlyOf
<1> QED
  BY <1>1, <1>2, <1>3, <1>4, <1>5, <1>6, <1>7, <1>8, <1>9, <1>10, <1>11, <1>12, <1>13
     DEF WorkerProgress, RunStep

LEMMA UnsentWorker == TypeInv /\ RunsInv /\ UnsentInv /\ WorkerNext => UnsentInv'
<1> SUFFICES ASSUME TypeInv, RunsInv, UnsentInv, NEW e \in Emails, WorkerProgress(e) \/ Stall(e)
             PROVE  UnsentInv'
  BY DEF WorkerNext
<1>0. /\ status \in [Emails -> EmailStatuses \cup {"absent"}]
      /\ accepted \in [Emails -> SUBSET Runs]
      /\ suffered \in [Emails -> SUBSET FaultKinds]
      /\ job \in [Emails -> JobStates] /\ run \in [Emails -> [Runs -> RunStates]]
  BY DEF TypeInv, TypeOK, StoreTypeOK, PipeTypeOK
<1>a. "stall" \notin suffered[e] =>
        /\ \A i, j \in Runs : run[e][i] # "idle" /\ run[e][j] # "idle" => i = j
        /\ (\A i \in Runs : run[e][i] = "idle") => accepted[e] = {}
        /\ stalls[e] = 0 /\ \A i \in Runs : run[e][i] # "idle" => i = Owner(e)
  <2>1. ASSUME "stall" \notin suffered[e], NEW i \in Runs, run[e][i] # "idle"
        PROVE  stalls[e] = 0 /\ i = Owner(e)
    BY <2>1 DEF RunsInv, Owner, Runs, TypeInv, TypeOK, PipeTypeOK
  <2>2. "stall" \notin suffered[e] => stalls[e] = 0
    BY DEF RunsInv, TypeInv, TypeOK, PipeTypeOK
  <2> QED
    BY OneRun, <2>1, <2>2
<1>b. OnlyOf(e)
  BY WorkerOnlyOf
<1>c. /\ api'[e] = api[e] /\ suffered[e] \subseteq suffered'[e]
      /\ Early(e)' = Early(e) /\ Asked(e)' = (\/ status'[e] = "CANCELLED" \/ events[e]["CANCELLED"] > 0
           \/ \E r \in Requests : req[r].email = e /\ req[r].pc \in {"removed", "cancelled"})
  BY <1>b DEF OnlyOf, Early, Asked
<1>d. UnsentOf(e)
  BY DEF UnsentInv
<1> SUFFICES UnsentOf(e)'
  <2>1. ASSUME NEW f \in Emails \ {e} PROVE UnsentOf(f)'
    BY <1>b, <2>1, UnsentFrame DEF OnlyOf
  <2> QED
    BY <2>1 DEF UnsentInv
<1> USE DEF UnsentOf, UnqueuedIsIdle, RunHasJob, RunTells, WithdrawnIsOut, FailedIsOut, Free, Unqueued
<1>1. CASE Promote(e)
  <2>1. /\ job[e] = "delayed" /\ job'[e] = "waiting"
        /\ UNCHANGED << run, accepted, suffered, status >>
    BY <1>0, <1>1 DEF Promote, SetJob, storeVars
  <2> QED
    BY <1>c, <1>d, <2>1 DEF Asked
<1>2. CASE StartRun(e)
  <2>1. Owner(e) \in Runs
    BY <1>2, SMT DEF StartRun, Owner, Runs, TypeInv, TypeOK, PipeTypeOK, StallsBounded, Live
  <2>2. /\ job[e] = "waiting" /\ job'[e] = "active" /\ run'[e][Owner(e)] = "loaded"
        /\ \A j \in Runs \ {Owner(e)} : run'[e][j] = run[e][j]
        /\ UNCHANGED << accepted, suffered, status >>
    BY <1>0, <1>2, <2>1 DEF StartRun, SetJob, SetRun, storeVars
  <2> QED
    BY <1>a, <1>c, <1>d, <2>1, <2>2 DEF Asked
<1>3. CASE Stall(e)
  <2>1. Owner(e) \in Runs
    BY <1>3, SMT DEF Stall, Owner, Runs, TypeInv, TypeOK, PipeTypeOK, StallsBounded, Live
  <2>2. "stall" \in suffered'[e] /\ job[e] = "active"
    BY <1>0, <1>3 DEF Stall, Suffer
  <2> QED
    BY <1>c, <1>d, <2>2
<1>4. ASSUME NEW i \in Runs, NoConfigurationSet(e, i) PROVE UnsentOf(e)'
  <2>1. \A j \in Runs \ {i} : run'[e][j] = run[e][j]
    BY <1>0, <1>4 DEF NoConfigurationSet, SetRun
  <2>2. run[e][i] = "loaded" /\ run'[e][i] \in {"returned"} /\ UNCHANGED << job, status >> /\ UNCHANGED accepted
    BY <1>0, <1>4 DEF NoConfigurationSet, SetRun, SetJob, SetStatus, Suffer, storeVars
  <2>3. UnqueuedIsIdle(e)'
    BY <1>a, <1>c, <1>d, <2>1, <2>2 DEF Asked
  <2>4. RunHasJob(e)'
    BY <1>a, <1>c, <1>d, <2>1, <2>2 DEF Asked
  <2>5. RunTells(e)'
    BY <1>a, <1>c, <1>d, <2>1, <2>2 DEF Asked
  <2>6. WithdrawnIsOut(e)'
    BY <1>a, <1>c, <1>d, <2>1, <2>2 DEF Asked
  <2>7. FailedIsOut(e)'
    BY <1>a, <1>c, <1>d, <2>1, <2>2 DEF Asked
  <2> QED
    BY <2>3, <2>4, <2>5, <2>6, <2>7
<1>5. ASSUME NEW i \in Runs, LoadThrows(e, i) PROVE UnsentOf(e)'
  <2>1. \A j \in Runs \ {i} : run'[e][j] = run[e][j]
    BY <1>0, <1>5 DEF LoadThrows, SetRun
  <2>2. run[e][i] = "loaded" /\ run'[e][i] \in {"thrown"} /\ UNCHANGED << job, status >> /\ UNCHANGED accepted
    BY <1>0, <1>5 DEF LoadThrows, SetRun, SetJob, SetStatus, Suffer, storeVars
  <2>3. UnqueuedIsIdle(e)'
    BY <1>a, <1>c, <1>d, <2>1, <2>2 DEF Asked
  <2>4. RunHasJob(e)'
    BY <1>a, <1>c, <1>d, <2>1, <2>2 DEF Asked
  <2>5. RunTells(e)'
    BY <1>a, <1>c, <1>d, <2>1, <2>2 DEF Asked
  <2>6. WithdrawnIsOut(e)'
    BY <1>a, <1>c, <1>d, <2>1, <2>2 DEF Asked
  <2>7. FailedIsOut(e)'
    BY <1>a, <1>c, <1>d, <2>1, <2>2 DEF Asked
  <2> QED
    BY <2>3, <2>4, <2>5, <2>6, <2>7
<1>6. ASSUME NEW i \in Runs, CheckLimit(e, i) PROVE UnsentOf(e)'
  <2>1. \A j \in Runs \ {i} : run'[e][j] = run[e][j]
    BY <1>0, <1>6 DEF CheckLimit, SetRun
  <2>2. run[e][i] = "loaded" /\ run'[e][i] \in {"sending", "limited", "failing"} /\ UNCHANGED << job, status >> /\ UNCHANGED accepted
    BY <1>0, <1>6 DEF CheckLimit, SetRun, SetJob, SetStatus, Suffer, storeVars
  <2>3. UnqueuedIsIdle(e)'
    BY <1>a, <1>c, <1>d, <2>1, <2>2 DEF Asked
  <2>4. RunHasJob(e)'
    BY <1>a, <1>c, <1>d, <2>1, <2>2 DEF Asked
  <2>5. RunTells(e)'
    BY <1>a, <1>c, <1>d, <2>1, <2>2 DEF Asked
  <2>6. WithdrawnIsOut(e)'
    BY <1>a, <1>c, <1>d, <2>1, <2>2 DEF Asked
  <2>7. FailedIsOut(e)'
    BY <1>a, <1>c, <1>d, <2>1, <2>2 DEF Asked
  <2> QED
    BY <2>3, <2>4, <2>5, <2>6, <2>7
<1>7. ASSUME NEW i \in Runs, FailedEvent(e, i) PROVE UnsentOf(e)'
  <2>1. \A j \in Runs \ {i} : run'[e][j] = run[e][j]
    BY <1>0, <1>7 DEF FailedEvent, SetRun
  <2>2. (\/ run[e][i] = "limited" /\ run'[e][i] = "limitEvent"
         \/ run[e][i] = "failing" /\ run'[e][i] = "failEvent") /\ UNCHANGED << job, status >> /\ UNCHANGED accepted
    BY <1>0, <1>7 DEF FailedEvent, SetRun, SetJob, SetStatus, Suffer, storeVars
  <2>3. UnqueuedIsIdle(e)'
    BY <1>a, <1>c, <1>d, <2>1, <2>2 DEF Asked
  <2>4. RunHasJob(e)'
    BY <1>a, <1>c, <1>d, <2>1, <2>2 DEF Asked
  <2>5. RunTells(e)'
    BY <1>a, <1>c, <1>d, <2>1, <2>2 DEF Asked
  <2>6. WithdrawnIsOut(e)'
    BY <1>a, <1>c, <1>d, <2>1, <2>2 DEF Asked
  <2>7. FailedIsOut(e)'
    BY <1>a, <1>c, <1>d, <2>1, <2>2 DEF Asked
  <2> QED
    BY <2>3, <2>4, <2>5, <2>6, <2>7
<1>8. ASSUME NEW i \in Runs, FailedStatus(e, i) PROVE UnsentOf(e)'
  <2>1. \A j \in Runs \ {i} : run'[e][j] = run[e][j]
    BY <1>0, <1>8 DEF FailedStatus, SetRun
  <2>2. run[e][i] \in {"limitEvent", "failEvent"} /\ run'[e][i] = "returned" /\ UNCHANGED job
        /\ status'[e] = "FAILED" /\ UNCHANGED accepted
    BY <1>0, <1>8 DEF FailedStatus, SetRun, SetJob, SetStatus, Suffer, storeVars
  <2>3. UnqueuedIsIdle(e)'
    BY <1>a, <1>c, <1>d, <2>1, <2>2 DEF Asked
  <2>4. RunHasJob(e)'
    BY <1>a, <1>c, <1>d, <2>1, <2>2 DEF Asked
  <2>5. RunTells(e)'
    BY <1>a, <1>c, <1>d, <2>1, <2>2 DEF Asked
  <2>6. WithdrawnIsOut(e)'
    BY <1>a, <1>c, <1>d, <2>1, <2>2 DEF Asked
  <2>7. FailedIsOut(e)'
    BY <1>a, <1>c, <1>d, <2>1, <2>2 DEF Asked
  <2> QED
    BY <2>3, <2>4, <2>5, <2>6, <2>7
<1>9. ASSUME NEW i \in Runs, SesAccepts(e, i) PROVE UnsentOf(e)'
  <2>1. \A j \in Runs \ {i} : run'[e][j] = run[e][j]
    BY <1>0, <1>9 DEF SesAccepts, SetRun
  <2>2. run[e][i] = "sending" /\ run'[e][i] \in {"accepted"} /\ UNCHANGED << job, status >>
    BY <1>0, <1>9 DEF SesAccepts, SetRun, SetJob, SetStatus, Suffer, storeVars
  <2>3. UnqueuedIsIdle(e)'
    BY <1>a, <1>c, <1>d, <2>1, <2>2 DEF Asked
  <2>4. RunHasJob(e)'
    BY <1>a, <1>c, <1>d, <2>1, <2>2 DEF Asked
  <2>5. RunTells(e)'
    BY <1>a, <1>c, <1>d, <2>1, <2>2 DEF Asked
  <2>6. WithdrawnIsOut(e)'
    BY <1>a, <1>c, <1>d, <2>1, <2>2 DEF Asked
  <2>7. FailedIsOut(e)'
    BY <1>a, <1>c, <1>d, <2>1, <2>2 DEF Asked
  <2> QED
    BY <2>3, <2>4, <2>5, <2>6, <2>7
<1>10. ASSUME NEW i \in Runs, SesThrows(e, i) PROVE UnsentOf(e)'
  <2>1. \A j \in Runs \ {i} : run'[e][j] = run[e][j]
    BY <1>0, <1>10 DEF SesThrows, SetRun
  <2>2. run[e][i] = "sending" /\ run'[e][i] \in {"failing"} /\ UNCHANGED << job, status >>
        /\ ("ses" \in suffered'[e] \/ accepted'[e] = accepted[e])
    BY <1>0, <1>10 DEF SesThrows, SetRun, SetJob, SetStatus, Suffer, storeVars
  <2>3. UnqueuedIsIdle(e)'
    BY <1>a, <1>c, <1>d, <2>1, <2>2 DEF Asked
  <2>4. RunHasJob(e)'
    BY <1>a, <1>c, <1>d, <2>1, <2>2 DEF Asked
  <2>5. RunTells(e)'
    BY <1>a, <1>c, <1>d, <2>1, <2>2 DEF Asked
  <2>6. WithdrawnIsOut(e)'
    BY <1>a, <1>c, <1>d, <2>1, <2>2 DEF Asked
  <2>7. FailedIsOut(e)'
    BY <1>a, <1>c, <1>d, <2>1, <2>2 DEF Asked
  <2> QED
    BY <2>3, <2>4, <2>5, <2>6, <2>7
<1>11. ASSUME NEW i \in Runs, RecordSesId(e, i) PROVE UnsentOf(e)'
  <2>1. \A j \in Runs \ {i} : run'[e][j] = run[e][j]
    BY <1>0, <1>11 DEF RecordSesId, SetRun
  <2>2. run[e][i] = "accepted" /\ run'[e][i] \in {"returned"} /\ UNCHANGED << job, status >> /\ UNCHANGED accepted
    BY <1>0, <1>11 DEF RecordSesId, SetRun, SetJob, SetStatus, Suffer, storeVars
  <2>3. UnqueuedIsIdle(e)'
    BY <1>a, <1>c, <1>d, <2>1, <2>2 DEF Asked
  <2>4. RunHasJob(e)'
    BY <1>a, <1>c, <1>d, <2>1, <2>2 DEF Asked
  <2>5. RunTells(e)'
    BY <1>a, <1>c, <1>d, <2>1, <2>2 DEF Asked
  <2>6. WithdrawnIsOut(e)'
    BY <1>a, <1>c, <1>d, <2>1, <2>2 DEF Asked
  <2>7. FailedIsOut(e)'
    BY <1>a, <1>c, <1>d, <2>1, <2>2 DEF Asked
  <2> QED
    BY <2>3, <2>4, <2>5, <2>6, <2>7
<1>12. ASSUME NEW i \in Runs, WriteFails(e, i) PROVE UnsentOf(e)'
  <2>1. \A j \in Runs \ {i} : run'[e][j] = run[e][j]
    BY <1>0, <1>12 DEF WriteFails, SetRun
  <2>2. (\/ run[e][i] \in {"limited", "limitEvent", "accepted"} /\ run'[e][i] = "failing"
         \/ run[e][i] \in {"failing", "failEvent"} /\ run'[e][i] = "thrown")
        /\ "db" \in suffered'[e] /\ UNCHANGED << job, status >> /\ UNCHANGED accepted
    BY <1>0, <1>12 DEF WriteFails, SetRun, SetJob, SetStatus, Suffer, storeVars
  <2>3. UnqueuedIsIdle(e)'
    BY <1>a, <1>c, <1>d, <2>1, <2>2 DEF Asked
  <2>4. RunHasJob(e)'
    BY <1>a, <1>c, <1>d, <2>1, <2>2 DEF Asked
  <2>5. RunTells(e)'
    BY <1>a, <1>c, <1>d, <2>1, <2>2 DEF Asked
  <2>6. WithdrawnIsOut(e)'
    BY <1>a, <1>c, <1>d, <2>1, <2>2 DEF Asked
  <2>7. FailedIsOut(e)'
    BY <1>a, <1>c, <1>d, <2>1, <2>2 DEF Asked
  <2> QED
    BY <2>3, <2>4, <2>5, <2>6, <2>7
<1>13. ASSUME NEW i \in Runs, FinishRun(e, i) PROVE UnsentOf(e)'
  <2>1. \A j \in Runs \ {i} : run'[e][j] = run[e][j]
    BY <1>0, <1>13 DEF FinishRun, SetRun
  <2>2. run[e][i] \in {"returned", "thrown"} /\ run'[e][i] = "done"
        /\ (IF job[e] = "active" /\ i = Owner(e)
             THEN job'[e] = IF run[e][i] = "returned" THEN "none" ELSE "failed"
             ELSE job'[e] = job[e])
        /\ UNCHANGED status /\ UNCHANGED accepted
    BY <1>0, <1>13 DEF FinishRun, SetRun, SetJob, SetStatus, Suffer, storeVars
  <2>3. UnqueuedIsIdle(e)'
    BY <1>a, <1>c, <1>d, <2>1, <2>2 DEF Asked
  <2>4. RunHasJob(e)'
    BY <1>a, <1>c, <1>d, <2>1, <2>2 DEF Asked
  <2>5. RunTells(e)'
    BY <1>a, <1>c, <1>d, <2>1, <2>2 DEF Asked
  <2>6. WithdrawnIsOut(e)'
    BY <1>a, <1>c, <1>d, <2>1, <2>2 DEF Asked
  <2>7. FailedIsOut(e)'
    BY <1>a, <1>c, <1>d, <2>1, <2>2 DEF Asked
  <2> QED
    BY <2>3, <2>4, <2>5, <2>6, <2>7
<1> QED
  BY <1>1, <1>2, <1>3, <1>4, <1>5, <1>6, <1>7, <1>8, <1>9, <1>10, <1>11, <1>12, <1>13
     DEF WorkerProgress, RunStep

LEMMA UnsentRequest == TypeInv /\ RunsInv /\ UnsentInv /\ RequestNext => UnsentInv'
<1> SUFFICES ASSUME TypeInv, RunsInv, UnsentInv, NEW r \in Requests,
                    BeginRequest(r) \/ RequestProgress(r) \/ RequestCrash(r)
             PROVE  UnsentInv'
  BY DEF RequestNext
<1>0. /\ status \in [Emails -> EmailStatuses \cup {"absent"}]
      /\ events \in [Emails -> [EmailStatuses -> Nat]]
      /\ suffered \in [Emails -> SUBSET FaultKinds]
      /\ api \in [Emails -> ApiStates] /\ job \in [Emails -> JobStates]
      /\ req \in [Requests -> [pc : ReqStates, op : ReqOps, email : Emails, at : Times \cup {0}]]
      /\ req[r].email \in Emails
  BY DEF TypeInv, TypeOK, StoreTypeOK, PipeTypeOK
<1>a. ASSUME NEW s, SetReq(r, s)
      PROVE  /\ req'[r].pc = s /\ req'[r].email = req[r].email
             /\ \A q \in Requests \ {r} : req'[q] = req[q]
  BY <1>0, <1>a DEF SetReq
<1>b. \A e \in Emails :
        "stall" \notin suffered[e] /\ (\A i \in Runs : run[e][i] = "idle") => accepted[e] = {}
  BY OneRun
<1>c. ASSUME NEW f \in Emails,
             api' = api, job'[f] = job[f], run' = run, accepted' = accepted,
             suffered[f] \subseteq suffered'[f], status'[f] = status[f],
             events'[f]["CANCELLED"] = events[f]["CANCELLED"],
             req[r].email # f \/ req'[r].pc \notin {"removed", "cancelled"},
             \E s : SetReq(r, s)
      PROVE  UnsentOf(f)'
  BY <1>a, <1>c, UnsentFrame
<1>d. PICK e \in Emails : e = req[r].email
  BY <1>0
<1> USE DEF UnsentOf, UnqueuedIsIdle, RunHasJob, RunTells, WithdrawnIsOut, FailedIsOut,
        Free, Asked, Unqueued, Early
<1>1. CASE BeginRequest(r)
  BY <1>0, <1>1 DEF BeginRequest, reqOnly, storeVars, UnsentInv
<1>2. CASE RemoveJob(r)
  <2>1. /\ api' = api /\ run' = run /\ accepted' = accepted /\ suffered' = suffered
        /\ status' = status /\ events' = events /\ req[r].pc = "checked"
        /\ \/ job' = job /\ SetReq(r, "done")
           \/ job[e] \in {"delayed", "waiting", "failed"} /\ SetJob(e, "none") /\ SetReq(r, "removed")
    BY <1>2, <1>d DEF RemoveJob, storeVars
  <2>2. ASSUME NEW f \in Emails \ {e} PROVE UnsentOf(f)'
    <3>1. job'[f] = job[f]
      BY <1>0, <2>1, <2>2 DEF SetJob
    <3> QED
      BY <1>c, <1>d, <2>1, <2>2, <3>1
  <2>3. UnsentOf(e)'
    <3>1. CASE job' = job /\ SetReq(r, "done")
      BY <1>a, <1>c, <2>1, <3>1 DEF UnsentInv
    <3>2. CASE job[e] \in {"delayed", "waiting", "failed"} /\ SetJob(e, "none")
      <4>1. job'[e] = "none" /\ UnsentOf(e)
        BY <1>0, <3>2 DEF SetJob, UnsentInv
      <4> QED
        BY <1>b, <2>1, <3>2, <4>1
    <3> QED
      BY <2>1, <3>1, <3>2
  <2> QED
    BY <2>2, <2>3 DEF UnsentInv
<1>3. CASE CancelStatus(r)
  <2>1. /\ req[r].pc = "removed" /\ status' = [status EXCEPT ![e] = "CANCELLED"]
        /\ UNCHANGED << api, job, run, accepted, suffered, events >> /\ SetReq(r, "cancelled")
    BY <1>3, <1>d DEF CancelStatus, SetStatus
  <2>2. ASSUME NEW f \in Emails \ {e} PROVE UnsentOf(f)'
    BY <1>0, <1>c, <1>d, <2>1, <2>2
  <2>3. UnsentOf(e) /\ Asked(e) /\ status'[e] = "CANCELLED"
    BY <1>0, <1>d, <2>1 DEF UnsentInv
  <2>4. UnsentOf(e)'
    BY <2>1, <2>3
  <2> QED
    BY <2>2, <2>4 DEF UnsentInv
<1>4. CASE CancelEvent(r)
  <2>1. /\ req[r].pc = "cancelled" /\ AddEvent(e, "CANCELLED")
        /\ UNCHANGED << api, job, run, accepted, suffered, status >> /\ SetReq(r, "done")
    BY <1>4, <1>d DEF CancelEvent
  <2>2. ASSUME NEW f \in Emails \ {e} PROVE UnsentOf(f)'
    <3>1. events'[f] = events[f]
      BY <1>0, <2>1, <2>2 DEF AddEvent
    <3> QED
      BY <1>0, <1>c, <1>d, <2>1, <2>2, <3>1
  <2>3. UnsentOf(e) /\ Asked(e)
    BY <1>0, <1>d, <2>1 DEF UnsentInv
  <2>4. UnsentOf(e)'
    BY <2>1, <2>3
  <2> QED
    BY <2>2, <2>4 DEF UnsentInv
<1>5. CASE UpdateRow(r)
  <2>1. SetReq(r, "moved") /\ UNCHANGED << api, job, run, accepted, suffered, status, events >>
    BY <1>5 DEF UpdateRow, storeVars
  <2> QED
    BY <1>a, <1>c, <2>1 DEF UnsentInv
<1>6. CASE ChangeDelay(r)
  <2>1. /\ SetReq(r, "done") \/ SetReq(r, "thrown")
        /\ UNCHANGED << api, job, run, accepted, suffered, status, events >>
    BY <1>6 DEF ChangeDelay, storeVars
  <2> QED
    BY <1>a, <1>c, <2>1 DEF UnsentInv
<1>7. CASE RequestCrash(r)
  <2>1. SetReq(r, "crashed") /\ UNCHANGED << api, job, run, accepted, status, events >>
    BY <1>7 DEF RequestCrash
  <2>2. \A f \in Emails : suffered[f] \subseteq suffered'[f]
    BY <1>0, <1>7 DEF RequestCrash, Suffer
  <2> QED
    BY <1>a, <1>c, <2>1, <2>2 DEF UnsentInv
<1> QED
  BY <1>1, <1>2, <1>3, <1>4, <1>5, <1>6, <1>7 DEF RequestProgress

LEMMA UnsentStep == TypeInv /\ RunsInv /\ UnsentInv /\ [Next]_vars => UnsentInv'
<1>1. UnsentInv /\ UNCHANGED vars => UnsentInv'
  BY DEF UnsentInv, UnsentOf, UnqueuedIsIdle, RunHasJob, RunTells, WithdrawnIsOut, FailedIsOut,
        Free, Asked, Unqueued, Early, vars, storeVars, pipeVars
<1> QED
  BY <1>1, UnsentApi, UnsentWorker, UnsentRequest DEF Next

LEMMA UnsentIn == UnsentInv => UnsentStaysUnsent
  BY DEF UnsentInv, UnsentOf, WithdrawnIsOut, FailedIsOut, Free, Asked, UnsentStaysUnsent,
     CancelledIsUnsent, FailedIsUnsent, Withdrawn, Withdrawers, Met

(***************************************************************************)
(* Nobody gets what the row says was withdrawn or has failed: once the job *)
(* is taken out of the queue, or given up, no run is left that would send. *)
(***************************************************************************)
THEOREM UnsentAlwaysStaysUnsent == Spec => []UnsentStaysUnsent
<1>1. Spec => [](TypeInv /\ RunsInv /\ UnsentInv)
  <2>1. Init => TypeInv /\ RunsInv /\ UnsentInv
    BY TypeInvInit, RunsInvInit, UnsentInit
  <2>2. TypeInv /\ RunsInv /\ UnsentInv /\ [Next]_vars => (TypeInv /\ RunsInv /\ UnsentInv)'
    BY TypeInvStep, RunsInvStep, UnsentStep
  <2> QED
    BY <2>1, <2>2, PTL DEF Spec
<1> QED
  BY <1>1, UnsentIn, PTL

-----------------------------------------------------------------------------
(***************************************************************************)
(* What rows and jobs agree on.  A request that has begun is about an      *)
(* email that was created; a cancel that took the job is the only one      *)
(* ever; a run without a fault leaves the email sent or failed; and the    *)
(* job's time is the row's, from before it is queued, unless an update     *)
(* has written one of the two.                                             *)
(***************************************************************************)
Pending(e) == status[e] \in {"SCHEDULED", "QUEUED"} /\ accepted[e] = {}
Untroubled(e) == Free(e, {"crash", "redis", "config", "db", "stall"})

RequestInOrder(r) ==
  /\ req[r].pc = "new" => req[r].op = "none"
  /\ req[r].pc \in {"moved", "thrown"} => req[r].op = "update"
  /\ req[r].pc # "new" => api[req[r].email] # "idle"

NewIsAbsent(e) ==
  api[e] = "idle" => status[e] = "absent"

Taken(e) == Withdrawers(e) # {} \/ events[e]["CANCELLED"] > 0
TakenOnce(e) ==
  /\ events[e]["CANCELLED"] <= 1
  /\ \A r, q \in Withdrawers(e) : r = q
  /\ Withdrawers(e) # {} => events[e]["CANCELLED"] = 0
  /\ Taken(e) => job[e] = "none" /\ ~Unqueued(e)
  /\ status[e] = "CANCELLED" => Taken(e) \/ "crash" \in suffered[e]

RunEnds(e) ==
  Untroubled(e) =>
    /\ job[e] # "failed"
    /\ \A i \in Runs :
         /\ run[e][i] # "thrown"
         /\ run[e][i] = "accepted" => accepted[e] # {}
         /\ run[e][i] = "returned" => ~Pending(e)

OwnedBy(e) ==
  Untroubled(e) /\ Pending(e) =>
    \/ Live(e)
    \/ api[e] \in {"created", "bulkCreated", "queueFailed", "failEvent"}
    \/ \E r \in Requests : req[r].email = e /\ req[r].pc = "removed"

Undisturbed(e) ==
  /\ \A r, q \in UpdatesOf(e) : r = q /\ req[r].pc \notin {"moved", "thrown"}
  /\ "crash" \notin suffered[e]
TimesAgree(e) ==
  /\ Undisturbed(e) /\ (job[e] = "delayed" \/ Early(e)) => due[e] = jobDue[e]
  /\ \A r \in UpdatesOf(e) :
       /\ req[r].pc = "moved" /\ "crash" \notin suffered[e]
       /\ \A q \in UpdatesOf(e) : q = r
       => due[e] = req[r].at

SuppressedIsOut(e) ==
  api[e] = "suppressed" \/ status[e] = "SUPPRESSED" =>
    /\ api[e] \in {"suppressed", "done", "crashed"} /\ status[e] = "SUPPRESSED"
    /\ job[e] = "none" /\ ~Taken(e) /\ \A i \in Runs : run[e][i] = "idle"

AgreeOf(e) ==
  NewIsAbsent(e) /\ TakenOnce(e) /\ RunEnds(e) /\ OwnedBy(e) /\ TimesAgree(e) /\ SuppressedIsOut(e)
AgreeInv == (\A r \in Requests : RequestInOrder(r)) /\ \A e \in Emails : AgreeOf(e)
LEMMA AgreeInit == Init => AgreeInv
<1> SUFFICES ASSUME Init PROVE AgreeInv
  OBVIOUS
<1>1. \A r \in Requests : req[r].pc = "new" /\ req[r].op = "none"
  BY DEF Init, PipeInit, NewRequest
<1>2. ASSUME NEW e \in Emails PROVE AgreeOf(e)
  <2>1. /\ status[e] = "absent" /\ events[e]["CANCELLED"] = 0 /\ accepted[e] = {}
        /\ job[e] = "none" /\ api[e] = "idle" /\ due[e] = 0 /\ jobDue[e] = 0
        /\ \A i \in Runs : run[e][i] = "idle"
    BY StatusNames DEF Init, StoreInit, PipeInit
  <2> QED
    BY <1>1, <2>1 DEF AgreeOf, NewIsAbsent, Taken, TakenOnce, RunEnds, OwnedBy, Pending, TimesAgree,
       SuppressedIsOut, Withdrawers, UpdatesOf
<1> QED
  BY <1>1, <1>2 DEF AgreeInv, RequestInOrder

\* What of an email its invariant is about.
Same(e) ==
  UNCHANGED << api[e], job[e], run[e], accepted[e], status[e], events[e]["CANCELLED"], due[e], jobDue[e] >>

LEMMA AgreeFrame ==
  ASSUME NEW e \in Emails, AgreeOf(e), Same(e), suffered[e] \subseteq suffered'[e], req' = req
  PROVE  AgreeOf(e)'
  BY DEF AgreeOf, Same, NewIsAbsent, Taken, TakenOnce, RunEnds, OwnedBy, Pending, TimesAgree,
     SuppressedIsOut, Withdrawers, UpdatesOf, Undisturbed, Untroubled, Free, Live, Early, Unqueued

-----------------------------------------------------------------------------
(***************************************************************************)
(* What a step of the API does to one email: it creates it, queues it or   *)
(* fails to, gives it up, dies, or leaves it as it is.                     *)
(***************************************************************************)
Created(e) ==
  /\ api[e] = "idle" /\ api'[e] \in {"created", "bulkCreated"}
  /\ status'[e] \in {"QUEUED", "SCHEDULED"} /\ due'[e] = jobDue'[e]
  /\ job'[e] = job[e] /\ suffered'[e] = suffered[e]
SuppressedAtOnce(e) ==
  /\ api[e] = "idle" /\ api'[e] = "suppressed" /\ status'[e] = "SUPPRESSED"
  /\ UNCHANGED << job[e], suffered[e], due[e], jobDue[e] >>
Queued(e) ==
  /\ api[e] \in {"created", "bulkCreated"}
  /\ \/ api'[e] = "done" /\ job'[e] \in {"waiting", "delayed"} /\ suffered'[e] = suffered[e]
     \/ api'[e] = "done" /\ job'[e] = job[e] /\ suffered'[e] = suffered[e] \cup {"redis"}
     \/ api'[e] = "queueFailed" /\ job'[e] = job[e] /\ suffered'[e] = suffered[e]
     \/ /\ api'[e] = "queueFailed" /\ job'[e] \in {"waiting", "delayed"}
        /\ suffered'[e] = suffered[e] \cup {"redis"}
  /\ UNCHANGED << status[e], due[e], jobDue[e] >>
GivenUp(e) ==
  /\ \/ api[e] = "suppressed" /\ api'[e] = "done" /\ status'[e] = status[e]
     \/ api[e] = "queueFailed" /\ api'[e] = "failEvent" /\ status'[e] = status[e]
     \/ api[e] = "failEvent" /\ api'[e] = "done" /\ status'[e] = "FAILED"
  /\ UNCHANGED << job[e], suffered[e], due[e], jobDue[e] >>
Dead(e) ==
  /\ api[e] \notin {"idle", "done", "crashed"} /\ api'[e] = "crashed"
  /\ suffered'[e] = suffered[e] \cup {"crash"}
  /\ UNCHANGED << status[e], job[e], due[e], jobDue[e] >>

ApiOn(e) ==
  /\ events'[e]["CANCELLED"] = events[e]["CANCELLED"]
  /\ UNCHANGED << run[e], accepted[e], req >>
  /\ \/ Created(e) \/ SuppressedAtOnce(e) \/ Queued(e) \/ GivenUp(e) \/ Dead(e)
     \/ Same(e) /\ suffered'[e] = suffered[e]

LEMMA ApiMoves ==
  ASSUME TypeInv, ApiNext, NEW e \in Emails
  PROVE  ApiOn(e)
<1>0. /\ status \in [Emails -> EmailStatuses \cup {"absent"}]
      /\ events \in [Emails -> [EmailStatuses -> Nat]]
      /\ suffered \in [Emails -> SUBSET FaultKinds]
      /\ api \in [Emails -> ApiStates] /\ job \in [Emails -> JobStates]
      /\ due \in [Emails -> Times \cup {0}] /\ jobDue \in [Emails -> Times \cup {0}]
  BY DEF TypeInv, TypeOK, StoreTypeOK, PipeTypeOK
<1>00. \A f \in Emails : events[f]["CANCELLED"] \in Nat
  BY <1>0, StatusNames
<1> USE <1>0, StatusNames
    DEF ApiOn, Created, SuppressedAtOnce, Queued, GivenUp, Dead, Same, SetApi, SetStatus, AddEvent,
        AddJobs, Suffer, BulkBatch, storeVars
<1>1. ASSUME NEW f \in Emails, NEW at \in Times \cup {0},
             NEW pc \in {"created", "bulkCreated"}, CreateRow(f, at, pc) PROVE ApiOn(e)
  BY <1>1 DEF CreateRow
<1>2. ASSUME NEW f \in Emails, SendSuppressed(f) PROVE ApiOn(e)
  BY <1>2 DEF SendSuppressed
<1>3. ASSUME NEW f \in Emails, SuppressedEvent(f) PROVE ApiOn(e)
  BY <1>3 DEF SuppressedEvent
<1>4. ASSUME NEW f \in Emails, QueueEmail(f) PROVE ApiOn(e)
  BY <1>4 DEF QueueEmail
<1>5. ASSUME NEW f \in Emails, QueueEmailThrows(f) PROVE ApiOn(e)
  BY <1>5 DEF QueueEmailThrows
<1>6. ASSUME NEW f \in Emails, QueueFailedEvent(f) PROVE ApiOn(e)
  BY <1>6 DEF QueueFailedEvent
<1>7. ASSUME NEW f \in Emails, QueueFailedStatus(f) PROVE ApiOn(e)
  BY <1>7 DEF QueueFailedStatus
<1>8. ASSUME NEW Lost \in SUBSET Emails, Lost \subseteq BulkBatch, QueueBulk(Lost) PROVE ApiOn(e)
  BY <1>8 DEF QueueBulk
<1>9. ASSUME QueueBulkThrows PROVE ApiOn(e)
  BY <1>9 DEF QueueBulkThrows
<1>10. ASSUME NEW S \in SUBSET Emails, ApiCrash(S) PROVE ApiOn(e)
  BY <1>10 DEF ApiCrash
<1> HIDE DEF ApiOn
<1>11. ASSUME NEW f \in Emails, ApiCrash({f}) PROVE ApiOn(e)
  BY <1>10, <1>11
<1>12. BulkBatch \in SUBSET Emails
  BY DEF BulkBatch
<1> QED
  BY <1>1, <1>2, <1>3, <1>4, <1>5, <1>6, <1>7, <1>8, <1>9, <1>10, <1>11, <1>12
     DEF ApiNext, ApiProgress, SendEmail, SendBulkEmail

LEMMA AgreeApi ==
  ASSUME TypeInv, RunsInv, UnsentInv, AgreeInv, ApiNext
  PROVE  AgreeInv'
<1>1. ASSUME NEW e \in Emails PROVE AgreeOf(e)'
  <2>1. ApiOn(e) /\ AgreeOf(e) /\ UnsentOf(e)
    BY <1>1, ApiMoves DEF AgreeInv, UnsentInv
  <2>2. Early(e) => job[e] = "none" /\ \A i \in Runs : run[e][i] = "idle"
    BY <2>1 DEF UnsentOf, UnqueuedIsIdle, Unqueued
  <2>3. \A r \in Requests : api[e] = "idle" /\ req[r].email = e => req[r].pc = "new" /\ req[r].op = "none"
    BY DEF AgreeInv, RequestInOrder
  <2>4. Taken(e)' = Taken(e) /\ UpdatesOf(e)' = UpdatesOf(e) /\ req' = req
    BY <2>1 DEF ApiOn, Taken, Withdrawers, UpdatesOf
  <2> USE DEF ApiOn, AgreeOf, NewIsAbsent, TakenOnce, RunEnds, OwnedBy, Pending, TimesAgree,
          SuppressedIsOut, Undisturbed, Untroubled, Free, Live, Early, Unqueued
  <2>5. CASE Created(e)
    <3>1. ~Taken(e) /\ Withdrawers(e)' = {} /\ UpdatesOf(e) = {}
      BY <2>1, <2>3, <2>5 DEF Created, Withdrawers, UpdatesOf
    <3> QED
      BY <2>1, <2>2, <2>4, <2>5, <3>1 DEF Created
  <2>6. CASE SuppressedAtOnce(e)
    <3>1. ~Taken(e) /\ Withdrawers(e)' = {} /\ UpdatesOf(e) = {}
      BY <2>1, <2>3, <2>6 DEF SuppressedAtOnce, Withdrawers, UpdatesOf
    <3> QED
      BY <2>1, <2>2, <2>4, <2>6, <3>1 DEF SuppressedAtOnce
  <2>7. Withdrawers(e)' = Withdrawers(e)
    BY <2>4 DEF Withdrawers
  <2>8. CASE Queued(e)
    BY <2>1, <2>2, <2>4, <2>7, <2>8 DEF Queued
  <2>9. CASE GivenUp(e)
    BY <2>1, <2>2, <2>4, <2>7, <2>9 DEF GivenUp
  <2>10. CASE Dead(e)
    BY <2>1, <2>2, <2>4, <2>7, <2>10 DEF Dead
  <2>11. CASE Same(e) /\ suffered'[e] = suffered[e]
    BY <2>1, <2>11, AgreeFrame, SMTT(30)
  <2> QED
    BY <2>1, <2>5, <2>6, <2>8, <2>9, <2>10, <2>11
<1>2. ASSUME NEW r \in Requests PROVE RequestInOrder(r)'
  <2>1. req[r].email \in Emails
    BY DEF TypeInv, TypeOK, PipeTypeOK
  <2>2. ApiOn(req[r].email) /\ RequestInOrder(r)
    BY <2>1, ApiMoves DEF AgreeInv
  <2> QED
    BY <2>2, SMTT(30)
       DEF ApiOn, RequestInOrder, Created, SuppressedAtOnce, Queued, GivenUp, Dead, Same
<1> QED
  BY <1>1, <1>2 DEF AgreeInv
-----------------------------------------------------------------------------
(***************************************************************************)
(* What a step of run i does to its email.                                 *)
(***************************************************************************)
RunGoesTo(e, i, s) ==
  run'[e][i] = s /\ \A j \in Runs \ {i} : run'[e][j] = run[e][j]
GivesUpLoading(e, i) ==
  /\ run[e][i] = "loaded"
  /\ RunGoesTo(e, i, "returned") \/ RunGoesTo(e, i, "thrown")
  /\ "config" \in suffered'[e]
  /\ UNCHANGED << job[e], status[e], accepted[e] >>
GoesOn(e, i) ==
  /\ \/ run[e][i] = "loaded" /\ \E s \in {"sending", "limited", "failing"} : RunGoesTo(e, i, s)
     \/ run[e][i] = "limited" /\ RunGoesTo(e, i, "limitEvent")
     \/ run[e][i] = "failing" /\ RunGoesTo(e, i, "failEvent")
     \/ run[e][i] = "accepted" /\ RunGoesTo(e, i, "returned")
  /\ UNCHANGED << job[e], status[e], accepted[e], suffered[e] >>
GivesUp(e, i) ==
  /\ run[e][i] \in {"limitEvent", "failEvent"} /\ RunGoesTo(e, i, "returned")
  /\ status'[e] = "FAILED"
  /\ UNCHANGED << job[e], accepted[e], suffered[e] >>
Sends(e, i) ==
  /\ run[e][i] = "sending"
  /\ \/ /\ RunGoesTo(e, i, "accepted")
        /\ accepted'[e] = accepted[e] \cup {i} /\ suffered'[e] = suffered[e]
     \/ RunGoesTo(e, i, "failing") /\ UNCHANGED << accepted[e], suffered[e] >>
     \/ /\ RunGoesTo(e, i, "failing") /\ "ses" \in suffered'[e]
        /\ accepted'[e] = accepted[e] \cup {i}
  /\ UNCHANGED << job[e], status[e] >>
CannotWrite(e, i) ==
  /\ \/ run[e][i] \in {"limited", "limitEvent", "accepted"} /\ RunGoesTo(e, i, "failing")
     \/ run[e][i] \in {"failing", "failEvent"} /\ RunGoesTo(e, i, "thrown")
  /\ "db" \in suffered'[e]
  /\ UNCHANGED << job[e], status[e], accepted[e] >>
Ends(e, i) ==
  /\ run[e][i] \in {"returned", "thrown"} /\ RunGoesTo(e, i, "done")
  /\ \/ job'[e] = job[e]
     \/ run[e][i] = "returned" /\ job[e] = "active" /\ job'[e] = "none"
     \/ run[e][i] = "thrown" /\ job[e] = "active" /\ job'[e] = "failed"
  /\ UNCHANGED << status[e], accepted[e], suffered[e] >>

RunMoves(e, i) ==
  \/ GivesUpLoading(e, i) \/ GoesOn(e, i) \/ GivesUp(e, i)
  \/ Sends(e, i) \/ CannotWrite(e, i) \/ Ends(e, i)

LEMMA RunStepMoves ==
  ASSUME TypeInv, NEW e \in Emails, NEW i \in Runs, RunStep(e, i)
  PROVE  RunMoves(e, i) /\ UNCHANGED << due, jobDue >>
<1>0. /\ status \in [Emails -> EmailStatuses \cup {"absent"}]
      /\ accepted \in [Emails -> SUBSET Runs]
      /\ suffered \in [Emails -> SUBSET FaultKinds]
      /\ job \in [Emails -> JobStates] /\ run \in [Emails -> [Runs -> RunStates]]
  BY DEF TypeInv, TypeOK, StoreTypeOK, PipeTypeOK
<1>1. \A s : SetRun(e, i, s) => RunGoesTo(e, i, s)
  BY <1>0 DEF SetRun, RunGoesTo
<1>2. CASE NoConfigurationSet(e, i) \/ LoadThrows(e, i)
  <2>1. GivesUpLoading(e, i)
    BY <1>0, <1>1, <1>2 DEF NoConfigurationSet, LoadThrows, GivesUpLoading, Suffer
  <2> QED
    BY <1>2, <2>1 DEF NoConfigurationSet, LoadThrows, RunMoves
<1>3. CASE CheckLimit(e, i) \/ FailedEvent(e, i) \/ RecordSesId(e, i)
  <2>1. GoesOn(e, i)
    BY <1>0, <1>1, <1>3 DEF CheckLimit, FailedEvent, RecordSesId, GoesOn, storeVars
  <2> QED
    BY <1>3, <2>1 DEF CheckLimit, FailedEvent, RecordSesId, RunMoves
<1>4. CASE FailedStatus(e, i)
  <2>1. GivesUp(e, i)
    BY <1>0, <1>1, <1>4 DEF FailedStatus, SetStatus, GivesUp
  <2> QED
    BY <1>4, <2>1 DEF FailedStatus, RunMoves
<1>5. CASE SesAccepts(e, i) \/ SesThrows(e, i)
  <2>1. Sends(e, i)
    BY <1>0, <1>1, <1>5 DEF SesAccepts, SesThrows, Suffer, Sends
  <2> QED
    BY <1>5, <2>1 DEF SesAccepts, SesThrows, RunMoves
<1>6. CASE WriteFails(e, i)
  <2>1. CannotWrite(e, i)
    BY <1>0, <1>1, <1>6 DEF WriteFails, Suffer, CannotWrite
  <2> QED
    BY <1>6, <2>1 DEF WriteFails, RunMoves
<1>7. CASE FinishRun(e, i)
  <2>1. Ends(e, i)
    BY <1>0, <1>1, <1>7 DEF FinishRun, SetJob, Ends, storeVars
  <2> QED
    BY <1>7, <2>1 DEF FinishRun, RunMoves
<1> QED
  BY <1>2, <1>3, <1>4, <1>5, <1>6, <1>7 DEF RunStep

LEMMA AgreeWorker ==
  ASSUME TypeInv, RunsInv, UnsentInv, AgreeInv,
         NEW e \in Emails, WorkerProgress(e) \/ Stall(e)
  PROVE  AgreeInv'
<1>0. /\ job \in [Emails -> JobStates] /\ suffered \in [Emails -> SUBSET FaultKinds]
      /\ run \in [Emails -> [Runs -> RunStates]]
  BY DEF TypeInv, TypeOK, StoreTypeOK, PipeTypeOK
<1>1. OnlyOf(e)
  BY WorkerOnlyOf
<1>2. UNCHANGED << due, jobDue, api, req >>
  <2>1. UNCHANGED << due, jobDue >>
    BY RunStepMoves DEF WorkerProgress, Promote, StartRun, Stall
  <2> QED
    BY <1>1, <2>1 DEF OnlyOf
<1>3. ASSUME NEW r \in Requests PROVE RequestInOrder(r)'
  BY <1>2 DEF AgreeInv, RequestInOrder
<1>4. ASSUME NEW f \in Emails \ {e} PROVE AgreeOf(f)'
  <2>1. Same(f) /\ suffered[f] \subseteq suffered'[f]
    BY <1>1, <1>2 DEF OnlyOf, Same
  <2> QED
    BY <1>2, <2>1, AgreeFrame DEF AgreeInv
<1>5. AgreeOf(e) /\ UnsentOf(e)
  BY DEF AgreeInv, UnsentInv
<1>6. /\ suffered[e] \subseteq suffered'[e] /\ events'[e]["CANCELLED"] = events[e]["CANCELLED"]
      /\ Withdrawers(e)' = Withdrawers(e) /\ Taken(e)' = Taken(e) /\ UpdatesOf(e)' = UpdatesOf(e)
      /\ Early(e)' = Early(e) /\ (Unqueued(e)' => Unqueued(e))
  BY <1>1, <1>2 DEF OnlyOf, Withdrawers, Taken, UpdatesOf, Early, Unqueued, Free
<1>7. Early(e) => job[e] = "none" /\ \A i \in Runs : run[e][i] = "idle"
  BY <1>5 DEF UnsentOf, UnqueuedIsIdle, Unqueued
<1>8. AgreeOf(e)'
  <2> USE <1>2, <1>5, <1>6, <1>7
      DEF AgreeOf, NewIsAbsent, TakenOnce, RunEnds, OwnedBy, Pending, TimesAgree,
          SuppressedIsOut, Undisturbed, Untroubled, Free, Live
  <2>1. CASE Promote(e)
    <3>1. job[e] = "delayed" /\ job'[e] = "waiting" /\ UNCHANGED << run, accepted, status >>
      BY <1>0, <2>1 DEF Promote, SetJob, storeVars
    <3> QED
      BY <3>1 DEF Early
  <2>2. CASE StartRun(e)
    <3>1. Owner(e) \in Runs
      BY <2>2, SMT DEF StartRun, Owner, Runs, TypeInv, TypeOK, PipeTypeOK, StallsBounded, Live
    <3>2. /\ job[e] = "waiting" /\ job'[e] = "active" /\ run'[e][Owner(e)] = "loaded"
          /\ \A j \in Runs \ {Owner(e)} : run'[e][j] = run[e][j]
          /\ UNCHANGED << accepted, status >>
      BY <1>0, <2>2, <3>1 DEF StartRun, SetJob, SetRun, storeVars
    <3> QED
      BY <3>2 DEF Early
  <2>3. CASE Stall(e)
    <3>1. job[e] = "active" /\ job'[e] \in {"waiting", "failed"} /\ UNCHANGED << accepted, status >>
      BY <1>0, <2>3 DEF Stall, SetJob
    <3>2. "stall" \in suffered'[e]
      BY <1>0, <2>3 DEF Stall, Suffer
    <3> QED
      BY <3>1, <3>2 DEF Early
  <2>4. ASSUME NEW i \in Runs, RunMoves(e, i) PROVE AgreeOf(e)'
    <3>1. run[e][i] # "idle"
      BY <2>4 DEF RunMoves, GivesUpLoading, GoesOn, GivesUp, Sends, CannotWrite, Ends
    <3>2. api[e] # "idle" /\ api[e] # "suppressed" /\ status[e] # "SUPPRESSED" /\ status'[e] # "SUPPRESSED"
      BY <2>4, <3>1 DEF Early, RunMoves, GivesUpLoading, GoesOn, GivesUp, Sends, CannotWrite, Ends
    <3>3. \A s, j : RunGoesTo(e, i, s) /\ j \in Runs => run'[e][j] = s \/ run'[e][j] = run[e][j]
      BY DEF RunGoesTo
    <3>4. CASE GivesUpLoading(e, i)
      BY <3>1, <3>2, <3>3, <3>4 DEF GivesUpLoading
    <3>5. CASE GoesOn(e, i)
      BY <3>1, <3>2, <3>3, <3>5 DEF GoesOn
    <3>6. CASE GivesUp(e, i)
      BY <3>1, <3>2, <3>3, <3>6 DEF GivesUp
    <3>7. CASE Sends(e, i)
      BY <3>1, <3>2, <3>3, <3>7 DEF Sends
    <3>8. CASE CannotWrite(e, i)
      BY <3>1, <3>2, <3>3, <3>8 DEF CannotWrite
    <3>9. CASE Ends(e, i)
      BY <3>1, <3>2, <3>3, <3>9 DEF Ends
    <3> QED
      BY <2>4, <3>4, <3>5, <3>6, <3>7, <3>8, <3>9 DEF RunMoves
  <2> QED
    BY <2>1, <2>2, <2>3, <2>4, RunStepMoves DEF WorkerProgress
<1> QED
  BY <1>3, <1>4, <1>8 DEF AgreeInv
-----------------------------------------------------------------------------
(***************************************************************************)
(* A cancel or update request moves its own email's row, job or time, and  *)
(* itself.  That it takes a job at all shows that none has before.         *)
(***************************************************************************)
LEMMA AgreeRequest ==
  ASSUME TypeInv, UnsentInv, AgreeInv, NEW r \in Requests,
         BeginRequest(r) \/ RequestProgress(r) \/ RequestCrash(r)
  PROVE  AgreeInv'
<1>0. /\ status \in [Emails -> EmailStatuses \cup {"absent"}]
      /\ events \in [Emails -> [EmailStatuses -> Nat]]
      /\ suffered \in [Emails -> SUBSET FaultKinds]
      /\ job \in [Emails -> JobStates]
      /\ due \in [Emails -> Times \cup {0}] /\ jobDue \in [Emails -> Times \cup {0}]
      /\ req \in [Requests -> [pc : ReqStates, op : ReqOps, email : Emails, at : Times \cup {0}]]
      /\ req[r].email \in Emails
  BY DEF TypeInv, TypeOK, StoreTypeOK, PipeTypeOK
<1>1. UNCHANGED << api, run, accepted >>
  BY DEF BeginRequest, reqOnly, storeVars, RequestProgress, RemoveJob, CancelStatus, CancelEvent,
     UpdateRow, ChangeDelay, RequestCrash
<1>2. \A q \in Requests \ {r} : req'[q] = req[q]
  BY <1>0 DEF BeginRequest, RequestProgress, RemoveJob, CancelStatus, CancelEvent,
     UpdateRow, ChangeDelay, RequestCrash, SetReq
<1>3. ASSUME NEW s, SetReq(r, s)
      PROVE  /\ req'[r].pc = s /\ req'[r].email = req[r].email
             /\ req'[r].op = req[r].op /\ req'[r].at = req[r].at
  BY <1>0, <1>3 DEF SetReq
<1> USE DEF Taken, Withdrawers, UpdatesOf, Early, Unqueued, Free
<1>4. ASSUME NEW e \in Emails PROVE AgreeOf(e)
  BY DEF AgreeInv
<1>5. RequestInOrder(r)
  BY DEF AgreeInv
<1>a. PICK e \in Emails : e = req[r].email
  BY <1>0
<1>b. ASSUME NEW s, SetReq(r, s)
      PROVE  /\ UpdatesOf(e)' = UpdatesOf(e)
             /\ Withdrawers(e)' = IF s \in {"removed", "cancelled"} THEN Withdrawers(e) \cup {r}
                                                               ELSE Withdrawers(e) \ {r}
             /\ \A q \in Requests :
                  /\ req'[q].pc = IF q = r THEN s ELSE req[q].pc
                  /\ req'[q].email = req[q].email /\ req'[q].op = req[q].op
                  /\ req'[q].at = req[q].at
  <2>1. \A q \in Requests :
          /\ req'[q].pc = IF q = r THEN s ELSE req[q].pc
          /\ req'[q].email = req[q].email /\ req'[q].op = req[q].op /\ req'[q].at = req[q].at
    BY <1>2, <1>3, <1>b
  <2>2. UpdatesOf(e)' = UpdatesOf(e)
    BY <2>1
  <2>3. Withdrawers(e)' = IF s \in {"removed", "cancelled"} THEN Withdrawers(e) \cup {r}
                                                          ELSE Withdrawers(e) \ {r}
    BY <2>1, <1>a
  <2> QED
    BY <2>1, <2>2, <2>3
<1>c. (r \in Withdrawers(e) <=> req[r].pc \in {"removed", "cancelled"})
      /\ (r \in UpdatesOf(e) <=> req[r].op = "update")
  BY <1>a
<1> HIDE DEF Withdrawers, UpdatesOf
<1>6. CASE BeginRequest(r)
  <2>1. PICK f \in Emails : /\ status[f] = "SCHEDULED" /\ req[r].pc = "new"
                            /\ req'[r].pc = "checked" /\ req'[r].email = f
    BY <1>0, <1>6 DEF BeginRequest
  <2>2. UNCHANGED << status, events, suffered, job, due, jobDue >>
    BY <1>6 DEF BeginRequest, reqOnly, storeVars
  <2>3. RequestInOrder(r)'
    BY <1>1, <1>4, <2>1 DEF RequestInOrder, AgreeOf, NewIsAbsent
  <2>4. ASSUME NEW g \in Emails PROVE AgreeOf(g)'
    <3>1. Withdrawers(g)' = Withdrawers(g)
      BY <1>2, <2>1 DEF Withdrawers
    <3>2. r \notin UpdatesOf(g)
      BY <1>5, <2>1 DEF RequestInOrder, UpdatesOf
    <3>3. \A q \in UpdatesOf(g) : q \in UpdatesOf(g)' /\ req'[q] = req[q]
      BY <1>2, <3>2 DEF UpdatesOf
    <3>4. \A q \in UpdatesOf(g)' : q = r \/ q \in UpdatesOf(g)
      BY <1>2 DEF UpdatesOf
    <3>5. TimesAgree(g)'
      BY <1>1, <1>4, <2>1, <2>2, <3>2, <3>3, <3>4 DEF AgreeOf, TimesAgree, Undisturbed
    <3>6. OwnedBy(g)'
      BY <1>1, <1>2, <1>4, <2>1, <2>2 DEF AgreeOf, OwnedBy, Pending, Untroubled, Free, Live
    <3> QED
      BY <1>1, <1>4, <2>2, <3>1, <3>5, <3>6
      DEF AgreeOf, NewIsAbsent, TakenOnce, RunEnds, Pending, Untroubled, Free, SuppressedIsOut
  <2> QED
    BY <1>1, <1>2, <2>3, <2>4 DEF AgreeInv, RequestInOrder
<1>7. ASSUME NEW s, SetReq(r, s), s # "new", s \in {"moved", "thrown"} => req[r].op = "update",
             req[r].pc # "new"
      PROVE  \A q \in Requests : RequestInOrder(q)'
  <2>1. RequestInOrder(r)'
    BY <1>1, <1>3, <1>5, <1>7 DEF RequestInOrder
  <2> QED
    BY <1>1, <1>2, <2>1 DEF AgreeInv, RequestInOrder
<1>8. ASSUME NEW f \in Emails \ {e}, NEW s, SetReq(r, s),
             Same(f), suffered[f] \subseteq suffered'[f]
      PROVE  AgreeOf(f)'
  <2>1. Withdrawers(f)' = Withdrawers(f) /\ UpdatesOf(f)' = UpdatesOf(f)
    BY <1>2, <1>3, <1>8, <1>a DEF Withdrawers, UpdatesOf
  <2>2. \A q \in Requests : req[q].email = f => req'[q] = req[q]
    BY <1>2, <1>8, <1>a
  <2>3. \A q \in Requests : req'[q].email = f => req'[q] = req[q]
    BY <1>2, <1>3, <1>8, <1>a
  <2>4. \A q \in UpdatesOf(f) : req'[q] = req[q]
    BY <2>2 DEF UpdatesOf
  <2>5. TimesAgree(f)'
    BY <1>4, <1>8, <2>1, <2>4 DEF Same, AgreeOf, TimesAgree, Undisturbed
  <2>6. OwnedBy(f)'
    <3>1. SUFFICES ASSUME Untroubled(f)', Pending(f)', ~Live(f)',
                          api'[f] \notin {"created", "bulkCreated", "queueFailed", "failEvent"}
                   PROVE  \E q \in Requests : req'[q].email = f /\ req'[q].pc = "removed"
      BY DEF OwnedBy
    <3>2. Untroubled(f) /\ Pending(f) /\ ~Live(f) /\ api'[f] = api[f]
      BY <1>8, <3>1 DEF Same, Pending, Untroubled, Free, Live
    <3>3. PICK q \in Requests : req[q].email = f /\ req[q].pc = "removed"
      BY <1>4, <3>1, <3>2 DEF AgreeOf, OwnedBy
    <3> QED
      BY <2>2, <3>3
  <2>7. TakenOnce(f)' /\ SuppressedIsOut(f)'
    BY <1>4, <1>8, <2>1 DEF Same, AgreeOf, TakenOnce, SuppressedIsOut
  <2>8. NewIsAbsent(f)' /\ RunEnds(f)'
    BY <1>4, <1>8 DEF Same, AgreeOf, NewIsAbsent, RunEnds, Pending, Untroubled, Free
  <2> QED
    BY <2>5, <2>6, <2>7, <2>8 DEF AgreeOf
<1>9. CASE RemoveJob(r)
  <2>1. /\ req[r].pc = "checked" /\ req[r].op = "cancel"
        /\ UNCHANGED << status, events, suffered, due, jobDue >>
        /\ \/ /\ job[e] \in {"delayed", "waiting", "failed"} /\ SetReq(r, "removed")
              /\ job'[e] = "none"
           \/ SetReq(r, "done") /\ job'[e] = job[e]
        /\ \A f \in Emails \ {e} : job'[f] = job[f]
    BY <1>0, <1>a, <1>9 DEF RemoveJob, SetJob, storeVars
  <2>2. ASSUME NEW f \in Emails \ {e} PROVE AgreeOf(f)'
    BY <1>1, <1>a, <1>8, <2>1 DEF Same
  <2>3. r \notin UpdatesOf(e) /\ UpdatesOf(e)' = UpdatesOf(e) /\ r \notin Withdrawers(e)
    BY <1>b, <1>c, <2>1
  <2>4. \A q \in UpdatesOf(e) : req'[q] = req[q]
    BY <1>2, <2>3 DEF UpdatesOf
  <2>5. ASSUME job'[e] = job[e], SetReq(r, "done") PROVE AgreeOf(e)'
    <3>0. Withdrawers(e)' = Withdrawers(e) \ {r}
      BY <1>b, <2>5
    <3>1. Withdrawers(e)' = Withdrawers(e)
      BY <2>3, <3>0
    <3>2. \A q \in Requests : req[q].pc = "removed" => req'[q].pc = "removed" /\ req'[q].email = req[q].email
      BY <1>b, <2>1, <2>5
    <3>3. TimesAgree(e)'
      BY <1>1, <1>4, <2>1, <2>3, <2>4, <2>5 DEF AgreeOf, TimesAgree, Undisturbed
    <3>4. OwnedBy(e)'
      BY <1>1, <1>4, <2>1, <2>5, <3>2 DEF AgreeOf, OwnedBy, Pending, Untroubled, Free, Live
    <3> QED
      BY <1>1, <1>4, <2>1, <2>5, <3>1, <3>3, <3>4
      DEF AgreeOf, NewIsAbsent, TakenOnce, RunEnds, Pending, SuppressedIsOut, Untroubled, Free
  <2>6. ASSUME job[e] \in {"delayed", "waiting", "failed"}, SetReq(r, "removed"), job'[e] = "none"
        PROVE  AgreeOf(e)'
    <3>1. ~Taken(e) /\ Withdrawers(e)' = {r} /\ events[e]["CANCELLED"] = 0 /\ ~Unqueued(e)
      <4>1. ~Taken(e) /\ ~Unqueued(e)
        BY <1>4, <2>6 DEF AgreeOf, TakenOnce, UnsentInv, UnsentOf, UnqueuedIsIdle
      <4>2. events[e]["CANCELLED"] = 0
        BY <1>0, <4>1, StatusNames
      <4> QED
        BY <1>b, <2>6, <4>1, <4>2
    <3>2. req'[r].pc = "removed" /\ req'[r].email = e
      BY <1>3, <1>a, <2>6
    <3>3. TimesAgree(e)'
      BY <1>1, <1>4, <2>1, <2>3, <2>4, <2>6, <3>1 DEF AgreeOf, TimesAgree, Undisturbed
    <3>4. OwnedBy(e)'
      BY <3>2 DEF OwnedBy
    <3>5. TakenOnce(e)'
      BY <1>1, <1>4, <2>1, <2>6, <3>1 DEF AgreeOf, TakenOnce
    <3>6. status[e] # "SUPPRESSED" /\ api[e] # "suppressed"
      BY <1>4, <2>6 DEF AgreeOf, SuppressedIsOut
    <3> QED
      BY <1>1, <1>4, <2>1, <2>6, <3>3, <3>4, <3>5, <3>6
      DEF AgreeOf, NewIsAbsent, RunEnds, Pending, SuppressedIsOut, Untroubled, Free
  <2>7. AgreeOf(e)'
    BY <2>1, <2>5, <2>6
  <2> QED
    BY <1>0, <1>a, <1>7, <2>1, <2>2, <2>7 DEF AgreeInv
<1>10. CASE CancelStatus(r)
  <2>1. /\ req[r].pc = "removed" /\ SetReq(r, "cancelled")
        /\ UNCHANGED << events, suffered, job, due, jobDue >>
        /\ status'[e] = "CANCELLED" /\ \A f \in Emails \ {e} : status'[f] = status[f]
    BY <1>0, <1>a, <1>10 DEF CancelStatus, SetStatus
  <2>2. ASSUME NEW f \in Emails \ {e} PROVE AgreeOf(f)'
    BY <1>1, <1>a, <1>8, <2>1 DEF Same
  <2>3. Taken(e) /\ Withdrawers(e)' = Withdrawers(e) /\ UpdatesOf(e)' = UpdatesOf(e)
    BY <1>b, <1>c, <2>1
  <2>4. \A q \in UpdatesOf(e) : /\ req'[q].pc = req[q].pc \/ (req[q].pc = "removed" /\ req'[q].pc = "cancelled")
                               /\ req'[q].at = req[q].at
    BY <1>b, <2>1 DEF UpdatesOf
  <2>5. AgreeOf(e)'
    <3>1. TimesAgree(e)'
      BY <1>1, <1>4, <2>1, <2>3, <2>4 DEF AgreeOf, TimesAgree, Undisturbed
    <3>2. TakenOnce(e)' /\ OwnedBy(e)' /\ SuppressedIsOut(e)'
      BY <1>1, <1>4, <2>1, <2>3 DEF AgreeOf, TakenOnce, OwnedBy, Pending, SuppressedIsOut
    <3>3. NewIsAbsent(e)' /\ RunEnds(e)'
      BY <1>1, <1>4, <2>1, <2>3
      DEF AgreeOf, NewIsAbsent, TakenOnce, RunEnds, Pending, Untroubled, Free
    <3> QED
      BY <3>1, <3>2, <3>3 DEF AgreeOf
  <2> QED
    BY <1>0, <1>a, <1>7, <2>1, <2>2, <2>5 DEF AgreeInv
<1>11. CASE CancelEvent(r)
  <2>1. /\ req[r].pc = "cancelled" /\ SetReq(r, "done")
        /\ UNCHANGED << status, suffered, job, due, jobDue >>
        /\ events'[e]["CANCELLED"] = events[e]["CANCELLED"] + 1
        /\ \A f \in Emails \ {e} : events'[f] = events[f]
    BY <1>0, <1>a, <1>11, StatusNames DEF CancelEvent, AddEvent
  <2>2. ASSUME NEW f \in Emails \ {e} PROVE AgreeOf(f)'
    BY <1>1, <1>a, <1>8, <2>1 DEF Same
  <2>3. /\ events[e]["CANCELLED"] = 0 /\ Taken(e) /\ Withdrawers(e)' = {}
        /\ UpdatesOf(e)' = UpdatesOf(e)
    <3>1. r \in Withdrawers(e)
      BY <1>c, <2>1
    <3>2. Withdrawers(e) = {r} /\ events[e]["CANCELLED"] = 0
      BY <1>4, <3>1 DEF AgreeOf, TakenOnce
    <3> QED
      BY <1>b, <2>1, <3>1, <3>2
  <2>a. events'[e]["CANCELLED"] = 1 /\ Taken(e)'
    BY <2>1, <2>3
  <2>4. \A q \in UpdatesOf(e) : /\ req'[q].pc = req[q].pc \/ (req[q].pc = "cancelled" /\ req'[q].pc = "done")
                               /\ req'[q].at = req[q].at
    BY <1>b, <2>1 DEF UpdatesOf
  <2>b. \A q \in Requests : req[q].pc = "removed" => req'[q].pc = "removed" /\ req'[q].email = req[q].email
    BY <1>b, <2>1
  <2>5. AgreeOf(e)'
    <3>1. TimesAgree(e)'
      BY <1>1, <1>4, <2>1, <2>3, <2>4 DEF AgreeOf, TimesAgree, Undisturbed
    <3>2. TakenOnce(e)'
      BY <1>1, <1>4, <2>1, <2>3, <2>a DEF AgreeOf, TakenOnce
    <3>3. OwnedBy(e)'
      BY <1>1, <1>4, <2>1, <2>b DEF AgreeOf, OwnedBy, Pending, Untroubled, Free, Live
    <3>4. NewIsAbsent(e)' /\ RunEnds(e)' /\ SuppressedIsOut(e)'
      BY <1>1, <1>4, <2>1, <2>3
      DEF AgreeOf, NewIsAbsent, RunEnds, Pending, Untroubled, Free, SuppressedIsOut
    <3> QED
      BY <3>1, <3>2, <3>3, <3>4 DEF AgreeOf
  <2> QED
    BY <1>0, <1>a, <1>7, <2>1, <2>2, <2>5 DEF AgreeInv
<1>12. CASE UpdateRow(r)
  <2>1. /\ req[r].pc = "checked" /\ req[r].op = "update" /\ SetReq(r, "moved")
        /\ UNCHANGED << status, events, suffered, job, jobDue >>
        /\ due'[e] = req[r].at /\ \A f \in Emails \ {e} : due'[f] = due[f]
    BY <1>0, <1>a, <1>12 DEF UpdateRow, storeVars
  <2>2. ASSUME NEW f \in Emails \ {e} PROVE AgreeOf(f)'
    BY <1>1, <1>a, <1>8, <2>1 DEF Same
  <2>3. Withdrawers(e)' = Withdrawers(e) /\ UpdatesOf(e)' = UpdatesOf(e) /\ r \in UpdatesOf(e)
    <3>1. r \notin Withdrawers(e) /\ r \in UpdatesOf(e) /\ UpdatesOf(e)' = UpdatesOf(e)
      BY <1>b, <1>c, <2>1
    <3>2. Withdrawers(e)' = Withdrawers(e) \ {r}
      BY <1>b, <2>1
    <3> QED
      BY <3>1, <3>2
  <2>4. TimesAgree(e)'
    BY <1>0, <1>a, <1>1, <1>2, <1>3, <1>4, <2>1, <2>3 DEF AgreeOf, TimesAgree, Undisturbed
  <2>5. OwnedBy(e)'
    BY <1>1, <1>a, <1>2, <1>4, <2>1 DEF AgreeOf, OwnedBy, Pending, Untroubled, Free, Live
  <2>6. AgreeOf(e)'
    BY <1>1, <1>a, <1>4, <2>1, <2>3, <2>4, <2>5
    DEF AgreeOf, NewIsAbsent, TakenOnce, RunEnds, Pending, SuppressedIsOut, Untroubled, Free
  <2> QED
    BY <1>0, <1>a, <1>7, <2>1, <2>2, <2>6 DEF AgreeInv
<1>13. CASE ChangeDelay(r)
  <2>1. /\ req[r].pc = "moved" /\ req[r].op = "update"
        /\ UNCHANGED << status, events, suffered, job, due >>
        /\ \/ job[e] = "delayed" /\ SetReq(r, "done") /\ jobDue'[e] = req[r].at
           \/ job[e] # "delayed" /\ SetReq(r, "thrown") /\ jobDue'[e] = jobDue[e]
        /\ \A f \in Emails \ {e} : jobDue'[f] = jobDue[f]
    BY <1>0, <1>a, <1>5, <1>13 DEF ChangeDelay, storeVars, RequestInOrder
  <2>2. ASSUME NEW f \in Emails \ {e} PROVE AgreeOf(f)'
    BY <1>1, <1>a, <1>8, <2>1 DEF Same
  <2>3. Withdrawers(e)' = Withdrawers(e) /\ UpdatesOf(e)' = UpdatesOf(e) /\ r \in UpdatesOf(e)
    <3>1. r \notin Withdrawers(e) /\ r \in UpdatesOf(e) /\ UpdatesOf(e)' = UpdatesOf(e)
      BY <1>b, <1>c, <2>1
    <3>2. Withdrawers(e)' = Withdrawers(e) \ {r}
      BY <1>b, <2>1
    <3> QED
      BY <3>1, <3>2
  <2>4. TimesAgree(e)'
    BY <1>0, <1>a, <1>1, <1>2, <1>3, <1>4, <2>1, <2>3
    DEF AgreeOf, TimesAgree, Undisturbed, TypeInv, StallsBounded
  <2>5. OwnedBy(e)'
    BY <1>1, <1>a, <1>2, <1>4, <2>1 DEF AgreeOf, OwnedBy, Pending, Untroubled, Free, Live
  <2>6. AgreeOf(e)'
    BY <1>1, <1>a, <1>4, <2>1, <2>3, <2>4, <2>5
    DEF AgreeOf, NewIsAbsent, TakenOnce, RunEnds, Pending, SuppressedIsOut, Untroubled, Free
  <2> QED
    BY <1>0, <1>a, <1>7, <2>1, <2>2, <2>6 DEF AgreeInv
<1>14. CASE RequestCrash(r)
  <2>1. /\ req[r].pc # "new" /\ SetReq(r, "crashed") /\ "crash" \in suffered'[e]
        /\ suffered[e] \subseteq suffered'[e]
        /\ UNCHANGED << status, events, job, due, jobDue >>
        /\ \A f \in Emails \ {e} : suffered'[f] = suffered[f]
    BY <1>0, <1>a, <1>14 DEF RequestCrash, Suffer
  <2>2. ASSUME NEW f \in Emails \ {e} PROVE AgreeOf(f)'
    BY <1>1, <1>a, <1>8, <2>1 DEF Same
  <2>3. Withdrawers(e)' \subseteq Withdrawers(e) /\ (Taken(e)' => Taken(e))
    BY <1>b, <2>1
  <2>4. AgreeOf(e)'
    BY <1>0, <1>a, <1>1, <1>4, <2>1, <2>3
    DEF AgreeOf, TimesAgree, Undisturbed, NewIsAbsent, TakenOnce, RunEnds, Pending,
        SuppressedIsOut, Untroubled, Free, OwnedBy, Live
  <2> QED
    BY <1>0, <1>a, <1>7, <2>1, <2>2, <2>4 DEF AgreeInv
<1> QED
  BY <1>6, <1>9, <1>10, <1>11, <1>12, <1>13, <1>14 DEF RequestProgress
LEMMA AgreeStep ==
  TypeInv /\ RunsInv /\ UnsentInv /\ AgreeInv /\ [Next]_vars => AgreeInv'
<1>1. AgreeInv /\ UNCHANGED vars => AgreeInv'
  <2> SUFFICES ASSUME AgreeInv, UNCHANGED vars PROVE AgreeInv'
    OBVIOUS
  <2>1. ASSUME NEW e \in Emails PROVE AgreeOf(e)'
    BY AgreeFrame DEF AgreeInv, Same, vars, storeVars, pipeVars
  <2> QED
    BY <2>1 DEF AgreeInv, RequestInOrder, vars, pipeVars
<1> QED
  BY <1>1, AgreeApi, AgreeWorker, AgreeRequest DEF Next, WorkerNext, RequestNext

PipeInv == TypeInv /\ RunsInv /\ UnsentInv /\ AgreeInv

LEMMA PipeInvStep == PipeInv /\ [Next]_vars => PipeInv'
  BY TypeInvStep, RunsInvStep, UnsentStep, AgreeStep DEF PipeInv

LEMMA PipeInvAlways == Spec => []PipeInv
<1>1. Init => PipeInv
  BY TypeInvInit, RunsInvInit, UnsentInit, AgreeInit DEF PipeInv
<1> QED
  BY <1>1, PipeInvStep, PTL DEF Spec

LEMMA RowsAgreeIn == PipeInv => RowsAndJobsAgree
<1> SUFFICES ASSUME PipeInv, NEW e \in Emails
             PROVE  /\ PendingHasOwner!(e)
                    /\ RowAndJobAgree!(e)
                    /\ OneCancelWins!(e)
  BY DEF RowsAndJobsAgree, PendingHasOwner, RowAndJobAgree, OneCancelWins
<1>1. AgreeOf(e)
  BY DEF PipeInv, AgreeInv
<1>2. PendingHasOwner!(e)
  BY <1>1 DEF AgreeOf, OwnedBy, Pending, Untroubled, Free, Live, Met
<1>3. RowAndJobAgree!(e)
  BY <1>1 DEF AgreeOf, TimesAgree, Undisturbed, Met
<1>4. OneCancelWins!(e)
  BY <1>1 DEF AgreeOf, TakenOnce
<1> QED
  BY <1>2, <1>3, <1>4

(***************************************************************************)
(* The row tells what becomes of the email: a pending one has an owner     *)
(* unless a fault orphaned it, the time shown is the job's once a lone     *)
(* update succeeded, and one cancel at most withdraws it.                  *)
(***************************************************************************)
THEOREM RowsAndJobsAlwaysAgree == Spec => []RowsAndJobsAgree
  BY RowsAgreeIn, PipeInvAlways, PTL

-----------------------------------------------------------------------------
(***************************************************************************)
(* The refinement of EmailOutcome.  A step keeps the outcome of every      *)
(* email but those it excuses, or it moves the outcome of one email from   *)
(* new, or from pending, to what follows.                                  *)
(***************************************************************************)
Kept(e) == OutcomeOf(e)' = OutcomeOf(e)
Excused(e) == OutcomeOf(e)' = "excused"
MovesOn(e) ==
  \/ OutcomeOf(e) = "new" /\ OutcomeOf(e)' \in {"pending", "suppressed"}
  \/ OutcomeOf(e) = "pending" /\ OutcomeOf(e)' \in {"sent", "failed", "cancelled"}

OutcomeStep == Outcome!Next \/ UNCHANGED [e \in Emails |-> OutcomeOf(e)]

LEMMA OutcomeBatch ==
  ASSUME \A e \in Emails : Kept(e) \/ Excused(e)
  PROVE  OutcomeStep
<1> DEFINE S == {e \in Emails : Excused(e)}
<1>1. [e \in Emails |-> OutcomeOf(e)]' =
        [e \in Emails |-> IF e \in S THEN "excused" ELSE [f \in Emails |-> OutcomeOf(f)][e]]
  BY DEF Kept, Excused
<1>2. Outcome!Excuse(S)
  BY <1>1 DEF Outcome!Excuse
<1> QED
  BY <1>2 DEF Outcome!Next, OutcomeStep

LEMMA OutcomeOne ==
  ASSUME NEW e \in Emails, \A f \in Emails \ {e} : Kept(f),
         Kept(e) \/ Excused(e) \/ MovesOn(e)
  PROVE  OutcomeStep
<1>1. CASE Kept(e) \/ Excused(e)
  BY <1>1, OutcomeBatch
<1>2. CASE MovesOn(e)
  <2> DEFINE o == OutcomeOf(e)'
  <2>1. [f \in Emails |-> OutcomeOf(f)]' = [[f \in Emails |-> OutcomeOf(f)] EXCEPT ![e] = o]
    BY DEF Kept
  <2>2. [f \in Emails |-> OutcomeOf(f)][e] = OutcomeOf(e)
    OBVIOUS
  <2> HIDE DEF o
  <2>3. Outcome!Take(e) \/ Outcome!Resolve(e)
    BY <1>2, <2>1, <2>2 DEF MovesOn, Outcome!Take, Outcome!Resolve, o
  <2> QED
    BY <2>3 DEF Outcome!Next, OutcomeStep
<1> QED
  BY <1>1, <1>2

\* What an outcome is read from.
LEMMA OutcomeFrame ==
  ASSUME NEW e \in Emails, suffered'[e] = suffered[e], (api'[e] = "idle") <=> (api[e] = "idle"),
         status'[e] = status[e], accepted'[e] = accepted[e], Taken(e)' <=> Taken(e)
  PROVE  Kept(e)
  BY DEF Kept, OutcomeOf, Withdrawn, Taken, Withdrawers

LEMMA OutcomeExcused ==
  ASSUME NEW e \in Emails, suffered'[e] # {}
  PROVE  Excused(e)
  BY DEF Excused, OutcomeOf

\* What the invariant says of an email that met no fault and is not decided.
LEMMA OutcomePending ==
  ASSUME PipeInv, NEW e \in Emails, suffered[e] = {}
  PROVE  /\ Unqueued(e) => accepted[e] = {} /\ ~Withdrawn(e)
         /\ \A i \in Runs : run[e][i] \in {"limitEvent", "failEvent", "sending"} =>
              OutcomeOf(e) = "pending"
         /\ job[e] \in {"delayed", "waiting", "failed"} => OutcomeOf(e) = "pending"
<1>1. AgreeOf(e) /\ UnsentOf(e) /\ \A kinds : Free(e, kinds)
  BY DEF PipeInv, AgreeInv, UnsentInv, Free
<1>2. (\A i \in Runs : run[e][i] = "idle") => accepted[e] = {}
  BY OneRun DEF PipeInv
<1>3. Withdrawn(e) <=> Asked(e)
  BY DEF Withdrawn, Withdrawers, Asked
<1>4. Unqueued(e) => accepted[e] = {} /\ ~Withdrawn(e)
  BY <1>1, <1>2 DEF UnsentOf, UnqueuedIsIdle, AgreeOf, TakenOnce, Taken, Withdrawn
<1>5. ASSUME NEW i \in Runs, run[e][i] \in {"limitEvent", "failEvent", "sending"}
      PROVE  OutcomeOf(e) = "pending"
  <2>1. accepted[e] = {} /\ job[e] = "active"
    BY <1>1, <1>5 DEF UnsentOf, RunTells, RunHasJob
  <2>2. ~Withdrawn(e) /\ status[e] # "FAILED"
    BY <1>1, <1>3, <1>5, <2>1 DEF UnsentOf, WithdrawnIsOut, FailedIsOut
  <2>3. api[e] # "idle" /\ status[e] # "SUPPRESSED"
    BY <1>1, <1>5 DEF UnsentOf, UnqueuedIsIdle, Unqueued, Early, AgreeOf, SuppressedIsOut
  <2> QED
    BY <2>1, <2>2, <2>3 DEF OutcomeOf
<1>6. ASSUME job[e] \in {"delayed", "waiting", "failed"}
      PROVE  OutcomeOf(e) = "pending"
  <2>1. job[e] \in {"delayed", "waiting"}
    BY <1>1, <1>6 DEF AgreeOf, RunEnds, Untroubled
  <2>2. accepted[e] = {} /\ ~Withdrawn(e) /\ status[e] # "FAILED"
    BY <1>1, <1>2, <1>3, <2>1 DEF UnsentOf, RunHasJob, WithdrawnIsOut, FailedIsOut
  <2>3. api[e] # "idle" /\ status[e] # "SUPPRESSED"
    BY <1>1, <2>1 DEF UnsentOf, UnqueuedIsIdle, Unqueued, Early, AgreeOf, SuppressedIsOut
  <2> QED
    BY <2>2, <2>3 DEF OutcomeOf
<1> QED
  BY <1>4, <1>5, <1>6

\* Only a step that is about one email, and meets no fault, writes a status.
LEMMA ApiWrites ==
  ASSUME TypeInv, ApiNext
  PROVE  \/ status' = status
         \/ suffered' = suffered /\ \E e \in Emails : \A f \in Emails \ {e} : status'[f] = status[f]
<1>0. status \in [Emails -> EmailStatuses \cup {"absent"}]
  BY DEF TypeInv, TypeOK, StoreTypeOK
<1> DEFINE One == \E e \in Emails : \A f \in Emails \ {e} : status'[f] = status[f]
<1>1. ASSUME NEW e \in Emails, NEW s, SetStatus(e, s) PROVE One
  BY <1>0, <1>1 DEF SetStatus
<1> HIDE DEF One
<1>2. ASSUME NEW e \in Emails, SendEmail(e) \/ SendBulkEmail(e) PROVE One /\ suffered' = suffered
  BY <1>1, <1>2 DEF SendEmail, SendBulkEmail, CreateRow
<1>3. ASSUME NEW e \in Emails, SendSuppressed(e) \/ QueueFailedStatus(e) PROVE One /\ suffered' = suffered
  BY <1>1, <1>3 DEF SendSuppressed, QueueFailedStatus
<1>4. ASSUME NEW e \in Emails,
             SuppressedEvent(e) \/ QueueEmail(e) \/ QueueEmailThrows(e) \/ QueueFailedEvent(e)
      PROVE  status' = status
  BY <1>4 DEF SuppressedEvent, QueueEmail, QueueEmailThrows, QueueFailedEvent, storeVars
<1>5. ASSUME NEW S, ApiCrash(S) \/ QueueBulk(S) \/ QueueBulkThrows PROVE status' = status
  BY <1>5 DEF ApiCrash, QueueBulk, QueueBulkThrows, storeVars
<1> QED
  BY <1>2, <1>3, <1>4, <1>5 DEF One, ApiNext, ApiProgress

LEMMA OutcomeApi ==
  ASSUME PipeInv, ApiNext
  PROVE  OutcomeStep
<1>1. ASSUME NEW e \in Emails PROVE ApiOn(e) /\ AgreeOf(e) /\ Taken(e)' = Taken(e)
  <2>1. ApiOn(e)
    BY ApiMoves DEF PipeInv
  <2> QED
    BY <2>1 DEF PipeInv, AgreeInv, ApiOn, Taken, Withdrawers
<1>2. ASSUME NEW e \in Emails, status'[e] = status[e] PROVE Kept(e) \/ suffered'[e] # suffered[e]
  <2> SUFFICES ASSUME suffered'[e] = suffered[e] PROVE Kept(e)
    OBVIOUS
  <2>1. api'[e] = "idle" <=> api[e] = "idle"
    BY <1>1, <1>2 DEF AgreeOf, NewIsAbsent, ApiOn, Created, SuppressedAtOnce, Queued, GivenUp, Dead, Same
  <2> QED
    BY <1>1, <1>2, <2>1, OutcomeFrame DEF ApiOn
<1>3. ASSUME NEW e \in Emails, suffered'[e] # suffered[e] PROVE Excused(e)
  <2>1. suffered'[e] # {}
    BY <1>1, <1>3 DEF ApiOn, Created, SuppressedAtOnce, Queued, GivenUp, Dead
  <2> QED
    BY <2>1, OutcomeExcused
<1>4. CASE status' = status
  BY <1>2, <1>3, <1>4, OutcomeBatch
<1>5. ASSUME suffered' = suffered, NEW e \in Emails, \A f \in Emails \ {e} : status'[f] = status[f]
      PROVE  OutcomeStep
  <2>1. \A f \in Emails \ {e} : Kept(f)
    BY <1>2, <1>5
  <2>2. Kept(e) \/ Excused(e) \/ MovesOn(e)
    <3>0. CASE suffered[e] # {}
      BY <1>5, <3>0, OutcomeExcused
    <3> SUFFICES ASSUME suffered[e] = {} PROVE Kept(e) \/ MovesOn(e)
      BY <3>0
    <3>1. CASE status'[e] = status[e]
      BY <1>2, <1>5, <3>1
    <3>2. CASE Created(e) \/ SuppressedAtOnce(e)
      <4>1. OutcomeOf(e) = "new"
        BY <3>2 DEF Created, SuppressedAtOnce, OutcomeOf
      <4>2. accepted'[e] = {} /\ ~Taken(e)'
        BY <1>1, <3>2, OutcomePending DEF Created, SuppressedAtOnce, Unqueued, Early, ApiOn, Withdrawn, Taken
      <4>3. status'[e] # "CANCELLED" => ~Withdrawn(e)'
        BY <4>2 DEF Withdrawn, Taken
      <4>4. CASE Created(e)
        <5>1. OutcomeOf(e)' = "pending"
          BY <1>5, <4>2, <4>3, <4>4 DEF Created, OutcomeOf
        <5> QED
          BY <4>1, <5>1 DEF MovesOn
      <4>5. CASE SuppressedAtOnce(e)
        <5>1. OutcomeOf(e)' = "suppressed"
          BY <1>5, <4>5 DEF SuppressedAtOnce, OutcomeOf
        <5> QED
          BY <4>1, <5>1 DEF MovesOn
      <4> QED
        BY <3>2, <4>4, <4>5
    <3>3. CASE GivenUp(e) /\ status'[e] # status[e]
      <4>1. api[e] = "failEvent" /\ api'[e] = "done" /\ status'[e] = "FAILED"
        BY <3>3 DEF GivenUp
      <4>2. accepted[e] = {} /\ ~Withdrawn(e)
        BY <4>1, OutcomePending DEF Unqueued, Free
      <4>3. status[e] # "SUPPRESSED"
        BY <1>1, <4>1 DEF AgreeOf, SuppressedIsOut
      <4>4. OutcomeOf(e) = "pending"
        BY <3>3, <4>1, <4>2, <4>3 DEF OutcomeOf
      <4>5. accepted'[e] = {} /\ ~Withdrawn(e)'
        BY <1>1, <4>1, <4>2 DEF ApiOn, Withdrawn, Taken
      <4>6. OutcomeOf(e)' = "failed"
        BY <1>5, <4>1, <4>5 DEF OutcomeOf
      <4> QED
        BY <4>4, <4>6 DEF MovesOn
    <3> QED
      BY <1>1, <3>1, <3>2, <3>3 DEF ApiOn, Queued, Dead, Same
  <2> QED
    BY <2>1, <2>2, OutcomeOne
<1> QED
  BY <1>4, <1>5, ApiWrites DEF PipeInv

LEMMA OutcomeWorker ==
  ASSUME PipeInv, NEW e \in Emails, WorkerProgress(e) \/ Stall(e)
  PROVE  OutcomeStep
<1>0. TypeInv /\ OnlyOf(e)
  BY WorkerOnlyOf DEF PipeInv
<1>1. job \in [Emails -> JobStates] /\ suffered \in [Emails -> SUBSET FaultKinds]
  BY <1>0 DEF TypeInv, TypeOK, StoreTypeOK, PipeTypeOK
<1>2. \A f \in Emails : Taken(f)' <=> Taken(f)
  BY <1>0 DEF OnlyOf, Taken, Withdrawers
<1>3. \A f \in Emails \ {e} : Kept(f)
  BY <1>0, <1>2, OutcomeFrame DEF OnlyOf
<1>4. CASE suffered'[e] # {}
  BY <1>3, <1>4, OutcomeExcused, OutcomeOne
<1>5. ASSUME suffered'[e] = {} PROVE Kept(e) \/ MovesOn(e)
  <2>1. suffered[e] = {} /\ suffered'[e] = suffered[e] /\ api'[e] = api[e]
    BY <1>0, <1>5 DEF OnlyOf
  <2>2. ASSUME status'[e] = status[e], accepted'[e] = accepted[e] PROVE Kept(e)
    BY <1>2, <2>1, <2>2, OutcomeFrame
  <2>3. CASE Promote(e) \/ StartRun(e)
    BY <2>2, <2>3 DEF Promote, StartRun, storeVars
  <2>4. CASE Stall(e)
    BY <1>1, <1>5, <2>4 DEF Stall, Suffer
  <2>5. ASSUME NEW i \in Runs, RunMoves(e, i) PROVE Kept(e) \/ MovesOn(e)
    <3>1. CASE GivesUpLoading(e, i) \/ CannotWrite(e, i)
      BY <1>5, <3>1 DEF GivesUpLoading, CannotWrite
    <3>2. CASE GoesOn(e, i) \/ Ends(e, i)
      BY <2>2, <3>2 DEF GoesOn, Ends
    <3>3. CASE GivesUp(e, i)
      <4>1. OutcomeOf(e) = "pending"
        BY <2>1, <3>3, OutcomePending DEF GivesUp
      <4>2. api[e] # "idle" /\ accepted[e] = {} /\ ~Withdrawn(e)
        BY <4>1 DEF OutcomeOf
      <4>3. api'[e] # "idle" /\ accepted'[e] = {} /\ status'[e] = "FAILED" /\ ~Taken(e)'
        BY <1>2, <2>1, <3>3, <4>2 DEF GivesUp, Withdrawn, Taken
      <4>4. ~Withdrawn(e)'
        BY <4>3 DEF Withdrawn, Taken
      <4>5. OutcomeOf(e)' = "failed"
        BY <1>5, <4>3, <4>4 DEF OutcomeOf
      <4> QED
        BY <4>1, <4>5 DEF MovesOn
    <3>4. CASE Sends(e, i)
      <4>1. OutcomeOf(e) = "pending"
        BY <2>1, <3>4, OutcomePending DEF Sends
      <4>2. status'[e] = status[e] /\ accepted'[e] \in {accepted[e], accepted[e] \cup {i}}
        BY <3>4 DEF Sends
      <4>3. CASE accepted'[e] # {}
        <5>1. api'[e] # "idle" /\ status'[e] # "SUPPRESSED"
          BY <2>1, <4>1, <4>2 DEF OutcomeOf
        <5>2. OutcomeOf(e)' = "sent"
          BY <1>5, <4>3, <5>1 DEF OutcomeOf
        <5> QED
          BY <4>1, <5>2 DEF MovesOn
      <4>4. CASE accepted'[e] = {}
        BY <2>2, <4>2, <4>4
      <4> QED
        BY <4>3, <4>4
    <3> QED
      BY <2>5, <3>1, <3>2, <3>3, <3>4 DEF RunMoves
  <2> QED
    BY <1>0, <2>3, <2>4, <2>5, RunStepMoves DEF WorkerProgress
<1> QED
  BY <1>3, <1>4, <1>5, OutcomeOne

LEMMA OutcomeRequest ==
  ASSUME PipeInv, NEW r \in Requests, BeginRequest(r) \/ RequestProgress(r) \/ RequestCrash(r)
  PROVE  OutcomeStep
<1>0. /\ status \in [Emails -> EmailStatuses \cup {"absent"}]
      /\ events \in [Emails -> [EmailStatuses -> Nat]]
      /\ suffered \in [Emails -> SUBSET FaultKinds]
      /\ req \in [Requests -> [pc : ReqStates, op : ReqOps, email : Emails, at : Times \cup {0}]]
      /\ req[r].email \in Emails
  BY DEF PipeInv, TypeInv, TypeOK, StoreTypeOK, PipeTypeOK
<1>1. UNCHANGED << api, accepted >>
  BY DEF BeginRequest, reqOnly, storeVars, RequestProgress, RemoveJob, CancelStatus, CancelEvent,
     UpdateRow, ChangeDelay, RequestCrash
<1>2. \A q \in Requests \ {r} : req'[q] = req[q]
  BY <1>0 DEF BeginRequest, RequestProgress, RemoveJob, CancelStatus, CancelEvent,
     UpdateRow, ChangeDelay, RequestCrash, SetReq
<1>3. ASSUME NEW s, SetReq(r, s) PROVE req'[r].pc = s /\ req'[r].email = req[r].email
  BY <1>0, <1>3 DEF SetReq
<1>a. PICK e \in Emails : e = req[r].email
  BY <1>0
<1>4. AgreeOf(e) /\ UnsentOf(e)
  BY DEF PipeInv, AgreeInv, UnsentInv
<1>5. ASSUME \A f \in Emails : UNCHANGED << suffered[f], status[f], events[f]["CANCELLED"] >>,
             \A q \in Requests : req'[q].pc \in {"removed", "cancelled"} =>
                                  req'[q].email = req[q].email /\ req'[q].pc = req[q].pc,
             \A q \in Requests : req[q].pc \in {"removed", "cancelled"} =>
                                  req'[q].email = req[q].email /\ req'[q].pc = req[q].pc
      PROVE  OutcomeStep
  <2>1. \A f \in Emails : Withdrawers(f)' = Withdrawers(f)
    BY <1>5 DEF Withdrawers
  <2>2. \A f \in Emails : Kept(f)
    BY <1>1, <1>5, <2>1, OutcomeFrame DEF Taken
  <2> QED
    BY <2>2, OutcomeBatch
<1>6. ASSUME NEW s, SetReq(r, s),
             \A f \in Emails \ {e} : UNCHANGED << suffered[f], status[f], events[f]["CANCELLED"] >>,
             Kept(e) \/ Excused(e) \/ MovesOn(e)
      PROVE  OutcomeStep
  <2>1. \A f \in Emails \ {e} : Withdrawers(f)' = Withdrawers(f)
    BY <1>2, <1>3, <1>6, <1>a DEF Withdrawers
  <2>2. \A f \in Emails \ {e} : Kept(f)
    BY <1>1, <1>6, <2>1, OutcomeFrame DEF Taken
  <2> QED
    BY <1>6, <2>2, OutcomeOne
<1>7. CASE BeginRequest(r)
  BY <1>0, <1>2, <1>5, <1>7 DEF BeginRequest, reqOnly, storeVars
<1>8. CASE UpdateRow(r) \/ ChangeDelay(r)
  <2>1. /\ UNCHANGED << suffered, status, events >>
        /\ req[r].pc \in {"checked", "moved"}
        /\ SetReq(r, "moved") \/ SetReq(r, "done") \/ SetReq(r, "thrown")
    BY <1>8 DEF UpdateRow, ChangeDelay, storeVars
  <2> QED
    BY <1>2, <1>3, <1>5, <2>1
<1>9. CASE RequestCrash(r)
  <2>1. /\ SetReq(r, "crashed") /\ suffered'[e] # {} /\ UNCHANGED << status, events >>
        /\ \A f \in Emails \ {e} : suffered'[f] = suffered[f]
    BY <1>0, <1>9, <1>a DEF RequestCrash, Suffer
  <2> QED
    BY <1>6, <2>1, OutcomeExcused
<1>10. CASE RemoveJob(r)
  <2>1. UNCHANGED << suffered, status, events >> /\ req[r].pc = "checked"
    BY <1>10 DEF RemoveJob, storeVars
  <2>2. CASE SetReq(r, "done")
    BY <1>2, <1>3, <1>5, <2>1, <2>2
  <2>3. CASE SetReq(r, "removed") /\ job[e] \in {"delayed", "waiting", "failed"}
    <3>1. CASE suffered[e] # {}
      BY <1>6, <2>1, <2>3, <3>1, OutcomeExcused
    <3>2. CASE suffered[e] = {}
      <4>1. OutcomeOf(e) = "pending"
        BY <2>3, <3>2, OutcomePending
      <4>2. r \in Withdrawers(e)'
        BY <1>3, <1>a, <2>3 DEF Withdrawers
      <4>3. Withdrawn(e)'
        BY <4>2 DEF Withdrawn
      <4>4. api'[e] # "idle" /\ accepted'[e] = {} /\ status'[e] # "SUPPRESSED"
        BY <1>1, <2>1, <4>1 DEF OutcomeOf
      <4>5. OutcomeOf(e)' = "cancelled"
        BY <2>1, <3>2, <4>3, <4>4 DEF OutcomeOf
      <4>6. MovesOn(e)
        BY <4>1, <4>5 DEF MovesOn
      <4> QED
        BY <1>6, <2>1, <2>3, <4>6
    <3> QED
      BY <3>1, <3>2
  <2> QED
    BY <1>10, <1>a, <2>2, <2>3 DEF RemoveJob
<1>11. CASE CancelStatus(r) \/ CancelEvent(r)
  <2>1. /\ suffered' = suffered /\ req[r].pc \in {"removed", "cancelled"}
        /\ \/ SetReq(r, "cancelled") /\ status'[e] = "CANCELLED"
           \/ SetReq(r, "done") /\ events'[e]["CANCELLED"] > 0 /\ status'[e] = status[e]
        /\ \A f \in Emails \ {e} : UNCHANGED << status[f], events[f]["CANCELLED"] >>
    BY <1>0, <1>11, <1>a, StatusNames DEF CancelStatus, CancelEvent, SetStatus, AddEvent
  <2>2. r \in Withdrawers(e) /\ Withdrawn(e) /\ Taken(e)
    BY <1>a, <2>1 DEF Withdrawers, Withdrawn, Taken
  <2>3. Withdrawn(e)'
    BY <2>1 DEF Withdrawn
  <2>4. CASE suffered[e] # {}
    BY <1>6, <2>1, <2>4, OutcomeExcused
  <2>5. CASE suffered[e] = {}
    <3>1. accepted[e] = {} /\ api[e] # "idle" /\ status[e] # "SUPPRESSED"
      <4>1. status[e] # "SUPPRESSED"
        BY <1>4, <2>2 DEF AgreeOf, SuppressedIsOut
      <4>2. Asked(e) /\ Free(e, {"stall", "db"})
        BY <1>a, <2>1, <2>5 DEF Asked, Free
      <4> QED
        BY <1>4, <4>1, <4>2 DEF UnsentOf, WithdrawnIsOut, Early
    <3>2. OutcomeOf(e) = "cancelled"
      BY <2>2, <2>5, <3>1 DEF OutcomeOf
    <3>3. accepted'[e] = {} /\ api'[e] # "idle" /\ status'[e] # "SUPPRESSED"
      BY <1>1, <2>1, <3>1
    <3>4. OutcomeOf(e)' = "cancelled"
      BY <2>1, <2>3, <2>5, <3>3 DEF OutcomeOf
    <3>5. Kept(e)
      BY <3>2, <3>4 DEF Kept
    <3> QED
      BY <1>6, <2>1, <3>5
  <2> QED
    BY <2>4, <2>5
<1> QED
  BY <1>7, <1>8, <1>9, <1>10, <1>11 DEF RequestProgress

LEMMA OutcomeInit == Init => Outcome!Init
  BY DEF Init, StoreInit, PipeInit, Outcome!Init, OutcomeOf

LEMMA OutcomePipe == PipeInv /\ [Next]_vars => OutcomeStep
<1>1. PipeInv /\ UNCHANGED vars => OutcomeStep
  <2> SUFFICES ASSUME UNCHANGED vars PROVE OutcomeStep
    OBVIOUS
  <2>1. \A e \in Emails : Kept(e)
    BY OutcomeFrame DEF vars, storeVars, pipeVars, Taken, Withdrawers
  <2> QED
    BY <2>1, OutcomeBatch
<1> QED
  BY <1>1, OutcomeApi, OutcomeWorker, OutcomeRequest DEF Next, WorkerNext, RequestNext

(***************************************************************************)
(* The requests, the queue and the workers implement what EmailOutcome     *)
(* promises, but for its fairness: an email that meets no fault is         *)
(* resolved at most once, by being sent, failed, cancelled or suppressed,  *)
(* and that is never revised, whatever happens to the others.              *)
(***************************************************************************)
THEOREM PipelineImplementsOutcome ==
  Spec => Outcome!Init /\ [][Outcome!Next]_[e \in Emails |-> OutcomeOf(e)]
<1>1. OutcomeStep => [Outcome!Next]_[e \in Emails |-> OutcomeOf(e)]
  BY DEF OutcomeStep
<1> QED
  BY <1>1, OutcomeInit, OutcomePipe, PipeInvAlways, PTL DEF Spec
-----------------------------------------------------------------------------
(***************************************************************************)
(* EmailDelivery, where the handlers of SES's notifications write the same *)
(* rows as the pipeline: what the pipeline's invariant says holds with     *)
(* them, and what the rows show is what SES reported.                      *)
(***************************************************************************)
HIDE TimesAssumption
USE HookEventsAssumption, CampaignAssumption

LEMMA Ranks ==
  /\ Rank("SCHEDULED") = 1 /\ Rank("CANCELLED") = 2 /\ Rank("RENDERING_FAILURE") = 3
  /\ Rank("QUEUED") = 4 /\ Rank("SENT") = 5 /\ Rank("REJECTED") = 6
  /\ Rank("DELIVERY_DELAYED") = 7 /\ Rank("DELIVERED") = 8 /\ Rank("BOUNCED") = 9
  /\ Rank("OPENED") = 10 /\ Rank("CLICKED") = 11 /\ Rank("COMPLAINED") = 12
  /\ Rank("FAILED") = 13 /\ Rank("SUPPRESSED") = 14
  BY DEF Rank, StatusRank

\* The hook's UPDATE never takes a status back, and shows at least the new one.
LEMMA AdvanceRises ==
  ASSUME NEW cur \in EmailStatuses, NEW new \in HookStatuses
  PROVE  /\ Advance(cur, new) \in {cur, new}
         /\ Rank(Advance(cur, new)) >= Rank(cur) /\ Rank(Advance(cur, new)) >= Rank(new)
<1>1. Rank(cur) \in Int /\ Rank(new) \in Int /\ Rank(new) >= 3
  BY Ranks, StatusNames DEF HookStatuses
<1> QED
  BY <1>1, Ranks DEF Advance

-----------------------------------------------------------------------------
(***************************************************************************)
(* The jobs of the handlers: a notification is about a message that SES    *)
(* accepted for its email, and from the lookup on the row has an id.       *)
(***************************************************************************)
HookRecords ==
  [pc : {"new"}, existing : BOOLEAN, stalls : 0 .. MaxStalled] \cup
  [pc : HookPCs \ {"new"}, email : Emails, msg : Runs, notice : Notices,
   existing : BOOLEAN, stalls : 0 .. MaxStalled]
HookTyped == hook \in [Notifications -> HookRecords]

AboutAccepted(n) == hook[n].pc # "new" => hook[n].msg \in accepted[hook[n].email]
FoundHasId(n) ==
  hook[n].pc \notin {"new", "queued", "done", "failed"} => sesId[hook[n].email] # 0

HandlersInv == HookTyped /\ \A n \in Notifications : AboutAccepted(n) /\ FoundHasId(n)

\* What a step of the handlers of n does to the store.
HookEffect(n) ==
  /\ UNCHANGED accepted
  /\ \A e \in Emails :
       /\ suffered'[e] \in {suffered[e], suffered[e] \cup {"hook"}}
       /\ status'[e] = status[e] \/ /\ e = EmailOf(n) /\ accepted[e] # {} /\ hook[n].pc = "checked"
                                    /\ status'[e] = Advance(status[e], StatusOf(n))
       /\ sesId'[e] = sesId[e] \/ sesId'[e] \in accepted[e]
       /\ \A s \in EmailStatuses :
            events'[e][s] = events[e][s] \/ /\ e = EmailOf(n) /\ s = StatusOf(n)
                                            /\ hook[n].pc = "analysed"
                                            /\ events'[e][s] = events[e][s] + 1

LEMMA NoticeStatus ==
  ASSUME HookTyped, NEW n \in Notifications, hook[n].pc # "new"
  PROVE  /\ EmailOf(n) \in Emails /\ hook[n].msg \in Runs
         /\ StatusOf(n) \in HookStatuses /\ StatusOf(n) \in EmailStatuses
<1>1. hook[n] \in HookRecords /\ hook[n].pc # "new"
  BY DEF HookTyped
<1>2. hook[n].email \in Emails /\ hook[n].msg \in Runs /\ hook[n].notice \in Notices
  BY <1>1 DEF HookRecords
<1> QED
  BY <1>2, StatusNames DEF EmailOf, StatusOf, Notices, HookStatuses

LEMMA HookSets ==
  ASSUME HookTyped, NEW n \in Notifications, hook[n].pc # "new",
         NEW s \in HookPCs \ {"new"}, SetHook(n, s)
  PROVE  /\ HookTyped'
         /\ hook'[n].pc = s /\ hook'[n].email = hook[n].email /\ hook'[n].msg = hook[n].msg
         /\ hook'[n].notice = hook[n].notice /\ hook'[n].existing = hook[n].existing
         /\ \A m \in Notifications \ {n} : hook'[m] = hook[m]
<1>1. hook[n] \in [pc : HookPCs \ {"new"}, email : Emails, msg : Runs, notice : Notices,
                   existing : BOOLEAN, stalls : 0 .. MaxStalled]
  BY DEF HookTyped, HookRecords
<1>2. [hook[n] EXCEPT !.pc = s] \in HookRecords
  BY <1>1 DEF HookRecords
<1>3. hook' = [hook EXCEPT ![n] = [hook[n] EXCEPT !.pc = s]]
  BY DEF SetHook
<1>4. hook'[n] = [hook[n] EXCEPT !.pc = s] /\ \A m \in Notifications \ {n} : hook'[m] = hook[m]
  BY <1>3 DEF HookTyped
<1>5. HookTyped'
  BY <1>2, <1>3, Zenon DEF HookTyped
<1> QED
  BY <1>1, <1>4, <1>5

LEMMA HookMoves ==
  ASSUME TypeInv, HandlersInv, NEW n \in Notifications,
         Notify(n) \/ HookProgress(n) \/ HookFails(n) \/ HookStalls(n)
  PROVE  HookEffect(n) /\ StoreTypeOK'
<1>0. /\ status \in [Emails -> EmailStatuses \cup {"absent"}]
      /\ events \in [Emails -> [EmailStatuses -> Nat]]
      /\ sesId \in [Emails -> Runs \cup {0}]
      /\ accepted \in [Emails -> SUBSET Runs]
      /\ suffered \in [Emails -> SUBSET FaultKinds]
  BY DEF TypeInv, TypeOK, StoreTypeOK
<1>1. ASSUME hook[n].pc # "new"
      PROVE  /\ EmailOf(n) \in Emails /\ StatusOf(n) \in EmailStatuses /\ hook[n].msg \in Runs
             /\ hook[n].msg \in accepted[EmailOf(n)]
  BY <1>1, NoticeStatus DEF HandlersInv, AboutAccepted, EmailOf
<1>2. CASE Notify(n)
  BY <1>0, <1>2 DEF Notify, HookEffect, storeVars, StoreTypeOK
<1>3. CASE Lookup(n)
  BY <1>0, <1>1, <1>3 DEF Lookup, HookEffect, StoreTypeOK
<1>4. CASE AdvanceStatus(n)
  <2>1. Advance(status[EmailOf(n)], StatusOf(n)) \in {status[EmailOf(n)], StatusOf(n)}
    BY DEF Advance
  <2> QED
    BY <1>0, <1>1, <1>4, <2>1 DEF AdvanceStatus, SetStatus, HookEffect, StoreTypeOK
<1>5. CASE AddSuppression(n)
  BY <1>0, <1>1, <1>5, SMTT(30) DEF AddSuppression, Suffer, HookEffect, StoreTypeOK, FaultKinds
<1>6. CASE RecordEvent(n)
  BY <1>0, <1>1, <1>6 DEF RecordEvent, AddEvent, HookEffect, StoreTypeOK
<1>7. CASE HookFails(n) \/ HookStalls(n)
  <2>1. /\ UNCHANGED << status, events, sesId, accepted >>
        /\ suffered' = [suffered EXCEPT ![EmailOf(n)] = @ \cup {"hook"}]
    BY <1>7 DEF HookFails, HookStalls, Suffer
  <2> QED
    BY <1>0, <2>1 DEF HookEffect, StoreTypeOK, FaultKinds
<1>8. CASE CheckExisting(n) \/ CountUsage(n) \/ CheckUnsubscribe(n) \/ UnsubscribeContact(n)
             \/ CountUnsubscribed(n) \/ CountAnalytics(n)
  BY <1>0, <1>8 DEF CheckExisting, CountUsage, CheckUnsubscribe, UnsubscribeContact,
     CountUnsubscribed, CountAnalytics, storeVars, HookEffect, StoreTypeOK
<1> QED
  BY <1>2, <1>3, <1>4, <1>5, <1>6, <1>7, <1>8 DEF HookProgress

\* Nothing is accepted before a run of the job has begun.
LEMMA AcceptedIsQueued ==
  ASSUME PipeInv, NEW e \in Emails, accepted[e] # {}
  PROVE  /\ ~Unqueued(e) /\ api[e] # "idle" /\ api[e] # "suppressed" /\ status[e] # "SUPPRESSED"
         /\ accepted[e] \subseteq Runs
<1>1. accepted[e] \subseteq Runs
  BY DEF PipeInv, TypeInv, TypeOK, StoreTypeOK
<1>2. ~ \A i \in Runs : run[e][i] = "idle"
  BY <1>1 DEF PipeInv, RunsInv
<1>3. AgreeOf(e) /\ UnsentOf(e)
  BY DEF PipeInv, AgreeInv, UnsentInv
<1> QED
  BY <1>1, <1>2, <1>3 DEF AgreeOf, SuppressedIsOut, UnsentOf, UnqueuedIsIdle, Unqueued, Early

\* The pipeline's invariant survives what the handlers write.
LEMMA PipeInvHook ==
  ASSUME PipeInv, HookTyped, NEW n \in Notifications, HookEffect(n), StoreTypeOK',
         UNCHANGED pipeVars
  PROVE  PipeInv'
<1>0. events \in [Emails -> [EmailStatuses -> Nat]] /\ PipeTypeOK /\ StallsBounded
  BY DEF PipeInv, TypeInv, TypeOK, StoreTypeOK
<1>1. UNCHANGED << api, due, job, jobDue, stalls, run, req, accepted >>
  BY DEF pipeVars, HookEffect
<1>2. ASSUME NEW e \in Emails
      PROVE  /\ suffered[e] \subseteq suffered'[e]
             /\ status'[e] = status[e] \/ (accepted[e] # {} /\ status'[e] \in HookStatuses)
             /\ events'[e]["CANCELLED"] = events[e]["CANCELLED"]
  <2>1. hook[n].pc # "new" => StatusOf(n) \in HookStatuses
    BY NoticeStatus
  <2>2. \/ status'[e] = status[e]
        \/ /\ accepted[e] # {} /\ hook[n].pc = "checked"
           /\ status'[e] = Advance(status[e], StatusOf(n))
    BY DEF HookEffect
  <2>3. Advance(status[e], StatusOf(n)) \in {status[e], StatusOf(n)}
    BY DEF Advance
  <2>4. \A s \in EmailStatuses :
          events'[e][s] = events[e][s] \/ (s = StatusOf(n) /\ hook[n].pc = "analysed")
    BY DEF HookEffect
  <2>5. "CANCELLED" \in EmailStatuses /\ "CANCELLED" \notin HookStatuses
    BY StatusNames DEF HookStatuses
  <2>6. suffered[e] \subseteq suffered'[e]
    BY DEF HookEffect
  <2> QED
    BY <2>1, <2>2, <2>3, <2>4, <2>5, <2>6
<1>3. TypeInv'
  BY <1>0, <1>1 DEF TypeInv, TypeOK, PipeTypeOK, StallsBounded, Live, Early
<1>4. RunsInv'
  BY <1>1, <1>2, RunsInvFrame DEF PipeInv
<1>5. ASSUME NEW e \in Emails PROVE UnsentOf(e)'
  <2>2. (Asked(e)' => Asked(e)) /\ (Unqueued(e)' => Unqueued(e))
    BY <1>1, <1>2 DEF Asked, HookStatuses, Unqueued, Early, Free
  <2>3. UnsentOf(e)
    BY DEF PipeInv, UnsentInv
  <2>4. status'[e] = "FAILED" => status[e] = "FAILED"
    BY <1>2 DEF HookStatuses
  <2> QED
    BY <1>1, <1>2, <2>2, <2>3, <2>4
    DEF UnsentOf, UnqueuedIsIdle, RunHasJob, RunTells, WithdrawnIsOut, FailedIsOut, Free, Early
<1>6. ASSUME NEW e \in Emails PROVE AgreeOf(e)'
  <2>1. AgreeOf(e)
    BY DEF PipeInv, AgreeInv
  <2>2. CASE status'[e] = status[e]
    BY <1>1, <1>2, <2>1, <2>2, AgreeFrame DEF Same
  <2>3. CASE accepted[e] # {} /\ status'[e] \in HookStatuses
    <3>1. ~Unqueued(e) /\ api[e] # "idle" /\ api[e] # "suppressed" /\ status[e] # "SUPPRESSED"
      BY <2>3, AcceptedIsQueued
    <3>2. /\ Withdrawers(e)' = Withdrawers(e) /\ UpdatesOf(e)' = UpdatesOf(e)
          /\ Taken(e)' = Taken(e) /\ (Unqueued(e)' => Unqueued(e))
      BY <1>1, <1>2 DEF Withdrawers, UpdatesOf, Taken, Unqueued, Early, Free
    <3>3. status'[e] \notin {"absent", "SCHEDULED", "QUEUED", "CANCELLED", "SUPPRESSED"}
      BY <2>3 DEF HookStatuses
    <3>4. TakenOnce(e)'
      BY <1>1, <1>2, <2>1, <3>2, <3>3 DEF AgreeOf, TakenOnce
    <3>5. RunEnds(e)' /\ OwnedBy(e)'
      BY <1>1, <1>2, <2>1, <3>3 DEF AgreeOf, RunEnds, OwnedBy, Pending, Untroubled, Free
    <3>6. TimesAgree(e)'
      BY <1>1, <1>2, <2>1, <3>2 DEF AgreeOf, TimesAgree, Undisturbed, Early
    <3> QED
      BY <1>1, <3>1, <3>3, <3>4, <3>5, <3>6 DEF AgreeOf, NewIsAbsent, SuppressedIsOut
  <2> QED
    BY <1>2, <2>2, <2>3
<1>7. \A r \in Requests : RequestInOrder(r)'
  BY <1>1 DEF PipeInv, AgreeInv, RequestInOrder
<1> QED
  BY <1>3, <1>4, <1>5, <1>6, <1>7 DEF PipeInv, UnsentInv, AgreeInv

-----------------------------------------------------------------------------
(***************************************************************************)
(* Where a row's id and reports come from, and what of the rows' statuses  *)
(* cannot happen short of a fault: a row that failed has nobody at work on *)
(* it and no cancel under way, and no request is about a QUEUED row.       *)
(***************************************************************************)
ReportsHaveSource(e) ==
  /\ sesId[e] \in accepted[e] \cup {0}
  /\ \A i \in Runs : run[e][i] = "accepted" => i \in accepted[e]
  /\ \A s \in HookStatuses : events[e][s] > 0 => accepted[e] # {} /\ sesId[e] # 0
  /\ status[e] \in HookStatuses => accepted[e] # {}
Begun(e) ==
  /\ api[e] # "idle" => status[e] # "absent"
  /\ status[e] = "CANCELLED" => ~Unqueued(e)
FailedIsFinal(e) ==
  status[e] = "FAILED" /\ Free(e, {"stall", "db", "redis"}) =>
    /\ ~Unqueued(e) /\ job[e] \notin {"delayed", "waiting", "failed"} /\ Withdrawers(e) = {}
    /\ \A i \in Runs : run[e][i] \in {"idle", "returned", "done"}
AskedOfScheduled(r) == req[r].pc # "new" => status[req[r].email] # "QUEUED"
Shown(e) ==
  \A s \in Reported(e) : Rank(status[e]) >= Rank(s) \/ ~Free(e, {"stall", "db"})

RowOf(e) == ReportsHaveSource(e) /\ Begun(e) /\ FailedIsFinal(e)
RowsInv == (\A e \in Emails : RowOf(e)) /\ \A r \in Requests : AskedOfScheduled(r)
ReportsInv == \A e \in Emails : Shown(e)

DeliveryInv == PipeInv /\ HandlersInv /\ RowsInv /\ ReportsInv

\* The handlers whose status is in the row and whose event is not written yet.
InForce(n) == hook[n].pc \in HookPCs \ {"new", "done", "failed", "queued", "found", "checked"}

IsReported(e, s) ==
  \/ s \in HookStatuses /\ events[e][s] > 0
  \/ \E n \in Notifications : InForce(n) /\ EmailOf(n) = e /\ StatusOf(n) = s

LEMMA ReportedIs == HookTyped => \A e \in Emails : \A s : s \in Reported(e) <=> IsReported(e, s)
<1> SUFFICES ASSUME HookTyped, NEW e \in Emails, NEW s PROVE s \in Reported(e) <=> IsReported(e, s)
  OBVIOUS
<1>1. \A n \in Notifications : hook[n].pc \in HookPCs
  BY DEF HookTyped, HookRecords, HookPCs
<1> QED
  BY <1>1 DEF Reported, Handling, InForce, EmailOf, IsReported

LEMMA ReportedIsNext ==
  HookTyped' => \A e \in Emails : \A s : s \in Reported(e)' <=> IsReported(e, s)'
<1> SUFFICES ASSUME HookTyped', NEW e \in Emails, NEW s PROVE s \in Reported(e)' <=> IsReported(e, s)'
  OBVIOUS
<1>1. \A n \in Notifications : hook'[n].pc \in HookPCs
  BY DEF HookTyped, HookRecords, HookPCs
<1> QED
  BY <1>1 DEF Reported, Handling, InForce, EmailOf, IsReported

(***************************************************************************)
(* What a step of the handlers does to the one it is of.                   *)
(***************************************************************************)
Arrives(n) ==
  hook[n].pc = "new" /\ hook'[n].pc = "queued" /\ hook'[n].msg \in accepted[hook'[n].email]
GoesOver(n) ==
  /\ hook[n].pc # "new" /\ hook'[n].email = hook[n].email
  /\ hook'[n].msg = hook[n].msg /\ hook'[n].notice = hook[n].notice
  /\ \/ hook[n].pc = "queued" /\ hook'[n].pc \in {"found", "done"} /\ sesId'[EmailOf(n)] = hook[n].msg
     \/ hook'[n].pc \in {"queued", "failed"}
     \/ hook[n].pc = "found" /\ hook'[n].pc = "checked"
     \/ /\ hook[n].pc = "checked" /\ hook'[n].pc = "advanced"
        /\ status'[EmailOf(n)] = Advance(status[EmailOf(n)], StatusOf(n))
     \/ InForce(n) /\ hook'[n].pc \notin {"new", "queued", "found", "checked", "done", "failed"}
     \/ InForce(n) /\ hook'[n].pc = "done"
HookGoes(n) ==
  /\ HookTyped' /\ \A m \in Notifications \ {n} : hook'[m] = hook[m]
  /\ Arrives(n) \/ GoesOver(n)

LEMMA HandlerMoves ==
  ASSUME TypeInv, HandlersInv, NEW n \in Notifications,
         Notify(n) \/ HookProgress(n) \/ HookFails(n) \/ HookStalls(n)
  PROVE  HookGoes(n)
<1>0. HookTyped /\ sesId \in [Emails -> Runs \cup {0}]
      /\ status \in [Emails -> EmailStatuses \cup {"absent"}] /\ accepted \in [Emails -> SUBSET Runs]
  BY DEF HandlersInv, TypeInv, TypeOK, StoreTypeOK
<1>1. ASSUME hook[n].pc # "new"
      PROVE  EmailOf(n) \in Emails /\ hook[n].msg \in Runs
  BY <1>0, <1>1, NoticeStatus
<1>2. ASSUME hook[n].pc # "new", NEW s \in HookPCs \ {"new"}, SetHook(n, s)
      PROVE  /\ HookTyped' /\ \A m \in Notifications \ {n} : hook'[m] = hook[m]
             /\ hook'[n].pc = s /\ hook'[n].email = hook[n].email /\ hook'[n].msg = hook[n].msg
             /\ hook'[n].notice = hook[n].notice
  BY <1>0, <1>2, HookSets
<1>3. CASE Notify(n)
  <2>1. PICK e \in Emails, x \in Notices, m \in Runs :
          m \in accepted[e] /\ hook' = [hook EXCEPT ![n] = 
            [pc |-> "queued", email |-> e, msg |-> m, notice |-> x, existing |-> FALSE, stalls |-> 0]]
    BY <1>0, <1>3 DEF Notify
  <2> DEFINE h == [pc |-> "queued", email |-> e, msg |-> m, notice |-> x, existing |-> FALSE, stalls |-> 0]
  <2>2. m \in Runs /\ 0 \in 0 .. MaxStalled
    BY <1>0
  <2>3. h \in HookRecords
    BY <2>2 DEF HookRecords, HookPCs
  <2>4. hook' = [hook EXCEPT ![n] = h] /\ h.pc = "queued" /\ h.msg = m /\ h.email = e
    BY <2>1
  <2> HIDE DEF h
  <2>5. HookTyped' /\ hook'[n] = h /\ \A k \in Notifications \ {n} : hook'[k] = hook[k]
    BY <1>0, <2>3, <2>4 DEF HookTyped
  <2> QED
    BY <1>3, <2>4, <2>5 DEF Notify, HookGoes, Arrives
<1>4. CASE Lookup(n)
  <2>1. /\ hook[n].pc = "queued" /\ sesId'[EmailOf(n)] = hook[n].msg
        /\ SetHook(n, "done") \/ SetHook(n, "found")
    BY <1>0, <1>1, <1>4 DEF Lookup
  <2> QED
    BY <1>2, <2>1 DEF HookPCs, HookGoes, GoesOver
<1>5. CASE CheckExisting(n)
  <2>1. PICK b \in BOOLEAN : hook[n].pc = "found" /\ hook' = [hook EXCEPT ![n].pc = "checked", ![n].existing = b]
    BY <1>5 DEF CheckExisting
  <2> DEFINE h == [[hook[n] EXCEPT !.pc = "checked"] EXCEPT !.existing = b]
  <2>2. hook[n] \in [pc : HookPCs \ {"new"}, email : Emails, msg : Runs, notice : Notices,
                     existing : BOOLEAN, stalls : 0 .. MaxStalled]
    BY <1>0, <2>1 DEF HookTyped, HookRecords
  <2>3. /\ h \in HookRecords /\ h.pc = "checked" /\ h.email = hook[n].email /\ h.msg = hook[n].msg
        /\ h.notice = hook[n].notice
    BY <2>2 DEF HookRecords, HookPCs
  <2>4. hook' = [hook EXCEPT ![n] = h]
    BY <1>0, <2>1, <2>2 DEF HookTyped
  <2> HIDE DEF h
  <2>5. HookTyped' /\ hook'[n] = h /\ \A k \in Notifications \ {n} : hook'[k] = hook[k]
    BY <1>0, <2>3, <2>4 DEF HookTyped
  <2> QED
    BY <2>1, <2>3, <2>5 DEF HookGoes, GoesOver
<1>6. CASE AdvanceStatus(n)
  <2>1. /\ hook[n].pc = "checked" /\ SetHook(n, "advanced")
        /\ status'[EmailOf(n)] = Advance(status[EmailOf(n)], StatusOf(n))
    BY <1>0, <1>1, <1>6 DEF AdvanceStatus, SetStatus
  <2> QED
    BY <1>2, <2>1 DEF HookPCs, HookGoes, GoesOver
<1>7. CASE AddSuppression(n) \/ CountUsage(n) \/ CheckUnsubscribe(n) \/ UnsubscribeContact(n)
             \/ CountUnsubscribed(n) \/ CountAnalytics(n)
  <2>1. /\ hook[n].pc \in {"advanced", "listed", "counted", "unsubscribing", "unsubCounting", "unsubscribed"}
        /\ \E s \in {"listed", "counted", "unsubscribing", "unsubCounting", "unsubscribed", "analysed"} :
             SetHook(n, s)
    BY <1>7 DEF AddSuppression, CountUsage, CheckUnsubscribe, UnsubscribeContact,
       CountUnsubscribed, CountAnalytics
  <2> QED
    BY <1>2, <2>1 DEF HookPCs, HookGoes, GoesOver, InForce
<1>8. CASE RecordEvent(n)
  BY <1>2, <1>8 DEF RecordEvent, HookPCs, HookGoes, GoesOver, InForce
<1>9. ASSUME HookFails(n) \/ HookStalls(n), SetHook(n, "failed") PROVE HookGoes(n)
  <2>1. hook[n].pc # "new"
    BY <1>9 DEF HookFails, HookStalls, Working
  <2> QED
    BY <1>2, <1>9, <2>1 DEF HookPCs, HookGoes, GoesOver
<1>10. ASSUME HookStalls(n), hook[n].stalls < MaxStalled PROVE HookGoes(n)
  <2>1. hook[n].pc # "new" /\ hook' = [hook EXCEPT ![n].pc = "queued", ![n].stalls = @ + 1]
    BY <1>10 DEF HookStalls, Working
  <2> DEFINE h == [[hook[n] EXCEPT !.pc = "queued"] EXCEPT !.stalls = hook[n].stalls + 1]
  <2>2. hook[n] \in [pc : HookPCs \ {"new"}, email : Emails, msg : Runs, notice : Notices,
                     existing : BOOLEAN, stalls : 0 .. MaxStalled]
    BY <1>0, <2>1 DEF HookTyped, HookRecords
  <2>3. hook[n].stalls + 1 \in 0 .. MaxStalled
    BY <1>10, <2>2
  <2>4. /\ h \in HookRecords /\ h.pc = "queued" /\ h.email = hook[n].email /\ h.msg = hook[n].msg
        /\ h.notice = hook[n].notice
    BY <2>2, <2>3 DEF HookRecords, HookPCs
  <2>5. hook' = [hook EXCEPT ![n] = h]
    BY <1>0, <2>1, <2>2 DEF HookTyped
  <2> HIDE DEF h
  <2>6. HookTyped' /\ hook'[n] = h /\ \A k \in Notifications \ {n} : hook'[k] = hook[k]
    BY <1>0, <2>4, <2>5 DEF HookTyped
  <2> QED
    BY <2>1, <2>4, <2>6 DEF HookGoes, GoesOver
<1> QED
  BY <1>3, <1>4, <1>5, <1>6, <1>7, <1>8, <1>9, <1>10 DEF HookProgress, HookFails, HookStalls

\* A step of the handlers reports at most the status it lets into the row.
LEMMA HookReports ==
  ASSUME HookTyped, NEW n \in Notifications, HookEffect(n), HookGoes(n),
         NEW e \in Emails, NEW s \in Reported(e)'
  PROVE  \/ s \in Reported(e)
         \/ /\ hook[n].pc = "checked" /\ e = EmailOf(n) /\ s = StatusOf(n)
            /\ status'[e] = Advance(status[e], s)
<1>1. HookTyped'
  BY DEF HookGoes
<1>2. \/ s \in HookStatuses /\ events'[e][s] > 0
      \/ \E m \in Notifications : InForce(m)' /\ EmailOf(m)' = e /\ StatusOf(m)' = s
  BY <1>1, ReportedIsNext DEF IsReported
<1>3. IsReported(e, s) => s \in Reported(e)
  BY ReportedIs
<1>4. CASE s \in HookStatuses /\ events'[e][s] > 0
  <2>1. s \in EmailStatuses
    BY <1>4, StatusNames DEF HookStatuses
  <2>2. events'[e][s] = events[e][s] \/ (e = EmailOf(n) /\ s = StatusOf(n) /\ hook[n].pc = "analysed")
    BY <2>1 DEF HookEffect
  <2> QED
    BY <1>3, <1>4, <2>2 DEF InForce, HookPCs, IsReported
<1>5. ASSUME NEW m \in Notifications, InForce(m)', EmailOf(m)' = e, StatusOf(m)' = s
      PROVE  \/ s \in Reported(e)
             \/ /\ hook[n].pc = "checked" /\ e = EmailOf(n) /\ s = StatusOf(n)
                /\ status'[e] = Advance(status[e], s)
  <2>1. CASE m # n
    BY <1>3, <1>5, <2>1 DEF HookGoes, InForce, EmailOf, StatusOf, IsReported
  <2>2. CASE m = n
    <3>1. GoesOver(n) /\ EmailOf(n) = e /\ StatusOf(n) = s
      BY <1>5, <2>2 DEF HookGoes, Arrives, GoesOver, InForce, EmailOf, StatusOf
    <3> QED
      BY <1>3, <1>5, <2>2, <3>1 DEF GoesOver, InForce, IsReported
  <2> QED
    BY <2>1, <2>2
<1> QED
  BY <1>2, <1>4, <1>5

LEMMA DeliveryHook ==
  ASSUME DeliveryInv, HookNext, UNCHANGED pipeVars
  PROVE  DeliveryInv'
<1>1. PICK n \in Notifications : Notify(n) \/ HookProgress(n) \/ HookFails(n) \/ HookStalls(n)
  BY DEF HookNext
<1>2. PipeInv /\ TypeInv /\ HandlersInv /\ HookTyped /\ RowsInv /\ ReportsInv
  BY DEF DeliveryInv, PipeInv, HandlersInv
<1>3. HookEffect(n) /\ StoreTypeOK' /\ HookGoes(n)
  BY <1>1, <1>2, HookMoves, HandlerMoves
<1>4. PipeInv'
  BY <1>2, <1>3, PipeInvHook
<1>5. UNCHANGED << api, job, run, req, accepted >>
  BY <1>3 DEF HookEffect, pipeVars
<1>6. /\ status \in [Emails -> EmailStatuses \cup {"absent"}]
      /\ events \in [Emails -> [EmailStatuses -> Nat]]
      /\ \A e \in Emails : accepted[e] \subseteq Runs
  BY <1>2 DEF TypeInv, TypeOK, StoreTypeOK
<1>7. 0 \notin Runs
  BY DEF Runs
<1>8. hook[n].pc # "new" => /\ EmailOf(n) \in Emails /\ StatusOf(n) \in HookStatuses
                           /\ hook[n].msg \in accepted[EmailOf(n)] /\ hook[n].msg # 0
  BY <1>2, <1>7, NoticeStatus DEF HandlersInv, AboutAccepted, EmailOf
<1>9. \A e \in Emails : sesId[e] # 0 => sesId'[e] # 0
  BY <1>3, <1>6, <1>7 DEF HookEffect
<1>10. HandlersInv'
  <2>1. ASSUME NEW m \in Notifications PROVE AboutAccepted(m)' /\ FoundHasId(m)'
    <3>0. AboutAccepted(m) /\ FoundHasId(m)
      BY <1>2 DEF HandlersInv
    <3>1. CASE m # n
      <4>1. hook'[m] = hook[m]
        BY <1>3, <3>1 DEF HookGoes
      <4>2. hook[m].pc # "new" => hook[m].email \in Emails
        BY <1>2, NoticeStatus DEF EmailOf
      <4> QED
        BY <1>5, <1>9, <3>0, <4>1, <4>2 DEF AboutAccepted, FoundHasId
    <3>2. CASE m = n
      BY <1>3, <1>5, <1>8, <1>9, <3>0, <3>2
      DEF HookGoes, Arrives, GoesOver, AboutAccepted, FoundHasId, InForce, EmailOf
    <3> QED
      BY <3>1, <3>2
  <2> QED
    BY <1>3, <2>1 DEF HandlersInv, HookGoes
<1>11. ASSUME NEW e \in Emails PROVE RowOf(e)' /\ Shown(e)'
  <2>0. ReportsHaveSource(e) /\ Begun(e) /\ FailedIsFinal(e) /\ Shown(e)
    BY <1>2 DEF RowsInv, RowOf, ReportsInv
  <2>1. \/ status'[e] = status[e]
        \/ /\ e = EmailOf(n) /\ accepted[e] # {} /\ hook[n].pc = "checked"
           /\ status'[e] = Advance(status[e], StatusOf(n))
    BY <1>3 DEF HookEffect
  <2>2. status'[e] # status[e] => /\ status'[e] = StatusOf(n) /\ StatusOf(n) \in HookStatuses
                                  /\ accepted[e] # {}
    BY <1>8, <2>1 DEF Advance
  <2>3. suffered[e] \subseteq suffered'[e]
    BY <1>3 DEF HookEffect
  <2>4. ReportsHaveSource(e)'
    <3>1. \A s \in HookStatuses :
            \/ events'[e][s] = events[e][s]
            \/ e = EmailOf(n) /\ hook[n].pc = "analysed"
      BY <1>3, StatusNames DEF HookEffect, HookStatuses
    <3>2. e = EmailOf(n) /\ hook[n].pc = "analysed" => sesId[e] # 0 /\ accepted[e] # {}
      BY <1>2, <1>8 DEF HandlersInv, FoundHasId, EmailOf
    <3>3. sesId'[e] = sesId[e] \/ sesId'[e] \in accepted[e]
      BY <1>3 DEF HookEffect
    <3> QED
      BY <1>5, <1>9, <2>0, <2>2, <3>1, <3>2, <3>3 DEF ReportsHaveSource
  <2>5. Begun(e)' /\ FailedIsFinal(e)'
    <3>1. Unqueued(e)' => Unqueued(e)
      BY <1>5, <2>3 DEF Unqueued, Early, Free
    <3>2. Withdrawers(e)' = Withdrawers(e)
      BY <1>5 DEF Withdrawers
    <3>3. status'[e] \in {"absent", "CANCELLED", "FAILED"} => status'[e] = status[e]
      BY <2>2 DEF HookStatuses
    <3> QED
      BY <1>5, <2>0, <2>3, <3>1, <3>2, <3>3 DEF Begun, FailedIsFinal, Free
  <2>6. Shown(e)'
    <3> SUFFICES ASSUME NEW s \in Reported(e)', Free(e, {"stall", "db"})'
                 PROVE  Rank(status'[e]) >= Rank(s)
      BY DEF Shown
    <3>1. s \in HookStatuses /\ accepted[e] # {}
      <4>1. HookTyped'
        BY <1>3 DEF HookGoes
      <4>2. \/ s \in HookStatuses /\ events'[e][s] > 0
            \/ \E m \in Notifications : InForce(m)' /\ EmailOf(m)' = e /\ StatusOf(m)' = s
        BY <4>1, ReportedIsNext DEF IsReported
      <4>3. ASSUME NEW m \in Notifications, InForce(m)', EmailOf(m)' = e, StatusOf(m)' = s
            PROVE  s \in HookStatuses /\ accepted[e] # {}
        <5>1. hook'[m].pc # "new"
          BY <4>3 DEF InForce
        <5>2. StatusOf(m)' \in HookStatuses
          BY <4>1, <5>1 DEF HookTyped, HookRecords, StatusOf, Notices
        <5> QED
          BY <1>5, <1>10, <4>3, <5>1, <5>2 DEF HandlersInv, AboutAccepted, EmailOf
      <4> QED
        BY <1>5, <2>4, <4>2, <4>3 DEF ReportsHaveSource
    <3>2. status[e] \in EmailStatuses
      BY <1>2, <1>6, <2>0, <3>1, AcceptedIsQueued DEF Begun
    <3>3. Free(e, {"stall", "db"})
      BY <2>3 DEF Free
    <3>4. Rank(status[e]) \in Int /\ Rank(s) \in Int
      BY <3>1, <3>2, Ranks, StatusNames DEF HookStatuses
    <3>5. CASE s \in Reported(e)
      <4>1. Rank(status[e]) >= Rank(s)
        BY <2>0, <3>3, <3>5 DEF Shown
      <4>2. CASE status'[e] = status[e]
        BY <4>1, <4>2
      <4>3. CASE hook[n].pc = "checked" /\ status'[e] = Advance(status[e], StatusOf(n))
        <5>1. StatusOf(n) \in HookStatuses /\ StatusOf(n) \in EmailStatuses
          BY <1>8, <4>3, StatusNames DEF HookStatuses
        <5>2. Rank(status'[e]) >= Rank(status[e]) /\ status'[e] \in EmailStatuses
          BY <3>2, <4>3, <5>1, AdvanceRises
        <5>3. Rank(status'[e]) \in Int
          BY <5>2, Ranks, StatusNames
        <5> QED
          BY <3>4, <4>1, <5>2, <5>3
      <4> QED
        BY <2>1, <4>2, <4>3
    <3>6. CASE status'[e] = Advance(status[e], s)
      BY <3>1, <3>2, <3>6, AdvanceRises
    <3> QED
      BY <1>2, <1>3, <3>5, <3>6, HookReports
  <2> QED
    BY <2>4, <2>5, <2>6 DEF RowOf
<1>12. \A r \in Requests : AskedOfScheduled(r)'
  <2>1. \A e \in Emails : status'[e] = "QUEUED" => status[e] = "QUEUED"
    BY <1>3, <1>8 DEF HookEffect, Advance, HookStatuses
  <2>2. \A r \in Requests : req[r].email \in Emails
    BY <1>2 DEF TypeInv, TypeOK, PipeTypeOK
  <2> QED
    BY <1>2, <1>5, <2>1, <2>2 DEF RowsInv, AskedOfScheduled
<1> QED
  BY <1>4, <1>10, <1>11, <1>12 DEF DeliveryInv, RowsInv, ReportsInv

-----------------------------------------------------------------------------
(***************************************************************************)
(* What a step of the pipeline does to a row: no report of SES, an id from *)
(* a run that was accepted, and a status for one of three reasons.         *)
(***************************************************************************)
Writes(e) ==
  \/ status'[e] = status[e]
  \/ api[e] = "idle" /\ status'[e] \in {"QUEUED", "SCHEDULED", "SUPPRESSED"}
  \/ /\ status'[e] = "FAILED"
     /\ api[e] = "failEvent" \/ \E i \in Runs : run[e][i] \in {"limitEvent", "failEvent"}
  \/ status'[e] = "CANCELLED" /\ \E r \in Requests : req[r].email = e /\ req[r].pc = "removed"

PipeEffect(e) ==
  /\ accepted[e] \subseteq accepted'[e] /\ suffered[e] \subseteq suffered'[e]
  /\ sesId'[e] = sesId[e] \/ \E i \in Runs : run[e][i] = "accepted" /\ sesId'[e] = i
  /\ \A i \in Runs : run'[e][i] = "accepted" => run[e][i] = "accepted" \/ i \in accepted'[e]
  /\ \A s \in HookStatuses : events'[e][s] = events[e][s]
  /\ Writes(e)

LEMMA NoReport ==
  ASSUME TypeInv, Next, NEW e \in Emails, NEW s \in HookStatuses
  PROVE  events'[e][s] = events[e][s]
<1>1. events \in [Emails -> [EmailStatuses -> Nat]]
  BY DEF TypeInv, TypeOK, StoreTypeOK
<1>2. ASSUME NEW f, NEW x \in {"FAILED", "SUPPRESSED", "CANCELLED"}, AddEvent(f, x)
      PROVE  events'[e][s] = events[e][s]
  <2>1. s # x
    BY DEF HookStatuses
  <2> QED
    BY <1>1, <1>2, <2>1 DEF AddEvent
<1> USE DEF storeVars
<1>3. CASE ApiNext
  <2>1. ASSUME NEW f, SuppressedEvent(f) \/ QueueFailedEvent(f) PROVE events'[e][s] = events[e][s]
    BY <1>2, <2>1 DEF SuppressedEvent, QueueFailedEvent
  <2>2. ASSUME NEW f, \/ SendEmail(f) \/ SendBulkEmail(f) \/ SendSuppressed(f) \/ QueueEmail(f)
                      \/ QueueEmailThrows(f) \/ QueueFailedStatus(f) \/ ApiCrash(f)
                      \/ QueueBulk(f) \/ QueueBulkThrows
        PROVE  events' = events
    BY <2>2 DEF SendEmail, SendBulkEmail, CreateRow, SendSuppressed, QueueEmail, QueueEmailThrows,
       QueueFailedStatus, ApiCrash, QueueBulk, QueueBulkThrows
  <2> QED
    BY <1>3, <2>1, <2>2 DEF ApiNext, ApiProgress
<1>4. CASE WorkerNext
  <2>1. ASSUME NEW f, NEW i, FailedEvent(f, i) PROVE events'[e][s] = events[e][s]
    BY <1>2, <2>1 DEF FailedEvent
  <2>2. ASSUME NEW f, Promote(f) \/ StartRun(f) \/ Stall(f) PROVE events' = events
    BY <2>2 DEF Promote, StartRun, Stall
  <2>3. ASSUME NEW f, NEW i, \/ NoConfigurationSet(f, i) \/ LoadThrows(f, i) \/ CheckLimit(f, i)
                             \/ FailedStatus(f, i) \/ SesAccepts(f, i) \/ SesThrows(f, i)
                             \/ RecordSesId(f, i) \/ WriteFails(f, i) \/ FinishRun(f, i)
        PROVE  events' = events
    BY <2>3 DEF NoConfigurationSet, LoadThrows, CheckLimit, FailedStatus, SesAccepts, SesThrows,
       RecordSesId, WriteFails, FinishRun
  <2> QED
    BY <1>4, <2>1, <2>2, <2>3 DEF WorkerNext, WorkerProgress, RunStep
<1>5. CASE RequestNext
  <2>1. ASSUME NEW r, CancelEvent(r) PROVE events'[e][s] = events[e][s]
    BY <1>2, <2>1 DEF CancelEvent
  <2>2. ASSUME NEW r, \/ BeginRequest(r) \/ RemoveJob(r) \/ CancelStatus(r) \/ UpdateRow(r)
                      \/ ChangeDelay(r) \/ RequestCrash(r)
        PROVE  events' = events
    BY <2>2 DEF BeginRequest, reqOnly, RemoveJob, CancelStatus, UpdateRow, ChangeDelay, RequestCrash
  <2> QED
    BY <1>5, <2>1, <2>2 DEF RequestNext, RequestProgress
<1> QED
  BY <1>3, <1>4, <1>5 DEF Next

LEMMA PipeEffectApi ==
  ASSUME PipeInv, ApiNext, NEW e \in Emails
  PROVE  PipeEffect(e)
<1>1. ApiOn(e)
  BY ApiMoves DEF PipeInv
<1>2. sesId' = sesId
  BY DEF ApiNext, ApiProgress, SendEmail, SendBulkEmail, CreateRow, SendSuppressed, SuppressedEvent,
     QueueEmail, QueueEmailThrows, QueueFailedEvent, QueueFailedStatus, ApiCrash, QueueBulk,
     QueueBulkThrows, storeVars
<1>3. Writes(e) /\ suffered[e] \subseteq suffered'[e]
  BY <1>1 DEF ApiOn, Created, SuppressedAtOnce, Queued, GivenUp, Dead, Same, Writes
<1> QED
  BY <1>1, <1>2, <1>3, NoReport DEF PipeEffect, ApiOn, PipeInv, Next

LEMMA PipeEffectWorker ==
  ASSUME PipeInv, NEW f \in Emails, WorkerProgress(f) \/ Stall(f), NEW e \in Emails
  PROVE  PipeEffect(e)
<1>0. TypeInv /\ OnlyOf(f) /\ Next
  BY WorkerOnlyOf DEF PipeInv, Next, WorkerNext
<1>1. /\ sesId \in [Emails -> Runs \cup {0}] /\ run \in [Emails -> [Runs -> RunStates]]
      /\ accepted \in [Emails -> SUBSET Runs]
  BY <1>0 DEF TypeInv, TypeOK, StoreTypeOK, PipeTypeOK
<1>2. \/ sesId' = sesId
      \/ \E i \in Runs : run[f][i] = "accepted" /\ sesId' = [sesId EXCEPT ![f] = i]
  <2>1. ASSUME NEW i \in Runs, RecordSesId(f, i)
        PROVE  run[f][i] = "accepted" /\ sesId' = [sesId EXCEPT ![f] = i]
    BY <2>1 DEF RecordSesId
  <2>2. ASSUME NEW i \in Runs, \/ NoConfigurationSet(f, i) \/ LoadThrows(f, i) \/ CheckLimit(f, i)
                               \/ FailedEvent(f, i) \/ FailedStatus(f, i) \/ SesAccepts(f, i)
                               \/ SesThrows(f, i) \/ WriteFails(f, i) \/ FinishRun(f, i)
        PROVE  sesId' = sesId
    BY <2>2 DEF NoConfigurationSet, LoadThrows, CheckLimit, FailedEvent, FailedStatus, SesAccepts,
       SesThrows, WriteFails, FinishRun, storeVars
  <2>3. Promote(f) \/ StartRun(f) \/ Stall(f) => sesId' = sesId
    BY DEF Promote, StartRun, Stall, storeVars
  <2> QED
    BY <2>1, <2>2, <2>3 DEF WorkerProgress, RunStep
<1>3. sesId'[e] = sesId[e] \/ \E i \in Runs : run[e][i] = "accepted" /\ sesId'[e] = i
  BY <1>1, <1>2
<1>4. CASE e # f
  BY <1>0, <1>3, <1>4, NoReport DEF OnlyOf, PipeEffect, Writes
<1>5. CASE e = f
  <2>1. suffered[e] \subseteq suffered'[e]
    BY <1>0, <1>5 DEF OnlyOf
  <2>2. /\ Writes(e) /\ accepted[e] \subseteq accepted'[e]
        /\ \A i \in Runs : run'[e][i] = "accepted" => run[e][i] = "accepted" \/ i \in accepted'[e]
    <3>1. CASE Promote(f)
      BY <1>5, <3>1 DEF Promote, Writes, storeVars
    <3>2. CASE StartRun(f)
      BY <1>1, <1>5, <3>2 DEF StartRun, SetRun, Writes, storeVars
    <3>3. CASE Stall(f)
      BY <1>1, <1>5, <3>3 DEF Stall, SetRun, Writes
    <3>4. ASSUME NEW i \in Runs, RunMoves(e, i)
          PROVE  /\ Writes(e) /\ accepted[e] \subseteq accepted'[e]
                 /\ \A j \in Runs : run'[e][j] = "accepted" => run[e][j] = "accepted" \/ j \in accepted'[e]
      <4>1. accepted[e] \subseteq accepted'[e] /\ Writes(e)
        BY <3>4 DEF RunMoves, GivesUpLoading, GoesOn, GivesUp, Sends, CannotWrite, Ends, Writes
      <4>2. ASSUME NEW j \in Runs, run'[e][j] = "accepted" PROVE run[e][j] = "accepted" \/ j \in accepted'[e]
        BY <3>4, <4>2
        DEF RunMoves, GivesUpLoading, GoesOn, GivesUp, Sends, CannotWrite, Ends, RunGoesTo
      <4> QED
        BY <4>1, <4>2
    <3> QED
      BY <1>0, <1>5, <3>1, <3>2, <3>3, <3>4, RunStepMoves DEF WorkerProgress
  <2> QED
    BY <1>0, <1>3, <2>1, <2>2, NoReport DEF PipeEffect
<1> QED
  BY <1>4, <1>5

LEMMA PipeEffectRequest ==
  ASSUME PipeInv, NEW r \in Requests, BeginRequest(r) \/ RequestProgress(r) \/ RequestCrash(r),
         NEW e \in Emails
  PROVE  PipeEffect(e)
<1>0. TypeInv /\ Next
  BY DEF PipeInv, Next, RequestNext
<1>1. /\ status \in [Emails -> EmailStatuses \cup {"absent"}] /\ suffered \in [Emails -> SUBSET FaultKinds]
      /\ req[r].email \in Emails
  BY <1>0 DEF TypeInv, TypeOK, StoreTypeOK, PipeTypeOK
<1>2. UNCHANGED << api, run, accepted, sesId >>
  BY DEF BeginRequest, reqOnly, storeVars, RequestProgress, RemoveJob, CancelStatus, CancelEvent,
     UpdateRow, ChangeDelay, RequestCrash
<1>3. suffered[e] \subseteq suffered'[e]
  BY <1>1 DEF BeginRequest, reqOnly, storeVars, RequestProgress, RemoveJob, CancelStatus, CancelEvent,
     UpdateRow, ChangeDelay, RequestCrash, Suffer
<1>4. Writes(e)
  BY <1>1 DEF BeginRequest, reqOnly, storeVars, RequestProgress, RemoveJob, CancelStatus, CancelEvent,
     UpdateRow, ChangeDelay, RequestCrash, SetStatus, Writes
<1> QED
  BY <1>0, <1>2, <1>3, <1>4, NoReport DEF PipeEffect

\* What the invariant says of a row that is about to be written as failed, or
\* whose job a cancel took.
LEMMA RowAtRisk ==
  ASSUME PipeInv, NEW e \in Emails, Free(e, {"stall", "db"})
  PROVE  /\ \A i \in Runs : run[e][i] \in {"limitEvent", "failEvent"} =>
              /\ job[e] = "active" /\ Withdrawers(e) = {} /\ ~Unqueued(e)
              /\ status[e] # "CANCELLED" /\ status[e] # "SUPPRESSED"
              /\ \A j \in Runs \ {i} : run[e][j] = "idle"
         /\ Withdrawers(e) # {} => accepted[e] = {}
<1>1. AgreeOf(e) /\ UnsentOf(e)
  BY DEF PipeInv, AgreeInv, UnsentInv
<1>2. Withdrawers(e) # {} => Asked(e)
  BY DEF Withdrawers, Asked
<1>3. ASSUME NEW i \in Runs, run[e][i] \in {"limitEvent", "failEvent"}
      PROVE  /\ job[e] = "active" /\ Withdrawers(e) = {} /\ ~Unqueued(e)
             /\ status[e] # "CANCELLED" /\ status[e] # "SUPPRESSED"
             /\ \A j \in Runs \ {i} : run[e][j] = "idle"
  <2>1. job[e] = "active"
    BY <1>1, <1>3 DEF UnsentOf, RunHasJob, Free
  <2>2. ~Asked(e)
    BY <1>1, <2>1 DEF UnsentOf, WithdrawnIsOut
  <2>3. ~Unqueued(e) /\ status[e] # "SUPPRESSED"
    BY <1>1, <1>3 DEF UnsentOf, UnqueuedIsIdle, AgreeOf, SuppressedIsOut
  <2>4. \A j \in Runs \ {i} : run[e][j] = "idle"
    BY <1>3, OneRun DEF PipeInv, Free
  <2> QED
    BY <1>2, <2>1, <2>2, <2>3, <2>4 DEF Asked
<1> QED
  BY <1>1, <1>2, <1>3 DEF UnsentOf, WithdrawnIsOut

LEMMA FailedIsFinalApi ==
  ASSUME PipeInv, RowsInv, ApiNext, NEW e \in Emails
  PROVE  Begun(e)' /\ FailedIsFinal(e)'
<1>1. ApiOn(e) /\ AgreeOf(e) /\ UnsentOf(e) /\ Begun(e) /\ FailedIsFinal(e)
  BY ApiMoves DEF PipeInv, AgreeInv, UnsentInv, RowsInv, RowOf
<1>2. Withdrawers(e)' = Withdrawers(e)
  BY <1>1 DEF ApiOn, Withdrawers
<1>3. Unqueued(e) => job[e] = "none" /\ Withdrawers(e) = {} /\ \A i \in Runs : run[e][i] = "idle"
  BY <1>1 DEF UnsentOf, UnqueuedIsIdle, AgreeOf, TakenOnce, Taken
<1>4. Begun(e)'
  BY <1>1 DEF ApiOn, Created, SuppressedAtOnce, Queued, GivenUp, Dead, Same, Begun, Unqueued, Early, Free
<1>5. FailedIsFinal(e)'
  <2> USE DEF FailedIsFinal, Unqueued, Early, Free
  <2>1. CASE Created(e) \/ SuppressedAtOnce(e)
    BY <2>1 DEF Created, SuppressedAtOnce
  <2>2. CASE Queued(e)
    BY <1>1, <2>2 DEF Queued
  <2>3. CASE GivenUp(e)
    BY <1>1, <1>2, <1>3, <2>3 DEF ApiOn, GivenUp
  <2>4. CASE Dead(e)
    BY <1>1, <1>2, <2>4 DEF ApiOn, Dead
  <2>5. CASE Same(e) /\ suffered'[e] = suffered[e]
    BY <1>1, <1>2, <2>5 DEF ApiOn, Same
  <2> QED
    BY <1>1, <2>1, <2>2, <2>3, <2>4, <2>5 DEF ApiOn
<1> QED
  BY <1>4, <1>5

LEMMA FailedIsFinalWorker ==
  ASSUME PipeInv, RowsInv, NEW f \in Emails, WorkerProgress(f) \/ Stall(f), NEW e \in Emails
  PROVE  Begun(e)' /\ FailedIsFinal(e)'
<1>0. TypeInv /\ OnlyOf(f) /\ Begun(e) /\ FailedIsFinal(e)
  BY WorkerOnlyOf DEF PipeInv, RowsInv, RowOf
<1>1. /\ job \in [Emails -> JobStates] /\ run \in [Emails -> [Runs -> RunStates]]
      /\ suffered \in [Emails -> SUBSET FaultKinds]
  BY <1>0 DEF TypeInv, TypeOK, StoreTypeOK, PipeTypeOK
<1>2. /\ Withdrawers(e)' = Withdrawers(e) /\ (Unqueued(e)' => Unqueued(e)) /\ api' = api
      /\ suffered[e] \subseteq suffered'[e]
  BY <1>0 DEF OnlyOf, Withdrawers, Unqueued, Early, Free
<1>3. CASE e # f
  BY <1>0, <1>2, <1>3 DEF OnlyOf, Begun, FailedIsFinal, Free
<1>4. CASE e = f
  <2>1. CASE Promote(e) \/ StartRun(e)
    BY <1>0, <1>1, <1>2, <2>1 DEF Promote, StartRun, storeVars, Begun, FailedIsFinal, Free
  <2>2. CASE Stall(e)
    <3>1. "stall" \in suffered'[e] /\ status'[e] = status[e]
      BY <1>1, <2>2 DEF Stall, Suffer
    <3> QED
      BY <1>0, <1>2, <3>1 DEF Begun, FailedIsFinal, Free
  <2>3. ASSUME NEW i \in Runs, RunMoves(e, i) PROVE Begun(e)' /\ FailedIsFinal(e)'
    <3>1. CASE GivesUp(e, i)
      <4>1. Begun(e)'
        BY <3>1 DEF GivesUp, Begun
      <4>2. FailedIsFinal(e)'
        <5> SUFFICES ASSUME Free(e, {"stall", "db"})
                     PROVE  /\ ~Unqueued(e)' /\ job'[e] \notin {"delayed", "waiting", "failed"}
                            /\ Withdrawers(e)' = {}
                            /\ \A j \in Runs : run'[e][j] \in {"idle", "returned", "done"}
          BY <1>2 DEF FailedIsFinal, Free
        <5>1. /\ job[e] = "active" /\ Withdrawers(e) = {} /\ ~Unqueued(e)
              /\ \A j \in Runs \ {i} : run[e][j] = "idle"
          BY <3>1, RowAtRisk DEF GivesUp
        <5> QED
          BY <1>2, <3>1, <5>1 DEF GivesUp, RunGoesTo
      <4> QED
        BY <4>1, <4>2
    <3>2. CASE Ends(e, i)
      BY <1>0, <1>2, <3>2 DEF Ends, RunGoesTo, Begun, FailedIsFinal, Free
    <3>3. CASE GivesUpLoading(e, i) \/ GoesOn(e, i) \/ Sends(e, i) \/ CannotWrite(e, i)
      <4>1. status'[e] = status[e] /\ run[e][i] \notin {"idle", "done"} /\ job'[e] = job[e]
        BY <3>3 DEF GivesUpLoading, GoesOn, Sends, CannotWrite
      <4>2. run[e][i] # "returned"
        BY <3>3 DEF GivesUpLoading, GoesOn, Sends, CannotWrite
      <4> QED
        BY <1>0, <1>2, <4>1, <4>2 DEF Begun, FailedIsFinal, Free
    <3> QED
      BY <2>3, <3>1, <3>2, <3>3 DEF RunMoves
  <2> QED
    BY <1>0, <1>4, <2>1, <2>2, <2>3, RunStepMoves DEF WorkerProgress
<1> QED
  BY <1>3, <1>4

LEMMA FailedIsFinalRequest ==
  ASSUME PipeInv, RowsInv, NEW r \in Requests, BeginRequest(r) \/ RequestProgress(r) \/ RequestCrash(r),
         NEW e \in Emails
  PROVE  Begun(e)' /\ FailedIsFinal(e)'
<1>0. /\ job \in [Emails -> JobStates] /\ status \in [Emails -> EmailStatuses \cup {"absent"}]
      /\ req \in [Requests -> [pc : ReqStates, op : ReqOps, email : Emails, at : Times \cup {0}]]
      /\ req[r].email \in Emails
  BY DEF PipeInv, TypeInv, TypeOK, StoreTypeOK, PipeTypeOK
<1>1. UNCHANGED << api, run >>
  BY DEF BeginRequest, reqOnly, storeVars, RequestProgress, RemoveJob, CancelStatus, CancelEvent,
     UpdateRow, ChangeDelay, RequestCrash
<1>2. PipeEffect(e) /\ Begun(e) /\ FailedIsFinal(e) /\ AgreeOf(e)
  BY PipeEffectRequest DEF RowsInv, RowOf, PipeInv, AgreeInv
<1>3. suffered[e] \subseteq suffered'[e] /\ (Unqueued(e)' => Unqueued(e))
  BY <1>1, <1>2 DEF PipeEffect, Unqueued, Early, Free
<1>4. \/ status'[e] = status[e]
      \/ status'[e] = "CANCELLED" /\ Taken(e)
  BY <1>0 DEF BeginRequest, reqOnly, storeVars, RequestProgress, RemoveJob, CancelStatus, CancelEvent,
     UpdateRow, ChangeDelay, RequestCrash, SetStatus, Taken, Withdrawers
<1>5. Begun(e)'
  BY <1>1, <1>2, <1>3, <1>4 DEF Begun, AgreeOf, TakenOnce
<1>6. \/ job'[e] = job[e] /\ Withdrawers(e)' \subseteq Withdrawers(e)
      \/ job[e] \in {"delayed", "waiting", "failed"}
  <2>1. ASSUME NEW s, SetReq(r, s), \/ e # req[r].email \/ s \notin {"removed", "cancelled"}
                                   \/ req[r].pc \in {"removed", "cancelled"}
        PROVE  Withdrawers(e)' \subseteq Withdrawers(e)
    BY <1>0, <2>1 DEF SetReq, Withdrawers
  <2>2. CASE BeginRequest(r)
    BY <1>0, <2>2 DEF BeginRequest, reqOnly, Withdrawers
  <2>3. CASE RemoveJob(r)
    <3>1. CASE e # req[r].email
      BY <1>0, <2>1, <2>3, <3>1 DEF RemoveJob, SetJob
    <3>2. CASE e = req[r].email
      BY <2>1, <2>3, <3>2 DEF RemoveJob
    <3> QED
      BY <3>1, <3>2
  <2>4. CASE CancelStatus(r) \/ CancelEvent(r) \/ UpdateRow(r) \/ ChangeDelay(r) \/ RequestCrash(r)
    BY <2>1, <2>4 DEF CancelStatus, CancelEvent, UpdateRow, ChangeDelay, RequestCrash
  <2> QED
    BY <2>2, <2>3, <2>4 DEF RequestProgress
<1>7. FailedIsFinal(e)'
  BY <1>1, <1>2, <1>3, <1>4, <1>6 DEF FailedIsFinal, Free
<1> QED
  BY <1>5, <1>7

LEMMA DeliveryPipe ==
  ASSUME DeliveryInv, Next, UNCHANGED hookVars
  PROVE  DeliveryInv'
<1>1. PipeInv /\ TypeInv /\ HandlersInv /\ HookTyped /\ RowsInv /\ ReportsInv
  BY DEF DeliveryInv, PipeInv, HandlersInv
<1>2. PipeInv'
  BY <1>1, PipeInvStep
<1>3. ASSUME NEW e \in Emails PROVE PipeEffect(e) /\ Begun(e)' /\ FailedIsFinal(e)'
  BY <1>1, PipeEffectApi, PipeEffectWorker, PipeEffectRequest, FailedIsFinalApi, FailedIsFinalWorker,
     FailedIsFinalRequest DEF Next, WorkerNext, RequestNext
<1>4. hook' = hook
  BY DEF hookVars
<1>5. \A e \in Emails : accepted[e] \subseteq Runs /\ sesId[e] \in Runs \cup {0}
  BY <1>1 DEF TypeInv, TypeOK, StoreTypeOK
<1>6. 0 \notin Runs
  BY DEF Runs
<1>7. ASSUME NEW e \in Emails PROVE sesId[e] # 0 => sesId'[e] # 0
  BY <1>3, <1>6 DEF PipeEffect
<1>8. HandlersInv'
  <2>1. ASSUME NEW n \in Notifications PROVE AboutAccepted(n)' /\ FoundHasId(n)'
    <3>1. hook[n].pc # "new" => hook[n].email \in Emails
      BY <1>1, NoticeStatus DEF EmailOf
    <3>2. AboutAccepted(n) /\ FoundHasId(n)
      BY <1>1 DEF HandlersInv
    <3> QED
      BY <1>3, <1>4, <1>7, <3>1, <3>2 DEF PipeEffect, AboutAccepted, FoundHasId
  <2> QED
    BY <1>1, <1>4, <2>1 DEF HandlersInv, HookTyped
<1>9. ASSUME NEW e \in Emails PROVE ReportsHaveSource(e)' /\ Shown(e)'
  <2>0. ReportsHaveSource(e) /\ Shown(e) /\ PipeEffect(e) /\ Begun(e)
    BY <1>1, <1>3 DEF RowsInv, RowOf, ReportsInv
  <2>1. status'[e] = status[e] \/ status'[e] \in {"QUEUED", "SCHEDULED", "SUPPRESSED", "FAILED", "CANCELLED"}
    BY <2>0 DEF PipeEffect, Writes
  <2>2. ReportsHaveSource(e)'
    <3>1. sesId'[e] \in accepted'[e] \cup {0}
      BY <2>0 DEF PipeEffect, ReportsHaveSource
    <3>2. \A i \in Runs : run'[e][i] = "accepted" => i \in accepted'[e]
      BY <2>0 DEF PipeEffect, ReportsHaveSource
    <3>3. status'[e] \in HookStatuses => status'[e] = status[e]
      BY <2>1 DEF HookStatuses
    <3> QED
      BY <1>7, <2>0, <3>1, <3>2, <3>3 DEF PipeEffect, ReportsHaveSource
  <2>3. Shown(e)'
    <3> SUFFICES ASSUME NEW s \in Reported(e)', Free(e, {"stall", "db"})'
                 PROVE  Rank(status'[e]) >= Rank(s)
      BY DEF Shown
    <3>1. HookTyped' /\ IsReported(e, s)'
      BY <1>8, ReportedIsNext DEF HandlersInv
    <3>2. IsReported(e, s)
      BY <1>4, <2>0, <3>1 DEF IsReported, PipeEffect, InForce, EmailOf, StatusOf
    <3>3. s \in Reported(e) /\ s \in HookStatuses /\ accepted[e] # {}
      <4>1. s \in Reported(e)
        BY <1>1, <3>2, ReportedIs
      <4>2. ASSUME NEW n \in Notifications, InForce(n), EmailOf(n) = e, StatusOf(n) = s
            PROVE  s \in HookStatuses /\ accepted[e] # {}
        BY <1>1, <4>2, NoticeStatus DEF InForce, HandlersInv, AboutAccepted, EmailOf
      <4> QED
        BY <2>0, <3>2, <4>1, <4>2 DEF IsReported, ReportsHaveSource
    <3>4. Free(e, {"stall", "db"})
      BY <2>0 DEF PipeEffect, Free
    <3>5. Rank(status[e]) >= Rank(s)
      BY <2>0, <3>3, <3>4 DEF Shown
    <3>6. api[e] # "idle" /\ ~ \E r \in Requests : req[r].email = e /\ req[r].pc = "removed"
      BY <1>1, <3>3, <3>4, AcceptedIsQueued, RowAtRisk DEF Withdrawers
    <3>7. Rank("FAILED") >= Rank(s)
      BY <3>3, Ranks DEF HookStatuses
    <3> QED
      BY <2>0, <3>5, <3>6, <3>7 DEF PipeEffect, Writes
  <2> QED
    BY <2>2, <2>3
<1>10. ASSUME NEW r \in Requests PROVE AskedOfScheduled(r)'
  <2>1. req[r].email \in Emails
    BY <1>1 DEF TypeInv, TypeOK, PipeTypeOK
  <2>2. RequestInOrder(r) /\ AskedOfScheduled(r)
    BY <1>1 DEF PipeInv, AgreeInv, RowsInv
  <2>3. CASE req'[r].pc # "new" /\ (req[r].pc = "new" \/ req'[r].email # req[r].email)
    <3>1. status[req'[r].email] = "SCHEDULED" /\ status' = status
      <4>1. req \in [Requests -> [pc : ReqStates, op : ReqOps, email : Emails, at : Times \cup {0}]]
        BY <1>1 DEF TypeInv, TypeOK, PipeTypeOK
      <4>2. ApiNext => req' = req
        BY ApiMoves, <1>1, <2>1 DEF ApiOn
      <4>3. WorkerNext => req' = req
        BY WorkerOnlyOf, <1>1 DEF OnlyOf, WorkerNext
      <4>4. PICK q \in Requests : BeginRequest(q) \/ RequestProgress(q) \/ RequestCrash(q)
        BY <2>3, <4>2, <4>3 DEF Next, RequestNext
      <4>5. ASSUME NEW s, SetReq(q, s), req[q].pc # "new" PROVE FALSE
        BY <2>3, <4>1, <4>5 DEF SetReq
      <4>6. BeginRequest(q)
        BY <4>4, <4>5, <1>1
        DEF RequestProgress, RemoveJob, CancelStatus, CancelEvent, UpdateRow, ChangeDelay, RequestCrash
      <4> QED
        BY <2>3, <4>1, <4>6 DEF BeginRequest, reqOnly, storeVars
    <3> QED
      BY <3>1 DEF AskedOfScheduled
  <2>4. CASE req'[r].email = req[r].email /\ (req'[r].pc # "new" => req[r].pc # "new")
    BY <1>3, <2>1, <2>2, <2>4 DEF AskedOfScheduled, RequestInOrder, PipeEffect, Writes
  <2>5. CASE req'[r].pc = "new"
    BY <2>5 DEF AskedOfScheduled
  <2> QED
    BY <2>3, <2>4, <2>5
<1> QED
  BY <1>2, <1>3, <1>8, <1>9, <1>10 DEF DeliveryInv, RowsInv, RowOf, ReportsInv

-----------------------------------------------------------------------------
LEMMA DeliveryInvInit == DeliveryInit => DeliveryInv
<1> SUFFICES ASSUME DeliveryInit PROVE DeliveryInv
  OBVIOUS
<1>1. PipeInv
  BY TypeInvInit, RunsInvInit, UnsentInit, AgreeInit DEF DeliveryInit, PipeInv
<1>2. HookTyped /\ \A n \in Notifications : hook[n].pc = "new"
  BY DEF DeliveryInit, HookInit, HookTyped, HookRecords
<1>3. HandlersInv
  BY <1>2 DEF HandlersInv, AboutAccepted, FoundHasId
<1>4. ASSUME NEW e \in Emails PROVE RowOf(e) /\ Shown(e)
  <2>1. /\ status[e] = "absent" /\ sesId[e] = 0 /\ api[e] = "idle"
        /\ \A i \in Runs : run[e][i] = "idle"
        /\ \A s \in HookStatuses : events[e][s] = 0
    BY StatusNames DEF DeliveryInit, Init, StoreInit, PipeInit, HookStatuses
  <2>2. \A s : ~IsReported(e, s)
    BY <1>2, <2>1 DEF IsReported, InForce
  <2>3. Shown(e)
    BY <1>2, <2>2, ReportedIs DEF Shown
  <2> QED
    BY <2>1, <2>3 DEF RowOf, ReportsHaveSource, Begun, FailedIsFinal, HookStatuses
<1>5. \A r \in Requests : AskedOfScheduled(r)
  BY DEF DeliveryInit, Init, PipeInit, NewRequest, AskedOfScheduled
<1> QED
  BY <1>1, <1>3, <1>4, <1>5 DEF DeliveryInv, RowsInv, ReportsInv

LEMMA DeliveryInvStep == DeliveryInv /\ [DeliveryNext]_allVars => DeliveryInv'
<1>1. DeliveryInv /\ UNCHANGED allVars => DeliveryInv'
  <2> SUFFICES ASSUME DeliveryInv, UNCHANGED allVars PROVE DeliveryInv'
    OBVIOUS
  <2>1. UNCHANGED vars /\ UNCHANGED hook /\ UNCHANGED << storeVars, pipeVars >>
    BY DEF allVars, vars, hookVars
  <2>2. PipeInv'
    BY <2>1, PipeInvStep DEF DeliveryInv
  <2>3. HandlersInv'
    BY <2>1 DEF DeliveryInv, HandlersInv, HookTyped, AboutAccepted, FoundHasId, storeVars
  <2>4. RowsInv'
    BY <2>1 DEF DeliveryInv, RowsInv, RowOf, ReportsHaveSource, Begun, FailedIsFinal, AskedOfScheduled,
       Unqueued, Early, Free, Withdrawers, storeVars, pipeVars
  <2>5. ReportsInv'
    BY <2>1 DEF DeliveryInv, ReportsInv, Shown, Free, Reported, Handling, StatusOf, storeVars
  <2> QED
    BY <2>2, <2>3, <2>4, <2>5 DEF DeliveryInv
<1> QED
  BY <1>1, DeliveryPipe, DeliveryHook DEF DeliveryNext

LEMMA DeliveryInvAlways == DeliverySpec => []DeliveryInv
  BY DeliveryInvInit, DeliveryInvStep, PTL DEF DeliverySpec

(***************************************************************************)
(* With the handlers of notifications writing the same rows, the pipeline  *)
(* keeps all that it keeps alone.                                          *)
(***************************************************************************)
THEOREM DeliveryKeepsPipeline ==
  DeliverySpec => [](TypeOK /\ NoDuplicateSend /\ UnsentStaysUnsent /\ RowsAndJobsAgree)
<1>1. DeliveryInv => TypeOK /\ NoDuplicateSend /\ UnsentStaysUnsent /\ RowsAndJobsAgree
  BY NoDuplicateIn, UnsentIn, RowsAgreeIn DEF DeliveryInv, PipeInv, TypeInv
<1> QED
  BY <1>1, DeliveryInvAlways, PTL

(***************************************************************************)
(* What a row shows is what SES reported, of one of its own messages, and  *)
(* SES has nothing to report of what was suppressed or withdrawn, short of *)
(* a stall or a lost write.                                                *)
(***************************************************************************)
THEOREM ReportsAlwaysAgree == DeliverySpec => []ReportsAgree
<1>1. DeliveryInv => ReportsAgree
  <2> SUFFICES ASSUME DeliveryInv PROVE ReportsAgree
    OBVIOUS
  <2>1. ASSUME NEW e \in Emails, NEW s \in Reported(e) PROVE accepted[e] # {} /\ sesId[e] # 0
    <3>1. IsReported(e, s)
      BY <2>1, ReportedIs DEF DeliveryInv, HandlersInv
    <3>2. ASSUME NEW n \in Notifications, InForce(n), EmailOf(n) = e PROVE accepted[e] # {} /\ sesId[e] # 0
      BY <3>2 DEF DeliveryInv, HandlersInv, AboutAccepted, FoundHasId, InForce, EmailOf
    <3> QED
      BY <3>1, <3>2 DEF IsReported, DeliveryInv, RowsInv, RowOf, ReportsHaveSource
  <2>2. ReportsAreShown
    BY DEF DeliveryInv, ReportsInv, Shown, ReportsAreShown, Free, Met
  <2>3. WithdrawnHasNoReport
    <3> SUFFICES ASSUME NEW e \in Emails, Reported(e) # {}
                 PROVE  status[e] # "SUPPRESSED" /\ (Withdrawn(e) => Met(e, {"stall", "db"}))
      BY DEF WithdrawnHasNoReport
    <3>1. accepted[e] # {} /\ UnsentOf(e) /\ PipeInv
      BY <2>1 DEF DeliveryInv, PipeInv, UnsentInv
    <3>2. Withdrawn(e) => Asked(e)
      BY DEF Withdrawn, Withdrawers, Asked
    <3> QED
      BY <3>1, <3>2, AcceptedIsQueued DEF UnsentOf, WithdrawnIsOut, Free, Met
  <2>4. ReportsAreTraceable
    BY <2>1 DEF DeliveryInv, RowsInv, RowOf, ReportsHaveSource, ReportsAreTraceable
  <2> QED
    BY <2>2, <2>3, <2>4 DEF ReportsAgree
<1> QED
  BY <1>1, DeliveryInvAlways, PTL

-----------------------------------------------------------------------------
\* Of one email, a status is neither taken back nor led out of a final one.
Advances(e) ==
  /\ status[e] # "absent" /\ Rank(status'[e]) < Rank(status[e]) => Met(e, {"stall", "db", "redis"})
  /\ status[e] \in {"FAILED", "CANCELLED", "SUPPRESSED"}
       => status'[e] = status[e] \/ Met(e, {"stall", "redis", "db"})

LEMMA HookAdvances ==
  ASSUME DeliveryInv, HookNext, NEW e \in Emails
  PROVE  Advances(e)
<1>1. PICK n \in Notifications : Notify(n) \/ HookProgress(n) \/ HookFails(n) \/ HookStalls(n)
  BY DEF HookNext
<1>2. PipeInv /\ TypeInv /\ HandlersInv /\ HookTyped /\ Begun(e) /\ UnsentOf(e)
  BY DEF DeliveryInv, PipeInv, HandlersInv, RowsInv, RowOf, UnsentInv
<1>3. status[e] \in EmailStatuses \cup {"absent"}
  BY <1>2 DEF TypeInv, TypeOK, StoreTypeOK
<1>4. status[e] # "absent" => Rank(status[e]) \in Int
  BY <1>3, Ranks, StatusNames
<1>5. \/ status'[e] = status[e]
      \/ accepted[e] # {} /\ hook[n].pc = "checked" /\ status'[e] = Advance(status[e], StatusOf(n))
  BY <1>1, <1>2, HookMoves DEF HookEffect
<1>6. CASE status'[e] = status[e]
  BY <1>4, <1>6 DEF Advances
<1>7. CASE accepted[e] # {} /\ hook[n].pc = "checked" /\ status'[e] = Advance(status[e], StatusOf(n))
  <2>1. status[e] \in EmailStatuses /\ status[e] # "SUPPRESSED" /\ StatusOf(n) \in HookStatuses
    BY <1>2, <1>3, <1>7, AcceptedIsQueued, NoticeStatus DEF Begun
  <2>2. Rank(status'[e]) >= Rank(status[e]) /\ status'[e] \in {status[e], StatusOf(n)}
    BY <1>7, <2>1, AdvanceRises
  <2>3. status'[e] \in EmailStatuses
    BY <2>1, <2>2, StatusNames DEF HookStatuses
  <2>4. Rank(status[e]) \in Int /\ Rank(status'[e]) \in Int
    BY <2>1, <2>3, Ranks, StatusNames
  <2>5. status[e] = "FAILED" => status'[e] = status[e]
    BY <2>1, <2>2, <2>4, Ranks DEF HookStatuses
  <2>6. status[e] = "CANCELLED" => Met(e, {"stall", "redis", "db"})
    BY <1>2, <1>7 DEF UnsentOf, WithdrawnIsOut, Asked, Free, Met
  <2> QED
    BY <2>1, <2>2, <2>4, <2>5, <2>6 DEF Advances
<1> QED
  BY <1>5, <1>6, <1>7

LEMMA PipeAdvances ==
  ASSUME DeliveryInv, Next, NEW e \in Emails
  PROVE  Advances(e)
<1>1. /\ PipeInv /\ TypeInv /\ Begun(e) /\ FailedIsFinal(e) /\ ReportsHaveSource(e) /\ AgreeOf(e)
      /\ \A r \in Requests : AskedOfScheduled(r)
  BY DEF DeliveryInv, PipeInv, RowsInv, RowOf, AgreeInv
<1>2. status[e] \in EmailStatuses \cup {"absent"}
  BY <1>1 DEF TypeInv, TypeOK, StoreTypeOK
<1>3. Writes(e)
  BY <1>1, PipeEffectApi, PipeEffectWorker, PipeEffectRequest DEF PipeEffect, Next, WorkerNext, RequestNext
<1> SUFFICES ASSUME Free(e, {"stall", "db", "redis"}), status'[e] # status[e], status[e] # "absent"
             PROVE  Advances(e)
  <2>1. Rank(status[e]) \in Int \/ status[e] = "absent"
    BY <1>2, Ranks, StatusNames
  <2> QED
    BY <2>1 DEF Advances, Free, Met
<1>4. CASE api[e] = "idle"
  BY <1>1, <1>4 DEF AgreeOf, NewIsAbsent
<1>5. CASE /\ status'[e] = "FAILED"
           /\ api[e] = "failEvent" \/ \E i \in Runs : run[e][i] \in {"limitEvent", "failEvent"}
  <2>1. status[e] # "SUPPRESSED" /\ status[e] # "CANCELLED"
    <3>1. CASE api[e] = "failEvent"
      BY <1>1, <3>1 DEF Begun, Unqueued, Free, AgreeOf, SuppressedIsOut
    <3>2. CASE \E i \in Runs : run[e][i] \in {"limitEvent", "failEvent"}
      BY <1>1, <3>2, RowAtRisk DEF Free
    <3> QED
      BY <1>5, <3>1, <3>2
  <2>2. Rank(status'[e]) >= Rank(status[e]) /\ Rank(status[e]) \in Int /\ Rank(status'[e]) \in Int
    BY <1>2, <1>5, <2>1, Ranks, StatusNames
  <2> QED
    BY <1>5, <2>1, <2>2 DEF Advances
<1>6. ASSUME status'[e] = "CANCELLED", NEW r \in Requests, req[r].email = e, req[r].pc = "removed"
      PROVE  Advances(e)
  <2>1. r \in Withdrawers(e)
    BY <1>6 DEF Withdrawers
  <2>2. accepted[e] = {}
    BY <1>1, <2>1, RowAtRisk DEF Free
  <2>3. status[e] \notin HookStatuses /\ status[e] # "FAILED" /\ status[e] # "QUEUED"
    BY <1>1, <1>6, <2>1, <2>2 DEF ReportsHaveSource, FailedIsFinal, AskedOfScheduled
  <2>4. status[e] # "SUPPRESSED"
    BY <1>1, <2>1 DEF AgreeOf, SuppressedIsOut, Taken
  <2>5. status[e] = "SCHEDULED"
    BY <1>2, <1>6, <2>3, <2>4, StatusNames DEF HookStatuses
  <2> QED
    BY <1>6, <2>5, Ranks DEF Advances
<1> QED
  BY <1>3, <1>4, <1>5, <1>6 DEF Writes

(***************************************************************************)
(* Whoever of worker, API and handler writes last, a status that was shown *)
(* is not taken back, in the order of Postgres's enum or out of a final    *)
(* one, unless the email's job was in the queue though a run of it reached *)
(* SES or its enqueue was reported as failed.                              *)
(***************************************************************************)
THEOREM StatusAlwaysAdvances == DeliverySpec => StatusOnlyAdvances
<1> DEFINE Regress == \A e \in Emails :
             status[e] # "absent" /\ Rank(status'[e]) < Rank(status[e]) => Met(e, {"stall", "db", "redis"})
           Sticks == \A e \in Emails :
             status[e] \in {"FAILED", "CANCELLED", "SUPPRESSED"}
               => status'[e] = status[e] \/ Met(e, {"stall", "redis", "db"})
<1>1. DeliveryInv /\ [DeliveryNext]_allVars => [Regress]_allVars /\ [Sticks]_vars
  <2>1. DeliveryInv /\ DeliveryNext => Regress /\ Sticks
    BY HookAdvances, PipeAdvances DEF DeliveryNext, Advances
  <2>2. UNCHANGED allVars => UNCHANGED vars
    BY DEF allVars, vars, hookVars
  <2> QED
    BY <2>1, <2>2
<1>2. DeliverySpec => [][Regress]_allVars /\ [][Sticks]_vars
  BY <1>1, DeliveryInvAlways, PTL DEF DeliverySpec
<1> QED
  BY <1>2 DEF StatusOnlyAdvances, StatusNeverRegresses, FinalStatusSticks

-----------------------------------------------------------------------------
LEMMA OutcomeHook ==
  ASSUME DeliveryInv, HookNext, UNCHANGED pipeVars
  PROVE  OutcomeStep
<1>1. PICK n \in Notifications : Notify(n) \/ HookProgress(n) \/ HookFails(n) \/ HookStalls(n)
  BY DEF HookNext
<1>2. PipeInv /\ HookEffect(n) /\ HookTyped
  BY <1>1, HookMoves DEF DeliveryInv, PipeInv, HandlersInv
<1>3. ASSUME NEW e \in Emails PROVE Kept(e) \/ Excused(e)
  <2>1. suffered'[e] = suffered[e] \/ suffered'[e] # {}
    BY <1>2 DEF HookEffect
  <2>2. CASE suffered'[e] # {}
    BY <2>2, OutcomeExcused
  <2>3. CASE suffered'[e] = {} /\ suffered'[e] = suffered[e]
    <3>1. UNCHANGED << api, accepted, req >>
      BY <1>2 DEF HookEffect, pipeVars
    <3>2. \/ status'[e] = status[e]
          \/ accepted[e] # {} /\ hook[n].pc = "checked" /\ status'[e] = Advance(status[e], StatusOf(n))
      BY <1>2 DEF HookEffect
    <3>3. ASSUME status'[e] # status[e] PROVE Kept(e)
      <4>1. StatusOf(n) \in HookStatuses /\ status'[e] = StatusOf(n) /\ accepted[e] # {}
        BY <1>2, <3>2, <3>3, NoticeStatus DEF Advance
      <4>2. api[e] # "idle" /\ status[e] # "SUPPRESSED" /\ status'[e] # "SUPPRESSED"
        BY <1>2, <4>1, AcceptedIsQueued DEF HookStatuses
      <4>3. OutcomeOf(e) = "sent" /\ OutcomeOf(e)' = "sent"
        BY <2>3, <3>1, <4>1, <4>2 DEF OutcomeOf
      <4> QED
        BY <4>3 DEF Kept
    <3>4. Taken(e)' <=> Taken(e)
      <4>1. events'[e]["CANCELLED"] = events[e]["CANCELLED"]
        BY <1>2, NoticeStatus, StatusNames DEF HookEffect, HookStatuses
      <4> QED
        BY <3>1, <4>1 DEF Taken, Withdrawers
    <3>5. CASE status'[e] = status[e]
      BY <2>3, <3>1, <3>4, <3>5, OutcomeFrame
    <3> QED
      BY <3>3, <3>5
  <2> QED
    BY <2>1, <2>2, <2>3
<1> QED
  BY <1>3, OutcomeBatch

(***************************************************************************)
(* Also with notifications being handled, an email that meets no fault is  *)
(* resolved at most once and for good: the safety half of                  *)
(* ImplementsOutcome, for the specification the run checks it of.          *)
(***************************************************************************)
THEOREM DeliveryImplementsOutcome ==
  DeliverySpec => Outcome!Init /\ [][Outcome!Next]_[e \in Emails |-> OutcomeOf(e)]
<1>1. DeliveryInit => Outcome!Init
  BY OutcomeInit DEF DeliveryInit
<1>2. DeliveryInv /\ [DeliveryNext]_allVars => OutcomeStep
  <2>1. UNCHANGED allVars => UNCHANGED vars
    BY DEF allVars, vars, hookVars
  <2> QED
    BY <2>1, OutcomeHook, OutcomePipe DEF DeliveryNext, DeliveryInv
<1>3. OutcomeStep => [Outcome!Next]_[e \in Emails |-> OutcomeOf(e)]
  BY DEF OutcomeStep
<1> QED
  BY <1>1, <1>2, <1>3, DeliveryInvAlways, PTL DEF DeliverySpec
-----------------------------------------------------------------------------
(***************************************************************************)
(* SesHook by itself.  What a handler has counted and not yet recorded     *)
(* makes up the difference between the counters and the events.            *)
(***************************************************************************)
AfterUsage == {"counted", "unsubscribing", "unsubCounting", "unsubscribed", "analysed"}
\* The handlers that have counted a status of e and not yet recorded it, and
\* those of them that may yet count it for the campaign.
Between(e, s) ==
  {n \in Notifications : hook[n].pc \in AfterUsage /\ EmailOf(n) = e /\ StatusOf(n) = s}
Owing(e, s) ==
  {n \in Between(e, s) : hook[n].pc # "analysed" /\ ~hook[n].existing}

CountTypes ==
  /\ usage \in [Emails -> [UsageStatuses -> Nat]]
  /\ analytics \in [Emails -> [UsageStatuses -> Nat]]
  /\ suppressed \subseteq Emails /\ unsubscribed \subseteq CampaignEmails
  /\ unsubCount \in [Emails -> Nat]
CountsFinite(e, s) == IsFiniteSet(Between(e, s)) /\ IsFiniteSet(Owing(e, s))
AnalyticsCounted(e, s) == analytics[e][s] + Cardinality(Owing(e, s)) <= usage[e][s]
UsageCounted(e, s) ==
  Unharmed(e) =>
    IF s \in EngagementStatuses
      THEN /\ usage[e][s] <= events[e][s] + Cardinality(Between(e, s))
           /\ events[e][s] > 0 \/ Between(e, s) # {} => usage[e][s] > 0
      ELSE usage[e][s] = events[e][s] + Cardinality(Between(e, s))
Counted(e, s) == CountsFinite(e, s) /\ AnalyticsCounted(e, s) /\ UsageCounted(e, s)

\* What the row of e shows.
StatusShown(e) ==
  /\ status[e] \in EmailStatuses
  /\ \A s \in HookStatuses : IsReported(e, s) => Rank(status[e]) >= Rank(s)
  /\ status[e] \in HookStatuses /\ Unharmed(e) => IsReported(e, status[e])

\* What the handler of n has done on its way.
HandlerKnows(n) ==
  /\ (InForce(n) \/ hook[n].pc = "checked") /\ hook[n].existing =>
       events[EmailOf(n)][StatusOf(n)] > 0
  /\ hook[n].pc \in {"unsubscribing", "unsubCounting"} => EmailOf(n) \in CampaignEmails
  /\ InForce(n) /\ StatusOf(n) = "COMPLAINED" /\ Unharmed(EmailOf(n)) =>
       /\ hook[n].pc # "advanced" => EmailOf(n) \in suppressed
       /\ hook[n].pc \in {"unsubCounting", "unsubscribed", "analysed"}
            /\ EmailOf(n) \in CampaignEmails => EmailOf(n) \in unsubscribed
ComplaintKept(e) ==
  events[e]["COMPLAINED"] > 0 /\ Unharmed(e) =>
    e \in suppressed /\ (e \in CampaignEmails => e \in unsubscribed)

CountInv ==
  /\ StoreTypeOK /\ HookTyped /\ CountTypes
  /\ \A n \in Notifications : HandlerKnows(n)
  /\ \A e \in Emails : StatusShown(e) /\ ComplaintKept(e)
  /\ \A e \in Emails, s \in UsageStatuses : Counted(e, s)

\* The sets when the handler of n moves.
StepsOn(n) ==
  /\ hook[n].pc # "new" /\ HookTyped'
  /\ hook'[n].email = hook[n].email /\ hook'[n].notice = hook[n].notice
  /\ \A m \in Notifications \ {n} : hook'[m] = hook[m]
IsBetween(n) == hook[n].pc \in AfterUsage
IsOwing(n) == IsBetween(n) /\ hook[n].pc # "analysed" /\ ~hook[n].existing

LEMMA SetsMove ==
  ASSUME NEW n \in Notifications, StepsOn(n), NEW e, NEW s
  PROVE  /\ ~(e = EmailOf(n) /\ s = StatusOf(n)) =>
              Between(e, s)' = Between(e, s) /\ Owing(e, s)' = Owing(e, s)
         /\ e = EmailOf(n) /\ s = StatusOf(n) =>
              /\ n \in Between(e, s) <=> IsBetween(n)
              /\ n \in Owing(e, s) <=> IsOwing(n)
              /\ Between(e, s)' = IF IsBetween(n)' THEN Between(e, s) \cup {n}
                                                   ELSE Between(e, s) \ {n}
              /\ Owing(e, s)' = IF IsOwing(n)' THEN Owing(e, s) \cup {n} ELSE Owing(e, s) \ {n}
<1>1. EmailOf(n)' = EmailOf(n) /\ StatusOf(n)' = StatusOf(n)
  BY DEF StepsOn, EmailOf, StatusOf
<1>2. \A m \in Notifications \ {n} :
        /\ IsBetween(m)' = IsBetween(m) /\ IsOwing(m)' = IsOwing(m)
        /\ EmailOf(m)' = EmailOf(m) /\ StatusOf(m)' = StatusOf(m)
  BY DEF StepsOn, EmailOf, StatusOf, IsBetween, IsOwing
<1>3. /\ Between(e, s) = {m \in Notifications : IsBetween(m) /\ EmailOf(m) = e /\ StatusOf(m) = s}
      /\ Owing(e, s) = {m \in Notifications : IsOwing(m) /\ EmailOf(m) = e /\ StatusOf(m) = s}
  BY DEF Between, Owing, IsBetween, IsOwing
<1>4. /\ Between(e, s)' = {m \in Notifications : IsBetween(m)' /\ EmailOf(m)' = e /\ StatusOf(m)' = s}
      /\ Owing(e, s)' = {m \in Notifications : IsOwing(m)' /\ EmailOf(m)' = e /\ StatusOf(m)' = s}
  BY DEF Between, Owing, IsBetween, IsOwing
<1> HIDE DEF Between, Owing, IsBetween, IsOwing
<1>5. CASE ~(e = EmailOf(n) /\ s = StatusOf(n))
  BY <1>1, <1>2, <1>3, <1>4, <1>5
<1>6. CASE e = EmailOf(n) /\ s = StatusOf(n)
  BY <1>1, <1>2, <1>3, <1>4, <1>6
<1> QED BY <1>5, <1>6

\* One more, one less, or the same.
LEMMA CardinalityMoves ==
  ASSUME NEW S, IsFiniteSet(S), NEW x
  PROVE  /\ IsFiniteSet(S \cup {x}) /\ IsFiniteSet(S \ {x})
         /\ Cardinality(S) \in Nat
         /\ x \in S => S \cup {x} = S /\ Cardinality(S \ {x}) = Cardinality(S) - 1
         /\ x \notin S => S \ {x} = S /\ Cardinality(S \cup {x}) = Cardinality(S) + 1
<1>1. x \in S => S \cup {x} = S
  OBVIOUS
<1>2. x \notin S => S \ {x} = S
  OBVIOUS
<1> QED BY <1>1, <1>2, FS_CardinalityType, FS_AddElement, FS_RemoveElement

-----------------------------------------------------------------------------
\* What a step adds to the counters of the handler's email and status.
CountsBy(n, u, a, v) ==
  \A e \in Emails, s \in UsageStatuses :
    IF e = EmailOf(n) /\ s = StatusOf(n)
      THEN /\ usage'[e][s] = usage[e][s] + u /\ analytics'[e][s] = analytics[e][s] + a
           /\ events'[e][s] = events[e][s] + v
      ELSE /\ usage'[e][s] = usage[e][s] /\ analytics'[e][s] = analytics[e][s]
           /\ events'[e][s] = events[e][s]
Grows ==
  /\ \A e \in Emails : suffered[e] \subseteq suffered'[e]
  /\ \A e \in Emails, s \in EmailStatuses : events'[e][s] >= events[e][s]
  /\ suppressed \subseteq suppressed' /\ unsubscribed \subseteq unsubscribed'
Harmed(n) == ~Unharmed(EmailOf(n))
Duplicate(n) ==
  hook[n].existing /\ StatusOf(n) \in EngagementStatuses /\ events[EmailOf(n)][StatusOf(n)] > 0

CountsAsBefore(n) ==
  CountsBy(n, 0, 0, 0) /\ (IsBetween(n)' <=> IsBetween(n)) /\ (IsOwing(n)' <=> IsOwing(n))
CountsUsage(n) ==
  /\ ~IsBetween(n) /\ IsBetween(n)'
  /\ \/ CountsBy(n, 1, 0, 0)
     \/ CountsBy(n, 0, 0, 0) /\ Duplicate(n) /\ ~IsOwing(n)'
CountsForCampaign(n) ==
  /\ IsBetween(n) /\ IsBetween(n)' /\ ~IsOwing(n)'
  /\ CountsBy(n, 0, 0, 0) \/ (CountsBy(n, 0, 1, 0) /\ IsOwing(n))
Records(n) ==
  IsBetween(n) /\ ~IsBetween(n)' /\ ~IsOwing(n) /\ ~IsOwing(n)' /\ CountsBy(n, 0, 0, 1)
CountsLost(n) ==
  CountsBy(n, 0, 0, 0) /\ ~IsBetween(n)' /\ ~IsOwing(n)' /\ Harmed(n)'
CountStep(n) ==
  CountsAsBefore(n) \/ CountsUsage(n) \/ CountsForCampaign(n) \/ Records(n) \/ CountsLost(n)

LEMMA CountedElsewhere ==
  ASSUME CountInv, NEW n \in Notifications, StepsOn(n), Grows,
         NEW u, NEW a, NEW v, CountsBy(n, u, a, v),
         NEW e \in Emails, NEW s \in UsageStatuses, ~(e = EmailOf(n) /\ s = StatusOf(n))
  PROVE  Counted(e, s)'
<1>1. Between(e, s)' = Between(e, s) /\ Owing(e, s)' = Owing(e, s)
  BY SetsMove
<1>2. /\ usage'[e][s] = usage[e][s] /\ analytics'[e][s] = analytics[e][s]
      /\ events'[e][s] = events[e][s]
  BY DEF CountsBy
<1>3. Unharmed(e)' => Unharmed(e)
  BY DEF Grows, Unharmed
<1>4. Counted(e, s)
  BY DEF CountInv
<1> HIDE DEF Between, Owing
<1> QED BY <1>1, <1>2, <1>3, <1>4
    DEF Counted, CountsFinite, AnalyticsCounted, UsageCounted

\* The numbers of one email and one status.
Balanced(e, s, b, o) ==
  /\ b \in Nat /\ o \in Nat /\ usage[e][s] \in Nat /\ analytics[e][s] \in Nat /\ events[e][s] \in Nat
  /\ analytics[e][s] + o <= usage[e][s]
  /\ Unharmed(e) =>
       IF s \in EngagementStatuses
         THEN usage[e][s] <= events[e][s] + b /\ (events[e][s] > 0 \/ b > 0 => usage[e][s] > 0)
         ELSE usage[e][s] = events[e][s] + b

LEMMA EmptyIsNone ==
  ASSUME NEW S, IsFiniteSet(S) PROVE Cardinality(S) \in Nat /\ (Cardinality(S) > 0 <=> S # {})
BY FS_CardinalityType, FS_EmptySet

LEMMA CountedIs ==
  ASSUME StoreTypeOK, CountTypes, NEW e \in Emails, NEW s \in UsageStatuses
  PROVE  Counted(e, s) <=>
           CountsFinite(e, s) /\ Balanced(e, s, Cardinality(Between(e, s)), Cardinality(Owing(e, s)))
<1>1. usage[e][s] \in Nat /\ analytics[e][s] \in Nat /\ events[e][s] \in Nat
  BY StatusNames DEF StoreTypeOK, CountTypes, UsageStatuses
<1> HIDE DEF Between, Owing
<1>2. CountsFinite(e, s) =>
        /\ Cardinality(Between(e, s)) \in Nat /\ Cardinality(Owing(e, s)) \in Nat
        /\ Cardinality(Between(e, s)) > 0 <=> Between(e, s) # {}
  BY EmptyIsNone DEF CountsFinite
<1> QED BY <1>1, <1>2 DEF Counted, Balanced, AnalyticsCounted, UsageCounted

LEMMA CountedIsNext ==
  ASSUME StoreTypeOK', CountTypes', NEW e \in Emails, NEW s \in UsageStatuses
  PROVE  Counted(e, s)' <=>
           CountsFinite(e, s)'
             /\ Balanced(e, s, Cardinality(Between(e, s)), Cardinality(Owing(e, s)))'
<1>1. usage'[e][s] \in Nat /\ analytics'[e][s] \in Nat /\ events'[e][s] \in Nat
  BY StatusNames DEF StoreTypeOK, CountTypes, UsageStatuses
<1> HIDE DEF Between, Owing
<1>2. CountsFinite(e, s)' =>
        /\ Cardinality(Between(e, s)') \in Nat /\ Cardinality(Owing(e, s)') \in Nat
        /\ Cardinality(Between(e, s)') > 0 <=> Between(e, s)' # {}
  BY EmptyIsNone DEF CountsFinite
<1> QED BY <1>1, <1>2 DEF Counted, Balanced, AnalyticsCounted, UsageCounted

LEMMA CountedHere ==
  ASSUME CountInv, NEW n \in Notifications, StepsOn(n), Grows, StoreTypeOK', CountTypes',
         CountStep(n), NEW e \in Emails, NEW s \in UsageStatuses,
         e = EmailOf(n), s = StatusOf(n)
  PROVE  Counted(e, s)'
<1> DEFINE B == Between(e, s)
           O == Owing(e, s)
<1>1. CountsFinite(e, s) /\ Balanced(e, s, Cardinality(B), Cardinality(O))
  BY CountedIs DEF CountInv
<1>2. /\ n \in B <=> IsBetween(n)
      /\ n \in O <=> IsOwing(n)
      /\ B' = IF IsBetween(n)' THEN B \cup {n} ELSE B \ {n}
      /\ O' = IF IsOwing(n)' THEN O \cup {n} ELSE O \ {n}
  BY SetsMove
<1> HIDE DEF B, O
<1>3. IsFiniteSet(B) /\ IsFiniteSet(O)
  BY <1>1 DEF CountsFinite, B, O
<1>4. IsFiniteSet(B') /\ IsFiniteSet(O')
  BY <1>2, <1>3, CardinalityMoves
<1>5. PICK b, o : b = Cardinality(B) /\ o = Cardinality(O)
  OBVIOUS
<1>6. PICK c, p : c = Cardinality(B') /\ p = Cardinality(O')
  OBVIOUS
<1>7. /\ c = IF IsBetween(n)' THEN (IF IsBetween(n) THEN b ELSE b + 1)
                              ELSE (IF IsBetween(n) THEN b - 1 ELSE b)
      /\ p = IF IsOwing(n)' THEN (IF IsOwing(n) THEN o ELSE o + 1)
                            ELSE (IF IsOwing(n) THEN o - 1 ELSE o)
  BY <1>2, <1>3, <1>5, <1>6, CardinalityMoves
<1>8. c \in Nat /\ p \in Nat
  BY <1>4, <1>6, FS_CardinalityType
<1>9. Unharmed(e)' => Unharmed(e)
  BY DEF Grows, Unharmed
<1>10. Balanced(e, s, b, o)
  BY <1>1, <1>5
<1>11. IsOwing(n) => IsBetween(n)
  BY DEF IsOwing
<1>12. /\ usage'[e][s] \in Nat /\ analytics'[e][s] \in Nat /\ events'[e][s] \in Nat
  BY StatusNames DEF StoreTypeOK, CountTypes, UsageStatuses
<1> HIDE DEF IsBetween, IsOwing
<1>13. CASE CountsAsBefore(n)
  <2>1. c = b /\ p = o
    BY <1>7, <1>13 DEF CountsAsBefore
  <2>2. /\ usage'[e][s] = usage[e][s] + 0 /\ analytics'[e][s] = analytics[e][s] + 0
        /\ events'[e][s] = events[e][s] + 0
    BY <1>13 DEF CountsAsBefore, CountsBy
  <2>3. Balanced(e, s, c, p)'
    BY <1>8, <1>9, <1>10, <1>12, <2>1, <2>2 DEF Balanced
  <2> QED BY <1>4, <1>6, <2>3, CountedIsNext DEF CountsFinite, B, O
<1>14. CASE CountsUsage(n)
  <2>1. c = b + 1 /\ p \in {o, o + 1} /\ o \in Nat /\ b \in Nat
    BY <1>7, <1>10, <1>11, <1>14 DEF CountsUsage, Balanced
  <2>2. CASE CountsBy(n, 1, 0, 0)
    <3>1. /\ usage'[e][s] = usage[e][s] + 1 /\ analytics'[e][s] = analytics[e][s] + 0
          /\ events'[e][s] = events[e][s] + 0
      BY <2>2 DEF CountsBy
    <3>2. Balanced(e, s, c, p)'
      BY <1>8, <1>9, <1>10, <1>12, <2>1, <3>1 DEF Balanced
    <3> QED BY <1>4, <1>6, <3>2, CountedIsNext DEF CountsFinite, B, O
  <2>3. CASE CountsBy(n, 0, 0, 0) /\ Duplicate(n) /\ ~IsOwing(n)'
    <3>1. /\ usage'[e][s] = usage[e][s] + 0 /\ analytics'[e][s] = analytics[e][s] + 0
          /\ events'[e][s] = events[e][s] + 0 /\ events[e][s] > 0 /\ s \in EngagementStatuses
      BY <2>3 DEF CountsBy, Duplicate
    <3>2. p = o
      BY <1>7, <1>11, <1>14, <2>3 DEF CountsUsage
    <3>3. Balanced(e, s, c, p)'
      BY <1>8, <1>9, <1>10, <1>12, <2>1, <3>1, <3>2 DEF Balanced
    <3> QED BY <1>4, <1>6, <3>3, CountedIsNext DEF CountsFinite, B, O
  <2> QED BY <1>14, <2>2, <2>3 DEF CountsUsage
<1>15. CASE CountsForCampaign(n)
  <2>1. c = b /\ (p = o \/ p = o - 1) /\ o \in Nat
    BY <1>7, <1>10, <1>15 DEF CountsForCampaign, Balanced
  <2>2. /\ usage'[e][s] = usage[e][s] + 0 /\ events'[e][s] = events[e][s] + 0
        /\ \/ analytics'[e][s] = analytics[e][s] + 0
           \/ analytics'[e][s] = analytics[e][s] + 1 /\ p = o - 1
    BY <1>7, <1>15 DEF CountsForCampaign, CountsBy
  <2>3. Balanced(e, s, c, p)'
    BY <1>8, <1>9, <1>10, <1>12, <2>1, <2>2 DEF Balanced
  <2> QED BY <1>4, <1>6, <2>3, CountedIsNext DEF CountsFinite, B, O
<1>16. CASE Records(n)
  <2>1. c = b - 1 /\ p = o
    BY <1>7, <1>16 DEF Records
  <2>2. /\ usage'[e][s] = usage[e][s] + 0 /\ analytics'[e][s] = analytics[e][s] + 0
        /\ events'[e][s] = events[e][s] + 1
    BY <1>16 DEF Records, CountsBy
  <2>3. Balanced(e, s, c, p)'
    BY <1>8, <1>9, <1>10, <1>12, <2>1, <2>2 DEF Balanced
  <2> QED BY <1>4, <1>6, <2>3, CountedIsNext DEF CountsFinite, B, O
<1>17. CASE CountsLost(n)
  <2>1. (p = o \/ p = o - 1) /\ o \in Nat
    BY <1>7, <1>10, <1>17 DEF CountsLost, Balanced
  <2>2. /\ usage'[e][s] = usage[e][s] + 0 /\ analytics'[e][s] = analytics[e][s] + 0
        /\ events'[e][s] = events[e][s] + 0 /\ ~Unharmed(e)'
    BY <1>17 DEF CountsLost, CountsBy, Harmed, StepsOn, EmailOf
  <2>3. Balanced(e, s, c, p)'
    BY <1>8, <1>10, <1>12, <2>1, <2>2 DEF Balanced
  <2> QED BY <1>4, <1>6, <2>3, CountedIsNext DEF CountsFinite, B, O
<1> QED BY <1>13, <1>14, <1>15, <1>16, <1>17 DEF CountStep

-----------------------------------------------------------------------------
\* What a step does to what is reported.
ReportStep(n) ==
  \/ status' = status /\ events' = events /\ (InForce(n)' <=> InForce(n))
  \/ /\ status' = [status EXCEPT ![EmailOf(n)] = Advance(status[EmailOf(n)], StatusOf(n))]
     /\ events' = events /\ ~InForce(n) /\ InForce(n)'
  \/ /\ status' = status /\ AddEvent(EmailOf(n), StatusOf(n))
     /\ hook[n].pc = "analysed" /\ ~InForce(n)'
  \/ status' = status /\ events' = events /\ ~InForce(n)' /\ Harmed(n)'

LEMMA ReportedMoves ==
  ASSUME CountInv, NEW n \in Notifications, StepsOn(n), NEW e \in Emails, NEW s \in HookStatuses
  PROVE  /\ ~(e = EmailOf(n) /\ s = StatusOf(n)) /\ events'[e][s] = events[e][s] =>
              (IsReported(e, s)' <=> IsReported(e, s))
         /\ events'[e][s] = events[e][s] /\ (InForce(n)' <=> InForce(n)) =>
              (IsReported(e, s)' <=> IsReported(e, s))
         /\ events'[e][s] = events[e][s] /\ ~InForce(n)' =>
              (IsReported(e, s)' => IsReported(e, s))
         /\ InForce(n) /\ EmailOf(n) = e /\ StatusOf(n) = s => IsReported(e, s)
         /\ InForce(n)' /\ EmailOf(n) = e /\ StatusOf(n) = s => IsReported(e, s)'
<1>1. EmailOf(n)' = EmailOf(n) /\ StatusOf(n)' = StatusOf(n)
  BY DEF StepsOn, EmailOf, StatusOf
<1>2. \A m \in Notifications \ {n} :
        /\ InForce(m)' <=> InForce(m)
        /\ EmailOf(m)' = EmailOf(m) /\ StatusOf(m)' = StatusOf(m)
  BY DEF StepsOn, EmailOf, StatusOf, InForce
<1> HIDE DEF InForce
<1> QED BY <1>1, <1>2 DEF IsReported

LEMMA ShownMoves ==
  ASSUME CountInv, NEW n \in Notifications, StepsOn(n), Grows, StoreTypeOK', ReportStep(n),
         NEW e \in Emails
  PROVE  StatusShown(e)'
<1>1. StatusShown(e) /\ status[e] \in EmailStatuses /\ Rank(status[e]) \in Int
  BY Ranks, StatusNames DEF CountInv, StatusShown
<1>2. Unharmed(e)' => Unharmed(e)
  BY DEF Grows, Unharmed
<1>3. /\ EmailOf(n) \in Emails /\ StatusOf(n) \in HookStatuses /\ StatusOf(n) \in EmailStatuses
      /\ EmailOf(n)' = EmailOf(n)
  BY NoticeStatus DEF CountInv, StepsOn, EmailOf
<1> PICK w : w = StatusOf(n)
  OBVIOUS
<1>4. \A s \in HookStatuses : Rank(s) \in Int
  BY Ranks DEF HookStatuses
<1>5. CASE status' = status /\ events' = events /\ (InForce(n)' <=> InForce(n))
  <2>1. \A s \in HookStatuses : IsReported(e, s)' <=> IsReported(e, s)
    BY <1>5, ReportedMoves
  <2> QED BY <1>1, <1>2, <1>5, <2>1 DEF StatusShown
<1>6. CASE /\ status' = [status EXCEPT ![EmailOf(n)] = Advance(status[EmailOf(n)], StatusOf(n))]
           /\ events' = events /\ ~InForce(n) /\ InForce(n)'
  <2>1. CASE e = EmailOf(n)
    <3>1. status'[e] = Advance(status[e], StatusOf(n))
      BY <1>6, <2>1 DEF CountInv, StoreTypeOK
    <3>2. /\ status'[e] \in {status[e], w}
          /\ Rank(status'[e]) >= Rank(status[e]) /\ Rank(status'[e]) >= Rank(w)
      BY <1>1, <1>3, <3>1, AdvanceRises
    <3>3. IsReported(e, w)'
      BY <1>3, <1>6, <2>1, ReportedMoves
    <3>4. \A s \in HookStatuses : s # w => (IsReported(e, s)' <=> IsReported(e, s))
      BY <1>6, ReportedMoves
    <3>5. status'[e] \in EmailStatuses /\ Rank(status'[e]) \in Int
      BY <1>1, <1>3, <1>4, <3>2
    <3>6. \A s \in HookStatuses : IsReported(e, s)' => Rank(status'[e]) >= Rank(s)
      BY <1>1, <1>4, <3>2, <3>4, <3>5 DEF StatusShown
    <3> QED BY <1>1, <1>2, <3>2, <3>3, <3>4, <3>5, <3>6 DEF StatusShown
  <2>2. CASE e # EmailOf(n)
    <3>1. status'[e] = status[e]
      BY <1>6, <2>2 DEF CountInv, StoreTypeOK
    <3>2. \A s \in HookStatuses : IsReported(e, s)' <=> IsReported(e, s)
      BY <1>6, <2>2, ReportedMoves
    <3> QED BY <1>1, <1>2, <3>1, <3>2 DEF StatusShown
  <2> QED BY <2>1, <2>2
<1>7. CASE /\ status' = status /\ AddEvent(EmailOf(n), StatusOf(n))
           /\ hook[n].pc = "analysed" /\ ~InForce(n)'
  <2>1. \A s \in EmailStatuses :
          IF e = EmailOf(n) /\ s = StatusOf(n) THEN events'[e][s] = events[e][s] + 1
                                               ELSE events'[e][s] = events[e][s]
    BY <1>3, <1>7 DEF CountInv, StoreTypeOK, AddEvent
  <2>2. HookStatuses \subseteq EmailStatuses
    BY StatusNames DEF HookStatuses
  <2>3. \A s \in HookStatuses : ~(e = EmailOf(n) /\ s = StatusOf(n)) =>
          (IsReported(e, s)' <=> IsReported(e, s))
    BY <2>1, <2>2, ReportedMoves
  <2>4. CASE e = EmailOf(n)
    <3>1. IsReported(e, w)
      BY <1>3, <1>7, <2>4, ReportedMoves DEF InForce, HookPCs
    <3>2. events'[e][w] > 0
      BY <1>3, <2>1, <2>4 DEF CountInv, StoreTypeOK
    <3>3. IsReported(e, w)'
      BY <1>3, <3>2 DEF IsReported
    <3> QED BY <1>1, <1>2, <1>7, <2>3, <3>1, <3>3 DEF StatusShown
  <2>5. CASE e # EmailOf(n)
    BY <1>1, <1>2, <1>7, <2>3, <2>5 DEF StatusShown
  <2> QED BY <2>4, <2>5
<1>8. CASE status' = status /\ events' = events /\ ~InForce(n)' /\ Harmed(n)'
  <2>1. \A s \in HookStatuses : IsReported(e, s)' => IsReported(e, s)
    BY <1>8, ReportedMoves
  <2>2. e # EmailOf(n) => \A s \in HookStatuses : IsReported(e, s)' <=> IsReported(e, s)
    BY <1>8, ReportedMoves
  <2>3. e = EmailOf(n) => ~Unharmed(e)'
    BY <1>3, <1>8 DEF Harmed, Unharmed
  <2> QED BY <1>1, <1>2, <1>8, <2>1, <2>2, <2>3 DEF StatusShown
<1> QED BY <1>5, <1>6, <1>7, <1>8 DEF ReportStep

LEMMA KnowsElsewhere ==
  ASSUME CountInv, NEW n \in Notifications, Grows, StoreTypeOK',
         NEW m \in Notifications, hook'[m] = hook[m]
  PROVE  HandlerKnows(m)'
<1>1. HandlerKnows(m)
  BY DEF CountInv
<1>2. CASE hook[m].pc = "new"
  BY <1>2 DEF HandlerKnows, InForce
<1>3. CASE hook[m].pc # "new"
  <2>1. EmailOf(m) \in Emails /\ StatusOf(m) \in EmailStatuses
    BY <1>3, NoticeStatus DEF CountInv
  <2>2. EmailOf(m)' = EmailOf(m) /\ StatusOf(m)' = StatusOf(m) /\ (InForce(m)' <=> InForce(m))
    BY DEF EmailOf, StatusOf, InForce
  <2>3. /\ events'[EmailOf(m)][StatusOf(m)] >= events[EmailOf(m)][StatusOf(m)]
        /\ events'[EmailOf(m)][StatusOf(m)] \in Nat /\ events[EmailOf(m)][StatusOf(m)] \in Nat
    BY <2>1 DEF Grows, CountInv, StoreTypeOK
  <2>4. Unharmed(EmailOf(m))' => Unharmed(EmailOf(m))
    BY <2>1, <2>2 DEF Grows, Unharmed
  <2>5. suppressed \subseteq suppressed' /\ unsubscribed \subseteq unsubscribed'
    BY DEF Grows
  <2> HIDE DEF InForce, EmailOf, StatusOf, Unharmed
  <2> QED BY <1>1, <2>2, <2>3, <2>4, <2>5 DEF HandlerKnows
<1> QED BY <1>2, <1>3

LEMMA ComplaintsMove ==
  ASSUME CountInv, NEW n \in Notifications, StepsOn(n), Grows, ReportStep(n), NEW e \in Emails
  PROVE  ComplaintKept(e)'
<1>1. ComplaintKept(e) /\ HandlerKnows(n)
  BY DEF CountInv
<1>2. Unharmed(e)' => Unharmed(e)
  BY DEF Grows, Unharmed
<1>3. suppressed \subseteq suppressed' /\ unsubscribed \subseteq unsubscribed'
  BY DEF Grows
<1>4. CASE events' = events
  BY <1>1, <1>2, <1>3, <1>4 DEF ComplaintKept
<1>5. CASE AddEvent(EmailOf(n), StatusOf(n)) /\ hook[n].pc = "analysed"
  <2>1. CASE e = EmailOf(n) /\ StatusOf(n) = "COMPLAINED"
    BY <1>1, <1>2, <1>3, <1>5, <2>1 DEF ComplaintKept, HandlerKnows, InForce, HookPCs
  <2>2. CASE ~(e = EmailOf(n) /\ StatusOf(n) = "COMPLAINED")
    <3>1. "COMPLAINED" \in EmailStatuses
      BY StatusNames
    <3>2. EmailOf(n) \in Emails /\ StatusOf(n) \in EmailStatuses
      BY NoticeStatus DEF CountInv, StepsOn
    <3>3. events'[e]["COMPLAINED"] = events[e]["COMPLAINED"]
      BY <1>5, <2>2, <3>1, <3>2 DEF AddEvent, CountInv, StoreTypeOK
    <3> QED BY <1>1, <1>2, <1>3, <3>3 DEF ComplaintKept
  <2> QED BY <2>1, <2>2
<1> QED BY <1>4, <1>5 DEF ReportStep

LEMMA HandlerSteps ==
  ASSUME CountInv, NEW n \in Notifications, StepsOn(n), Grows, StoreTypeOK', CountTypes',
         CountStep(n), ReportStep(n), HandlerKnows(n)'
  PROVE  CountInv'
<1>1. \A m \in Notifications : HandlerKnows(m)'
  BY KnowsElsewhere DEF StepsOn
<1>2. \A e \in Emails : StatusShown(e)' /\ ComplaintKept(e)'
  BY ShownMoves, ComplaintsMove
<1>3. \A e \in Emails, s \in UsageStatuses : Counted(e, s)'
  <2> TAKE e \in Emails, s \in UsageStatuses
  <2>1. CASE e = EmailOf(n) /\ s = StatusOf(n)
    BY <2>1, CountedHere
  <2>2. CASE ~(e = EmailOf(n) /\ s = StatusOf(n))
    <3>1. PICK u, a, v : CountsBy(n, u, a, v)
      BY DEF CountStep, CountsAsBefore, CountsUsage, CountsForCampaign, Records, CountsLost
    <3> QED BY <2>2, <3>1, CountedElsewhere
  <2> QED BY <2>1, <2>2
<1> QED BY <1>1, <1>2, <1>3 DEF CountInv, StepsOn

-----------------------------------------------------------------------------
\* The steps of a handler, one by one.
LEMMA StoreKept ==
  ASSUME CountInv, UNCHANGED storeVars
  PROVE  StoreTypeOK' /\ \A e \in Emails : Unharmed(e)' <=> Unharmed(e)
BY DEF CountInv, StoreTypeOK, storeVars, Unharmed

LEMMA CountersKept ==
  ASSUME CountInv, UNCHANGED << events, usage, analytics >>, NEW n \in Notifications
  PROVE  CountsBy(n, 0, 0, 0)
<1>1. \A e \in Emails, s \in UsageStatuses :
        usage[e][s] \in Nat /\ analytics[e][s] \in Nat /\ events[e][s] \in Nat
  BY StatusNames DEF CountInv, StoreTypeOK, CountTypes, UsageStatuses
<1> QED BY <1>1 DEF CountsBy

LEMMA GrowsMore ==
  ASSUME CountInv, StoreTypeOK', suppressed \subseteq suppressed', unsubscribed \subseteq unsubscribed',
         events' = events, \A e \in Emails : suffered[e] \subseteq suffered'[e]
  PROVE  Grows
<1>1. \A e \in Emails, s \in EmailStatuses : events[e][s] \in Nat
  BY DEF CountInv, StoreTypeOK
<1> QED BY <1>1 DEF Grows

LEMMA HandlerGoes ==
  ASSUME CountInv, NEW n \in Notifications, hook[n].pc # "new",
         NEW s \in HookPCs \ {"new"}, SetHook(n, s)
  PROVE  /\ StepsOn(n) /\ hook'[n].pc = s /\ hook'[n].existing = hook[n].existing
         /\ EmailOf(n)' = EmailOf(n) /\ StatusOf(n)' = StatusOf(n)
         /\ (HardBounce(n)' <=> HardBounce(n))
BY HookSets DEF CountInv, StepsOn, EmailOf, StatusOf, HardBounce

LEMMA HarmedNow ==
  ASSUME CountInv, NEW e \in Emails, Suffer(e, "hook")
  PROVE  /\ suffered' \in [Emails -> SUBSET FaultKinds]
         /\ \A f \in Emails : suffered[f] \subseteq suffered'[f]
         /\ ~Unharmed(e)'
<1>1. "hook" \in FaultKinds
  BY DEF FaultKinds
<1> QED BY <1>1 DEF CountInv, StoreTypeOK, Suffer, Unharmed

LEMMA LookupKeeps == ASSUME CountInv, NEW n \in Notifications, Lookup(n) PROVE CountInv'
<1> DEFINE next == IF status[EmailOf(n)] = "DELIVERY_DELAYED" /\ StatusOf(n) = "DELIVERY_DELAYED"
                     THEN "done" ELSE "found"
<1>1. hook[n].pc = "queued" /\ SetHook(n, next) /\ next \in {"done", "found"}
  BY DEF Lookup
<1>2. /\ StepsOn(n) /\ hook'[n].pc = next
      /\ EmailOf(n)' = EmailOf(n) /\ StatusOf(n)' = StatusOf(n)
  BY <1>1, HandlerGoes DEF HookPCs
<1> HIDE DEF next
<1>3. EmailOf(n) \in Emails /\ hook[n].msg \in Runs
  BY <1>1, NoticeStatus DEF CountInv
<1>4. StoreTypeOK' /\ CountTypes'
  BY <1>3 DEF Lookup, CountInv, StoreTypeOK, CountTypes, countVars
<1>5. Grows
  BY <1>4, GrowsMore DEF Lookup, countVars
<1>6. CountStep(n)
  BY <1>1, <1>2, CountersKept DEF Lookup, countVars, CountStep, CountsAsBefore, IsBetween, IsOwing, AfterUsage
<1>7. ReportStep(n)
  BY <1>1, <1>2 DEF Lookup, ReportStep, InForce
<1>8. HandlerKnows(n)'
  BY <1>1, <1>2 DEF HandlerKnows, InForce
<1> QED BY <1>2, <1>4, <1>5, <1>6, <1>7, <1>8, HandlerSteps

LEMMA CheckExistingKeeps == ASSUME CountInv, NEW n \in Notifications, CheckExisting(n) PROVE CountInv'
<1>1. hook[n].pc = "found" /\ hook[n] \in HookRecords
  BY DEF CheckExisting, CountInv, HookTyped
<1>2. PICK x \in BOOLEAN :
        /\ hook' = [hook EXCEPT ![n] = [hook[n] EXCEPT !.pc = "checked", !.existing = x]]
        /\ x => events[EmailOf(n)][StatusOf(n)] > 0
  <2> DEFINE x == /\ EmailOf(n) \in CampaignEmails \/ StatusOf(n) \in EngagementStatuses
                  /\ events[EmailOf(n)][StatusOf(n)] > 0
  <2>1. hook' = [hook EXCEPT ![n].pc = "checked", ![n].existing = x]
    BY DEF CheckExisting
  <2>2. hook' = [hook EXCEPT ![n] = [hook[n] EXCEPT !.pc = "checked", !.existing = x]]
    BY <2>1 DEF CountInv, HookTyped
  <2>3. x \in BOOLEAN
    OBVIOUS
  <2> QED BY <2>2, <2>3
<1> PICK r : r = [hook[n] EXCEPT !.pc = "checked", !.existing = x]
  OBVIOUS
<1>3. /\ r \in HookRecords /\ r.pc = "checked" /\ r.existing = x
      /\ r.email = hook[n].email /\ r.notice = hook[n].notice
  BY <1>1 DEF HookRecords, HookPCs
<1>4. hook' = [hook EXCEPT ![n] = r]
  BY <1>2
<1>5. hook'[n] = r /\ \A m \in Notifications \ {n} : hook'[m] = hook[m]
  BY <1>4 DEF CountInv, HookTyped
<1>6. HookTyped'
  BY <1>3, <1>4 DEF CountInv, HookTyped
<1>7. StepsOn(n) /\ EmailOf(n)' = EmailOf(n) /\ StatusOf(n)' = StatusOf(n)
  BY <1>1, <1>3, <1>5, <1>6 DEF StepsOn, EmailOf, StatusOf
<1>8. StoreTypeOK' /\ CountTypes'
  BY StoreKept DEF CheckExisting, CountInv, CountTypes, countVars
<1>9. Grows
  BY <1>8, GrowsMore DEF CheckExisting, countVars, storeVars
<1>10. CountStep(n)
  <2>1. CountsBy(n, 0, 0, 0)
    BY CountersKept DEF CheckExisting, countVars, storeVars
  <2>2. hook'[n].pc = "checked" /\ hook[n].pc = "found"
    BY <1>1, <1>3, <1>5
  <2>3. ~IsBetween(n) /\ ~IsBetween(n)' /\ ~IsOwing(n) /\ ~IsOwing(n)'
    BY <2>2 DEF IsBetween, IsOwing, AfterUsage
  <2> QED BY <2>1, <2>3 DEF CountStep, CountsAsBefore
<1>11. ReportStep(n)
  BY <1>1, <1>3, <1>5 DEF CheckExisting, storeVars, ReportStep, InForce
<1>12. HandlerKnows(n)'
  BY <1>2, <1>3, <1>5, <1>7 DEF CheckExisting, storeVars, HandlerKnows, InForce
<1> QED BY <1>7, <1>8, <1>9, <1>10, <1>11, <1>12, HandlerSteps

LEMMA AdvanceStatusKeeps == ASSUME CountInv, NEW n \in Notifications, AdvanceStatus(n) PROVE CountInv'
<1>1. /\ hook[n].pc = "checked" /\ SetHook(n, "advanced")
      /\ UNCHANGED << events, sesId, accepted, suffered, countVars >>
      /\ status' = [status EXCEPT ![EmailOf(n)] = Advance(status[EmailOf(n)], StatusOf(n))]
  BY DEF AdvanceStatus, SetStatus
<1>2. /\ StepsOn(n) /\ hook'[n].pc = "advanced" /\ hook'[n].existing = hook[n].existing
      /\ EmailOf(n)' = EmailOf(n) /\ StatusOf(n)' = StatusOf(n)
  BY <1>1, HandlerGoes DEF HookPCs
<1>3. EmailOf(n) \in Emails /\ StatusOf(n) \in HookStatuses /\ StatusOf(n) \in EmailStatuses
  BY <1>1, NoticeStatus DEF CountInv
<1>4. StoreTypeOK' /\ CountTypes'
  <2>1. Advance(status[EmailOf(n)], StatusOf(n)) \in EmailStatuses \cup {"absent"}
    BY <1>3 DEF Advance, CountInv, StoreTypeOK
  <2> QED BY <1>1, <2>1 DEF CountInv, StoreTypeOK, CountTypes, countVars
<1>5. Grows
  BY <1>1, <1>4, GrowsMore DEF countVars
<1>6. CountStep(n)
  BY <1>1, <1>2, CountersKept DEF countVars, CountStep, CountsAsBefore, IsBetween, IsOwing, AfterUsage
<1>7. ReportStep(n)
  BY <1>1, <1>2 DEF ReportStep, InForce, HookPCs
<1>8. HandlerKnows(n)'
  <2>1. HandlerKnows(n)
    BY DEF CountInv
  <2> QED BY <1>1, <1>2, <2>1 DEF HandlerKnows, InForce, HookPCs
<1> QED BY <1>2, <1>4, <1>5, <1>6, <1>7, <1>8, HandlerSteps

LEMMA AddSuppressionKeeps == ASSUME CountInv, NEW n \in Notifications, AddSuppression(n) PROVE CountInv'
<1>1. /\ hook[n].pc = "advanced" /\ SetHook(n, "listed")
      /\ UNCHANGED << status, events, sesId, accepted, usage, analytics, unsubscribed, unsubCount >>
  BY DEF AddSuppression
<1>2. /\ StepsOn(n) /\ hook'[n].pc = "listed" /\ hook'[n].existing = hook[n].existing
      /\ EmailOf(n)' = EmailOf(n) /\ StatusOf(n)' = StatusOf(n)
  BY <1>1, HandlerGoes DEF HookPCs
<1>3. EmailOf(n) \in Emails
  BY <1>1, NoticeStatus DEF CountInv
<1>4. /\ suppressed \subseteq suppressed' /\ suppressed' \subseteq Emails
      /\ suffered' \in [Emails -> SUBSET FaultKinds]
      /\ \A f \in Emails : suffered[f] \subseteq suffered'[f]
      /\ StatusOf(n) = "COMPLAINED" => EmailOf(n) \in suppressed' \/ ~Unharmed(EmailOf(n))'
  <2>1. CASE Suffer(EmailOf(n), "hook") /\ UNCHANGED suppressed
    <3> PICK e : e = EmailOf(n)
      OBVIOUS
    <3>1. e \in Emails /\ Suffer(e, "hook")
      BY <1>3, <2>1
    <3>2. ~Unharmed(e)' /\ EmailOf(n)' = e
      BY <1>2, <3>1, HarmedNow
    <3>3. ~Unharmed(EmailOf(n))'
      BY <3>2 DEF Unharmed
    <3> QED BY <2>1, <3>1, <3>3, HarmedNow DEF CountInv, CountTypes
  <2>2. CASE suppressed' = suppressed \cup {EmailOf(n)} /\ UNCHANGED suffered
    BY <1>3, <2>2 DEF CountInv, CountTypes, StoreTypeOK
  <2>3. CASE ~(HardBounce(n) \/ StatusOf(n) = "COMPLAINED") /\ UNCHANGED << suffered, suppressed >>
    BY <2>3 DEF CountInv, CountTypes, StoreTypeOK
  <2> QED BY <2>1, <2>2, <2>3 DEF AddSuppression
<1>5. StoreTypeOK' /\ CountTypes'
  BY <1>1, <1>4 DEF CountInv, StoreTypeOK, CountTypes
<1>6. Grows
  BY <1>1, <1>4, <1>5, GrowsMore
<1>7. CountStep(n)
  BY <1>1, <1>2, CountersKept DEF CountStep, CountsAsBefore, IsBetween, IsOwing, AfterUsage
<1>8. ReportStep(n)
  BY <1>1, <1>2 DEF ReportStep, InForce, HookPCs
<1>9. HandlerKnows(n)'
  <2>1. HandlerKnows(n)
    BY DEF CountInv
  <2> QED BY <1>1, <1>2, <1>4, <2>1 DEF HandlerKnows, InForce, HookPCs
<1> QED BY <1>2, <1>5, <1>6, <1>7, <1>8, <1>9, HandlerSteps

LEMMA CountUsageKeeps == ASSUME CountInv, NEW n \in Notifications, CountUsage(n) PROVE CountInv'
<1> DEFINE dup == hook[n].existing /\ StatusOf(n) \in EngagementStatuses
<1>1. /\ hook[n].pc = "listed" /\ SetHook(n, "counted")
      /\ usage' = IF StatusOf(n) \in UsageStatuses /\ ~dup
                    THEN [usage EXCEPT ![EmailOf(n)][StatusOf(n)] = @ + 1] ELSE usage
      /\ UNCHANGED << storeVars, analytics, suppressed, unsubscribed, unsubCount >>
  BY DEF CountUsage
<1>2. /\ StepsOn(n) /\ hook'[n].pc = "counted" /\ hook'[n].existing = hook[n].existing
      /\ EmailOf(n)' = EmailOf(n) /\ StatusOf(n)' = StatusOf(n)
  BY <1>1, HandlerGoes DEF HookPCs
<1>3. EmailOf(n) \in Emails /\ HandlerKnows(n)
  BY <1>1, NoticeStatus DEF CountInv
<1>4. /\ StoreTypeOK' /\ suppressed' = suppressed /\ unsubscribed' = unsubscribed
      /\ analytics' = analytics /\ events' = events /\ status' = status /\ suffered' = suffered
  BY <1>1, StoreKept DEF storeVars
<1>5. CountTypes'
  BY <1>1, <1>3 DEF CountInv, CountTypes
<1>6. Grows
  BY <1>4, GrowsMore DEF CountInv, StoreTypeOK
<1>7. CountStep(n)
  <2>1. ~IsBetween(n) /\ IsBetween(n)' /\ (hook[n].existing => ~IsOwing(n)')
    BY <1>1, <1>2 DEF IsBetween, IsOwing, AfterUsage
  <2>2. \A e \in Emails, s \in UsageStatuses :
          usage[e][s] \in Nat /\ analytics[e][s] \in Nat /\ events[e][s] \in Nat
    BY StatusNames DEF CountInv, StoreTypeOK, CountTypes, UsageStatuses
  <2>3. CASE StatusOf(n) \in UsageStatuses /\ ~dup
    <3>1. \A e \in Emails, s \in UsageStatuses :
            usage'[e][s] = IF e = EmailOf(n) /\ s = StatusOf(n) THEN usage[e][s] + 1 ELSE usage[e][s]
      BY <1>1, <1>3, <2>3 DEF CountInv, CountTypes
    <3>2. CountsBy(n, 1, 0, 0)
      BY <1>4, <2>2, <3>1 DEF CountsBy
    <3> QED BY <2>1, <3>2 DEF CountStep, CountsUsage
  <2>4. CASE StatusOf(n) \in UsageStatuses /\ dup
    <3>1. CountsBy(n, 0, 0, 0)
      BY <1>1, <1>4, <2>4, CountersKept
    <3>2. Duplicate(n)
      BY <1>1, <1>3, <2>4 DEF Duplicate, HandlerKnows, InForce, HookPCs
    <3> QED BY <2>1, <2>4, <3>1, <3>2 DEF CountStep, CountsUsage
  <2>5. CASE StatusOf(n) \notin UsageStatuses
    <3>1. CountsBy(n, 1, 0, 0)
      BY <1>1, <1>4, <2>5 DEF CountsBy
    <3> QED BY <2>1, <3>1 DEF CountStep, CountsUsage
  <2> QED BY <2>3, <2>4, <2>5
<1>8. ReportStep(n)
  BY <1>1, <1>2, <1>4 DEF ReportStep, InForce, HookPCs
<1>9. HandlerKnows(n)'
  BY <1>1, <1>2, <1>3, <1>4 DEF HandlerKnows, InForce, HookPCs, Unharmed
<1> QED BY <1>2, <1>4, <1>5, <1>6, <1>7, <1>8, <1>9, HandlerSteps

LEMMA CheckUnsubscribeKeeps ==
  ASSUME CountInv, NEW n \in Notifications, CheckUnsubscribe(n) PROVE CountInv'
<1> DEFINE writes == /\ EmailOf(n) \in CampaignEmails \ unsubscribed
                     /\ HardBounce(n) \/ StatusOf(n) = "COMPLAINED"
           next == IF writes THEN "unsubscribing" ELSE "unsubscribed"
<1>1. /\ hook[n].pc = "counted" /\ SetHook(n, next) /\ next \in {"unsubscribing", "unsubscribed"}
      /\ UNCHANGED << storeVars, countVars >>
  BY DEF CheckUnsubscribe
<1>2. /\ StepsOn(n) /\ hook'[n].pc = next /\ hook'[n].existing = hook[n].existing
      /\ EmailOf(n)' = EmailOf(n) /\ StatusOf(n)' = StatusOf(n)
  BY <1>1, HandlerGoes DEF HookPCs
<1>3. EmailOf(n) \in Emails /\ HandlerKnows(n)
  BY <1>1, NoticeStatus DEF CountInv
<1>4. StoreTypeOK' /\ CountTypes'
  BY <1>1, StoreKept DEF CountInv, CountTypes, countVars
<1>5. Grows
  BY <1>1, <1>4, GrowsMore DEF storeVars, countVars
<1>6. CountStep(n)
  <2>1. CountsBy(n, 0, 0, 0)
    BY <1>1, CountersKept DEF storeVars, countVars
  <2>2. IsBetween(n) /\ IsBetween(n)' /\ (IsOwing(n)' <=> IsOwing(n))
    BY <1>1, <1>2 DEF IsBetween, IsOwing, AfterUsage
  <2> QED BY <2>1, <2>2 DEF CountStep, CountsAsBefore
<1>7. ReportStep(n)
  BY <1>1, <1>2 DEF ReportStep, InForce, HookPCs, storeVars
<1>8. HandlerKnows(n)'
  <2>1. Unharmed(EmailOf(n))' <=> Unharmed(EmailOf(n))
    BY <1>1, <1>2 DEF Unharmed, storeVars
  <2>2. /\ InForce(n) /\ InForce(n)' /\ hook'[n].pc \notin {"checked", "advanced"}
        /\ suppressed' = suppressed /\ unsubscribed' = unsubscribed /\ events' = events
    BY <1>1, <1>2 DEF InForce, HookPCs, storeVars, countVars
  <2>3. CASE writes
    BY <1>1, <1>2, <1>3, <2>1, <2>2, <2>3 DEF HandlerKnows
  <2>4. CASE ~writes
    BY <1>1, <1>2, <1>3, <2>1, <2>2, <2>4 DEF HandlerKnows
  <2> QED BY <2>3, <2>4
<1> QED BY <1>2, <1>4, <1>5, <1>6, <1>7, <1>8, HandlerSteps

LEMMA UnsubscribeContactKeeps ==
  ASSUME CountInv, NEW n \in Notifications, UnsubscribeContact(n) PROVE CountInv'
<1>1. /\ hook[n].pc = "unsubscribing" /\ SetHook(n, "unsubCounting")
      /\ unsubscribed' = unsubscribed \cup {EmailOf(n)}
      /\ UNCHANGED << storeVars, usage, analytics, suppressed, unsubCount >>
  BY DEF UnsubscribeContact
<1>2. /\ StepsOn(n) /\ hook'[n].pc = "unsubCounting" /\ hook'[n].existing = hook[n].existing
      /\ EmailOf(n)' = EmailOf(n) /\ StatusOf(n)' = StatusOf(n)
  BY <1>1, HandlerGoes DEF HookPCs
<1>3. EmailOf(n) \in Emails /\ HandlerKnows(n)
  BY <1>1, NoticeStatus DEF CountInv
<1>4. EmailOf(n) \in CampaignEmails
  BY <1>1, <1>3 DEF HandlerKnows
<1>5. StoreTypeOK' /\ CountTypes'
  BY <1>1, <1>4, StoreKept DEF CountInv, CountTypes
<1>6. Grows
  BY <1>1, <1>5, GrowsMore DEF storeVars
<1>7. CountStep(n)
  <2>1. CountsBy(n, 0, 0, 0)
    BY <1>1, CountersKept DEF storeVars
  <2>2. IsBetween(n) /\ IsBetween(n)' /\ (IsOwing(n)' <=> IsOwing(n))
    BY <1>1, <1>2 DEF IsBetween, IsOwing, AfterUsage
  <2> QED BY <2>1, <2>2 DEF CountStep, CountsAsBefore
<1>8. ReportStep(n)
  BY <1>1, <1>2 DEF ReportStep, InForce, HookPCs, storeVars
<1>9. HandlerKnows(n)'
  BY <1>1, <1>2, <1>3, <1>4 DEF HandlerKnows, InForce, HookPCs, Unharmed, storeVars
<1> QED BY <1>2, <1>5, <1>6, <1>7, <1>8, <1>9, HandlerSteps

LEMMA CountUnsubscribedKeeps ==
  ASSUME CountInv, NEW n \in Notifications, CountUnsubscribed(n) PROVE CountInv'
<1>1. /\ hook[n].pc = "unsubCounting" /\ SetHook(n, "unsubscribed")
      /\ unsubCount' = [unsubCount EXCEPT ![EmailOf(n)] = @ + 1]
      /\ UNCHANGED << storeVars, usage, analytics, suppressed, unsubscribed >>
  BY DEF CountUnsubscribed
<1>2. /\ StepsOn(n) /\ hook'[n].pc = "unsubscribed" /\ hook'[n].existing = hook[n].existing
      /\ EmailOf(n)' = EmailOf(n) /\ StatusOf(n)' = StatusOf(n)
  BY <1>1, HandlerGoes DEF HookPCs
<1>3. EmailOf(n) \in Emails /\ HandlerKnows(n)
  BY <1>1, NoticeStatus DEF CountInv
<1>4. StoreTypeOK' /\ CountTypes'
  BY <1>1, <1>3, StoreKept DEF CountInv, CountTypes
<1>5. Grows
  BY <1>1, <1>4, GrowsMore DEF storeVars
<1>6. CountStep(n)
  <2>1. CountsBy(n, 0, 0, 0)
    BY <1>1, CountersKept DEF storeVars
  <2>2. IsBetween(n) /\ IsBetween(n)' /\ (IsOwing(n)' <=> IsOwing(n))
    BY <1>1, <1>2 DEF IsBetween, IsOwing, AfterUsage
  <2> QED BY <2>1, <2>2 DEF CountStep, CountsAsBefore
<1>7. ReportStep(n)
  BY <1>1, <1>2 DEF ReportStep, InForce, HookPCs, storeVars
<1>8. HandlerKnows(n)'
  BY <1>1, <1>2, <1>3 DEF HandlerKnows, InForce, HookPCs, Unharmed, storeVars
<1> QED BY <1>2, <1>4, <1>5, <1>6, <1>7, <1>8, HandlerSteps

LEMMA CountAnalyticsKeeps ==
  ASSUME CountInv, NEW n \in Notifications, CountAnalytics(n) PROVE CountInv'
<1> DEFINE counts == /\ EmailOf(n) \in CampaignEmails /\ StatusOf(n) \in UsageStatuses
                     /\ ~UnsubscribeClick(n) /\ ~hook[n].existing
<1>1. /\ hook[n].pc = "unsubscribed" /\ SetHook(n, "analysed")
      /\ analytics' = IF counts THEN [analytics EXCEPT ![EmailOf(n)][StatusOf(n)] = @ + 1]
                                ELSE analytics
      /\ UNCHANGED << storeVars, usage, suppressed, unsubscribed, unsubCount >>
  BY DEF CountAnalytics
<1>2. /\ StepsOn(n) /\ hook'[n].pc = "analysed" /\ hook'[n].existing = hook[n].existing
      /\ EmailOf(n)' = EmailOf(n) /\ StatusOf(n)' = StatusOf(n)
  BY <1>1, HandlerGoes DEF HookPCs
<1>3. EmailOf(n) \in Emails /\ HandlerKnows(n)
  BY <1>1, NoticeStatus DEF CountInv
<1>4. /\ StoreTypeOK' /\ suppressed' = suppressed /\ unsubscribed' = unsubscribed
      /\ usage' = usage /\ events' = events /\ status' = status /\ suffered' = suffered
  BY <1>1, StoreKept DEF storeVars
<1>5. CountTypes'
  BY <1>1, <1>3 DEF CountInv, CountTypes
<1>6. Grows
  BY <1>4, GrowsMore DEF CountInv, StoreTypeOK
<1>7. CountStep(n)
  <2>1. /\ IsBetween(n) /\ IsBetween(n)' /\ ~IsOwing(n)'
        /\ ~hook[n].existing => IsOwing(n)
    BY <1>1, <1>2 DEF IsBetween, IsOwing, AfterUsage
  <2>2. \A e \in Emails, s \in UsageStatuses :
          usage[e][s] \in Nat /\ analytics[e][s] \in Nat /\ events[e][s] \in Nat
    BY StatusNames DEF CountInv, StoreTypeOK, CountTypes, UsageStatuses
  <2>3. CASE counts
    <3>1. \A e \in Emails, s \in UsageStatuses :
            analytics'[e][s] = IF e = EmailOf(n) /\ s = StatusOf(n) THEN analytics[e][s] + 1
                                                                    ELSE analytics[e][s]
      BY <1>1, <1>3, <2>3 DEF CountInv, CountTypes
    <3>2. CountsBy(n, 0, 1, 0)
      BY <1>4, <2>2, <3>1 DEF CountsBy
    <3> QED BY <2>1, <2>3, <3>2 DEF CountStep, CountsForCampaign
  <2>4. CASE ~counts
    <3>1. CountsBy(n, 0, 0, 0)
      BY <1>1, <1>4, <2>4, CountersKept
    <3> QED BY <2>1, <3>1 DEF CountStep, CountsForCampaign
  <2> QED BY <2>3, <2>4
<1>8. ReportStep(n)
  BY <1>1, <1>2, <1>4 DEF ReportStep, InForce, HookPCs
<1>9. HandlerKnows(n)'
  BY <1>1, <1>2, <1>3, <1>4 DEF HandlerKnows, InForce, HookPCs, Unharmed
<1> QED BY <1>2, <1>4, <1>5, <1>6, <1>7, <1>8, <1>9, HandlerSteps

LEMMA RecordEventKeeps == ASSUME CountInv, NEW n \in Notifications, RecordEvent(n) PROVE CountInv'
<1>1. /\ hook[n].pc = "analysed" /\ SetHook(n, "done") /\ AddEvent(EmailOf(n), StatusOf(n))
      /\ UNCHANGED << status, sesId, accepted, suffered, countVars >>
  BY DEF RecordEvent
<1>2. /\ StepsOn(n) /\ hook'[n].pc = "done" /\ hook'[n].existing = hook[n].existing
      /\ EmailOf(n)' = EmailOf(n) /\ StatusOf(n)' = StatusOf(n)
  BY <1>1, HandlerGoes DEF HookPCs
<1>3. EmailOf(n) \in Emails /\ StatusOf(n) \in EmailStatuses
  BY <1>1, NoticeStatus DEF CountInv
<1>4. \A e \in Emails, s \in EmailStatuses :
        /\ events[e][s] \in Nat
        /\ events'[e][s] = IF e = EmailOf(n) /\ s = StatusOf(n) THEN events[e][s] + 1
                                                                ELSE events[e][s]
  BY <1>1, <1>3 DEF CountInv, StoreTypeOK, AddEvent
<1>5. StoreTypeOK' /\ CountTypes'
  <2>1. events' \in [Emails -> [EmailStatuses -> Nat]]
    BY <1>1, <1>3 DEF CountInv, StoreTypeOK, AddEvent
  <2> QED BY <1>1, <2>1 DEF CountInv, StoreTypeOK, CountTypes, countVars
<1>6. Grows
  BY <1>1, <1>4 DEF Grows, countVars
<1>7. CountStep(n)
  <2>1. IsBetween(n) /\ ~IsBetween(n)' /\ ~IsOwing(n) /\ ~IsOwing(n)'
    BY <1>1, <1>2 DEF IsBetween, IsOwing, AfterUsage
  <2>2. \A e \in Emails, s \in UsageStatuses :
          usage[e][s] \in Nat /\ analytics[e][s] \in Nat /\ s \in EmailStatuses
    BY StatusNames DEF CountInv, CountTypes, UsageStatuses
  <2>3. CountsBy(n, 0, 0, 1)
    BY <1>1, <1>4, <2>2 DEF CountsBy, countVars
  <2> QED BY <2>1, <2>3 DEF CountStep, Records
<1>8. ReportStep(n)
  BY <1>1, <1>2 DEF ReportStep, InForce
<1>9. HandlerKnows(n)'
  BY <1>2 DEF HandlerKnows, InForce
<1> QED BY <1>2, <1>5, <1>6, <1>7, <1>8, <1>9, HandlerSteps

\* A fault leaves the handler outside all of this, and its email harmed.
LEMMA FaultKeeps ==
  ASSUME CountInv, NEW n \in Notifications, StepsOn(n), EmailOf(n)' = EmailOf(n),
         hook'[n].pc \in {"queued", "failed"}, hook[n].pc \in Working, Suffer(EmailOf(n), "hook"),
         UNCHANGED << status, events, sesId, accepted, countVars >>
  PROVE  CountInv'
<1> PICK e : e = EmailOf(n)
  OBVIOUS
<1>1. e \in Emails /\ Suffer(e, "hook")
  BY NoticeStatus DEF CountInv, StepsOn
<1>2. /\ suffered' \in [Emails -> SUBSET FaultKinds]
      /\ \A f \in Emails : suffered[f] \subseteq suffered'[f]
      /\ ~Unharmed(e)'
  BY <1>1, HarmedNow
<1>3. StoreTypeOK' /\ CountTypes'
  BY <1>2 DEF CountInv, StoreTypeOK, CountTypes, countVars
<1>4. Grows
  BY <1>2, <1>3, GrowsMore DEF countVars
<1>5. Harmed(n)'
  <2>1. EmailOf(n)' = e
    OBVIOUS
  <2> QED BY <1>2, <2>1 DEF Harmed, Unharmed
<1>6. CountStep(n)
  <2>1. CountsBy(n, 0, 0, 0)
    BY CountersKept DEF countVars
  <2>2. ~IsBetween(n)' /\ ~IsOwing(n)'
    BY DEF IsBetween, IsOwing, AfterUsage
  <2> QED BY <1>5, <2>1, <2>2 DEF CountStep, CountsLost
<1>7. ReportStep(n)
  BY <1>5 DEF ReportStep, InForce
<1>8. HandlerKnows(n)'
  BY DEF HandlerKnows, InForce
<1> QED BY <1>3, <1>4, <1>6, <1>7, <1>8, HandlerSteps

LEMMA HookFailsKeeps == ASSUME CountInv, NEW n \in Notifications, HookFails(n) PROVE CountInv'
<1>1. /\ hook[n].pc \in Working /\ hook[n].pc # "new" /\ SetHook(n, "failed")
  BY DEF HookFails, Working
<1>2. StepsOn(n) /\ hook'[n].pc = "failed" /\ EmailOf(n)' = EmailOf(n)
  BY <1>1, HandlerGoes DEF HookPCs
<1> QED BY <1>1, <1>2, FaultKeeps DEF HookFails

LEMMA HookStallsKeeps == ASSUME CountInv, NEW n \in Notifications, HookStalls(n) PROVE CountInv'
<1>1. hook[n].pc \in Working /\ hook[n].pc # "new" /\ hook[n] \in HookRecords
  BY DEF HookStalls, Working, CountInv, HookTyped
<1>2. CASE SetHook(n, "failed")
  <2>1. StepsOn(n) /\ hook'[n].pc = "failed" /\ EmailOf(n)' = EmailOf(n)
    BY <1>1, <1>2, HandlerGoes DEF HookPCs
  <2> QED BY <1>1, <2>1, FaultKeeps DEF HookStalls
<1>3. CASE /\ hook[n].stalls < MaxStalled
           /\ hook' = [hook EXCEPT ![n].pc = "queued", ![n].stalls = @ + 1]
  <2> PICK r : r = [hook[n] EXCEPT !.pc = "queued", !.stalls = hook[n].stalls + 1]
    OBVIOUS
  <2>1. /\ r \in HookRecords /\ r.pc = "queued"
        /\ r.email = hook[n].email /\ r.notice = hook[n].notice
    <3>1. hook[n] \in [pc : HookPCs \ {"new"}, email : Emails, msg : Runs, notice : Notices,
                       existing : BOOLEAN, stalls : 0 .. MaxStalled]
      BY <1>1 DEF HookRecords
    <3>2. hook[n].stalls + 1 \in 0 .. MaxStalled
      BY <1>3, <3>1
    <3>3. r \in [pc : HookPCs \ {"new"}, email : Emails, msg : Runs, notice : Notices,
                 existing : BOOLEAN, stalls : 0 .. MaxStalled]
      BY <3>1, <3>2 DEF HookPCs
    <3> QED BY <3>1, <3>3 DEF HookRecords
  <2>2. hook' = [hook EXCEPT ![n] = r]
    BY <1>3 DEF CountInv, HookTyped
  <2>3. hook'[n] = r /\ \A m \in Notifications \ {n} : hook'[m] = hook[m]
    BY <2>2 DEF CountInv, HookTyped
  <2>4. HookTyped'
    BY <2>1, <2>2 DEF CountInv, HookTyped
  <2>5. StepsOn(n) /\ EmailOf(n)' = EmailOf(n) /\ hook'[n].pc = "queued"
    BY <1>1, <2>1, <2>3, <2>4 DEF StepsOn, EmailOf
  <2> QED BY <1>1, <2>5, FaultKeeps DEF HookStalls
<1> QED BY <1>2, <1>3 DEF HookStalls

\* A new job has done nothing yet, and nothing else moves.
LEMMA NotifyKeeps == ASSUME CountInv, NEW n \in Notifications, Notify(n) PROVE CountInv'
<1>1. PICK e \in Emails, x \in Notices : \E m \in accepted[e] :
        hook' = [hook EXCEPT ![n] = [pc |-> "queued", email |-> e, msg |-> m, notice |-> x,
                                     existing |-> FALSE, stalls |-> 0]]
  BY DEF Notify
<1>2. PICK m \in accepted[e] :
        hook' = [hook EXCEPT ![n] = [pc |-> "queued", email |-> e, msg |-> m, notice |-> x,
                                     existing |-> FALSE, stalls |-> 0]]
  BY <1>1
<1> PICK r : r = [pc |-> "queued", email |-> e, msg |-> m, notice |-> x,
                  existing |-> FALSE, stalls |-> 0]
  OBVIOUS
<1>3. r \in HookRecords /\ r.pc = "queued"
  BY <1>2 DEF CountInv, StoreTypeOK, HookRecords, HookPCs
<1>4. hook' = [hook EXCEPT ![n] = r]
  BY <1>2
<1>5. HookTyped' /\ hook'[n] = r /\ \A k \in Notifications \ {n} : hook'[k] = hook[k]
  BY <1>3, <1>4 DEF CountInv, HookTyped
<1>6. /\ hook[n].pc = "new" /\ UNCHANGED << storeVars, countVars >>
  BY DEF Notify
<1>7. /\ StoreTypeOK' /\ CountTypes' /\ status' = status /\ events' = events
      /\ suffered' = suffered /\ usage' = usage /\ analytics' = analytics
      /\ suppressed' = suppressed /\ unsubscribed' = unsubscribed
  BY <1>6, StoreKept DEF CountInv, CountTypes, storeVars, countVars
<1>8. ~IsBetween(n) /\ ~IsBetween(n)' /\ ~InForce(n) /\ ~InForce(n)'
  BY <1>3, <1>5, <1>6 DEF IsBetween, InForce, AfterUsage
<1>9. \A f, s : Between(f, s)' = Between(f, s) /\ Owing(f, s)' = Owing(f, s)
  BY <1>5, <1>8 DEF Between, Owing, IsBetween, EmailOf, StatusOf
<1>10. \A f, s : IsReported(f, s)' <=> IsReported(f, s)
  BY <1>5, <1>7, <1>8 DEF IsReported, InForce, EmailOf, StatusOf
<1>11. \A k \in Notifications : HandlerKnows(k)'
  <2>1. HandlerKnows(n)'
    BY <1>3, <1>5 DEF HandlerKnows, InForce
  <2>2. Grows
    BY <1>7, GrowsMore
  <2> QED BY <1>5, <1>7, <2>1, <2>2, KnowsElsewhere
<1>12. \A f \in Emails : StatusShown(f)' /\ ComplaintKept(f)'
  <2> TAKE f \in Emails
  <2>1. StatusShown(f) /\ ComplaintKept(f)
    BY DEF CountInv
  <2>2. Unharmed(f)' <=> Unharmed(f)
    BY <1>7 DEF Unharmed
  <2> QED BY <1>7, <1>10, <2>1, <2>2 DEF StatusShown, ComplaintKept
<1>13. \A f \in Emails, s \in UsageStatuses : Counted(f, s)'
  <2> TAKE f \in Emails, s \in UsageStatuses
  <2>1. Counted(f, s)
    BY DEF CountInv
  <2>2. Unharmed(f)' <=> Unharmed(f)
    BY <1>7 DEF Unharmed
  <2>3. Between(f, s)' = Between(f, s) /\ Owing(f, s)' = Owing(f, s)
    BY <1>9
  <2> HIDE DEF Between, Owing
  <2> QED BY <1>7, <2>1, <2>2, <2>3 DEF Counted, CountsFinite, AnalyticsCounted, UsageCounted
<1> QED BY <1>5, <1>7, <1>11, <1>12, <1>13 DEF CountInv

LEMMA CountStart == SentInit => CountInv
<1> SUFFICES ASSUME SentInit PROVE CountInv
  OBVIOUS
<1>1. \A n \in Notifications : hook[n].pc = "new"
  BY DEF SentInit, HookInit
<1>2. HookTyped
  BY DEF SentInit, HookInit, HookTyped, HookRecords
<1>3. StoreTypeOK
  BY StatusNames DEF SentInit, StoreTypeOK, Runs
<1>4. CountTypes
  BY DEF SentInit, HookInit, CountTypes
<1>5. \A n \in Notifications : ~InForce(n) /\ hook[n].pc \notin AfterUsage /\ HandlerKnows(n)
  BY <1>1 DEF InForce, HandlerKnows, AfterUsage
<1>6. \A e \in Emails, s \in EmailStatuses : events[e][s] = 0
  BY DEF SentInit
<1>7. \A e \in Emails : StatusShown(e) /\ ComplaintKept(e)
  <2> TAKE e \in Emails
  <2>1. \A s \in HookStatuses : ~IsReported(e, s)
    BY <1>5, <1>6, StatusNames DEF IsReported, HookStatuses
  <2>2. status[e] \in EmailStatuses /\ status[e] \notin HookStatuses
    BY StatusNames DEF SentInit, HookStatuses
  <2>3. events[e]["COMPLAINED"] = 0
    BY <1>6, StatusNames
  <2> QED BY <2>1, <2>2, <2>3 DEF StatusShown, ComplaintKept
<1>8. \A e \in Emails, s \in UsageStatuses : Counted(e, s)
  <2> TAKE e \in Emails, s \in UsageStatuses
  <2>1. Between(e, s) = {} /\ Owing(e, s) = {}
    BY <1>5 DEF Between, Owing
  <2>2. usage[e][s] = 0 /\ analytics[e][s] = 0 /\ events[e][s] = 0
    BY <1>6, StatusNames DEF SentInit, HookInit, UsageStatuses
  <2>3. Cardinality({}) = 0 /\ IsFiniteSet({})
    BY FS_EmptySet
  <2> QED BY <2>1, <2>2, <2>3 DEF Counted, CountsFinite, AnalyticsCounted, UsageCounted
<1> QED BY <1>2, <1>3, <1>4, <1>5, <1>7, <1>8 DEF CountInv

LEMMA CountKept == CountInv /\ [HookNext]_hookSpecVars => CountInv'
<1> SUFFICES ASSUME CountInv, [HookNext]_hookSpecVars PROVE CountInv'
  OBVIOUS
<1>1. CASE UNCHANGED hookSpecVars
  <2>1. UNCHANGED << status, events, sesId, accepted, suffered, hook, usage, analytics,
                     suppressed, unsubscribed, unsubCount >>
    BY <1>1 DEF hookSpecVars, storeVars, hookVars
  <2>2. StoreTypeOK' /\ HookTyped' /\ CountTypes'
    BY <2>1 DEF CountInv, StoreTypeOK, HookTyped, CountTypes
  <2>3. \A n \in Notifications : HandlerKnows(n)'
    BY <2>1 DEF CountInv, HandlerKnows, InForce, EmailOf, StatusOf, Unharmed
  <2>4. \A e \in Emails : StatusShown(e)' /\ ComplaintKept(e)'
    BY <2>1 DEF CountInv, StatusShown, ComplaintKept, IsReported, InForce, EmailOf, StatusOf, Unharmed
  <2>5. \A e, s : Between(e, s)' = Between(e, s) /\ Owing(e, s)' = Owing(e, s)
    BY <2>1 DEF Between, Owing, EmailOf, StatusOf
  <2>6. \A e \in Emails, s \in UsageStatuses : Counted(e, s)'
    <3> HIDE DEF Between, Owing
    <3> QED BY <2>1, <2>5
            DEF CountInv, Counted, CountsFinite, AnalyticsCounted, UsageCounted, Unharmed
  <2> QED BY <2>2, <2>3, <2>4, <2>6 DEF CountInv
<1>2. ASSUME NEW n \in Notifications, HookProgress(n) PROVE CountInv'
  BY <1>2, LookupKeeps, CheckExistingKeeps, AdvanceStatusKeeps, AddSuppressionKeeps,
     CountUsageKeeps, CheckUnsubscribeKeeps, UnsubscribeContactKeeps, CountUnsubscribedKeeps,
     CountAnalyticsKeeps, RecordEventKeeps DEF HookProgress
<1> QED BY <1>1, <1>2, NotifyKeeps, HookFailsKeeps, HookStallsKeeps DEF HookNext

LEMMA CountsAgree == CountInv => EffectsAgree
<1> SUFFICES ASSUME CountInv PROVE EffectsAgree
  OBVIOUS
<1>1. HookTypeInv
  BY DEF CountInv, CountTypes, HookTyped, HookRecords, HookTypeInv, HookTypeOK, HookPCs
<1>2. StatusIsHighestReported
  <2> SUFFICES ASSUME NEW e \in Emails
               PROVE  /\ \A s \in Reported(e) : Rank(status[e]) >= Rank(s)
                      /\ status[e] \in HookStatuses /\ Unharmed(e) => status[e] \in Reported(e)
    BY DEF StatusIsHighestReported
  <2>1. \A s : s \in Reported(e) <=> IsReported(e, s)
    BY ReportedIs DEF CountInv
  <2>2. \A s : IsReported(e, s) => s \in HookStatuses
    BY NoticeStatus DEF CountInv, IsReported, InForce
  <2> QED BY <2>1, <2>2 DEF CountInv, StatusShown
<1>3. UsageMatchesEvents
  <2> SUFFICES ASSUME NEW e \in Emails, Quiet(e), Unharmed(e), NEW s \in UsageStatuses
               PROVE  IF s \in EngagementStatuses
                        THEN (events[e][s] > 0 <=> usage[e][s] > 0) /\ usage[e][s] <= events[e][s]
                        ELSE usage[e][s] = events[e][s]
    BY DEF UsageMatchesEvents
  <2>1. Between(e, s) = {}
    BY DEF Quiet, Handling, Between, AfterUsage, EmailOf
  <2>2. Cardinality(Between(e, s)) = 0
    BY <2>1, FS_EmptySet
  <2>3. events[e][s] \in Nat /\ usage[e][s] \in Nat
    BY StatusNames DEF CountInv, StoreTypeOK, CountTypes, UsageStatuses
  <2>4. UsageCounted(e, s)
    BY DEF CountInv, Counted
  <2> QED BY <2>2, <2>3, <2>4 DEF UsageCounted
<1>4. AnalyticsWithinUsage
  <2> SUFFICES ASSUME NEW e \in Emails, NEW s \in UsageStatuses PROVE analytics[e][s] <= usage[e][s]
    BY DEF AnalyticsWithinUsage
  <2>1. Cardinality(Owing(e, s)) \in Nat /\ analytics[e][s] + Cardinality(Owing(e, s)) <= usage[e][s]
    BY FS_CardinalityType DEF CountInv, Counted, CountsFinite, AnalyticsCounted
  <2>2. analytics[e][s] \in Nat /\ usage[e][s] \in Nat
    BY DEF CountInv, CountTypes
  <2> QED BY <2>1, <2>2
<1>5. ComplaintTakesEffect
  BY DEF CountInv, ComplaintKept, ComplaintTakesEffect
<1> QED BY <1>1, <1>2, <1>3, <1>4, <1>5 DEF EffectsAgree

(***************************************************************************)
(* Whatever the order and the repetitions of SES's notifications and       *)
(* whichever handlers of parseSesHook die, run again or lose a write, no   *)
(* email shows less than what was reported of it.  Where they met none of  *)
(* this and all are done, the usage counters are the events, opens and     *)
(* clicks counted at least once and at most as often; and a complaint has  *)
(* put the address on the suppression list and unsubscribed the contact.   *)
(* A campaign's analytics never exceed the usage.                          *)
(***************************************************************************)
THEOREM EffectsAlwaysAgree == HookSpec => []EffectsAgree
<1>1. HookSpec => []CountInv
  BY CountStart, CountKept, PTL DEF HookSpec
<1> QED BY <1>1, CountsAgree, PTL
-----------------------------------------------------------------------------
(***************************************************************************)
(* BulkSend: what a batch's attempt has made, phase by phase.              *)
(***************************************************************************)

\* Sets of numbers have a least member, and can be put in order.
LEMMA LeastNumber ==
  ASSUME NEW S, S \subseteq Nat, S # {}
  PROVE  \E i \in S : \A j \in S : i <= j
<1> DEFINE Less == OpToRel(<, Nat)
<1>1. PICK i \in S : \A j \in S : << j, i >> \notin Less
  <2>1. IsWellFoundedOn(Less, Nat)
    BY NatLessThanWellFounded
  <2> HIDE DEF Less
  <2> QED BY <2>1, WFMin
<1>2. \A j \in S : ~ (j < i)
  BY <1>1 DEF OpToRel
<1> QED BY <1>2

LEMMA EarliestIs ==
  ASSUME NEW S, S \subseteq Nat, S # {}
  PROVE  Earliest(S) \in S /\ \A j \in S : Earliest(S) <= j
BY LeastNumber DEF Earliest

Rising(q, S) ==
  /\ q \in [1 .. Cardinality(S) -> S]
  /\ \A m, n \in 1 .. Cardinality(S) : m < n => q[m] < q[n]

LEMMA RisingExists ==
  ASSUME NEW N \in Nat, NEW S, S \subseteq 1 .. N
  PROVE  \E q : Rising(q, S)
<1> DEFINE Bad == {n \in Nat : \E T : T \subseteq 1 .. n /\ ~ \E q : Rising(q, T)}
<1> SUFFICES ASSUME Bad # {} PROVE FALSE
  OBVIOUS
<1>1. PICK n \in Bad : \A m \in Bad : n <= m
  <2>1. Bad \subseteq Nat
    OBVIOUS
  <2> HIDE DEF Bad
  <2> QED BY <2>1, LeastNumber
<1>2. PICK T : T \subseteq 1 .. n /\ ~ \E q : Rising(q, T)
  BY <1>1
<1>3. n \in Nat
  BY <1>1
<1>4. n # 0
  <2> SUFFICES ASSUME n = 0 PROVE FALSE
    OBVIOUS
  <2>1. 1 .. n = {}
    OBVIOUS
  <2>2. T = {}
    BY <1>2, <2>1
  <2>3. Cardinality(T) = 0
    BY <2>2, FS_EmptySet
  <2>4. Rising(<< >>, T)
    BY <2>3 DEF Rising
  <2> QED BY <1>2, <2>4
<1>5. \A U : U \subseteq 1 .. (n - 1) => \E q : Rising(q, U)
  <2>1. n - 1 \in Nat /\ n - 1 \notin Bad
    <3> HIDE DEF Bad
    <3> QED BY <1>1, <1>3, <1>4
  <2> QED BY <2>1
<1>6. n \in T
  <2> SUFFICES ASSUME n \notin T PROVE FALSE
    OBVIOUS
  <2>1. T \subseteq 1 .. (n - 1)
    BY <1>2, <1>3
  <2> QED BY <1>2, <1>5, <2>1
<1> DEFINE U == T \ {n}
           c == Cardinality(U)
<1>7. U \subseteq 1 .. (n - 1)
  BY <1>2, <1>3
<1>8. c \in Nat /\ Cardinality(T) = c + 1
  <2>1. n \notin U /\ T = U \cup {n}
    BY <1>6
  <2>2. IsFiniteSet(1 .. (n - 1))
    BY <1>3, FS_Interval
  <2>3. IsFiniteSet(U)
    BY <1>7, <2>2, FS_Subset
  <2> HIDE DEF U
  <2> QED BY <2>1, <2>3, FS_AddElement, FS_CardinalityType
<1>9. PICK q : Rising(q, U)
  BY <1>5, <1>7
<1> HIDE DEF c
<1>10. q \in [1 .. c -> U] /\ \A i, j \in 1 .. c : i < j => q[i] < q[j]
  BY <1>9 DEF Rising, c
<1> DEFINE r == [i \in 1 .. (c + 1) |-> IF i = c + 1 THEN n ELSE q[i]]
<1>11. r \in [1 .. (c + 1) -> T]
  BY <1>6, <1>8, <1>10
<1>12. \A i, j \in 1 .. (c + 1) : i < j => r[i] < r[j]
  BY <1>3, <1>7, <1>8, <1>10
<1> HIDE DEF r, U
<1>13. Rising(r, T)
  BY <1>8, <1>11, <1>12 DEF Rising
<1> QED BY <1>2, <1>13

LEMMA InOrderIs ==
  ASSUME BatchAssumption, NEW S, S \subseteq Entries
  PROVE  /\ InOrder(S) \in Seq(Entries)
         /\ \A m, n \in DOMAIN InOrder(S) : m < n => InOrder(S)[m] < InOrder(S)[n]
         /\ \A i : i \in S <=> \E n \in DOMAIN InOrder(S) : InOrder(S)[n] = i
<1>0. Size \in Nat /\ Entries \subseteq Nat
  BY DEF BatchAssumption, Entries
<1>1. IsFiniteSet(S) /\ Cardinality(S) \in Nat
  <2>1. IsFiniteSet(Entries)
    BY <1>0, FS_Interval DEF Entries
  <2> QED BY <2>1, FS_Subset, FS_CardinalityType
<1>2. \E q : Rising(q, S)
  BY <1>0, RisingExists DEF Entries
<1>3. PICK q : q = InOrder(S)
  OBVIOUS
<1>4. Rising(q, S)
  BY <1>2, <1>3 DEF Rising, InOrder, Sorted
<1>5. PICK c \in Nat : c = Cardinality(S)
  BY <1>1
<1>6. q \in [1 .. c -> S] /\ \A m, n \in 1 .. c : m < n => q[m] < q[n]
  BY <1>4, <1>5 DEF Rising
<1>7. q \in Injection(1 .. c, S)
  <2>1. \A m, n \in 1 .. c : q[m] = q[n] => m = n
    <3> SUFFICES ASSUME NEW m \in 1 .. c, NEW n \in 1 .. c, q[m] = q[n], m # n PROVE FALSE
      OBVIOUS
    <3>1. q[m] \in Nat /\ q[n] \in Nat
      BY <1>0, <1>6
    <3> QED BY <1>6, <3>1
  <2> QED BY <1>6, <2>1 DEF Injection, IsInjective
<1>8. q \in Surjection(1 .. c, S)
  <2>1. Cardinality(1 .. c) = c
    BY FS_Interval
  <2> QED BY <1>1, <1>5, <1>7, <2>1, FS_Injection
<1>9. \A i \in S : \E n \in 1 .. c : q[n] = i
  BY <1>8 DEF Surjection
<1>10. q \in Seq(Entries) /\ DOMAIN q = 1 .. c
  <2>1. q \in [1 .. c -> Entries]
    BY <1>6
  <2> QED BY <2>1
<1> QED BY <1>3, <1>6, <1>9, <1>10

LEMMA NextGroupedIs ==
  ASSUME BatchAssumption, NEW a \in Attempts, attempt[a].todo # {},
         attempt[a].todo \subseteq Entries \ attempt[a].held
  PROVE  NextGrouped(a) \in attempt[a].todo
<1> DEFINE T == attempt[a].todo
           First(i) == FirstOfSender(a, i)
           F == {First(i) : i \in T}
           G == {i \in T : First(i) = Earliest(F)}
           g == Earliest(G)
<1>0. Entries \subseteq Nat /\ T \subseteq Entries
  BY DEF Entries
<1>1. \A i \in T : First(i) \in Nat
  <2> SUFFICES ASSUME NEW i \in T PROVE First(i) \in Nat
    OBVIOUS
  <2> DEFINE S == {j \in Entries \ attempt[a].held : batch[j].from = batch[i].from}
  <2>1. i \in S /\ S \subseteq Nat
    BY <1>0
  <2>2. Earliest(S) \in S
    <3> HIDE DEF S
    <3> QED BY <2>1, EarliestIs
  <2> QED BY <2>1, <2>2 DEF FirstOfSender
<1> HIDE DEF First
<1>2. F \subseteq Nat /\ F # {}
  BY <1>1
<1>3. Earliest(F) \in F /\ \A f \in F : Earliest(F) <= f
  <2> HIDE DEF F
  <2> QED BY <1>2, EarliestIs
<1>4. G \subseteq Nat /\ G # {}
  BY <1>0, <1>3
<1>5. g \in G /\ \A i \in G : g <= i
  <2> HIDE DEF G
  <2> QED BY <1>4, EarliestIs
<1>6. g \in T /\ First(g) = Earliest(F)
  BY <1>5
<1> HIDE DEF g
<1>7. \A j \in T \ {g} : GroupedBefore(a, g, j)
  <2> SUFFICES ASSUME NEW j \in T \ {g} PROVE First(g) < First(j) \/ (First(g) = First(j) /\ g < j)
    BY DEF GroupedBefore, First
  <2>1. First(j) \in F /\ First(j) \in Nat /\ First(g) \in Nat /\ g \in Nat /\ j \in Nat
    BY <1>0, <1>1, <1>6
  <2>2. First(g) <= First(j)
    BY <1>3, <1>6, <2>1
  <2>3. First(g) = First(j) => g <= j
    BY <1>5, <1>6
  <2> QED BY <2>1, <2>2, <2>3
<1> QED BY <1>6, <1>7 DEF NextGrouped
-----------------------------------------------------------------------------
\* The rows an attempt has made and those it has still to make.
HeldAreListed(a) == \A i \in attempt[a].held : batch[i].listed
TodoFits(a) ==
  /\ attempt[a].pc \in {"held", "event"} => attempt[a].todo \subseteq attempt[a].held
  /\ attempt[a].pc = "event" =>
       attempt[a].todo # {} /\ row[a][Earliest(attempt[a].todo)] = "SUPPRESSED"
  /\ attempt[a].pc = "rows" => attempt[a].todo \subseteq Entries \ attempt[a].held
  /\ attempt[a].pc \in {"queue", "answered"} => attempt[a].todo = {}
NoneQueuedYet(a) ==
  attempt[a].pc \in {"new", "held", "event"} =>
    \A i \in Entries :
      \/ row[a][i] = "none"
      \/ row[a][i] = "SUPPRESSED" /\ attempt[a].pc # "new" /\ i \in attempt[a].held
HeldAreMade(a) ==
  attempt[a].pc \in {"held", "event", "rows", "queue", "answered"} =>
    \A i \in attempt[a].held \ attempt[a].todo : row[a][i] = "SUPPRESSED" /\ << a, i >> \in told
OthersAreMade(a) ==
  attempt[a].pc \in {"rows", "queue", "answered"} =>
    \A i \in Entries \ attempt[a].held :
      \/ row[a][i] = "QUEUED"
      \/ row[a][i] = "none" /\ (i \in attempt[a].todo \/ << a, i >> \in skipped)
\* Jobs are added last.
JobsComeLast(a) ==
  \A i \in Entries :
    /\ << a, i >> \in queued => attempt[a].pc \in {"answered", "dead"}
    /\ << a, i >> \in ungrouped => attempt[a].pc = "answered"
AnswerGiven(a) ==
  attempt[a].pc = "answered" =>
    /\ answer[a] = InOrder(Made(a))
    /\ \A i \in Unsent(a) : << a, i >> \in queued <=> << a, i >> \notin ungrouped
WhatIsCutOff(a) ==
  attempt[a].pc = "error" =>
    \A i \in Unsent(a) :
      << a, i >> \in cut \/ \E j \in Entries \ attempt[a].held : batch[j].says # "words"
AttemptHolds(a) ==
  /\ HeldAreListed(a) /\ TodoFits(a) /\ NoneQueuedYet(a) /\ HeldAreMade(a) /\ OthersAreMade(a)
  /\ JobsComeLast(a) /\ AnswerGiven(a) /\ WhatIsCutOff(a)

OneAfterTheOther ==
  \A a, b \in Attempts : b < a /\ attempt[a].pc # "new" => attempt[b].pc \in {"error", "dead"}

BatchInv == BatchTypeOK /\ OneAfterTheOther /\ \A a \in Attempts : AttemptHolds(a)

\* What a step of a leaves alone.
OthersKept(a) ==
  /\ batch' = batch
  /\ \A b \in Attempts \ {a} :
       /\ attempt'[b] = attempt[b] /\ row'[b] = row[b] /\ answer'[b] = answer[b]
       /\ \A i \in Entries :
            /\ << b, i >> \in told' <=> << b, i >> \in told
            /\ << b, i >> \in queued' <=> << b, i >> \in queued
            /\ << b, i >> \in skipped' <=> << b, i >> \in skipped
            /\ << b, i >> \in ungrouped' <=> << b, i >> \in ungrouped
            /\ << b, i >> \in cut' <=> << b, i >> \in cut

LEMMA OtherHolds ==
  ASSUME BatchInv, NEW a, OthersKept(a), NEW b \in Attempts \ {a}
  PROVE  AttemptHolds(b)'
<1>1. AttemptHolds(b)
  BY DEF BatchInv
<1>2. /\ batch' = batch /\ attempt'[b] = attempt[b] /\ row'[b] = row[b] /\ answer'[b] = answer[b]
      /\ \A i \in Entries :
            /\ << b, i >> \in told' <=> << b, i >> \in told
            /\ << b, i >> \in queued' <=> << b, i >> \in queued
            /\ << b, i >> \in skipped' <=> << b, i >> \in skipped
            /\ << b, i >> \in ungrouped' <=> << b, i >> \in ungrouped
            /\ << b, i >> \in cut' <=> << b, i >> \in cut
  BY DEF OthersKept
<1>3. attempt[b].held \subseteq Entries
  BY DEF BatchInv, BatchTypeOK
<1>4. Unsent(b)' = Unsent(b) /\ Made(b)' = Made(b)
  BY <1>2 DEF Unsent, Made
<1>5. Unsent(b) \subseteq Entries
  BY DEF Unsent
<1> HIDE DEF Unsent, Made
<1>6. HeldAreListed(b)' /\ TodoFits(b)' /\ NoneQueuedYet(b)'
  BY <1>1, <1>2 DEF AttemptHolds, HeldAreListed, TodoFits, NoneQueuedYet
<1>7. HeldAreMade(b)' /\ OthersAreMade(b)'
  BY <1>1, <1>2, <1>3 DEF AttemptHolds, HeldAreMade, OthersAreMade
<1>8. JobsComeLast(b)' /\ AnswerGiven(b)'
  BY <1>1, <1>2, <1>4, <1>5 DEF AttemptHolds, JobsComeLast, AnswerGiven
<1>9. WhatIsCutOff(b)'
  BY <1>1, <1>2, <1>4, <1>5 DEF AttemptHolds, WhatIsCutOff
<1> QED BY <1>6, <1>7, <1>8, <1>9 DEF AttemptHolds

LEMMA AttemptMoves ==
  ASSUME BatchInv, NEW a \in Attempts, OthersKept(a), BatchTypeOK', AttemptHolds(a)',
         attempt[a].pc \notin {"error", "dead"}, attempt'[a].pc # "new",
         attempt[a].pc = "new" => \A b \in Attempts : b < a => attempt[b].pc \in {"error", "dead"}
  PROVE  BatchInv'
<1>1. \A b \in Attempts : AttemptHolds(b)'
  BY OtherHolds
<1>2. OneAfterTheOther'
  <2> SUFFICES ASSUME NEW c \in Attempts, NEW b \in Attempts, b < c, attempt'[c].pc # "new"
               PROVE  attempt'[b].pc \in {"error", "dead"}
    BY DEF OneAfterTheOther
  <2>1. c \in Int /\ b \in Int
    BY DEF Attempts
  <2>2. CASE c = a
    <3>1. b # a /\ attempt'[b] = attempt[b]
      BY <2>1, <2>2 DEF OthersKept
    <3> QED BY <2>2, <3>1 DEF BatchInv, OneAfterTheOther
  <2>3. CASE c # a
    <3>1. attempt[c].pc # "new"
      BY <2>3 DEF OthersKept
    <3>2. attempt[b].pc \in {"error", "dead"}
      BY <3>1 DEF BatchInv, OneAfterTheOther
    <3>3. attempt'[b] = attempt[b]
      BY <3>2 DEF OthersKept
    <3> QED BY <3>2, <3>3
  <2> QED BY <2>2, <2>3
<1> QED BY <1>1, <1>2 DEF BatchInv

LEMMA AttemptGoes ==
  ASSUME BatchTypeOK, NEW a \in Attempts, NEW s \in AttemptSteps, BatchGoes(a, s)
  PROVE  /\ attempt' \in [Attempts -> [pc : AttemptSteps, held : SUBSET Entries, todo : SUBSET Entries]]
         /\ attempt'[a].pc = s /\ attempt'[a].held = attempt[a].held /\ attempt'[a].todo = attempt[a].todo
         /\ \A b \in Attempts \ {a} : attempt'[b] = attempt[b]
<1> PICK r : r = [attempt[a] EXCEPT !.pc = s]
  OBVIOUS
<1>1. attempt[a] \in [pc : AttemptSteps, held : SUBSET Entries, todo : SUBSET Entries]
  BY DEF BatchTypeOK
<1>2. /\ r \in [pc : AttemptSteps, held : SUBSET Entries, todo : SUBSET Entries]
      /\ r.pc = s /\ r.held = attempt[a].held /\ r.todo = attempt[a].todo
  BY <1>1
<1>3. attempt' = [attempt EXCEPT ![a] = r]
  BY DEF BatchGoes
<1>4. attempt'[a] = r /\ \A b \in Attempts \ {a} : attempt'[b] = attempt[b]
  BY <1>3 DEF BatchTypeOK
<1>5. attempt' \in [Attempts -> [pc : AttemptSteps, held : SUBSET Entries, todo : SUBSET Entries]]
  BY <1>2, <1>3 DEF BatchTypeOK
<1> QED BY <1>2, <1>4, <1>5

\* A step on, with something done.
LEMMA AttemptDoes ==
  ASSUME BatchTypeOK, NEW a \in Attempts, NEW s \in AttemptSteps, NEW T, T \subseteq Entries, NEW r,
         r = [attempt[a] EXCEPT !.pc = s, !.todo = T], attempt' = [attempt EXCEPT ![a] = r]
  PROVE  /\ attempt' \in [Attempts -> [pc : AttemptSteps, held : SUBSET Entries, todo : SUBSET Entries]]
         /\ attempt'[a].pc = s /\ attempt'[a].held = attempt[a].held /\ attempt'[a].todo = T
         /\ \A b \in Attempts \ {a} : attempt'[b] = attempt[b]
<1>1. attempt[a] \in [pc : AttemptSteps, held : SUBSET Entries, todo : SUBSET Entries]
  BY DEF BatchTypeOK
<1>2. /\ r \in [pc : AttemptSteps, held : SUBSET Entries, todo : SUBSET Entries]
      /\ r.pc = s /\ r.held = attempt[a].held /\ r.todo = T
  BY <1>1
<1>3. attempt'[a] = r /\ \A b \in Attempts \ {a} : attempt'[b] = attempt[b]
  BY DEF BatchTypeOK
<1>4. attempt' \in [Attempts -> [pc : AttemptSteps, held : SUBSET Entries, todo : SUBSET Entries]]
  BY <1>2 DEF BatchTypeOK
<1> QED BY <1>2, <1>3, <1>4

LEMMA FaultTyped ==
  ASSUME BatchTypeOK, BatchAssumption, Fault \/ UNCHANGED faults
  PROVE  faults' \in 0 .. MaxBatchFaults
BY DEF BatchTypeOK, BatchAssumption, Fault

-----------------------------------------------------------------------------
\* An attempt that ends in an error, whatever cuts it off.
LEMMA ErrorKeeps ==
  ASSUME BatchInv, BatchAssumption, NEW a \in Attempts, BatchGoes(a, "error"),
         attempt[a].pc \in {"held", "event", "rows"},
         UNCHANGED << batch, row, told, queued, answer, skipped, ungrouped, verified, misread >>,
         Fault \/ UNCHANGED faults,
         NEW L, L \subseteq Entries, cut' = cut \cup {a} \X L,
         \A i \in Unsent(a) :
           i \in L \/ << a, i >> \in cut \/ \E j \in Entries \ attempt[a].held : batch[j].says # "words"
  PROVE  BatchInv'
<1>1. /\ attempt' \in [Attempts -> [pc : AttemptSteps, held : SUBSET Entries, todo : SUBSET Entries]]
      /\ attempt'[a].pc = "error" /\ attempt'[a].held = attempt[a].held
      /\ \A b \in Attempts \ {a} : attempt'[b] = attempt[b]
  BY AttemptGoes DEF BatchInv, AttemptSteps
<1>2. BatchTypeOK'
  BY <1>1, FaultTyped DEF BatchInv, BatchTypeOK
<1>3. OthersKept(a)
  BY <1>1 DEF OthersKept
<1>4. AttemptHolds(a)'
  <2>1. AttemptHolds(a)
    BY DEF BatchInv
  <2>2. Unsent(a)' = Unsent(a)
    BY DEF Unsent
  <2> HIDE DEF Unsent
  <2>3. HeldAreListed(a)' /\ TodoFits(a)' /\ NoneQueuedYet(a)' /\ HeldAreMade(a)' /\ OthersAreMade(a)'
        /\ AnswerGiven(a)'
    BY <1>1, <2>1 DEF AttemptHolds, HeldAreListed, TodoFits, NoneQueuedYet, HeldAreMade,
         OthersAreMade, AnswerGiven
  <2>4. JobsComeLast(a)'
    BY <1>1, <2>1 DEF AttemptHolds, JobsComeLast
  <2>5. WhatIsCutOff(a)'
    BY <1>1, <2>2 DEF WhatIsCutOff
  <2> QED BY <2>3, <2>4, <2>5 DEF AttemptHolds
<1> QED BY <1>1, <1>2, <1>3, <1>4, AttemptMoves
LEMMA CheckSuppressedKeeps ==
  ASSUME BatchInv, BatchAssumption, NEW a \in Attempts, CheckSuppressed(a) PROVE BatchInv'
<1>1. PICK lost \in SUBSET {i \in Entries : batch[i].listed} :
        /\ Fault \/ UNCHANGED faults
        /\ misread' = misread \cup {a} \X lost
        /\ attempt' = [attempt EXCEPT ![a] =
                         [pc |-> "held", held |-> {i \in Entries : batch[i].listed} \ lost,
                          todo |-> {i \in Entries : batch[i].listed} \ lost]]
  BY DEF CheckSuppressed
<1> PICK held : held = {i \in Entries : batch[i].listed} \ lost
  OBVIOUS
<1>2. held \subseteq Entries /\ \A i \in held : batch[i].listed
  OBVIOUS
<1> PICK r : r = [pc |-> "held", held |-> held, todo |-> held]
  OBVIOUS
<1>3. attempt' = [attempt EXCEPT ![a] = r]
  BY <1>1
<1>4. /\ attempt' \in [Attempts -> [pc : AttemptSteps, held : SUBSET Entries, todo : SUBSET Entries]]
      /\ attempt'[a] = r /\ \A b \in Attempts \ {a} : attempt'[b] = attempt[b]
  <2>1. r \in [pc : AttemptSteps, held : SUBSET Entries, todo : SUBSET Entries]
    BY <1>2 DEF AttemptSteps
  <2> QED BY <1>3, <2>1 DEF BatchInv, BatchTypeOK
<1>5. /\ attempt[a].pc = "new" /\ \A b \in Attempts : b < a => attempt[b].pc \in {"error", "dead"}
      /\ UNCHANGED << batch, verified, row, told, queued, answer, skipped, ungrouped, cut >>
  BY DEF CheckSuppressed, At
<1>6. BatchTypeOK'
  <2>1. misread' \subseteq Attempts \X Entries
    BY <1>1 DEF BatchInv, BatchTypeOK
  <2> QED BY <1>1, <1>4, <1>5, <2>1, FaultTyped DEF BatchInv, BatchTypeOK
<1>7. OthersKept(a)
  BY <1>4, <1>5 DEF OthersKept
<1>8. AttemptHolds(a)'
  <2>1. NoneQueuedYet(a) /\ JobsComeLast(a)
    BY DEF BatchInv, AttemptHolds
  <2>2. attempt'[a].pc = "held" /\ attempt'[a].held = held /\ attempt'[a].todo = held
    BY <1>4
  <2>3. HeldAreListed(a)' /\ TodoFits(a)' /\ HeldAreMade(a)' /\ OthersAreMade(a)' /\ AnswerGiven(a)'
        /\ WhatIsCutOff(a)'
    BY <1>2, <1>5, <2>2 DEF HeldAreListed, TodoFits, HeldAreMade, OthersAreMade, AnswerGiven, WhatIsCutOff
  <2>4. NoneQueuedYet(a)'
    BY <1>5, <2>1 DEF NoneQueuedYet
  <2>5. JobsComeLast(a)'
    BY <1>5, <2>1 DEF JobsComeLast
  <2> QED BY <2>3, <2>4, <2>5 DEF AttemptHolds
<1> QED BY <1>4, <1>5, <1>6, <1>7, <1>8, AttemptMoves

\* The request throws, with the rows of the suppressed emails only.
LEMMA ThrowsKeeps ==
  ASSUME BatchInv, BatchAssumption, NEW a \in Attempts, Throws(a),
         attempt[a].pc \in {"held", "event"}, UNCHANGED << batch, verified >>,
         Fault \/ UNCHANGED faults
  PROVE  BatchInv'
<1>1. Unsent(a) = {}
  BY SMTT(20) DEF BatchInv, AttemptHolds, NoneQueuedYet, Unsent
<1>2. cut' = cut \cup {a} \X {}
  BY DEF Throws, batchHistory
<1> HIDE DEF Unsent
<1> QED BY <1>1, <1>2, ErrorKeeps DEF Throws, batchHistory

LEMMA CreateSuppressedKeeps ==
  ASSUME BatchInv, BatchAssumption, NEW a \in Attempts, CreateSuppressed(a) PROVE BatchInv'
<1>1. attempt[a].pc = "held" /\ attempt[a].todo # {} /\ UNCHANGED << batch, verified >>
  BY DEF CreateSuppressed, At
<1>2. CASE Throws(a) /\ (Fault \/ UNCHANGED faults)
  BY <1>1, <1>2, ThrowsKeeps
<1>3. CASE /\ row' = [row EXCEPT ![a][Earliest(attempt[a].todo)] = "SUPPRESSED"]
           /\ BatchGoes(a, "event") /\ UNCHANGED << told, queued, answer, batchHistory, faults >>
  <2> PICK i : i = Earliest(attempt[a].todo)
    OBVIOUS
  <2>1. i \in attempt[a].todo /\ i \in attempt[a].held /\ i \in Entries
    <3>1. attempt[a].todo \subseteq Entries /\ Entries \subseteq Nat /\ TodoFits(a)
      BY DEF BatchInv, BatchTypeOK, AttemptHolds, Entries
    <3> QED BY <1>1, <3>1, EarliestIs DEF TodoFits
  <2>2. /\ attempt' \in [Attempts -> [pc : AttemptSteps, held : SUBSET Entries, todo : SUBSET Entries]]
        /\ attempt'[a].pc = "event" /\ attempt'[a].held = attempt[a].held
        /\ attempt'[a].todo = attempt[a].todo
        /\ \A b \in Attempts \ {a} : attempt'[b] = attempt[b]
    BY <1>3, AttemptGoes DEF BatchInv, AttemptSteps
  <2>3. /\ row' \in [Attempts -> [Entries -> {"none", "SUPPRESSED", "QUEUED", "FAILED"}]]
        /\ \A b \in Attempts \ {a} : row'[b] = row[b]
        /\ \A j \in Entries : row'[a][j] = IF j = i THEN "SUPPRESSED" ELSE row[a][j]
    BY <1>3, <2>1 DEF BatchInv, BatchTypeOK
  <2>4. BatchTypeOK'
    BY <1>1, <1>3, <2>2, <2>3 DEF BatchInv, BatchTypeOK, batchHistory
  <2>5. OthersKept(a)
    BY <1>1, <1>3, <2>2, <2>3 DEF OthersKept, batchHistory
  <2>6. AttemptHolds(a)'
    <3>1. AttemptHolds(a) /\ attempt[a].held \subseteq Entries
      BY DEF BatchInv, BatchTypeOK
    <3>2. HeldAreListed(a)' /\ OthersAreMade(a)' /\ AnswerGiven(a)' /\ WhatIsCutOff(a)'
      BY <1>1, <2>2, <3>1 DEF AttemptHolds, HeldAreListed, OthersAreMade, AnswerGiven, WhatIsCutOff
    <3>3. TodoFits(a)'
      BY <1>1, <2>1, <2>2, <2>3, <3>1 DEF AttemptHolds, TodoFits
    <3>4. NoneQueuedYet(a)'
      BY <1>1, <2>1, <2>2, <2>3, <3>1 DEF AttemptHolds, NoneQueuedYet
    <3>5. HeldAreMade(a)'
      BY <1>1, <1>3, <2>1, <2>2, <2>3, <3>1 DEF AttemptHolds, HeldAreMade
    <3>6. JobsComeLast(a)'
      BY <1>1, <1>3, <3>1 DEF AttemptHolds, JobsComeLast, batchHistory
    <3> QED BY <3>2, <3>3, <3>4, <3>5, <3>6 DEF AttemptHolds
  <2> QED BY <1>1, <2>2, <2>4, <2>5, <2>6, AttemptMoves
<1> QED BY <1>2, <1>3 DEF CreateSuppressed

LEMMA SuppressedEventKeeps ==
  ASSUME BatchInv, BatchAssumption, NEW a \in Attempts, EventOfSuppressed(a) PROVE BatchInv'
<1>1. attempt[a].pc = "event" /\ UNCHANGED << batch, verified >>
  BY DEF EventOfSuppressed, At
<1>2. CASE Throws(a) /\ Fault
  BY <1>1, <1>2, ThrowsKeeps
<1> PICK i : i = Earliest(attempt[a].todo)
  OBVIOUS
<1> PICK T : T = attempt[a].todo \ {i}
  OBVIOUS
<1>3. CASE /\ told' = told \cup {<< a, i >>}
           /\ attempt' = [attempt EXCEPT ![a].pc = "held", ![a].todo = T]
           /\ UNCHANGED << row, queued, answer, batchHistory, faults >>
  <2>1. AttemptHolds(a) /\ attempt[a].todo \subseteq Entries /\ attempt[a].held \subseteq Entries
    BY DEF BatchInv, BatchTypeOK
  <2>2. i \in attempt[a].todo /\ i \in Entries /\ row[a][i] = "SUPPRESSED"
    <3>1. attempt[a].todo \subseteq Nat /\ attempt[a].todo # {} /\ row[a][i] = "SUPPRESSED"
      BY <1>1, <2>1 DEF AttemptHolds, TodoFits, Entries
    <3> QED BY <2>1, <3>1, EarliestIs
  <2>3. /\ attempt' \in [Attempts -> [pc : AttemptSteps, held : SUBSET Entries, todo : SUBSET Entries]]
        /\ attempt'[a].pc = "held" /\ attempt'[a].held = attempt[a].held /\ attempt'[a].todo = T
        /\ \A b \in Attempts \ {a} : attempt'[b] = attempt[b]
    <3>1. BatchTypeOK /\ "held" \in AttemptSteps
      BY DEF BatchInv, AttemptSteps
    <3> PICK s \in AttemptSteps : s = "held"
      BY <3>1
    <3> PICK r : r = [attempt[a] EXCEPT !.pc = s, !.todo = T]
      OBVIOUS
    <3>2. T \subseteq Entries
      BY <2>1
    <3>3. attempt' = [attempt EXCEPT ![a] = r]
      BY <1>3, <3>1 DEF BatchTypeOK
    <3> QED BY <3>1, <3>2, <3>3, AttemptDoes
  <2>4. BatchTypeOK'
    <3>1. told' \subseteq Attempts \X Entries
      BY <1>3, <2>2 DEF BatchInv, BatchTypeOK
    <3> QED BY <1>1, <1>3, <2>3, <3>1 DEF BatchInv, BatchTypeOK, batchHistory
  <2>5. OthersKept(a)
    BY <1>1, <1>3, <2>3 DEF OthersKept, batchHistory
  <2>6. AttemptHolds(a)'
    <3>1. HeldAreListed(a)' /\ OthersAreMade(a)' /\ AnswerGiven(a)' /\ WhatIsCutOff(a)'
      BY <1>1, <2>1, <2>3 DEF AttemptHolds, HeldAreListed, OthersAreMade, AnswerGiven, WhatIsCutOff
    <3>2. TodoFits(a)'
      BY <1>1, <2>1, <2>3 DEF AttemptHolds, TodoFits
    <3>3. NoneQueuedYet(a)'
      BY <1>1, <1>3, <2>1, <2>3 DEF AttemptHolds, NoneQueuedYet
    <3>4. HeldAreMade(a)'
      BY <1>1, <1>3, <2>1, <2>2, <2>3 DEF AttemptHolds, HeldAreMade
    <3>5. JobsComeLast(a)'
      BY <1>1, <1>3, <2>1 DEF AttemptHolds, JobsComeLast, batchHistory
    <3> QED BY <3>1, <3>2, <3>3, <3>4, <3>5 DEF AttemptHolds
  <2> QED BY <1>1, <2>3, <2>4, <2>5, <2>6, AttemptMoves
<1> QED BY <1>2, <1>3 DEF EventOfSuppressed

LEMMA ValidateDomainsKeeps ==
  ASSUME BatchInv, BatchAssumption, NEW a \in Attempts, ValidateDomains(a) PROVE BatchInv'
<1>1. attempt[a].pc = "held" /\ attempt[a].todo = {} /\ UNCHANGED << batch, verified, faults >>
  BY DEF ValidateDomains, At
<1>2. CASE Throws(a)
  BY <1>1, <1>2, ThrowsKeeps
<1> PICK T : T = Entries \ attempt[a].held
  OBVIOUS
<1>3. CASE /\ attempt' = [attempt EXCEPT ![a].pc = "rows", ![a].todo = T]
           /\ UNCHANGED << row, told, queued, answer, batchHistory >>
  <2>1. AttemptHolds(a) /\ attempt[a].held \subseteq Entries
    BY DEF BatchInv, BatchTypeOK
  <2>2. /\ attempt' \in [Attempts -> [pc : AttemptSteps, held : SUBSET Entries, todo : SUBSET Entries]]
        /\ attempt'[a].pc = "rows" /\ attempt'[a].held = attempt[a].held /\ attempt'[a].todo = T
        /\ \A b \in Attempts \ {a} : attempt'[b] = attempt[b]
    <3>1. BatchTypeOK /\ "rows" \in AttemptSteps
      BY DEF BatchInv, AttemptSteps
    <3> PICK s \in AttemptSteps : s = "rows"
      BY <3>1
    <3> PICK r : r = [attempt[a] EXCEPT !.pc = s, !.todo = T]
      OBVIOUS
    <3>2. T \subseteq Entries
      BY <2>1
    <3>3. attempt' = [attempt EXCEPT ![a] = r]
      BY <1>3, <3>1 DEF BatchTypeOK
    <3> QED BY <3>1, <3>2, <3>3, AttemptDoes
  <2>3. BatchTypeOK'
    BY <1>1, <1>3, <2>2 DEF BatchInv, BatchTypeOK, batchHistory
  <2>4. OthersKept(a)
    BY <1>1, <1>3, <2>2 DEF OthersKept, batchHistory
  <2>5. AttemptHolds(a)'
    <3>1. HeldAreListed(a)' /\ TodoFits(a)' /\ NoneQueuedYet(a)' /\ AnswerGiven(a)' /\ WhatIsCutOff(a)'
      BY <1>1, <2>1, <2>2
         DEF AttemptHolds, HeldAreListed, TodoFits, NoneQueuedYet, AnswerGiven, WhatIsCutOff
    <3>2. HeldAreMade(a)'
      BY <1>1, <1>3, <2>1, <2>2 DEF AttemptHolds, HeldAreMade
    <3>3. OthersAreMade(a)'
      <4> SUFFICES ASSUME NEW i \in Entries \ attempt[a].held
                   PROVE  row[a][i] = "QUEUED" \/ (row[a][i] = "none" /\ i \in T)
        BY <1>3, <2>2 DEF OthersAreMade
      <4> QED BY <1>1, <2>1 DEF AttemptHolds, NoneQueuedYet
    <3>4. JobsComeLast(a)'
      BY <1>1, <1>3, <2>1 DEF AttemptHolds, JobsComeLast, batchHistory
    <3> QED BY <3>1, <3>2, <3>3, <3>4 DEF AttemptHolds
  <2> QED BY <1>1, <2>2, <2>3, <2>4, <2>5, AttemptMoves
<1> QED BY <1>2, <1>3 DEF ValidateDomains
LEMMA CreateBatchRowKeeps ==
  ASSUME BatchInv, BatchAssumption, NEW a \in Attempts, CreateBatchRow(a) PROVE BatchInv'
<1> PICK i : i = NextGrouped(a)
  OBVIOUS
<1>1. /\ attempt[a].pc = "rows" /\ attempt[a].todo # {}
      /\ UNCHANGED << batch, verified, told, queued, answer, misread, ungrouped >>
  BY DEF CreateBatchRow, At
<1>2. /\ AttemptHolds(a) /\ attempt[a].todo \subseteq Entries \ attempt[a].held
      /\ attempt[a].todo \subseteq Entries /\ attempt[a].held \subseteq Entries
  BY <1>1 DEF BatchInv, BatchTypeOK, AttemptHolds, TodoFits
<1>3. i \in attempt[a].todo /\ i \in Entries \ attempt[a].held
  <2>1. i \in attempt[a].todo
    BY <1>1, <1>2, NextGroupedIs
  <2> QED BY <1>2, <2>1
<1>4. CASE /\ batch[i].says # "words" /\ BatchGoes(a, "error")
           /\ UNCHANGED << row, faults, skipped, cut >>
  <2> PICK L : L = {}
    OBVIOUS
  <2>1. L \subseteq Entries /\ cut' = cut \cup {a} \X L
    BY <1>4
  <2>2. \A k \in Unsent(a) : \E j \in Entries \ attempt[a].held : batch[j].says # "words"
    BY <1>3, <1>4
  <2> HIDE DEF Unsent
  <2> QED BY <1>1, <1>4, <2>1, <2>2, ErrorKeeps
<1>5. CASE /\ Fault /\ cut' = cut \cup {a} \X Unsent(a)
           /\ BatchGoes(a, "error") /\ UNCHANGED << row, skipped >>
  <2> PICK L : L = Unsent(a)
    OBVIOUS
  <2>1. L \subseteq Entries /\ cut' = cut \cup {a} \X L
    BY <1>5 DEF Unsent
  <2>2. \A k \in Unsent(a) : k \in L
    OBVIOUS
  <2> HIDE DEF Unsent
  <2> QED BY <1>1, <1>5, <2>1, <2>2, ErrorKeeps
<1>6. CASE /\ attempt' = [attempt EXCEPT ![a].todo = @ \ {i}] /\ UNCHANGED cut
           /\ \/ /\ row' = [row EXCEPT ![a][i] = "QUEUED"] /\ UNCHANGED << faults, skipped >>
              \/ /\ Fault /\ skipped' = skipped \cup {<< a, i >>} /\ UNCHANGED row
  <2> PICK T : T = attempt[a].todo \ {i}
    OBVIOUS
  <2>1. /\ attempt' \in [Attempts -> [pc : AttemptSteps, held : SUBSET Entries, todo : SUBSET Entries]]
        /\ attempt'[a].pc = "rows" /\ attempt'[a].held = attempt[a].held /\ attempt'[a].todo = T
        /\ \A b \in Attempts \ {a} : attempt'[b] = attempt[b]
    <3>1. BatchTypeOK /\ "rows" \in AttemptSteps
      BY DEF BatchInv, AttemptSteps
    <3> PICK s \in AttemptSteps : s = "rows"
      BY <3>1
    <3> PICK r : r = [attempt[a] EXCEPT !.pc = s, !.todo = T]
      OBVIOUS
    <3>2. T \subseteq Entries
      BY <1>2
    <3>3. attempt[a] \in [pc : AttemptSteps, held : SUBSET Entries, todo : SUBSET Entries]
      BY <3>1 DEF BatchTypeOK
    <3>4. [attempt[a] EXCEPT !.todo = T] = r
      BY <1>1, <3>3
    <3>5. attempt' = [attempt EXCEPT ![a] = [attempt[a] EXCEPT !.todo = T]]
      BY <1>6
    <3>6. attempt' = [attempt EXCEPT ![a] = r]
      BY <3>4, <3>5
    <3> QED BY <3>1, <3>2, <3>6, AttemptDoes
  <2>2. /\ row' \in [Attempts -> [Entries -> {"none", "SUPPRESSED", "QUEUED", "FAILED"}]]
        /\ \A b \in Attempts \ {a} : row'[b] = row[b]
        /\ \A j \in Entries \ {i} : row'[a][j] = row[a][j]
        /\ row'[a][i] = "QUEUED" \/ (row'[a][i] = row[a][i] /\ << a, i >> \in skipped')
    <3>1. row \in [Attempts -> [Entries -> {"none", "SUPPRESSED", "QUEUED", "FAILED"}]]
      BY DEF BatchInv, BatchTypeOK
    <3>2. CASE row' = [row EXCEPT ![a][i] = "QUEUED"]
      BY <1>3, <3>1, <3>2
    <3>3. CASE skipped' = skipped \cup {<< a, i >>} /\ UNCHANGED row
      BY <3>1, <3>3
    <3> QED BY <1>6, <3>2, <3>3
  <2>3. /\ skipped' \subseteq Attempts \X Entries /\ skipped \subseteq skipped'
        /\ \A b \in Attempts \ {a} : \A j \in Entries : << b, j >> \in skipped' <=> << b, j >> \in skipped
    BY <1>3, <1>6 DEF BatchInv, BatchTypeOK
  <2>4. BatchTypeOK'
    BY <1>1, <1>6, <2>1, <2>2, <2>3, FaultTyped DEF BatchInv, BatchTypeOK
  <2>5. OthersKept(a)
    BY <1>1, <1>6, <2>1, <2>2, <2>3 DEF OthersKept
  <2>6. AttemptHolds(a)'
    <3>1. HeldAreListed(a)' /\ NoneQueuedYet(a)' /\ AnswerGiven(a)' /\ WhatIsCutOff(a)'
      BY <1>1, <1>2, <2>1 DEF AttemptHolds, HeldAreListed, NoneQueuedYet, AnswerGiven, WhatIsCutOff
    <3>2. TodoFits(a)'
      BY <1>2, <2>1 DEF TodoFits
    <3>3. HeldAreMade(a)'
      <4> SUFFICES ASSUME NEW j \in attempt[a].held
                   PROVE  row'[a][j] = "SUPPRESSED" /\ << a, j >> \in told
        BY <1>1, <2>1 DEF HeldAreMade
      <4>1. j \in attempt[a].held \ attempt[a].todo /\ j \in Entries \ {i}
        BY <1>2, <1>3
      <4> QED BY <1>1, <1>2, <2>2, <4>1 DEF AttemptHolds, HeldAreMade
    <3>4. OthersAreMade(a)'
      <4> SUFFICES ASSUME NEW j \in Entries \ attempt[a].held
                   PROVE  \/ row'[a][j] = "QUEUED"
                          \/ row'[a][j] = "none" /\ (j \in T \/ << a, j >> \in skipped')
        BY <2>1 DEF OthersAreMade
      <4>1. \/ row[a][j] = "QUEUED"
            \/ row[a][j] = "none" /\ (j \in attempt[a].todo \/ << a, j >> \in skipped)
        BY <1>1, <1>2 DEF AttemptHolds, OthersAreMade
      <4>2. CASE j = i
        BY <2>2, <4>1, <4>2
      <4>3. CASE j # i
        BY <2>2, <2>3, <4>1, <4>3
      <4> QED BY <4>2, <4>3
    <3>5. JobsComeLast(a)'
      BY <1>1, <1>2, <2>1 DEF AttemptHolds, JobsComeLast
    <3> QED BY <3>1, <3>2, <3>3, <3>4, <3>5 DEF AttemptHolds
  <2> QED BY <1>1, <2>1, <2>4, <2>5, <2>6, AttemptMoves
<1> QED BY <1>4, <1>5, <1>6 DEF CreateBatchRow

LEMMA EndRowsKeeps ==
  ASSUME BatchInv, BatchAssumption, NEW a \in Attempts, EndRows(a) PROVE BatchInv'
<1>1. /\ attempt[a].pc = "rows" /\ attempt[a].todo = {}
      /\ UNCHANGED << batch, verified, row, told, queued, answer, faults, batchHistory >>
  BY DEF EndRows, At
<1>2. CASE BatchGoes(a, "error") /\ Unsent(a) = {}
  <2>1. cut' = cut \cup {a} \X {}
    BY <1>1 DEF batchHistory
  <2> HIDE DEF Unsent
  <2> QED BY <1>1, <1>2, <2>1, ErrorKeeps DEF batchHistory
<1>3. CASE BatchGoes(a, "queue")
  <2>1. /\ attempt' \in [Attempts -> [pc : AttemptSteps, held : SUBSET Entries, todo : SUBSET Entries]]
        /\ attempt'[a].pc = "queue" /\ attempt'[a].held = attempt[a].held
        /\ attempt'[a].todo = attempt[a].todo
        /\ \A b \in Attempts \ {a} : attempt'[b] = attempt[b]
    BY <1>3, AttemptGoes DEF BatchInv, AttemptSteps
  <2>2. BatchTypeOK'
    BY <1>1, <2>1 DEF BatchInv, BatchTypeOK, batchHistory
  <2>3. OthersKept(a)
    BY <1>1, <2>1 DEF OthersKept, batchHistory
  <2>4. AttemptHolds(a)'
    <3>1. AttemptHolds(a)
      BY DEF BatchInv
    <3>2. HeldAreListed(a)' /\ NoneQueuedYet(a)' /\ TodoFits(a)' /\ AnswerGiven(a)' /\ WhatIsCutOff(a)'
      BY <1>1, <2>1, <3>1
         DEF AttemptHolds, HeldAreListed, NoneQueuedYet, TodoFits, AnswerGiven, WhatIsCutOff
    <3>3. HeldAreMade(a)' /\ OthersAreMade(a)'
      BY <1>1, <2>1, <3>1 DEF AttemptHolds, HeldAreMade, OthersAreMade, batchHistory
    <3>4. JobsComeLast(a)'
      BY <1>1, <2>1, <3>1 DEF AttemptHolds, JobsComeLast, batchHistory
    <3> QED BY <3>2, <3>3, <3>4 DEF AttemptHolds
  <2> QED BY <1>1, <2>1, <2>2, <2>3, <2>4, AttemptMoves
<1> QED BY <1>2, <1>3 DEF EndRows

\* Both ways to an answer.
LEMMA AnsweredKeeps ==
  ASSUME BatchInv, BatchAssumption, NEW a \in Attempts, BatchGoes(a, "answered"),
         attempt[a].pc \in {"held", "queue"}, attempt[a].todo = {},
         UNCHANGED << batch, verified, row, told, misread, skipped, cut >>,
         NEW J, J \subseteq Entries, queued' = queued \cup {a} \X J,
         NEW L, L \subseteq Entries, ungrouped' = ungrouped \cup {a} \X L,
         \A i \in Unsent(a) : i \in J <=> i \notin L,
         Fault \/ UNCHANGED faults,
         answer' = [answer EXCEPT ![a] = InOrder(Made(a))],
         attempt[a].pc = "held" => attempt[a].held = Entries
  PROVE  BatchInv'
<1>1. /\ attempt' \in [Attempts -> [pc : AttemptSteps, held : SUBSET Entries, todo : SUBSET Entries]]
      /\ attempt'[a].pc = "answered" /\ attempt'[a].held = attempt[a].held
      /\ attempt'[a].todo = attempt[a].todo
      /\ \A b \in Attempts \ {a} : attempt'[b] = attempt[b]
  BY AttemptGoes DEF BatchInv, AttemptSteps
<1>2. /\ answer' \in [Attempts -> Seq(Entries)] /\ answer'[a] = InOrder(Made(a))
      /\ \A b \in Attempts \ {a} : answer'[b] = answer[b]
  <2>1. Made(a) \subseteq Entries
    BY DEF Made
  <2> PICK q : q = InOrder(Made(a))
    OBVIOUS
  <2>2. q \in Seq(Entries)
    <3> HIDE DEF Made
    <3> QED BY <2>1, InOrderIs
  <2> QED BY <2>2 DEF BatchInv, BatchTypeOK
<1>3. BatchTypeOK'
  <2>1. queued' \subseteq Attempts \X Entries /\ ungrouped' \subseteq Attempts \X Entries
    BY DEF BatchInv, BatchTypeOK
  <2> QED BY <1>1, <1>2, <2>1, FaultTyped DEF BatchInv, BatchTypeOK
<1>4. OthersKept(a)
  BY <1>1, <1>2 DEF OthersKept
<1>5. AttemptHolds(a)'
  <2>1. AttemptHolds(a) /\ attempt[a].held \subseteq Entries
    BY DEF BatchInv, BatchTypeOK
  <2>2. HeldAreListed(a)' /\ NoneQueuedYet(a)' /\ TodoFits(a)' /\ WhatIsCutOff(a)' /\ JobsComeLast(a)'
    BY <1>1, <2>1
       DEF AttemptHolds, HeldAreListed, NoneQueuedYet, TodoFits, WhatIsCutOff, JobsComeLast
  <2>3. HeldAreMade(a)' /\ OthersAreMade(a)'
    BY <1>1, <2>1 DEF AttemptHolds, HeldAreMade, OthersAreMade
  <2>4. AnswerGiven(a)'
    <3>1. Unsent(a)' = Unsent(a) /\ Made(a)' = Made(a) /\ Unsent(a) \subseteq Entries
      BY DEF Unsent, Made
    <3>2. \A i \in Entries : << a, i >> \notin queued /\ << a, i >> \notin ungrouped
      BY <2>1 DEF AttemptHolds, JobsComeLast
    <3>3. \A i \in Unsent(a) : << a, i >> \in queued' <=> << a, i >> \notin ungrouped'
      BY <3>1, <3>2
    <3> HIDE DEF Unsent, Made
    <3> QED BY <1>2, <3>1, <3>3 DEF AnswerGiven
  <2> QED BY <2>2, <2>3, <2>4 DEF AttemptHolds
<1> QED BY <1>1, <1>3, <1>4, <1>5, AttemptMoves

LEMMA AnswerSuppressedKeeps ==
  ASSUME BatchInv, BatchAssumption, NEW a \in Attempts, AnswerSuppressed(a) PROVE BatchInv'
<1>1. /\ attempt[a].pc = "held" /\ attempt[a].todo = {} /\ attempt[a].held = Entries
      /\ BatchGoes(a, "answered") /\ answer' = [answer EXCEPT ![a] = InOrder(Entries)]
      /\ UNCHANGED << batch, verified, row, told, queued, faults, batchHistory >>
  BY DEF AnswerSuppressed, At
<1>2. \A i \in Entries : row[a][i] = "SUPPRESSED"
  BY <1>1 DEF BatchInv, AttemptHolds, HeldAreMade
<1>3. Made(a) = Entries /\ Unsent(a) = {}
  BY <1>2 DEF Made, Unsent
<1>4. answer' = [answer EXCEPT ![a] = InOrder(Made(a))]
  BY <1>1, <1>3
<1>5. queued' = queued \cup {a} \X {} /\ ungrouped' = ungrouped \cup {a} \X {}
  BY <1>1 DEF batchHistory
<1> HIDE DEF Made, Unsent
<1> QED BY <1>1, <1>3, <1>4, <1>5, AnsweredKeeps DEF batchHistory

LEMMA QueueBulkKeeps ==
  ASSUME BatchInv, BatchAssumption, NEW a \in Attempts, QueueGroups(a) PROVE BatchInv'
<1>1. /\ attempt[a].pc = "queue" /\ BatchGoes(a, "answered")
      /\ answer' = [answer EXCEPT ![a] = InOrder(Made(a))]
      /\ UNCHANGED << batch, verified, row, told, misread, skipped, cut >>
  BY DEF QueueGroups, At, AnswerBatch
<1>2. PICK out : LET lost == {i \in Unsent(a) : Region[batch[i].from] \in out} IN
        /\ IF out = {} THEN UNCHANGED faults ELSE Fault
        /\ queued' = queued \cup {a} \X (Unsent(a) \ lost)
        /\ ungrouped' = ungrouped \cup {a} \X lost
  BY DEF QueueGroups
<1> PICK L : L = {i \in Unsent(a) : Region[batch[i].from] \in out}
  OBVIOUS
<1> PICK J : J = Unsent(a) \ L
  OBVIOUS
<1>3. /\ L \subseteq Entries /\ J \subseteq Entries
      /\ \A i \in Unsent(a) : i \in J <=> i \notin L
  BY DEF Unsent
<1>4. /\ queued' = queued \cup {a} \X J /\ ungrouped' = ungrouped \cup {a} \X L
      /\ Fault \/ UNCHANGED faults
  BY <1>2
<1>5. attempt[a].todo = {}
  BY <1>1 DEF BatchInv, AttemptHolds, TodoFits
<1> HIDE DEF Made, Unsent
<1> QED BY <1>1, <1>3, <1>4, <1>5, AnsweredKeeps
LEMMA QueueBulkFailsKeeps ==
  ASSUME BatchInv, BatchAssumption, NEW a \in Attempts, QueueBulkFails(a) PROVE BatchInv'
<1>1. /\ attempt[a].pc = "queue" /\ Fault /\ BatchGoes(a, "failing")
      /\ UNCHANGED << batch, verified, row, told, queued, answer, batchHistory >>
  BY DEF QueueBulkFails, At
<1>2. /\ attempt' \in [Attempts -> [pc : AttemptSteps, held : SUBSET Entries, todo : SUBSET Entries]]
      /\ attempt'[a].pc = "failing" /\ attempt'[a].held = attempt[a].held
      /\ \A b \in Attempts \ {a} : attempt'[b] = attempt[b]
  BY <1>1, AttemptGoes DEF BatchInv, AttemptSteps
<1>3. BatchTypeOK'
  BY <1>1, <1>2, FaultTyped DEF BatchInv, BatchTypeOK, batchHistory
<1>4. OthersKept(a)
  BY <1>1, <1>2 DEF OthersKept, batchHistory
<1>5. AttemptHolds(a)'
  <2>1. AttemptHolds(a)
    BY DEF BatchInv
  <2>2. /\ HeldAreListed(a)' /\ NoneQueuedYet(a)' /\ TodoFits(a)' /\ HeldAreMade(a)'
        /\ OthersAreMade(a)' /\ AnswerGiven(a)' /\ WhatIsCutOff(a)'
    BY <1>1, <1>2, <2>1 DEF AttemptHolds, HeldAreListed, NoneQueuedYet, TodoFits, HeldAreMade,
         OthersAreMade, AnswerGiven, WhatIsCutOff
  <2>3. JobsComeLast(a)'
    BY <1>1, <1>2, <2>1 DEF AttemptHolds, JobsComeLast, batchHistory
  <2> QED BY <2>2, <2>3 DEF AttemptHolds
<1> QED BY <1>1, <1>2, <1>3, <1>4, <1>5, AttemptMoves

LEMMA MarkFailedKeeps ==
  ASSUME BatchInv, BatchAssumption, NEW a \in Attempts, MarkFailed(a) PROVE BatchInv'
<1>1. /\ attempt[a].pc = "failing" /\ BatchGoes(a, "error")
      /\ UNCHANGED << batch, verified, queued, answer, misread, skipped, ungrouped >>
  BY DEF MarkFailed, At
<1>2. PICK done \in SUBSET Unsent(a) :
        /\ IF done = Unsent(a) THEN UNCHANGED faults ELSE Fault
        /\ cut' = cut \cup {a} \X (Unsent(a) \ done)
        /\ row' = [row EXCEPT ![a] = [i \in Entries |-> IF i \in done THEN "FAILED" ELSE row[a][i]]]
        /\ told' = told \cup {a} \X done
  BY DEF MarkFailed
<1>3. Unsent(a) \subseteq Entries /\ done \subseteq Entries /\ (Fault \/ UNCHANGED faults)
  BY <1>2 DEF Unsent
<1>4. /\ attempt' \in [Attempts -> [pc : AttemptSteps, held : SUBSET Entries, todo : SUBSET Entries]]
      /\ attempt'[a].pc = "error" /\ attempt'[a].held = attempt[a].held
      /\ \A b \in Attempts \ {a} : attempt'[b] = attempt[b]
  BY <1>1, AttemptGoes DEF BatchInv, AttemptSteps
<1>5. /\ row' \in [Attempts -> [Entries -> {"none", "SUPPRESSED", "QUEUED", "FAILED"}]]
      /\ \A b \in Attempts \ {a} : row'[b] = row[b]
      /\ \A i \in Entries : row'[a][i] = IF i \in done THEN "FAILED" ELSE row[a][i]
  <2> PICK f : f = [i \in Entries |-> IF i \in done THEN "FAILED" ELSE row[a][i]]
    OBVIOUS
  <2>1. row' = [row EXCEPT ![a] = f]
    BY <1>2
  <2>2. f \in [Entries -> {"none", "SUPPRESSED", "QUEUED", "FAILED"}]
    BY DEF BatchInv, BatchTypeOK
  <2> QED BY <2>1, <2>2 DEF BatchInv, BatchTypeOK
<1>6. BatchTypeOK'
  <2>1. told' \subseteq Attempts \X Entries /\ cut' \subseteq Attempts \X Entries
    <3> HIDE DEF Unsent
    <3> QED BY <1>2, <1>3 DEF BatchInv, BatchTypeOK
  <2> QED BY <1>1, <1>3, <1>4, <1>5, <2>1, FaultTyped DEF BatchInv, BatchTypeOK
<1>7. OthersKept(a)
  <2>1. \A b \in Attempts \ {a}, i \in Entries :
          /\ << b, i >> \in told' <=> << b, i >> \in told
          /\ << b, i >> \in cut' <=> << b, i >> \in cut
    <3> HIDE DEF Unsent
    <3> QED BY <1>2
  <2> QED BY <1>1, <1>4, <1>5, <2>1 DEF OthersKept
<1>8. AttemptHolds(a)'
  <2>1. AttemptHolds(a)
    BY DEF BatchInv
  <2>2. /\ HeldAreListed(a)' /\ NoneQueuedYet(a)' /\ TodoFits(a)' /\ HeldAreMade(a)'
        /\ OthersAreMade(a)' /\ AnswerGiven(a)'
    BY <1>1, <1>4, <2>1 DEF AttemptHolds, HeldAreListed, NoneQueuedYet, TodoFits, HeldAreMade,
         OthersAreMade, AnswerGiven
  <2>3. JobsComeLast(a)'
    BY <1>1, <1>4, <2>1 DEF AttemptHolds, JobsComeLast
  <2>4. WhatIsCutOff(a)'
    <3>1. \A i \in Unsent(a)' : i \in Unsent(a) \ done
      BY <1>5 DEF Unsent
    <3>2. \A i \in Unsent(a) \ done : << a, i >> \in cut'
      <4> HIDE DEF Unsent
      <4> QED BY <1>2
    <3> HIDE DEF Unsent
    <3> QED BY <3>1, <3>2 DEF WhatIsCutOff
  <2> QED BY <2>2, <2>3, <2>4 DEF AttemptHolds
<1> QED BY <1>1, <1>4, <1>6, <1>7, <1>8, AttemptMoves

LEMMA BatchDiesKeeps ==
  ASSUME BatchInv, BatchAssumption, NEW a \in Attempts, BatchDies(a) PROVE BatchInv'
<1>1. /\ attempt[a].pc \notin {"new", "answered", "error", "dead"} /\ Fault /\ BatchGoes(a, "dead")
      /\ UNCHANGED << batch, verified, row, told, answer, batchHistory >>
  BY DEF BatchDies
<1>2. PICK jobs \in SUBSET Unsent(a) : queued' = queued \cup {a} \X jobs
  BY DEF BatchDies
<1>3. jobs \subseteq Entries
  BY DEF Unsent
<1>4. /\ attempt' \in [Attempts -> [pc : AttemptSteps, held : SUBSET Entries, todo : SUBSET Entries]]
      /\ attempt'[a].pc = "dead" /\ attempt'[a].held = attempt[a].held
      /\ \A b \in Attempts \ {a} : attempt'[b] = attempt[b]
  BY <1>1, AttemptGoes DEF BatchInv, AttemptSteps
<1>5. BatchTypeOK'
  <2>1. queued' \subseteq Attempts \X Entries
    BY <1>2, <1>3 DEF BatchInv, BatchTypeOK
  <2> QED BY <1>1, <1>4, <2>1, FaultTyped DEF BatchInv, BatchTypeOK, batchHistory
<1>6. OthersKept(a)
  BY <1>1, <1>2, <1>4 DEF OthersKept, batchHistory
<1>7. AttemptHolds(a)'
  <2>1. AttemptHolds(a)
    BY DEF BatchInv
  <2>2. /\ HeldAreListed(a)' /\ NoneQueuedYet(a)' /\ TodoFits(a)' /\ HeldAreMade(a)'
        /\ OthersAreMade(a)' /\ AnswerGiven(a)' /\ WhatIsCutOff(a)'
    BY <1>1, <1>4, <2>1 DEF AttemptHolds, HeldAreListed, NoneQueuedYet, TodoFits, HeldAreMade,
         OthersAreMade, AnswerGiven, WhatIsCutOff
  <2>3. JobsComeLast(a)'
    BY <1>1, <1>4, <2>1 DEF AttemptHolds, JobsComeLast, batchHistory
  <2> QED BY <2>2, <2>3 DEF AttemptHolds
<1> QED BY <1>1, <1>4, <1>5, <1>6, <1>7, AttemptMoves

LEMMA BatchStart == BatchInit => BatchInv
<1> SUFFICES ASSUME BatchInit PROVE BatchInv
  OBVIOUS
<1>1. BatchTypeOK
  <2>1. NoAttempt \in [pc : AttemptSteps, held : SUBSET Entries, todo : SUBSET Entries]
    BY DEF NoAttempt, AttemptSteps
  <2>2. << >> \in Seq(Entries)
    OBVIOUS
  <2>3. 0 \in 0 .. MaxBatchFaults
    BY BatchAssumption DEF BatchAssumption
  <2> QED BY <2>1, <2>2, <2>3 DEF BatchInit, BatchTypeOK
<1>2. \A a \in Attempts : attempt[a].pc = "new" /\ attempt[a].held = {} /\ \A i \in Entries : row[a][i] = "none"
  BY DEF BatchInit, NoAttempt
<1>3. OneAfterTheOther
  BY <1>2 DEF OneAfterTheOther
<1>4. \A a \in Attempts : AttemptHolds(a)
  BY <1>2 DEF BatchInit, AttemptHolds, HeldAreListed, TodoFits, NoneQueuedYet, HeldAreMade,
       OthersAreMade, JobsComeLast, AnswerGiven, WhatIsCutOff
<1> QED BY <1>1, <1>3, <1>4 DEF BatchInv

LEMMA BatchUnmoved ==
  ASSUME BatchInv, UNCHANGED << batch, attempt, row, told, queued, answer, batchHistory >>,
         verified' \subseteq Senders, faults' \in 0 .. MaxBatchFaults
  PROVE  BatchInv'
<1>1. /\ batch' = batch /\ attempt' = attempt /\ row' = row /\ told' = told /\ queued' = queued
      /\ answer' = answer /\ misread' = misread /\ skipped' = skipped
      /\ ungrouped' = ungrouped /\ cut' = cut
  BY DEF batchHistory
<1>2. BatchTypeOK'
  BY <1>1 DEF BatchInv, BatchTypeOK
<1>3. OneAfterTheOther'
  BY <1>1 DEF BatchInv, OneAfterTheOther
<1>4. OthersKept(0) /\ \A a \in Attempts : a # 0
  BY <1>1 DEF OthersKept, Attempts
<1>5. \A a \in Attempts : AttemptHolds(a)'
  BY <1>4, OtherHolds
<1> QED BY <1>2, <1>3, <1>5 DEF BatchInv

LEMMA BatchKept == BatchInv /\ [BatchNext]_batchVars => BatchInv'
<1> SUFFICES ASSUME BatchInv, [BatchNext]_batchVars PROVE BatchInv'
  OBVIOUS
<1> USE BatchAssumption
<1>1. CASE UNCHANGED batchVars
  <2>1. /\ UNCHANGED << batch, attempt, row, told, queued, answer, batchHistory >>
        /\ verified' = verified /\ faults' = faults
    BY <1>1 DEF batchVars, batchHistory
  <2> QED BY <2>1, BatchUnmoved DEF BatchInv, BatchTypeOK
<1>2. CASE DomainChanges
  <2>1. faults' \in 0 .. MaxBatchFaults /\ verified' \subseteq Senders
    BY <1>2, FaultTyped DEF DomainChanges, BatchInv, BatchTypeOK
  <2> QED BY <1>2, <2>1, BatchUnmoved DEF DomainChanges
<1>3. ASSUME NEW a \in Attempts, BatchStep(a) PROVE BatchInv'
  BY <1>3, CheckSuppressedKeeps, CreateSuppressedKeeps, SuppressedEventKeeps, AnswerSuppressedKeeps,
     ValidateDomainsKeeps, CreateBatchRowKeeps, EndRowsKeeps, QueueBulkKeeps, QueueBulkFailsKeeps,
     MarkFailedKeeps, BatchDiesKeeps DEF BatchStep
<1> QED BY <1>1, <1>2, <1>3 DEF BatchNext

LEMMA BatchAgrees == BatchInv => BatchHolds
<1> SUFFICES ASSUME BatchInv PROVE BatchHolds
  OBVIOUS
<1>1. ErrorsSendNothing
  <2>1. \A a \in Attempts : At(a, "error") => queued \cap ({a} \X Entries) = {}
    BY DEF BatchInv, AttemptHolds, JobsComeLast, At
  <2>2. ASSUME NEW a \in Attempts, NEW b \in Attempts, NEW i \in Entries, a < b,
               << a, i >> \in queued, << b, i >> \in queued
        PROVE  At(a, "dead")
    <3>1. attempt[a].pc \in {"answered", "dead"} /\ attempt[b].pc \in {"answered", "dead"}
      BY <2>2 DEF BatchInv, AttemptHolds, JobsComeLast
    <3>2. attempt[a].pc \in {"error", "dead"}
      BY <2>2, <3>1 DEF BatchInv, OneAfterTheOther
    <3> QED BY <3>1, <3>2 DEF At
  <2> QED BY <2>1, <2>2 DEF ErrorsSendNothing
<1>2. AnswerIsOfBatch
  <2> SUFFICES ASSUME NEW a \in Attempts, attempt[a].pc = "answered"
               PROVE  /\ \A m, n \in DOMAIN answer[a] : m < n => answer[a][m] < answer[a][n]
                      /\ \A i \in Entries :
                           IF \E n \in DOMAIN answer[a] : answer[a][n] = i
                           THEN CASE row[a][i] = "QUEUED" ->
                                       (<< a, i >> \in queued) # (<< a, i >> \in ungrouped)
                                  [] row[a][i] = "SUPPRESSED" -> batch[i].listed /\ << a, i >> \in told
                                  [] OTHER -> FALSE
                           ELSE << a, i >> \in skipped
    BY DEF AnswerIsOfBatch, At
  <2>1. AttemptHolds(a) /\ attempt[a].todo = {} /\ attempt[a].held \subseteq Entries
    BY DEF BatchInv, BatchTypeOK, AttemptHolds, TodoFits
  <2>2. answer[a] = InOrder(Made(a)) /\ Made(a) \subseteq Entries
    BY <2>1 DEF AttemptHolds, AnswerGiven, Made
  <2>3. /\ \A m, n \in DOMAIN answer[a] : m < n => answer[a][m] < answer[a][n]
        /\ \A i : i \in Made(a) <=> \E n \in DOMAIN answer[a] : answer[a][n] = i
    <3> HIDE DEF Made
    <3> QED BY <2>2, BatchAssumption, InOrderIs
  <2>4. ASSUME NEW i \in Entries, i \in attempt[a].held
        PROVE  row[a][i] = "SUPPRESSED" /\ << a, i >> \in told /\ batch[i].listed
    BY <2>1, <2>4 DEF AttemptHolds, HeldAreMade, HeldAreListed
  <2>5. ASSUME NEW i \in Entries, i \notin attempt[a].held
        PROVE  \/ row[a][i] = "QUEUED" /\ (<< a, i >> \in queued <=> << a, i >> \notin ungrouped)
               \/ row[a][i] = "none" /\ << a, i >> \in skipped
    <3>1. row[a][i] = "QUEUED" \/ (row[a][i] = "none" /\ << a, i >> \in skipped)
      BY <2>1, <2>5 DEF AttemptHolds, OthersAreMade
    <3> QED BY <2>1, <3>1 DEF AttemptHolds, AnswerGiven, Unsent
  <2>6. \A i \in Entries : i \in Made(a) <=> row[a][i] # "none"
    BY DEF Made
  <2> QED BY <2>3, <2>4, <2>5, <2>6
<1>3. RowsLeftAreExplained
  <2> SUFFICES ASSUME NEW a \in Attempts, NEW i \in Entries,
                      row[a][i] = "QUEUED", << a, i >> \notin queued
               PROVE  \/ attempt[a].pc \in {"rows", "queue", "failing", "dead"}
                      \/ << a, i >> \in ungrouped
                      \/ << a, i >> \in cut
                      \/ At(a, "error") /\ \E j \in Entries \ attempt[a].held : batch[j].says # "words"
    BY DEF RowsLeftAreExplained
  <2>1. AttemptHolds(a) /\ attempt[a].pc \in AttemptSteps /\ i \in Unsent(a)
    BY DEF BatchInv, BatchTypeOK, Unsent
  <2>2. attempt[a].pc \notin {"new", "held", "event"}
    BY <2>1 DEF AttemptHolds, NoneQueuedYet
  <2> HIDE DEF Unsent
  <2> QED BY <2>1, <2>2 DEF AttemptHolds, AnswerGiven, WhatIsCutOff, AttemptSteps, At
<1> QED BY <1>1, <1>2, <1>3 DEF BatchHolds, BatchInv

(***************************************************************************)
(* However often a batch is sent after errors, dead processes and lost     *)
(* groups of jobs: what was answered with an error has mailed nobody, an   *)
(* answer has the ids of what was made in the order of the request, and a  *)
(* row left without a job is one of those RowsLeftAreExplained names.      *)
(***************************************************************************)
THEOREM BatchAlwaysHolds == BatchSpec => []BatchHolds
<1>1. BatchSpec => []BatchInv
  BY BatchStart, BatchKept, PTL DEF BatchSpec
<1> QED BY <1>1, BatchAgrees, PTL

(***************************************************************************)
(* The two together, as the run has them: MailIsAccountedFor always holds. *)
(***************************************************************************)
THEOREM MailIsAlwaysAccountedFor == MailSpec => []MailIsAccountedFor
<1>1. MailInit => CountInv /\ BatchInv
  BY CountStart, BatchStart DEF MailInit
<1>2. CountInv /\ BatchInv /\ [MailNext]_<< hookSpecVars, batchVars >> => (CountInv /\ BatchInv)'
  <2> SUFFICES ASSUME CountInv, BatchInv, [MailNext]_<< hookSpecVars, batchVars >>
               PROVE  CountInv' /\ BatchInv'
    OBVIOUS
  <2>1. [HookNext]_hookSpecVars
    BY DEF MailNext, NoHookStep
  <2>2. [BatchNext]_batchVars
    BY DEF MailNext, NoBatchStep
  <2> QED BY <2>1, <2>2, CountKept, BatchKept
<1>3. CountInv /\ BatchInv => MailIsAccountedFor
  BY CountsAgree, BatchAgrees DEF MailIsAccountedFor
<1> QED BY <1>1, <1>2, <1>3, PTL DEF MailSpec
=============================================================================
