---------------------------- MODULE Idempotency ----------------------------
(***************************************************************************)
(* IdempotencyService.withIdempotency for one team and one Idempotency-Key:*)
(* the requests that carry the key, the result Redis keeps for 24 hours and*)
(* the lock it keeps for 60 seconds.  The operation is sendEmail or        *)
(* sendBulkEmails; the email a request makes is named after the request.   *)
(*                                                                         *)
(* sent, met and suffered are history: the requests whose operation sent,  *)
(* the pairs of requests in progress at once, and the faults there were.   *)
(***************************************************************************)
EXTENDS Naturals, FiniteSets

CONSTANTS
  Requests,  \* the requests with the key
  Bodies,    \* their payloads, up to canonicalizePayload
  IdemFaults \* the faults an instance allows

IdemFaultKinds == { "crash", "redis", "slow", "expiry", "throws" }

ASSUME IdemAssumption == IdemFaults \subseteq IdemFaultKinds

VARIABLES
  request,  \* request[r]: [pc, body, email]; email: what a success answers
  result,   \* the record under idem:<team>:<key>, or NoResult
  lock,     \* the requests that set idemlock:<team>:<key>: one or none
  sent, met, suffered

idemVars == << request, result, lock, sent, met, suffered >>
idemHistory == << sent, met, suffered >>

NoResult == [stored |-> FALSE]
Record(b, r) == [stored |-> TRUE, body |-> b, email |-> r]

Answers == { "ok", "mismatch", "inProgress", "error" }
InProgress ==
  { "locking", "contended", "operating", "storing", "releasing", "failing" }

IdemTypeOK ==
  /\ \A r \in Requests :
       /\ request[r].pc \in {"new", "dead"} \cup InProgress \cup Answers
       /\ request[r].body \in Bodies
       /\ request[r].pc = "ok" => request[r].email \in Requests
  /\ result \in {NoResult} \cup { Record(b, r) : b \in Bodies, r \in Requests }
  /\ lock \subseteq Requests /\ Cardinality(lock) <= 1
  /\ sent \subseteq Requests /\ met \subseteq SUBSET Requests
  /\ suffered \subseteq IdemFaultKinds

IdemInit ==
  /\ request \in [Requests -> { [pc |-> "new", body |-> b] : b \in Bodies }]
  /\ result = NoResult
  /\ lock = {}
  /\ sent = {} /\ met = {} /\ suffered = {}

GoTo(r, s) == request' = [request EXCEPT ![r] = [pc |-> s, body |-> @.body]]
Answer(r, e) == request' = [request EXCEPT ![r] = [pc |-> "ok", body |-> @.body, email |-> e]]

\* The answer to a request whose key has a record.
Replay(r) ==
  \/ result.body = request[r].body /\ Answer(r, result.email)
  \/ result.body # request[r].body /\ GoTo(r, "mismatch")

-----------------------------------------------------------------------------
\* Mutant of CheckResult: the record's hash is not compared.
CheckResultOnly(r) ==
  /\ request[r].pc = "new"
  /\ IF result.stored THEN Answer(r, result.email) ELSE GoTo(r, "locking")
  /\ met' = met \cup { {r, s} : s \in { x \in Requests \ {r} : request[x].pc \in InProgress } }
  /\ UNCHANGED << result, lock, sent, suffered >>

\* Mutant of CheckResult: only a contended request looks for a record.
CheckResultNever(r) ==
  /\ request[r].pc = "new"
  /\ GoTo(r, "locking")
  /\ met' = met \cup { {r, s} : s \in { x \in Requests \ {r} : request[x].pc \in InProgress } }
  /\ UNCHANGED << result, lock, sent, suffered >>

\* The request arrives and looks for a record.
CheckResult(r) ==
  /\ request[r].pc = "new"
  /\ \/ result.stored /\ Replay(r)
     \/ ~result.stored /\ GoTo(r, "locking")
  /\ met' = met \cup { {r, s} : s \in { x \in Requests \ {r} : request[x].pc \in InProgress } }
  /\ UNCHANGED << result, lock, sent, suffered >>

\* Mutant of AcquireLock: SET without NX.
AcquireLockAlways(r) ==
  /\ request[r].pc = "locking"
  /\ lock' = {r} /\ GoTo(r, "operating")
  /\ UNCHANGED << result, idemHistory >>

\* SET NX: nothing looks at the result again once the lock is there.
AcquireLock(r) ==
  /\ request[r].pc = "locking"
  /\ \/ lock = {} /\ lock' = {r} /\ GoTo(r, "operating")
     \/ lock # {} /\ GoTo(r, "contended") /\ UNCHANGED lock
  /\ UNCHANGED << result, idemHistory >>

CheckAgain(r) ==
  /\ request[r].pc = "contended"
  /\ \/ result.stored /\ Replay(r)
     \/ ~result.stored /\ GoTo(r, "inProgress")
  /\ UNCHANGED << result, lock, idemHistory >>

OperationSends(r) ==
  /\ request[r].pc = "operating"
  /\ sent' = sent \cup {r}
  /\ GoTo(r, "storing")
  /\ UNCHANGED << result, lock, met, suffered >>

\* The operation throws: it sent nothing.
OperationThrows(r) ==
  /\ "throws" \in IdemFaults
  /\ request[r].pc = "operating"
  /\ GoTo(r, "failing")
  /\ suffered' = suffered \cup {"throws"}
  /\ UNCHANGED << result, lock, sent, met >>

StoreResult(r) ==
  /\ request[r].pc = "storing"
  /\ result' = Record(request[r].body, r)
  /\ GoTo(r, "releasing")
  /\ UNCHANGED << lock, idemHistory >>

StoreFails(r) ==
  /\ "redis" \in IdemFaults
  /\ request[r].pc = "storing"
  /\ GoTo(r, "failing")
  /\ suffered' = suffered \cup {"redis"}
  /\ UNCHANGED << result, lock, sent, met >>

\* The finally: DEL, whoever's lock it is by now.
ReleaseLock(r) ==
  /\ \/ request[r].pc = "releasing" /\ Answer(r, r)
     \/ request[r].pc = "failing" /\ GoTo(r, "error")
  /\ lock' = {}
  /\ UNCHANGED << result, idemHistory >>

-----------------------------------------------------------------------------
\* The server dies.
RequestDies(r) ==
  /\ "crash" \in IdemFaults
  /\ request[r].pc \in InProgress
  /\ GoTo(r, "dead")
  /\ suffered' = suffered \cup {"crash"}
  /\ UNCHANGED << result, lock, sent, met >>

\* IDEMPOTENCY_LOCK_TTL_SECONDS pass: the holder is dead or slow.
LockExpires ==
  /\ \E r \in lock : \/ request[r].pc = "dead" /\ UNCHANGED suffered
                     \/ "slow" \in IdemFaults /\ suffered' = suffered \cup {"slow"}
  /\ lock' = {}
  /\ UNCHANGED << request, result, sent, met >>

\* IDEMPOTENCY_RESULT_TTL_SECONDS pass.
ResultExpires ==
  /\ "expiry" \in IdemFaults
  /\ result.stored
  /\ result' = NoResult
  /\ suffered' = suffered \cup {"expiry"}
  /\ UNCHANGED << request, lock, sent, met >>

Step(r) ==
  \/ CheckResult(r) \/ AcquireLock(r) \/ CheckAgain(r)
  \/ OperationSends(r) \/ OperationThrows(r)
  \/ StoreResult(r) \/ StoreFails(r) \/ ReleaseLock(r)

IdemNext ==
  \/ \E r \in Requests : Step(r) \/ RequestDies(r)
  \/ LockExpires \/ ResultExpires

IdemSpec == IdemInit /\ [][IdemNext]_idemVars

-----------------------------------------------------------------------------
(* Properties. *)

\* No two requests with the key run their operation at once, unless one of
\* them kept the lock past its 60 seconds: whoever comes second then frees
\* the lock of a third.
OneOperationAtATime ==
  \A r, s \in Requests :
    request[r].pc \in {"operating", "storing"} /\ request[s].pc \in {"operating", "storing"}
    => r = s \/ "slow" \in suffered

\* What a success answers was sent, and for the body the request has: neither
\* another body's email nor that of an operation that threw.
AnswersOwnBody ==
  \A r \in Requests :
    request[r].pc = "ok" =>
      /\ request[r].email \in sent
      /\ request[request[r].email].body = request[r].body

\* A request that came after another was through is not sent again: two sends
\* of one body are of requests in progress at once, or the record was lost or
\* never stored.
SequentialRetriesSendOnce ==
  \A r, s \in sent :
    r # s /\ request[r].body = request[s].body
    => {r, s} \in met \/ suffered \cap {"crash", "redis", "expiry"} # {}

=============================================================================
