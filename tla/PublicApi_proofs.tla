-------------------------- MODULE PublicApi_proofs --------------------------
(***************************************************************************)
(* The safety of withIdempotency for every set of requests and of bodies,  *)
(* and whatever faults there are.  Then a request to send, whatever stands *)
(* in its way: under ApiNext the requests with a key move as Idempotency   *)
(* has it and the list changes as SuppressionList has it, so that what is  *)
(* proved of either holds of the two composed; and the gates of the door   *)
(* hold.  At the end the regions an administrator gives SES, the other     *)
(* part of MCPublicApi's instances, which share no state with the API.     *)
(***************************************************************************)
EXTENDS PublicApi, SesRegions, FiniteSetTheorems, TLAPS

RequestStates ==
  [pc : {"new", "dead", "mismatch", "inProgress", "error"} \cup InProgress, body : Bodies]
    \cup [pc : {"ok"}, body : Bodies, email : Requests]

Records == {NoResult} \cup { Record(b, r) : b \in Bodies, r \in Requests }

Typed ==
  /\ request \in [Requests -> RequestStates]
  /\ result \in Records
  /\ lock \in {{}} \cup { {r} : r \in Requests }
  /\ sent \subseteq Requests /\ met \subseteq SUBSET Requests
  /\ suffered \subseteq IdemFaultKinds

USE IdemAssumption

(***************************************************************************)
(* A request keeps its body; its state, and a success's email, change.     *)
(***************************************************************************)
LEMMA GoToTypes ==
  ASSUME Typed, NEW r \in Requests, NEW s \in RequestStates,
         request' = [request EXCEPT ![r] = s]
  PROVE  /\ request' \in [Requests -> RequestStates]
         /\ request'[r] = s
         /\ \A q \in Requests \ {r} : request'[q] = request[q]
  BY DEF Typed

LEMMA BodyTypes ==
  ASSUME Typed, NEW r \in Requests
  PROVE  request[r].body \in Bodies
  BY DEF Typed, RequestStates

(***************************************************************************)
(* What a step of a request does to the request, by the state it is in.    *)
(***************************************************************************)
LEMMA Moves ==
  ASSUME Typed, NEW r \in Requests, Step(r) \/ RequestDies(r)
  PROVE  \E s \in RequestStates :
           request' = [request EXCEPT ![r] = s] /\ s.body = request[r].body
<1> DEFINE b == request[r].body
<1>1. b \in Bodies
  BY BodyTypes
<1>2. \A q \in {"dead", "mismatch", "inProgress", "error"} \cup InProgress :
        [pc |-> q, body |-> b] \in RequestStates
  BY <1>1 DEF RequestStates
<1>3. \A e \in Requests : [pc |-> "ok", body |-> b, email |-> e] \in RequestStates
  BY <1>1 DEF RequestStates
<1>4. result.stored => result.email \in Requests
  BY DEF Typed, Records, Record, NoResult
<1>5. ASSUME NEW q \in {"dead", "mismatch", "inProgress", "error"} \cup InProgress, GoTo(r, q)
      PROVE  request' = [request EXCEPT ![r] = [pc |-> q, body |-> b]]
  BY <1>5 DEF GoTo, Typed
<1>6. ASSUME NEW e \in Requests, Answer(r, e)
      PROVE  request' = [request EXCEPT ![r] = [pc |-> "ok", body |-> b, email |-> e]]
  BY <1>6 DEF Answer, Typed
<1>7. ASSUME NEW q \in {"dead", "mismatch", "inProgress", "error"} \cup InProgress, GoTo(r, q)
      PROVE  \E s \in RequestStates : request' = [request EXCEPT ![r] = s] /\ s.body = b
  BY <1>2, <1>5, <1>7
<1>8. ASSUME NEW e \in Requests, Answer(r, e)
      PROVE  \E s \in RequestStates : request' = [request EXCEPT ![r] = s] /\ s.body = b
  BY <1>3, <1>6, <1>8
<1>9. ASSUME result.stored, Replay(r)
      PROVE  \E s \in RequestStates : request' = [request EXCEPT ![r] = s] /\ s.body = b
  BY <1>4, <1>7, <1>8, <1>9 DEF Replay
<1>10. CASE CheckResult(r)
  BY <1>7, <1>9, <1>10 DEF CheckResult, InProgress
<1>11. CASE AcquireLock(r)
  BY <1>7, <1>11 DEF AcquireLock, InProgress
<1>12. CASE CheckAgain(r)
  BY <1>7, <1>9, <1>12 DEF CheckAgain
<1>13. CASE OperationSends(r) \/ OperationThrows(r) \/ StoreResult(r) \/ StoreFails(r)
  BY <1>7, <1>13 DEF OperationSends, OperationThrows, StoreResult, StoreFails, InProgress
<1>14. CASE ReleaseLock(r)
  BY <1>7, <1>8, <1>14 DEF ReleaseLock
<1>15. CASE RequestDies(r)
  BY <1>7, <1>15 DEF RequestDies
<1> QED
  BY <1>10, <1>11, <1>12, <1>13, <1>14, <1>15 DEF Step

LEMMA TypedInit == IdemInit => Typed
  BY DEF IdemInit, Typed, RequestStates, Records

LEMMA TypedStep ==
  ASSUME Typed, NEW r \in Requests, Step(r) \/ RequestDies(r)
  PROVE  Typed'
<1>1. request' \in [Requests -> RequestStates]
  BY Moves DEF Typed
<1>2. result' \in Records
  BY BodyTypes DEF Typed, Records, Step, CheckResult, AcquireLock, CheckAgain, OperationSends,
     OperationThrows, StoreResult, StoreFails, ReleaseLock, RequestDies
<1>3. lock' \in {{}} \cup { {q} : q \in Requests }
  BY DEF Typed, Step, CheckResult, AcquireLock, CheckAgain, OperationSends,
     OperationThrows, StoreResult, StoreFails, ReleaseLock, RequestDies
<1>4. sent' \subseteq Requests /\ suffered' \subseteq IdemFaultKinds
  BY DEF Typed, Step, CheckResult, AcquireLock, CheckAgain, OperationSends, IdemFaultKinds,
     OperationThrows, StoreResult, StoreFails, ReleaseLock, RequestDies, idemHistory
<1>5. met' \subseteq SUBSET Requests
  BY DEF Typed, Step, CheckResult, AcquireLock, CheckAgain, OperationSends,
     OperationThrows, StoreResult, StoreFails, ReleaseLock, RequestDies, idemHistory
<1> QED
  BY <1>1, <1>2, <1>3, <1>4, <1>5 DEF Typed

LEMMA TypedExpiry ==
  ASSUME Typed, LockExpires \/ ResultExpires
  PROVE  Typed'
  BY DEF Typed, LockExpires, ResultExpires, Records, IdemFaultKinds

LEMMA TypedMeans ==
  ASSUME Typed
  PROVE  IdemTypeOK
<1>1. \A r \in Requests : Cardinality({r}) = 1
  BY FS_Singleton
<1>2. Cardinality({}) = 0
  BY FS_EmptySet
<1>3. lock \subseteq Requests /\ Cardinality(lock) <= 1
  BY <1>1, <1>2 DEF Typed
<1> QED
  BY <1>3 DEF Typed, IdemTypeOK, RequestStates, Records, InProgress, Answers

-----------------------------------------------------------------------------
(***************************************************************************)
(* The invariants.  The lock is its holder's while no holder is slow; a    *)
(* record and a success are of an operation that sent; and while nothing is*)
(* lost, who has sent is on its way to store, a record stays once stored,  *)
(* and requests between the first look and the record have met.            *)
(***************************************************************************)
HoldsKey == {"operating", "storing", "releasing", "failing"}
Sending == {"locking", "operating", "storing"}

HoldsLock ==
  "slow" \in suffered \/ \A r \in Requests : request[r].pc \in HoldsKey => lock = {r}

RecordsSent ==
  /\ result.stored => /\ result.email \in sent
                      /\ request[result.email].body = result.body
  /\ \A r \in Requests :
       /\ request[r].pc \in {"storing", "releasing"} => r \in sent
       /\ request[r].pc = "ok" =>
            /\ request[r].email \in sent
            /\ request[request[r].email].body = request[r].body

NothingLost == suffered \cap {"crash", "redis", "expiry"} = {}

SendersMet ==
  NothingLost =>
    /\ \A r \in sent : request[r].pc \in {"storing", "releasing", "ok"}
    /\ \A r \in Requests :
         request[r].pc = "releasing" \/ (r \in sent /\ request[r].pc = "ok") => result.stored
    /\ \A r, q \in Requests :
         /\ r # q
         /\ r \in sent \/ request[r].pc \in Sending
         /\ q \in sent \/ request[q].pc \in Sending
         => {r, q} \in met

IdemInv == Typed /\ HoldsLock /\ RecordsSent /\ SendersMet

LEMMA IdemInvInit == IdemInit => IdemInv
<1> SUFFICES ASSUME IdemInit PROVE IdemInv
  OBVIOUS
<1> QED
  BY TypedInit DEF IdemInit, IdemInv, HoldsLock, RecordsSent, SendersMet, HoldsKey, Sending, NoResult

(***************************************************************************)
(* A step, seen from the request that makes it and from the others.        *)
(***************************************************************************)
LEMMA Steps ==
  ASSUME Typed, NEW r \in Requests, Step(r) \/ RequestDies(r)
  PROVE  /\ request'[r].body = request[r].body
         /\ \A q \in Requests \ {r} : request'[q] = request[q]
<1>1. PICK s \in RequestStates :
        request' = [request EXCEPT ![r] = s] /\ s.body = request[r].body
  BY Moves
<1> QED
  BY <1>1, GoToTypes

LEMMA LockStep ==
  ASSUME Typed, HoldsLock, NEW r \in Requests, Step(r) \/ RequestDies(r)
  PROVE  HoldsLock'
<1> USE Steps DEF Typed, HoldsLock, HoldsKey, GoTo, Answer, idemHistory
<1>1. CASE CheckResult(r)
  BY <1>1 DEF CheckResult, Replay
<1>2. CASE AcquireLock(r)
  BY <1>2 DEF AcquireLock
<1>3. CASE CheckAgain(r)
  BY <1>3 DEF CheckAgain, Replay
<1>4. CASE OperationSends(r) \/ OperationThrows(r) \/ StoreResult(r) \/ StoreFails(r)
  BY <1>4 DEF OperationSends, OperationThrows, StoreResult, StoreFails
<1>5. CASE ReleaseLock(r)
  BY <1>5 DEF ReleaseLock
<1>6. CASE RequestDies(r)
  BY <1>6 DEF RequestDies
<1> QED
  BY <1>1, <1>2, <1>3, <1>4, <1>5, <1>6 DEF Step

LEMMA RecordsStep ==
  ASSUME Typed, RecordsSent, NEW r \in Requests, Step(r) \/ RequestDies(r)
  PROVE  RecordsSent'
<1> USE Steps DEF Typed, RecordsSent, GoTo, Answer, idemHistory
<1>1. CASE CheckResult(r)
  BY <1>1 DEF CheckResult, Replay
<1>2. CASE AcquireLock(r)
  BY <1>2 DEF AcquireLock
<1>3. CASE CheckAgain(r)
  BY <1>3 DEF CheckAgain, Replay
<1>4. CASE OperationSends(r)
  BY <1>4 DEF OperationSends
<1>5. CASE OperationThrows(r) \/ StoreFails(r)
  BY <1>5 DEF OperationThrows, StoreFails
<1>6. CASE StoreResult(r)
  BY <1>6 DEF StoreResult, Record
<1>7. CASE ReleaseLock(r)
  BY <1>7 DEF ReleaseLock
<1>8. CASE RequestDies(r)
  BY <1>8 DEF RequestDies
<1> QED
  BY <1>1, <1>2, <1>3, <1>4, <1>5, <1>6, <1>7, <1>8 DEF Step

LEMMA MetStep ==
  ASSUME Typed, SendersMet, NEW r \in Requests, Step(r) \/ RequestDies(r)
  PROVE  SendersMet'
<1> USE Steps DEF Typed, SendersMet, NothingLost, Sending, GoTo, Answer, idemHistory
<1>1. CASE CheckResult(r)
  BY <1>1 DEF CheckResult, Replay, InProgress
<1>2. CASE AcquireLock(r)
  BY <1>2 DEF AcquireLock
<1>3. CASE CheckAgain(r)
  BY <1>3 DEF CheckAgain, Replay
<1>4. CASE OperationSends(r)
  BY <1>4 DEF OperationSends
<1>5. CASE OperationThrows(r) \/ StoreFails(r)
  BY <1>5 DEF OperationThrows, StoreFails
<1>6. CASE StoreResult(r)
  BY <1>6 DEF StoreResult, Record
<1>7. CASE ReleaseLock(r)
  BY <1>7 DEF ReleaseLock
<1>8. CASE RequestDies(r)
  BY <1>8 DEF RequestDies
<1> QED
  BY <1>1, <1>2, <1>3, <1>4, <1>5, <1>6, <1>7, <1>8 DEF Step

LEMMA ExpiryStep ==
  ASSUME Typed, HoldsLock, RecordsSent, SendersMet, LockExpires \/ ResultExpires
  PROVE  HoldsLock' /\ RecordsSent' /\ SendersMet'
<1>1. CASE LockExpires
  BY <1>1 DEF LockExpires, HoldsLock, RecordsSent, SendersMet, NothingLost, HoldsKey, Typed
<1>2. CASE ResultExpires
  BY <1>2 DEF ResultExpires, HoldsLock, RecordsSent, SendersMet, NothingLost, NoResult
<1> QED
  BY <1>1, <1>2

LEMMA IdemInvNext == IdemInv /\ [IdemNext]_idemVars => IdemInv'
<1> SUFFICES ASSUME IdemInv, [IdemNext]_idemVars PROVE IdemInv'
  OBVIOUS
<1> USE DEF IdemInv
<1>1. CASE UNCHANGED idemVars
  BY <1>1 DEF idemVars, Typed, HoldsLock, RecordsSent, SendersMet, NothingLost
<1>2. ASSUME NEW r \in Requests, Step(r) \/ RequestDies(r) PROVE IdemInv'
  BY <1>2, TypedStep, LockStep, RecordsStep, MetStep
<1>3. CASE LockExpires \/ ResultExpires
  BY <1>3, TypedExpiry, ExpiryStep
<1> QED
  BY <1>1, <1>2, <1>3 DEF IdemNext

LEMMA IdemInvAlways == IdemSpec => []IdemInv
  BY IdemInvInit, IdemInvNext, PTL DEF IdemSpec

(***************************************************************************)
(* The lock: no two operations at once unless a holder outlasted it.       *)
(***************************************************************************)
THEOREM OneOperation == IdemSpec => []OneOperationAtATime
<1>1. IdemInv => OneOperationAtATime
  BY DEF IdemInv, HoldsLock, HoldsKey, OneOperationAtATime
<1> QED
  BY <1>1, IdemInvAlways, PTL

(***************************************************************************)
(* The record: withIdempotency answers with what was sent for that body.   *)
(***************************************************************************)
THEOREM AnswersOwn == IdemSpec => [](IdemTypeOK /\ AnswersOwnBody)
<1>1. IdemInv => IdemTypeOK /\ AnswersOwnBody
  BY TypedMeans DEF IdemInv, RecordsSent, AnswersOwnBody
<1> QED
  BY <1>1, IdemInvAlways, PTL

(***************************************************************************)
(* Retries: withIdempotency sends a body again only for a request that     *)
(* overlapped the first, or after a loss.                                  *)
(***************************************************************************)
THEOREM SequentialRetries == IdemSpec => []SequentialRetriesSendOnce
<1>1. IdemInv => SequentialRetriesSendOnce
  BY DEF IdemInv, Typed, SendersMet, NothingLost, SequentialRetriesSendOnce
<1> QED
  BY <1>1, IdemInvAlways, PTL

-----------------------------------------------------------------------------
(* The composed API                                                         *)

(***************************************************************************)
(* What the list's promises rest on while a removal is under way: a report *)
(* recorded since it began has overtaken it, and SES has the address in    *)
(* the regions still to be asked alone, unless something was reported or   *)
(* failed meanwhile.                                                       *)
(***************************************************************************)
RemovalKnows ==
  /\ Removing => (reported => overtaken)
  /\ Removing => held \subseteq removal.left \/ overtaken \/ failed
  /\ removal.pc = "deleting" => removal.left = {}

ListInv == SuppressionTypeOK /\ RemovalKnows /\ SuppressionHolds

(***************************************************************************)
(* The counter's first request is alone, with the counter there and no TTL *)
(* on it yet, until it has seen to the TTL.                                *)
(***************************************************************************)
FirstIsAlone ==
  /\ \A r, q \in Calls : gate[r] = "first" /\ gate[q] = "first" => r = q
  /\ \A r \in Calls : gate[r] = "first" => counter > 0 /\ ~ticking

(***************************************************************************)
(* A request is handled, and sends, only once it is through the door, and  *)
(* what it takes to be off the list was found off it, or not found at all, *)
(* after it came.                                                          *)
(***************************************************************************)
ThroughDoor ==
  /\ \A r \in Requests : request[r].pc # "new" => gate[r] = "in"
  /\ \A r \in Calls : stage[r] # "new" => gate[r] = "in"

FoundFree == \A r \in Calls : stage[r] \in {"clear", "mailed"} => free[r]

DoorInv == ApiTypeOK /\ ThroughDoor /\ FoundFree /\ FirstIsAlone /\ CounterRunsOut
ApiInv == Typed /\ ListInv /\ DoorInv

-----------------------------------------------------------------------------
(* The list. *)

LEMMA ListInit == SuppressionInit => ListInv
<1> SUFFICES ASSUME SuppressionInit PROVE ListInv
  OBVIOUS
<1>1. reports \in [made : 0 .. MaxReports, coming : SUBSET Reported]
  BY SuppressionBounds DEF SuppressionInit
<1>2. requests \in 0 .. MaxRequests /\ losses \in 0 .. MaxLosses
  BY SuppressionBounds DEF SuppressionInit
<1>3. removal.pc = "idle" /\ removal \in [pc : {"idle", "asking", "deleting"}, left : SUBSET Regions]
  BY DEF SuppressionInit, NoRemoval
<1>4. upload \in [pc : {"idle", "creating"}, new : BOOLEAN]
  BY DEF SuppressionInit, NoUpload
<1>5. listed \in Reasons \cup {"no"} /\ held \subseteq Regions
  BY DEF SuppressionInit
<1>6. reported \in BOOLEAN /\ overtaken \in BOOLEAN /\ failed \in BOOLEAN
  BY DEF SuppressionInit
<1>7. SuppressionTypeOK
  BY <1>1, <1>2, <1>3, <1>4, <1>5, <1>6 DEF SuppressionTypeOK
<1>8. RemovalKnows /\ SuppressionHolds
  BY <1>3 DEF SuppressionInit, RemovalKnows, Removing, SuppressionHolds, ReportStays,
     OffListIsDeliverable
<1> QED
  BY <1>7, <1>8 DEF ListInv

LEMMA ListTypes ==
  ASSUME SuppressionTypeOK, [SuppressionNext]_suppressionVars
  PROVE  SuppressionTypeOK'
<1>1. listed' \in Reasons \cup {"no"}
  BY DEF SuppressionTypeOK, Reasons, Reported, SuppressionNext, suppressionVars, SesReports,
     RecordReport, RecordFails, AddSuppression, BeginRemoval, AskRegion, RegionsAnswered,
     DeleteRow, ReadListed, CreateMany
<1>2. held' \subseteq Regions
  BY DEF SuppressionTypeOK, SuppressionNext, suppressionVars, SesReports,
     RecordReport, RecordFails, AddSuppression, BeginRemoval, AskRegion, RegionsAnswered,
     DeleteRow, ReadListed, CreateMany
<1>3. reports' \in [made : 0 .. MaxReports, coming : SUBSET Reported]
  BY SuppressionBounds DEF SuppressionTypeOK, SuppressionNext, suppressionVars, SesReports,
     RecordReport, RecordFails, AddSuppression, BeginRemoval, AskRegion, RegionsAnswered,
     DeleteRow, ReadListed, CreateMany
<1>4. removal' \in [pc : {"idle", "asking", "deleting"}, left : SUBSET Regions]
  BY DEF SuppressionTypeOK, SuppressionNext, suppressionVars, SesReports, NoRemoval,
     RecordReport, RecordFails, AddSuppression, BeginRemoval, AskRegion, RegionsAnswered,
     DeleteRow, ReadListed, CreateMany
<1>5. upload' \in [pc : {"idle", "creating"}, new : BOOLEAN]
  <2>1. CASE ReadListed
    <3>1. PICK b \in BOOLEAN : b = (listed = "no")
      OBVIOUS
    <3>2. upload' = [pc |-> "creating", new |-> b]
      BY <2>1, <3>1, Zenon DEF ReadListed
    <3> QED
      BY <3>2
  <2>2. CASE CreateMany
    BY <2>2 DEF CreateMany, NoUpload
  <2>3. CASE ~ReadListed /\ ~CreateMany
    BY <2>3 DEF SuppressionTypeOK, SuppressionNext, suppressionVars, SesReports, RecordReport,
       RecordFails, AddSuppression, BeginRemoval, AskRegion, RegionsAnswered, DeleteRow
  <2> QED
    BY <2>1, <2>2, <2>3
<1>6. requests' \in 0 .. MaxRequests /\ losses' \in 0 .. MaxLosses
  BY SuppressionBounds DEF SuppressionTypeOK, SuppressionNext, suppressionVars, SesReports,
     RecordReport, RecordFails, AddSuppression, BeginRemoval, AskRegion, RegionsAnswered,
     DeleteRow, ReadListed, CreateMany, Request, Loses
<1>7. reported' \in BOOLEAN /\ overtaken' \in BOOLEAN /\ failed' \in BOOLEAN
  BY DEF SuppressionTypeOK, SuppressionNext, suppressionVars, SesReports,
     RecordReport, RecordFails, AddSuppression, BeginRemoval, AskRegion, RegionsAnswered,
     DeleteRow, ReadListed, CreateMany
<1> QED
  BY <1>1, <1>2, <1>3, <1>4, <1>5, <1>6, <1>7 DEF SuppressionTypeOK

(***************************************************************************)
(* Reports and the dashboard's requests to list disturb a removal only as  *)
(* far as they are remembered to; its own steps shrink what is left to     *)
(* ask until the row may go.                                               *)
(***************************************************************************)
LEMMA ListStep == ListInv /\ [SuppressionNext]_suppressionVars => ListInv'
<1> SUFFICES ASSUME ListInv, [SuppressionNext]_suppressionVars PROVE ListInv'
  OBVIOUS
<1>1. SuppressionTypeOK'
  BY ListTypes DEF ListInv
<1>2. RemovalKnows' /\ ReportStays' /\ OffListIsDeliverable'
  <2> USE DEF ListInv, SuppressionTypeOK, Reasons, Reported, RemovalKnows, Removing,
          SuppressionHolds, ReportStays, OffListIsDeliverable
  <2>1. CASE SesReports
    <3>1. reports'.coming # {}
      BY <2>1 DEF SesReports
    <3>2. Removing => overtaken'
      BY <2>1, Zenon DEF SesReports
    <3>3. overtaken => overtaken'
      BY <2>1, Zenon DEF SesReports
    <3> QED
      BY <2>1, <3>1, <3>2, <3>3, Zenon DEF SesReports
  <2>2. CASE RecordReport
    BY <2>2 DEF RecordReport
  <2>3. CASE RecordFails
    BY <2>3 DEF RecordFails
  <2>4. CASE AddSuppression \/ ReadListed \/ CreateMany
    BY <2>4 DEF AddSuppression, ReadListed, CreateMany
  <2>5. CASE BeginRemoval
    BY <2>5 DEF BeginRemoval
  <2>6. CASE AskRegion
    BY <2>6 DEF AskRegion
  <2>7. CASE RegionsAnswered
    BY <2>7 DEF RegionsAnswered
  <2>8. CASE DeleteRow
    BY <2>8 DEF DeleteRow, NoRemoval
  <2>9. CASE UNCHANGED suppressionVars
    BY <2>9 DEF suppressionVars
  <2> QED
    BY <2>1, <2>2, <2>3, <2>4, <2>5, <2>6, <2>7, <2>8, <2>9 DEF SuppressionNext
<1> QED
  BY <1>1, <1>2 DEF ListInv, SuppressionHolds

-----------------------------------------------------------------------------
(* The two parts under the whole. *)

(***************************************************************************)
(* What a step of the door or of an operation does to the key: one step of *)
(* Idempotency's or none.                                                  *)
(***************************************************************************)
LEMMA KeyStep == [ApiNext]_apiVars => [IdemNext]_idemVars
<1> SUFFICES ASSUME [ApiNext]_apiVars PROVE [IdemNext]_idemVars
  OBVIOUS
<1>1. ASSUME NEW r \in Calls, Door(r) PROVE UNCHANGED idemVars
  BY <1>1 DEF Door, Authenticate, Increment, SetExpiry, LimiterFails, DiesAtDoor
<1>2. ASSUME NEW r \in Calls, SendEmail(r) PROVE [IdemNext]_idemVars
  <2>1. CASE Authorize(r) \/ ReadList(r) \/ ReadListFails(r)
    BY <2>1 DEF Authorize, ReadList, ReadListFails
  <2>2. CASE NotAuthorized(r)
    BY <2>2 DEF NotAuthorized, IdemNext, Step
  <2>3. CASE CreateEmail(r)
    BY <2>3 DEF CreateEmail, IdemNext, Step
  <2>4. CASE SendThrows(r)
    BY <2>4 DEF SendThrows, IdemNext, Step
  <2> QED
    BY <1>2, <2>1, <2>2, <2>3, <2>4 DEF SendEmail
<1>3. ASSUME NEW r \in Requests, Handle(r) PROVE IdemNext
  BY <1>3 DEF Handle, IdemNext, Step
<1>4. CASE WindowEnds \/ DeleteApiKey \/ ListChanges
  BY <1>4 DEF WindowEnds, DeleteApiKey, ListChanges
<1>5. CASE KeysExpire
  BY <1>5 DEF KeysExpire, IdemNext
<1>6. CASE UNCHANGED apiVars
  BY <1>6 DEF apiVars
<1> QED
  BY <1>1, <1>2, <1>3, <1>4, <1>5, <1>6 DEF ApiNext

LEMMA ListMoves == [ApiNext]_apiVars => [SuppressionNext]_suppressionVars
<1> SUFFICES ASSUME [ApiNext]_apiVars PROVE [SuppressionNext]_suppressionVars
  OBVIOUS
<1>1. ASSUME NEW r \in Calls, Door(r) PROVE UNCHANGED suppressionVars
  BY <1>1 DEF Door, Authenticate, Increment, SetExpiry, LimiterFails, DiesAtDoor
<1>2. ASSUME NEW r \in Calls, SendEmail(r) PROVE UNCHANGED suppressionVars
  BY <1>2
  DEF SendEmail, Authorize, NotAuthorized, ReadList, ReadListFails, CreateEmail, SendThrows
<1>3. ASSUME NEW r \in Requests, Handle(r) PROVE UNCHANGED suppressionVars
  BY <1>3 DEF Handle
<1>4. CASE WindowEnds \/ DeleteApiKey \/ KeysExpire
  BY <1>4 DEF WindowEnds, DeleteApiKey, KeysExpire
<1>5. CASE ListChanges
  BY <1>5 DEF ListChanges
<1>6. CASE UNCHANGED apiVars
  BY <1>6 DEF apiVars
<1> QED
  BY <1>1, <1>2, <1>3, <1>4, <1>5, <1>6 DEF ApiNext

(***************************************************************************)
(* The API with everything around it is an instance of withIdempotency's   *)
(* protocol: the door before it, the checks of sendEmail within its        *)
(* operation and the changes of the list beside it take no step the        *)
(* protocol does not have.                                                 *)
(***************************************************************************)
THEOREM ApiImplementsIdempotency == ApiSpec => IdemSpec
<1>1. ApiInit => IdemInit
  BY DEF ApiInit
<1> QED
  BY <1>1, KeyStep, PTL DEF ApiSpec, IdemSpec

(***************************************************************************)
(* Behind the door as without it, an address reported to the team stays    *)
(* listed until its removal is asked for, and an address off the list can  *)
(* be delivered to, unless a call failed or a report crossed a removal.    *)
(***************************************************************************)
THEOREM SuppressionAlwaysHolds == SuppressionSpec => []SuppressionHolds
<1>1. ListInv => SuppressionHolds
  BY DEF ListInv
<1> QED
  BY <1>1, ListInit, ListStep, PTL DEF SuppressionSpec

-----------------------------------------------------------------------------
(* The door and the operation. *)

LEMMA OthersKept ==
  ASSUME Typed, NEW r \in Requests, Step(r) \/ RequestDies(r), NEW q \in Requests \ {r}
  PROVE  request'[q] = request[q]
  BY Moves DEF Typed

LEMMA TypedNext == Typed /\ [IdemNext]_idemVars => Typed'
<1>1. Typed /\ UNCHANGED idemVars => Typed'
  BY DEF Typed, idemVars
<1> QED
  BY <1>1, TypedStep, TypedExpiry DEF IdemNext

LEMMA DoorInit == ApiInit => DoorInv
<1> SUFFICES ASSUME ApiInit PROVE DoorInv
  OBVIOUS
<1>1. gate \in [Calls -> Gates] /\ stage \in [Calls -> Stages]
  BY DEF ApiInit, Gates, Stages
<1>2. free \in [Calls -> BOOLEAN] /\ lost \in BOOLEAN /\ ticking \in BOOLEAN
  BY DEF ApiInit
<1>3. selfHosted \in BOOLEAN /\ apiKey \in BOOLEAN
  BY DEF ApiInit
<1>4. counter \in Nat /\ mishaps \in 0 .. MaxMishaps
  BY LimitAssumption DEF ApiInit
<1>5. ApiTypeOK
  BY <1>1, <1>2, <1>3, <1>4 DEF ApiTypeOK
<1>6. \A r \in Requests : request[r].pc = "new"
  BY DEF ApiInit, IdemInit
<1>7. \A r \in Calls : gate[r] = "out" /\ stage[r] = "new"
  BY DEF ApiInit
<1>8. counter = 0 /\ ticking = FALSE
  BY DEF ApiInit
<1>9. ThroughDoor /\ FoundFree /\ FirstIsAlone /\ CounterRunsOut
  BY <1>6, <1>7, <1>8 DEF ThroughDoor, FoundFree, FirstIsAlone, CounterRunsOut
<1> QED
  BY <1>5, <1>9 DEF DoorInv

LEMMA DoorTypes == ApiTypeOK /\ ApiNext => ApiTypeOK'
<1> SUFFICES ASSUME ApiTypeOK, ApiNext PROVE ApiTypeOK'
  OBVIOUS
<1>1. gate' \in [Calls -> Gates]
  BY DEF ApiTypeOK, Gates, ApiNext, doorVars, Pass, Door, Authenticate, Increment, SetExpiry,
     LimiterFails, DiesAtDoor, SendEmail, Authorize, NotAuthorized, ReadList, ReadListFails,
     CreateEmail, SendThrows, Handle, WindowEnds, DeleteApiKey, KeysExpire, ListChanges
<1>2. stage' \in [Calls -> Stages]
  BY DEF ApiTypeOK, Stages, ApiNext, ToStage, Door, Authenticate, Increment, SetExpiry,
     LimiterFails, DiesAtDoor, SendEmail, Authorize, NotAuthorized, ReadList, ReadListFails,
     CreateEmail, SendThrows, Handle, WindowEnds, DeleteApiKey, KeysExpire, ListChanges, Calls
<1>3. counter' \in Nat
  BY DEF ApiTypeOK, ApiNext, doorVars, Door, Authenticate, Increment, SetExpiry,
     LimiterFails, DiesAtDoor, SendEmail, Authorize, NotAuthorized, ReadList, ReadListFails,
     CreateEmail, SendThrows, Handle, WindowEnds, DeleteApiKey, KeysExpire, ListChanges
<1>4. mishaps' \in 0 .. MaxMishaps
  BY LimitAssumption DEF ApiTypeOK, ApiNext, Mishap, Door, Authenticate, Increment, SetExpiry,
     LimiterFails, DiesAtDoor, SendEmail, Authorize, NotAuthorized, ReadList, ReadListFails,
     CreateEmail, SendThrows, Handle, WindowEnds, DeleteApiKey, KeysExpire, ListChanges
<1>5. selfHosted' \in BOOLEAN /\ apiKey' \in BOOLEAN /\ ticking' \in BOOLEAN
  BY Zenon
  DEF ApiTypeOK, ApiNext, doorVars, Door, Authenticate, Increment, SetExpiry,
     LimiterFails, DiesAtDoor, SendEmail, Authorize, NotAuthorized, ReadList, ReadListFails,
     CreateEmail, SendThrows, Handle, WindowEnds, DeleteApiKey, KeysExpire, ListChanges
<1>6. lost' \in BOOLEAN
  BY Zenon
  DEF ApiTypeOK, ApiNext, Door, Authenticate, Increment, SetExpiry,
     LimiterFails, DiesAtDoor, SendEmail, Authorize, NotAuthorized, ReadList, ReadListFails,
     CreateEmail, SendThrows, Handle, WindowEnds, DeleteApiKey, KeysExpire, ListChanges
<1>7. free' \in [Calls -> BOOLEAN]
  BY Zenon DEF ApiNext, FreeAfter
<1> QED
  BY <1>1, <1>2, <1>3, <1>4, <1>5, <1>6, <1>7 DEF ApiTypeOK
(***************************************************************************)
(* Who is through the door stays through it, and no handler and no         *)
(* operation begins before.                                                *)
(***************************************************************************)
LEMMA DoorStays ==
  ASSUME Typed, ApiTypeOK, ThroughDoor, ApiNext
  PROVE  ThroughDoor'
<1>1. ASSUME NEW r \in Calls, Door(r) PROVE ThroughDoor'
  <2>1. gate[r] # "in"
    BY <1>1 DEF Door, Authenticate, Increment, SetExpiry, LimiterFails, DiesAtDoor
  <2>2. \A q \in Calls \ {r} : gate'[q] = gate[q]
    BY <1>1 DEF ApiTypeOK, Pass, Door, Authenticate, Increment, SetExpiry, LimiterFails,
       DiesAtDoor
  <2>3. stage' = stage /\ request' = request
    BY <1>1 DEF Door, Authenticate, Increment, SetExpiry, LimiterFails, DiesAtDoor, idemVars
  <2> QED
    BY <2>1, <2>2, <2>3 DEF ThroughDoor, Calls
<1>2. ASSUME NEW r \in Calls, SendEmail(r) PROVE ThroughDoor'
  <2>1. gate' = gate /\ \A q \in Calls \ {r} : stage'[q] = stage[q]
    BY <1>2 DEF ApiTypeOK, doorVars, ToStage, SendEmail, Authorize, NotAuthorized, ReadList,
       ReadListFails, CreateEmail, SendThrows
  <2>2. r \in Requests => request[r].pc = "operating"
    BY <1>2 DEF Operates, SendEmail, Authorize, NotAuthorized, ReadList,
       ReadListFails, CreateEmail, SendThrows, OperationThrows
  <2>3. gate[r] = "in"
    BY <1>2, <2>2 DEF ThroughDoor, Operates, SendEmail, Authorize, NotAuthorized, ReadList,
       ReadListFails, CreateEmail, SendThrows
  <2>4. request' = request \/ (r \in Requests /\ Step(r))
    BY <1>2 DEF Step, idemVars, SendEmail, Authorize, NotAuthorized, ReadList, ReadListFails,
       CreateEmail, SendThrows
  <2>5. \A q \in Requests : q # r => request'[q] = request[q]
    BY <2>4, OthersKept
  <2> QED
    BY <2>1, <2>3, <2>5 DEF ThroughDoor
<1>3. ASSUME NEW r \in Requests, Handle(r) PROVE ThroughDoor'
  <2>1. gate[r] = "in" /\ gate' = gate /\ stage' = stage
    BY <1>3 DEF Handle, doorVars
  <2>2. Step(r) \/ RequestDies(r)
    BY <1>3 DEF Handle, Step
  <2>3. \A q \in Requests : q # r => request'[q] = request[q]
    BY <2>2, OthersKept
  <2> QED
    BY <2>1, <2>3 DEF ThroughDoor
<1>4. CASE WindowEnds \/ DeleteApiKey \/ KeysExpire \/ ListChanges
  <2>1. gate' = gate /\ stage' = stage /\ request' = request
    BY <1>4 DEF WindowEnds, DeleteApiKey, KeysExpire, ListChanges, LockExpires, ResultExpires,
       doorVars, idemVars
  <2> QED
    BY <2>1 DEF ThroughDoor
<1> QED
  BY <1>1, <1>2, <1>3, <1>4 DEF ApiNext

(***************************************************************************)
(* Once found off the list, always found off it: and the reading that      *)
(* finds it so has the list's word for it, or cannot read it.              *)
(***************************************************************************)
LEMMA FreeStays ==
  ASSUME ApiTypeOK, ThroughDoor, ThroughDoor', FoundFree, ApiNext
  PROVE  FoundFree'
<1> SUFFICES ASSUME NEW r \in Calls, stage'[r] \in {"clear", "mailed"} PROVE free'[r]
  BY DEF FoundFree
<1>1. gate'[r] # "out"
  BY DEF ThroughDoor
<1>2. SUFFICES free[r] \/ listed' = "no" \/ mishaps' # mishaps
  BY <1>1 DEF ApiNext, FreeAfter
<1>3. CASE stage'[r] = stage[r]
  BY <1>3 DEF FoundFree
<1>4. CASE stage'[r] # stage[r]
  <2>1. PICK q \in Calls : SendEmail(q)
    BY <1>4 DEF ApiNext, Door, Authenticate, Increment, SetExpiry, LimiterFails, DiesAtDoor,
       Handle, WindowEnds, DeleteApiKey, KeysExpire, ListChanges
  <2>2. q = r
    BY <1>4, <2>1 DEF ApiTypeOK, ToStage, SendEmail, Authorize, NotAuthorized, ReadList,
       ReadListFails, CreateEmail, SendThrows
  <2>3. CASE Authorize(r) \/ NotAuthorized(r) \/ SendThrows(r)
    BY <2>3 DEF ApiTypeOK, ToStage, Authorize, NotAuthorized, SendThrows
  <2>4. CASE ReadList(r)
    BY <2>4 DEF ApiTypeOK, ToStage, ReadList, suppressionVars
  <2>5. CASE ReadListFails(r)
    BY <2>5, LimitAssumption DEF ApiTypeOK, ReadListFails, Mishap
  <2>6. CASE CreateEmail(r)
    BY <2>6 DEF ApiTypeOK, FoundFree, ToStage, CreateEmail
  <2> QED
    BY <2>1, <2>2, <2>3, <2>4, <2>5, <2>6 DEF SendEmail
<1> QED
  BY <1>3, <1>4

(***************************************************************************)
(* The counter: the first request of a window sees to its TTL, or is known *)
(* not to have, before another can be the first.                           *)
(***************************************************************************)
LEMMA CounterStep ==
  ASSUME ApiTypeOK, FirstIsAlone, CounterRunsOut, ApiNext
  PROVE  FirstIsAlone' /\ CounterRunsOut'
<1> USE DEF ApiTypeOK, FirstIsAlone, CounterRunsOut
<1>1. ASSUME NEW r \in Calls, Door(r) PROVE FirstIsAlone' /\ CounterRunsOut'
  <2>1. CASE Authenticate(r)
    BY <2>1 DEF Authenticate, Pass
  <2>2. CASE Increment(r)
    BY <2>2 DEF Increment, Pass
  <2>3. CASE SetExpiry(r)
    BY <2>3 DEF SetExpiry, Pass
  <2>4. CASE LimiterFails(r)
    <3>1. gate' = [gate EXCEPT ![r] = "in"] /\ ticking' = ticking
      BY <2>4 DEF LimiterFails, Pass
    <3>2. counter' \in {counter, counter + 1}
      BY <2>4 DEF LimiterFails
    <3>3. lost \/ gate[r] = "first" \/ counter' = 1 => lost'
      BY <2>4, Zenon DEF LimiterFails
    <3>4. counter' = counter \/ (counter' = counter + 1 /\ counter' > 0)
      BY <3>2
    <3>5. FirstIsAlone'
      BY <3>1, <3>4
    <3>6. counter > 0 => ticking \/ lost \/ gate[r] = "first" \/ \E q \in Calls \ {r} : gate[q] = "first"
      OBVIOUS
    <3>7. counter' > 0 => ticking' \/ lost' \/ \E q \in Calls : gate'[q] = "first"
      BY <3>1, <3>3, <3>4, <3>6
    <3>8. ticking' => counter' > 0
      BY <3>1, <3>4
    <3> QED
      BY <3>5, <3>7, <3>8
  <2>5. CASE DiesAtDoor(r)
    BY <2>5 DEF DiesAtDoor, Pass
  <2> QED
    BY <1>1, <2>1, <2>2, <2>3, <2>4, <2>5 DEF Door
<1>2. CASE WindowEnds
  BY <1>2 DEF WindowEnds
<1>3. CASE \/ \E r \in Calls : SendEmail(r)
           \/ \E r \in Requests : Handle(r)
           \/ DeleteApiKey \/ KeysExpire \/ ListChanges
  <2>1. UNCHANGED << gate, counter, ticking, lost >>
    BY <1>3 DEF doorVars, SendEmail, Authorize, NotAuthorized, ReadList, ReadListFails,
       CreateEmail, SendThrows, Handle, DeleteApiKey, KeysExpire, ListChanges
  <2> QED
    BY <2>1
<1> QED
  BY <1>1, <1>2, <1>3 DEF ApiNext

LEMMA ApiInvNext == ApiInv /\ [ApiNext]_apiVars => ApiInv'
<1> SUFFICES ASSUME ApiInv, [ApiNext]_apiVars PROVE ApiInv'
  OBVIOUS
<1>1. Typed'
  BY KeyStep, TypedNext DEF ApiInv
<1>2. ListInv'
  BY ListMoves, ListStep DEF ApiInv
<1>3. CASE ApiNext
  <2>1. ApiTypeOK'
    BY <1>3, DoorTypes DEF ApiInv, DoorInv
  <2>2. ThroughDoor'
    BY <1>3, DoorStays DEF ApiInv, DoorInv
  <2>3. FoundFree'
    BY <1>3, <2>2, FreeStays DEF ApiInv, DoorInv
  <2>4. FirstIsAlone' /\ CounterRunsOut'
    BY <1>3, CounterStep DEF ApiInv, DoorInv
  <2> QED
    BY <1>1, <1>2, <2>1, <2>2, <2>3, <2>4 DEF ApiInv, DoorInv
<1>4. CASE UNCHANGED apiVars
  <2>1. UNCHANGED doorVars /\ UNCHANGED << stage, mishaps, lost, free >> /\ request' = request
    BY <1>4 DEF apiVars, idemVars
  <2>2. DoorInv'
    BY <2>1 DEF ApiInv, DoorInv, doorVars, ApiTypeOK, ThroughDoor, FoundFree, FirstIsAlone,
       CounterRunsOut
  <2> QED
    BY <1>1, <1>2, <2>2 DEF ApiInv
<1> QED
  BY <1>3, <1>4

(***************************************************************************)
(* Whatever requests, keys and reports come and whatever fails: what the   *)
(* list promises holds, nothing is mailed to an address listed all the     *)
(* while its request was on its way, and the limiter's counter runs out,   *)
(* but for the mishaps named.                                              *)
(***************************************************************************)
THEOREM GatesAlwaysHold == ApiSpec => []GatesHold
<1>1. ApiInit => ApiInv
  BY TypedInit, ListInit, DoorInit DEF ApiInit, ApiInv
<1>2. ApiInv => GatesHold
  BY DEF ApiInv, ListInv, DoorInv, FoundFree, GatesHold, ListIsKept, ListedIsNotMailed
<1> QED
  BY <1>1, <1>2, ApiInvNext, PTL DEF ApiSpec

(***************************************************************************)
(* What withIdempotency promises holds of the API's requests too.          *)
(***************************************************************************)
THEOREM ApiAnswersOnce ==
  ApiSpec => [](OneOperationAtATime /\ AnswersOwnBody /\ SequentialRetriesSendOnce)
  BY ApiImplementsIdempotency, OneOperation, AnswersOwn, SequentialRetries, PTL
-----------------------------------------------------------------------------
(***************************************************************************)
(* The regions of SES for every set of processes, regions and requests to  *)
(* add one, and whatever troubles there are.  A row belongs to the one     *)
(* creation that made its topic, and nobody else takes it away; of a       *)
(* process's reloads that have not crossed, each one that began with the   *)
(* row has its topic; a confirmation, once answered, found the row or did  *)
(* not.                                                                    *)
(***************************************************************************)
HIDE IdemAssumption

Loading(j, next) == job[j].pc \in {"reload", "assign"} /\ job[j].next = next
\* A creation that has not a topic yet, one whose row is the region's, one
\* whose endpoint is subscribed, and one whose queues are made.
Early(c) == job[c].pc \in {"none", "topic", "refused"} \/ Loading(c, "topic")
Holding(c) ==
  job[c].pc \in {"subscribe", "configure", "done"}
    \/ Loading(c, "subscribe") \/ Loading(c, "done")
Subscribed(c) == job[c].pc \in {"configure", "done"} \/ Loading(c, "done")
Served(c) == job[c].pc = "done" \/ Loading(c, "done")

InOrder(c) ==
  /\ job[c].pc # "none" => job[c].at \in Processes /\ job[c].region \in SesRegionNames
  /\ job[c].pc \in {"reload", "assign"} =>
       job[c].next \in {"topic", "subscribe", "done", "failed"}
  /\ Early(c) => job[c].topic = 0
  /\ Holding(c) \/ job[c].pc \in {"row", "dropTopic", "dropSetting"} => job[c].topic # 0
  /\ job[c].pc \notin {"sent", "arrived", "confirm"}

CreationsInOrder == \A c \in Creations : InOrder(c)

ConfirmsInOrder(t) ==
  /\ job[t].pc \in {"none", "sent", "reload", "assign", "arrived", "confirm", "refused", "done"}
  /\ job[t].pc \in {"reload", "assign"} =>
       job[t].next \in {"arrived", "done"} /\ job[t].at \in Processes
  /\ job[t].pc \in {"arrived", "confirm"} => job[t].at \in Processes
  /\ job[t].pc \in {"none", "sent", "arrived", "confirm"} => job[t].next = "none"

ConfirmationsInOrder == \A t \in Topics : ConfirmsInOrder(t)

\* A topic is one creation's, and confirmed only once it is there.
TopicsAreOwn ==
  /\ created = Cardinality({ c \in Creations : job[c].topic # 0 })
  /\ \A c \in Creations : job[c].topic <= created
  /\ \A c, d \in Creations : job[c].topic = job[d].topic /\ job[c].topic # 0 => c = d
  /\ \A t \in topics : t <= created
  /\ \A t \in Topics : t > created => job[t].pc = "none"

SettingIsOwn(r) ==
  /\ setting[r].topic = 0 => setting[r] = NoSetting
  /\ setting[r].topic # 0 =>
       \E c \in Creations : job[c].topic = setting[r].topic /\ job[c].region = r

SettingsAreOwn == \A r \in SesRegionNames : SettingIsOwn(r)

\* A row stays until its own creation takes it away, after its topic.
Owns(c) ==
  /\ Holding(c) \/ job[c].pc = "dropSetting" => Own(c)
  /\ Served(c) => setting[job[c].region].configured /\ job[c].region \in queues[job[c].at]
  /\ job[c].pc = "row" => job[c].topic \in topics
  /\ job[c].pc = "dropSetting" => job[c].topic \notin topics \/ job[c].topic \in left

HoldersOwn == \A c \in Creations : Owns(c)

\* Reloads of a process that have not crossed follow one another, and each that
\* began with the row has its topic.
LoadsAlone ==
  \A j, k \in RegionJobs :
    job[j].pc = "assign" /\ job[k].pc = "assign" /\ job[j].at = job[k].at
      => j = k \/ job[j].at \in crossed
SawOwn(c) ==
  job[c].pc = "assign" /\ job[c].next = "subscribe" => job[c].seen[job[c].region] = job[c].topic
SeenByAll(c) ==
  job[c].pc \in {"subscribe", "configure"} =>
    \A j \in RegionJobs : job[j].pc = "assign" /\ job[j].at = job[c].at
      => job[j].seen[job[c].region] = job[c].topic \/ job[c].at \in crossed

LoadsInOrder == LoadsAlone /\ \A c \in Creations : SawOwn(c) /\ SeenByAll(c)

\* A confirmation that was answered found its row and confirmed it, or is among
\* those missed, or its row was gone.
Answered(t) ==
  /\ job[t].pc = "done" \/ Loading(t, "done") =>
       \A r \in SesRegionNames : setting[r].topic = t => setting[r].confirmed
  /\ job[t].pc = "refused" => t \in missed \/ \A r \in SesRegionNames : setting[r].topic # t
Asked(c) ==
  /\ Subscribed(c) => job[job[c].topic].pc # "none"
  /\ job[c].pc \in {"row", "subscribe"} \/ Loading(c, "subscribe")
       => job[job[c].topic].pc = "none"

ConfirmationsKept == (\A t \in Topics : Answered(t)) /\ (\A c \in Creations : Asked(c))

Knows(c) ==
  job[c].pc \in {"subscribe", "configure"}
    => known[job[c].at][job[c].region] = job[c].topic \/ job[c].at \in crossed
RowHasTopic(r) ==
  setting[r] # NoSetting =>
    \/ setting[r].topic \in topics \cup left
    \/ \E c \in Creations : job[c].topic = setting[r].topic /\ job[c].pc = "dropSetting"
TopicHasRow(t) ==
  \/ t \in left \/ \E r \in SesRegionNames : setting[r].topic = t
  \/ \E c \in Creations : job[c].topic = t /\ job[c].pc \in {"row", "dropTopic"}

RegionInv ==
  /\ RegionTypeOK /\ CreationsInOrder /\ ConfirmationsInOrder /\ TopicsAreOwn
  /\ SettingsAreOwn /\ HoldersOwn /\ LoadsInOrder /\ ConfirmationsKept
  /\ CreatorKnowsTopic /\ TopicsHaveRows

JobPcs == JobSteps \cup {"reload", "assign", "sent"}
Copies == [SesRegionNames -> Topics \cup {0}]
JobStates ==
  [pc : JobPcs, next : JobSteps, at : Processes \cup {"none"},
   region : SesRegionNames \cup {"none"}, topic : Topics \cup {0}, seen : Copies]
Settings == [topic : Topics \cup {0}, configured : BOOLEAN, confirmed : BOOLEAN]

RegionTypes ==
  /\ setting \in [SesRegionNames -> Settings]
  /\ topics \subseteq Topics /\ created \in 0 .. Cardinality(Creations)
  /\ known \in [Processes -> Copies]
  /\ loaded \in [Processes -> BOOLEAN] /\ queues \in [Processes -> SUBSET SesRegionNames]
  /\ job \in [RegionJobs -> JobStates]
  /\ troubles \in 0 .. MaxTroubles
  /\ crossed \subseteq Processes /\ missed \subseteq Topics /\ left \subseteq Topics

LEMMA RegionTypesAre == RegionTypes <=> RegionTypeOK
BY DEF RegionTypes, RegionTypeOK, Settings, Copies, JobStates, JobPcs

LEMMA TopicsFacts ==
  /\ Cardinality(Creations) \in Nat
  /\ Topics \subseteq Nat /\ 0 \notin Topics
  /\ Creations \cap Topics = {}
  /\ Creations \subseteq RegionJobs /\ Topics \subseteq RegionJobs
<1>1. Cardinality(Creations) \in Nat
  BY CreationsAssumption, FS_CardinalityType
<1>2. Topics \subseteq Nat /\ 0 \notin Topics
  BY <1>1 DEF Topics
<1> QED
  BY <1>1, <1>2, CreationsAssumption DEF RegionJobs

(***************************************************************************)
(* What becomes of the job that a step is of.                              *)
(***************************************************************************)
\* All of j is as it was but for its place in the code.
Moved(j, pc, next) ==
  /\ job'[j].pc = pc /\ job'[j].next = next
  /\ job'[j].at = job[j].at /\ job'[j].region = job[j].region
  /\ job'[j].topic = job[j].topic /\ job'[j].seen = job[j].seen
OthersStay(j) == \A k \in RegionJobs \ {j} : job'[k] = job[k]

LEMMA GoesMoves ==
  ASSUME RegionTypes, NEW j \in RegionJobs, NEW q \in JobPcs, Goes(j, q)
  PROVE  Moved(j, q, job[j].next) /\ OthersStay(j) /\ job' \in [RegionJobs -> JobStates]
<1>1. job[j] \in JobStates /\ job \in [RegionJobs -> JobStates]
  BY DEF RegionTypes
<1>2. job'[j] = [job[j] EXCEPT !.pc = q] /\ OthersStay(j)
  BY <1>1 DEF Goes, OthersStay
<1>3. job'[j] \in JobStates
  BY <1>1, <1>2 DEF JobStates
<1>4. job' \in [RegionJobs -> JobStates]
  BY <1>1, <1>2, <1>3 DEF Goes
<1> QED
  BY <1>1, <1>2, <1>4 DEF Moved, JobStates

LEMMA ReloadingMoves ==
  ASSUME RegionTypes, NEW j \in RegionJobs, NEW n \in JobSteps, Reloading(j, n)
  PROVE  Moved(j, "reload", n) /\ OthersStay(j) /\ job' \in [RegionJobs -> JobStates]
<1>1. job[j] \in JobStates /\ job \in [RegionJobs -> JobStates]
  BY DEF RegionTypes
<1>2. job'[j] = [job[j] EXCEPT !.pc = "reload", !.next = n] /\ OthersStay(j)
  BY <1>1 DEF Reloading, OthersStay
<1>3. job'[j] \in JobStates
  BY <1>1, <1>2 DEF JobStates, JobPcs
<1>4. job' \in [RegionJobs -> JobStates]
  BY <1>1, <1>2, <1>3 DEF Reloading
<1> QED
  BY <1>1, <1>2, <1>4 DEF Moved, JobStates

LEMMA RowsAreCopy == RegionTypes => Rows \in Copies
BY DEF RegionTypes, Rows, Copies, Settings

LEMMA ReadMoves ==
  ASSUME RegionTypes, NEW j \in RegionJobs, ReadRows(j)
  PROVE  /\ job'[j].pc = "assign" /\ job'[j].seen = Rows /\ job'[j].next = job[j].next
         /\ job'[j].at = job[j].at /\ job'[j].region = job[j].region
         /\ job'[j].topic = job[j].topic
         /\ OthersStay(j) /\ job' \in [RegionJobs -> JobStates]
<1>1. job[j] \in JobStates /\ job \in [RegionJobs -> JobStates] /\ Rows \in Copies
  BY RowsAreCopy DEF RegionTypes
<1>2. job'[j] = [job[j] EXCEPT !.pc = "assign", !.seen = Rows] /\ OthersStay(j)
  BY <1>1 DEF ReadRows, OthersStay
<1>3. job'[j] \in JobStates
  BY <1>1, <1>2 DEF JobStates, JobPcs
<1>4. job' \in [RegionJobs -> JobStates]
  BY <1>1, <1>2, <1>3 DEF ReadRows
<1> QED
  BY <1>1, <1>2, <1>4 DEF JobStates

LEMMA AssignMoves ==
  ASSUME RegionTypes, NEW j \in RegionJobs, AssignRows(j)
  PROVE  /\ job'[j].pc = job[j].next /\ job'[j].next = "none"
         /\ job'[j].at = job[j].at /\ job'[j].region = job[j].region
         /\ job'[j].topic = job[j].topic
         /\ OthersStay(j) /\ job' \in [RegionJobs -> JobStates]
<1>1. job[j] \in JobStates /\ job \in [RegionJobs -> JobStates]
  BY DEF RegionTypes
<1>0. NothingKnown \in Copies
  BY DEF NothingKnown, Copies
<1>2. job'[j] = [job[j] EXCEPT !.pc = job[j].next, !.next = "none", !.seen = NothingKnown]
      /\ OthersStay(j)
  BY <1>1 DEF AssignRows, OthersStay
<1>3. job'[j] \in JobStates
  BY <1>0, <1>1, <1>2 DEF JobStates, JobPcs, JobSteps, Ended
<1>4. job' \in [RegionJobs -> JobStates]
  BY <1>1, <1>2, <1>3 DEF AssignRows
<1> QED
  BY <1>1, <1>2, <1>4 DEF JobStates

LEMMA BeginMoves ==
  ASSUME RegionTypes, NEW c \in Creations, CreateSesSetting(c)
  PROVE  /\ job'[c].topic = 0 /\ job'[c].at \in Processes /\ job'[c].region \in SesRegionNames
         /\ \/ job'[c].pc = "topic" /\ job'[c].next = "none"
            \/ job'[c].pc = "reload" /\ job'[c].next = "topic"
         /\ OthersStay(c) /\ job' \in [RegionJobs -> JobStates]
<1>1. job \in [RegionJobs -> JobStates] /\ c \in RegionJobs
  BY TopicsFacts DEF RegionTypes
<1>2. PICK place \in Places[c] :
        job' = [job EXCEPT ![c] =
          First(place[1], "topic", [NoJob EXCEPT !.at = place[1], !.region = place[2]])]
  BY ZenonT(60) DEF CreateSesSetting
<1>3. place[1] \in Processes /\ place[2] \in SesRegionNames
  BY PlacesAssumption
<1> DEFINE new == [NoJob EXCEPT !.at = place[1], !.region = place[2]]
<1>4. new = [pc |-> "none", next |-> "none", at |-> place[1], region |-> place[2],
             topic |-> 0, seen |-> NothingKnown]
  <2> DEFINE p == place[1]
             r == place[2]
  <2> HIDE DEF p, r
  <2>1. [NoJob EXCEPT !.at = p, !.region = r] =
          [pc |-> "none", next |-> "none", at |-> p, region |-> r, topic |-> 0,
           seen |-> NothingKnown]
    <3>1. [NoJob EXCEPT !.at = p, !.region = r] = [[NoJob EXCEPT !.at = p] EXCEPT !.region = r]
      BY DEF NoJob
    <3>2. [NoJob EXCEPT !.at = p] =
            [pc |-> "none", next |-> "none", at |-> p, region |-> "none", topic |-> 0,
             seen |-> NothingKnown]
      BY DEF NoJob
    <3>3. ASSUME NEW n
          PROVE  [[pc |-> "none", next |-> "none", at |-> p, region |-> "none", topic |-> 0,
                   seen |-> n] EXCEPT !.region = r] =
                 [pc |-> "none", next |-> "none", at |-> p, region |-> r, topic |-> 0, seen |-> n]
      OBVIOUS
    <3> QED
      BY <3>1, <3>2, <3>3
  <2> QED
    BY <2>1 DEF p, r
<1>5. NothingKnown \in Copies
  BY DEF NothingKnown, Copies
<1> HIDE DEF new
<1>6. /\ First(place[1], "topic", new) \in JobStates
      /\ First(place[1], "topic", new).topic = 0
      /\ First(place[1], "topic", new).at \in Processes
      /\ First(place[1], "topic", new).region \in SesRegionNames
      /\ LET f == First(place[1], "topic", new) IN
           \/ f.pc = "topic" /\ f.next = "none"
           \/ f.pc = "reload" /\ f.next = "topic"
  <2>1. CASE loaded[place[1]]
    <3>1. First(place[1], "topic", new) = [new EXCEPT !.pc = "topic"]
      BY <2>1 DEF First
    <3> QED
      BY <1>3, <1>4, <1>5, <3>1 DEF JobStates, JobPcs, JobSteps, Creating, Ended
  <2>2. CASE ~loaded[place[1]]
    <3>1. First(place[1], "topic", new) = [new EXCEPT !.pc = "reload", !.next = "topic"]
      BY <2>2 DEF First
    <3> QED
      BY <1>3, <1>4, <1>5, <3>1 DEF JobStates, JobPcs, JobSteps, Creating
  <2> QED
    BY <2>1, <2>2
<1>7. job' = [job EXCEPT ![c] = First(place[1], "topic", new)]
  BY <1>2 DEF new
<1> QED
  BY <1>1, <1>6, <1>7 DEF OthersStay

LEMMA TopicMoves ==
  ASSUME RegionTypes, NEW c \in Creations, CreateTopic(c), created' \in Topics
  PROVE  /\ job'[c].pc = "row" /\ job'[c].topic = created' /\ job'[c].next = job[c].next
         /\ job'[c].at = job[c].at /\ job'[c].region = job[c].region
         /\ OthersStay(c) /\ job' \in [RegionJobs -> JobStates]
<1>1. job[c] \in JobStates /\ job \in [RegionJobs -> JobStates] /\ c \in RegionJobs
  BY TopicsFacts DEF RegionTypes
<1>2. job'[c] = [job[c] EXCEPT !.pc = "row", !.topic = created'] /\ OthersStay(c)
  BY <1>1 DEF CreateTopic, OthersStay
<1>3. job'[c] \in JobStates
  BY <1>1, <1>2 DEF JobStates, JobPcs, JobSteps, Creating
<1>4. job' \in [RegionJobs -> JobStates]
  BY <1>1, <1>2, <1>3 DEF CreateTopic
<1> QED
  BY <1>1, <1>2, <1>4 DEF JobStates

LEMMA SubscribeMoves ==
  ASSUME RegionTypes, CreationsInOrder, NEW c \in Creations, SubscribeEndpoint(c)
  PROVE  /\ job[c].topic \in Topics
         /\ Moved(c, "configure", job[c].next) /\ Moved(job[c].topic, "sent", job[job[c].topic].next)
         /\ \A k \in RegionJobs \ {c, job[c].topic} : job'[k] = job[k]
         /\ job' \in [RegionJobs -> JobStates]
<1>1. job \in [RegionJobs -> JobStates] /\ c \in RegionJobs
  BY TopicsFacts DEF RegionTypes
<1>2. job[c].topic \in Topics
  BY <1>1 DEF SubscribeEndpoint, CreationsInOrder, InOrder, Holding, JobStates
<1> DEFINE t == job[c].topic
<1>3. t \in RegionJobs /\ t # c
  BY <1>2, TopicsFacts
<1>4. job' = [job EXCEPT ![c].pc = "configure", ![t].pc = "sent"]
  BY DEF SubscribeEndpoint
<1> HIDE DEF t
<1>5. job[c] \in JobStates /\ job[t] \in JobStates
  BY <1>1, <1>3
<1>6. job'[c] = [job[c] EXCEPT !.pc = "configure"] /\ job'[t] = [job[t] EXCEPT !.pc = "sent"]
      /\ \A k \in RegionJobs \ {c, t} : job'[k] = job[k]
  BY <1>1, <1>3, <1>4
<1>7. job'[c] \in JobStates /\ job'[t] \in JobStates
  BY <1>5, <1>6 DEF JobStates, JobPcs, JobSteps, Creating
<1>8. job' \in [RegionJobs -> JobStates]
  BY <1>1, <1>3, <1>4, <1>7
<1> QED
  BY <1>2, <1>5, <1>6, <1>8 DEF Moved, JobStates, t

LEMMA ConfirmationMoves ==
  ASSUME RegionTypes, NEW t \in Topics, Confirmation(t)
  PROVE  /\ job'[t].at \in Processes
         /\ \/ job'[t].pc = "arrived" /\ job'[t].next = job[t].next
            \/ job'[t].pc = "reload" /\ job'[t].next = "arrived"
         /\ OthersStay(t) /\ job' \in [RegionJobs -> JobStates]
<1>1. job[t] \in JobStates /\ job \in [RegionJobs -> JobStates] /\ t \in RegionJobs
  BY TopicsFacts DEF RegionTypes
<1>2. PICK p \in Processes : job' = [job EXCEPT ![t] = First(p, "arrived", [@ EXCEPT !.at = p])]
  BY DEF Confirmation
<1>3. \/ job'[t] = [job[t] EXCEPT !.at = p, !.pc = "arrived"]
      \/ job'[t] = [job[t] EXCEPT !.at = p, !.pc = "reload", !.next = "arrived"]
  BY <1>1, <1>2 DEF First, JobStates
<1>4. job'[t] \in JobStates
  BY <1>1, <1>3, ZenonT(60) DEF JobStates, JobPcs, JobSteps
<1>5. job' \in [RegionJobs -> JobStates] /\ OthersStay(t)
  BY <1>1, <1>2, <1>4 DEF OthersStay
<1> QED
  BY <1>1, <1>3, <1>5 DEF JobStates

LEMMA RestartMoves ==
  ASSUME RegionTypes, NEW p \in Processes, Restart(p)
  PROVE  /\ \A c \in Creations :
              IF job[c].at = p /\ job[c].pc \notin Ended
                THEN /\ job'[c].pc = "dead" /\ job'[c].at = job[c].at
                     /\ job'[c].region = job[c].region /\ job'[c].topic = job[c].topic
                     /\ job[c].topic \in left' \cup {0}
                ELSE job'[c] = job[c]
         /\ \A t \in Topics :
              IF job[t].at = p /\ job[t].pc \notin Ended \cup {"sent"}
                THEN /\ job'[t].pc = (IF job[t].next = "done" THEN "done" ELSE "sent")
                     /\ job'[t].next = "none"
                ELSE job'[t] = job[t]
         /\ job' \in [RegionJobs -> JobStates] /\ left \subseteq left' /\ left' \subseteq Topics
<1> DEFINE cut == { c \in Creations : job[c].at = p /\ job[c].pc \notin Ended }
           cutoff(t) == job[t].at = p /\ job[t].pc \notin Ended \cup {"sent"}
           dead(j) == [job[j] EXCEPT !.pc = "dead", !.next = "none", !.seen = NothingKnown]
           again(j) == [NoJob EXCEPT !.pc = IF job[j].next = "done" THEN "done" ELSE "sent"]
<1>1. /\ job \in [RegionJobs -> JobStates] /\ NothingKnown \in Copies
      /\ RegionJobs = Creations \cup Topics /\ Creations \cap Topics = {}
  BY TopicsFacts DEF RegionTypes, NothingKnown, Copies, RegionJobs
<1>2. job' = [j \in RegionJobs |->
        CASE j \in cut -> dead(j)
          [] j \in Topics /\ job[j].at = p /\ job[j].pc \notin Ended \cup {"sent"} -> again(j)
          [] OTHER -> job[j]]
  BY ZenonT(60) DEF Restart
<1>3. left' = left \cup ({ job[c].topic : c \in cut } \ {0})
  BY ZenonT(60) DEF Restart
<1>4. ASSUME NEW j \in RegionJobs
      PROVE  /\ dead(j) \in JobStates /\ dead(j).pc = "dead" /\ dead(j).at = job[j].at
             /\ dead(j).region = job[j].region /\ dead(j).topic = job[j].topic
             /\ again(j) \in JobStates /\ again(j).next = "none"
             /\ again(j).pc = (IF job[j].next = "done" THEN "done" ELSE "sent")
  <2>1. job[j] \in JobStates
    BY <1>1
  <2>2. /\ dead(j) \in JobStates /\ dead(j).pc = "dead" /\ dead(j).at = job[j].at
        /\ dead(j).region = job[j].region /\ dead(j).topic = job[j].topic
    BY <1>1, <2>1 DEF JobStates, JobPcs, JobSteps, Ended
  <2>3. NoJob \in JobStates /\ NoJob.next = "none"
    BY <1>1 DEF NoJob, JobStates, JobPcs, JobSteps, Ended
  <2>4. ASSUME NEW q \in {"done", "sent"}
        PROVE  /\ [NoJob EXCEPT !.pc = q] \in JobStates /\ [NoJob EXCEPT !.pc = q].next = "none"
               /\ [NoJob EXCEPT !.pc = q].pc = q
    BY <2>3 DEF JobStates, JobPcs, JobSteps, Ended
  <2> QED
    BY <2>2, <2>4
<1> HIDE DEF dead, again
<1>5. ASSUME NEW c \in Creations
      PROVE  job'[c] = IF job[c].at = p /\ job[c].pc \notin Ended THEN dead(c) ELSE job[c]
  BY <1>1, <1>2
<1>6. ASSUME NEW t \in Topics
      PROVE  job'[t] = IF cutoff(t) THEN again(t) ELSE job[t]
  BY <1>1, <1>2
<1>7. job' \in [RegionJobs -> JobStates]
  <2>1. \A j \in RegionJobs : job'[j] \in JobStates
    BY <1>1, <1>4, <1>5, <1>6
  <2> QED
    BY <1>2, <2>1
<1>8. \A c \in cut : job[c].topic \in left' \cup {0}
  BY <1>3
<1>9. left' \subseteq Topics
  BY <1>1, <1>3 DEF JobStates, RegionTypes
<1> QED
  BY <1>1, <1>3, <1>4, <1>5, <1>6, <1>7, <1>8, <1>9

(***************************************************************************)
(* A topic is made only while there is a creation without one.             *)
(***************************************************************************)
LEMMA TopicIsNew ==
  ASSUME RegionTypes, TopicsAreOwn, CreationsInOrder, NEW c \in Creations, CreateTopic(c)
  PROVE  /\ created' = created + 1 /\ created' \in Topics
         /\ job[c].topic = 0
         /\ \A d \in Creations : job[d].topic # created'
         /\ created' = Cardinality({ d \in Creations : job'[d].topic # 0 })
<1> DEFINE With == { d \in Creations : job[d].topic # 0 }
           WithThen == { d \in Creations : job'[d].topic # 0 }
<1>1. job[c].topic = 0 /\ created' = created + 1
  BY DEF CreateTopic, CreationsInOrder, InOrder, Early
<1>2. IsFiniteSet(Creations) /\ Cardinality(Creations) \in Nat
  BY CreationsAssumption, TopicsFacts
<1>3. IsFiniteSet(With) /\ Cardinality(With) <= Cardinality(Creations)
  BY <1>2, FS_Subset
<1>4. With # Creations /\ With \subseteq Creations
  BY <1>1
<1>5. Cardinality(With) < Cardinality(Creations)
  BY <1>2, <1>4, FS_Subset, FS_CardinalityType
<1>6. created = Cardinality(With) /\ created \in Nat
  BY <1>3, FS_CardinalityType DEF TopicsAreOwn
<1>7. created' \in Topics /\ created' # 0
  BY <1>1, <1>2, <1>5, <1>6 DEF Topics
<1>8. WithThen = With \cup {c}
  BY <1>1, <1>7, TopicMoves, TopicsFacts, ZenonT(60) DEF OthersStay
<1>9. Cardinality(WithThen) = Cardinality(With) + 1
  BY <1>1, <1>3, <1>8, FS_AddElement, ZenonT(60)
<1>10. \A d \in Creations : job[d].topic # created'
  <2>0. \A d \in Creations : job[d] \in JobStates
    BY TopicsFacts DEF RegionTypes
  <2>a. \A d \in Creations : job[d].topic \in Nat
    <3>1. \A d \in Creations : job[d].topic \in Topics \cup {0}
      BY <2>0 DEF JobStates
    <3>2. Topics \cup {0} \subseteq Nat
      BY TopicsFacts
    <3> QED
      BY <3>1, <3>2
  <2>b. \A d \in Creations : job[d].topic <= created
    BY DEF TopicsAreOwn
  <2>1. \A d \in Creations : job[d].topic <= created /\ job[d].topic \in Nat
    BY <2>a, <2>b
  <2> QED
    BY <1>1, <1>6, <2>1
<1> QED
  BY <1>1, <1>6, <1>7, <1>9, <1>10

(***************************************************************************)
(* The types.                                                              *)
(***************************************************************************)
LEMMA JobTypesNext ==
  ASSUME RegionInv, RegionNext
  PROVE  job' \in [RegionJobs -> JobStates]
<1>1. RegionTypes /\ CreationsInOrder /\ TopicsAreOwn
  BY RegionTypesAre DEF RegionInv
<1>2. ASSUME NEW c \in Creations, Create(c) \/ CreateFails(c)
      PROVE  job' \in [RegionJobs -> JobStates]
  <2>1. c \in RegionJobs
    BY TopicsFacts
  <2>2. {"refused", "dropTopic", "dropSetting", "failed", "subscribe", "done", "row"} \subseteq JobSteps
        /\ JobSteps \subseteq JobPcs
    BY DEF JobSteps, JobPcs, Creating, CleaningUp, Ended
  <2> HIDE DEF JobSteps, JobPcs
  <2>a. AfterTopic(c) => job' \in [RegionJobs -> JobStates]
    BY <1>1, <2>1, <2>2, GoesMoves, ReloadingMoves DEF AfterTopic
  <2>3. CASE CreateSesSetting(c)
    BY <1>1, <2>3, BeginMoves
  <2>4. CASE CreateTopic(c)
    BY <1>1, <2>4, TopicMoves, TopicIsNew
  <2>5. CASE SubscribeEndpoint(c)
    BY <1>1, <2>5, SubscribeMoves
  <2>6. CASE RefuseRegion(c) \/ CreateRow(c) \/ RegisterConfigurationSet(c) \/ DropSetting(c)
    BY <1>1, <2>1, <2>2, <2>6, GoesMoves, ReloadingMoves
       DEF RefuseRegion, CreateRow, RegisterConfigurationSet, DropSetting
  <2>7. CASE DropTopic(c) \/ DropTopicFails(c)
    BY <2>7, <2>a DEF DropTopic, DropTopicFails
  <2>8. CASE CallFails(c) \/ CleanUpFails(c)
    BY <1>1, <2>1, <2>2, <2>8, GoesMoves, ReloadingMoves DEF CallFails, CleanUpFails
  <2> QED
    BY <1>2, <2>3, <2>4, <2>5, <2>6, <2>7, <2>8 DEF Create, CreateFails
<1>3. ASSUME NEW t \in Topics, Confirm(t) \/ ConfirmationFails(t)
      PROVE  job' \in [RegionJobs -> JobStates]
  <2>1. t \in RegionJobs
    BY TopicsFacts
  <2>2. {"refused", "confirm", "sent"} \subseteq JobPcs /\ "done" \in JobSteps
    BY DEF JobSteps, JobPcs, Ended
  <2>3. CASE Confirmation(t)
    BY <1>1, <2>3, ConfirmationMoves
  <2>4. CASE CheckEventValidity(t) \/ ConfirmSubscription(t) \/ ConfirmationFails(t)
    BY <1>1, <2>1, <2>2, <2>4, GoesMoves, ReloadingMoves
       DEF CheckEventValidity, ConfirmSubscription, ConfirmationFails
  <2> QED
    BY <1>3, <2>3, <2>4 DEF Confirm
<1>4. ASSUME NEW j \in RegionJobs, ReadRows(j) \/ AssignRows(j)
      PROVE  job' \in [RegionJobs -> JobStates]
  BY <1>1, <1>4, ReadMoves, AssignMoves
<1>5. ASSUME NEW p \in Processes, Restart(p)
      PROVE  job' \in [RegionJobs -> JobStates]
  BY <1>1, <1>5, RestartMoves
<1> QED
  BY <1>2, <1>3, <1>4, <1>5 DEF RegionNext

LEMMA RegionTypesNext ==
  ASSUME RegionInv, RegionNext
  PROVE  RegionTypeOK'
<1>1. RegionTypes /\ CreationsInOrder /\ TopicsAreOwn /\ TroublesAssumption
  BY RegionTypesAre, TroublesAssumption DEF RegionInv
<1>2. job' \in [RegionJobs -> JobStates]
  BY JobTypesNext
<1>3. /\ NoSetting \in Settings
      /\ \A t \in Topics \cup {0} : NewSetting(t) \in Settings
      /\ \A s \in Settings : [s EXCEPT !.configured = TRUE] \in Settings
                             /\ [s EXCEPT !.confirmed = TRUE] \in Settings
  BY DEF NoSetting, NewSetting, Settings
<1> DEFINE Rest ==
      /\ setting' \in [SesRegionNames -> Settings]
      /\ topics' \subseteq Topics /\ created' \in 0 .. Cardinality(Creations)
      /\ known' \in [Processes -> Copies]
      /\ loaded' \in [Processes -> BOOLEAN] /\ queues' \in [Processes -> SUBSET SesRegionNames]
      /\ troubles' \in 0 .. MaxTroubles
      /\ crossed' \subseteq Processes /\ missed' \subseteq Topics /\ left' \subseteq Topics
<1>4. /\ setting \in [SesRegionNames -> Settings]
      /\ topics \subseteq Topics /\ created \in 0 .. Cardinality(Creations)
      /\ known \in [Processes -> Copies]
      /\ loaded \in [Processes -> BOOLEAN] /\ queues \in [Processes -> SUBSET SesRegionNames]
      /\ troubles \in 0 .. MaxTroubles
      /\ crossed \subseteq Processes /\ missed \subseteq Topics /\ left \subseteq Topics
      /\ \A j \in RegionJobs : job[j] \in JobStates
      /\ \A c \in Creations : InOrder(c) /\ c \in RegionJobs
  BY <1>1, TopicsFacts DEF RegionTypes, CreationsInOrder
<1>5. Trouble => troubles' \in 0 .. MaxTroubles
  BY <1>4, TroublesAssumption DEF Trouble
<1>6. ASSUME NEW c \in Creations, Create(c) \/ CreateFails(c) PROVE Rest
  <2>0. job[c] \in JobStates /\ InOrder(c) /\ job[c].topic \in Topics \cup {0}
    BY <1>4 DEF JobStates
  <2>1. CASE CreateSesSetting(c) \/ RefuseRegion(c) \/ SubscribeEndpoint(c)
    BY <1>4, <2>1, ZenonT(60) DEF CreateSesSetting, RefuseRegion, SubscribeEndpoint
  <2>2. CASE CreateTopic(c)
    <3>1. created' \in Topics
      BY <1>1, <2>2, TopicIsNew
    <3>2. created' \in 0 .. Cardinality(Creations) /\ topics' \subseteq Topics
      BY <1>4, <2>2, <3>1, TopicsFacts DEF CreateTopic, Topics
    <3> QED
      BY <1>4, <2>2, <3>2 DEF CreateTopic
  <2>3. CASE CreateRow(c)
    <3>1. setting' \in [SesRegionNames -> Settings]
      BY <1>3, <1>4, <2>0, <2>3 DEF CreateRow
    <3> QED
      BY <1>4, <2>3, <3>1 DEF CreateRow
  <2>4. CASE RegisterConfigurationSet(c)
    <3>1. job[c].at \in Processes /\ job[c].region \in SesRegionNames
      BY <2>0, <2>4 DEF RegisterConfigurationSet, InOrder
    <3>2. setting' \in [SesRegionNames -> Settings] /\ queues' \in [Processes -> SUBSET SesRegionNames]
      BY <1>3, <1>4, <2>4, <3>1 DEF RegisterConfigurationSet
    <3> QED
      BY <1>4, <2>4, <3>2 DEF RegisterConfigurationSet
  <2>5. CASE DropTopic(c)
    BY <1>4, <2>5 DEF DropTopic
  <2>6. CASE DropSetting(c)
    <3>1. setting' \in [SesRegionNames -> Settings]
      BY <1>3, <1>4, <2>6 DEF DropSetting
    <3> QED
      BY <1>4, <2>6, <3>1 DEF DropSetting
  <2>7. CASE CallFails(c)
    BY <1>4, <1>5, <2>7 DEF CallFails
  <2>8. CASE DropTopicFails(c)
    <3>1. left' \subseteq Topics
      BY <1>4, <2>0, <2>8 DEF DropTopicFails, InOrder
    <3> QED
      BY <1>4, <1>5, <2>8, <3>1 DEF DropTopicFails
  <2>9. CASE CleanUpFails(c)
    <3>1. left' \subseteq Topics
      BY <1>4, <2>0, <2>9 DEF CleanUpFails
    <3> QED
      BY <1>4, <1>5, <2>9, <3>1 DEF CleanUpFails
  <2> QED
    BY <1>6, <2>1, <2>2, <2>3, <2>4, <2>5, <2>6, <2>7, <2>8, <2>9 DEF Create, CreateFails
<1>7. ASSUME NEW t \in Topics, Confirm(t) \/ ConfirmationFails(t) PROVE Rest
  <2>1. CASE Confirmation(t)
    BY <1>4, <2>1 DEF Confirmation
  <2>2. CASE CheckEventValidity(t)
    BY <1>4, <2>2 DEF CheckEventValidity
  <2>3. CASE ConfirmSubscription(t)
    <3>1. setting' \in [SesRegionNames -> Settings]
      BY <1>3, <1>4, <2>3, ZenonT(60) DEF ConfirmSubscription
    <3> QED
      BY <1>4, <2>3, <3>1 DEF ConfirmSubscription
  <2>4. CASE ConfirmationFails(t)
    BY <1>4, <1>5, <2>4 DEF ConfirmationFails
  <2> QED
    BY <1>7, <2>1, <2>2, <2>3, <2>4 DEF Confirm
<1>8. ASSUME NEW j \in RegionJobs, ReadRows(j) \/ AssignRows(j) PROVE Rest
  <2>0. job[j] \in JobStates
    BY <1>4
  <2>1. CASE ReadRows(j)
    <3>1. job[j].at \in Processes
      BY <1>1, <2>1 DEF ReadRows, RegionInv, CreationsInOrder, ConfirmationsInOrder, InOrder,
         ConfirmsInOrder, RegionJobs
    <3> QED
      BY <1>4, <2>1, <3>1 DEF ReadRows
  <2>2. CASE AssignRows(j)
    <3>1. known' \in [Processes -> Copies] /\ loaded' \in [Processes -> BOOLEAN]
      BY <1>4, <2>0, <2>2 DEF AssignRows, JobStates
    <3> QED
      BY <1>4, <2>2, <3>1 DEF AssignRows
  <2> QED
    BY <1>8, <2>1, <2>2
<1>9. ASSUME NEW p \in Processes, Restart(p) PROVE Rest
  <2>1. left' \subseteq Topics
    BY <1>1, <1>9, RestartMoves
  <2>2. NothingKnown \in Copies
    BY DEF NothingKnown, Copies
  <2>3. known' \in [Processes -> Copies] /\ loaded' \in [Processes -> BOOLEAN]
        /\ queues' \in [Processes -> SUBSET SesRegionNames]
    BY <1>4, <1>9, <2>2, ZenonT(60) DEF Restart
  <2> QED
    BY <1>4, <1>5, <1>9, <2>1, <2>3, ZenonT(60) DEF Restart
<1>10. Rest
  BY <1>6, <1>7, <1>8, <1>9 DEF RegionNext
<1> QED
  BY <1>2, <1>10 DEF RegionTypeOK, Settings, Copies, JobStates, JobPcs

(***************************************************************************)
(* Facts the invariant is used by.                                         *)
(***************************************************************************)
LEMMA InvFacts ==
  ASSUME RegionInv
  PROVE  /\ RegionTypes
         /\ \A j \in RegionJobs : job[j] \in JobStates
         /\ \A c \in Creations : /\ c \in RegionJobs /\ c \notin Topics
                                 /\ InOrder(c) /\ Owns(c) /\ SawOwn(c) /\ SeenByAll(c)
                                 /\ Asked(c) /\ Knows(c)
                                 /\ job[c].topic \in Topics \cup {0}
         /\ \A t \in Topics : t \in RegionJobs /\ t \notin Creations /\ t # 0
                              /\ ConfirmsInOrder(t) /\ Answered(t)
         /\ \A r \in SesRegionNames : SettingIsOwn(r) /\ RowHasTopic(r) /\ setting[r] \in Settings
         /\ \A t \in topics : TopicHasRow(t) /\ t \in Topics
         /\ \A c, d \in Creations : job[c].topic = job[d].topic /\ job[c].topic # 0 => c = d
         /\ LoadsAlone
<1>1. RegionTypes
  BY RegionTypesAre DEF RegionInv
<1>2. \A j \in RegionJobs : job[j] \in JobStates
  BY <1>1 DEF RegionTypes
<1>3. \A c \in Creations : /\ c \in RegionJobs /\ c \notin Topics
                           /\ job[c].topic \in Topics \cup {0}
  BY <1>2, TopicsFacts DEF JobStates
<1>4. \A c \in Creations : /\ InOrder(c) /\ Owns(c) /\ SawOwn(c) /\ SeenByAll(c)
                           /\ Asked(c) /\ Knows(c)
  BY DEF RegionInv, CreationsInOrder, HoldersOwn, LoadsInOrder, ConfirmationsKept,
     CreatorKnowsTopic, Knows
<1>5. \A t \in Topics : t \in RegionJobs /\ t \notin Creations /\ t # 0
                        /\ ConfirmsInOrder(t) /\ Answered(t)
  BY TopicsFacts DEF RegionInv, ConfirmationsInOrder, ConfirmationsKept
<1>6. \A r \in SesRegionNames : SettingIsOwn(r) /\ RowHasTopic(r) /\ setting[r] \in Settings
  BY <1>1 DEF RegionInv, SettingsAreOwn, TopicsHaveRows, RowHasTopic, RegionTypes
<1>7. \A t \in topics : TopicHasRow(t) /\ t \in Topics
  BY <1>1 DEF RegionInv, TopicsHaveRows, TopicHasRow, RegionTypes
<1>8. /\ \A c, d \in Creations : job[c].topic = job[d].topic /\ job[c].topic # 0 => c = d
      /\ LoadsAlone
  BY DEF RegionInv, TopicsAreOwn, LoadsInOrder
<1> QED
  BY <1>1, <1>2, <1>3, <1>4, <1>5, <1>6, <1>7, <1>8

\* The parts of the invariant, to be shown again after a step.
PartsThen ==
  /\ \A c \in Creations : InOrder(c)' /\ Owns(c)' /\ SawOwn(c)' /\ SeenByAll(c)'
                          /\ Asked(c)' /\ Knows(c)'
  /\ \A t \in Topics : ConfirmsInOrder(t)' /\ Answered(t)'
  /\ \A r \in SesRegionNames : SettingIsOwn(r)' /\ RowHasTopic(r)'
  /\ \A t \in topics' : TopicHasRow(t)'
  /\ TopicsAreOwn' /\ LoadsAlone'

LEMMA PartsMakeInv ==
  ASSUME RegionTypeOK', PartsThen
  PROVE  RegionInv'
BY DEF PartsThen, RegionInv, CreationsInOrder, ConfirmationsInOrder, SettingsAreOwn,
   HoldersOwn, LoadsInOrder, ConfirmationsKept, CreatorKnowsTopic, Knows, TopicsHaveRows,
   RowHasTopic, TopicHasRow, Topics, RegionTypeOK

\* A row is of the region of the creation whose topic it has.
LEMMA RowIsOfCreation ==
  ASSUME RegionInv, NEW c \in Creations, NEW r \in SesRegionNames,
         job[c].topic # 0, setting[r].topic = job[c].topic
  PROVE  r = job[c].region /\ Own(c)
BY InvFacts DEF SettingIsOwn, Own

(***************************************************************************)
(* A creation that refuses, fails or cleans up, the row apart.             *)
(***************************************************************************)
Quiet(c) ==
  /\ OthersStay(c) /\ job[c].pc # "none"
  /\ job'[c].topic = job[c].topic /\ job'[c].at = job[c].at /\ job'[c].region = job[c].region
  /\ UNCHANGED << setting, created, known, queues, crossed, missed >> /\ left \subseteq left'
  /\ \/ job'[c].pc \in {"refused", "dropTopic", "dropSetting", "failed"}
     \/ job'[c].pc = "reload" /\ job'[c].next = "failed"
  /\ job'[c].pc = "refused" => job[c].topic = 0
  /\ job'[c].pc \in {"dropTopic", "dropSetting"} => job[c].topic # 0
  /\ job'[c].pc = "dropSetting" =>
       Own(c) /\ (job[c].topic \notin topics' \/ job[c].topic \in left')
  /\ job[c].pc = "dropSetting" => job[c].topic \in left'
  /\ job[c].pc \in {"row", "dropTopic"} =>
       job[c].topic \in left' \/ job'[c].pc = "dropTopic" \/ job[c].topic \notin topics'
  /\ \/ topics' = topics
     \/ /\ topics' = topics \ {job[c].topic} /\ job[c].topic # 0
        /\ Own(c) => job'[c].pc = "dropSetting"

LEMMA QuietMove ==
  ASSUME RegionInv, NEW c \in Creations, Quiet(c)
  PROVE  PartsThen
<1> USE DEF Quiet
<1>1. \A d \in Creations \ {c} : job'[d] = job[d]
  BY InvFacts DEF OthersStay
<1>2. \A t \in Topics : job'[t] = job[t]
  BY InvFacts DEF OthersStay
<1>3. \A d \in Creations : job'[d].topic = job[d].topic /\ job'[d].region = job[d].region
                           /\ job'[d].at = job[d].at
  BY <1>1
<1>4. \A d \in Creations \ {c} : job[d].topic # 0 => job[d].topic # job[c].topic
  BY InvFacts
<1>5. topics' \subseteq topics
  OBVIOUS
<1>6. /\ ~Holding(c)' /\ ~Subscribed(c)' /\ ~Served(c)'
      /\ ~Early(c)' \/ job'[c].pc = "refused"
  BY DEF Holding, Subscribed, Served, Loading, Early
<1>7. \A d \in Creations : InOrder(d)'
  <2>1. InOrder(c)'
    BY <1>6, InvFacts DEF InOrder, Holding, Early, Loading
  <2>2. ASSUME NEW d \in Creations \ {c} PROVE InOrder(d)'
    BY <1>1, InvFacts DEF InOrder, Holding, Early, Loading
  <2> QED
    BY <2>1, <2>2
<1>8. \A d \in Creations : Owns(d)'
  <2>1. Owns(c)'
    BY DEF Owns, Own, Holding, Served, Loading
  <2>2. ASSUME NEW d \in Creations \ {c} PROVE Owns(d)'
    <3>1. Owns(d) /\ InOrder(d) /\ job'[d] = job[d]
      BY <1>1, InvFacts
    <3>2. job[d].pc = "row" => job[d].topic \in topics'
      BY <1>4, <3>1 DEF Owns, InOrder
    <3> QED
      BY <1>5, <3>1, <3>2 DEF Owns, Own, Holding, Served, Loading
  <2> QED
    BY <2>1, <2>2
<1>9. LoadsAlone' /\ \A d \in Creations : SawOwn(d)' /\ SeenByAll(d)'
  <2>1. \A j \in RegionJobs : job'[j].pc = "assign" => j # c /\ job'[j] = job[j]
    BY DEF OthersStay
  <2>2. LoadsAlone'
    BY <2>1, InvFacts DEF LoadsAlone, RegionJobs, Topics
  <2>3. ASSUME NEW d \in Creations PROVE SawOwn(d)' /\ SeenByAll(d)'
    <3>1. CASE d = c
      BY <3>1 DEF SawOwn, SeenByAll
    <3>2. CASE d # c
      <4>1. job'[d] = job[d] /\ SawOwn(d) /\ SeenByAll(d)
        BY <1>1, <3>2, InvFacts
      <4> QED
        BY <2>1, <4>1 DEF SawOwn, SeenByAll, RegionJobs, Topics
    <3> QED
      BY <3>1, <3>2
  <2> QED
    BY <2>2, <2>3
<1>10. \A d \in Creations : Asked(d)' /\ Knows(d)'
  <2>1. Asked(c)' /\ Knows(c)'
    BY DEF Asked, Knows, Subscribed, Loading
  <2>2. ASSUME NEW d \in Creations \ {c} PROVE Asked(d)' /\ Knows(d)'
    <3>1. job'[d] = job[d] /\ Asked(d) /\ Knows(d)
      BY <1>1, InvFacts
    <3>2. job[d].topic # 0 => job'[job[d].topic] = job[job[d].topic]
      BY <1>2, InvFacts
    <3>3. job[d].topic = 0 => ~(Subscribed(d) \/ job[d].pc \in {"row", "subscribe"} \/ Loading(d, "subscribe"))
      BY InvFacts DEF InOrder, Subscribed, Holding
    <3>4. Asked(d)'
      <4>1. CASE job[d].topic = 0
        BY <3>1, <3>3, <4>1 DEF Asked, Subscribed, Loading
      <4>2. CASE job[d].topic # 0
        BY <3>1, <3>2, <4>2 DEF Asked, Subscribed, Loading
      <4> QED
        BY <4>1, <4>2
    <3> QED
      BY <3>1, <3>4 DEF Knows
  <2> QED
    BY <2>1, <2>2
<1>11. \A t \in Topics : ConfirmsInOrder(t)' /\ Answered(t)'
  BY <1>2, InvFacts DEF ConfirmsInOrder, Answered, Loading
<1>12. \A r \in SesRegionNames : SettingIsOwn(r)'
  BY <1>3, InvFacts DEF SettingIsOwn
<1>13. \A r \in SesRegionNames : RowHasTopic(r)'
  <2> SUFFICES ASSUME NEW r \in SesRegionNames, setting[r] # NoSetting
              PROVE  \/ setting[r].topic \in topics' \cup left'
                     \/ \E d \in Creations :
                          job'[d].topic = setting[r].topic /\ job'[d].pc = "dropSetting"
    BY DEF RowHasTopic
  <2>1. setting[r].topic # 0 /\ RowHasTopic(r)
    BY InvFacts DEF SettingIsOwn
  <2>2. CASE setting[r].topic = job[c].topic
    <3>1. Own(c)
      BY <2>1, <2>2, RowIsOfCreation
    <3>2. setting[r].topic \in topics \cup left \/ job[c].pc = "dropSetting"
      BY <2>1, <2>2, InvFacts DEF RowHasTopic
    <3> QED
      BY <2>2, <3>1, <3>2
  <2>3. CASE setting[r].topic # job[c].topic
    <3>1. \/ setting[r].topic \in topics \cup left
          \/ \E d \in Creations \ {c} :
               job[d].topic = setting[r].topic /\ job[d].pc = "dropSetting"
      BY <2>1, <2>3 DEF RowHasTopic
    <3>2. setting[r].topic \in topics => setting[r].topic \in topics'
      BY <2>3
    <3> QED
      BY <1>1, <3>1, <3>2
  <2> QED
    BY <2>2, <2>3
<1>14. \A t \in topics' : TopicHasRow(t)'
  <2> SUFFICES ASSUME NEW t \in topics'
              PROVE  \/ t \in left' \/ \E r \in SesRegionNames : setting[r].topic = t
                     \/ \E d \in Creations : job'[d].topic = t /\ job'[d].pc \in {"row", "dropTopic"}
    BY DEF TopicHasRow
  <2>1. TopicHasRow(t)
    BY <1>5, InvFacts
  <2>2. CASE \E d \in Creations \ {c} : job[d].topic = t /\ job[d].pc \in {"row", "dropTopic"}
    BY <1>1, <2>2
  <2>3. CASE job[c].topic = t /\ job[c].pc \in {"row", "dropTopic"}
    BY <2>3
  <2> QED
    BY <2>1, <2>2, <2>3 DEF TopicHasRow
<1>15. TopicsAreOwn'
  <2>1. TopicsAreOwn
    BY DEF RegionInv
  <2>2. { d \in Creations : job'[d].topic # 0 } = { d \in Creations : job[d].topic # 0 }
    BY <1>3
  <2> QED
    BY <1>2, <1>3, <1>5, <2>1, <2>2, ZenonT(60) DEF TopicsAreOwn, Topics
<1> QED
  BY <1>7, <1>8, <1>9, <1>10, <1>11, <1>12, <1>13, <1>14, <1>15 DEF PartsThen

LEMMA QuietKeeps ==
  ASSUME RegionInv, NEW c \in Creations,
         \/ RefuseRegion(c) \/ CallFails(c) \/ DropTopic(c) \/ DropTopicFails(c)
         \/ CleanUpFails(c)
         \/ CreateRow(c) /\ setting[job[c].region] # NoSetting
  PROVE  PartsThen
<1>1. /\ RegionTypes /\ c \in RegionJobs /\ InOrder(c) /\ Owns(c)
      /\ job[c].topic \in Topics \cup {0}
  BY InvFacts
<1>2. /\ {"refused", "dropTopic", "dropSetting", "failed"} \subseteq JobPcs
      /\ "failed" \in JobSteps
  BY DEF JobSteps, JobPcs, Creating, CleaningUp, Ended
<1>g. ASSUME NEW q \in {"refused", "dropTopic", "dropSetting", "failed"}, Goes(c, q)
      PROVE  Moved(c, q, job[c].next) /\ OthersStay(c)
  BY <1>1, <1>2, <1>g, GoesMoves
<1>r. ASSUME Reloading(c, "failed")
      PROVE  Moved(c, "reload", "failed") /\ OthersStay(c)
  BY <1>1, <1>2, <1>r, ReloadingMoves
<1>a. ASSUME AfterTopic(c)
      PROVE  /\ OthersStay(c) /\ job'[c].topic = job[c].topic /\ job'[c].at = job[c].at
             /\ job'[c].region = job[c].region
             /\ \/ Own(c) /\ job'[c].pc = "dropSetting"
                \/ ~Own(c) /\ job'[c].pc = "reload" /\ job'[c].next = "failed"
  BY <1>a, <1>g, <1>r DEF AfterTopic, Moved
<1>3. CASE RefuseRegion(c)
  <2>1. Moved(c, "refused", job[c].next) /\ OthersStay(c) /\ job[c].pc = "topic"
    BY <1>3, <1>g DEF RefuseRegion
  <2>2. job[c].topic = 0
    BY <1>1, <2>1 DEF InOrder, Early
  <2>9. Quiet(c)
    BY <1>3, <2>1, <2>2 DEF RefuseRegion, Moved, Quiet
  <2> QED
    BY <2>9, QuietMove
<1>4. CASE CallFails(c)
  <2>1. CASE job[c].topic = 0
    <3>1. Moved(c, "reload", "failed") /\ OthersStay(c)
      BY <1>4, <1>r, <2>1 DEF CallFails
    <3>2. job[c].pc = "topic"
      BY <1>1, <1>4, <2>1 DEF CallFails, InOrder, Holding, Loading
    <3>9. Quiet(c)
      BY <1>4, <3>1, <3>2 DEF CallFails, Moved, Quiet
    <3> QED
      BY <3>9, QuietMove
  <2>2. CASE job[c].topic # 0
    <3>1. Moved(c, "dropTopic", job[c].next) /\ OthersStay(c)
      BY <1>4, <1>g, <2>2 DEF CallFails
    <3>2. job[c].pc \notin {"none", "dropTopic", "dropSetting"}
      BY <1>4 DEF CallFails
    <3>9. Quiet(c)
      BY <1>4, <2>2, <3>1, <3>2 DEF CallFails, Moved, Quiet
    <3> QED
      BY <3>9, QuietMove
  <2> QED
    BY <2>1, <2>2
<1>5. CASE DropTopic(c)
  <2>1. job[c].pc = "dropTopic" /\ job[c].topic # 0
    BY <1>1, <1>5 DEF DropTopic, InOrder
  <2>9. Quiet(c)
    BY <1>5, <1>a, <2>1 DEF DropTopic, Quiet
  <2> QED
    BY <2>9, QuietMove
<1>6. CASE DropTopicFails(c)
  <2>1. job[c].pc = "dropTopic" /\ job[c].topic # 0
    BY <1>1, <1>6 DEF DropTopicFails, InOrder
  <2>9. Quiet(c)
    BY <1>6, <1>a, <2>1 DEF DropTopicFails, Quiet
  <2> QED
    BY <2>9, QuietMove
<1>7. CASE CleanUpFails(c)
  <2>1. Moved(c, "failed", job[c].next) /\ OthersStay(c)
    BY <1>7, <1>g DEF CleanUpFails
  <2>2. job[c].pc = "dropSetting" => job[c].topic \in left'
    BY <1>1, <1>7 DEF CleanUpFails, InOrder
  <2>3. job[c].pc \in {"dropSetting", "reload"}
    BY <1>7 DEF CleanUpFails
  <2>9. Quiet(c)
    BY <1>7, <2>1, <2>2, <2>3 DEF CleanUpFails, Moved, Quiet
  <2> QED
    BY <2>9, QuietMove
<1>8. CASE CreateRow(c) /\ setting[job[c].region] # NoSetting
  <2>1. Moved(c, "dropTopic", job[c].next) /\ OthersStay(c)
    BY <1>8, <1>g DEF CreateRow
  <2>2. job[c].pc = "row" /\ job[c].topic # 0
    BY <1>1, <1>8 DEF CreateRow, InOrder
  <2>9. Quiet(c)
    BY <1>8, <2>1, <2>2 DEF CreateRow, Moved, Quiet
  <2> QED
    BY <2>9, QuietMove
<1> QED
  BY <1>3, <1>4, <1>5, <1>6, <1>7, <1>8

(***************************************************************************)
(* A creation begins, and makes its topic.                                 *)
(***************************************************************************)
LEMMA BeginKeeps ==
  ASSUME RegionInv, NEW c \in Creations, CreateSesSetting(c)
  PROVE  PartsThen
<1>0. RegionTypes
  BY InvFacts
<1>1. /\ job'[c].topic = 0 /\ job'[c].at \in Processes /\ job'[c].region \in SesRegionNames
      /\ \/ job'[c].pc = "topic" /\ job'[c].next = "none"
         \/ job'[c].pc = "reload" /\ job'[c].next = "topic"
      /\ OthersStay(c)
  BY <1>0, BeginMoves
<1>2. job[c].pc = "none" /\ job[c].topic = 0
      /\ UNCHANGED << setting, topics, created, known, queues, crossed, missed, left >>
  BY InvFacts DEF CreateSesSetting, InOrder, Early
<1>3. \A d \in Creations \ {c} : job'[d] = job[d]
  BY <1>1, InvFacts DEF OthersStay
<1>4. \A t \in Topics : job'[t] = job[t]
  BY <1>1, InvFacts DEF OthersStay
<1>5. \A d \in Creations : InOrder(d)' /\ Owns(d)'
  <2>1. InOrder(c)' /\ Owns(c)'
    BY <1>1 DEF InOrder, Owns, Own, Holding, Served, Early, Loading
  <2>2. ASSUME NEW d \in Creations \ {c} PROVE InOrder(d)' /\ Owns(d)'
    BY <1>2, <1>3, InvFacts DEF InOrder, Owns, Own, Holding, Served, Early, Loading
  <2> QED
    BY <2>1, <2>2
<1>6. LoadsAlone' /\ \A d \in Creations : SawOwn(d)' /\ SeenByAll(d)'
  <2>1. \A j \in RegionJobs : job'[j].pc = "assign" => j # c /\ job'[j] = job[j]
    BY <1>1 DEF OthersStay
  <2>2. LoadsAlone'
    BY <1>2, <2>1, InvFacts DEF LoadsAlone, RegionJobs, Topics
  <2>3. ASSUME NEW d \in Creations PROVE SawOwn(d)' /\ SeenByAll(d)'
    <3>1. CASE d = c
      BY <1>1, <3>1 DEF SawOwn, SeenByAll
    <3>2. CASE d # c
      <4>1. job'[d] = job[d] /\ SawOwn(d) /\ SeenByAll(d)
        BY <1>3, <3>2, InvFacts
      <4> QED
        BY <1>2, <2>1, <4>1 DEF SawOwn, SeenByAll, RegionJobs, Topics
    <3> QED
      BY <3>1, <3>2
  <2> QED
    BY <2>2, <2>3
<1>7. \A d \in Creations : Asked(d)' /\ Knows(d)'
  <2>1. Asked(c)' /\ Knows(c)'
    BY <1>1 DEF Asked, Knows, Subscribed, Loading
  <2>2. ASSUME NEW d \in Creations \ {c} PROVE Asked(d)' /\ Knows(d)'
    <3>1. job'[d] = job[d] /\ Asked(d) /\ Knows(d)
      BY <1>3, InvFacts
    <3>2. job[d].topic # 0 => job'[job[d].topic] = job[job[d].topic]
      BY <1>4, InvFacts
    <3>3. job[d].topic = 0 => ~(Subscribed(d) \/ job[d].pc \in {"row", "subscribe"} \/ Loading(d, "subscribe"))
      BY InvFacts DEF InOrder, Subscribed, Holding
    <3>4. Asked(d)'
      BY <3>1, <3>2, <3>3 DEF Asked, Subscribed, Loading
    <3> QED
      BY <1>2, <3>1, <3>4 DEF Knows
  <2> QED
    BY <2>1, <2>2
<1>8. \A t \in Topics : ConfirmsInOrder(t)' /\ Answered(t)'
  BY <1>2, <1>4, InvFacts DEF ConfirmsInOrder, Answered, Loading
<1>9. \A r \in SesRegionNames : SettingIsOwn(r)' /\ RowHasTopic(r)'
  BY <1>1, <1>2, <1>3, InvFacts DEF SettingIsOwn, RowHasTopic
<1>10. \A t \in topics' : TopicHasRow(t)'
  BY <1>1, <1>2, <1>3, InvFacts DEF TopicHasRow
<1>11. TopicsAreOwn'
  <2>1. { d \in Creations : job'[d].topic # 0 } = { d \in Creations : job[d].topic # 0 }
    BY <1>1, <1>2, <1>3
  <2> QED
    BY <1>1, <1>2, <1>3, <1>4, <2>1, ZenonT(60) DEF RegionInv, TopicsAreOwn, Topics
<1> QED
  BY <1>5, <1>6, <1>7, <1>8, <1>9, <1>10, <1>11 DEF PartsThen

\* The other creations, where the row and the queues of none of them change,
\* nor any reload is begun or ended.
LEMMA OthersKeep ==
  ASSUME RegionInv, NEW c \in Creations, NEW d \in Creations \ {c}, OthersStay(c),
         job'[c].pc # "assign", crossed' = crossed, known' = known,
         topics \subseteq topics', left \subseteq left',
         \A r \in SesRegionNames : setting[r].configured => setting'[r].configured \/ r = job[c].region,
         \A r \in SesRegionNames : setting'[r].topic = setting[r].topic \/ r = job[c].region,
         setting[job[c].region].topic \notin {0, job[c].topic}
           => setting'[job[c].region] = setting[job[c].region],
         \A p \in Processes : queues[p] \subseteq queues'[p],
         topics' \subseteq topics \cup {created + 1}, created = created' \/ created' = created + 1
  PROVE  /\ job'[d] = job[d] /\ InOrder(d)' /\ Owns(d)' /\ SawOwn(d)' /\ SeenByAll(d)'
         /\ Asked(d)' /\ Knows(d)'
<1>1. job'[d] = job[d]
  BY InvFacts DEF OthersStay
<1>2. \A t \in Topics : job'[t] = job[t]
  BY InvFacts DEF OthersStay
<1>3. InOrder(d) /\ Owns(d) /\ SawOwn(d) /\ SeenByAll(d) /\ Asked(d) /\ Knows(d)
      /\ job[d].topic \in Topics \cup {0}
      /\ (job[d].topic # 0 => job[d].topic # job[c].topic)
  BY InvFacts
<1>4. InOrder(d)'
  BY <1>1, <1>3 DEF InOrder, Holding, Early, Loading
<1>5. Own(d) /\ job[d].topic # 0 /\ job[d].region \in SesRegionNames => Own(d)'
  BY <1>1, <1>3 DEF Own
<1>6. job[d].pc # "none" => job[d].region \in SesRegionNames /\ job[d].at \in Processes
  BY <1>3 DEF InOrder
<1>7. Owns(d)'
  <2>1. /\ Holding(d)' = Holding(d) /\ Served(d)' = Served(d)
        /\ (Holding(d) => job[d].pc # "none") /\ (Served(d) => Holding(d))
    BY <1>1 DEF Holding, Served, Loading
  <2>2. Holding(d) \/ job[d].pc = "dropSetting" => Own(d)'
    BY <1>3, <1>5, <1>6, <2>1 DEF Owns, InOrder
  <2>3. ASSUME Served(d)
        PROVE  setting'[job[d].region].configured /\ job[d].region \in queues'[job[d].at]
    <3>1. /\ Own(d) /\ job[d].topic # 0 /\ job[d].region \in SesRegionNames
          /\ job[d].at \in Processes
          /\ setting[job[d].region].configured /\ job[d].region \in queues[job[d].at]
      BY <1>3, <1>6, <2>1, <2>3 DEF Owns, InOrder
    <3>2. CASE job[d].region = job[c].region
      BY <1>3, <3>1, <3>2 DEF Own
    <3> QED
      BY <3>1, <3>2
  <2>4. ASSUME job[d].pc = "row" PROVE job[d].topic \in topics'
    BY <1>3, <2>4 DEF Owns
  <2>5. ASSUME job[d].pc = "dropSetting" PROVE job[d].topic \notin topics' \/ job[d].topic \in left'
    <3>a. Topics \cup {0} \subseteq Nat /\ created \in Nat
      BY TopicsFacts DEF RegionInv, RegionTypeOK
    <3>1. job[d].topic <= created /\ job[d].topic \in Nat
      BY <1>3, <3>a DEF RegionInv, TopicsAreOwn
    <3>2. job[d].topic # created + 1
      BY <3>1, <3>a
    <3> QED
      BY <1>3, <2>5, <3>2 DEF Owns
  <2> QED
    BY <1>1, <2>1, <2>2, <2>3, <2>4, <2>5 DEF Owns
<1>8. SawOwn(d)' /\ SeenByAll(d)'
  <2>1. \A j \in RegionJobs : job'[j].pc = "assign" => j # c /\ job'[j] = job[j]
    BY DEF OthersStay
  <2> QED
    BY <1>1, <1>3, <2>1 DEF SawOwn, SeenByAll, RegionJobs, Topics
<1>9. Asked(d)' /\ Knows(d)'
  <2>1. job[d].topic # 0 => job'[job[d].topic] = job[job[d].topic]
    BY <1>2, <1>3
  <2>2. job[d].topic = 0 => ~(Subscribed(d) \/ job[d].pc \in {"row", "subscribe"} \/ Loading(d, "subscribe"))
    BY <1>3 DEF InOrder, Subscribed, Holding
  <2>3. Asked(d)'
    BY <1>1, <1>3, <2>1, <2>2 DEF Asked, Subscribed, Loading
  <2> QED
    BY <1>1, <1>3, <2>3 DEF Knows
<1> QED
  BY <1>1, <1>4, <1>7, <1>8, <1>9

LEMMA LoadsKeep ==
  ASSUME RegionInv, NEW c \in RegionJobs, OthersStay(c), job'[c].pc # "assign", crossed' = crossed
  PROVE  LoadsAlone'
<1>1. \A j \in RegionJobs : job'[j].pc = "assign" => j # c /\ job'[j] = job[j]
  BY DEF OthersStay
<1> QED
  BY <1>1, InvFacts DEF LoadsAlone, RegionJobs, Topics

LEMMA TopicKeeps ==
  ASSUME RegionInv, NEW c \in Creations, CreateTopic(c)
  PROVE  PartsThen
<1>0. /\ RegionTypes /\ TopicsAreOwn /\ CreationsInOrder /\ c \in RegionJobs /\ c \notin Topics
      /\ created \in Nat
  BY InvFacts, TopicsFacts DEF RegionInv, RegionTypeOK
<1>1. /\ created' = created + 1 /\ created' \in Topics /\ job[c].topic = 0
      /\ \A d \in Creations : job[d].topic # created'
      /\ created' = Cardinality({ d \in Creations : job'[d].topic # 0 })
  BY <1>0, TopicIsNew
<1>2. /\ job'[c].pc = "row" /\ job'[c].topic = created' /\ job'[c].next = job[c].next
      /\ job'[c].at = job[c].at /\ job'[c].region = job[c].region
      /\ OthersStay(c)
  BY <1>0, <1>1, TopicMoves
<1>3. /\ topics' = topics \cup {created'} /\ job[c].pc = "topic"
      /\ UNCHANGED << setting, known, loaded, queues, troubles, crossed, missed, left >>
  BY DEF CreateTopic
<1>4. \A t \in Topics : job'[t] = job[t]
  BY <1>0, <1>2 DEF OthersStay, RegionJobs
<1>5. job[created'].pc = "none"
  BY <1>0, <1>1 DEF TopicsAreOwn
<1>6. ASSUME NEW d \in Creations \ {c}
      PROVE  /\ job'[d] = job[d] /\ InOrder(d)' /\ Owns(d)' /\ SawOwn(d)' /\ SeenByAll(d)'
             /\ Asked(d)' /\ Knows(d)'
  BY <1>1, <1>2, <1>3, OthersKeep
<1>7. InOrder(c)' /\ Owns(c)' /\ SawOwn(c)' /\ SeenByAll(c)' /\ Asked(c)' /\ Knows(c)'
  <2>1. InOrder(c)'
    BY <1>1, <1>2, <1>3, InvFacts DEF InOrder, Early, Holding, Loading
  <2>2. Owns(c)'
    BY <1>2, <1>3 DEF Owns, Own, Holding, Served, Loading
  <2>3. SawOwn(c)' /\ SeenByAll(c)' /\ Knows(c)'
    BY <1>2 DEF SawOwn, SeenByAll, Knows
  <2>4. Asked(c)'
    BY <1>1, <1>2, <1>4, <1>5 DEF Asked, Subscribed, Loading
  <2> QED
    BY <2>1, <2>2, <2>3, <2>4
<1>8. \A t \in Topics : ConfirmsInOrder(t)' /\ Answered(t)'
  BY <1>3, <1>4, InvFacts DEF ConfirmsInOrder, Answered, Loading
<1>9. \A r \in SesRegionNames : SettingIsOwn(r)' /\ RowHasTopic(r)'
  <2> SUFFICES ASSUME NEW r \in SesRegionNames PROVE SettingIsOwn(r)' /\ RowHasTopic(r)'
    OBVIOUS
  <2>1. SettingIsOwn(r) /\ RowHasTopic(r)
    BY InvFacts
  <2>2. SettingIsOwn(r)'
    BY <1>1, <1>3, <1>6, <2>1 DEF SettingIsOwn
  <2>3. RowHasTopic(r)'
    BY <1>1, <1>3, <1>6, <2>1 DEF RowHasTopic
  <2> QED
    BY <2>2, <2>3
<1>10. \A t \in topics' : TopicHasRow(t)'
  <2>1. ASSUME NEW t \in Topics, t = created' PROVE TopicHasRow(t)'
    BY <1>2, <2>1 DEF TopicHasRow
  <2>2. ASSUME NEW t \in topics PROVE TopicHasRow(t)'
    BY <1>1, <1>3, <1>6, InvFacts DEF TopicHasRow
  <2> QED
    BY <1>1, <1>3, <2>1, <2>2
<1>11. TopicsAreOwn'
  <2>1. \A d \in Creations : job[d].topic <= created /\ job[d].topic \in Nat
    <3>1. \A d \in Creations : job[d].topic \in Topics \cup {0}
      BY InvFacts
    <3>2. Topics \cup {0} \subseteq Nat
      BY TopicsFacts
    <3>3. \A d \in Creations : job[d].topic <= created
      BY <1>0 DEF TopicsAreOwn
    <3> QED
      BY <3>1, <3>2, <3>3
  <2>2. \A d \in Creations : job'[d].topic <= created'
    BY <1>0, <1>1, <1>2, <1>6, <2>1
  <2>3. \A d, e \in Creations : job'[d].topic = job'[e].topic /\ job'[d].topic # 0 => d = e
    BY <1>0, <1>1, <1>2, <1>6 DEF TopicsAreOwn
  <2>4. \A t \in topics' : t <= created'
    <3>1. \A t \in topics : t \in Nat /\ t <= created
      BY <1>0, TopicsFacts DEF TopicsAreOwn, RegionTypes
    <3> QED
      BY <1>0, <1>1, <1>3, <3>1
  <2>5. \A t \in Topics : t > created' => job'[t].pc = "none"
    <3>1. \A t \in Topics : t \in Nat /\ (t > created => job[t].pc = "none")
      BY <1>0, TopicsFacts DEF TopicsAreOwn
    <3> QED
      BY <1>0, <1>1, <1>4, <3>1
  <2> QED
    BY <1>1, <2>2, <2>3, <2>4, <2>5 DEF TopicsAreOwn, Topics
<1>12. LoadsAlone'
  BY <1>0, <1>2, <1>3, LoadsKeep
<1> QED
  BY <1>6, <1>7, <1>8, <1>9, <1>10, <1>11, <1>12 DEF PartsThen

(***************************************************************************)
(* A creation makes its row, has its endpoint subscribed, and makes its    *)
(* queues.                                                                 *)
(***************************************************************************)
\* Where no creation gets another topic, and confirmations are begun for
\* topics there are, topics stay their creations'.
LEMMA TopicsStayOwn ==
  ASSUME RegionInv, UNCHANGED created, topics' \subseteq topics,
         \A c \in Creations : job'[c].topic = job[c].topic,
         \A t \in Topics : job'[t].pc # "none" => job[t].pc # "none" \/ t <= created
  PROVE  TopicsAreOwn'
<1>1. TopicsAreOwn /\ created \in Nat /\ \A t \in Topics : t \in Nat
  BY TopicsFacts DEF RegionInv, RegionTypeOK
<1>2. { c \in Creations : job'[c].topic # 0 } = { c \in Creations : job[c].topic # 0 }
  OBVIOUS
<1>3. \A t \in Topics : t > created => job'[t].pc = "none"
  <2> SUFFICES ASSUME NEW t \in Topics, t > created, job'[t].pc # "none" PROVE FALSE
    OBVIOUS
  <2>1. job[t].pc = "none"
    BY <1>1 DEF TopicsAreOwn
  <2>2. t <= created
    BY <2>1
  <2> QED
    BY <1>1, <2>2
<1> QED
  BY <1>1, <1>2, <1>3 DEF TopicsAreOwn, Topics

LEMMA RowKeeps ==
  ASSUME RegionInv, NEW c \in Creations, CreateRow(c), setting[job[c].region] = NoSetting
  PROVE  PartsThen
<1> DEFINE g == job[c].region
<1>0. /\ RegionTypes /\ c \in RegionJobs /\ InOrder(c) /\ Owns(c) /\ Asked(c)
      /\ job[c].topic \in Topics \cup {0} /\ "subscribe" \in JobSteps
      /\ setting \in [SesRegionNames -> Settings]
  BY InvFacts DEF JobSteps, Creating, RegionTypes
<1>1. /\ job[c].pc = "row" /\ Reloading(c, "subscribe")
      /\ setting' = [setting EXCEPT ![g] = NewSetting(job[c].topic)]
      /\ UNCHANGED << topics, created, known, loaded, queues, troubles, crossed, missed, left >>
  BY DEF CreateRow
<1>2. Moved(c, "reload", "subscribe") /\ OthersStay(c)
  BY <1>0, <1>1, ReloadingMoves
<1>3. /\ job[c].topic \in Topics /\ job[c].topic # 0 /\ g \in SesRegionNames
      /\ setting[g].topic = 0
      /\ setting'[g] = NewSetting(job[c].topic) /\ setting'[g].topic = job[c].topic
      /\ \A r \in SesRegionNames \ {g} : setting'[r] = setting[r]
  BY <1>0, <1>1 DEF InOrder, NoSetting, NewSetting
<1> HIDE DEF g
<1>4. \A t \in Topics : job'[t] = job[t]
  BY <1>2, InvFacts DEF OthersStay
<1>c. /\ ~setting[g].configured /\ job'[c].topic = job[c].topic /\ job'[c].region = g
      /\ job'[c].pc = "reload" /\ job'[c].next = "subscribe" /\ job'[c].at = job[c].at
  BY <1>2 DEF g, NoSetting, Moved
<1>6. ASSUME NEW d \in Creations \ {c}
      PROVE  /\ job'[d] = job[d] /\ InOrder(d)' /\ Owns(d)' /\ SawOwn(d)' /\ SeenByAll(d)'
             /\ Asked(d)' /\ Knows(d)'
  BY <1>1, <1>2, <1>3, <1>c, OthersKeep DEF g
<1>7. InOrder(c)' /\ Owns(c)' /\ SawOwn(c)' /\ SeenByAll(c)' /\ Asked(c)' /\ Knows(c)'
  <2>1. InOrder(c)'
    BY <1>0, <1>1, <1>3, <1>c DEF InOrder, Early, Holding, Loading, g
  <2>2. Owns(c)'
    BY <1>3, <1>c DEF Owns, Own, Holding, Served, Loading
  <2>3. SawOwn(c)' /\ SeenByAll(c)' /\ Knows(c)'
    BY <1>c DEF SawOwn, SeenByAll, Knows
  <2>4. Asked(c)'
    BY <1>0, <1>1, <1>3, <1>4, <1>c DEF Asked, Subscribed, Loading
  <2> QED
    BY <2>1, <2>2, <2>3, <2>4
<1>8. ASSUME NEW t \in Topics PROVE ConfirmsInOrder(t)' /\ Answered(t)'
  <2>1. ConfirmsInOrder(t)' /\ job'[t] = job[t] /\ Answered(t)
    BY <1>4, InvFacts DEF ConfirmsInOrder
  <2>2. CASE t = job[c].topic
    <3>1. job'[t].pc = "none"
      BY <1>0, <1>1, <2>1, <2>2 DEF Asked
    <3> QED
      BY <2>1, <3>1 DEF Answered, Loading
  <2>3. CASE t # job[c].topic
    BY <1>1, <1>3, <2>1, <2>3 DEF Answered, Loading
  <2> QED
    BY <2>1, <2>2, <2>3
<1>9. ASSUME NEW r \in SesRegionNames PROVE SettingIsOwn(r)' /\ RowHasTopic(r)'
  <2>1. SettingIsOwn(r) /\ RowHasTopic(r)
    BY InvFacts
  <2>2. CASE r = g
    <3>1. SettingIsOwn(r)'
      BY <1>3, <1>c, <2>2 DEF SettingIsOwn
    <3>2. RowHasTopic(r)'
      BY <1>0, <1>1, <1>3, <2>2 DEF RowHasTopic, Owns
    <3> QED
      BY <3>1, <3>2
  <2>3. CASE r # g
    <3>0. setting'[r] = setting[r]
      BY <1>3, <2>3
    <3>1. SettingIsOwn(r)'
      BY <1>6, <1>c, <2>1, <2>3, <3>0 DEF SettingIsOwn, g
    <3>2. RowHasTopic(r)'
      BY <1>1, <1>6, <2>1, <3>0 DEF RowHasTopic
    <3> QED
      BY <3>1, <3>2
  <2> QED
    BY <2>2, <2>3
<1>10. ASSUME NEW t \in topics' PROVE TopicHasRow(t)'
  <2>1. TopicHasRow(t) /\ t # 0
    BY <1>1, InvFacts
  <2> QED
    BY <1>1, <1>3, <1>6, <2>1 DEF TopicHasRow
<1>11. TopicsAreOwn'
  BY <1>1, <1>4, <1>6, <1>c, TopicsStayOwn
<1>12. LoadsAlone'
  BY <1>0, <1>1, <1>2, <1>c, LoadsKeep
<1> QED
  BY <1>6, <1>7, <1>8, <1>9, <1>10, <1>11, <1>12 DEF PartsThen

LEMMA RegisterKeeps ==
  ASSUME RegionInv, NEW c \in Creations, RegisterConfigurationSet(c)
  PROVE  PartsThen
<1> DEFINE g == job[c].region
           p == job[c].at
<1>0. /\ RegionTypes /\ c \in RegionJobs /\ InOrder(c) /\ Owns(c) /\ Asked(c)
      /\ job[c].topic \in Topics \cup {0} /\ "done" \in JobSteps
      /\ setting \in [SesRegionNames -> Settings]
      /\ queues \in [Processes -> SUBSET SesRegionNames]
  BY InvFacts DEF JobSteps, Ended, RegionTypes
<1>1. /\ job[c].pc = "configure" /\ Reloading(c, "done")
      /\ setting' = [setting EXCEPT ![g].configured = TRUE]
      /\ queues' = [queues EXCEPT ![p] = @ \cup {g}]
      /\ UNCHANGED << topics, created, known, loaded, troubles, crossed, missed, left >>
  BY DEF RegisterConfigurationSet
<1>2. Moved(c, "reload", "done") /\ OthersStay(c)
  BY <1>0, <1>1, ReloadingMoves
<1>3. /\ job[c].topic \in Topics /\ job[c].topic # 0 /\ g \in SesRegionNames /\ p \in Processes
      /\ setting[g].topic = job[c].topic
      /\ setting'[g].topic = job[c].topic /\ setting'[g].configured
      /\ setting'[g].confirmed = setting[g].confirmed
      /\ \A r \in SesRegionNames \ {g} : setting'[r] = setting[r]
      /\ g \in queues'[p] /\ \A q \in Processes : queues[q] \subseteq queues'[q]
  BY <1>0, <1>1 DEF InOrder, Holding, Settings, Owns, Own
<1>c. /\ job'[c].topic = job[c].topic /\ job'[c].region = g
      /\ job'[c].pc = "reload" /\ job'[c].next = "done" /\ job'[c].at = p
  BY <1>2 DEF Moved
<1>4. \A t \in Topics : job'[t] = job[t]
  BY <1>2, InvFacts DEF OthersStay
<1>t. \A r \in SesRegionNames :
        setting'[r].topic = setting[r].topic /\ setting'[r].confirmed = setting[r].confirmed
  BY <1>3
<1> HIDE DEF g, p
<1>6. ASSUME NEW d \in Creations \ {c}
      PROVE  /\ job'[d] = job[d] /\ InOrder(d)' /\ Owns(d)' /\ SawOwn(d)' /\ SeenByAll(d)'
             /\ Asked(d)' /\ Knows(d)'
  BY <1>1, <1>2, <1>3, <1>c, OthersKeep DEF g
<1>7. InOrder(c)' /\ Owns(c)' /\ SawOwn(c)' /\ SeenByAll(c)' /\ Asked(c)' /\ Knows(c)'
  <2>1. InOrder(c)'
    BY <1>0, <1>1, <1>3, <1>c DEF InOrder, Early, Holding, Loading
  <2>2. Owns(c)'
    BY <1>3, <1>c DEF Owns, Own, Holding, Served, Loading
  <2>3. SawOwn(c)' /\ SeenByAll(c)' /\ Knows(c)'
    BY <1>c DEF SawOwn, SeenByAll, Knows
  <2>4. Asked(c)'
    BY <1>0, <1>1, <1>3, <1>4, <1>c DEF Asked, Subscribed, Loading
  <2> QED
    BY <2>1, <2>2, <2>3, <2>4
<1>8. ASSUME NEW t \in Topics PROVE ConfirmsInOrder(t)' /\ Answered(t)'
  <2>1. ConfirmsInOrder(t) /\ job'[t] = job[t] /\ Answered(t)
    BY <1>4, InvFacts
  <2> QED
    BY <1>1, <1>t, <2>1 DEF ConfirmsInOrder, Answered, Loading
<1>9. ASSUME NEW r \in SesRegionNames PROVE SettingIsOwn(r)' /\ RowHasTopic(r)'
  <2>1. SettingIsOwn(r) /\ RowHasTopic(r) /\ (setting[r] = NoSetting => r # g)
    BY <1>3, InvFacts DEF NoSetting
  <2>2. setting[r] = NoSetting => setting'[r] = NoSetting
    BY <1>3, <2>1
  <2>3. SettingIsOwn(r)'
    BY <1>6, <1>c, <1>t, <2>1, <2>2 DEF SettingIsOwn, g
  <2>4. RowHasTopic(r)'
    BY <1>1, <1>6, <1>t, <2>1, <2>2 DEF RowHasTopic
  <2> QED
    BY <2>3, <2>4
<1>10. ASSUME NEW t \in topics' PROVE TopicHasRow(t)'
  <2>1. TopicHasRow(t) /\ t # 0
    BY <1>1, InvFacts
  <2> QED
    BY <1>1, <1>t, <1>6, <2>1 DEF TopicHasRow
<1>11. TopicsAreOwn'
  BY <1>1, <1>4, <1>6, <1>c, TopicsStayOwn
<1>12. LoadsAlone'
  BY <1>0, <1>1, <1>2, <1>c, LoadsKeep
<1> QED
  BY <1>6, <1>7, <1>8, <1>9, <1>10, <1>11, <1>12 DEF PartsThen

LEMMA DropSettingKeeps ==
  ASSUME RegionInv, NEW c \in Creations, DropSetting(c)
  PROVE  PartsThen
<1> DEFINE g == job[c].region
<1>0. /\ RegionTypes /\ c \in RegionJobs /\ InOrder(c) /\ Owns(c)
      /\ job[c].topic \in Topics \cup {0} /\ "failed" \in JobSteps
      /\ setting \in [SesRegionNames -> Settings]
  BY InvFacts DEF JobSteps, Ended, RegionTypes
<1>1. /\ job[c].pc = "dropSetting" /\ Reloading(c, "failed")
      /\ setting' = [setting EXCEPT ![g] = NoSetting]
      /\ UNCHANGED << topics, created, known, loaded, queues, troubles, crossed, missed, left >>
  BY DEF DropSetting
<1>2. Moved(c, "reload", "failed") /\ OthersStay(c)
  BY <1>0, <1>1, ReloadingMoves
<1>3. /\ job[c].topic \in Topics /\ job[c].topic # 0 /\ g \in SesRegionNames
      /\ setting[g].topic = job[c].topic /\ (job[c].topic \notin topics \/ job[c].topic \in left)
      /\ setting'[g] = NoSetting /\ setting'[g].topic = 0
      /\ \A r \in SesRegionNames \ {g} : setting'[r] = setting[r]
  BY <1>0, <1>1 DEF InOrder, Owns, Own, NoSetting
<1>c. /\ job'[c].topic = job[c].topic /\ job'[c].region = g
      /\ job'[c].pc = "reload" /\ job'[c].next = "failed" /\ job'[c].at = job[c].at
  BY <1>2 DEF Moved
<1>4. \A t \in Topics : job'[t] = job[t]
  BY <1>2, InvFacts DEF OthersStay
<1> HIDE DEF g
<1>6. ASSUME NEW d \in Creations \ {c}
      PROVE  /\ job'[d] = job[d] /\ InOrder(d)' /\ Owns(d)' /\ SawOwn(d)' /\ SeenByAll(d)'
             /\ Asked(d)' /\ Knows(d)'
  BY <1>1, <1>2, <1>3, <1>c, OthersKeep DEF g
<1>7. InOrder(c)' /\ Owns(c)' /\ SawOwn(c)' /\ SeenByAll(c)' /\ Asked(c)' /\ Knows(c)'
  <2>1. InOrder(c)'
    BY <1>0, <1>1, <1>3, <1>c DEF InOrder, Early, Holding, Loading
  <2>2. Owns(c)'
    BY <1>c DEF Owns, Own, Holding, Served, Loading
  <2>3. SawOwn(c)' /\ SeenByAll(c)' /\ Knows(c)'
    BY <1>c DEF SawOwn, SeenByAll, Knows
  <2>4. Asked(c)'
    BY <1>c DEF Asked, Subscribed, Loading
  <2> QED
    BY <2>1, <2>2, <2>3, <2>4
<1>8. ASSUME NEW t \in Topics PROVE ConfirmsInOrder(t)' /\ Answered(t)'
  <2>1. ConfirmsInOrder(t) /\ job'[t] = job[t] /\ Answered(t) /\ t # 0
    BY <1>4, InvFacts
  <2> QED
    BY <1>1, <1>3, <2>1 DEF ConfirmsInOrder, Answered, Loading
<1>9. ASSUME NEW r \in SesRegionNames PROVE SettingIsOwn(r)' /\ RowHasTopic(r)'
  <2>1. SettingIsOwn(r) /\ RowHasTopic(r)
    BY InvFacts
  <2>2. CASE r = g
    BY <1>3, <2>2 DEF SettingIsOwn, RowHasTopic
  <2>3. CASE r # g
    <3>0. setting'[r] = setting[r]
      BY <1>3, <2>3
    <3>1. SettingIsOwn(r)'
      BY <1>6, <1>c, <2>1, <2>3, <3>0 DEF SettingIsOwn, g
    <3>2. setting[r].topic # job[c].topic
      BY <1>3, <2>3, RowIsOfCreation DEF g
    <3>3. RowHasTopic(r)'
      BY <1>1, <1>6, <2>1, <3>0, <3>2 DEF RowHasTopic
    <3> QED
      BY <3>1, <3>3
  <2> QED
    BY <2>2, <2>3
<1>10. ASSUME NEW t \in topics' PROVE TopicHasRow(t)'
  <2>1. TopicHasRow(t) /\ t # 0 /\ t \in topics
    BY <1>1, InvFacts
  <2>2. CASE t = job[c].topic
    BY <1>1, <1>3, <2>1, <2>2 DEF TopicHasRow
  <2>3. CASE t # job[c].topic
    BY <1>1, <1>3, <1>6, <2>1, <2>3 DEF TopicHasRow
  <2> QED
    BY <2>2, <2>3
<1>11. TopicsAreOwn'
  BY <1>1, <1>4, <1>6, <1>c, TopicsStayOwn
<1>12. LoadsAlone'
  BY <1>0, <1>1, <1>2, <1>c, LoadsKeep
<1> QED
  BY <1>6, <1>7, <1>8, <1>9, <1>10, <1>11, <1>12 DEF PartsThen

LEMMA SubscribeKeeps ==
  ASSUME RegionInv, NEW c \in Creations, SubscribeEndpoint(c)
  PROVE  PartsThen
<1>0. /\ RegionTypes /\ c \in RegionJobs /\ InOrder(c) /\ Owns(c) /\ Asked(c)
      /\ SeenByAll(c) /\ Knows(c) /\ CreationsInOrder
  BY InvFacts DEF RegionInv
<1>1. /\ job[c].pc = "subscribe"
      /\ UNCHANGED << setting, topics, created, known, loaded, queues, troubles, crossed,
                      missed, left >>
  BY DEF SubscribeEndpoint
<1>2. PICK t \in Topics : t = job[c].topic
  BY <1>0, SubscribeMoves
<1>3. /\ Moved(c, "configure", job[c].next) /\ Moved(t, "sent", job[t].next)
      /\ \A k \in RegionJobs \ {c, t} : job'[k] = job[k]
  BY <1>0, <1>2, SubscribeMoves
<1>4. t # 0 /\ t \in RegionJobs /\ t \notin Creations /\ ConfirmsInOrder(t) /\ job[t].pc = "none"
  BY <1>0, <1>1, <1>2, InvFacts DEF Asked
<1>c. /\ job'[c].topic = t /\ job'[c].region = job[c].region /\ job'[c].pc = "configure"
      /\ job'[c].next = job[c].next /\ job'[c].at = job[c].at
      /\ job'[t].pc = "sent" /\ job'[t].next = "none"
  BY <1>2, <1>3, <1>4 DEF Moved, ConfirmsInOrder
<1>5. \A j \in RegionJobs : job'[j].pc = "assign" => j \notin {c, t} /\ job'[j] = job[j]
  BY <1>3, <1>c
<1>6. \A d \in Creations \ {c} : job'[d] = job[d] /\ (job[d].topic # 0 => job[d].topic # t)
  BY <1>2, <1>3, <1>4, InvFacts
<1>7. \A s \in Topics \ {t} : job'[s] = job[s]
  BY <1>3, InvFacts
<1>8. ASSUME NEW d \in Creations
      PROVE  /\ InOrder(d)' /\ Owns(d)' /\ SawOwn(d)' /\ SeenByAll(d)' /\ Asked(d)' /\ Knows(d)'
  <2>1. CASE d = c
    <3>1. InOrder(d)' /\ Owns(d)'
      BY <1>0, <1>1, <1>2, <1>4, <1>c, <2>1
         DEF InOrder, Owns, Own, Early, Holding, Served, Loading
    <3>2. SawOwn(d)' /\ SeenByAll(d)' /\ Knows(d)'
      BY <1>0, <1>1, <1>2, <1>5, <1>c, <2>1 DEF SawOwn, SeenByAll, Knows, RegionJobs, Topics
    <3>3. Asked(d)'
      BY <1>c, <2>1 DEF Asked, Subscribed, Loading
    <3> QED
      BY <3>1, <3>2, <3>3
  <2>2. CASE d # c
    <3>1. /\ job'[d] = job[d] /\ InOrder(d) /\ Owns(d) /\ SawOwn(d) /\ SeenByAll(d)
          /\ Asked(d) /\ Knows(d) /\ job[d].topic \in Topics \cup {0}
          /\ (job[d].topic # 0 => job[d].topic # t)
      BY <1>6, <2>2, InvFacts
    <3>2. InOrder(d)' /\ Owns(d)' /\ Knows(d)'
      BY <1>1, <3>1 DEF InOrder, Owns, Own, Early, Holding, Served, Loading, Knows
    <3>3. SawOwn(d)' /\ SeenByAll(d)'
      BY <1>1, <1>5, <3>1 DEF SawOwn, SeenByAll, RegionJobs, Topics
    <3>4. job[d].topic # 0 => job'[job[d].topic] = job[job[d].topic]
      BY <1>7, <3>1
    <3>5. job[d].topic = 0 =>
            ~(Subscribed(d) \/ job[d].pc \in {"row", "subscribe"} \/ Loading(d, "subscribe"))
      BY <3>1 DEF InOrder, Subscribed, Holding
    <3>6. Asked(d)'
      BY <3>1, <3>4, <3>5 DEF Asked, Subscribed, Loading
    <3> QED
      BY <3>2, <3>3, <3>6
  <2> QED
    BY <2>1, <2>2
<1>9. ASSUME NEW s \in Topics PROVE ConfirmsInOrder(s)' /\ Answered(s)'
  <2>1. CASE s = t
    BY <1>c, <2>1 DEF ConfirmsInOrder, Answered, Loading
  <2>2. CASE s # t
    BY <1>1, <1>7, <2>2, InvFacts DEF ConfirmsInOrder, Answered, Loading
  <2> QED
    BY <2>1, <2>2
<1>10. ASSUME NEW r \in SesRegionNames PROVE SettingIsOwn(r)' /\ RowHasTopic(r)'
  <2>1. SettingIsOwn(r) /\ RowHasTopic(r)
    BY InvFacts
  <2>2. SettingIsOwn(r)'
    BY <1>1, <1>2, <1>6, <1>c, <2>1 DEF SettingIsOwn
  <2>3. RowHasTopic(r)'
    BY <1>1, <1>6, <2>1 DEF RowHasTopic
  <2> QED
    BY <2>2, <2>3
<1>11. ASSUME NEW s \in topics' PROVE TopicHasRow(s)'
  BY <1>1, <1>6, InvFacts DEF TopicHasRow
<1>12. TopicsAreOwn'
  <2>1. t <= created
    BY <1>2 DEF RegionInv, TopicsAreOwn
  <2>2. \A d \in Creations : job'[d].topic = job[d].topic
    BY <1>2, <1>6, <1>c
  <2> QED
    BY <1>1, <1>7, <2>1, <2>2, TopicsStayOwn
<1>13. LoadsAlone'
  BY <1>1, <1>5, InvFacts DEF LoadsAlone, RegionJobs, Topics
<1> QED
  BY <1>8, <1>9, <1>10, <1>11, <1>12, <1>13 DEF PartsThen

(***************************************************************************)
(* A confirmation.                                                         *)
(***************************************************************************)
\* Where t alone moves and its row is confirmed at most.
LEMMA ConfirmationMove ==
  ASSUME RegionInv, NEW t \in Topics, OthersStay(t),
         job[t].pc \in {"sent", "arrived", "confirm"},
         job'[t].pc \notin {"none", "assign"},
         UNCHANGED << topics, created, known, queues, crossed, left >>, missed \subseteq missed',
         \A r \in SesRegionNames : \/ setting'[r] = setting[r]
                                   \/ /\ setting[r].topic = t
                                      /\ setting'[r] = [setting[r] EXCEPT !.confirmed = TRUE],
         ConfirmsInOrder(t)', Answered(t)'
  PROVE  PartsThen
<1>1. \A c \in Creations : job'[c] = job[c]
  BY InvFacts DEF OthersStay
<1>2. \A s \in Topics \ {t} : job'[s] = job[s]
  BY InvFacts DEF OthersStay
<1>3. ASSUME NEW r \in SesRegionNames
      PROVE  /\ setting'[r].topic = setting[r].topic
             /\ setting'[r].configured = setting[r].configured
             /\ (setting[r].confirmed => setting'[r].confirmed)
             /\ (setting[r] = NoSetting => setting'[r] = NoSetting)
  <2>1. setting[r] \in Settings
    BY InvFacts
  <2>2. NoSetting.topic = 0 /\ t # 0
    BY InvFacts DEF NoSetting
  <2>3. CASE setting'[r] = setting[r]
    BY <2>3
  <2>4. CASE setting[r].topic = t /\ setting'[r] = [setting[r] EXCEPT !.confirmed = TRUE]
    <3>1. setting'[r].topic = t /\ setting'[r].configured = setting[r].configured
          /\ setting'[r].confirmed
      BY <2>1, <2>4 DEF Settings
    <3> QED
      BY <2>2, <2>4, <3>1
  <2> QED
    BY <2>3, <2>4
<1>4. \A j \in RegionJobs : job'[j].pc = "assign" => j # t /\ job'[j] = job[j]
  BY DEF OthersStay
<1>5. ASSUME NEW d \in Creations
      PROVE  /\ InOrder(d)' /\ Owns(d)' /\ SawOwn(d)' /\ SeenByAll(d)' /\ Asked(d)' /\ Knows(d)'
  <2>1. /\ job'[d] = job[d] /\ InOrder(d) /\ Owns(d) /\ SawOwn(d) /\ SeenByAll(d)
        /\ Asked(d) /\ Knows(d) /\ job[d].topic \in Topics \cup {0}
    BY <1>1, InvFacts
  <2>2. InOrder(d)' /\ Knows(d)'
    BY <2>1 DEF InOrder, Early, Holding, Loading, Knows
  <2>3. Owns(d)'
    <3>1. job[d].pc # "none" => job[d].region \in SesRegionNames
      BY <2>1 DEF InOrder
    <3>2. (Holding(d) => job[d].pc # "none") /\ (Served(d) => job[d].pc # "none")
      BY DEF Holding, Served, Loading
    <3> QED
      BY <1>3, <2>1, <3>1, <3>2 DEF Owns, Own, Holding, Served, Loading
  <2>4. SawOwn(d)' /\ SeenByAll(d)'
    BY <1>4, <2>1 DEF SawOwn, SeenByAll, RegionJobs, Topics
  <2>5. Asked(d)'
    <3>1. job[d].topic = 0 =>
            ~(Subscribed(d) \/ job[d].pc \in {"row", "subscribe"} \/ Loading(d, "subscribe"))
      BY <2>1 DEF InOrder, Subscribed, Holding
    <3>2. CASE job[d].topic = t
      <4>1. job[t].pc # "none" /\ job'[t].pc # "none"
        OBVIOUS
      <4> QED
        BY <2>1, <3>2, <4>1 DEF Asked, Subscribed, Loading
    <3>3. CASE job[d].topic # t
      BY <1>2, <2>1, <3>1, <3>3 DEF Asked, Subscribed, Loading
    <3> QED
      BY <3>2, <3>3
  <2> QED
    BY <2>2, <2>3, <2>4, <2>5
<1>6. ASSUME NEW s \in Topics PROVE ConfirmsInOrder(s)' /\ Answered(s)'
  <2>1. CASE s # t
    BY <1>2, <1>3, <2>1, InvFacts DEF ConfirmsInOrder, Answered, Loading
  <2> QED
    BY <2>1
<1>7. ASSUME NEW r \in SesRegionNames PROVE SettingIsOwn(r)' /\ RowHasTopic(r)'
  <2>1. SettingIsOwn(r) /\ RowHasTopic(r)
    BY InvFacts
  <2> QED
    BY <1>1, <1>3, <2>1 DEF SettingIsOwn, RowHasTopic
<1>8. ASSUME NEW s \in topics' PROVE TopicHasRow(s)'
  BY <1>1, <1>3, InvFacts DEF TopicHasRow
<1>9. TopicsAreOwn'
  <2>1. \A s \in Topics : job'[s].pc # "none" => job[s].pc # "none" \/ s <= created
    BY <1>2
  <2> QED
    BY <1>1, <2>1, TopicsStayOwn
<1>10. LoadsAlone'
  BY LoadsKeep, InvFacts
<1> QED
  BY <1>5, <1>6, <1>7, <1>8, <1>9, <1>10 DEF PartsThen

LEMMA ConfirmKeeps ==
  ASSUME RegionInv, NEW t \in Topics, Confirm(t) \/ ConfirmationFails(t)
  PROVE  PartsThen
<1>0. /\ RegionTypes /\ t \in RegionJobs /\ ConfirmsInOrder(t) /\ Answered(t)
      /\ setting \in [SesRegionNames -> Settings]
  BY InvFacts DEF RegionTypes
<1>p. {"refused", "confirm", "sent"} \subseteq JobPcs /\ "done" \in JobSteps
  BY DEF JobSteps, JobPcs, Ended
<1>g. ASSUME NEW q \in {"refused", "confirm", "sent"}, Goes(t, q)
      PROVE  Moved(t, q, job[t].next) /\ OthersStay(t)
  BY <1>0, <1>p, <1>g, GoesMoves
<1>1. CASE Confirmation(t)
  <2>1. /\ job'[t].at \in Processes
        /\ \/ job'[t].pc = "arrived" /\ job'[t].next = job[t].next
           \/ job'[t].pc = "reload" /\ job'[t].next = "arrived"
        /\ OthersStay(t)
    BY <1>0, <1>1, ConfirmationMoves
  <2>2. job[t].pc = "sent" /\ UNCHANGED << setting, topics, created, known, queues, crossed, left, missed >>
    BY <1>1 DEF Confirmation
  <2>3. ConfirmsInOrder(t)' /\ Answered(t)'
    BY <1>0, <2>1, <2>2 DEF ConfirmsInOrder, Answered, Loading
  <2> QED
    BY <2>1, <2>2, <2>3, ConfirmationMove
<1>2. CASE CheckEventValidity(t)
  <2>1. PICK q \in {"confirm", "refused"} :
          /\ Moved(t, q, job[t].next) /\ OthersStay(t)
          /\ q = "refused" => t \in missed'
    BY <1>2, <1>g DEF CheckEventValidity
  <2>2. /\ job[t].pc = "arrived" /\ missed \subseteq missed'
        /\ UNCHANGED << setting, topics, created, known, queues, crossed, left >>
    BY <1>2 DEF CheckEventValidity
  <2>3. ConfirmsInOrder(t)' /\ Answered(t)'
    BY <1>0, <2>1, <2>2 DEF ConfirmsInOrder, Answered, Loading, Moved
  <2> QED
    BY <2>1, <2>2, <2>3, ConfirmationMove DEF Moved
<1>3. CASE ConfirmSubscription(t)
  <2>2. /\ job[t].pc = "confirm"
        /\ UNCHANGED << topics, created, known, queues, crossed, left, missed >>
    BY <1>3 DEF ConfirmSubscription
  <2>3. CASE \E r \in SesRegionNames : setting[r].topic = t
    <3>1. /\ setting' = [r \in SesRegionNames |-> IF setting[r].topic = t
                             THEN [setting[r] EXCEPT !.confirmed = TRUE] ELSE setting[r]]
          /\ Reloading(t, "done")
      BY <1>3, <2>3 DEF ConfirmSubscription
    <3>2. Moved(t, "reload", "done") /\ OthersStay(t)
      BY <1>0, <1>p, <3>1, ReloadingMoves
    <3>3. \A r \in SesRegionNames :
            \/ setting'[r] = setting[r] /\ setting[r].topic # t
            \/ /\ setting[r].topic = t
               /\ setting'[r] = [setting[r] EXCEPT !.confirmed = TRUE]
      BY <3>1
    <3>4. \A r \in SesRegionNames : setting'[r].topic = t => setting'[r].confirmed
      <4> SUFFICES ASSUME NEW r \in SesRegionNames, setting'[r].topic = t PROVE setting'[r].confirmed
        OBVIOUS
      <4>1. setting'[r] = [setting[r] EXCEPT !.confirmed = TRUE] /\ setting[r] \in Settings
        BY <1>0, <3>3
      <4> QED
        BY <4>1 DEF Settings
    <3>5. ConfirmsInOrder(t)' /\ Answered(t)'
      BY <1>0, <2>2, <3>2, <3>4 DEF ConfirmsInOrder, Answered, Loading, Moved
    <3> QED
      BY <2>2, <3>2, <3>3, <3>5, ConfirmationMove DEF Moved
  <2>4. CASE ~ \E r \in SesRegionNames : setting[r].topic = t
    <3>1. Moved(t, "refused", job[t].next) /\ OthersStay(t) /\ setting' = setting
      BY <1>3, <1>g, <2>4 DEF ConfirmSubscription
    <3>2. ConfirmsInOrder(t)' /\ Answered(t)'
      BY <1>0, <2>2, <2>4, <3>1 DEF ConfirmsInOrder, Answered, Loading, Moved
    <3> QED
      BY <2>2, <3>1, <3>2, ConfirmationMove DEF Moved
  <2> QED
    BY <2>3, <2>4
<1>4. CASE ConfirmationFails(t)
  <2>1. Moved(t, "sent", job[t].next) /\ OthersStay(t)
    BY <1>4, <1>g DEF ConfirmationFails
  <2>2. job[t].pc = "confirm" /\ UNCHANGED << setting, topics, created, known, queues, crossed, left, missed >>
    BY <1>4 DEF ConfirmationFails
  <2>3. ConfirmsInOrder(t)' /\ Answered(t)'
    BY <1>0, <2>1, <2>2 DEF ConfirmsInOrder, Answered, Loading, Moved
  <2> QED
    BY <2>1, <2>2, <2>3, ConfirmationMove DEF Moved
<1> QED
  BY <1>1, <1>2, <1>3, <1>4 DEF Confirm

(***************************************************************************)
(* Reloads.                                                                *)
(***************************************************************************)
Kept(j) ==
  /\ OthersStay(j) /\ job[j].pc \in {"reload", "assign"}
  /\ job'[j].at = job[j].at /\ job'[j].region = job[j].region /\ job'[j].topic = job[j].topic
  /\ \/ job'[j].pc = "assign" /\ job'[j].next = job[j].next
     \/ job'[j].pc = job[j].next /\ job'[j].next = "none"
  /\ UNCHANGED << setting, topics, created, queues, missed, left >>

\* What is not about copies stays with the reading of the rows and with their
\* becoming the copy.
PartsApart ==
  /\ \A c \in Creations : InOrder(c)' /\ Owns(c)' /\ Asked(c)'
  /\ \A t \in Topics : ConfirmsInOrder(t)' /\ Answered(t)'
  /\ \A r \in SesRegionNames : SettingIsOwn(r)' /\ RowHasTopic(r)'
  /\ \A t \in topics' : TopicHasRow(t)'
  /\ TopicsAreOwn'

LEMMA ReloadMove ==
  ASSUME RegionInv, NEW j \in RegionJobs, Kept(j)
  PROVE  PartsApart
<1> USE DEF Kept
<1>1. \A k \in RegionJobs \ {j} : job'[k] = job[k]
  BY DEF OthersStay
<1>2. ASSUME NEW c \in Creations
      PROVE  job'[c].topic = job[c].topic /\ job'[c].region = job[c].region
             /\ job'[c].at = job[c].at
             /\ (job'[c].pc \in {"row", "dropTopic", "dropSetting"}
                   <=> job[c].pc \in {"row", "dropTopic", "dropSetting"})
             /\ (job[c].pc \in {"row", "dropTopic", "dropSetting"} => job'[c].pc = job[c].pc)
  BY <1>1, InvFacts DEF InOrder
<1>3. ASSUME NEW c \in Creations PROVE InOrder(c)' /\ Owns(c)'
  <2>1. InOrder(c) /\ Owns(c) /\ c \in RegionJobs
    BY InvFacts
  <2>2. CASE c # j
    BY <1>1, <2>1, <2>2 DEF InOrder, Owns, Own, Early, Holding, Served, Loading
  <2>3. CASE c = j
    BY <2>1, <2>3 DEF InOrder, Owns, Own, Early, Holding, Served, Loading
  <2> QED
    BY <2>2, <2>3
<1>4. ASSUME NEW t \in Topics
      PROVE  /\ ConfirmsInOrder(t)' /\ Answered(t)'
             /\ (job'[t].pc = "none" <=> job[t].pc = "none")
  <2>1. ConfirmsInOrder(t) /\ Answered(t) /\ t \in RegionJobs
    BY InvFacts
  <2>2. CASE t # j
    BY <1>1, <2>1, <2>2 DEF ConfirmsInOrder, Answered, Loading
  <2>3. CASE t = j
    BY <2>1, <2>3 DEF ConfirmsInOrder, Answered, Loading
  <2> QED
    BY <2>2, <2>3
<1>5. ASSUME NEW c \in Creations PROVE Asked(c)'
  <2>1. Asked(c) /\ InOrder(c) /\ job[c].topic \in Topics \cup {0} /\ c \in RegionJobs
    BY InvFacts
  <2>2. job[c].topic = 0 =>
          ~(Subscribed(c) \/ job[c].pc \in {"row", "subscribe"} \/ Loading(c, "subscribe"))
    BY <2>1 DEF InOrder, Subscribed, Holding
  <2>3. /\ Subscribed(c)' => Subscribed(c)
        /\ (job[c].pc \in {"row", "subscribe"} \/ Loading(c, "subscribe"))'
             => job[c].pc \in {"row", "subscribe"} \/ Loading(c, "subscribe")
    <3>1. CASE c # j
      BY <1>1, <2>1, <3>1 DEF Subscribed, Loading
    <3>2. CASE c = j
      BY <2>1, <3>2 DEF Subscribed, Loading, InOrder
    <3> QED
      BY <3>1, <3>2
  <2> QED
    BY <1>2, <1>4, <2>1, <2>2, <2>3 DEF Asked
<1>6. ASSUME NEW r \in SesRegionNames PROVE SettingIsOwn(r)' /\ RowHasTopic(r)'
  BY <1>2, InvFacts DEF SettingIsOwn, RowHasTopic
<1>7. ASSUME NEW t \in topics' PROVE TopicHasRow(t)'
  BY <1>2, InvFacts DEF TopicHasRow
<1>8. TopicsAreOwn'
  BY <1>2, <1>4, TopicsStayOwn
<1> QED
  BY <1>3, <1>4, <1>5, <1>6, <1>7, <1>8 DEF PartsApart

\* A creation that needs its row in the copy holds the row.
LEMMA HolderInRows ==
  ASSUME RegionInv, NEW c \in Creations,
         job[c].pc \in {"subscribe", "configure"} \/ Loading(c, "subscribe")
  PROVE  Rows[job[c].region] = job[c].topic
BY InvFacts DEF Holding, Owns, Own, Rows, InOrder, Loading

LEMMA ReadKeeps ==
  ASSUME RegionInv, NEW j \in RegionJobs, ReadRows(j)
  PROVE  PartsThen
<1>0. RegionTypes
  BY InvFacts
<1>1. /\ job[j].pc = "reload" /\ crossed \subseteq crossed'
      /\ (\E k \in RegionJobs : job[k].pc = "assign" /\ job[k].at = job[j].at)
           => job[j].at \in crossed'
      /\ UNCHANGED << setting, topics, created, known, loaded, queues, troubles, missed, left >>
  BY DEF ReadRows
<1>2. /\ job'[j].pc = "assign" /\ job'[j].seen = Rows /\ job'[j].next = job[j].next
      /\ job'[j].at = job[j].at /\ job'[j].region = job[j].region
      /\ job'[j].topic = job[j].topic
      /\ \A k \in RegionJobs \ {j} : job'[k] = job[k]
  BY <1>0, ReadMoves DEF OthersStay
<1>3. PartsApart
  <2>1. Kept(j)
    BY <1>0, <1>1, <1>2, ReadMoves DEF Kept
  <2> QED
    BY <2>1, ReloadMove
<1>4. LoadsAlone'
  BY <1>1, <1>2, InvFacts DEF LoadsAlone, RegionJobs, Topics
<1>5. ASSUME NEW c \in Creations PROVE SawOwn(c)' /\ SeenByAll(c)' /\ Knows(c)'
  <2>1. c \in RegionJobs /\ SawOwn(c) /\ SeenByAll(c) /\ Knows(c)
    BY InvFacts
  <2>2. CASE c = j
    <3>1. job[j].next = "subscribe" => Rows[job[j].region] = job[j].topic
      BY <1>1, <2>2, HolderInRows DEF Loading
    <3> QED
      BY <1>2, <2>2, <3>1 DEF SawOwn, SeenByAll, Knows
  <2>3. CASE c # j
    <3>1. job'[c] = job[c]
      BY <1>2, <2>1, <2>3
    <3>2. job[c].pc \in {"subscribe", "configure"} => Rows[job[c].region] = job[c].topic
      BY HolderInRows
    <3>3. SeenByAll(c)'
      BY <1>1, <1>2, <2>1, <3>1, <3>2 DEF SeenByAll, RegionJobs, Topics
    <3> QED
      BY <1>1, <2>1, <3>1, <3>3 DEF SawOwn, Knows
  <2> QED
    BY <2>2, <2>3
<1> QED
  BY <1>3, <1>4, <1>5 DEF PartsThen, PartsApart

LEMMA AssignKeeps ==
  ASSUME RegionInv, NEW j \in RegionJobs, AssignRows(j)
  PROVE  PartsThen
<1> DEFINE p == job[j].at
<1>0. RegionTypes /\ job[j] \in JobStates /\ known \in [Processes -> Copies] /\ LoadsAlone
  BY InvFacts DEF RegionTypes
<1>1. /\ job[j].pc = "assign" /\ known' = [known EXCEPT ![p] = job[j].seen]
      /\ UNCHANGED << setting, topics, created, queues, troubles, crossed, missed, left >>
  BY DEF AssignRows
<1>2. /\ job'[j].pc = job[j].next /\ job'[j].next = "none"
      /\ job'[j].at = p /\ job'[j].region = job[j].region /\ job'[j].topic = job[j].topic
      /\ \A k \in RegionJobs \ {j} : job'[k] = job[k]
  BY <1>0, AssignMoves DEF OthersStay
<1>3. PartsApart
  <2>1. Kept(j)
    BY <1>0, <1>1, <1>2, AssignMoves DEF Kept
  <2> QED
    BY <2>1, ReloadMove
<1>4. \A k \in RegionJobs : job'[k].pc = "assign" => k # j /\ job'[k] = job[k]
  <2>1. job[j].next # "assign"
    BY <1>0 DEF JobStates, JobSteps, Creating, CleaningUp, Ended
  <2> QED
    BY <1>2, <2>1
<1>5. LoadsAlone'
  BY <1>0, <1>1, <1>4 DEF LoadsAlone, RegionJobs, Topics
<1>6. ASSUME NEW c \in Creations PROVE SawOwn(c)' /\ SeenByAll(c)' /\ Knows(c)'
  <2>1. c \in RegionJobs /\ SawOwn(c) /\ SeenByAll(c) /\ Knows(c) /\ InOrder(c)
    BY InvFacts
  <2>2. CASE c = j
    <3>1. SawOwn(c)'
      BY <1>4, <2>2 DEF SawOwn
    <3>2. job'[c].pc \in {"subscribe", "configure"} =>
            job[c].next = "subscribe" /\ job[c].seen[job[c].region] = job[c].topic
      BY <1>1, <1>2, <2>1, <2>2 DEF InOrder, SawOwn
    <3>3. p \in Processes
      BY <1>1, <2>1, <2>2 DEF InOrder
    <3>4. known'[p] = job[j].seen
      BY <1>0, <1>1, <3>3
    <3>5. SeenByAll(c)'
      BY <1>0, <1>1, <1>2, <1>4, <2>2 DEF SeenByAll, LoadsAlone, RegionJobs, Topics
    <3>6. Knows(c)'
      BY <1>2, <2>2, <3>2, <3>4 DEF Knows
    <3> QED
      BY <3>1, <3>5, <3>6
  <2>3. CASE c # j
    <3>1. job'[c] = job[c]
      BY <1>2, <2>1, <2>3
    <3>2. SawOwn(c)' /\ SeenByAll(c)'
      BY <1>1, <1>4, <2>1, <3>1 DEF SawOwn, SeenByAll, RegionJobs, Topics
    <3>3. Knows(c)'
      <4>1. CASE job[c].at = p /\ job[c].pc \in {"subscribe", "configure"}
        <5>1. known'[p] = job[j].seen
          BY <1>0, <1>1, <2>1, <4>1 DEF InOrder
        <5>2. job[j].seen[job[c].region] = job[c].topic \/ p \in crossed
          BY <1>1, <2>1, <4>1 DEF SeenByAll
        <5> QED
          BY <1>1, <3>1, <4>1, <5>1, <5>2 DEF Knows
      <4>2. CASE job[c].at # p
        BY <1>0, <1>1, <2>1, <3>1, <4>2 DEF Knows, InOrder
      <4>3. CASE job[c].pc \notin {"subscribe", "configure"}
        BY <3>1, <4>3 DEF Knows
      <4> QED
        BY <4>1, <4>2, <4>3
    <3> QED
      BY <3>2, <3>3
  <2> QED
    BY <2>2, <2>3
<1> QED
  BY <1>3, <1>5, <1>6 DEF PartsThen, PartsApart

(***************************************************************************)
(* A process dies and starts again.                                        *)
(***************************************************************************)
LEMMA RestartKeeps ==
  ASSUME RegionInv, NEW p \in Processes, Restart(p)
  PROVE  PartsThen
<1> DEFINE Cut(c) == job[c].at = p /\ job[c].pc \notin Ended
           Lost(t) == job[t].at = p /\ job[t].pc \notin Ended \cup {"sent"}
<1>0. /\ RegionTypes /\ known \in [Processes -> Copies]
      /\ queues \in [Processes -> SUBSET SesRegionNames]
      /\ {"none", "done", "failed", "refused", "dead"} = Ended
  BY InvFacts DEF RegionTypes, Ended
<1>1. /\ queues' = [queues EXCEPT ![p] = { r \in SesRegionNames : setting[r] # NoSetting }]
      /\ known' = [known EXCEPT ![p] = NothingKnown] /\ left \subseteq left'
      /\ UNCHANGED << setting, topics, created, crossed, missed >>
  BY ZenonT(60) DEF Restart
<1>2. \A c \in Creations :
        IF Cut(c)
          THEN /\ job'[c].pc = "dead" /\ job'[c].at = job[c].at
               /\ job'[c].region = job[c].region /\ job'[c].topic = job[c].topic
               /\ job[c].topic \in left' \cup {0}
          ELSE job'[c] = job[c]
  BY <1>0, RestartMoves
<1>3. \A t \in Topics :
        IF Lost(t)
          THEN /\ job'[t].pc = (IF job[t].next = "done" THEN "done" ELSE "sent")
               /\ job'[t].next = "none"
          ELSE job'[t] = job[t]
  BY <1>0, RestartMoves
<1> HIDE DEF Cut, Lost
<1>4. \A j \in RegionJobs : job'[j].pc = "assign" => job'[j] = job[j]
  BY <1>2, <1>3 DEF RegionJobs
<1>5. ASSUME NEW c \in Creations
      PROVE  job'[c].topic = job[c].topic /\ job'[c].region = job[c].region
             /\ job'[c].at = job[c].at
  BY <1>2
<1>6. ASSUME NEW t \in Topics
      PROVE  /\ ConfirmsInOrder(t)' /\ Answered(t)'
             /\ (job'[t].pc = "none" <=> job[t].pc = "none")
  <2>1. ConfirmsInOrder(t) /\ Answered(t)
    BY InvFacts
  <2>2. CASE ~Lost(t)
    BY <1>1, <1>3, <2>1, <2>2 DEF ConfirmsInOrder, Answered, Loading
  <2>3. CASE Lost(t)
    <3>1. job[t].pc \in {"reload", "assign", "arrived", "confirm"}
      BY <1>0, <2>1, <2>3 DEF Lost, ConfirmsInOrder
    <3>2. CASE job[t].next = "done"
      <4>1. Loading(t, "done") /\ job'[t].pc = "done" /\ job'[t].next = "none"
        BY <1>3, <2>1, <2>3, <3>1, <3>2 DEF Loading, ConfirmsInOrder
      <4> QED
        BY <1>1, <2>1, <3>1, <4>1 DEF ConfirmsInOrder, Answered, Loading
    <3>3. CASE job[t].next # "done"
      <4>1. job'[t].pc = "sent" /\ job'[t].next = "none"
        BY <1>3, <2>3, <3>3
      <4> QED
        BY <3>1, <4>1 DEF ConfirmsInOrder, Answered, Loading
    <3> QED
      BY <3>2, <3>3
  <2> QED
    BY <2>2, <2>3
<1>7. ASSUME NEW c \in Creations
      PROVE  /\ InOrder(c)' /\ Owns(c)' /\ SawOwn(c)' /\ SeenByAll(c)' /\ Asked(c)' /\ Knows(c)'
  <2>1. /\ InOrder(c) /\ Owns(c) /\ SawOwn(c) /\ SeenByAll(c) /\ Asked(c) /\ Knows(c)
        /\ c \in RegionJobs /\ job[c].topic \in Topics \cup {0}
    BY InvFacts
  <2>2. CASE Cut(c)
    <3>1. /\ job[c].pc # "none" /\ job'[c].pc = "dead"
          /\ job'[c].at = job[c].at /\ job'[c].region = job[c].region
      BY <1>0, <1>2, <2>2 DEF Cut
    <3>2. InOrder(c)' /\ Owns(c)'
      BY <2>1, <3>1 DEF InOrder, Owns, Early, Holding, Served, Loading
    <3>3. SawOwn(c)' /\ SeenByAll(c)' /\ Asked(c)' /\ Knows(c)'
      BY <3>1 DEF SawOwn, SeenByAll, Asked, Knows, Subscribed, Loading
    <3> QED
      BY <3>2, <3>3
  <2>3. CASE ~Cut(c)
    <3>1. job'[c] = job[c]
      BY <1>2, <2>3
    <3>2. InOrder(c)'
      BY <2>1, <3>1 DEF InOrder, Early, Holding, Loading
    <3>3. Owns(c)'
      <4>1. ASSUME Served(c) PROVE job[c].region \in queues'[job[c].at]
        <5>1. /\ job[c].region \in SesRegionNames /\ job[c].at \in Processes
              /\ job[c].topic # 0 /\ Own(c) /\ job[c].region \in queues[job[c].at]
          BY <2>1, <4>1 DEF InOrder, Owns, Holding, Served, Loading
        <5>2. setting[job[c].region] # NoSetting
          BY <5>1 DEF Own, NoSetting
        <5> QED
          BY <1>0, <1>1, <5>1, <5>2
      <4> QED
        BY <1>1, <2>1, <3>1, <4>1 DEF Owns, Own, Holding, Served, Loading
    <3>4. SawOwn(c)' /\ SeenByAll(c)'
      BY <1>1, <1>4, <2>1, <3>1 DEF SawOwn, SeenByAll, RegionJobs, Topics
    <3>5. Knows(c)'
      <4>1. CASE job[c].pc \in {"subscribe", "configure"}
        <5>1. job[c].at # p /\ job[c].at \in Processes
          BY <1>0, <2>1, <2>3, <4>1 DEF Cut, InOrder
        <5> QED
          BY <1>0, <1>1, <2>1, <3>1, <5>1 DEF Knows
      <4>2. CASE job[c].pc \notin {"subscribe", "configure"}
        BY <3>1, <4>2 DEF Knows
      <4> QED
        BY <4>1, <4>2
    <3>6. Asked(c)'
      <4>1. job[c].topic = 0 =>
              ~(Subscribed(c) \/ job[c].pc \in {"row", "subscribe"} \/ Loading(c, "subscribe"))
        BY <2>1 DEF InOrder, Subscribed, Holding
      <4> QED
        BY <1>6, <2>1, <3>1, <4>1 DEF Asked, Subscribed, Loading
    <3> QED
      BY <3>2, <3>3, <3>4, <3>5, <3>6
  <2> QED
    BY <2>2, <2>3
<1>8. ASSUME NEW r \in SesRegionNames PROVE SettingIsOwn(r)' /\ RowHasTopic(r)'
  <2>1. SettingIsOwn(r) /\ RowHasTopic(r)
    BY InvFacts
  <2>2. SettingIsOwn(r)'
    BY <1>1, <1>5, <2>1 DEF SettingIsOwn
  <2>3. RowHasTopic(r)'
    <3>1. CASE setting[r] # NoSetting /\ \E d \in Creations :
                 job[d].topic = setting[r].topic /\ job[d].pc = "dropSetting"
      <4>1. PICK d \in Creations : job[d].topic = setting[r].topic /\ job[d].pc = "dropSetting"
        BY <3>1
      <4>2. job[d].topic # 0
        BY <2>1, <3>1, <4>1 DEF SettingIsOwn
      <4>3. Cut(d) => setting[r].topic \in left'
        BY <1>2, <4>1, <4>2
      <4>4. ~Cut(d) => job'[d] = job[d]
        BY <1>2
      <4> QED
        BY <1>1, <4>1, <4>3, <4>4 DEF RowHasTopic
    <3>2. CASE ~(setting[r] # NoSetting /\ \E d \in Creations :
                   job[d].topic = setting[r].topic /\ job[d].pc = "dropSetting")
      BY <1>1, <2>1, <3>2 DEF RowHasTopic
    <3> QED
      BY <3>1, <3>2
  <2> QED
    BY <2>2, <2>3
<1>9. ASSUME NEW t \in topics' PROVE TopicHasRow(t)'
  <2>1. TopicHasRow(t) /\ t # 0
    BY <1>1, InvFacts
  <2>2. CASE \E d \in Creations : job[d].topic = t /\ job[d].pc \in {"row", "dropTopic"}
    <3>1. PICK d \in Creations : job[d].topic = t /\ job[d].pc \in {"row", "dropTopic"}
      BY <2>2
    <3>2. Cut(d) => t \in left'
      BY <1>2, <2>1, <3>1
    <3>3. ~Cut(d) => job'[d] = job[d]
      BY <1>2
    <3> QED
      BY <3>1, <3>2, <3>3 DEF TopicHasRow
  <2>3. CASE t \in left \/ \E r \in SesRegionNames : setting[r].topic = t
    BY <1>1, <2>3 DEF TopicHasRow
  <2> QED
    BY <2>1, <2>2, <2>3 DEF TopicHasRow
<1>10. TopicsAreOwn'
  BY <1>1, <1>5, <1>6, TopicsStayOwn
<1>11. LoadsAlone'
  BY <1>1, <1>4, InvFacts DEF LoadsAlone, RegionJobs, Topics
<1> QED
  BY <1>6, <1>7, <1>8, <1>9, <1>10, <1>11 DEF PartsThen

(***************************************************************************)
(* The theorem.                                                            *)
(***************************************************************************)
LEMMA RegionInvInit == RegionInit => RegionInv
<1> SUFFICES ASSUME RegionInit PROVE RegionInv
  OBVIOUS
<1> USE DEF RegionInit
<1>1. /\ Cardinality(Creations) \in Nat /\ NothingKnown \in Copies
      /\ NoSetting \in Settings /\ NoSetting.topic = 0 /\ NoJob \in JobStates
      /\ NoJob.pc = "none" /\ NoJob.next = "none" /\ NoJob.topic = 0
      /\ Creations \subseteq RegionJobs /\ Topics \subseteq RegionJobs
      /\ \A t \in Topics : t \in Nat /\ t # 0
  BY TopicsFacts DEF NothingKnown, Copies, NoSetting, Settings, NoJob, JobStates, JobPcs,
     JobSteps, Ended
<1>2. RegionTypeOK
  <2>1. RegionTypes
    BY <1>1, TroublesAssumption DEF RegionTypes
  <2> QED
    BY <2>1, RegionTypesAre
<1>3. \A j \in RegionJobs : job[j] = NoJob
  OBVIOUS
<1>4. \A r \in SesRegionNames : setting[r] = NoSetting
  OBVIOUS
<1>5. CreationsInOrder /\ ConfirmationsInOrder
  BY <1>1, <1>3 DEF CreationsInOrder, ConfirmationsInOrder, InOrder, ConfirmsInOrder, Early,
     Holding, Loading
<1>6. TopicsAreOwn
  <2>1. { c \in Creations : job[c].topic # 0 } = {}
    BY <1>1, <1>3
  <2> QED
    BY <1>1, <1>3, <2>1, FS_EmptySet, SMTT(30) DEF TopicsAreOwn
<1>7. SettingsAreOwn /\ TopicsHaveRows
  BY <1>1, <1>4 DEF SettingsAreOwn, SettingIsOwn, TopicsHaveRows
<1>8. HoldersOwn /\ LoadsInOrder /\ ConfirmationsKept /\ CreatorKnowsTopic
  BY <1>1, <1>3 DEF HoldersOwn, Owns, Holding, Served, Loading, LoadsInOrder, LoadsAlone,
     SawOwn, SeenByAll, ConfirmationsKept, Answered, Asked, Subscribed, CreatorKnowsTopic
<1> QED
  BY <1>2, <1>5, <1>6, <1>7, <1>8 DEF RegionInv

LEMMA RegionInvNext == RegionInv /\ [RegionNext]_regionVars => RegionInv'
<1>1. ASSUME RegionInv, RegionNext PROVE RegionInv'
  <2>1. RegionTypeOK'
    BY <1>1, RegionTypesNext
  <2>2. ASSUME NEW c \in Creations, Create(c) \/ CreateFails(c) PROVE PartsThen
    <3>1. CASE CreateSesSetting(c)
      BY <1>1, <3>1, BeginKeeps
    <3>2. CASE CreateTopic(c)
      BY <1>1, <3>2, TopicKeeps
    <3>3. CASE CreateRow(c)
      BY <1>1, <3>3, RowKeeps, QuietKeeps
    <3>4. CASE SubscribeEndpoint(c)
      BY <1>1, <3>4, SubscribeKeeps
    <3>5. CASE RegisterConfigurationSet(c)
      BY <1>1, <3>5, RegisterKeeps
    <3>6. CASE DropSetting(c)
      BY <1>1, <3>6, DropSettingKeeps
    <3>7. CASE RefuseRegion(c) \/ DropTopic(c)
      BY <1>1, <3>7, QuietKeeps
    <3>8. CASE CreateFails(c)
      <4>1. CASE CallFails(c)
        BY <1>1, <4>1, QuietKeeps
      <4>2. CASE DropTopicFails(c)
        BY <1>1, <4>2, QuietKeeps
      <4>3. CASE CleanUpFails(c)
        BY <1>1, <4>3, QuietKeeps
      <4> QED
        BY <3>8, <4>1, <4>2, <4>3 DEF CreateFails
    <3> QED
      BY <2>2, <3>1, <3>2, <3>3, <3>4, <3>5, <3>6, <3>7, <3>8 DEF Create
  <2>3. ASSUME NEW t \in Topics, Confirm(t) \/ ConfirmationFails(t) PROVE PartsThen
    BY <1>1, <2>3, ConfirmKeeps
  <2>4. ASSUME NEW j \in RegionJobs, ReadRows(j) \/ AssignRows(j) PROVE PartsThen
    BY <1>1, <2>4, ReadKeeps, AssignKeeps
  <2>5. ASSUME NEW p \in Processes, Restart(p) PROVE PartsThen
    BY <1>1, <2>5, RestartKeeps
  <2>6. PartsThen
    BY <1>1, <2>2, <2>3, <2>4, <2>5 DEF RegionNext
  <2> QED
    BY <2>1, <2>6, PartsMakeInv
<1>2. ASSUME RegionInv, UNCHANGED regionVars PROVE RegionInv'
  <2> USE <1>2 DEF regionVars
  <2>1. RegionTypeOK'
    BY DEF RegionInv, RegionTypeOK, Topics, RegionJobs
  <2>a. TopicsAreOwn'
    BY DEF RegionInv, TopicsAreOwn, Topics
  <2>b. SettingsAreOwn' /\ TopicsHaveRows' /\ CreatorKnowsTopic'
    BY DEF RegionInv, SettingsAreOwn, SettingIsOwn, TopicsHaveRows, CreatorKnowsTopic
  <2>2. CreationsInOrder' /\ ConfirmationsInOrder'
    BY DEF RegionInv, CreationsInOrder, InOrder, ConfirmationsInOrder, ConfirmsInOrder, Early,
       Holding, Loading
  <2>3. HoldersOwn' /\ LoadsInOrder'
    BY DEF RegionInv, HoldersOwn, Owns, Own, Holding, Served, Loading, LoadsInOrder, LoadsAlone,
       SawOwn, SeenByAll
  <2>4. ConfirmationsKept'
    BY DEF RegionInv, ConfirmationsKept, Answered, Asked, Subscribed, Loading
  <2> QED
    BY <2>1, <2>a, <2>b, <2>2, <2>3, <2>4 DEF RegionInv
<1> QED
  BY <1>1, <1>2

LEMMA InvMakesWhole == RegionInv => RegionsAreWhole
<1> SUFFICES ASSUME RegionInv PROVE RegionsAreWhole
  OBVIOUS
<1>1. CreatorKnowsTopic /\ TopicsHaveRows
  BY DEF RegionInv
<1>2. DoneIsServed
  BY InvFacts DEF DoneIsServed, Owns, Holding, Served
<1>3. ConfirmationCounts
  <2> SUFFICES ASSUME NEW c \in Creations, job[c].pc = "done", job[job[c].topic].pc \in Ended,
                      job[c].topic \notin missed
              PROVE  setting[job[c].region].confirmed
    BY DEF ConfirmationCounts
  <2>1. /\ job[c].topic \in Topics /\ Own(c) /\ job[job[c].topic].pc # "none"
        /\ job[c].region \in SesRegionNames
    BY InvFacts DEF InOrder, Owns, Holding, Asked, Subscribed
  <2>2. ConfirmsInOrder(job[c].topic) /\ Answered(job[c].topic)
    BY <2>1, InvFacts
  <2>3. job[job[c].topic].pc \in {"refused", "done"}
    BY <2>1, <2>2 DEF ConfirmsInOrder, Ended
  <2> QED
    BY <2>1, <2>2, <2>3 DEF Answered, Own
<1> QED
  BY <1>1, <1>2, <1>3 DEF RegionsAreWhole

\* Whatever reloads cross, creations fail or race, and processes restart: the
\* process that made a region can take its confirmation, no topic and no row is
\* left without the other except where a clean-up was cut off, a finished
\* region is served, and an answered confirmation confirmed it or was missed
\* by a process whose copy was older.
THEOREM RegionsAreAlwaysWhole == RegionSpec => []RegionsAreWhole
<1>1. RegionSpec => []RegionInv
  BY RegionInvInit, RegionInvNext, PTL DEF RegionSpec
<1> QED
  BY <1>1, InvMakesWhole, PTL
==============================================================================
