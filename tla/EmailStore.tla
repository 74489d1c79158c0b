----------------------------- MODULE EmailStore -----------------------------
(***************************************************************************)
(* The state that the senders of an email and the handlers of SES's        *)
(* notifications share: the Email row, its EmailEvent rows, and the        *)
(* messages SES accepted on its behalf.  SES gives each accepted message   *)
(* an id; an email's n-th run of executeEmail can get at most one, so the  *)
(* run's number stands for it.                                             *)
(*                                                                         *)
(* Faults are choices of the environment.  A configuration says in Faults  *)
(* which kinds may happen, and `suffered` records which an email met, so   *)
(* that a property can say exactly what it takes to break a promise.       *)
(***************************************************************************)
EXTENDS EmailStatus, FiniteSets

CONSTANTS
  Emails,       \* the rows of table Email
  MaxStalled,   \* BullMQ's maxStalledCount: how often a stalled job is requeued
  Faults,       \* the kinds of faults the environment may inject
  MaxFaults     \* bound: the kinds of faults one email meets

ASSUME EmailsAssumption == Emails # {}

ASSUME MaxStalledAssumption == MaxStalled \in Nat

(***************************************************************************)
(*   stall   a worker stops renewing its job's lock: it died, or is slow   *)
(*   crash   an API process dies in a request, or one of its writes fails  *)
(*   db      a worker's write to Postgres fails                            *)
(*   ses     SES accepts a message and the worker sees an error            *)
(*   redis   an enqueue reports an error but the job is there, or a bulk   *)
(*           group has no queue or cannot be added                         *)
(*   config  no configuration set for the region, or looking it up throws  *)
(*   hook    a job that handles a notification dies, or one of its writes  *)
(*           fails                                                         *)
(***************************************************************************)
FaultKinds == { "stall", "crash", "db", "ses", "redis", "config", "hook" }

ASSUME FaultsAssumption == Faults \subseteq FaultKinds /\ MaxFaults \in Nat

Runs == 1 .. (MaxStalled + 1)

VARIABLES
  status,     \* status[e]: latestStatus, "absent" before the row exists
  events,     \* events[e][s]: number of EmailEvent rows of e with status s
  sesId,      \* sesId[e]: Email.sesEmailId, 0 for NULL
  accepted,   \* accepted[e]: the messages SES accepted for e
  suffered    \* suffered[e]: the faults e met (history)

storeVars == << status, events, sesId, accepted, suffered >>

StoreTypeOK ==
  /\ status \in [Emails -> EmailStatuses \cup {"absent"}]
  /\ events \in [Emails -> [EmailStatuses -> Nat]]
  /\ sesId \in [Emails -> Runs \cup {0}]
  /\ accepted \in [Emails -> SUBSET Runs]
  /\ suffered \in [Emails -> SUBSET FaultKinds]

StoreInit ==
  /\ status = [e \in Emails |-> "absent"]
  /\ events = [e \in Emails |-> [s \in EmailStatuses |-> 0]]
  /\ sesId = [e \in Emails |-> 0]
  /\ accepted = [e \in Emails |-> {}]
  /\ suffered = [e \in Emails |-> {}]

\* db.email.update({ latestStatus })
SetStatus(e, s) == status' = [status EXCEPT ![e] = s]

\* db.emailEvent.create
AddEvent(e, s) == events' = [events EXCEPT ![e][s] = @ + 1]

MayMeet(e, f) == f \in Faults /\ Cardinality(suffered[e] \cup {f}) <= MaxFaults

\* A fault of kind f hits e.
Suffer(e, f) ==
  /\ MayMeet(e, f)
  /\ suffered' = [suffered EXCEPT ![e] = @ \cup {f}]
=============================================================================
