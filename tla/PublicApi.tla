------------------------------ MODULE PublicApi ------------------------------
(***************************************************************************)
(* A team's requests to POST /v1/emails, from the door to the mail: the    *)
(* API key, the rate limiter's counter in Redis, the handler with its      *)
(* Idempotency-Key (Idempotency) and, as the operation it guards, sendEmail*)
(* up to the row it creates, which asks the team's suppression list        *)
(* (SuppressionList) about the one recipient.  Keys are deleted and the    *)
(* list changes while requests are on their way.                           *)
(*                                                                         *)
(* lost and free are history.                                              *)
(***************************************************************************)
EXTENDS Idempotency, SuppressionList

CONSTANTS
  Keyless,    \* requests without an Idempotency-Key
  Limit,      \* the team's apiRateLimit
  MaxMishaps  \* bound: calls of the limiter or the list cut off or failing

ASSUME KeylessAssumption == Keyless \cap Requests = {}
ASSUME LimitAssumption == Limit \in Nat \ {0} /\ MaxMishaps \in Nat

Calls == Requests \cup Keyless

VARIABLES
  selfHosted, \* isSelfHosted(): no limiter
  apiKey,     \* whether the row of the team's key is there
  gate,       \* gate[r]: how far r has come towards its handler
  stage,      \* stage[r]: how far its operation has come
  counter,    \* the team's counter in Redis, 0: no such key
  ticking,    \* whether it has a TTL
  mishaps,
  lost,       \* an EXPIRE was not made
  free        \* free[r]: the address was off the list, or it could not be read, since r came

doorVars == << selfHosted, apiKey, gate, counter, ticking >>
apiVars == << doorVars, stage, mishaps, lost, free, idemVars, suppressionVars >>

Gates == { "out", "known", "first", "in", "forbidden", "refused", "dead" }
Stages == { "new", "authorized", "clear", "listed", "mailed", "suppressed", "error" }

ApiTypeOK ==
  /\ selfHosted \in BOOLEAN /\ apiKey \in BOOLEAN
  /\ gate \in [Calls -> Gates] /\ stage \in [Calls -> Stages]
  /\ counter \in Nat /\ ticking \in BOOLEAN
  /\ mishaps \in 0 .. MaxMishaps /\ lost \in BOOLEAN /\ free \in [Calls -> BOOLEAN]

ApiInit ==
  /\ IdemInit /\ SuppressionInit
  /\ selfHosted \in BOOLEAN /\ apiKey = TRUE
  /\ gate = [r \in Calls |-> "out"] /\ stage = [r \in Calls |-> "new"]
  /\ counter = 0 /\ ticking = FALSE
  /\ mishaps = 0 /\ lost = FALSE
  /\ free = [r \in Calls |-> FALSE]

Mishap == mishaps < MaxMishaps /\ mishaps' = mishaps + 1
Pass(r, g) == gate' = [gate EXCEPT ![r] = g]
ToStage(r, s) == stage' = [stage EXCEPT ![r] = s]

-----------------------------------------------------------------------------
\* The door.

\* getTeamFromToken, and the limiter's way out without Redis.
Authenticate(r) ==
  /\ gate[r] = "out"
  /\ Pass(r, IF ~apiKey THEN "forbidden" ELSE IF selfHosted THEN "in" ELSE "known")
  /\ UNCHANGED << selfHosted, apiKey, counter, ticking, stage, mishaps, lost,
                  idemVars, suppressionVars >>

\* INCR; the first of a window goes on to EXPIRE.
Increment(r) ==
  /\ gate[r] = "known"
  /\ counter' = counter + 1
  /\ Pass(r, IF counter' = 1 THEN "first" ELSE IF counter' > Limit THEN "refused" ELSE "in")
  /\ UNCHANGED << selfHosted, apiKey, ticking, stage, mishaps, lost,
                  idemVars, suppressionVars >>

\* Mutant of SetExpiry: only a request that is let in on the last place.
SetExpiryLast(r) ==
  /\ gate[r] = "first"
  /\ ticking' = (counter >= Limit)
  /\ Pass(r, "in")
  /\ UNCHANGED << selfHosted, apiKey, counter, stage, mishaps, lost,
                  idemVars, suppressionVars >>

SetExpiry(r) ==
  /\ gate[r] = "first"
  /\ ticking' = TRUE
  /\ Pass(r, "in")
  /\ UNCHANGED << selfHosted, apiKey, counter, stage, mishaps, lost,
                  idemVars, suppressionVars >>

\* Redis fails at INCR, at EXPIRE or, with the counter over the limit, at TTL:
\* the request is let in.
LimiterFails(r) ==
  /\ \/ gate[r] = "known" /\ counter' \in { counter, counter + 1 }
     \/ gate[r] = "first" /\ counter' = counter
  /\ lost' = (lost \/ gate[r] = "first" \/ counter' = 1)
  /\ Pass(r, "in")
  /\ Mishap
  /\ UNCHANGED << selfHosted, apiKey, ticking, stage, idemVars, suppressionVars >>

DiesAtDoor(r) ==
  /\ gate[r] \in {"known", "first"}
  /\ lost' = (lost \/ gate[r] = "first")
  /\ Pass(r, "dead")
  /\ Mishap
  /\ UNCHANGED << selfHosted, apiKey, counter, ticking, stage, idemVars, suppressionVars >>

\* RATE_LIMIT_WINDOW_SECONDS pass, and the key is gone.
WindowEnds ==
  /\ ticking
  /\ counter' = 0 /\ ticking' = FALSE
  /\ UNCHANGED << selfHosted, apiKey, gate, stage, mishaps, lost,
                  idemVars, suppressionVars >>

DeleteApiKey ==
  /\ apiKey /\ apiKey' = FALSE
  /\ UNCHANGED << selfHosted, gate, counter, ticking, stage, mishaps, lost,
                  idemVars, suppressionVars >>

-----------------------------------------------------------------------------
\* sendEmail, for a request whose operation runs.

Operates(r) ==
  IF r \in Requests THEN request[r].pc = "operating" ELSE gate[r] = "in"

\* The key's row is read once more, ...
Authorize(r) ==
  /\ Operates(r) /\ stage[r] = "new" /\ apiKey
  /\ ToStage(r, "authorized")
  /\ UNCHANGED << doorVars, mishaps, lost, idemVars, suppressionVars >>

\* ... and missed if it was deleted on the way.
NotAuthorized(r) ==
  /\ Operates(r) /\ stage[r] = "new" /\ ~apiKey
  /\ ToStage(r, "error")
  /\ IF r \in Requests THEN OperationThrows(r) ELSE UNCHANGED idemVars
  /\ UNCHANGED << doorVars, mishaps, lost, suppressionVars >>

\* Mutant of ReadList: what SES reported is suppressed, what the team listed not.
ReadListReported(r) ==
  /\ Operates(r) /\ stage[r] = "authorized"
  /\ ToStage(r, IF listed \in Reported THEN "listed" ELSE "clear")
  /\ UNCHANGED << doorVars, mishaps, lost, idemVars, suppressionVars >>

\* checkMultipleEmails ...
ReadList(r) ==
  /\ Operates(r) /\ stage[r] = "authorized"
  /\ ToStage(r, IF listed = "no" THEN "clear" ELSE "listed")
  /\ UNCHANGED << doorVars, mishaps, lost, idemVars, suppressionVars >>

\* ... which takes nobody to be suppressed if it cannot read the list.
ReadListFails(r) ==
  /\ Operates(r) /\ stage[r] = "authorized"
  /\ ToStage(r, "clear")
  /\ Mishap
  /\ UNCHANGED << doorVars, lost, idemVars, suppressionVars >>

\* The row is created, to be sent or as SUPPRESSED.
CreateEmail(r) ==
  /\ Operates(r) /\ stage[r] \in {"clear", "listed"}
  /\ ToStage(r, IF stage[r] = "clear" THEN "mailed" ELSE "suppressed")
  /\ IF r \in Requests THEN OperationSends(r) ELSE UNCHANGED idemVars
  /\ UNCHANGED << doorVars, mishaps, lost, suppressionVars >>

\* A later check, the database or the queue throws.
SendThrows(r) ==
  /\ r \in Requests /\ OperationThrows(r)
  /\ stage[r] # "new" /\ ToStage(r, "error")
  /\ UNCHANGED << doorVars, mishaps, lost, suppressionVars >>

\* What withIdempotency does around the operation, and its faults.
Handle(r) ==
  /\ gate[r] = "in"
  /\ \/ CheckResult(r) \/ AcquireLock(r) \/ CheckAgain(r)
     \/ StoreResult(r) \/ StoreFails(r) \/ ReleaseLock(r) \/ RequestDies(r)
  /\ UNCHANGED << doorVars, stage, mishaps, lost, suppressionVars >>

KeysExpire ==
  /\ LockExpires \/ ResultExpires
  /\ UNCHANGED << doorVars, stage, mishaps, lost, suppressionVars >>

ListChanges ==
  /\ SuppressionNext
  /\ UNCHANGED << doorVars, stage, mishaps, lost, idemVars >>

-----------------------------------------------------------------------------
\* History: whether r may be told that the address is not on the list.
FreeAfter ==
  free' = [r \in Calls |-> /\ gate'[r] # "out"
                           /\ free[r] \/ listed' = "no" \/ mishaps' # mishaps]

Door(r) ==
  \/ Authenticate(r) \/ Increment(r) \/ SetExpiry(r) \/ LimiterFails(r) \/ DiesAtDoor(r)

SendEmail(r) ==
  \/ Authorize(r) \/ NotAuthorized(r) \/ ReadList(r) \/ ReadListFails(r)
  \/ CreateEmail(r) \/ SendThrows(r)

ApiNext ==
  /\ \/ \E r \in Calls : Door(r) \/ SendEmail(r)
     \/ \E r \in Requests : Handle(r)
     \/ WindowEnds \/ DeleteApiKey \/ KeysExpire \/ ListChanges
  /\ FreeAfter

ApiSpec == ApiInit /\ [][ApiNext]_apiVars

-----------------------------------------------------------------------------
(* Properties. *)

\* A counter that is there runs out, so that a team over its limit is let in
\* again: only a process that dies, or loses Redis, between INCR and EXPIRE
\* leaves one that stays for good.
CounterRunsOut ==
  /\ counter > 0 => ticking \/ lost \/ \E r \in Calls : gate[r] = "first"
  /\ ticking => counter > 0

\* Nothing is mailed to an address that was on the list from the moment its
\* request came, however the request was held up: but for the mishaps that
\* make the list unreadable.
ListedIsNotMailed == \A r \in Calls : stage[r] = "mailed" => free[r]

\* The list keeps what was reported, and what is on it is kept off the mails.
ListIsKept == SuppressionHolds /\ ListedIsNotMailed

\* What stands before a mail lets through whom it should.
GatesHold == ListIsKept /\ CounterRunsOut
=============================================================================
