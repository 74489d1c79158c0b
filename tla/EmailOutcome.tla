---------------------------- MODULE EmailOutcome ----------------------------
(***************************************************************************)
(* What sending promises to the caller, whatever the machinery behind it:  *)
(* an email that was taken over is resolved exactly once, by being sent,   *)
(* given up as failed, or cancelled, and a resolution is never revised.    *)
(* An email that a fault hits is excused from this.  EmailPipeline         *)
(* implements the promise, and its own properties say what each kind of    *)
(* fault does to it.                                                       *)
(***************************************************************************)
CONSTANT Emails

VARIABLE outcome

Init == outcome = [e \in Emails |-> "new"]

\* The caller's email is taken over, or all its recipients are suppressed.
Take(e) ==
  /\ outcome[e] = "new"
  /\ \E o \in {"pending", "suppressed"} : outcome' = [outcome EXCEPT ![e] = o]

Resolve(e) ==
  /\ outcome[e] = "pending"
  /\ \E o \in {"sent", "failed", "cancelled"} :
       outcome' = [outcome EXCEPT ![e] = o]

\* A fault hits the emails of S: all of a request that dies, for one.
Excuse(S) ==
  outcome' = [e \in Emails |-> IF e \in S THEN "excused" ELSE outcome[e]]

Next ==
  \/ \E e \in Emails : Take(e) \/ Resolve(e)
  \/ \E S \in SUBSET Emails : Excuse(S)

Spec ==
  /\ Init /\ [][Next]_outcome
  /\ \A e \in Emails : WF_outcome(Resolve(e))
=============================================================================
