----------------------------- MODULE MCSesHook -----------------------------
(* The instance of SesHook that TLC checks, and beside it one of BulkSend: *)
(* a batch of three emails, sent again after an error.  They share no      *)
(* state and a behaviour follows one of them.                              *)
EXTENDS SesHook, BulkSend

CONSTANTS f1, f2, r1, r2

\* The first email and the third are of one sender, the second of another.
BatchesFew ==
  LET email(f, s, l) == [from |-> f, says |-> s, listed |-> l] IN
  { << email(f1, "words", p), email(f2, s, q), email(f1, t, r) >> :
      s \in {"words", "torn"}, t \in {"words", "nothing"}, p, q, r \in BOOLEAN }
RegionOfSender == [f \in Senders |-> IF f = f1 THEN r1 ELSE r2]

NoHookStep ==
  /\ \A n \in Notifications : hook[n].pc = "new"
  /\ \A e \in Emails : status[e] = "QUEUED" /\ sesId[e] = 0
  /\ UNCHANGED hookSpecVars
NoBatchStep ==
  /\ attempt = [a \in Attempts |-> NoAttempt] /\ faults = 0 /\ verified = Senders
  /\ \A i \in Entries : batch[i].says = "words" /\ ~ batch[i].listed
  /\ UNCHANGED batchVars

MailInit == SentInit /\ BatchInit
MailNext ==
  \/ NoBatchStep /\ HookNext
  \/ NoHookStep /\ BatchNext
MailSpec ==
  /\ MailInit /\ [][MailNext]_<< hookSpecVars, batchVars >>
  /\ \A n \in Notifications : WF_hookSpecVars(HookProgress(n))

-----------------------------------------------------------------------------
(* A property. *)

\* What SES reports takes its effects once, and a batch is as its answer says
\* (SesHook and BulkSend state the parts).
MailIsAccountedFor == EffectsAgree /\ BatchHolds
=============================================================================
