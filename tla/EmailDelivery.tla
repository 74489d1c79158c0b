--------------------------- MODULE EmailDelivery ---------------------------
(***************************************************************************)
(* The pipeline and the handlers of SES's notifications together.  They    *)
(* share the Email row and its events, and nothing orders them: an email's *)
(* Send or even Open notification can be handled before the worker stored  *)
(* its message id, while a cancel request is half done, or while a second  *)
(* run of the same job is about to send again.                             *)
(***************************************************************************)
EXTENDS EmailPipeline, SesHook

allVars == << storeVars, pipeVars, hookVars >>

DeliveryInit == Init /\ HookInit

DeliveryNext ==
  \/ Next /\ UNCHANGED hookVars
  \/ HookNext /\ UNCHANGED pipeVars

DeliverySpec == DeliveryInit /\ [][DeliveryNext]_allVars

\* The pipeline's fairness: no notification has to arrive.
DeliveryFairSpec == DeliverySpec /\ Fairness

(***************************************************************************)
(* Whoever writes latestStatus, it never falls back in the enum's order:   *)
(* a cancel that has read SCHEDULED cannot overwrite what a notification   *)
(* has written since, because it must first take the job.  The exceptions  *)
(* are the emails whose job is in the queue though a run of it reached SES *)
(* or though its enqueue was reported as failed.                           *)
(***************************************************************************)
StatusNeverRegresses ==
  [][\A e \in Emails :
       status[e] # "absent" /\ Rank(status'[e]) < Rank(status[e])
         => Met(e, {"stall", "db", "redis"})]_allVars

(***************************************************************************)
(* The row never shows less than what SES reported for it, with the same   *)
(* exceptions: only a late cancel can hide a report.                       *)
(***************************************************************************)
ReportsAreShown ==
  \A e \in Emails : \A s \in Reported(e) :
    Rank(status[e]) >= Rank(s) \/ Met(e, {"stall", "db"})

(***************************************************************************)
(* A cancelled or suppressed email has no report of SES: SES never had it. *)
(***************************************************************************)
WithdrawnHasNoReport ==
  \A e \in Emails :
    Reported(e) # {} =>
      /\ status[e] # "SUPPRESSED"
      /\ Withdrawn(e) => Met(e, {"stall", "db"})

(***************************************************************************)
(* The id that ties the row to SES is one of its own messages, and an      *)
(* email whose run wrote nothing down gets it from the first notification. *)
(***************************************************************************)
ReportsAreTraceable ==
  \A e \in Emails :
    /\ sesId[e] \in accepted[e] \cup {0}
    /\ Reported(e) # {} => sesId[e] # 0

(***************************************************************************)
(* What the row shows is what SES reported.                                *)
(***************************************************************************)
ReportsAgree == ReportsAreShown /\ WithdrawnHasNoReport /\ ReportsAreTraceable

(***************************************************************************)
(* A status that was shown is not taken back, in the enum's order or out   *)
(* of a final one, by whichever of worker, API and handler writes last.    *)
(***************************************************************************)
StatusOnlyAdvances == StatusNeverRegresses /\ FinalStatusSticks
=============================================================================
