------------------------------ MODULE SesHook ------------------------------
(***************************************************************************)
(* SesHookParser: what an SES notification does to an email's row, its     *)
(* events, the usage counters of the team, the counters of the campaign,   *)
(* the suppression list and the contact's subscription.                    *)
(*                                                                         *)
(* Notifications reach /api/ses_callback by SNS, in any order and any      *)
(* number of times; a BullMQ worker with concurrency 50 handles them, so   *)
(* that the awaits of several handlers of one email interleave.            *)
(***************************************************************************)
EXTENDS EmailStore

CONSTANTS
  Notifications,   \* the deliveries of SNS, each handled as one job
  HookEvents,      \* the statuses the notifications of an instance carry
  CampaignEmails   \* the emails that belong to a campaign

ASSUME HookEventsAssumption == HookEvents \subseteq HookStatuses
ASSUME CampaignAssumption == CampaignEmails \subseteq Emails

VARIABLES
  hook,         \* hook[n]: the job of notification n
  usage,        \* usage[e][s]: what e added to dailyEmailUsage's column s
  analytics,    \* analytics[e][s]: what e added to its campaign's counter s
  suppressed,   \* the emails whose recipient is on the suppression list
  unsubscribed, \* the emails whose contact is unsubscribed
  unsubCount    \* unsubCount[e]: what e added to campaign.unsubscribed

hookVars == << hook, usage, analytics, suppressed, unsubscribed, unsubCount >>
countVars == << usage, analytics, suppressed, unsubscribed, unsubCount >>

\* flag: the bounce is permanent, or the clicked link is /unsubscribe.
Notices ==
  { x \in [status : HookEvents, flag : BOOLEAN] :
      x.flag => x.status \in {"BOUNCED", "CLICKED"} }

HookPCs ==
  { "new", "queued", "found", "checked", "advanced", "listed", "counted",
    "unsubscribing", "unsubCounting", "unsubscribed", "analysed", "done", "failed" }

\* Where a handler can be when a fault hits it.
Working == HookPCs \ {"new", "done", "failed"}

HookTypeOK ==
  /\ \A n \in Notifications :
       /\ hook[n].pc \in HookPCs
       /\ hook[n].pc # "new" => /\ hook[n].email \in Emails
                                /\ hook[n].msg \in Runs
                                /\ hook[n].notice \in Notices
       /\ hook[n].existing \in BOOLEAN
       /\ hook[n].stalls \in 0 .. MaxStalled
  /\ usage \in [Emails -> [UsageStatuses -> Nat]]
  /\ analytics \in [Emails -> [UsageStatuses -> Nat]]
  /\ suppressed \subseteq Emails
  /\ unsubscribed \subseteq CampaignEmails
  /\ unsubCount \in [Emails -> Nat]

HookInit ==
  /\ hook = [n \in Notifications |-> [pc |-> "new", existing |-> FALSE, stalls |-> 0]]
  /\ usage = [e \in Emails |-> [s \in UsageStatuses |-> 0]]
  /\ analytics = [e \in Emails |-> [s \in UsageStatuses |-> 0]]
  /\ suppressed = {}
  /\ unsubscribed = {}
  /\ unsubCount = [e \in Emails |-> 0]

SetHook(n, s) == hook' = [hook EXCEPT ![n].pc = s]

EmailOf(n) == hook[n].email
StatusOf(n) == hook[n].notice.status
HardBounce(n) == StatusOf(n) = "BOUNCED" /\ hook[n].notice.flag
UnsubscribeClick(n) == StatusOf(n) = "CLICKED" /\ hook[n].notice.flag

-----------------------------------------------------------------------------
\* SES reports on a message it accepted, SNS delivers the report, and the
\* callback route queues it: without a job id, so that a redelivery is a job
\* of its own.  The route answers 200 when it cannot queue: nothing happens.
Notify(n) ==
  /\ hook[n].pc = "new"
  /\ \E e \in Emails, x \in Notices : \E m \in accepted[e] :
       hook' = [hook EXCEPT ![n] =
                  [pc |-> "queued", email |-> e, msg |-> m, notice |-> x,
                   existing |-> FALSE, stalls |-> 0]]
  /\ UNCHANGED << storeVars, countVars >>

\* Mutant of Lookup: without the header an email whose id is not stored yet
\* is "not found".
LookupById(n) ==
  LET e == EmailOf(n) IN
  /\ hook[n].pc = "queued"
  /\ SetHook(n, IF sesId[e] # hook[n].msg THEN "done" ELSE "found")
  /\ UNCHANGED << storeVars, countVars >>

\* Mutant of Lookup: the header finds the row, and the id is not written.
LookupKeepsId(n) ==
  /\ hook[n].pc = "queued"
  /\ SetHook(n, "found")
  /\ UNCHANGED << storeVars, countVars >>

\* The row is found by sesEmailId or else by the X-Usesend-Email-ID header;
\* the second way writes sesEmailId.  A repeated delivery delay ends here.
Lookup(n) ==
  LET e == EmailOf(n) IN
  /\ hook[n].pc = "queued"
  /\ sesId' = [sesId EXCEPT ![e] = hook[n].msg]
  /\ SetHook(n, IF status[e] = "DELIVERY_DELAYED" /\ StatusOf(n) = "DELIVERY_DELAYED"
                  THEN "done" ELSE "found")
  /\ UNCHANGED << status, events, accepted, suffered, countVars >>

\* existingMailEvent: has an event of this status been recorded yet?
CheckExisting(n) ==
  LET e == EmailOf(n)
      asked == e \in CampaignEmails \/ StatusOf(n) \in EngagementStatuses IN
  /\ hook[n].pc = "found"
  /\ hook' = [hook EXCEPT ![n].pc = "checked",
                          ![n].existing = asked /\ events[e][StatusOf(n)] > 0]
  /\ UNCHANGED << storeVars, countVars >>

\* Mutant of AdvanceStatus: the last notification wins.
AdvanceStatusBlindly(n) ==
  LET e == EmailOf(n) IN
  /\ hook[n].pc = "checked"
  /\ SetStatus(e, StatusOf(n))
  /\ SetHook(n, "advanced")
  /\ UNCHANGED << events, sesId, accepted, suffered, countVars >>

\* One UPDATE statement: the comparison and the write are atomic.
AdvanceStatus(n) ==
  LET e == EmailOf(n) IN
  /\ hook[n].pc = "checked"
  /\ SetStatus(e, Advance(status[e], StatusOf(n)))
  /\ SetHook(n, "advanced")
  /\ UNCHANGED << events, sesId, accepted, suffered, countVars >>

\* Mutant of AddSuppression: complaints are forgotten.
AddSuppressionForBounce(n) ==
  LET e == EmailOf(n) IN
  /\ hook[n].pc = "advanced"
  /\ SetHook(n, "listed")
  /\ suppressed' = IF HardBounce(n) THEN suppressed \cup {e} ELSE suppressed
  /\ UNCHANGED << storeVars, usage, analytics, unsubscribed, unsubCount >>

\* A hard bounce or a complaint puts the recipient on the suppression list; a
\* failure to do so is logged and the handler goes on.
AddSuppression(n) ==
  LET e == EmailOf(n) IN
  /\ hook[n].pc = "advanced"
  /\ SetHook(n, "listed")
  /\ IF HardBounce(n) \/ StatusOf(n) = "COMPLAINED"
       THEN \/ suppressed' = suppressed \cup {e} /\ UNCHANGED suffered
            \/ Suffer(e, "hook") /\ UNCHANGED suppressed
       ELSE UNCHANGED << suffered, suppressed >>
  /\ UNCHANGED << status, events, sesId, accepted, usage, analytics, unsubscribed, unsubCount >>

\* Mutant of CountUsage: any repeated status of a campaign's email is dropped.
CountUsageFirst(n) ==
  LET e == EmailOf(n)
      s == StatusOf(n) IN
  /\ hook[n].pc = "listed"
  /\ SetHook(n, "counted")
  /\ usage' = IF s \in UsageStatuses /\ ~ hook[n].existing
                THEN [usage EXCEPT ![e][s] = @ + 1] ELSE usage
  /\ UNCHANGED << storeVars, analytics, suppressed, unsubscribed, unsubCount >>

\* dailyEmailUsage: every notification counts, but a repeated open or click.
CountUsage(n) ==
  LET e == EmailOf(n)
      s == StatusOf(n)
      duplicate == hook[n].existing /\ s \in EngagementStatuses IN
  /\ hook[n].pc = "listed"
  /\ SetHook(n, "counted")
  /\ usage' = IF s \in UsageStatuses /\ ~ duplicate
                THEN [usage EXCEPT ![e][s] = @ + 1] ELSE usage
  /\ UNCHANGED << storeVars, analytics, suppressed, unsubscribed, unsubCount >>

\* checkUnsubscribe reads the contact: only one that is subscribed, and only
\* for a hard bounce or a complaint, goes on to be written.
CheckUnsubscribe(n) ==
  LET e == EmailOf(n) IN
  /\ hook[n].pc = "counted"
  /\ SetHook(n, IF /\ e \in CampaignEmails \ unsubscribed
                   /\ HardBounce(n) \/ StatusOf(n) = "COMPLAINED"
                  THEN "unsubscribing" ELSE "unsubscribed")
  /\ UNCHANGED << storeVars, countVars >>

UnsubscribeContact(n) ==
  /\ hook[n].pc = "unsubscribing"
  /\ unsubscribed' = unsubscribed \cup {EmailOf(n)}
  /\ SetHook(n, "unsubCounting")
  /\ UNCHANGED << storeVars, usage, analytics, suppressed, unsubCount >>

\* Mutant of CountUnsubscribed: the counter goes down.
CountUnsubscribedDown(n) ==
  /\ hook[n].pc = "unsubCounting"
  /\ unsubCount' = [unsubCount EXCEPT ![EmailOf(n)] = @ - 1]
  /\ SetHook(n, "unsubscribed")
  /\ UNCHANGED << storeVars, usage, analytics, suppressed, unsubscribed >>

CountUnsubscribed(n) ==
  /\ hook[n].pc = "unsubCounting"
  /\ unsubCount' = [unsubCount EXCEPT ![EmailOf(n)] = @ + 1]
  /\ SetHook(n, "unsubscribed")
  /\ UNCHANGED << storeVars, usage, analytics, suppressed, unsubscribed >>

\* Mutant of CountAnalytics: repeated events count.
CountAnalyticsAgain(n) ==
  LET e == EmailOf(n)
      s == StatusOf(n) IN
  /\ hook[n].pc = "unsubscribed"
  /\ SetHook(n, "analysed")
  /\ analytics' = IF e \in CampaignEmails /\ s \in UsageStatuses
                    THEN [analytics EXCEPT ![e][s] = @ + 1] ELSE analytics
  /\ UNCHANGED << storeVars, usage, suppressed, unsubscribed, unsubCount >>

\* updateCampaignAnalytics: the first event of a status, unsubscribe clicks
\* apart.
CountAnalytics(n) ==
  LET e == EmailOf(n)
      s == StatusOf(n) IN
  /\ hook[n].pc = "unsubscribed"
  /\ SetHook(n, "analysed")
  /\ analytics' = IF /\ e \in CampaignEmails /\ s \in UsageStatuses
                     /\ ~ UnsubscribeClick(n) /\ ~ hook[n].existing
                    THEN [analytics EXCEPT ![e][s] = @ + 1] ELSE analytics
  /\ UNCHANGED << storeVars, usage, suppressed, unsubscribed, unsubCount >>

RecordEvent(n) ==
  /\ hook[n].pc = "analysed"
  /\ AddEvent(EmailOf(n), StatusOf(n))
  /\ SetHook(n, "done")
  /\ UNCHANGED << status, sesId, accepted, suffered, countVars >>

\* A write fails: the job is not retried.
HookFails(n) ==
  /\ hook[n].pc \in Working
  /\ Suffer(EmailOf(n), "hook")
  /\ SetHook(n, "failed")
  /\ UNCHANGED << status, events, sesId, accepted, countVars >>

\* The worker dies: BullMQ finds the job stalled and runs it from the top.
HookStalls(n) ==
  /\ hook[n].pc \in Working
  /\ Suffer(EmailOf(n), "hook")
  /\ IF hook[n].stalls < MaxStalled
       THEN hook' = [hook EXCEPT ![n].pc = "queued", ![n].stalls = @ + 1]
       ELSE SetHook(n, "failed")
  /\ UNCHANGED << status, events, sesId, accepted, countVars >>

HookProgress(n) ==
  \/ Lookup(n) \/ CheckExisting(n) \/ AdvanceStatus(n) \/ AddSuppression(n)
  \/ CountUsage(n) \/ CheckUnsubscribe(n) \/ UnsubscribeContact(n)
  \/ CountUnsubscribed(n) \/ CountAnalytics(n) \/ RecordEvent(n)

HookNext ==
  \E n \in Notifications :
    Notify(n) \/ HookProgress(n) \/ HookFails(n) \/ HookStalls(n)

-----------------------------------------------------------------------------
(***************************************************************************)
(* SesHook on its own: SES has accepted a message for each email, which is *)
(* shown as QUEUED or, when it had been scheduled, still as SCHEDULED, and *)
(* the worker has stored the message's id or is about to.                  *)
(***************************************************************************)
SentInit ==
  /\ status \in [Emails -> {"QUEUED", "SCHEDULED"}]
  /\ events = [e \in Emails |-> [s \in EmailStatuses |-> 0]]
  /\ sesId \in [Emails -> {0, 1}]
  /\ accepted = [e \in Emails |-> {1}]
  /\ suffered = [e \in Emails |-> {}]
  /\ HookInit

hookSpecVars == << storeVars, hookVars >>

HookSpec ==
  /\ SentInit /\ [][HookNext]_hookSpecVars
  /\ \A n \in Notifications : WF_hookSpecVars(HookProgress(n))

-----------------------------------------------------------------------------
(* Properties *)

HookTypeInv == StoreTypeOK /\ HookTypeOK

Unharmed(e) == "hook" \notin suffered[e]

\* The notifications of e that are being handled.
Handling(e) ==
  {n \in Notifications : hook[n].pc \notin {"new", "done", "failed"} /\ hook[n].email = e}

Quiet(e) == Handling(e) = {}

\* The statuses that the handlers have let into latestStatus.
Reported(e) ==
  {s \in HookStatuses : events[e][s] > 0}
    \cup {StatusOf(n) : n \in {h \in Handling(e) :
            hook[h].pc \notin {"queued", "found", "checked"}}}

(***************************************************************************)
(* In whatever order and however often notifications are handled,          *)
(* latestStatus is the highest status that was reported, or is still as    *)
(* the send left it if nothing higher was: no late Delivery hides a        *)
(* Complaint, and no status is shown that SES did not report.              *)
(***************************************************************************)
StatusIsHighestReported ==
  \A e \in Emails :
    /\ \A s \in Reported(e) : Rank(status[e]) >= Rank(s)
    /\ status[e] \in HookStatuses /\ Unharmed(e) => status[e] \in Reported(e)

(***************************************************************************)
(* The team's usage agrees with the events: when nothing is in progress    *)
(* each bounce, delivery, complaint and send was counted as often as it    *)
(* was recorded, and an open or click at least once and no more often.     *)
(***************************************************************************)
UsageMatchesEvents ==
  \A e \in Emails : Quiet(e) /\ Unharmed(e) =>
    \A s \in UsageStatuses :
      IF s \in EngagementStatuses
        THEN /\ events[e][s] > 0 <=> usage[e][s] > 0
             /\ usage[e][s] <= events[e][s]
        ELSE usage[e][s] = events[e][s]

(***************************************************************************)
(* A campaign's counter never runs ahead of the team's usage by more than  *)
(* the handlers that are between the two, for they are written in that     *)
(* order and an email's counts in the campaign are among those of usage.   *)
(***************************************************************************)
AnalyticsWithinUsage ==
  \A e \in Emails, s \in UsageStatuses : analytics[e][s] <= usage[e][s]

(***************************************************************************)
(* A recorded complaint means a suppressed recipient and, for a campaign's *)
(* email, an unsubscribed contact, unless a write was lost.                *)
(***************************************************************************)
ComplaintTakesEffect ==
  \A e \in Emails : events[e]["COMPLAINED"] > 0 /\ Unharmed(e) =>
    e \in suppressed /\ (e \in CampaignEmails => e \in unsubscribed)

(***************************************************************************)
(* A notification that was queued reaches the row: in the end the status   *)
(* is at least what it reported, unless its handler is hit by a fault.     *)
(***************************************************************************)
NotificationTakesEffect ==
  \A n \in Notifications, e \in Emails, s \in HookEvents :
    hook[n].pc = "queued" /\ EmailOf(n) = e /\ StatusOf(n) = s
      ~> Rank(status[e]) >= Rank(s) \/ ~ Unharmed(e)

(***************************************************************************)
(* The effects of the handled notifications agree with their events: the   *)
(* email's status, the counters of the team and of the campaign,           *)
(* suppression, unsubscription.                                            *)
(***************************************************************************)
EffectsAgree ==
  /\ HookTypeInv /\ StatusIsHighestReported
  /\ UsageMatchesEvents /\ AnalyticsWithinUsage /\ ComplaintTakesEffect
=============================================================================
