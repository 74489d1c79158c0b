--------------------------- MODULE CampaignBatch ---------------------------
(***************************************************************************)
(* One campaign: the requests that schedule, pause, resume and delete it,  *)
(* the scheduler's tick, and the batch worker that walks the contact book  *)
(* in the order of the contacts' ids, mails each subscribed contact and    *)
(* stores how far it got in lastCursor.  While it runs, contacts           *)
(* unsubscribe, come back, are added and are deleted.                      *)
(*                                                                         *)
(* A mail is what the batch makes of one contact: an Email row, its        *)
(* CampaignEmail link and its job in the email queue (EmailPipeline has    *)
(* the rest of its life).  steady, held, skipping and suffered are history.*)
(***************************************************************************)
EXTENDS Naturals, FiniteSets, FiniteSetsExt

CONSTANTS
  Contacts,        \* 1 .. N: the ids, in the order the database sorts them
  FirstContacts,   \* the contacts the book has when the campaign is made
  Suppressed,      \* those on the suppression list
  BatchSize,       \* campaign.batchSize
  MaxStalled,      \* BullMQ's maxStalledCount
  CampaignRequests,\* the requests, each made once
  MaxDisturbances  \* bound: the kinds of faults and the changes to the book, together

ASSUME ContactsAssumption ==
  /\ Contacts \subseteq Nat \ {0} /\ IsFiniteSet(Contacts)
  /\ FirstContacts \subseteq Contacts /\ Suppressed \subseteq Contacts
ASSUME BatchAssumption ==
  /\ BatchSize \in Nat \ {0}
  /\ MaxStalled \in Nat /\ MaxDisturbances \in Nat

CampaignFaults == { "stall", "crash", "db", "render", "redis", "domain" }

VARIABLES
  campaign, \* the row: [status, due, cursor]; due: scheduledAt has passed
  contacts, \* contacts[k]: its state in the book
  edits,    \* the changes made to the book
  request,  \* request[r]: a campaign request
  tick,     \* the scheduler has seen the campaign and is about to queue it
  job,      \* the job campaign-batch-<id>
  run,      \* run[i]: its worker runs, two of them if one stalls
  link,     \* link[k]: the email CampaignEmail has for k
  loose,    \* loose[k]: emails for k without a CampaignEmail, and no job
  sends,    \* sends[k]: jobs put in the email queue for k
  steady,   \* contacts subscribed from the start on
  held,     \* the last pause: the runs under way then, the mails queued since
  skipping, \* a batch began behind a contact that is no longer subscribed
  suffered  \* the faults there were

bookVars == << contacts, edits, steady >>
mailVars == << link, loose, sends >>
campaignVars == << campaign, bookVars, request, tick, job, run, mailVars,
                   held, skipping, suffered >>

Slots == 1 .. MaxStalled + 1
CampaignStatus == { "DRAFT", "SCHEDULED", "RUNNING", "PAUSED", "SENT" }
\* "absent": the id is not given yet.
ContactStates == { "subscribed", "unsubscribed", "deleted", "absent" }
BatchPCs ==
  { "idle", "marking", "finding", "finishing", "checking", "next", "linking",
    "queueing", "recording", "advancing", "leaving" }

CampaignExists == campaign.status # "deleted"
Stopped == [pc |-> "idle", cursor |-> 0, todo |-> {}, last |-> 0, throws |-> FALSE]
NoMail == [state |-> "none", queued |-> FALSE]
NoBatch == [state |-> "none", owner |-> 0, stalls |-> 0]

BatchTypeOK ==
  /\ campaign \in [status : CampaignStatus \cup {"deleted"}, due : BOOLEAN,
                   cursor : Contacts \cup {0}]
  /\ contacts \in [Contacts -> ContactStates]
  /\ edits \in 0 .. MaxDisturbances
  /\ request \in [CampaignRequests -> [pc : {"new", "read", "done"}, reset : BOOLEAN]]
  /\ tick \in BOOLEAN
  /\ job \in [state : {"none", "waiting", "active", "failed"},
              owner : Slots \cup {0}, stalls : 0 .. MaxStalled]
  /\ \A i \in Slots :
       /\ run[i].pc \in BatchPCs
       /\ run[i].cursor \in Contacts \cup {0} /\ run[i].last \in Contacts \cup {0}
       /\ run[i].todo \subseteq Contacts /\ run[i].throws \in BOOLEAN
       /\ run[i].pc \in {"linking", "queueing", "recording"} => run[i].todo # {}
  /\ link \in [Contacts -> [state : {"none", "pending", "failed", "suppressed"},
                            queued : BOOLEAN]]
  /\ loose \in [Contacts -> Nat] /\ sends \in [Contacts -> Nat]
  /\ steady \subseteq Contacts
  /\ held \in [runs : 0 .. MaxStalled + 1, mails : Nat]
  /\ skipping \in BOOLEAN /\ suffered \subseteq CampaignFaults

CampaignInit ==
  /\ campaign = [status |-> "DRAFT", due |-> TRUE, cursor |-> 0]
  /\ contacts = [k \in Contacts |-> IF k \in FirstContacts THEN "subscribed" ELSE "absent"]
  /\ edits = 0 /\ steady = FirstContacts
  /\ request = [r \in CampaignRequests |-> [pc |-> "new", reset |-> FALSE]]
  /\ tick = FALSE
  /\ job = NoBatch
  /\ run = [i \in Slots |-> Stopped]
  /\ link = [k \in Contacts |-> NoMail]
  /\ loose = [k \in Contacts |-> 0] /\ sends = [k \in Contacts |-> 0]
  /\ held = [runs |-> 0, mails |-> 0]
  /\ skipping = FALSE /\ suffered = {}

Suffer(f) ==
  /\ edits + Cardinality(suffered \cup {f}) <= MaxDisturbances
  /\ suffered' = suffered \cup {f}

-----------------------------------------------------------------------------
\* Requests.  Each is allowed in every status.

\* scheduleCampaign reads the row, renders it and counts the contacts ...
ReadForSchedule(r) ==
  /\ request[r].pc = "new" /\ CampaignExists
  /\ \E k \in Contacts : contacts[k] = "subscribed"
  /\ request' = [request EXCEPT ![r] =
                   [pc |-> "read", reset |-> campaign.status \in {"DRAFT", "SENT"}]]
  /\ UNCHANGED << campaign, bookVars, tick, job, run, mailVars,
                  held, skipping, suffered >>

\* ... and writes it with a scheduledAt, now or later; the cursor starts over
\* if the campaign was a draft or sent when it was read.
WriteSchedule(r) ==
  /\ request[r].pc = "read"
  /\ request' = [request EXCEPT ![r].pc = "done"]
  /\ \/ ~CampaignExists /\ UNCHANGED campaign
     \/ /\ CampaignExists
        /\ \E d \in BOOLEAN :
             campaign' = [status |-> "SCHEDULED", due |-> d,
                          cursor |-> IF request[r].reset THEN 0 ELSE campaign.cursor]
  /\ UNCHANGED << bookVars, tick, job, run, mailVars, held, skipping, suffered >>

SetStatus(r, s) ==
  /\ request[r].pc = "new" /\ CampaignExists
  /\ request' = [request EXCEPT ![r].pc = "done"]
  /\ campaign' = [campaign EXCEPT !.status = s]
  /\ UNCHANGED << bookVars, tick, job, run, mailVars, skipping, suffered >>

\* The runs that have read the campaign and are not through.
UnderWay == { i \in Slots : run[i].pc \notin {"idle", "leaving"} }

PauseCampaign(r) ==
  /\ SetStatus(r, "PAUSED")
  /\ held' = [runs |-> Cardinality(UnderWay), mails |-> 0]

ResumeCampaign(r) ==
  /\ SetStatus(r, IF campaign.due THEN "RUNNING" ELSE "SCHEDULED")
  /\ UNCHANGED held

\* The campaign has a mail for k, sent or not.
Reached(k) == link[k].state # "none"

\* deleteCampaign: one transaction on the links and the campaign; the emails
\* lose their links and stay.
DeleteCampaign(r) ==
  /\ request[r].pc = "new" /\ CampaignExists
  /\ request' = [request EXCEPT ![r].pc = "done"]
  /\ campaign' = [campaign EXCEPT !.status = "deleted"]
  /\ link' = [k \in Contacts |-> NoMail]
  /\ loose' = [k \in Contacts |->
                 IF Reached(k) /\ ~link[k].queued THEN loose[k] + 1 ELSE loose[k]]
  /\ UNCHANGED << bookVars, tick, job, run, sends, held, skipping, suffered >>

ScheduledTimePasses ==
  /\ CampaignExists /\ ~campaign.due
  /\ campaign' = [campaign EXCEPT !.due = TRUE]
  /\ UNCHANGED << bookVars, request, tick, job, run, mailVars,
                  held, skipping, suffered >>

\* The contact book changes: a contact unsubscribes, subscribes again, is
\* deleted, or is new, with the next id.
EditContact(k) ==
  /\ edits + Cardinality(suffered) < MaxDisturbances
  /\ edits' = edits + 1
  /\ \/ /\ contacts[k] = "subscribed"
        /\ contacts' = [contacts EXCEPT ![k] = "unsubscribed"]
     \/ /\ contacts[k] = "unsubscribed"
        /\ contacts' = [contacts EXCEPT ![k] = "subscribed"]
     \/ /\ contacts[k] \in {"subscribed", "unsubscribed"}
        /\ contacts' = [contacts EXCEPT ![k] = "deleted"]
     \/ /\ contacts[k] = "absent"
        /\ \A j \in Contacts : j < k => contacts[j] # "absent"
        /\ contacts' = [contacts EXCEPT ![k] = "subscribed"]
  /\ steady' = steady \ {k}
  /\ UNCHANGED << campaign, request, tick, job, run, mailVars,
                  held, skipping, suffered >>

-----------------------------------------------------------------------------
\* The scheduler: a tick every 1.5 seconds reads the campaigns that are due ...
SchedulerTick ==
  /\ ~tick /\ campaign.due /\ campaign.status \in {"SCHEDULED", "RUNNING"}
  /\ tick' = TRUE
  /\ UNCHANGED << campaign, bookVars, request, job, run, mailVars,
                  held, skipping, suffered >>

\* ... and queues a batch, which BullMQ ignores while it has the last one: a
\* failed batch is kept for 30 days.
QueueBatch ==
  /\ tick
  /\ tick' = FALSE
  /\ job' = IF job.state = "none" /\ CampaignExists /\ campaign.status \notin {"PAUSED", "SENT"}
              THEN [job EXCEPT !.state = "waiting"] ELSE job
  /\ UNCHANGED << campaign, bookVars, request, run, mailVars,
                  held, skipping, suffered >>

-----------------------------------------------------------------------------
\* The batch worker, run i.

SetRun(i, s) == run' = [run EXCEPT ![i].pc = s]
LeaveBatch(i) == run' = [run EXCEPT ![i].pc = "leaving", ![i].throws = FALSE]
ThrowBatch(i) == run' = [run EXCEPT ![i].pc = "leaving", ![i].throws = TRUE]

\* Mutant of StartBatch: PAUSED does not end the batch.
StartBatchPaused(i) ==
  /\ job.state = "waiting"
  /\ run[i].pc = "idle" /\ \A j \in Slots : j < i => run[j].pc # "idle"
  /\ job' = [job EXCEPT !.state = "active", !.owner = i]
  /\ run' = [run EXCEPT ![i] =
       [Stopped EXCEPT !.cursor = campaign.cursor,
                       !.pc = IF ~CampaignExists \/ ~campaign.due THEN "leaving"
                              ELSE IF campaign.status = "SCHEDULED" THEN "marking"
                              ELSE "finding"]]
  /\ UNCHANGED << campaign, bookVars, request, tick, mailVars,
                  held, skipping, suffered >>

\* A worker takes the job and reads the campaign: one that is gone, paused or
\* not due ends it, one that is SCHEDULED is about to be RUNNING.
StartBatch(i) ==
  /\ job.state = "waiting"
  /\ run[i].pc = "idle" /\ \A j \in Slots : j < i => run[j].pc # "idle"
  /\ job' = [job EXCEPT !.state = "active", !.owner = i]
  /\ run' = [run EXCEPT ![i] =
       [Stopped EXCEPT !.cursor = campaign.cursor,
                       !.pc = IF ~CampaignExists \/ campaign.status = "PAUSED" \/ ~campaign.due
                                THEN "leaving"
                              ELSE IF campaign.status = "SCHEDULED" THEN "marking"
                              ELSE "finding"]]
  /\ UNCHANGED << campaign, bookVars, request, tick, mailVars,
                  held, skipping, suffered >>

\* The status it writes does not depend on the status by now.
MarkRunning(i) ==
  /\ run[i].pc = "marking" /\ CampaignExists
  /\ campaign' = [campaign EXCEPT !.status = "RUNNING"]
  /\ SetRun(i, "finding")
  /\ UNCHANGED << bookVars, request, tick, job, mailVars, held, skipping, suffered >>

Subscribed == { k \in Contacts : contacts[k] = "subscribed" }

\* What findMany pages over behind a cursor: the subscribed contacts from the
\* cursor's row on, less the first of them (skip: 1).  That one is the cursor's
\* row only while it is subscribed itself; without the row nothing compares.
Behind(cursor) ==
  LET from == { k \in Subscribed : k >= cursor } IN
  IF cursor = 0 THEN Subscribed
  ELSE IF contacts[cursor] = "deleted" THEN {}
  ELSE { k \in from : \E j \in from : j < k }

\* The first n of a set of ids.
FirstOf(n, S) == { k \in S : Cardinality({ j \in S : j <= k }) <= n }

\* Mutant of FindContacts: a page that leaves out one id too many.
FindContactsAgain(i) ==
  /\ run[i].pc = "finding"
  /\ LET batch == FirstOf(BatchSize, { k \in Subscribed : k > run[i].cursor + 1 }) IN
       run' = [run EXCEPT ![i].pc = IF batch = {} THEN "finishing" ELSE "checking",
                          ![i].todo = batch,
                          ![i].last = IF batch = {} THEN 0 ELSE Max(batch)]
  /\ UNCHANGED << campaign, bookVars, request, tick, job, mailVars,
                  held, skipping, suffered >>

FindContacts(i) ==
  /\ run[i].pc = "finding"
  /\ LET batch == FirstOf(BatchSize, Behind(run[i].cursor)) IN
       run' = [run EXCEPT ![i].pc = IF batch = {} THEN "finishing" ELSE "checking",
                          ![i].todo = batch,
                          ![i].last = IF batch = {} THEN 0 ELSE Max(batch)]
  /\ skipping' = (skipping \/ (run[i].cursor # 0 /\ contacts[run[i].cursor] # "subscribed"))
  /\ UNCHANGED << campaign, bookVars, request, tick, job, mailVars, held, suffered >>

\* Mutant of MarkSent: an empty page ends the batch and no more.
MarkSentForgotten(i) ==
  /\ run[i].pc = "finishing" /\ CampaignExists
  /\ LeaveBatch(i)
  /\ UNCHANGED << campaign, bookVars, request, tick, job, mailVars,
                  held, skipping, suffered >>

MarkSent(i) ==
  /\ run[i].pc = "finishing" /\ CampaignExists
  /\ campaign' = [campaign EXCEPT !.status = "SENT"]
  /\ LeaveBatch(i)
  /\ UNCHANGED << bookVars, request, tick, job, mailVars, held, skipping, suffered >>

\* Without the campaign's domain the batch ends where it is.
DomainMissing(i) ==
  /\ run[i].pc = "checking"
  /\ LeaveBatch(i)
  /\ Suffer("domain")
  /\ UNCHANGED << campaign, bookVars, request, tick, job, mailVars, held, skipping >>

\* Mutant of CheckExisting: all contacts of the page.
CheckExistingNot(i) ==
  /\ run[i].pc = "checking"
  /\ SetRun(i, "next")
  /\ UNCHANGED << campaign, bookVars, request, tick, job, mailVars,
                  held, skipping, suffered >>

\* The contacts that have a mail already are left out.
CheckExisting(i) ==
  /\ run[i].pc = "checking"
  /\ run' = [run EXCEPT ![i].pc = "next",
                        ![i].todo = { k \in @ : link[k].state = "none" }]
  /\ UNCHANGED << campaign, bookVars, request, tick, job, mailVars,
                  held, skipping, suffered >>

\* The contact run i is at.
Current(i) == Min(run[i].todo)

\* processContactEmail: the Email row, SUPPRESSED or to be sent, ...
CreateEmail(i) ==
  /\ run[i].pc = "next" /\ run[i].todo # {}
  /\ loose' = [loose EXCEPT ![Current(i)] = @ + 1]
  /\ SetRun(i, "linking")
  /\ UNCHANGED << campaign, bookVars, request, tick, job, link, sends,
                  held, skipping, suffered >>

Done(i, s) == run' = [run EXCEPT ![i].pc = s, ![i].todo = @ \ {Current(i)}]

\* Mutant of LinkEmail: CampaignEmail has no unique key.
LinkEmailAgain(i) ==
  LET k == Current(i) IN
  /\ run[i].pc = "linking"
  /\ link' = [link EXCEPT ![k] = [state |-> "pending", queued |-> FALSE]]
  /\ loose' = [loose EXCEPT ![k] = @ - 1]
  /\ SetRun(i, "queueing")
  /\ UNCHANGED << campaign, bookVars, request, tick, job, sends,
                  held, skipping, suffered >>

\* ... its CampaignEmail, of which there is one per contact, ...
LinkEmail(i) ==
  LET k == Current(i) IN
  /\ run[i].pc = "linking"
  /\ \/ /\ link[k].state # "none"
        /\ SetRun(i, "recording")
        /\ UNCHANGED << link, loose >>
     \/ /\ link[k].state = "none" /\ k \in Suppressed
        /\ link' = [link EXCEPT ![k].state = "suppressed"]
        /\ loose' = [loose EXCEPT ![k] = @ - 1]
        /\ Done(i, "next")
     \/ /\ link[k].state = "none" /\ k \notin Suppressed
        /\ link' = [link EXCEPT ![k].state = "pending"]
        /\ loose' = [loose EXCEPT ![k] = @ - 1]
        /\ SetRun(i, "queueing")
  /\ UNCHANGED << campaign, bookVars, request, tick, job, sends,
                  held, skipping, suffered >>

\* ... and its job.
QueueEmail(i) ==
  LET k == Current(i) IN
  /\ run[i].pc = "queueing"
  /\ sends' = [sends EXCEPT ![k] = @ + 1]
  /\ link' = [link EXCEPT ![k].queued = link[k].state # "none"]
  /\ held' = IF campaign.status = "PAUSED" THEN [held EXCEPT !.mails = @ + 1] ELSE held
  /\ Done(i, "next")
  /\ UNCHANGED << campaign, bookVars, request, tick, job, loose, skipping, suffered >>

\* Mutant of ContactThrows: the catch logs and goes on.
ContactThrowsLogged(i, f) ==
  /\ \/ f = "render" /\ run[i].pc = "next" /\ run[i].todo # {}
     \/ f = "redis" /\ run[i].pc = "queueing"
  /\ Done(i, "next")
  /\ Suffer(f)
  /\ UNCHANGED << campaign, bookVars, request, tick, job, mailVars, held, skipping >>

\* Rendering, a write or the enqueue throws: the catch records the failure.
ContactThrows(i, f) ==
  /\ \/ f = "render" /\ run[i].pc = "next" /\ run[i].todo # {}
     \/ f = "db" /\ run[i].pc = "next" /\ run[i].todo # {}
     \/ f = "db" /\ run[i].pc = "linking"
     \/ f = "redis" /\ run[i].pc = "queueing"
  /\ SetRun(i, "recording")
  /\ Suffer(f)
  /\ UNCHANGED << campaign, bookVars, request, tick, job, mailVars, held, skipping >>

\* Mutant of RecordFailure: it takes the latest email without looking for a link.
RecordFailureLatest(i) ==
  LET k == Current(i) IN
  /\ run[i].pc = "recording"
  /\ link' = [link EXCEPT ![k].state = "failed"]
  /\ loose' = [loose EXCEPT ![k] = @ - 1]
  /\ Done(i, "next")
  /\ UNCHANGED << campaign, bookVars, request, tick, job, sends,
                  held, skipping, suffered >>

\* recordCampaignContactFailure, one transaction: the linked email fails, or
\* else the latest email made for the contact, or else a new one, is linked
\* as failed.
RecordFailure(i) ==
  LET k == Current(i) IN
  /\ run[i].pc = "recording"
  /\ link' = [link EXCEPT ![k].state = "failed"]
  /\ loose' = [loose EXCEPT ![k] = IF link[k].state = "none" /\ @ > 0 THEN @ - 1 ELSE @]
  /\ Done(i, "next")
  /\ UNCHANGED << campaign, bookVars, request, tick, job, sends,
                  held, skipping, suffered >>

\* It throws itself and the contact is left as it is.
RecordThrows(i) ==
  /\ run[i].pc = "recording"
  /\ Done(i, "next")
  /\ Suffer("db")
  /\ UNCHANGED << campaign, bookVars, request, tick, job, mailVars, held, skipping >>

EndContacts(i) ==
  /\ run[i].pc = "next" /\ run[i].todo = {}
  /\ SetRun(i, "advancing")
  /\ UNCHANGED << campaign, bookVars, request, tick, job, mailVars,
                  held, skipping, suffered >>

AdvanceCursor(i) ==
  /\ run[i].pc = "advancing" /\ CampaignExists
  /\ campaign' = [campaign EXCEPT !.cursor = run[i].last]
  /\ LeaveBatch(i)
  /\ UNCHANGED << bookVars, request, tick, job, mailVars, held, skipping, suffered >>

\* A query outside the loop fails, or updates a campaign that is gone.
BatchThrows(i) ==
  /\ \/ /\ run[i].pc \in {"marking", "finding", "finishing", "checking", "advancing"}
        /\ Suffer("db")
     \/ /\ ~CampaignExists /\ run[i].pc \in {"marking", "finishing", "advancing"}
        /\ UNCHANGED suffered
  /\ ThrowBatch(i)
  /\ UNCHANGED << campaign, bookVars, request, tick, job, mailVars, held, skipping >>

-----------------------------------------------------------------------------
\* BullMQ: a job that ends is removed, one that throws is kept; a run that
\* lost its job changes nothing.
FinishBatch(i) ==
  /\ run[i].pc = "leaving"
  /\ run' = [run EXCEPT ![i] = Stopped]
  /\ job' = IF job.owner # i THEN job
            ELSE IF run[i].throws THEN [job EXCEPT !.state = "failed", !.owner = 0]
            ELSE NoBatch
  /\ UNCHANGED << campaign, bookVars, request, tick, mailVars,
                  held, skipping, suffered >>

\* The worker stalls: its job goes to another run, or fails, and the run goes
\* on ("stall") or is dead ("crash").
Stall(i, f) ==
  /\ job.owner = i
  /\ job' = IF job.stalls < MaxStalled
              THEN [state |-> "waiting", owner |-> 0, stalls |-> job.stalls + 1]
              ELSE [job EXCEPT !.state = "failed", !.owner = 0]
  /\ run' = IF f = "crash" THEN [run EXCEPT ![i] = Stopped] ELSE run
  /\ Suffer(f)
  /\ UNCHANGED << campaign, bookVars, request, tick, mailVars, held, skipping >>

BatchStep(i) ==
  \/ StartBatch(i) \/ MarkRunning(i) \/ FindContacts(i) \/ MarkSent(i)
  \/ DomainMissing(i) \/ CheckExisting(i) \/ CreateEmail(i) \/ LinkEmail(i) \/ QueueEmail(i)
  \/ RecordFailure(i) \/ RecordThrows(i) \/ EndContacts(i) \/ AdvanceCursor(i)
  \/ BatchThrows(i) \/ FinishBatch(i)
  \/ \E f \in {"render", "db", "redis"} : ContactThrows(i, f)

Request(r) ==
  ReadForSchedule(r) \/ WriteSchedule(r) \/ PauseCampaign(r) \/ ResumeCampaign(r)
  \/ DeleteCampaign(r)

CampaignNext ==
  \/ \E r \in CampaignRequests : Request(r)
  \/ ScheduledTimePasses
  \/ \E k \in Contacts : EditContact(k)
  \/ SchedulerTick \/ QueueBatch
  \/ \E i \in Slots : BatchStep(i) \/ (\E f \in {"stall", "crash"} : Stall(i, f))

CampaignSpec == CampaignInit /\ [][CampaignNext]_campaignVars

\* Time passes, the scheduler ticks, and BullMQ runs the batch it has.
CampaignFairness ==
  /\ WF_campaignVars(ScheduledTimePasses)
  /\ WF_campaignVars(SchedulerTick) /\ WF_campaignVars(QueueBatch)
  /\ \A i \in Slots : WF_campaignVars(BatchStep(i))
CampaignFairSpec == CampaignSpec /\ CampaignFairness

-----------------------------------------------------------------------------
(* Properties. *)

\* However often the batch is retried, overlaps itself or starts over, the
\* campaign mails a contact once; only deleting the campaign, which deletes
\* the links, under a batch that is at its page may double it, and no more.
OneMailPerContact ==
  \A k \in Contacts : sends[k] <= IF CampaignExists THEN 1 ELSE 2

\* A contact shown as failed was not mailed, unless two runs overlap: the run
\* that comes second fails on the first one's link and marks its email FAILED.
FailedContactIsUnsent ==
  \A k \in Contacts :
    link[k].state = "failed" /\ link[k].queued => "stall" \in suffered

\* A mail waiting to be sent has a job or a run about to add one, unless that
\* run died, or came second, or could not record its failure.
PendingMailHasJob ==
  \A k \in Contacts :
    (link[k].state = "pending" /\ ~link[k].queued) \/ (loose[k] > 0 /\ CampaignExists)
    => \/ \E i \in Slots : /\ run[i].pc \in {"linking", "queueing", "recording"}
                           /\ k = Current(i)
       \/ suffered \cap {"stall", "crash", "db"} # {}

\* No contact subscribed all along is behind the cursor or in a sent campaign
\* without a mail, a failure or a suppression to show for it, unless the
\* cursor's own contact left the book or a failure could not be recorded.
NobodySkipped ==
  \A k \in steady :
    campaign.status = "SENT" \/ (CampaignExists /\ k <= campaign.cursor)
    => \/ Reached(k)
       \/ skipping \/ "db" \in suffered

\* A pause holds for every batch that reads the campaign after it: while the
\* campaign shows PAUSED no more is mailed than one page per batch that was
\* under way at the pause, and only such a batch may overwrite the pause with
\* the RUNNING or SENT it was about to write.
PausedMails == campaign.status = "PAUSED" => held.mails <= BatchSize * held.runs
PauseOverwritten ==
  campaign.status = "PAUSED" /\ campaign'.status # "PAUSED" /\ request' = request
  => held.runs > 0
PauseHolds == [][PausedMails' /\ PauseOverwritten]_campaignVars

\* A scheduled campaign is sent, paused or deleted in the end, unless a batch
\* job failed, which blocks the ones after it, or its domain is gone.
CampaignEnds ==
  campaign.status = "SCHEDULED" ~>
    \/ campaign.status \in {"SENT", "PAUSED", "deleted"}
    \/ job.state = "failed" \/ "domain" \in suffered

\* "do not include the cursor row": the page behind a cursor leaves out the
\* cursor's row and no contact behind it.
OnlyCursorRowSkipped ==
  \A i \in Slots :
    run[i].pc = "finding" /\ run[i].cursor # 0
    => Behind(run[i].cursor) = { k \in Subscribed : k > run[i].cursor }

\* A campaign reaches each of its contacts, none of them twice, and what a
\* contact's link and email say is so: not mailed if failed, and with a job or
\* a run behind it if pending.
ContactsAreServed ==
  /\ BatchTypeOK
  /\ OneMailPerContact /\ NobodySkipped
  /\ FailedContactIsUnsent /\ PendingMailHasJob
=============================================================================
