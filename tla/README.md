# moSend in TLA+

moSend (a fork of useSend) sends email through Amazon SES for teams and their
clients: transactional emails over a public API, campaigns to contact books,
webhooks about what happened to them, and the plans that limit and bill it all.
The web application (`src/apps/web`) is a set of Node processes over Postgres,
Redis and BullMQ. This directory holds the specification of its core: TLA+
modules written from the code, the TLC configurations that check them, and the
theorems that TLAPS proves about them.

Paths below are relative to `src/apps/web/src/server` unless they begin with
`src/`. Run `tlc -config X.cfg MCModule.tla` for a run and `tlapm
Module_proofs.tla` for the proofs.

## 1. The system

### How the code runs

Every operation is an `async` function: a chain of awaits on Postgres, Redis,
SES, a mailer or another service. Between two awaits of one chain any step of
any other chain may come, in the same process or in another. There are few
transactions and few locks. Deferred work is a BullMQ job: a worker takes it,
renews its lock while it works, and loses it if it stalls, in which case the job
goes to another worker *while the first may still be working*. Most hazards
below come from that: a value is read, something is awaited, and the value is
used as if it still held.

So an **action** in these modules is what happens between two awaits that
another process can come between. A read on which only the same action's write
depends is part of that action. The state of a chain between two actions is a
program counter and the values it goes on using.

### Components

| component | state it keeps | operations | what it must get right |
|---|---|---|---|
| Email API (`service/email-service.ts`) | rows `Email`, `EmailEvent` | `sendEmail`, `sendBulkEmails`, `cancelEmail`, `updateEmail` | a taken email is resolved, a cancelled one does not leave, one cancel wins, an error sent nothing |
| Email queue (`service/email-queue-service.ts`) | a BullMQ job per email, queues per region | `queueEmail`, `queueBulk`, `changeDelay`, `chancelEmail`, `executeEmail` | an email is sent once; FAILED means unsent |
| SES notifications (`service/ses-hook-parser.ts`) | `latestStatus`, events, usage, campaign counters, suppression, subscription | the handler of a queued notification | the status is the highest reported; counters agree with events |
| Webhooks (`service/webhook-service.ts`, `jobs/webhook-cleanup-job.ts`) | `Webhook`, `WebhookCall`, a lock per webhook in Redis | emit, test, retry, enable/disable, delete, dispatch, cleanup | posts exclude each other, a call settles, only deserved failures disable |
| Campaigns (`service/campaign-service.ts`, `jobs/campaign-scheduler-job.ts`) | `Campaign` with `lastCursor`, `CampaignEmail`, a batch job | schedule, pause, resume, delete, the tick, the batch | nobody is skipped or mailed twice, a pause holds, a campaign ends |
| Editing and rendering (`api/routers/campaign.ts`, `src/packages/email-editor/src/renderer.tsx`) | content and html of campaigns and templates | the delayed save, update, draft, schedule, rendering | what was written is what is kept, checked and mailed |
| Idempotency keys (`service/idempotency-service.ts`) | a result (24 h) and a lock (60 s) in Redis | `withIdempotency` | a retry does not send again and is answered its own result |
| Public API (`public-api/hono.ts`, `public-api/auth.ts`) | a counter per team in Redis | the key, the limiter, `POST /v1/emails` | a team is let in again after its window |
| Suppression list (`service/suppression-service.ts`) | a team's list, and SES's in each region | report, add, upload, remove, check | a reported address stays listed and gets no mail |
| SES regions (`service/ses-settings-service.ts`, `src/apps/web/src/app/api/ses_callback`) | rows and each process's copy of them, topics at SNS, queues | `createSesSetting`, its clean-up, reloads, the confirmation | a topic and its row go together; a region that is there is served |
| Plan activations (`service/plan-activation-service.ts`, `jobs/plan-expiry-job.ts`) | requests, the plan and block of users and teams | request, approve, reject, cancel, assign, pay, issue, block, the daily tick | who paid is not suspended, who did not is; periods do not overlap |
| Plans (`service/plan-service.ts`) | the catalogue and two levels of cache | lookup, edit, delete, drop | an edit is seen, nobody loses a plan |
| Plan invoices (`service/invoice-service.ts`) | `PlanInvoice` | create, settle, void, number | a settled invoice is final; a number can always be drawn |
| Stripe (`payments/gateways/stripe-gateway.ts`) | `Subscription`, the team's customer and plan; Stripe's own records | checkout, webhook sync, confirmation | a payment finds its team; the last state at Stripe wins |
| Contacts (`service/contact-service.ts`, `contact-queue-service.ts`, `double-opt-in-service.ts`) | `Contact.subscribed` and its reason | import, edit, delete, confirm, unsubscribe, resubscribe, bounce | nobody is subscribed against their will or unconfirmed |
| Teams (`service/team-service.ts`, `client-service.ts`, `api/routers/invitiation.ts`) | memberships, invitations, domains of CLIENTs | create, invite, accept, role, remove, domains | a team has an admin; a user has one team; access is held by CLIENTs |
| What a team has (`service/limit-service.ts` and its callers) | domains, books, webhooks and their fields | create up to a limit, update, rotate | a team keeps to its limits, a row to what was asked |
| Login (`auth.ts`) | users, the waiting list | log in, create, accept from the list | one user without an invitation; who waits is told once |
| Domains (`service/domain-service.ts`, `jobs/domain-verification-job.ts`) | the row, SES's identity, a state and a lock in Redis | create, delete, verify, the hourly job | row and SES converge; a status is told of, once |
| Sending limits (`service/limit-service.ts`, `usage-service.ts`) | usage per day and month, caches of team, plan, usage | `checkEmailLimit`, blocks, plan changes | limits take effect, refusals are deserved and told |
| SMTP server (`src/apps/smtp-server`) | its certificate, sessions | accept, send on, reload | what is accepted was sent, once where no answer is lost |
| SDKs (`src/packages/sdk`, `src/packages/python-sdk`) | none | the check of a signature | a post is refused for cause, by both alike |
| Usage reports, tRPC, admin API, mailer, storage, dashboard, editor, UI, docs | none, or single-row writes | | section 6 |

### How they interact

- The **Email API** creates rows and jobs; the **email queue** hands mails to SES
  after asking the **limits**; **SES notifications** come back over SNS and the
  hook's queue, write the row the API and the worker also write, and emit
  **webhook** events. A notification may overtake the worker's own write.
- A request passes the **limiter** and the **idempotency** lock before its email
  is made, and the **suppression list** is asked only then.
- **Campaign batches** create rows and jobs of the same email queue, of what the
  **editor** saved. A contact's subscription changes under the batch through
  **contacts**, unsubscribe links and the hook.
- **Plan activations** and **Stripe** set a plan and a block, which the **limits**
  read through the caches of **plans**; they settle and issue **invoices**;
  **teams** call them when a client is created.
- Each process has its own copy of the **SES regions**; a region made at one of
  them is not seen by the others until they reload or start again.

The behaviours that make this hard are listed with their lines under `hazards`
in `PROJECT.json`: about half are values that are stale when used or two
chains that interleave, the others late, lost and repeated deliveries, crashes
between two writes, partial failures, boundaries and sequences of legal calls.

## 2. Modules

| module | models | instance |
|---|---|---|
| `EmailStatus` | the status enum in the order the *migrations* gave Postgres, which the hook compares by | - |
| `EmailStore` | the row, its events, what SES accepted; the vocabulary of faults | - |
| `EmailPipeline` (extends the store) | create, enqueue, execute, cancel, update | in `MCEmailDelivery` |
| `EmailOutcome` | abstract: an email taken is resolved exactly once | refined by `EmailPipeline`, `EmailDelivery` |
| `SesHook` (extends the store) | the notification handlers | `MCSesHook` |
| `EmailDelivery` | pipeline and handlers composed over one store | `MCEmailDelivery` |
| `BulkSend` | the batches of `sendBulkEmails`, retried | `MCSesHook` |
| `WebhookDispatch` | one webhook, its calls, jobs, lock | `MCWebhookDispatch` |
| `WebhookSignature` | the signature both SDKs check, secrets, clocks | `MCWebhookDispatch` |
| `MailServer` | a mail through the SMTP server; its certificate | `MCWebhookDispatch` |
| `CampaignBatch` | one campaign, its contact book, scheduler and worker | `MCCampaignBatch` |
| `PlanCatalogue` | the plans, their caches and edits | `MCCampaignBatch` |
| `ContentEditing` | a campaign or template from the page to the mail | `MCContactSubscription` |
| `ContactSubscription` | one address in the books of a team | `MCContactSubscription` |
| `Idempotency` | one key of one team | in `PublicApi` |
| `SuppressionList` | one address on the list and in the regions | in `PublicApi` |
| `PublicApi` (extends both) | the door, the limiter, the key's requests and the list composed | `MCPublicApi` |
| `SesRegions` | the regions' rows, topics, copies and queues | `MCPublicApi` |
| `PlanActivation` | requests, invoices, users, teams, the daily tick | `MCPlanActivation` |
| `InvoiceNumbering` | how a year's invoice numbers are drawn | in `Billing` |
| `StripeSync` | checkouts, webhooks and the sync of a team | in `Billing` |
| `Billing` (extends both) | the choice of the gateway over the two | `MCBilling` |
| `TeamMembership` | memberships, invitations, access to domains | `MCTeamMembership` |
| `Registration` | logins and the waiting list | `MCTeamMembership` |
| `TeamResources` | limited creations; updates of a webhook and a book | `MCTeamMembership` |
| `DomainVerification` | one domain name, SES's identity, Redis | `MCDomainVerification` |
| `SendingLimits` | a team's or client's checks, caches and notices | `MCSendingLimits` |
| `*_proofs` | the theorems | - |

Some `MC` modules put a second or third module *beside* the first: `SesRegions`
beside `PublicApi`, `BulkSend` beside `SesHook`, `PlanCatalogue` beside
`CampaignBatch`, `MailServer` and `WebhookSignature` beside `WebhookDispatch`,
`ContentEditing` beside `ContactSubscription`, `Registration` and
`TeamResources` beside `TeamMembership`. These share no state, so nothing is
lost by a behaviour that follows one of them only: the initial states are those
of either, with the other in one fixed state, and a step of one leaves the other
alone. One run then serves several small instances.

Apart from that the `MC` modules hold values for constants, bounds and symmetry
sets only, so that TLC checks the very definitions the proofs expand. Definitions headed *Mutant* are
plausible mistakes in the code; each property has one that breaks it, named in
`PROJECT.json`, which shows that the property depends on the code being right.

### How state and actions correspond to the code

`PROJECT.json` maps each definition to its lines. The conventions:

- A **row** is a record or function value; a column no property distinguishes is
  left out. "absent", id 0 or `None` stand for a row that is not there.
- A **chain** (`api`, `run`, `req`, `proc`, `task`, `call`, `check`) has a program
  counter named for its next or last await, and keeps the values it read.
- A **job** is BullMQ's: a job id is not added twice while the old job exists,
  failed jobs exist for 30 days (here: for good), completed ones are removed at
  once, an active job whose worker stalls goes back to waiting at most
  `maxStalledCount` times, and a stall does not use up an attempt.
- **Faults** are choices of the environment, each kind allowed or not by a
  constant. History variables record which an email, call or campaign met, so
  that a property can say *exactly which faults* a promise does not survive:
  `NoDuplicateSend` allows two sends only to an email whose worker stalled.
- **History** variables (named in each module's head) are never read by a guard
  of the code's own actions.
- An **outcome of code outside** (SES, a mailer, a customer's endpoint) is a
  choice among the results the caller distinguishes.

## 3. Runs

One run per instance, with all of the module's properties in it, so that each of
them is asked of every interleaving the instance has. A promise that some
interleaving or fault breaks is stated with that exception and no other:
`suffered`, `overlapped`, `crossed`, `lagged`, `overtaken`, `outrun` or `stale`
remember it. Disturbances share a budget (`MaxFaults`, `MaxDisturbances`,
`MaxTroubles`), mostly of one: the first thing that goes wrong is chosen freely
among all kinds and moments, and what a second would add to it is left to larger
instances. Symmetry is used in runs of safety properties only, over
interchangeable requests, bodies, workers and callers.

| run | instance | what it shows |
|---|---|---|
| `delivery` | 1 campaign email, sent alone or by a bulk request; 2 cancel or update requests, 2 times, 1 report; one fault of stall, crash, database, SES, Redis, configuration, hook | what may be sent twice (`NoDuplicateSend`), sent though cancelled or failed (`UnsentStaysUnsent`), orphaned (`RowsAndJobsAgree`) or reported wrongly (`ReportsAgree`, `StatusOnlyAdvances`); that every email settles, and the whole implements `EmailOutcome` |
| `hook` | 2 notifications of 4 kinds, hard bounces and unsubscribe clicks among them, about one email, a handler that dies, runs again or loses a write; or a batch of 3 emails of 2 senders, sent twice, with 2 faults | counters, status, suppression agree with the events and a batch's answer with its rows (`MailIsAccountedFor`); each notification takes effect |
| `webhook` | 2 calls of one webhook, 2 attempts, threshold 2, 1 status request; one disturbance: fault, retry, status change or deletion; or a mail of 2 addresses, a renewed certificate, a receiver | posts exclude each other, what delivers twice or orphans a call, only deserved failures disable, calls settle; mails and posts at the ends (`ConnectionsHold`) |
| `campaign` | 3 contacts, 2 of them there at first and one suppressed, batches of 2, 2 requests, one disturbance; or one lookup of plans among 2 edits | nobody is mailed twice; who is skipped or left without a job, and why (`ServiceHolds`); a pause holds; the campaign ends |
| `campaign_cursor` | 3 contacts, batches of 1, 1 edit, no fault | expected violation: see section 4 |
| `public_api` | 2 requests under one key and 1 without, 2 bodies, the key, the limiter, 1 address on the list and 2 reports, at most 2 mishaps in all; or 2 requests to add a region at 2 processes, 1 trouble | what a retry is answered, when it sends again, when two operate at once; the gates before a mail (`GatesHold`); `RegionsAreWhole` |
| `activation` | 1 client, 2 requests, 2 invoices, 2 callers and the tick over 3 days, one overlap or crash | suspension, blocks, periods, notices and invoices stay in step |
| `billing` | 2 checkouts of 2 plans, 2 webhooks at a time, 2 changes at Stripe, 1 fault; or 3 callers with 3 attempts for 3 invoices | a payment finds its team, a team is told once, the team follows Stripe; numbers hold |
| `contact` | 2 books, one of them with double opt-in, 2 workers, 1 lost mail or process; or 12 documents of up to 3 levels, 52 drafts of API requests and a duplicate of one, 2 saves, 1 failure | opt-outs and confirmations hold but for overlapping imports; a complaint reaches every book; what was written is mailed |
| `team` | 3 users, 2 teams, 1 domain, 4 requests of 2 chains, one overlap or death; or 3 logins, 2 acceptances; or 2 creations or updates and 1 change of plan | admins, teams, domains, invitations; logins and limits (`SetUpHolds`) |
| `domain` | 3 requests and the hourly job in 2 tasks, SES changes twice between 3 answers, one overlap, death or failed mail | row, identity, events and mails agree; what SES holds verified becomes so |
| `limits` | 1 worker, team or CLIENT, a limited and an unlimited plan, usage one mail below the month's limit, 1 report under way, 1 request or new period | mails keep to the rows until things overlap; blocks and limits take effect; refusals are deserved and told |

Several properties are conjunctions of parts that each have their own comment
and name:

| property | parts |
|---|---|
| `RowsAndJobsAgree` | `PendingHasOwner`, `RowAndJobAgree`, `OneCancelWins` |
| `UnsentStaysUnsent` | `CancelledIsUnsent`, `FailedIsUnsent` |
| `MailIsAccountedFor` | `EffectsAgree` (`StatusIsHighestReported`, `UsageMatchesEvents`, `AnalyticsWithinUsage`, `ComplaintTakesEffect`) and `BatchHolds` (`ErrorsSendNothing`, `AnswerIsOfBatch`, `RowsLeftAreExplained`) |
| `CallIsAsShown` | `CallReceivedOnce`, `FailedWasNotReceived`, `PendingCallHasJob` |
| `PostsAreGuarded` | `PostsHoldTheLock`, `LatePostsAreFew` |
| `ConnectionsHold` | `MailServerHolds` (`SentIsSent`, `TwiceIfLost`, `SuppressedAreSpared`, `CertificateFits`) and `ReceiverHolds` (`SdksAgree`, `RefusedForCause`) |
| `ServiceHolds` | `ContactsAreServed` (`OneMailPerContact`, `NobodySkipped`, `FailedContactIsUnsent`, `PendingMailHasJob`) and `CatalogueHolds` (`EntriesAreRecent`, `EditsAreSeen`, `NobodyIsBereft`) |
| `GatesHold` | `SuppressionHolds` (`ReportStays`, `OffListIsDeliverable`), `ListedIsNotMailed`, `CounterRunsOut` |
| `RegionsAreWhole` | `CreatorKnowsTopic`, `TopicsHaveRows`, `DoneIsServed`, `ConfirmationCounts` |
| `PeriodsAreRegular` | `ActTypeOK`, `OnePeriodPerTarget`, `ReminderOnce`, `DueIsClosed` |
| `SuspensionIsJust` | `PaidUserNotSuspended`, `NoFreeRide`, `ManualBlockStays` |
| `NothingTakenBack` | `PeriodsAreHonoured` (`RenewalExtends`, `NoticeBeforeExpiry`) and `DecisionsStand` (`ReviewedOnce`, `InvoiceIsFinal`, `PaymentSettlesItsInvoice`) |
| `PaymentIsKnown` | `PaymentFindsTeam`, `ToldWhenPaid` |
| `NumbersHold` | `HolesAreFew`, `FailedWasContended` |
| `PendingIsAsked` | `ContactTypeOK`, `PendingHasLink`, `OnlyNewIsPending` |
| `SubscribedByConsent` | `OptOutHolds`, `OnlyConfirmedSubscribed`, `BounceReachesEveryBook` |
| `EditingHolds` | `DomainIsOfFrom`, `HtmlIsOfContent`, `MailCanBeLeft`, `EditIsKept` |
| `MembershipIsInOrder` | `TeamTypeOK`, `OneTeamPerUser`, `InvitationUsedOnce`, `AccessHeldByClients` |
| `SetUpHolds` | `RegistrationHolds` (`OneUninvited`, `WaitsOrWasInvited`, `AcceptanceIsMailed`) and `ResourcesHold` (`WithinLimit`, `FieldsAreMeant`, `OptInHasContent`) |
| `RowMatchesSes` | `DomainTypeOK`, `RowHasIdentity`, `EventsTellStatus` |
| `ToldOnce`, `VerificationGetsThrough` | `NotifiedByOne`, `NoRepeatedMail`; `VerifiedInTheEnd`, `VerifiedIsTold` |
| `LimitsAreExact`, `LimitsTakeEffect` | `LimitTypeOK`, `KeepsToPlan`, `RefusedForCause`; `BlockTakesEffect`, `LimitTakesEffect`, `RefusedIsTold` |

Why these bounds are enough for what they ask:

- Emails share nothing but the bulk request, so one tells their properties. Two
  requests are all that can race for one job: a third finds what the second
  does. Time 0 and one later time tell an old schedule from a new one.
- A batch of three has two emails of one sender and one of another, so that a
  group has more than one email and there is more than one group.
- Two calls are what competes for a lock; two attempts of the six make a first
  and a last, a threshold of two for thirty makes a count that goes on and is reset.
- Three contacts give the cursor a before, an at and a behind.
- Two requests with one key give a retry that meets the record or the lock of
  the other, a third without a key another's send; that the protocol holds for
  any number of requests is proved. Where the limiter is asked nothing but its
  own mishaps happens (`FewTroubles`), for it shares no state with what is
  behind it. One region has the list's address, as removals ask regions one by one.
- Two requests for a region meet in one process or come to two; a third would
  find the row the first two raced for. One trouble is a call that fails or a
  process that starts again; the proof of `RegionsAreWhole` has any number.
- Time in `PlanActivation` is in days. Periods of two days stand for thirty,
  with reminders two and one day ahead, so that both fall into one period. An
  operation does not last until the next day. `approve` and `assign` are one step
  once their transaction begins, because its first statement locks the target's
  rows; what they read *before* it is a step of its own. One caller does
  everything but pay and the other pays. `MaxIssued` bounds the invoices there
  are when one is issued on demand.
- Two checkouts make two customers, and two handlers cross; a behaviour of
  `Billing` follows the gateway it began with.
- A book may get the address anew once, so that links of a deleted row are met.
- Four requests reach invite, accept, promote and remove in one behaviour.
- The plan's limits lie one mail apart and so low that the 80 % warning, the
  limit and one mail beyond are different counts; `MaxSent` is above them all.

### Fairness

Only what Node and BullMQ do by themselves is fair: a chain that has begun is
carried on unless a fault ends it, a job that is waiting is taken, a lock or a
cache entry with a TTL expires, a cron tick comes. Stripe posts a webhook again
until it is answered 200, and a handler that has begun goes on. Weak fairness is
enough wherever a step once possible stays possible. In `DomainVerification` the
hourly listing and the passing of time are strongly fair, as requests may keep
both tasks of the instance busy, which in the code hold nothing up. Nobody *has*
to make a request, no fault *has* to happen, a customer's endpoint does not have
to answer well, and SES need not verify anything: `VerifiedInTheEnd` is about an
identity that stays verified. `DueIsClosed` in `PlanActivation` is a safety
property over the days: a period that ended is closed by the tick of its day or,
if that died, by the next.

## 4. Disagreements of the code with its documents

`campaign_cursor` is a run TLC must find violated: it states what a comment says
of the page behind the cursor, and shows the code skip a contact. In one
sentence: the worker pages with `cursor` and `skip: 1` under a filter for
subscribed contacts; once the cursor's contact has unsubscribed the cursor row
is not in the page, and the first contact behind it is skipped in its place.

The others are exceptions in the passing runs: behaviours the models have
because the code has them, named in the property they break.

| code | what happens | exception in |
|---|---|---|
| `email-queue-service.ts:211,242` | a bulk group that cannot be queued stays QUEUED; the catch "Mark all created emails as failed" does not run | `PendingHasOwner`, `AnswerIsOfBatch` |
| `email-service.ts:692` | an email without words ends the batch and leaves the rows before it QUEUED | `RowsLeftAreExplained` |
| `email-service.ts:321` | an update that crosses the creation changes the row, finds no job and is answered with an error; the job keeps the old time | `RowAndJobAgree` |
| `ses-hook-parser.ts:106` | two opens handled at once are both counted as the first | `UsageMatchesEvents` |
| `webhook-service.ts:540` | the last attempt finds the lock taken: the call stays PENDING, where webhooks.mdx says failed | `PendingCallHasJob`, `EveryCallSettles` |
| `webhook-service.ts:513` | a run that waited for the lock posts to a webhook disabled meanwhile | `LatePostsAreFew` allows one a call |
| `webhook-service.ts:185` | a retry of a failed call is not queued: the failed job still has its id | `PendingCallHasJob`, `EveryCallSettles` |
| `webhook-service.ts:335` | an update writes back the url, domains or secret it had read | `FieldsAreMeant` |
| `campaign-service.ts:1090` | a batch overwrites a pause with RUNNING or SENT | `PauseHolds` allows it to one that was under way |
| `campaign-service.ts:84` | a schedule stores the html of the content it read over a newer one | `HtmlIsOfContent` |
| `campaign-service.ts:34` | a placeholder that is typed as text, spaced or around an image passes the check and is never replaced | `MailCanBeLeft` |
| `api/routers/campaign.ts:144` | an update writes the domain it had read, and asks no status | `DomainIsOfFrom` |
| `api/routers/template.ts:75` | an update of a template's name or subject clears its html | `HtmlIsOfContent` |
| `campaigns/[campaignId]/edit/page.tsx:138` | leaving the page drops the delayed save | `EditIsKept` |
| `idempotency-service.ts:130` | a request that looked before the first stored sends again | `SequentialRetriesSendOnce` |
| `public-api/hono.ts:81` | a counter whose process died between INCR and EXPIRE stays for good | `CounterRunsOut` |
| `suppression-service.ts:175` | a removal that overlaps a report takes the reported address off the list | `ReportStays` |
| `ses_callback/route.ts:83` | a process whose copy lacks the topic answers a confirmation 200 and drops it | `ConfirmationCounts` |
| `ses-settings-service.ts:219` | an older reload that ends last takes a region away from the copy again | `CreatorKnowsTopic` |
| `plan-activation-service.ts:725` | the tick suspends a client who paid while it ran | `PaidUserNotSuspended` |
| `plan-activation-service.ts:1009` | the end of a plan in one team suspends a client paid up in another | outside the instance, which has one team |
| `plan-activation-service.ts:731` | the tick takes over an operator's block, a payment lifts it | `ManualBlockStays` |
| `plan-activation-service.ts:327` | two payments at once buy one period | `RenewalExtends` |
| `plan-activation-service.ts:165` | a cancellation overwrites an approval | `ReviewedOnce`, `NoFreeRide` |
| `plan-activation-service.ts:944` | after an early renewal the next invoice bills a period nobody chose | none: not forbidden by a property |
| `plan-service.ts:85` | an edit is not seen for nearly two TTLs; a lookup under way puts the old plan back; the API's edit drops only teams assigned the plan, not those that fall back to it | `EntriesAreRecent`, `EditsAreSeen` |
| `api/routers/admin-plans.ts:91` | a team assigned a plan between its count and its deletion loses it | outside `NobodyIsBereft`, which is of those counted |
| `invoice-service.ts:120` | the payment of one invoice settles another | `PaymentSettlesItsInvoice` |
| `invoice-service.ts:262` | a paid invoice becomes void | `InvoiceIsFinal` |
| `invoice-service.ts:423` | a caller that collides skips an invoice number | `HolesAreFew` allows it |
| `stripe-gateway.ts:65` | two checkouts make a team two customers, and the first's payment is of a customer no team has | `PaymentFindsTeam` |
| `stripe-gateway.ts:151` | of two handlers the one that listed first may write last | `InStep`, `ToldWhenPaid` |
| `contact-service.ts:63` | an import subscribes a contact who has just unsubscribed | `OptOutHolds` |
| `contact-service.ts:123` | a new address that is imported twice at once skips its confirmation | `OnlyConfirmedSubscribed` |
| `team-service.ts:317` | two requests at once take both admins away | `TeamHasAdmin` |
| `admin-api/index.ts:147` | two requests at once give a user two teams | `OneTeamPerUser` |
| `team-service.ts:331` | a client who was removed still holds domains | `AccessHeldByClients` |
| `auth.ts:373` | a login cut off before its event is not on the waiting list | `WaitsOrWasInvited` |
| `limit-service.ts:41` | creations that cross pass a limit; a client's domain is not counted against the team's | `WithinLimit` |
| `domain-service.ts:643` | a deletion cut off after SES's part can never be completed | `RowHasIdentity` |
| `limit-service.ts:329` | more mails than the package while usage is cached | `KeepsToPlan` |
| `limit-service.ts:244` | a warning that cannot be sent fails the mail that was being checked | none: not forbidden by a property |
| `smtp-server/src/recipients.ts:13` | To, Cc and Bcc are one text each: a suppressed address among several is mailed | `SuppressedAreSpared` |
| `smtp-server/src/server.ts:142` | a mail whose 250 was lost is sent again | `TwiceIfLost` |
| `smtp-server/src/server.ts:207` | certificate files that were replaced are no longer watched | `CertificateFits` |
| `src/packages/sdk/README.md:200` | names the option `toleranceMs`; the code's is `tolerance` | a matter of names alone |

## 5. What is proved

TLAPS checks these for every value of the constants, under the `ASSUME`s of the
module (which TLC evaluates in the runs). Each safety theorem has an inductive
invariant, checked with TLC on the run's instance before it was proved; its
parts are named for what they say, and a proof module's head tells how they
hang together.

- **`EmailDelivery_proofs`**, first of the pipeline alone. `TypeCorrect`. `NoDuplicateSendHolds`: an email SES
  accepted twice had its worker stall; the runs that began are as many as the
  stalls plus one, and a message is accepted by the run it is named after.
  `UnsentAlwaysStaysUnsent`: an email withdrawn or shown as failed never reached
  SES short of the faults named; the invariant follows in whose hands the email
  is (`RunHasJob`, `UnqueuedIsIdle`) and what each way out of a run leaves behind
  (`RunTells`, `WithdrawnIsOut`, `FailedIsOut`). `RowsAndJobsAlwaysAgree`: a
  pending email has an owner, row and job agree on the time after a lone update,
  one cancel wins; `AgreeInv` adds who took the job (`TakenOnce`, `OwnedBy`) and
  which of row and job an update has written (`TimesAgree`).
  `PipelineImplementsOutcome`: each step is a step of `EmailOutcome` or a
  stutter.
  Then of `EmailDelivery`, with handlers writing the same rows.
  `DeliveryKeepsPipeline`: the pipeline's invariants still hold.
  `ReportsAlwaysAgree` and the action property `StatusAlwaysAdvances`: what a
  row shows was reported and no step takes it back; `DeliveryInv` follows a
  report from SES to its event (`AboutAccepted`, `FoundHasId`) and the row
  (`ReportsHaveSource`, `Shown`). `DeliveryImplementsOutcome`: the composition
  refines `EmailOutcome` too.
  Of `SesHook` by itself, `EffectsAlwaysAgree`, for any number of notifications:
  in `CountInv` the handlers that have counted a status and not yet recorded it
  (`Between`) make up the difference between usage and events, those that may
  yet count it for the campaign (`Owing`) bound the analytics, and `HandlerKnows`
  says what one has done on its way. Without these sets nothing relates the
  counters while handlers are at work.
  Of `BulkSend`, `BatchAlwaysHolds`: `BatchInv` says phase by phase which rows an
  attempt has made (`HeldAreMade`, `OthersAreMade`), that its jobs come last
  (`JobsComeLast`) and that attempts follow each other (`OneAfterTheOther`); that
  an answer is in the order of the request is `InOrderIs`, by a least
  counterexample. `MailIsAlwaysAccountedFor`: both, of the instance that is run.
- **`PublicApi_proofs`**. Of the protocol of `Idempotency` alone, `OneOperation`:
  the operation runs twice at once only if a holder outlasted its lock;
  `AnswersOwn`: an answer names an email that was sent for the request's body;
  `SequentialRetries`: two sends of one body come from requests that overlapped,
  or something was lost; the invariant follows who has sent from the send to the
  record. `ApiImplementsIdempotency`: each step of the composed API is a step of
  `Idempotency` or leaves it alone, so these hold of it. `GatesAlwaysHold`: the list keeps what was reported, nothing is mailed
  to an address that was listed all along, the limiter's counter runs out, but
  for the mishaps named; the invariant follows a removal through the regions
  (`RemovalKnows`), a request from the door to its mail, and the one first
  request of a counter (`FirstIsAlone`).
  Of `SesRegions`, which the same run checks, `RegionsAreAlwaysWhole`, for any
  number of processes, regions, creations and troubles. `TopicsAreOwn` and `SettingIsOwn` make a
  topic and a row one creation's, `Owns` has a row stay until that creation takes
  it away; `LoadsAlone`, `SawOwn` and `SeenByAll` say what the reloads under way
  have read; `Answered` and `Asked` follow a confirmation. It needs the requests
  to be finitely many (`CreationsAssumption`), as topics are numbered.
- **`WebhookDispatch_proofs`**. `PostsAreAlwaysGuarded` and `CallIsAlwaysAsShown`:
  each run's place is tied to the job's owner (`JobIsRun`, `OwnerAlone`), the
  lock (`LockIsKept`), the row (`RunInProgress`, `LeavesSettled`) and the posts
  received (`ReceivedIsShown`, `LateIsLast`). `AutoDisableAlwaysDeserved`: a
  count of failures, however stale the row it was written from, is of calls that
  used up their attempts (`FailuresAreExhausted`). `ConnectionsAlwaysHold`, of
  the parts the same run checks: a session of the mail server and the
  transactions it has begun account for who was mailed (`SessionFits`,
  `MailedByTransaction`, `SuppressedAreSpared`), the certificate served is the
  newest pair, and a signature stands for the post it was made for.
- **`PlanActivation_proofs`**, for any number of clients, teams, plans, callers
  and rows, and periods of any length. `PeriodsAlwaysRegular`: one approved
  request per target whatever overlaps, a reminder once in a period, and a
  period is closed by the tick of its last day, if that did not die. The
  invariant has an operation see the day it began on, so that what it activates
  ends after anything the tick finds due (`OfToday`), the tick hold no request an
  operation is about to write (`DueIsUnheld`), and what it read be all there was
  to read (`Closing`, `Noticed`); `RoomKept` counts the rows still to be written.
  `DecisionsAlwaysStand`: a renewal extends, a review and an invoice stand, a
  payment is of its own invoice; until something overlaps an operation is alone
  and what it read is what there is (`Alone`, `ReadIsTrue`).
  `NothingIsTakenBack` adds that no period is closed unannounced, if every
  period is longer than the final notice (`PeriodsOutlastNotice`).
  `BlocksAlwaysTold`: nobody rides free and no payment lifts an operator's
  block, as each suspension has a period that ended for good (`HasEnded`).
  `SuspensionAlwaysJust` adds that who paid is not suspended, if a client is in
  one team (`ClientsHaveOneTeam`), the exception for clients of two teams in
  section 4. The other hypothesis excludes periods of one day and comes from
  counting time in days: in the model such a period may begin after a tick and
  be closed by the next, as TLC finds; in the code it ends some hours after that
  next tick, which announces it.
- **`TeamMembership_proofs`**. `TeamKeepsAdmin`: if requests do not overlap every
  team keeps an admin, wherever requests are cut off; the premise is necessary,
  TLC finds a team without one at once if overlap is not excepted.
  `MembershipAlwaysInOrder`: a user is in one team unless an invitation let him
  into another, an invitation lets in one, and domains are held by CLIENTs or
  left behind; from `OneTeam`, `OneUse` and `AccessKept`, which follow founders,
  acceptances and clients from check to write. `StartAssumption` is what the
  theorem needs of the teams there are at first.
  `RegistrationAlwaysHolds`, for any number of logins and administrators: off
  the cloud who may insert a row has the lock and an invitation or finds no
  user (`UnderLock`), who is marked as invited was (`AskedIfInvited`), a user is
  marked by one login (`MarkedByOne`), and an administrator's request that no
  other overlapped has read the row as it is (`OwedAsMailing`).
  `ResourcesAlwaysHold`, for any plan: a kind nobody can exceed has one creation
  under way, which has found room (`RoomIsKept`), and what a lone update has read
  is what is there (`HookAsRead`, `BookAsRead`). `SetUpAlwaysHolds` puts the two
  in the instance that is run.
- **`ContactsAndCampaigns_proofs`**. Of `ContactSubscription`:
  `PendingIsAlwaysAsked` and `AlwaysSubscribedByConsent`. Rows are of the ids
  given out (`RowsInOrder`), a process that nobody overlaps is alone with its
  address (`Alone`), and a bounce that has passed a book left nobody in it
  (`BounceLeaves`).
  Of `CampaignBatch` and `PlanCatalogue`, `ServiceAlwaysHolds`: while no worker
  has stalled the batch has one run (`OneRun`), each mail is of a link or of an
  email still held by a run (`MailsPerLink`, `EmailsAreLoose`), a page under way
  is unmailed from its current contact on (`PageUnmailed`), and the cursor has
  been reached by all behind it (`CursorsReached`). The proof showed an earlier
  form of `OneMailPerContact` to be too strong, and TLC the counterexample, which
  takes a third request: a campaign deleted under a batch that nothing has
  disturbed is mailed twice to the contacts of that batch's page as well.
  `PauseAlwaysHolds`, an action property: the batches under way at a pause owe at
  most a page each, and the mails they owe are numbered so that each is counted
  once (`Owing`, `MailsWithin`).
  `PlansAreAlwaysShown`: an entry is as old as the time it has left says
  (`Fresh`), and while nothing was dropped under a lookup what is cached shows
  what the drops so far ask for (`Shown`).
  Of `ContentEditing`, `EditingAlwaysHolds`: a save has the content that was
  shown when it was typed and the domain the row has until another update
  crosses it (`SaveKnows`), the last change waits for its timer, is on its way or
  is what the row has (`LastChangeIsKept`), a schedule knows the row until an
  update crosses it (`ScheduleKnows`), what is scheduled has passed the check
  (`ScheduledHasPassed`), and each piece in which the check finds the placeholder
  is the address in the mail or is copied (`PrintedPlaceholder`). The proof showed
  that of `MailCanBeLeft` a case was missing, a placeholder in a string that no
  node prints, and that an excuse of `HtmlIsOfContent` was never used until
  duplicates were modelled. `WordsAlwaysHold` puts it beside the contacts, as the
  run does.
- **`DomainsAndLimits_proofs`**. Of `DomainVerification`, `RowAlwaysMatchesSes`: until two tasks overlap
  or one is cut off a task is alone, and how far it has got says what row,
  identity and events are (`Alone`, `Knows`). `AlwaysToldOnce`: who mails a status
  holds its lock (`MailsUnderLock`), and what the team was told last is what Redis
  holds (`LastIsTold`).
  Of `SendingLimits`, `LimitsAreAlwaysExact`, for any number of workers, any
  catalogue and any usage: until things overlap a check is the only one at work
  and nothing is uncounted (`OneCheck`), the caches it reads hold what the rows
  say but for those an operator's request has yet to put right (`CachesTrue`),
  so what it has read and found is so (`ProperCheck`); and what was sent is at
  most what is counted and what is unreported (`SentIsCounted`).
- **`Billing_proofs`**. `NumbersAlwaysHold`: numbers run ahead of rows by less
  than a call's attempts, since a number is a count plus at most that and counts
  only grow; a call nobody overtakes never fails, as every number it tried is
  still taken and the last would lie beyond that bound. `BillingKeepsNumbers`:
  the same under the registry of gateways. `PaymentIsAlwaysKnown`: `SyncInv`
  follows a customer from its making to its session (`SessionsKnown`) and a
  handler from its reading of the team to its confirmation (`OneAtATime`). The
  newest subscription of a customer exists by the well-foundedness of `Nat`.

Only model-checked:

- liveness, which TLAPS cannot reach, and with it the fairness half of
  `EmailOutcome`, `EveryEmailSettles`, `TeamFollowsStripe`, `CampaignEnds`,
  `NotificationTakesEffect`, `EveryCallSettles`, `VerificationGetsThrough` and
  `LimitsTakeEffect`.

No module declares a RECURSIVE operator: what is recursive, as the rendering of
`ContentEditing`, is a function of the level. An induction over numbers is
written as a least counterexample where one is needed.

## 6. What is not modelled, and what is assumed

Half of the repository's code is pages and components in TSX, clients and
marketing, without state of the system; the modules stand for most of the rest
that keeps any.

- **Emails**: what a template renders to; per-region quotas; the rows' bodies. A
  batch reads the domains of its senders in one step.
- **Hook**: a report that was lost before the queue is one that never came. The
  unsubscriptions of one notification (`ses-hook-parser.ts:575`) are one step.
- **Webhooks**: one webhook; the filter by event and domain, payloads.
  **Campaigns**: the batch window, and `sendCampaign`, which nothing calls.
- **Editing**: names, subjects and addresses are one field; images
  and contact variables other than the unsubscribe address are left out. Of the
  duplicates those of API campaigns are modelled: only they begin with an html
  that is not their content's.
- **Idempotency**: equality of canonical bodies is equality.
- **Public API**: the other routes, which hand their body to services modelled
  elsewhere; a key's domain.
- **Regions**: `updateSesSetting`, which writes two quotas. What SES does with a
  configuration set is outside.
- **Activations**: caches (in `PlanCatalogue`), mails (a mail that fails is
  logged and changes nothing), listings. A crash stops an operation between two
  round trips.
- **Stripe**: prices are their plans; the manage-session link and the connection
  test only ask. dLocal is a stub whose operations throw.
- **Contacts**: a book's double opt-in flag is constant; the campaigns'
  `unsubscribed` counters are in `SesHook`.
- **Teams**: invitations name domains of their own team, as the dashboard offers
  them; what the router authorises is a guard of the first step; the two-minute
  team cache is left out.
- **Login**: sessions and tokens are NextAuth's.
- **Domains**: one name; a task is shorter than the 300 s of the notification
  lock and that is shorter than the time between two checks; DNS records and
  tracking flags left out.
- **Limits**: `lagged` remembers that a check, a report or a request came before
  an earlier one was through or its cache entry gone; until then limits are
  exact. One worker; several add interleavings of their cache writes. The user's
  row is read before the team's. A notice's cool-down is longer than a check.
- **Invoices**: no code deletes one (the schema's cascade would, if a team were).
- **SMTP server**: which headers and attachments are handed on. **SDKs**: the
  rest of them is an HTTP client.
- Usage reports to Stripe, the tRPC layer, the admin API's front, system mails,
  the SES client, the clean-up of bodies, notifications, storage and dashboard,
  the editor, the shared library, the pages: `not_modelled` in `PROJECT.json`,
  each with its reason.

## 7. Plan

Done: the inventory; the modules of section 2; the proofs of section 5.

Prove: every safety property that a passing run checks has its theorem; liveness
stays with TLC.

Extend:

1. **Compositions**: `CampaignBatch` with `EmailPipeline`'s enqueue, and
   `PlanActivation` with `SendingLimits` (a payment lifts a refusal in the end).
2. Abstract specifications for `WebhookDispatch` (a call is delivered or failed,
   not both) and `CampaignBatch` (each contact resolved once).
3. Larger instances where they pay: two emails of one bulk request, a client of
   two teams, two workers in `SendingLimits`.
