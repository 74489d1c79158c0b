------------------------- MODULE DomainVerification -------------------------
(***************************************************************************)
(* One domain name: its row, its identity in SES, and the verification     *)
(* state in Redis, which createDomain, deleteDomain, the refreshes of      *)
(* getDomain and of the hourly job, and SES itself change.  A step of a    *)
(* task is one call to the database, to Redis, to SES or to the mailer.    *)
(*                                                                         *)
(* Redis keys carry the id of the row, so that a new row starts afresh and *)
(* what a task writes for an old one is lost.  told, published and         *)
(* suffered are history: the status of the row's last mail and of its last *)
(* event, and the disturbances there were.                                 *)
(***************************************************************************)
EXTENDS Naturals, FiniteSets

CONSTANTS
  Tasks,        \* requests and job runs that can be under way at once
  SesStates,    \* the states of an identity: [status, whole]
  MaxRows,      \* bound on the rows ever created
  MaxChanges,   \* bound on SES changing its mind
  MaxRequests,  \* bound on requests; the job's runs are not bounded
  DomainFaults, \* the disturbances an instance allows
  MaxFaults     \* bound: how many kinds of them one behaviour has

DomainStatuses == { "NOT_STARTED", "PENDING", "SUCCESS", "FAILED", "TEMPORARY_FAILURE" }
\* Tasks overlap, one dies midway, the mailer fails.
DomainFaultKinds == { "overlap", "dies", "mail" }

\* whole: DKIM and MAIL FROM verified as well.
ASSUME DomainAssumption ==
  /\ SesStates \subseteq [status : DomainStatuses, whole : BOOLEAN]
  /\ MaxRows \in Nat /\ MaxChanges \in Nat /\ MaxRequests \in Nat
  /\ DomainFaults \subseteq DomainFaultKinds /\ MaxFaults \in Nat

VARIABLES
  row,      \* the Domain row, or NoRow
  identity, \* the SES identity, or NoIdentity
  redis,    \* of the row: [due, ever, last]
  held,     \* the statuses whose notification lock is held
  task,     \* what each task holds between two of its calls
  rows, changes, requests, \* counts
  told, published, suffered

domainVars == << row, identity, redis, held, task, rows, changes, requests, told,
                 published, suffered >>
domainStores == << row, identity, redis, held, rows, changes, told, published >>

NoRow == [id |-> 0, status |-> "NOT_STARTED", verifying |-> FALSE]
NoIdentity == [status |-> "NOT_STARTED", whole |-> FALSE, gone |-> TRUE]
Identity(s) == [status |-> s.status, whole |-> s.whole, gone |-> FALSE]
NewIdentity == Identity([status |-> "NOT_STARTED", whole |-> FALSE])
\* No last-check key: due; last-notified-status: last; has-ever-verified: ever.
NewRedis == [due |-> TRUE, ever |-> FALSE, last |-> "none"]

Idle == [pc |-> "idle", id |-> 0, prev |-> "NOT_STARTED", verifying |-> FALSE,
         ever |-> FALSE, last |-> "none", seen |-> NoIdentity]
Refreshing == { "listed", "readState", "readSes", "writeRow", "setChecked", "markEver",
                "reserve", "mail", "setLast", "emit" }
Editing == { "insertRow", "emitCreated", "dropIdentity", "dropRow", "emitDeleted" }
Quiet == \A t \in Tasks : task[t].pc = "idle"
Current(t) == row.id # 0 /\ row.id = task[t].id

Identities == { Identity(s) : s \in SesStates } \cup {NewIdentity, NoIdentity}
DomainTypeOK ==
  /\ row \in [id : 0..MaxRows, status : DomainStatuses, verifying : BOOLEAN]
  /\ identity \in Identities
  /\ redis \in [due : BOOLEAN, ever : BOOLEAN, last : DomainStatuses \cup {"none"}]
  /\ held \subseteq DomainStatuses
  /\ task \in [Tasks -> [pc : {"idle"} \cup Refreshing \cup Editing, id : 0..MaxRows,
                         prev : DomainStatuses, verifying : BOOLEAN, ever : BOOLEAN,
                         last : DomainStatuses \cup {"none"}, seen : Identities]]
  /\ rows \in 0..MaxRows /\ changes \in 0..MaxChanges /\ requests \in 0..MaxRequests
  /\ told \in DomainStatuses \cup {"none"} /\ published \in DomainStatuses \cup {"none"}
  /\ suffered \subseteq DomainFaults

DomainInit ==
  /\ row = NoRow /\ identity = NoIdentity /\ redis = NewRedis /\ held = {}
  /\ task = [t \in Tasks |-> Idle]
  /\ rows = 0 /\ changes = 0 /\ requests = 0
  /\ told = "none" /\ published = "none" /\ suffered = {}

At(t, step) == task[t].pc = step
Go(t, step) == task' = [task EXCEPT ![t].pc = step] /\ UNCHANGED requests
End(t) == task' = [task EXCEPT ![t] = Idle] /\ UNCHANGED requests
Suffer(f) ==
  /\ f \in DomainFaults /\ Cardinality(suffered \cup {f}) <= MaxFaults
  /\ suffered' = suffered \cup {f}
MayBegin(t) ==
  At(t, "idle") /\ (IF Quiet THEN UNCHANGED suffered ELSE Suffer("overlap"))
Request(t, job) ==
  /\ MayBegin(t)
  /\ requests < MaxRequests /\ requests' = requests + 1
  /\ task' = [task EXCEPT ![t] = job]

-----------------------------------------------------------------------------
\* createDomain: SES refuses an identity it has, the database a name it has.
CreateDomain(t) ==
  /\ identity.gone
  /\ identity' = NewIdentity
  /\ Request(t, [Idle EXCEPT !.pc = "insertRow"])
  /\ UNCHANGED << row, redis, held, rows, changes, told, published >>

InsertRow(t) ==
  /\ At(t, "insertRow")
  /\ IF row.id # 0 THEN End(t) /\ UNCHANGED << row, redis, held, rows, told >>
     ELSE /\ rows < MaxRows /\ rows' = rows + 1
          /\ row' = [id |-> rows', status |-> "PENDING", verifying |-> FALSE]
          /\ redis' = NewRedis /\ held' = {} /\ told' = "none"
          /\ Go(t, "emitCreated")
  /\ UNCHANGED << identity, changes, published, suffered >>

EmitCreated(t) ==
  /\ At(t, "emitCreated")
  /\ published' = "PENDING"
  /\ End(t)
  /\ UNCHANGED << row, identity, redis, held, rows, changes, told, suffered >>

\* deleteDomain: the identity first, then the row.
DeleteDomain(t) ==
  /\ row.id # 0
  /\ Request(t, [Idle EXCEPT !.pc = "dropIdentity", !.id = row.id])
  /\ UNCHANGED domainStores

\* Mutant: the identity is left to SES.
DropIdentityNever(t) ==
  /\ At(t, "dropIdentity")
  /\ Go(t, "dropRow")
  /\ UNCHANGED << domainStores, suffered >>

DropIdentity(t) ==
  /\ At(t, "dropIdentity")
  /\ identity' = NoIdentity
  /\ IF identity.gone THEN End(t) ELSE Go(t, "dropRow")
  /\ UNCHANGED << row, redis, held, rows, changes, told, published, suffered >>

DropRow(t) ==
  /\ At(t, "dropRow")
  /\ IF Current(t) THEN row' = NoRow /\ Go(t, "emitDeleted") ELSE UNCHANGED row /\ End(t)
  /\ UNCHANGED << identity, redis, held, rows, changes, told, published, suffered >>

EmitDeleted(t) ==
  /\ At(t, "emitDeleted")
  /\ published' = "none"
  /\ End(t)
  /\ UNCHANGED << row, identity, redis, held, rows, changes, told, suffered >>

\* startVerification of the dashboard, verify of the API.
StartVerification(t) ==
  /\ row.id # 0
  /\ row' = [row EXCEPT !.verifying = TRUE]
  /\ Request(t, Idle)
  /\ UNCHANGED << identity, redis, held, rows, changes, told, published >>

-----------------------------------------------------------------------------
\* A refresh keeps the row it was given: getDomain's, as it is, of a domain
\* that is being verified; or the job's, as it was when the job listed them.
Snapshot(step) ==
  [Idle EXCEPT !.pc = step, !.id = row.id, !.prev = row.status, !.verifying = row.verifying]

GetDomain(t) ==
  /\ row.id # 0 /\ row.verifying
  /\ Request(t, Snapshot("readState"))
  /\ UNCHANGED domainStores

ListDomains(t) ==
  /\ row.id # 0
  /\ MayBegin(t) /\ \A u \in Tasks : ~At(u, "listed")
  /\ task' = [task EXCEPT ![t] = Snapshot("listed")]
  /\ UNCHANGED << domainStores, requests >>

Redis(t) == IF Current(t) THEN redis ELSE NewRedis

\* Mutant: a failed domain is given up, verified before or not.
CheckDueNever(t) ==
  /\ At(t, "listed")
  /\ IF Redis(t).due /\ ~(task[t].prev = "FAILED" /\ ~task[t].verifying)
     THEN Go(t, "readState") ELSE End(t)
  /\ UNCHANGED << domainStores, suffered >>

\* isDomainVerificationDue.
CheckDue(t) ==
  LET gaveUp == ~Redis(t).ever /\ task[t].prev = "FAILED" /\ ~task[t].verifying IN
  /\ At(t, "listed")
  /\ IF Redis(t).due /\ ~gaveUp THEN Go(t, "readState") ELSE End(t)
  /\ UNCHANGED << domainStores, suffered >>

ReadState(t) ==
  /\ At(t, "readState")
  /\ task' = [task EXCEPT ![t] = [@ EXCEPT !.pc = "readSes", !.ever = Redis(t).ever,
                                           !.last = Redis(t).last]]
  /\ UNCHANGED << domainStores, requests, suffered >>

\* GetEmailIdentity throws for an identity that is gone.
ReadSes(t) ==
  /\ At(t, "readSes")
  /\ task' = [task EXCEPT ![t] = IF identity.gone THEN Idle
                                 ELSE [@ EXCEPT !.pc = "writeRow", !.seen = identity]]
  /\ UNCHANGED << domainStores, requests, suffered >>

ShouldContinueVerifying(s) == ~(s.status = "SUCCESS" /\ s.whole) /\ s.status # "FAILED"

WriteRow(t) ==
  LET s == task[t].seen IN
  /\ At(t, "writeRow")
  /\ IF Current(t)
     THEN /\ row' = [row EXCEPT !.status = s.status, !.verifying = ShouldContinueVerifying(s)]
          /\ Go(t, "setChecked")
     ELSE UNCHANGED row /\ End(t)
  /\ UNCHANGED << identity, redis, held, rows, changes, told, published, suffered >>

\* Mutants: every status of a domain once verified is mailed; a domain is
\* mailed of once.
ShouldNotifyAgain(j) ==
  /\ ~(j.last = "none" /\ j.seen.status = j.prev)
  /\ j.ever \/ (j.seen.status \in {"SUCCESS", "FAILED"} /\ j.seen.status # j.last)
ShouldNotifyOnce(j) ==
  /\ j.last = "none" /\ j.seen.status # j.prev
  /\ j.ever \/ j.seen.status \in {"SUCCESS", "FAILED"}

\* shouldSendDomainStatusNotification.
ShouldNotify(j) ==
  LET s == j.seen.status IN
  /\ ~(j.last = "none" /\ s = j.prev)
  /\ j.ever \/ s \in {"SUCCESS", "FAILED"}
  /\ s # j.last

\* Mutant: only a verified domain is told of.
AfterNoticeVerified(t) ==
  IF "SUCCESS" = task[t].seen.status /\ task[t].prev # "SUCCESS" THEN Go(t, "emit") ELSE End(t)

AfterNotice(t) == IF task[t].seen.status # task[t].prev THEN Go(t, "emit") ELSE End(t)
Decide(t) == IF ShouldNotify(task[t]) THEN Go(t, "reserve") ELSE AfterNotice(t)

SetChecked(t) ==
  /\ At(t, "setChecked")
  /\ redis' = IF Current(t) THEN [redis EXCEPT !.due = FALSE] ELSE redis
  /\ IF task[t].seen.status = "SUCCESS" THEN Go(t, "markEver") ELSE Decide(t)
  /\ UNCHANGED << row, identity, held, rows, changes, told, published, suffered >>

\* Mutant: the flag is set under the key of the last mail.
MarkEverElsewhere(t) ==
  /\ At(t, "markEver")
  /\ redis' = IF Current(t) THEN [redis EXCEPT !.last = "1"] ELSE redis
  /\ Decide(t)
  /\ UNCHANGED << row, identity, held, rows, changes, told, published, suffered >>

MarkEver(t) ==
  /\ At(t, "markEver")
  /\ redis' = IF Current(t) THEN [redis EXCEPT !.ever = TRUE] ELSE redis
  /\ Decide(t)
  /\ UNCHANGED << row, identity, held, rows, changes, told, published, suffered >>

\* Mutant: the lock is set without NX.
ReserveAlways(t) ==
  /\ At(t, "reserve")
  /\ Go(t, "mail")
  /\ held' = IF Current(t) THEN held \cup {task[t].seen.status} ELSE held
  /\ UNCHANGED << row, identity, redis, rows, changes, told, published, suffered >>

\* SET NX: held for 300 seconds, sent or not.
Reserve(t) ==
  LET s == task[t].seen.status IN
  /\ At(t, "reserve")
  /\ IF Current(t) /\ s \in held THEN AfterNotice(t) /\ UNCHANGED held
     ELSE /\ Go(t, "mail")
          /\ held' = IF Current(t) THEN held \cup {s} ELSE held
  /\ UNCHANGED << row, identity, redis, rows, changes, told, published, suffered >>

SendNotification(t) ==
  /\ At(t, "mail")
  /\ told' = IF Current(t) THEN task[t].seen.status ELSE told
  /\ Go(t, "setLast")
  /\ UNCHANGED << row, identity, redis, held, rows, changes, published, suffered >>

\* Members are mailed side by side: some may have the mail that failed.
MailFails(t) ==
  /\ Suffer("mail")
  /\ At(t, "mail")
  /\ told' \in {told, IF Current(t) THEN task[t].seen.status ELSE told}
  /\ AfterNotice(t)
  /\ UNCHANGED << row, identity, redis, held, rows, changes, published >>

SetLast(t) ==
  /\ At(t, "setLast")
  /\ redis' = IF Current(t) THEN [redis EXCEPT !.last = task[t].seen.status] ELSE redis
  /\ AfterNotice(t)
  /\ UNCHANGED << row, identity, held, rows, changes, told, published, suffered >>

\* domain.verified or domain.updated, with the status written.
EmitChange(t) ==
  /\ At(t, "emit")
  /\ published' = IF Current(t) THEN task[t].seen.status ELSE published
  /\ End(t)
  /\ UNCHANGED << row, identity, redis, held, rows, changes, told, suffered >>

-----------------------------------------------------------------------------
\* SES looks at the DNS records and changes its mind.
SesChecks ==
  /\ ~identity.gone
  /\ changes < MaxChanges /\ changes' = changes + 1
  /\ \E s \in SesStates : identity' = Identity(s) /\ identity' # identity
  /\ UNCHANGED << row, redis, held, task, rows, requests, told, published, suffered >>

\* A task lasts less than the lock, and the lock less than the recheck periods.
LockExpires ==
  /\ Quiet
  /\ \E s \in held : held' = held \ {s}
  /\ UNCHANGED << row, identity, redis, task, rows, changes, requests, told, published, suffered >>

TimePasses ==
  /\ Quiet /\ ~redis.due
  /\ redis' = [redis EXCEPT !.due = TRUE] /\ held' = {}
  /\ UNCHANGED << row, identity, task, rows, changes, requests, told, published, suffered >>

Dies(t) == Suffer("dies") /\ ~At(t, "idle") /\ End(t) /\ UNCHANGED domainStores

TaskStep(t) ==
  \/ InsertRow(t) \/ EmitCreated(t) \/ DropIdentity(t) \/ DropRow(t) \/ EmitDeleted(t)
  \/ CheckDue(t) \/ ReadState(t) \/ ReadSes(t) \/ WriteRow(t) \/ SetChecked(t) \/ MarkEver(t)
  \/ Reserve(t) \/ SendNotification(t) \/ MailFails(t) \/ SetLast(t) \/ EmitChange(t)
DomainNext ==
  \/ \E t \in Tasks :
       \/ CreateDomain(t) \/ DeleteDomain(t) \/ StartVerification(t) \/ GetDomain(t)
       \/ ListDomains(t) \/ TaskStep(t) \/ Dies(t)
  \/ SesChecks \/ LockExpires \/ TimePasses
DomainSpec == DomainInit /\ [][DomainNext]_domainVars

\* Tasks get on, the job runs every hour, and nothing holds up time.
DomainFairSpec ==
  /\ DomainSpec
  /\ \A t \in Tasks : WF_domainVars(TaskStep(t))
  /\ SF_domainVars(\E t \in Tasks : ListDomains(t))
  /\ SF_domainVars(TimePasses)

-----------------------------------------------------------------------------
(* Of refreshes that overlap one at most sends the mail of a status: the   *)
(* lock, against the last-notified-status that all of them read before.    *)
NotifiedByOne ==
  \A t, u \in Tasks :
    (/\ t # u /\ Current(t) /\ Current(u)
     /\ {task[t].pc, task[u].pc} \subseteq {"mail", "setLast"})
    => task[t].seen.status # task[u].seen.status

(* Two mails in a row never say the same of a row, unless refreshes        *)
(* overlap or one fails midway: last-notified-status and the row's status  *)
(* at the start of the refresh, kept in two stores.                        *)
NoRepeatedMail ==
  [][\A t \in Tasks : 
       SendNotification(t) /\ Current(t) => told # task[t].seen.status \/ suffered # {}]_domainVars

(* Between tasks a row has its identity and an identity its row:           *)
(* createDomain and deleteDomain do both or neither, unless they are cut   *)
(* off or interfere with each other.                                       *)
RowHasIdentity ==
  Quiet /\ suffered \cap {"overlap", "dies"} = {} => (row.id # 0 <=> ~identity.gone)

(* Between tasks the events published tell the status of the row: the      *)
(* comparison of previousStatus with the status written.  A task cut off   *)
(* publishes nothing, and of two that overlap the older may come last.     *)
EventsTellStatus ==
  Quiet /\ row.id # 0 /\ suffered \cap {"overlap", "dies"} = {} => published = row.status

(* A domain that stays verified is said to be, in the end, by the last     *)
(* mail: shouldSendDomainStatusNotification over the job's runs.  Nothing  *)
(* makes up for a mail that failed, a refresh cut off before its mail, or  *)
(* two that mailed in the wrong order.                                     *)
VerifiedIsTold ==
  <>[](row.id # 0 /\ row.status = "SUCCESS")
    => <>[](told = "SUCCESS" \/ suffered # {})

(* A domain SES goes on holding verified becomes so here, unless its first *)
(* verification failed and nobody started another, or the refreshes die.   *)
VerifiedInTheEnd ==
  <>[](row.id # 0 /\ identity.status = "SUCCESS" /\ identity.whole)
    => <>[](\/ row.status = "SUCCESS"
            \/ "dies" \in suffered
            \/ ~redis.ever /\ row.status = "FAILED" /\ ~row.verifying)

(* Row, identity and published events tell of one domain.                  *)
RowMatchesSes == DomainTypeOK /\ RowHasIdentity /\ EventsTellStatus

(* The team is mailed once of a status, by refreshes that overlap and by   *)
(* those that follow each other.                                           *)
ToldOnce == []NotifiedByOne /\ NoRepeatedMail

(* What SES verified gets to the row, and from there to the team.          *)
VerificationGetsThrough == VerifiedInTheEnd /\ VerifiedIsTold
=============================================================================
