---------------------- MODULE DomainsAndLimits_proofs ----------------------
(***************************************************************************)
(* One domain's row, identity and events tell of one thing, and its team   *)
(* is mailed once of a status: for any number of requests and runs of the  *)
(* job.  As long as nothing overlaps one task is at work, and how far it   *)
(* has got says what row, identity and Redis hold; when tasks do overlap,  *)
(* the notification lock alone keeps them from mailing the same.           *)
(***************************************************************************)
EXTENDS DomainVerification, SendingLimits, TLAPS

Jobs ==
  [pc : {"idle"} \cup Refreshing \cup Editing, id : 0..MaxRows, prev : DomainStatuses,
   verifying : BOOLEAN, ever : BOOLEAN, last : DomainStatuses \cup {"none"}, seen : Identities]

RowType == [id : 0..MaxRows, status : DomainStatuses, verifying : BOOLEAN]
RedisType == [due : BOOLEAN, ever : BOOLEAN, last : DomainStatuses \cup {"none"}]

\* What holds of everything but the tasks.
StoreTypes ==
  /\ row \in RowType /\ identity \in Identities /\ redis \in RedisType
  /\ held \subseteq DomainStatuses
  /\ rows \in 0..MaxRows /\ changes \in 0..MaxChanges /\ requests \in 0..MaxRequests
  /\ told \in DomainStatuses \cup {"none"} /\ published \in DomainStatuses \cup {"none"}
  /\ suffered \subseteq DomainFaults

Calm == suffered \cap {"overlap", "dies"} = {}

\* Ids are not used again, so no task holds the id of a row to come.
IdsAreNew == row.id <= rows /\ \A t \in Tasks : task[t].id <= rows

Alone ==
  "overlap" \notin suffered =>
    \A t, u \in Tasks : ~At(t, "idle") /\ ~At(u, "idle") => t = u

Settled == (row.id # 0 <=> ~identity.gone) /\ (row.id # 0 => published = row.status)

\* What a task at work knows of the row, of the identity and of the events.
BeforeWrite == {"listed", "readState", "readSes", "writeRow"}
AfterWrite == {"setChecked", "markEver", "reserve", "mail", "setLast"}
Knows(j) ==
  /\ j.pc = "insertRow" => row.id = 0 /\ ~identity.gone
  /\ j.pc = "emitCreated" => row.id # 0 /\ ~identity.gone /\ row.status = "PENDING"
  /\ j.pc = "emitDeleted" => row.id = 0 /\ identity.gone
  /\ j.pc = "dropRow" => row.id # 0 /\ row.id = j.id /\ identity.gone
  /\ j.pc \in Refreshing \cup {"dropIdentity"} => row.id # 0 /\ row.id = j.id /\ ~identity.gone
  /\ j.pc \in BeforeWrite => published = row.status /\ j.prev = row.status
  /\ j.pc \in AfterWrite => published = j.prev /\ row.status = j.seen.status
  /\ j.pc = "emit" => row.status = j.seen.status

\* Last-notified-status is what the team was told, but between the mail and
\* the call that sets it.
HasRead == {"readSes", "writeRow", "setChecked", "markEver", "reserve", "mail"}
LastIsTold(j) ==
  /\ IF j.pc = "setLast" THEN told = j.seen.status ELSE told = redis.last
  /\ j.pc \in HasRead => j.last = redis.last
  /\ j.pc \in {"reserve", "mail"} => j.seen.status # j.last

\* Who mails holds the lock of what it mails.
Mails(j) == j.pc \in {"mail", "setLast"} /\ row.id # 0 /\ row.id = j.id
MailsUnderLock == \A t \in Tasks : Mails(task[t]) => task[t].seen.status \in held

DomainInv ==
  /\ DomainTypeOK /\ IdsAreNew /\ Alone
  /\ Calm => (Quiet => Settled) /\ \A t \in Tasks : Knows(task[t])
  /\ suffered = {} => /\ Quiet => told = redis.last
                      /\ \A t \in Tasks : ~At(t, "idle") => LastIsTold(task[t])
  /\ MailsUnderLock /\ NotifiedByOne

USE DomainAssumption

LEMMA DomainTypes ==
  DomainTypeOK <=> StoreTypes /\ task \in [Tasks -> Jobs]
BY DEF DomainTypeOK, StoreTypes, Jobs, RowType, RedisType

LEMMA NewTypes ==
  /\ Idle \in Jobs /\ Idle.pc = "idle" /\ NoIdentity \in Identities /\ NewIdentity \in Identities
  /\ NoRow \in RowType /\ NoRow.id = 0 /\ NewRedis \in RedisType /\ NewRedis.last = "none"
  /\ NoIdentity.gone /\ ~NewIdentity.gone
<1>1. NoIdentity \in Identities /\ NewIdentity \in Identities
  BY DEF Identities
<1>2. Idle \in Jobs
  BY <1>1 DEF Idle, Jobs, DomainStatuses
<1>3. NoRow \in RowType /\ NewRedis \in RedisType
  BY DEF NoRow, NewRedis, RowType, RedisType, DomainStatuses
<1> QED
  BY <1>1, <1>2, <1>3 DEF Idle, NoRow, NewRedis, NoIdentity, NewIdentity, Identity

LEMMA SeenTypes == \A i \in Identities : i.status \in DomainStatuses /\ i.gone \in BOOLEAN
<1> SUFFICES ASSUME NEW i \in Identities PROVE i.status \in DomainStatuses /\ i.gone \in BOOLEAN
  OBVIOUS
<1>1. "NOT_STARTED" \in DomainStatuses
  BY DEF DomainStatuses
<1>2. CASE i \in {NewIdentity, NoIdentity}
  <2>1. /\ NewIdentity = [status |-> "NOT_STARTED", whole |-> FALSE, gone |-> FALSE]
        /\ NoIdentity = [status |-> "NOT_STARTED", whole |-> FALSE, gone |-> TRUE]
    BY DEF Identity, NewIdentity, NoIdentity
  <2>2. CASE i = NewIdentity
    BY <1>1, <2>1, <2>2
  <2>3. CASE i = NoIdentity
    BY <1>1, <2>1, <2>3
  <2> QED
    BY <1>2, <2>2, <2>3
<1>3. CASE i \in {Identity(s) : s \in SesStates}
  <2>1. PICK s \in SesStates : i = Identity(s)
    BY <1>3
  <2>2. s.status \in DomainStatuses
    OBVIOUS
  <2> QED
    BY <2>1, <2>2 DEF Identity
<1> QED
  BY <1>2, <1>3 DEF Identities

LEMMA DomainInvInit == DomainInit => DomainInv
<1> SUFFICES ASSUME DomainInit PROVE DomainInv
  OBVIOUS
<1>1. task \in [Tasks -> Jobs] /\ \A t \in Tasks : task[t] = Idle
  BY NewTypes DEF DomainInit
<1>2. StoreTypes
  BY NewTypes DEF DomainInit, StoreTypes
<1>3. DomainTypeOK
  BY <1>1, <1>2, DomainTypes
<1>4. IdsAreNew /\ Alone
  BY <1>1, NewTypes DEF DomainInit, IdsAreNew, Alone, At, Idle
<1>5. Settled /\ told = redis.last
  BY NewTypes DEF DomainInit, Settled
<1>6. \A t \in Tasks : Knows(task[t]) /\ At(t, "idle") /\ ~Mails(task[t])
  BY <1>1, NewTypes DEF Knows, At, Mails, Refreshing, BeforeWrite, AfterWrite
<1>7. MailsUnderLock /\ NotifiedByOne
  BY <1>6, NewTypes DEF MailsUnderLock, NotifiedByOne, At, Current, DomainInit
<1> QED
  BY <1>3, <1>4, <1>5, <1>6, <1>7 DEF DomainInv

(***************************************************************************)
(* What one task does: all that its step has to show.                      *)
(***************************************************************************)
LEMMA Moves ==
  ASSUME DomainInv, NEW t \in Tasks, NEW j \in Jobs,
         task' = [task EXCEPT ![t] = j], StoreTypes',
         suffered \subseteq suffered',
         "overlap" \notin suffered' => \A u \in Tasks \ {t} : At(u, "idle"),
         rows <= rows', j.id <= rows',
         \/ row'.id = row.id /\ held \subseteq held'
         \/ row'.id = 0
         \/ row'.id = rows + 1 /\ rows' = rows + 1,
         j.pc \in {"mail", "setLast"} /\ row'.id # 0 /\ row'.id = j.id =>
           /\ row'.id = row.id /\ j.seen.status \in held'
           /\ \/ j.seen.status \notin held
              \/ At(t, "mail") /\ task[t].id = j.id /\ task[t].seen = j.seen,
         Calm' => IF j.pc = "idle" THEN Settled' ELSE Knows(j)',
         suffered' = {} => IF j.pc = "idle" THEN told' = redis'.last ELSE LastIsTold(j)'
  PROVE  DomainInv'
<1>1. StoreTypes /\ task \in [Tasks -> Jobs]
  BY DomainTypes DEF DomainInv
<1>2. task'[t] = j /\ \A u \in Tasks : u # t => task'[u] = task[u]
  BY <1>1
<1>3. DomainTypeOK'
  <2>1. task' \in [Tasks -> Jobs]
    BY <1>1
  <2> QED
    BY <2>1, DomainTypes DEF StoreTypes, DomainTypeOK, Jobs, RowType, RedisType
<1>4. IdsAreNew'
  <2>1. rows \in Nat /\ rows' \in Nat /\ row.id \in Nat /\ \A u \in Tasks : task[u].id \in Nat
    BY <1>1 DEF StoreTypes, RowType, Jobs
  <2>2. row'.id <= rows'
    BY <2>1 DEF DomainInv, IdsAreNew
  <2>3. \A u \in Tasks : task'[u].id <= rows'
    BY <1>2, <2>1 DEF DomainInv, IdsAreNew
  <2> QED
    BY <2>2, <2>3 DEF IdsAreNew
<1>5. Alone'
  BY <1>2 DEF Alone, At
<1>6. Calm' => (Quiet' => Settled') /\ \A u \in Tasks : Knows(task[u])'
  <2> SUFFICES ASSUME Calm' PROVE (Quiet' => Settled') /\ \A u \in Tasks : Knows(task[u])'
    OBVIOUS
  <2>1. "overlap" \notin suffered'
    BY DEF Calm
  <2>2. Quiet' => Settled'
    BY <1>2 DEF Quiet
  <2>3. ASSUME NEW u \in Tasks, task'[u].pc = "idle" PROVE Knows(task[u])'
    BY <2>3 DEF Knows, Refreshing, BeforeWrite, AfterWrite
  <2>4. ASSUME NEW u \in Tasks, u # t PROVE Knows(task[u])'
    BY <1>2, <2>1, <2>3, <2>4 DEF At
  <2>5. j.pc # "idle" => Knows(task[t])'
    BY <1>2 DEF Knows
  <2> QED
    BY <1>2, <2>2, <2>3, <2>4, <2>5
<1>7. suffered' = {} => /\ Quiet' => told' = redis'.last
                        /\ \A u \in Tasks : ~At(u, "idle")' => LastIsTold(task[u])'
  <2> SUFFICES ASSUME suffered' = {}
               PROVE  /\ Quiet' => told' = redis'.last
                      /\ \A u \in Tasks : ~At(u, "idle")' => LastIsTold(task[u])'
    OBVIOUS
  <2>1. Quiet' => told' = redis'.last
    BY <1>2 DEF Quiet
  <2>2. ASSUME NEW u \in Tasks, ~At(u, "idle")' PROVE u = t
    BY <1>2, <2>2 DEF At
  <2>3. j.pc # "idle" => LastIsTold(task[t])'
    BY <1>2 DEF LastIsTold
  <2> QED
    BY <1>2, <2>1, <2>2, <2>3 DEF At
<1>8. \A u \in Tasks : u # t /\ Mails(task[u])' =>
        Mails(task[u]) /\ row'.id = row.id /\ held \subseteq held'
  <2> SUFFICES ASSUME NEW u \in Tasks, u # t, Mails(task[u])'
               PROVE  Mails(task[u]) /\ row'.id = row.id /\ held \subseteq held'
    OBVIOUS
  <2>1. task[u].pc \in {"mail", "setLast"} /\ row'.id # 0 /\ row'.id = task[u].id
    BY <1>2 DEF Mails
  <2>2. task[u].id <= rows /\ rows \in Nat
    BY <1>1 DEF DomainInv, IdsAreNew, StoreTypes
  <2>3. row'.id = row.id /\ held \subseteq held'
    BY <2>1, <2>2
  <2> QED
    BY <2>1, <2>3 DEF Mails
<1>9. MailsUnderLock'
  BY <1>2, <1>8 DEF DomainInv, MailsUnderLock, Mails
<1>10. ASSUME NEW u \in Tasks, u # t, Mails(task[u])', Mails(task[t])'
       PROVE  task[u].seen.status # j.seen.status
  <2>1. j.pc \in {"mail", "setLast"} /\ row'.id # 0 /\ row'.id = j.id
    BY <1>2, <1>10 DEF Mails
  <2>2. task[u].seen.status \in held /\ Mails(task[u])
    BY <1>8, <1>10 DEF DomainInv, MailsUnderLock
  <2>3. CASE j.seen.status \notin held
    BY <2>2, <2>3
  <2>4. CASE At(t, "mail") /\ task[t].id = j.id /\ task[t].seen = j.seen
    <3>1. Current(t) /\ Current(u) /\ {task[t].pc, task[u].pc} \subseteq {"mail", "setLast"}
      BY <2>1, <2>2, <2>4 DEF Current, Mails, At
    <3> QED
      BY <1>10, <2>4, <3>1 DEF DomainInv, NotifiedByOne
  <2> QED
    BY <2>1, <2>3, <2>4
<1>11. NotifiedByOne'
  <2> SUFFICES ASSUME NEW u \in Tasks, NEW v \in Tasks, u # v, Mails(task[u])', Mails(task[v])'
               PROVE  task'[u].seen.status # task'[v].seen.status
    BY DEF NotifiedByOne, Mails, Current
  <2>1. CASE u = t
    BY <1>2, <1>10, <2>1
  <2>2. CASE v = t
    BY <1>2, <1>10, <2>2
  <2>3. CASE u # t /\ v # t
    <3>1. Mails(task[u]) /\ Mails(task[v])
      BY <1>8, <2>3
    <3>2. Current(u) /\ Current(v) /\ {task[u].pc, task[v].pc} \subseteq {"mail", "setLast"}
      BY <3>1 DEF Current, Mails
    <3> QED
      BY <1>2, <2>3, <3>2 DEF DomainInv, NotifiedByOne
  <2> QED
    BY <2>1, <2>2, <2>3
<1> QED
  BY <1>3, <1>4, <1>5, <1>6, <1>7, <1>9, <1>11 DEF DomainInv

(***************************************************************************)
(* The requests and the job begin a task.                                  *)
(***************************************************************************)
LEMMA Begun ==
  ASSUME DomainInv, NEW t \in Tasks, MayBegin(t)
  PROVE  /\ suffered \subseteq suffered' /\ suffered' \subseteq DomainFaults
         /\ "overlap" \notin suffered' => Quiet /\ suffered' = suffered
         /\ (Calm' => Calm /\ Quiet /\ Settled)
         /\ (suffered' = {} => suffered = {} /\ Quiet /\ told = redis.last)
<1>1. suffered \subseteq DomainFaults
  BY DomainTypes DEF DomainInv, StoreTypes
<1>2. /\ suffered \subseteq suffered' /\ suffered' \subseteq DomainFaults
      /\ "overlap" \notin suffered' => Quiet /\ suffered' = suffered
  BY <1>1 DEF MayBegin, Suffer
<1>3. Calm' => Calm /\ Quiet /\ Settled
  BY <1>2 DEF Calm, DomainInv
<1> QED
  BY <1>2, <1>3 DEF DomainInv

LEMMA StoresStay ==
  ASSUME StoreTypes, requests' \in 0..MaxRequests, suffered' \subseteq DomainFaults,
         UNCHANGED domainStores
  PROVE  StoreTypes'
BY DEF StoreTypes, domainStores

LEMMA CreateKept ==
  ASSUME DomainInv, NEW t \in Tasks, CreateDomain(t) PROVE DomainInv'
<1> DEFINE j == [Idle EXCEPT !.pc = "insertRow"]
<1>1. /\ identity.gone /\ identity' = NewIdentity /\ task' = [task EXCEPT ![t] = j]
      /\ MayBegin(t) /\ requests < MaxRequests /\ requests' = requests + 1
      /\ UNCHANGED <<row, redis, held, rows, changes, told, published>>
  BY DEF CreateDomain, Request
<1>2. StoreTypes
  BY DomainTypes DEF DomainInv
<1>3. StoreTypes'
  BY <1>1, <1>2, Begun, NewTypes DEF StoreTypes
<1>4. j \in Jobs /\ j.pc = "insertRow" /\ j.id = 0
  BY NewTypes DEF Jobs, Editing, Idle
<1> HIDE DEF j
<1>5. rows <= rows' /\ j.id <= rows'
  BY <1>1, <1>2, <1>4 DEF StoreTypes
<1>6. Calm' => Knows(j)'
  BY <1>1, <1>4, Begun, NewTypes DEF Knows, Settled, Refreshing, BeforeWrite, AfterWrite
<1>7. suffered' = {} => LastIsTold(j)'
  BY <1>1, <1>4, Begun DEF LastIsTold, HasRead
<1>8. "overlap" \notin suffered' => \A u \in Tasks \ {t} : At(u, "idle")
  BY <1>1, Begun DEF Quiet, At
<1> QED
  BY <1>1, <1>3, <1>4, <1>5, <1>6, <1>7, <1>8, Begun, Moves

\* The others change nothing but what verifying says.
LEMMA BeginsKept ==
  ASSUME DomainInv, NEW t \in Tasks, NEW j \in Jobs, MayBegin(t),
         task' = [task EXCEPT ![t] = j], requests' \in 0..MaxRequests,
         UNCHANGED <<identity, redis, held, rows, changes, told, published>>,
         row.id # 0, row' \in RowType, row'.id = row.id, row'.status = row.status,
         \/ j.pc = "idle" /\ j.id = 0
         \/ /\ j.pc \in {"dropIdentity", "readState", "listed"} /\ j.id = row.id
            /\ j.pc # "dropIdentity" => j.prev = row.status
  PROVE  DomainInv'
<1>1. StoreTypes
  BY DomainTypes DEF DomainInv
<1>2. StoreTypes'
  BY <1>1, Begun DEF StoreTypes
<1>3. rows <= rows' /\ j.id <= rows'
  BY <1>1 DEF DomainInv, IdsAreNew, StoreTypes
<1>4. Calm' => Settled' /\ (j.pc # "idle" => Knows(j)')
  BY Begun DEF Knows, Settled, Refreshing, BeforeWrite, AfterWrite
<1>5. suffered' = {} => told' = redis'.last /\ (j.pc # "idle" => LastIsTold(j)')
  BY Begun DEF LastIsTold, HasRead
<1>6. "overlap" \notin suffered' => \A u \in Tasks \ {t} : At(u, "idle")
  BY Begun DEF Quiet, At
<1> QED
  BY <1>2, <1>3, <1>4, <1>5, <1>6, Begun, Moves

LEMMA RequestsKept ==
  ASSUME DomainInv, NEW t \in Tasks,
         DeleteDomain(t) \/ StartVerification(t) \/ GetDomain(t) \/ ListDomains(t)
  PROVE  DomainInv'
<1>1. StoreTypes /\ row \in RowType /\ row.id \in 0..MaxRows /\ row.status \in DomainStatuses
      /\ row.verifying \in BOOLEAN /\ requests \in 0..MaxRequests
  BY DomainTypes DEF DomainInv, StoreTypes, RowType
<1>2. \A s \in {"readState", "listed"} :
        /\ Snapshot(s) \in Jobs /\ Snapshot(s).pc = s /\ Snapshot(s).id = row.id
        /\ Snapshot(s).prev = row.status
  <2> SUFFICES ASSUME NEW s \in {"readState", "listed"}
               PROVE  /\ Snapshot(s) \in Jobs /\ Snapshot(s).pc = s /\ Snapshot(s).id = row.id
                      /\ Snapshot(s).prev = row.status
    OBVIOUS
  <2>1. Snapshot(s) = [Idle EXCEPT !.pc = s, !.id = row.id, !.prev = row.status,
                                   !.verifying = row.verifying]
    BY DEF Snapshot
  <2>2. Idle \in Jobs /\ s \in {"idle"} \cup Refreshing \cup Editing
    BY NewTypes DEF Refreshing
  <2> QED
    BY <1>1, <2>1, <2>2 DEF Jobs
<1>3. CASE DeleteDomain(t)
  <2> DEFINE j == [Idle EXCEPT !.pc = "dropIdentity", !.id = row.id]
  <2>1. j \in Jobs /\ j.pc = "dropIdentity" /\ j.id = row.id
    BY <1>1, NewTypes DEF Jobs, Editing, Idle
  <2>2. /\ MayBegin(t) /\ task' = [task EXCEPT ![t] = j] /\ requests' \in 0..MaxRequests
        /\ row.id # 0 /\ UNCHANGED domainStores
    BY <1>1, <1>3 DEF DeleteDomain, Request
  <2> HIDE DEF j
  <2> QED
    BY <1>1, <2>1, <2>2, BeginsKept DEF domainStores
<1>4. CASE StartVerification(t)
  <2>1. /\ MayBegin(t) /\ task' = [task EXCEPT ![t] = Idle] /\ requests' \in 0..MaxRequests
        /\ row.id # 0 /\ UNCHANGED <<identity, redis, held, rows, changes, told, published>>
    BY <1>1, <1>4 DEF StartVerification, Request
  <2>2. row' \in RowType /\ row'.id = row.id /\ row'.status = row.status
    BY <1>1, <1>4 DEF StartVerification, RowType
  <2>3. Idle \in Jobs /\ Idle.pc = "idle" /\ Idle.id = 0
    BY NewTypes DEF Idle
  <2> QED
    BY <2>1, <2>2, <2>3, BeginsKept
<1>5. CASE GetDomain(t)
  <2>1. /\ MayBegin(t) /\ task' = [task EXCEPT ![t] = Snapshot("readState")]
        /\ requests' \in 0..MaxRequests /\ row.id # 0 /\ UNCHANGED domainStores
    BY <1>1, <1>5 DEF GetDomain, Request
  <2> QED
    BY <1>1, <1>2, <2>1, BeginsKept DEF domainStores
<1>6. CASE ListDomains(t)
  <2>1. /\ MayBegin(t) /\ task' = [task EXCEPT ![t] = Snapshot("listed")]
        /\ requests' \in 0..MaxRequests /\ row.id # 0 /\ UNCHANGED domainStores
    BY <1>1, <1>6 DEF ListDomains
  <2> QED
    BY <1>1, <1>2, <2>1, BeginsKept DEF domainStores
<1> QED
  BY <1>3, <1>4, <1>5, <1>6

(***************************************************************************)
(* A task at work goes on, or ends.                                        *)
(***************************************************************************)
LEMMA AtWork ==
  ASSUME DomainInv, NEW t \in Tasks, ~At(t, "idle")
  PROVE  /\ StoreTypes /\ task \in [Tasks -> Jobs] /\ task[t] \in Jobs /\ task[t].id <= rows
         /\ "overlap" \notin suffered => \A u \in Tasks \ {t} : At(u, "idle")
         /\ Calm => Knows(task[t])
         /\ suffered = {} => Calm /\ Knows(task[t]) /\ LastIsTold(task[t])
         /\ rows \in Nat
BY DomainTypes DEF DomainInv, Alone, IdsAreNew, Calm, StoreTypes

LEMMA GoesOn ==
  ASSUME DomainInv, NEW t \in Tasks, ~At(t, "idle"), NEW j \in Jobs,
         task' = [task EXCEPT ![t] = j], UNCHANGED <<rows, changes, requests, suffered>>,
         j.pc # "idle", j.id = task[t].id, StoreTypes',
         row'.id = row.id, held \subseteq held',
         j.pc \in {"mail", "setLast"} /\ row.id # 0 /\ row.id = j.id =>
           /\ j.seen.status \in held'
           /\ j.seen.status \notin held \/ (At(t, "mail") /\ task[t].seen = j.seen),
         Calm /\ Knows(task[t]) => Knows(j)',
         suffered = {} /\ Knows(task[t]) /\ LastIsTold(task[t]) => LastIsTold(j)'
  PROVE  DomainInv'
<1>1. Calm' => Calm
  BY DEF Calm
<1>2. rows <= rows' /\ j.id <= rows'
  BY AtWork
<1> QED
  BY <1>1, <1>2, AtWork, Moves

LEMMA Finishes ==
  ASSUME DomainInv, NEW t \in Tasks, ~At(t, "idle"),
         task' = [task EXCEPT ![t] = Idle], UNCHANGED <<rows, changes, requests, suffered>>,
         StoreTypes', \/ row'.id = row.id /\ held \subseteq held'
                      \/ row'.id = 0,
         Calm /\ Knows(task[t]) => Settled',
         suffered = {} /\ Knows(task[t]) /\ LastIsTold(task[t]) => told' = redis'.last
  PROVE  DomainInv'
<1>1. Calm' => Calm
  BY DEF Calm
<1>2. Idle \in Jobs /\ Idle.pc = "idle" /\ Idle.id = 0
  BY NewTypes DEF Idle
<1>3. rows <= rows' /\ Idle.id <= rows'
  BY <1>2, AtWork
<1>4. suffered \subseteq suffered'
  OBVIOUS
<1> QED
  BY <1>1, <1>2, <1>3, <1>4, AtWork, Moves

\* createDomain and deleteDomain.
LEMMA EditsKept ==
  ASSUME DomainInv, NEW t \in Tasks,
         \/ InsertRow(t) \/ EmitCreated(t) \/ DropIdentity(t) \/ DropRow(t) \/ EmitDeleted(t)
  PROVE  DomainInv'
<1>1. ~At(t, "idle") /\ UNCHANGED <<requests, suffered>>
  BY DEF InsertRow, EmitCreated, DropIdentity, DropRow, EmitDeleted, At, Go, End
<1>2. /\ StoreTypes /\ task \in [Tasks -> Jobs] /\ task[t] \in Jobs /\ task[t].id <= rows
      /\ "overlap" \notin suffered => \A u \in Tasks \ {t} : At(u, "idle")
      /\ Calm => Knows(task[t])
      /\ suffered = {} => Calm /\ Knows(task[t]) /\ LastIsTold(task[t])
      /\ rows \in Nat
  BY <1>1, AtWork
<1>3. CASE InsertRow(t)
  <2>1. CASE row.id # 0
    <3>1. task' = [task EXCEPT ![t] = Idle] /\ UNCHANGED domainStores
      BY <1>3, <2>1 DEF InsertRow, End, domainStores
    <3>2. StoreTypes'
      BY <1>1, <1>2, <3>1 DEF StoreTypes, domainStores
    <3>3. ~Knows(task[t])
      BY <1>3, <2>1 DEF InsertRow, Knows, At
    <3> QED
      BY <1>1, <3>1, <3>2, <3>3, Finishes DEF domainStores
  <2>2. CASE row.id = 0
    <3>0. PICK j : j = [task[t] EXCEPT !.pc = "emitCreated"]
      OBVIOUS
    <3>1. /\ rows < MaxRows /\ rows' = rows + 1 /\ redis' = NewRedis /\ held' = {} /\ told' = "none"
          /\ row' = [id |-> rows', status |-> "PENDING", verifying |-> FALSE]
          /\ task' = [task EXCEPT ![t] = j] /\ UNCHANGED <<identity, changes, published>>
          /\ At(t, "insertRow")
      BY <1>3, <2>2, <3>0 DEF InsertRow, Go
    <3>2. /\ row' \in RowType /\ row'.id = rows + 1 /\ row'.status = "PENDING" /\ row'.id # 0
          /\ rows' \in 0..MaxRows
      BY <1>2, <3>1 DEF RowType, DomainStatuses
    <3>3. StoreTypes'
      BY <1>1, <1>2, <3>1, <3>2, NewTypes DEF StoreTypes
    <3>4. j \in Jobs /\ j.pc = "emitCreated" /\ j.id = task[t].id
      BY <1>2, <3>0 DEF Jobs, Editing
    <3>5. Calm' => Knows(j)'
      BY <1>1, <1>2, <3>1, <3>2, <3>4 DEF Knows, Calm, Refreshing, BeforeWrite, AfterWrite, At
    <3>6. suffered' = {} => LastIsTold(j)'
      BY <3>1, <3>4, NewTypes DEF LastIsTold, HasRead
    <3>7. rows <= rows' /\ j.id <= rows'
      BY <1>2, <3>1, <3>4 DEF Jobs
    <3>8. row'.id = rows + 1 /\ rows' = rows + 1 /\ suffered \subseteq suffered'
      BY <1>1, <3>1, <3>2
    <3> QED
      BY <1>1, <1>2, <3>1, <3>3, <3>4, <3>5, <3>6, <3>7, <3>8, Moves
  <2> QED
    BY <2>1, <2>2
<1>4. CASE EmitCreated(t)
  <2>1. /\ published' = "PENDING" /\ task' = [task EXCEPT ![t] = Idle] /\ At(t, "emitCreated")
        /\ UNCHANGED <<row, identity, redis, held, rows, changes, told>>
    BY <1>4 DEF EmitCreated, End
  <2>2. StoreTypes'
    BY <1>1, <1>2, <2>1 DEF StoreTypes, DomainStatuses
  <2>3. Knows(task[t]) => Settled'
    BY <2>1 DEF Knows, Settled, At
  <2>4. LastIsTold(task[t]) => told' = redis'.last
    BY <2>1 DEF LastIsTold, At
  <2> QED
    BY <1>1, <2>1, <2>2, <2>3, <2>4, Finishes
<1>5. CASE DropIdentity(t)
  <2>1. /\ identity' = NoIdentity /\ At(t, "dropIdentity")
        /\ UNCHANGED <<row, redis, held, rows, changes, told, published>>
    BY <1>5 DEF DropIdentity
  <2>2. StoreTypes'
    BY <1>1, <1>2, <2>1, NewTypes DEF StoreTypes
  <2>3. CASE identity.gone
    <3>1. task' = [task EXCEPT ![t] = Idle]
      BY <1>5, <2>3 DEF DropIdentity, End
    <3>2. ~Knows(task[t])
      BY <2>1, <2>3 DEF Knows, At
    <3> QED
      BY <1>1, <2>1, <2>2, <3>1, <3>2, Finishes
  <2>4. CASE ~identity.gone
    <3>0. PICK j : j = [task[t] EXCEPT !.pc = "dropRow"]
      OBVIOUS
    <3>1. task' = [task EXCEPT ![t] = j]
      BY <1>5, <2>4, <3>0 DEF DropIdentity, Go
    <3>2. j \in Jobs /\ j.pc = "dropRow" /\ j.id = task[t].id
      BY <1>2, <3>0 DEF Jobs, Editing
    <3>3. Knows(task[t]) => Knows(j)'
      BY <2>1, <3>2, NewTypes DEF Knows, At, Refreshing, BeforeWrite, AfterWrite
    <3>4. LastIsTold(task[t]) => LastIsTold(j)'
      BY <2>1, <3>2 DEF LastIsTold, At, HasRead
    <3> QED
      BY <1>1, <2>1, <2>2, <3>1, <3>2, <3>3, <3>4, GoesOn
  <2> QED
    BY <2>3, <2>4
<1>6. CASE DropRow(t)
  <2>1. At(t, "dropRow") /\ UNCHANGED <<identity, redis, held, rows, changes, told, published>>
    BY <1>6 DEF DropRow
  <2>2. CASE ~Current(t)
    <3>1. task' = [task EXCEPT ![t] = Idle] /\ row' = row
      BY <1>6, <2>2 DEF DropRow, End
    <3>2. StoreTypes'
      BY <1>1, <1>2, <2>1, <3>1 DEF StoreTypes
    <3>3. ~Knows(task[t])
      BY <2>1, <2>2 DEF Knows, At, Current
    <3> QED
      BY <1>1, <2>1, <3>1, <3>2, <3>3, Finishes
  <2>3. CASE Current(t)
    <3>0. PICK j : j = [task[t] EXCEPT !.pc = "emitDeleted"]
      OBVIOUS
    <3>1. task' = [task EXCEPT ![t] = j] /\ row' = NoRow
      BY <1>6, <2>3, <3>0 DEF DropRow, Go
    <3>2. StoreTypes'
      BY <1>1, <1>2, <2>1, <3>1, NewTypes DEF StoreTypes
    <3>3. j \in Jobs /\ j.pc = "emitDeleted" /\ j.id = task[t].id
      BY <1>2, <3>0 DEF Jobs, Editing
    <3>4. Calm' => Knows(j)'
      BY <1>1, <1>2, <2>1, <3>1, <3>3, NewTypes DEF Knows, Calm, At, Refreshing, BeforeWrite, AfterWrite
    <3>5. suffered' = {} => LastIsTold(j)'
      BY <1>1, <1>2, <2>1, <3>3 DEF LastIsTold, At, HasRead
    <3>6. rows <= rows' /\ j.id <= rows' /\ row'.id = 0 /\ suffered \subseteq suffered'
      BY <1>1, <1>2, <2>1, <3>1, <3>3, NewTypes
    <3> QED
      BY <1>1, <1>2, <3>1, <3>2, <3>3, <3>4, <3>5, <3>6, Moves
  <2> QED
    BY <2>2, <2>3
<1>7. CASE EmitDeleted(t)
  <2>1. /\ published' = "none" /\ task' = [task EXCEPT ![t] = Idle] /\ At(t, "emitDeleted")
        /\ UNCHANGED <<row, identity, redis, held, rows, changes, told>>
    BY <1>7 DEF EmitDeleted, End
  <2>2. StoreTypes'
    BY <1>1, <1>2, <2>1 DEF StoreTypes
  <2>3. Knows(task[t]) => Settled'
    BY <2>1 DEF Knows, Settled, At
  <2>4. LastIsTold(task[t]) => told' = redis'.last
    BY <2>1 DEF LastIsTold, At
  <2> QED
    BY <1>1, <2>1, <2>2, <2>3, <2>4, Finishes
<1> QED
  BY <1>3, <1>4, <1>5, <1>6, <1>7

(***************************************************************************)
(* What a refresh does after its notification, or instead of one.          *)
(***************************************************************************)
LEMMA NoticeTaken ==
  ASSUME DomainInv, NEW t \in Tasks, task[t].pc \in AfterWrite, AfterNotice(t),
         UNCHANGED <<row, identity, rows, changes, published>>, StoreTypes', held \subseteq held',
         suffered \subseteq suffered', suffered' \subseteq suffered \cup {"mail"},
         suffered' = {} /\ Knows(task[t]) /\ LastIsTold(task[t]) => told' = redis'.last
  PROVE  DomainInv'
<1>1. ~At(t, "idle")
  BY DEF At, AfterWrite
<1>2. /\ task \in [Tasks -> Jobs] /\ task[t] \in Jobs /\ task[t].id <= rows
      /\ "overlap" \notin suffered => \A u \in Tasks \ {t} : At(u, "idle")
      /\ Calm => Knows(task[t])
      /\ suffered = {} => Calm /\ Knows(task[t]) /\ LastIsTold(task[t])
      /\ rows \in Nat
  BY <1>1, AtWork
<1>3. Calm' => Calm
  BY DEF Calm
<1>4. suffered' = {} => suffered = {} /\ told' = redis'.last
  BY <1>2
<1>5. "overlap" \notin suffered' => \A u \in Tasks \ {t} : At(u, "idle")
  BY <1>2
<1>6. CASE task[t].seen.status # task[t].prev
  <2>0. PICK j : j = [task[t] EXCEPT !.pc = "emit"]
    OBVIOUS
  <2>1. task' = [task EXCEPT ![t] = j]
    BY <1>6, <2>0 DEF AfterNotice, Go
  <2>2. /\ j \in Jobs /\ j.pc = "emit" /\ j.id = task[t].id /\ j.seen = task[t].seen
    BY <1>2, <2>0 DEF Jobs, Refreshing
  <2>3. Calm' => Knows(j)'
    BY <1>2, <1>3, <2>2 DEF Knows, Refreshing, BeforeWrite, AfterWrite
  <2>4. suffered' = {} => LastIsTold(j)'
    BY <1>4, <2>2 DEF LastIsTold, HasRead
  <2>5. rows <= rows' /\ j.id <= rows'
    BY <1>2, <2>2
  <2> QED
    BY <1>2, <1>5, <2>1, <2>2, <2>3, <2>4, <2>5, Moves
<1>7. CASE task[t].seen.status = task[t].prev
  <2>1. task' = [task EXCEPT ![t] = Idle]
    BY <1>7 DEF AfterNotice, End
  <2>2. Calm' => Settled'
    BY <1>2, <1>3, <1>7 DEF Knows, Settled, Refreshing, AfterWrite
  <2>3. Idle \in Jobs /\ Idle.pc = "idle" /\ Idle.id = 0
    BY NewTypes DEF Idle
  <2>4. rows <= rows' /\ Idle.id <= rows'
    BY <1>2, <2>3
  <2> QED
    BY <1>2, <1>4, <1>5, <2>1, <2>2, <2>3, <2>4, Moves
<1> QED
  BY <1>6, <1>7

LEMMA DecideKept ==
  ASSUME DomainInv, NEW t \in Tasks, task[t].pc \in {"setChecked", "markEver"}, Decide(t),
         UNCHANGED <<row, identity, held, rows, changes, told, published, suffered>>,
         redis' \in RedisType, redis'.last = redis.last
  PROVE  DomainInv'
<1>1. ~At(t, "idle") /\ task[t].pc \in AfterWrite
  BY DEF At, AfterWrite
<1>2. StoreTypes /\ task \in [Tasks -> Jobs] /\ task[t] \in Jobs
  BY <1>1, AtWork
<1>3. requests' = requests
  BY DEF Decide, AfterNotice, Go, End
<1>4. StoreTypes'
  BY <1>2, <1>3 DEF StoreTypes
<1>5. CASE ShouldNotify(task[t])
  <2>0. PICK j : j = [task[t] EXCEPT !.pc = "reserve"]
    OBVIOUS
  <2>1. task' = [task EXCEPT ![t] = j]
    BY <1>5, <2>0 DEF Decide, Go
  <2>2. /\ j \in Jobs /\ j.pc = "reserve" /\ j.id = task[t].id /\ j.seen = task[t].seen
        /\ j.prev = task[t].prev /\ j.last = task[t].last
    BY <1>2, <2>0 DEF Jobs, Refreshing
  <2>3. Knows(task[t]) => Knows(j)'
    BY <2>2 DEF Knows, Refreshing, BeforeWrite, AfterWrite
  <2>4. LastIsTold(task[t]) => LastIsTold(j)'
    <3>1. j.seen.status # j.last
      BY <1>5, <2>2 DEF ShouldNotify
    <3> QED
      BY <2>2, <3>1 DEF LastIsTold, HasRead
  <2> QED
    BY <1>1, <1>3, <1>4, <2>1, <2>2, <2>3, <2>4, GoesOn
<1>6. CASE ~ShouldNotify(task[t])
  <2>1. AfterNotice(t)
    BY <1>6 DEF Decide
  <2>2. LastIsTold(task[t]) => told' = redis'.last
    BY DEF LastIsTold
  <2> QED
    BY <1>1, <1>4, <2>1, <2>2, NoticeTaken
<1> QED
  BY <1>5, <1>6

\* Up to the row, and what it reads of Redis and SES.
LEMMA ReadsKept ==
  ASSUME DomainInv, NEW t \in Tasks, CheckDue(t) \/ ReadState(t) \/ ReadSes(t) \/ WriteRow(t)
  PROVE  DomainInv'
<1>1. /\ ~At(t, "idle") /\ UNCHANGED <<requests, suffered>>
      /\ UNCHANGED <<identity, redis, held, rows, changes, told, published>>
  BY DEF CheckDue, ReadState, ReadSes, WriteRow, At, Go, End, domainStores
<1>2. /\ StoreTypes /\ task \in [Tasks -> Jobs] /\ task[t] \in Jobs
  BY <1>1, AtWork
<1>3. LastIsTold(task[t]) /\ task[t].pc # "setLast" => told' = redis'.last
  BY <1>1 DEF LastIsTold
<1>4. CASE CheckDue(t)
  <2>1. At(t, "listed") /\ row' = row
    BY <1>4 DEF CheckDue, domainStores
  <2>2. StoreTypes'
    BY <1>1, <1>2, <2>1 DEF StoreTypes
  <2>3. CASE task' = [task EXCEPT ![t] = Idle]
    <3>1. Knows(task[t]) => Settled'
      BY <1>1, <2>1 DEF Knows, Settled, At, Refreshing, BeforeWrite
    <3> QED
      BY <1>1, <1>3, <2>1, <2>2, <2>3, <3>1, Finishes DEF At
  <2>4. CASE task' = [task EXCEPT ![t].pc = "readState"]
    <3>0. PICK j : j = [task[t] EXCEPT !.pc = "readState"]
      OBVIOUS
    <3>1. task' = [task EXCEPT ![t] = j]
      BY <2>4, <3>0
    <3>2. j \in Jobs /\ j.pc = "readState" /\ j.id = task[t].id /\ j.prev = task[t].prev
      BY <1>2, <3>0 DEF Jobs, Refreshing
    <3>3. Knows(task[t]) => Knows(j)'
      BY <1>1, <2>1, <3>2 DEF Knows, At, Refreshing, BeforeWrite, AfterWrite
    <3>4. LastIsTold(task[t]) => LastIsTold(j)'
      BY <1>1, <2>1, <3>2 DEF LastIsTold, At, HasRead
    <3> QED
      BY <1>1, <2>1, <2>2, <3>1, <3>2, <3>3, <3>4, GoesOn
  <2> QED
    BY <1>4, <2>3, <2>4 DEF CheckDue, Go, End
<1>5. CASE ReadState(t)
  <2>0. PICK j : j = [task[t] EXCEPT !.pc = "readSes", !.ever = Redis(t).ever, !.last = Redis(t).last]
    OBVIOUS
  <2>1. At(t, "readState") /\ row' = row /\ task' = [task EXCEPT ![t] = j]
    BY <1>5, <2>0 DEF ReadState, domainStores
  <2>2. StoreTypes'
    BY <1>1, <1>2, <2>1 DEF StoreTypes
  <2>3. Redis(t) \in RedisType
    BY <1>2, NewTypes DEF StoreTypes, Redis
  <2>4. /\ j \in Jobs /\ j.pc = "readSes" /\ j.id = task[t].id /\ j.prev = task[t].prev
        /\ j.last = Redis(t).last
    BY <1>2, <2>0, <2>3 DEF Jobs, Refreshing, RedisType
  <2>5. Knows(task[t]) => Knows(j)' /\ Redis(t) = redis
    BY <1>1, <2>1, <2>4 DEF Knows, At, Refreshing, BeforeWrite, AfterWrite, Redis, Current
  <2>6. Knows(task[t]) /\ LastIsTold(task[t]) => LastIsTold(j)'
    BY <1>1, <2>1, <2>4, <2>5 DEF LastIsTold, At, HasRead
  <2> QED
    BY <1>1, <2>1, <2>2, <2>4, <2>5, <2>6, GoesOn
<1>6. CASE ReadSes(t)
  <2>1. At(t, "readSes") /\ row' = row
    BY <1>6 DEF ReadSes, domainStores
  <2>2. StoreTypes'
    BY <1>1, <1>2, <2>1 DEF StoreTypes
  <2>3. CASE identity.gone
    <3>1. task' = [task EXCEPT ![t] = Idle]
      BY <1>6, <2>3 DEF ReadSes
    <3>2. ~Knows(task[t])
      BY <2>1, <2>3 DEF Knows, At, Refreshing
    <3> QED
      BY <1>1, <2>1, <2>2, <3>1, <3>2, Finishes
  <2>4. CASE ~identity.gone
    <3>0. PICK j : j = [task[t] EXCEPT !.pc = "writeRow", !.seen = identity]
      OBVIOUS
    <3>1. task' = [task EXCEPT ![t] = j]
      BY <1>6, <2>4, <3>0 DEF ReadSes
    <3>2. /\ j \in Jobs /\ j.pc = "writeRow" /\ j.id = task[t].id /\ j.prev = task[t].prev
          /\ j.last = task[t].last
      BY <1>2, <3>0 DEF Jobs, Refreshing, StoreTypes
    <3>3. Knows(task[t]) => Knows(j)'
      BY <1>1, <2>1, <3>2 DEF Knows, At, Refreshing, BeforeWrite, AfterWrite
    <3>4. LastIsTold(task[t]) => LastIsTold(j)'
      BY <1>1, <2>1, <3>2 DEF LastIsTold, At, HasRead
    <3> QED
      BY <1>1, <2>1, <2>2, <3>1, <3>2, <3>3, <3>4, GoesOn
  <2> QED
    BY <2>3, <2>4
<1>7. CASE WriteRow(t)
  <2>1. At(t, "writeRow")
    BY <1>7 DEF WriteRow
  <2>2. CASE ~Current(t)
    <3>1. task' = [task EXCEPT ![t] = Idle] /\ row' = row
      BY <1>7, <2>2 DEF WriteRow, End
    <3>2. StoreTypes'
      BY <1>1, <1>2, <3>1 DEF StoreTypes
    <3>3. ~Knows(task[t])
      BY <2>1, <2>2 DEF Knows, At, Refreshing, Current
    <3> QED
      BY <1>1, <3>1, <3>2, <3>3, Finishes
  <2>3. CASE Current(t)
    <3>0. PICK j : j = [task[t] EXCEPT !.pc = "setChecked"]
      OBVIOUS
    <3>1. /\ task' = [task EXCEPT ![t] = j]
          /\ row' = [row EXCEPT !.status = task[t].seen.status,
                                !.verifying = ShouldContinueVerifying(task[t].seen)]
      BY <1>7, <2>3, <3>0 DEF WriteRow, Go
    <3>2. task[t].seen.status \in DomainStatuses
      BY <1>2, SeenTypes DEF Jobs
    <3>3. ShouldContinueVerifying(task[t].seen) \in BOOLEAN
      BY DEF ShouldContinueVerifying
    <3>4. row' \in RowType /\ row'.id = row.id /\ row'.status = task[t].seen.status
      BY <1>2, <3>1, <3>2, <3>3 DEF RowType, StoreTypes
    <3>5. StoreTypes'
      BY <1>1, <1>2, <3>4 DEF StoreTypes
    <3>6. /\ j \in Jobs /\ j.pc = "setChecked" /\ j.id = task[t].id /\ j.prev = task[t].prev
          /\ j.last = task[t].last /\ j.seen = task[t].seen
      BY <1>2, <3>0 DEF Jobs, Refreshing
    <3>7. Knows(task[t]) => Knows(j)'
      BY <1>1, <2>1, <3>4, <3>6 DEF Knows, At, Refreshing, BeforeWrite, AfterWrite
    <3>8. LastIsTold(task[t]) => LastIsTold(j)'
      BY <1>1, <2>1, <3>6 DEF LastIsTold, At, HasRead
    <3> QED
      BY <1>1, <3>1, <3>4, <3>5, <3>6, <3>7, <3>8, GoesOn
  <2> QED
    BY <2>2, <2>3
<1> QED
  BY <1>4, <1>5, <1>6, <1>7

\* From the row on: what it notes in Redis, mails and publishes.
LEMMA NotifiesKept ==
  ASSUME DomainInv, NEW t \in Tasks,
         \/ SetChecked(t) \/ MarkEver(t) \/ Reserve(t) \/ SendNotification(t) \/ MailFails(t)
         \/ SetLast(t) \/ EmitChange(t)
  PROVE  DomainInv'
<1>1. ~At(t, "idle") /\ UNCHANGED <<row, identity, rows, changes>>
  BY DEF SetChecked, MarkEver, Reserve, SendNotification, MailFails, SetLast, EmitChange, At
<1>2. /\ StoreTypes /\ task \in [Tasks -> Jobs] /\ task[t] \in Jobs
      /\ task[t].seen.status \in DomainStatuses
  BY <1>1, AtWork, SeenTypes DEF Jobs
<1>3. CASE SetChecked(t) \/ MarkEver(t)
  <2>1. /\ task[t].pc \in {"setChecked", "markEver"}
        /\ UNCHANGED <<row, identity, held, rows, changes, told, published, suffered>>
    BY <1>3 DEF SetChecked, MarkEver, At
  <2>2. redis' \in RedisType /\ redis'.last = redis.last
    BY <1>2, <1>3 DEF SetChecked, MarkEver, RedisType, StoreTypes
  <2>3. CASE Decide(t)
    BY <2>1, <2>2, <2>3, DecideKept
  <2>4. CASE Go(t, "markEver")
    <3>0. PICK j : j = [task[t] EXCEPT !.pc = "markEver"]
      OBVIOUS
    <3>1. task' = [task EXCEPT ![t] = j] /\ requests' = requests
      BY <2>4, <3>0 DEF Go
    <3>2. /\ j \in Jobs /\ j.pc = "markEver" /\ j.id = task[t].id /\ j.prev = task[t].prev
          /\ j.last = task[t].last /\ j.seen = task[t].seen
      BY <1>2, <3>0 DEF Jobs, Refreshing
    <3>3. StoreTypes'
      BY <1>2, <2>1, <2>2, <3>1 DEF StoreTypes
    <3>4. Knows(task[t]) => Knows(j)'
      BY <2>1, <3>2 DEF Knows, Refreshing, BeforeWrite, AfterWrite
    <3>5. LastIsTold(task[t]) => LastIsTold(j)'
      BY <2>1, <2>2, <3>2 DEF LastIsTold, HasRead
    <3> QED
      BY <1>1, <2>1, <3>1, <3>2, <3>3, <3>4, <3>5, GoesOn
  <2> QED
    BY <1>3, <2>3, <2>4 DEF SetChecked, MarkEver
<1>4. CASE Reserve(t)
  <2>1. At(t, "reserve") /\ UNCHANGED <<redis, told, published, suffered>>
    BY <1>4 DEF Reserve
  <2>2. requests' = requests
    BY <1>4 DEF Reserve, AfterNotice, Go, End
  <2>3. CASE Current(t) /\ task[t].seen.status \in held
    <3>1. AfterNotice(t) /\ held' = held
      BY <1>4, <2>3 DEF Reserve
    <3>2. StoreTypes'
      BY <1>1, <1>2, <2>1, <2>2, <3>1 DEF StoreTypes
    <3>3. LastIsTold(task[t]) => told' = redis'.last
      BY <2>1 DEF LastIsTold, At
    <3> QED
      BY <1>1, <2>1, <3>1, <3>2, <3>3, NoticeTaken DEF At, AfterWrite
  <2>4. CASE ~(Current(t) /\ task[t].seen.status \in held)
    <3>0. PICK j : j = [task[t] EXCEPT !.pc = "mail"]
      OBVIOUS
    <3>1. /\ task' = [task EXCEPT ![t] = j]
          /\ held' = IF Current(t) THEN held \cup {task[t].seen.status} ELSE held
      BY <1>4, <2>4, <3>0 DEF Reserve, Go
    <3>2. /\ j \in Jobs /\ j.pc = "mail" /\ j.id = task[t].id /\ j.prev = task[t].prev
          /\ j.last = task[t].last /\ j.seen = task[t].seen
      BY <1>2, <3>0 DEF Jobs, Refreshing
    <3>3. StoreTypes'
      BY <1>1, <1>2, <2>1, <2>2, <3>1 DEF StoreTypes
    <3>4. Knows(task[t]) => Knows(j)'
      BY <1>1, <2>1, <3>2 DEF Knows, At, Refreshing, BeforeWrite, AfterWrite
    <3>5. LastIsTold(task[t]) => LastIsTold(j)'
      BY <2>1, <3>2 DEF LastIsTold, At, HasRead
    <3>6. row.id # 0 /\ row.id = j.id => j.seen.status \in held' /\ j.seen.status \notin held
      BY <2>4, <3>1, <3>2 DEF Current
    <3> QED
      BY <1>1, <2>1, <2>2, <3>1, <3>2, <3>3, <3>4, <3>5, <3>6, GoesOn
  <2> QED
    BY <2>3, <2>4
<1>5. CASE SendNotification(t)
  <2>0. PICK j : j = [task[t] EXCEPT !.pc = "setLast"]
    OBVIOUS
  <2>1. /\ At(t, "mail") /\ UNCHANGED <<redis, held, published, suffered, requests>>
        /\ task' = [task EXCEPT ![t] = j]
        /\ told' = IF Current(t) THEN task[t].seen.status ELSE told
    BY <1>5, <2>0 DEF SendNotification, Go
  <2>2. /\ j \in Jobs /\ j.pc = "setLast" /\ j.id = task[t].id /\ j.prev = task[t].prev
        /\ j.seen = task[t].seen
    BY <1>2, <2>0 DEF Jobs, Refreshing
  <2>3. StoreTypes'
    BY <1>1, <1>2, <2>1 DEF StoreTypes
  <2>4. Knows(task[t]) => Knows(j)' /\ Current(t)
    BY <1>1, <2>1, <2>2 DEF Knows, At, Refreshing, BeforeWrite, AfterWrite, Current
  <2>5. Current(t) => LastIsTold(j)'
    BY <2>1, <2>2 DEF LastIsTold, HasRead
  <2>6. row.id # 0 /\ row.id = j.id => j.seen.status \in held'
    BY <2>1, <2>2 DEF DomainInv, MailsUnderLock, Mails, At
  <2> QED
    BY <1>1, <2>1, <2>2, <2>3, <2>4, <2>5, <2>6, GoesOn
<1>6. CASE MailFails(t)
  <2>1. /\ At(t, "mail") /\ AfterNotice(t) /\ UNCHANGED <<redis, held, published>>
        /\ suffered' = suffered \cup {"mail"} /\ suffered' \subseteq DomainFaults
        /\ told' \in {told, task[t].seen.status}
    BY <1>2, <1>6 DEF MailFails, Suffer, StoreTypes
  <2>2. requests' = requests
    BY <2>1 DEF AfterNotice, Go, End
  <2>3. StoreTypes'
    BY <1>1, <1>2, <2>1, <2>2 DEF StoreTypes
  <2> QED
    BY <1>1, <2>1, <2>3, NoticeTaken DEF At, AfterWrite
<1>7. CASE SetLast(t)
  <2>1. /\ At(t, "setLast") /\ AfterNotice(t) /\ UNCHANGED <<held, told, published, suffered>>
        /\ redis' = IF Current(t) THEN [redis EXCEPT !.last = task[t].seen.status] ELSE redis
    BY <1>7 DEF SetLast
  <2>2. requests' = requests
    BY <2>1 DEF AfterNotice, Go, End
  <2>3. redis' \in RedisType /\ (Current(t) => redis'.last = task[t].seen.status)
    BY <1>2, <2>1 DEF RedisType, StoreTypes
  <2>4. StoreTypes'
    BY <1>1, <1>2, <2>1, <2>2, <2>3 DEF StoreTypes
  <2>5. Knows(task[t]) /\ LastIsTold(task[t]) => told' = redis'.last
    BY <2>1, <2>3 DEF Knows, LastIsTold, At, Current, Refreshing
  <2> QED
    BY <1>1, <2>1, <2>4, <2>5, NoticeTaken DEF At, AfterWrite
<1>8. CASE EmitChange(t)
  <2>1. /\ At(t, "emit") /\ UNCHANGED <<redis, held, told, suffered, requests>>
        /\ task' = [task EXCEPT ![t] = Idle]
        /\ published' = IF Current(t) THEN task[t].seen.status ELSE published
    BY <1>8 DEF EmitChange, End
  <2>2. StoreTypes'
    BY <1>1, <1>2, <2>1 DEF StoreTypes
  <2>3. Knows(task[t]) => Settled'
    BY <1>1, <2>1 DEF Knows, Settled, At, Current, Refreshing
  <2>4. LastIsTold(task[t]) => told' = redis'.last
    BY <2>1 DEF LastIsTold, At
  <2> QED
    BY <1>1, <2>1, <2>2, <2>3, <2>4, Finishes
<1> QED
  BY <1>3, <1>4, <1>5, <1>6, <1>7, <1>8

LEMMA DiesKept ==
  ASSUME DomainInv, NEW t \in Tasks, Dies(t) PROVE DomainInv'
<1>1. /\ ~At(t, "idle") /\ suffered' = suffered \cup {"dies"} /\ suffered' \subseteq DomainFaults
      /\ task' = [task EXCEPT ![t] = Idle] /\ UNCHANGED domainStores /\ requests' = requests
  BY DomainTypes DEF Dies, Suffer, End, DomainInv, StoreTypes
<1>2. ~Calm' /\ suffered' # {} /\ suffered \subseteq suffered'
  BY <1>1 DEF Calm
<1>3. /\ StoreTypes /\ rows \in Nat
      /\ "overlap" \notin suffered => \A u \in Tasks \ {t} : At(u, "idle")
  BY <1>1, AtWork
<1>4. StoreTypes'
  BY <1>1, <1>3 DEF StoreTypes, domainStores
<1>5. Idle \in Jobs /\ Idle.pc = "idle" /\ Idle.id = 0
  BY NewTypes DEF Idle
<1>6. rows <= rows' /\ Idle.id <= rows' /\ row' = row /\ held' = held
  BY <1>1, <1>3, <1>5 DEF domainStores
<1> QED
  BY <1>1, <1>2, <1>3, <1>4, <1>5, <1>6, Moves

(***************************************************************************)
(* SES and time.                                                           *)
(***************************************************************************)
LEMMA SurroundingsKept ==
  ASSUME DomainInv, SesChecks \/ LockExpires \/ TimePasses PROVE DomainInv'
<1>1. /\ UNCHANGED <<row, task, rows, requests, told, published, suffered>>
      /\ identity'.gone = identity.gone /\ redis'.last = redis.last
      /\ Quiet \/ held' = held
  <2>1. CASE SesChecks
    <3>1. identity.gone = FALSE
      BY <2>1, DomainTypes, SeenTypes DEF SesChecks, DomainInv, StoreTypes
    <3>2. identity'.gone = FALSE
      BY <2>1 DEF SesChecks, Identity
    <3> QED
      BY <2>1, <3>1, <3>2 DEF SesChecks
  <2>2. CASE LockExpires
    BY <2>2 DEF LockExpires
  <2>3. CASE TimePasses
    <3>1. redis \in RedisType
      BY DomainTypes DEF DomainInv, StoreTypes
    <3> QED
      BY <2>3, <3>1 DEF TimePasses, RedisType
  <2> QED
    BY <2>1, <2>2, <2>3
<1>2. StoreTypes /\ task \in [Tasks -> Jobs]
  BY DomainTypes DEF DomainInv
<1>3. identity' \in Identities /\ redis' \in RedisType /\ held' \subseteq DomainStatuses
      /\ changes' \in 0..MaxChanges
  <2>1. CASE SesChecks
    BY <1>2, <2>1 DEF SesChecks, Identities, StoreTypes
  <2>2. CASE LockExpires
    BY <1>2, <2>2 DEF LockExpires, StoreTypes
  <2>3. CASE TimePasses
    BY <1>2, <2>3 DEF TimePasses, RedisType, StoreTypes
  <2> QED
    BY <2>1, <2>2, <2>3
<1>4. DomainTypeOK'
  <2>1. StoreTypes' /\ task' \in [Tasks -> Jobs]
    BY <1>1, <1>2, <1>3 DEF StoreTypes
  <2> QED
    BY <2>1, DomainTypes DEF StoreTypes, DomainTypeOK, Jobs, RowType, RedisType
<1>5. IdsAreNew' /\ Alone' /\ NotifiedByOne' /\ (Quiet' <=> Quiet) /\ (Calm' <=> Calm)
  BY <1>1 DEF DomainInv, IdsAreNew, Alone, NotifiedByOne, Quiet, Calm, At, Current
<1>6. (Settled' <=> Settled) /\ \A t \in Tasks : (Knows(task[t])' <=> Knows(task[t]))
                                             /\ (LastIsTold(task[t])' <=> LastIsTold(task[t]))
  BY <1>1 DEF Settled, Knows, LastIsTold
<1>7. MailsUnderLock'
  <2>1. Quiet => \A t \in Tasks : ~Mails(task[t])
    BY DEF Quiet, Mails
  <2> QED
    BY <1>1, <2>1 DEF DomainInv, MailsUnderLock, Mails
<1> QED
  BY <1>1, <1>4, <1>5, <1>6, <1>7 DEF DomainInv, At

LEMMA DomainInvNext == DomainInv /\ [DomainNext]_domainVars => DomainInv'
<1> SUFFICES ASSUME DomainInv, [DomainNext]_domainVars PROVE DomainInv'
  OBVIOUS
<1>1. CASE UNCHANGED domainVars
  BY <1>1 DEF domainVars, DomainInv, DomainTypeOK, IdsAreNew, Alone, Calm, Quiet, Settled, Knows,
     LastIsTold, MailsUnderLock, Mails, NotifiedByOne, At, Current
<1>2. CASE DomainNext
  BY <1>2, CreateKept, RequestsKept, EditsKept, ReadsKept, NotifiesKept, DiesKept, SurroundingsKept
     DEF DomainNext, TaskStep
<1> QED
  BY <1>1, <1>2

LEMMA DomainInvHolds == DomainSpec => []DomainInv
BY DomainInvInit, DomainInvNext, PTL DEF DomainSpec

\* Between tasks a row has its identity and an identity its row, and the
\* events published tell the row's status, unless a task was cut off or two
\* overlapped (refreshDomainVerification, createDomain and deleteDomain).
THEOREM RowAlwaysMatchesSes == DomainSpec => []RowMatchesSes
<1>1. DomainInv => RowMatchesSes
  BY DEF DomainInv, RowMatchesSes, RowHasIdentity, EventsTellStatus, Settled, Calm
<1> QED
  BY <1>1, DomainInvHolds, PTL

\* Refreshes that overlap do not both mail a status, and refreshes that
\* follow each other do not repeat one unless something went wrong: the
\* notification lock and last-notified-status of domain-service.ts.
THEOREM AlwaysToldOnce == DomainSpec => ToldOnce
<1>1. DomainInv => NotifiedByOne
  BY DEF DomainInv
<1>2. DomainInv => \A t \in Tasks :
        SendNotification(t) /\ Current(t) => told # task[t].seen.status \/ suffered # {}
  <2> SUFFICES ASSUME DomainInv, NEW t \in Tasks, SendNotification(t), suffered = {}
               PROVE  told # task[t].seen.status
    OBVIOUS
  <2>1. task[t].pc = "mail" /\ LastIsTold(task[t])
    BY DEF DomainInv, SendNotification, At
  <2> QED
    BY <2>1 DEF LastIsTold, HasRead
<1>3. DomainInv /\ [DomainNext]_domainVars =>
        [\A t \in Tasks :
           SendNotification(t) /\ Current(t) => told # task[t].seen.status \/ suffered # {}]_domainVars
  BY <1>2
<1> QED
  BY <1>1, <1>3, DomainInvHolds, PTL DEF DomainSpec, ToldOnce, NoRepeatedMail

-----------------------------------------------------------------------------
(* Sending limits.  A check holds what it has read of the rows, and until   *)
(* things overlap it is the only one at work: the caches it reads then hold *)
(* what the rows say, but those an operator's request has still to put      *)
(* right, and no mail is uncounted.                                         *)

\* What a check holds at each of its steps.
CheckTyped(c) ==
  /\ DOMAIN c = {"pc", "key", "seen", "notice"}
  /\ c.pc \in Steps /\ c.key \in Keys \cup {"none"} /\ c.notice \in Notices \cup {"none"}
  /\ Partial(c.seen)
  /\ c.pc \in {"get", "fetch", "store"} =>
       /\ c.key \in Keys
       /\ c.key \in {"plan", "usage"} => "team" \in DOMAIN c.seen
       /\ c.key = "usage" => "plan" \in DOMAIN c.seen
  /\ c.pc = "store" => c.key \in DOMAIN c.seen
  /\ c.pc \in {"decide", "claim", "mail"} => DOMAIN c.seen = Keys
  /\ c.pc \in {"claim", "mail"} => c.notice \in Notices
  /\ c.pc \in {"idle", "readUser", "refuse", "error", "send"} => DOMAIN c.seen = {}
StoresTyped ==
  /\ DOMAIN truth = Keys /\ Partial(truth) /\ Partial(cache)
  /\ clientPath \in BOOLEAN /\ suspended \in BOOLEAN /\ lagged \in BOOLEAN
  /\ op \in [pc : {"idle", "reread", "set", "drop"}, drop : BOOLEAN, row : TeamRows]
  /\ unreported \in 0 .. MaxUnreported /\ sent \in Usages
  /\ claimed \subseteq Notices /\ tried \subseteq Notices
  /\ ops \in 0 .. MaxOps
ChecksTyped == DOMAIN check = Workers /\ \A w \in Workers : CheckTyped(check[w])

\* What SES has and has not been counted is still to be reported.
SentIsCounted ==
  /\ sent.day <= truth["usage"].day + unreported
  /\ sent.month <= truth["usage"].month + unreported

\* A check that nothing overlaps: who is at work, and what caches there are.
OneCheck ==
  /\ \A v, w \in Workers : check[v].pc # "idle" /\ check[w].pc # "idle" => v = w
  /\ \A w \in Workers :
       check[w].pc # "idle" =>
         /\ op.pc = "idle" /\ unreported = 0
         /\ "usage" \in DOMAIN cache => cache["usage"] = truth["usage"]
CachesTrue ==
  /\ op.pc \notin {"reread", "set"} /\ "team" \in DOMAIN cache => cache["team"] = truth["team"]
  /\ op.pc = "set" => op.row = truth["team"]
  /\ op.pc = "idle" \/ (op.pc \in {"reread", "set"} /\ ~op.drop)
       => ("plan" \in DOMAIN cache => cache["plan"] = truth["plan"])

\* What it has read is so, and so is what it has found.
Asking(c) ==
  \/ c.pc \in {"get", "fetch", "store"} /\ c.key # "team"
  \/ c.pc \in {"decide", "claim", "mail", "send"}
ProperCheck(c) ==
  /\ \A k \in DOMAIN c.seen : c.seen[k] = truth[k]
  /\ c.pc = "readUser" => clientPath
  /\ c.pc \in {"get", "fetch", "store", "decide", "claim", "mail", "send"}
       => ~ (clientPath /\ suspended)
  /\ Asking(c) => ~truth["team"].blocked
  /\ c.pc \in {"claim", "mail"}
       => (c.notice \in {"reachedDay", "reachedMonth"} <=> Over(truth["usage"]))
  /\ c.pc = "send" => ~Over(truth["usage"])
  /\ c.pc = "refuse" => Blocked \/ Over(truth["usage"])
Exact == OneCheck /\ CachesTrue /\ \A w \in Workers : ProperCheck(check[w])

LimitInv == StoresTyped /\ ChecksTyped /\ SentIsCounted /\ (~lagged => Exact)

LEMMA IdleIsTyped ==
  /\ CheckTyped(IdleCheck) /\ ProperCheck(IdleCheck) /\ IdleCheck.pc = "idle"
  /\ Partial(<< >>) /\ DOMAIN << >> = {}
BY DEF CheckTyped, IdleCheck, Partial, Steps, ProperCheck, Asking

LEMMA PartialAdded ==
  ASSUME NEW f, Partial(f), NEW k \in Keys, NEW v \in Value(k)
  PROVE  Partial(With(f, k, v))
BY DEF Partial, With

LEMMA PartialWithout ==
  ASSUME NEW f, Partial(f), NEW k
  PROVE  Partial(Without(f, k))
BY DEF Partial, Without

LEMMA EndsTyped ==
  ASSUME NEW c, CheckTyped(c), NEW p \in {"send", "refuse", "error"}
  PROVE  /\ CheckTyped(Ends(c, p)) /\ Ends(c, p).pc = p
         /\ Ends(c, p).seen = << >>
BY IdleIsTyped DEF CheckTyped, Ends, IdleCheck, Steps, Partial

LEMMA LearnsWell ==
  ASSUME NEW w \in Workers, CheckTyped(check[w]), check[w].pc \in {"get", "store"},
         NEW v \in Value(check[w].key)
  PROVE  /\ CheckTyped(Learns(w, v)) /\ Learns(w, v).pc \in {"get", "refuse", "decide"}
         /\ ProperCheck(check[w]) /\ v = truth[check[w].key] => ProperCheck(Learns(w, v))
<1>1. PICK k \in Keys : k = check[w].key
  BY DEF CheckTyped
<1>2. PICK S : S = With(check[w].seen, k, v)
  OBVIOUS
<1>3. /\ DOMAIN S = DOMAIN check[w].seen \cup {k} /\ S[k] = v /\ Partial(S)
      /\ \A x \in DOMAIN check[w].seen : x # k => S[x] = check[w].seen[x]
  BY <1>1, <1>2, PartialAdded DEF CheckTyped, With
<1>4. PICK j : j = [check[w] EXCEPT !.seen = S]
  OBVIOUS
<1>5. /\ DOMAIN j = {"pc", "key", "seen", "notice"} /\ j.pc = check[w].pc /\ j.key = k
      /\ j.seen = S /\ j.notice = check[w].notice
  BY <1>1, <1>4 DEF CheckTyped
<1>6. Learns(w, v) = CASE k = "team" -> IF v.blocked THEN Ends(j, "refuse")
                         ELSE [j EXCEPT !.pc = "get", !.key = "plan"]
                       [] k = "plan" -> [j EXCEPT !.pc = "get", !.key = "usage"]
                       [] k = "usage" -> [j EXCEPT !.pc = "decide", !.key = "none"]
  BY <1>1, <1>2, <1>4 DEF Learns
<1>7. ProperCheck(check[w]) /\ v = truth[k] => \A x \in DOMAIN S : S[x] = truth[x]
  BY <1>3 DEF ProperCheck
<1>8. CheckTyped(j)
  BY <1>1, <1>3, <1>5 DEF CheckTyped
<1>9. CASE k = "team" /\ v.blocked
  <2>1. Learns(w, v) = Ends(j, "refuse")
    BY <1>6, <1>9
  <2>2. ProperCheck(check[w]) /\ v = truth[k] => Blocked
    BY <1>9 DEF Blocked
  <2>3. DOMAIN Ends(j, "refuse").seen = {}
    BY <1>8, EndsTyped, IdleIsTyped
  <2> QED BY <1>1, <1>8, <2>1, <2>2, <2>3, EndsTyped DEF ProperCheck, Asking
<1>10. CASE k = "team" /\ ~v.blocked
  <2>1. PICK r : r = [j EXCEPT !.pc = "get", !.key = "plan"]
    OBVIOUS
  <2>2. /\ DOMAIN r = {"pc", "key", "seen", "notice"} /\ r.pc = "get" /\ r.key = "plan"
        /\ r.seen = S /\ r.notice = check[w].notice
    BY <1>5, <2>1
  <2>3. Learns(w, v) = r
    BY <1>6, <1>10, <2>1
  <2>4. CheckTyped(r)
    BY <1>3, <1>10, <2>2 DEF CheckTyped, Steps, Keys
  <2>5. ProperCheck(check[w]) /\ v = truth[k] => ProperCheck(r)
    BY <1>7, <1>10, <2>2 DEF ProperCheck, Asking
  <2> QED BY <1>1, <2>2, <2>3, <2>4, <2>5
<1>11. CASE k = "plan"
  <2>1. PICK r : r = [j EXCEPT !.pc = "get", !.key = "usage"]
    OBVIOUS
  <2>2. /\ DOMAIN r = {"pc", "key", "seen", "notice"} /\ r.pc = "get" /\ r.key = "usage"
        /\ r.seen = S /\ r.notice = check[w].notice
    BY <1>5, <2>1
  <2>3. Learns(w, v) = r
    BY <1>6, <1>11, <2>1
  <2>4. CheckTyped(r)
    BY <1>1, <1>3, <1>11, <2>2 DEF CheckTyped, Steps, Keys
  <2>5. ProperCheck(check[w]) /\ v = truth[k] => ProperCheck(r)
    BY <1>1, <1>7, <1>11, <2>2 DEF ProperCheck, Asking
  <2> QED BY <1>1, <2>2, <2>3, <2>4, <2>5
<1>12. CASE k = "usage"
  <2>1. PICK r : r = [j EXCEPT !.pc = "decide", !.key = "none"]
    OBVIOUS
  <2>2. /\ DOMAIN r = {"pc", "key", "seen", "notice"} /\ r.pc = "decide" /\ r.key = "none"
        /\ r.seen = S /\ r.notice = check[w].notice
    BY <1>5, <2>1
  <2>3. Learns(w, v) = r
    BY <1>6, <1>12, <2>1
  <2>4. CheckTyped(r)
    <3>1. DOMAIN S = Keys
      BY <1>1, <1>3, <1>12 DEF CheckTyped, Keys, Partial
    <3> QED BY <1>3, <2>2, <3>1 DEF CheckTyped, Steps
  <2>5. ProperCheck(check[w]) /\ v = truth[k] => ProperCheck(r)
    BY <1>1, <1>7, <1>12, <2>2 DEF ProperCheck, Asking
  <2> QED BY <1>1, <2>2, <2>3, <2>4, <2>5
<1> QED BY <1>9, <1>10, <1>11, <1>12 DEF Keys

LEMMA AskedTyped ==
  ASSUME NEW w \in Workers, CheckTyped(check[w]), check[w].pc \in {"idle", "readUser"}
  PROVE  /\ CheckTyped(Ask(w, "team")) /\ Ask(w, "team").pc = "get"
         /\ ~(clientPath /\ suspended) => ProperCheck(Ask(w, "team"))
<1>1. PICK j : j = Ask(w, "team")
  OBVIOUS
<1>2. /\ DOMAIN j = {"pc", "key", "seen", "notice"} /\ j.pc = "get" /\ j.key = "team"
      /\ j.seen = check[w].seen /\ j.notice = check[w].notice
  BY <1>1 DEF CheckTyped, Ask
<1>3. CheckTyped(j)
  BY <1>2 DEF CheckTyped, Steps, Keys
<1>4. ~(clientPath /\ suspended) => ProperCheck(j)
  BY <1>2 DEF ProperCheck, Asking, CheckTyped
<1> QED BY <1>1, <1>2, <1>3, <1>4

\* What is fetched is so.
LEMMA FetchedWell ==
  ASSUME StoresTyped, NEW w \in Workers, CheckTyped(check[w]), check[w].pc = "fetch",
         NEW k, k = check[w].key,
         NEW d, d = [check[w] EXCEPT !.pc = "store", !.seen = With(@, k, truth[k])]
  PROVE  CheckTyped(d) /\ d.pc = "store" /\ (ProperCheck(check[w]) => ProperCheck(d))
<1>1. k \in Keys /\ truth[k] \in Value(k)
  BY DEF CheckTyped, StoresTyped, Partial
<1>2. PICK S : S = With(check[w].seen, k, truth[k])
  OBVIOUS
<1>3. /\ DOMAIN S = DOMAIN check[w].seen \cup {k} /\ S[k] = truth[k] /\ Partial(S)
      /\ \A x \in DOMAIN check[w].seen : x # k => S[x] = check[w].seen[x]
  BY <1>1, <1>2, PartialAdded DEF CheckTyped, With
<1>4. /\ DOMAIN d = {"pc", "key", "seen", "notice"} /\ d.pc = "store" /\ d.key = k
      /\ d.seen = S /\ d.notice = check[w].notice
  BY <1>2 DEF CheckTyped
<1>5. CheckTyped(d)
  BY <1>1, <1>3, <1>4 DEF CheckTyped, Steps
<1>6. ProperCheck(check[w]) => ProperCheck(d)
  BY <1>3, <1>4 DEF ProperCheck, Asking
<1> QED BY <1>4, <1>5, <1>6

-----------------------------------------------------------------------------
\* The verdict, when what was read is so.
SeesAll(c) == DOMAIN c.seen = Keys /\ \A k \in Keys : c.seen[k] = truth[k]
MayAsk == ~(clientPath /\ suspended) /\ ~truth["team"].blocked

LEMMA NotifyWell ==
  ASSUME NEW c, CheckTyped(c), DOMAIN c.seen = Keys, NEW n \in Notices
  PROVE  /\ CheckTyped(Notify(c, n)) /\ Notify(c, n).pc = "claim"
         /\ SeesAll(c) /\ MayAsk
              /\ (n \in {"reachedDay", "reachedMonth"} <=> Over(truth["usage"]))
              => ProperCheck(Notify(c, n))
<1>1. PICK j : j = Notify(c, n)
  OBVIOUS
<1>2. /\ DOMAIN j = {"pc", "key", "seen", "notice"} /\ j.pc = "claim" /\ j.key = c.key
      /\ j.seen = c.seen /\ j.notice = n
  BY <1>1 DEF CheckTyped, Notify
<1>3. CheckTyped(j)
  BY <1>2 DEF CheckTyped, Steps
<1>4. ASSUME SeesAll(c), MayAsk, n \in {"reachedDay", "reachedMonth"} <=> Over(truth["usage"])
      PROVE  ProperCheck(j)
  BY <1>2, <1>4 DEF ProperCheck, Asking, SeesAll, MayAsk
<1> QED BY <1>1, <1>2, <1>3, <1>4

LEMMA EndsWell ==
  ASSUME NEW c, CheckTyped(c), NEW p \in {"send", "refuse", "error"},
         p = "send" => MayAsk /\ ~Over(truth["usage"]),
         p = "refuse" => Blocked \/ Over(truth["usage"])
  PROVE  ProperCheck(Ends(c, p))
<1>1. Ends(c, p).pc = p /\ DOMAIN Ends(c, p).seen = {}
  BY EndsTyped, IdleIsTyped
<1> QED BY <1>1 DEF ProperCheck, Asking, MayAsk

LEMMA WarnOfDayWell ==
  ASSUME NEW c, CheckTyped(c), DOMAIN c.seen = Keys
  PROVE  /\ CheckTyped(WarnOfDay(c)) /\ WarnOfDay(c).pc # "idle"
         /\ SeesAll(c) /\ MayAsk /\ ~Over(truth["usage"]) => ProperCheck(WarnOfDay(c))
<1>1. WarnOfDay(c) \in {Notify(c, "warnDay"), Ends(c, "send")}
  BY DEF WarnOfDay
<1>2. "warnDay" \in Notices
  BY DEF Notices
<1>3. SeesAll(c) /\ MayAsk /\ ~Over(truth["usage"])
        => ProperCheck(Notify(c, "warnDay")) /\ ProperCheck(Ends(c, "send"))
  BY <1>2, NotifyWell, EndsWell
<1>4. /\ CheckTyped(Notify(c, "warnDay")) /\ Notify(c, "warnDay").pc = "claim"
      /\ CheckTyped(Ends(c, "send")) /\ Ends(c, "send").pc = "send"
  BY <1>2, NotifyWell, EndsTyped
<1> QED BY <1>1, <1>3, <1>4

LEMMA OverIsSeen ==
  ASSUME NEW c, SeesAll(c)
  PROVE  Over(truth["usage"])
           <=> OverDay(c.seen["usage"], c.seen) \/ OverMonth(c.seen["usage"], c.seen)
BY DEF SeesAll, Over, OverDay, OverMonth, Keys

LEMMA VerdictWell ==
  ASSUME NEW c, CheckTyped(c), c.pc = "decide"
  PROVE  /\ CheckTyped(Verdict(c)) /\ Verdict(c).pc # "idle"
         /\ ProperCheck(c) => ProperCheck(Verdict(c))
<1> DEFINE u == c.seen["usage"]
           D == OverDay(u, c.seen)
           M == OverMonth(u, c.seen)
<1>1. DOMAIN c.seen = Keys
  BY DEF CheckTyped
<1>2. ProperCheck(c) => SeesAll(c) /\ MayAsk
  BY <1>1 DEF ProperCheck, SeesAll, MayAsk, Asking
<1>3. ProperCheck(c) => (Over(truth["usage"]) <=> D \/ M)
  BY <1>2, OverIsSeen
<1>4. {"reachedDay", "reachedMonth", "warnMonth"} \subseteq Notices
  BY DEF Notices
<1> HIDE DEF D, M, u
<1>5. CASE D
  <2>1. Verdict(c) = IF clientPath THEN Ends(c, "refuse") ELSE Notify(c, "reachedDay")
    BY <1>5 DEF Verdict, D, M, u
  <2> QED BY <1>1, <1>2, <1>3, <1>4, <1>5, <2>1, NotifyWell, EndsTyped, EndsWell
<1>6. CASE ~D /\ M
  <2>1. Verdict(c) = IF clientPath THEN Ends(c, "refuse") ELSE Notify(c, "reachedMonth")
    BY <1>6 DEF Verdict, D, M, u
  <2> QED BY <1>1, <1>2, <1>3, <1>4, <1>6, <2>1, NotifyWell, EndsTyped, EndsWell
<1>7. CASE ~D /\ ~M
  <2>1. Verdict(c) \in {Notify(c, "warnMonth"), WarnOfDay(c)}
    BY <1>7 DEF Verdict, D, M, u
  <2>2. "warnMonth" \notin {"reachedDay", "reachedMonth"}
    OBVIOUS
  <2> QED BY <1>1, <1>2, <1>3, <1>4, <1>7, <2>1, <2>2, NotifyWell, WarnOfDayWell
<1> QED BY <1>5, <1>6, <1>7

LEMMA AfterwardsWell ==
  ASSUME NEW c, CheckTyped(c), c.pc \in {"claim", "mail"}
  PROVE  /\ CheckTyped(Afterwards(c)) /\ Afterwards(c).pc # "idle"
         /\ ProperCheck(c) => ProperCheck(Afterwards(c))
<1>1. DOMAIN c.seen = Keys /\ c.notice \in Notices
  BY DEF CheckTyped
<1>2. ProperCheck(c) => SeesAll(c) /\ MayAsk
  BY <1>1 DEF ProperCheck, SeesAll, MayAsk, Asking
<1>3. ProperCheck(c)
        => (c.notice \in {"reachedDay", "reachedMonth"} <=> Over(truth["usage"]))
  BY DEF ProperCheck
<1>4. CASE c.notice \in {"reachedDay", "reachedMonth"}
  <2>1. Afterwards(c) = Ends(c, "refuse")
    BY <1>4 DEF Afterwards
  <2> QED BY <1>3, <1>4, <2>1, EndsTyped, EndsWell
<1>5. CASE c.notice = "warnMonth"
  <2>1. Afterwards(c) = WarnOfDay(c)
    BY <1>5 DEF Afterwards
  <2> QED BY <1>1, <1>2, <1>3, <1>5, <2>1, WarnOfDayWell
<1>6. CASE c.notice = "warnDay"
  <2>1. Afterwards(c) = Ends(c, "send")
    BY <1>6 DEF Afterwards
  <2> QED BY <1>2, <1>3, <1>6, <2>1, EndsTyped, EndsWell
<1> QED BY <1>1, <1>4, <1>5, <1>6 DEF Notices

LEMMA MailingWell ==
  ASSUME NEW c, CheckTyped(c), c.pc = "claim", NEW d, d = [c EXCEPT !.pc = "mail"]
  PROVE  CheckTyped(d) /\ d.pc = "mail" /\ (ProperCheck(c) => ProperCheck(d))
<1>1. /\ DOMAIN d = {"pc", "key", "seen", "notice"} /\ d.pc = "mail" /\ d.key = c.key
      /\ d.seen = c.seen /\ d.notice = c.notice
  BY DEF CheckTyped
<1>2. CheckTyped(d)
  BY <1>1 DEF CheckTyped, Steps
<1>3. ProperCheck(c) => ProperCheck(d)
  BY <1>1 DEF ProperCheck, Asking
<1> QED BY <1>1, <1>2, <1>3

-----------------------------------------------------------------------------
\* A step of one worker: what it holds next is well formed and, until things
\* overlap, so.
OnlyCheck(w, d) ==
  /\ check' = [check EXCEPT ![w] = d]
  /\ UNCHANGED << clientPath, lagged, truth, suspended, op, ops, unreported, sent >>

LEMMA WorkerSteps ==
  ASSUME LimitInv, NEW w \in Workers, NEW d, OnlyCheck(w, d), CheckTyped(d),
         check[w].pc # "idle", Exact => ProperCheck(d),
         Partial(cache'), claimed' \subseteq Notices, tried' \subseteq Notices,
         Exact => \A k \in DOMAIN cache' : \/ k \in DOMAIN cache /\ cache'[k] = cache[k]
                                           \/ cache'[k] = truth[k]
  PROVE  LimitInv'
<1>1. /\ DOMAIN check = Workers /\ check'[w] = d
      /\ \A v \in Workers \ {w} : check'[v] = check[v]
  BY DEF LimitInv, ChecksTyped, OnlyCheck
<1>2. StoresTyped' /\ SentIsCounted'
  BY DEF LimitInv, OnlyCheck, StoresTyped, SentIsCounted, Partial
<1>3. ChecksTyped'
  <2>1. DOMAIN check' = Workers
    BY <1>1 DEF OnlyCheck
  <2>2. \A v \in Workers : CheckTyped(check'[v])
    BY <1>1 DEF LimitInv, ChecksTyped
  <2> QED BY <2>1, <2>2 DEF ChecksTyped, CheckTyped, Partial
<1>4. ASSUME Exact PROVE Exact'
  <2>1. op.pc = "idle" /\ \A v \in Workers \ {w} : check[v].pc = "idle"
    BY <1>4 DEF Exact, OneCheck
  <2>2. OneCheck'
    BY <1>1, <1>4, <2>1 DEF Exact, OneCheck, OnlyCheck
  <2>3. CachesTrue'
    BY <1>4, <2>1 DEF Exact, CachesTrue, OnlyCheck
  <2>4. \A v \in Workers : ProperCheck(check'[v])
    BY <1>1, <1>4 DEF Exact
  <2>5. \A v \in Workers : ProperCheck(check[v])'
    BY <2>4 DEF OnlyCheck, ProperCheck, Asking, Over, OverDay, OverMonth, DayLimit, MonthLimit,
         Blocked
  <2> QED BY <2>2, <2>3, <2>5 DEF Exact
<1> QED BY <1>2, <1>3, <1>4 DEF LimitInv, OnlyCheck

\* What a worker that is at work finds in a cache or in the database.
LEMMA CacheIsTrue ==
  ASSUME LimitInv, Exact, NEW w \in Workers, check[w].pc # "idle"
  PROVE  \A k \in DOMAIN cache : cache[k] = truth[k]
BY DEF LimitInv, Exact, OneCheck, CachesTrue, StoresTyped, Partial, Keys

LEMMA Worker ==
  ASSUME LimitInv, NEW w \in Workers
  PROVE  CheckTyped(check[w]) /\ (Exact => ProperCheck(check[w]))
BY DEF LimitInv, ChecksTyped, Exact

LEMMA ReadUserKeeps ==
  ASSUME LimitInv, NEW w \in Workers, ReadUser(w) PROVE LimitInv'
<1> DEFINE d == IF suspended THEN Ends(check[w], "refuse") ELSE Ask(w, "team")
<1>1. check[w].pc = "readUser" /\ OnlyCheck(w, d) /\ UNCHANGED << cache, claimed, tried >>
  BY DEF ReadUser, CheckAt, OnlyCheck, steady, limitStores
<1>2. CheckTyped(d)
  BY <1>1, Worker, AskedTyped, EndsTyped
<1>3. Exact => ProperCheck(d)
  <2>1. Exact /\ suspended => Blocked
    BY <1>1, Worker DEF ProperCheck, Blocked
  <2> QED BY <1>1, <2>1, Worker, AskedTyped, EndsWell
<1> HIDE DEF d
<1> QED BY <1>1, <1>2, <1>3, WorkerSteps DEF LimitInv, StoresTyped, Partial

LEMMA GetKeeps ==
  ASSUME LimitInv, NEW w \in Workers, Get(w) PROVE LimitInv'
<1>1. check[w].pc = "get" /\ UNCHANGED << cache, claimed, tried >>
  BY DEF Get, CheckAt, limitStores
<1>2. CASE check[w].key \in DOMAIN cache
  <2>1. PICK v : v = cache[check[w].key]
    OBVIOUS
  <2>2. OnlyCheck(w, Learns(w, v))
    BY <1>2, <2>1 DEF Get, OnlyCheck, steady, limitStores
  <2>3. v \in Value(check[w].key) /\ (Exact => v = truth[check[w].key])
    BY <1>1, <1>2, <2>1, CacheIsTrue DEF LimitInv, StoresTyped, Partial
  <2>4. CheckTyped(Learns(w, v)) /\ (Exact => ProperCheck(Learns(w, v)))
    BY <1>1, <2>3, Worker, LearnsWell
  <2> QED BY <1>1, <2>2, <2>4, WorkerSteps DEF LimitInv, StoresTyped, Partial
<1>3. CASE check[w].key \notin DOMAIN cache
  <2>1. PICK d : d = [check[w] EXCEPT !.pc = "fetch"]
    OBVIOUS
  <2>2. /\ DOMAIN d = {"pc", "key", "seen", "notice"} /\ d.pc = "fetch" /\ d.key = check[w].key
        /\ d.seen = check[w].seen /\ d.notice = check[w].notice
    BY <2>1, Worker DEF CheckTyped
  <2>3. CheckTyped(d)
    BY <1>1, <2>2, Worker DEF CheckTyped, Steps
  <2>4. Exact => ProperCheck(d)
    BY <1>1, <2>2, Worker DEF ProperCheck, Asking
  <2>5. OnlyCheck(w, d)
    BY <1>3, <2>1 DEF Get, OnlyCheck, steady, limitStores
  <2> QED BY <1>1, <2>3, <2>4, <2>5, WorkerSteps DEF LimitInv, StoresTyped, Partial
<1> QED BY <1>2, <1>3

LEMMA FetchKeeps ==
  ASSUME LimitInv, NEW w \in Workers, Fetch(w) PROVE LimitInv'
<1>1. PICK d : d = [check[w] EXCEPT !.pc = "store",
                                    !.seen = With(check[w].seen, check[w].key,
                                                  truth[check[w].key])]
  OBVIOUS
<1>2. /\ check[w].pc = "fetch" /\ OnlyCheck(w, d) /\ UNCHANGED << cache, claimed, tried >>
  <2>1. check' = [check EXCEPT ![w] = d]
    BY <1>1 DEF Fetch
  <2> QED BY <2>1 DEF Fetch, CheckAt, OnlyCheck, steady, limitStores
<1>3. CheckTyped(d) /\ (Exact => ProperCheck(d))
  BY <1>1, <1>2, Worker, FetchedWell DEF LimitInv
<1> QED BY <1>2, <1>3, WorkerSteps DEF LimitInv, StoresTyped, Partial

LEMMA StoreKeeps ==
  ASSUME LimitInv, NEW w \in Workers, Store(w) PROVE LimitInv'
<1>1. PICK k, v : k = check[w].key /\ v = check[w].seen[k]
  OBVIOUS
<1>2. /\ check[w].pc = "store" /\ OnlyCheck(w, Learns(w, v)) /\ UNCHANGED << claimed, tried >>
      /\ cache' = With(cache, k, v)
  BY <1>1 DEF Store, CheckAt, OnlyCheck, steady
<1>3. k \in Keys /\ v \in Value(k) /\ (Exact => v = truth[k])
  BY <1>1, <1>2, Worker DEF CheckTyped, Partial, ProperCheck
<1>4. CheckTyped(Learns(w, v)) /\ (Exact => ProperCheck(Learns(w, v)))
  BY <1>1, <1>2, <1>3, Worker, LearnsWell
<1>5. Partial(cache')
  BY <1>2, <1>3, PartialAdded DEF LimitInv, StoresTyped
<1>6. Exact => \A x \in DOMAIN cache' : \/ x \in DOMAIN cache /\ cache'[x] = cache[x]
                                        \/ cache'[x] = truth[x]
  BY <1>2, <1>3 DEF With
<1> QED BY <1>2, <1>4, <1>5, <1>6, WorkerSteps DEF LimitInv, StoresTyped

LEMMA JudgeKeeps ==
  ASSUME LimitInv, NEW w \in Workers, Judge(w) PROVE LimitInv'
<1>1. /\ check[w].pc = "decide" /\ OnlyCheck(w, Verdict(check[w]))
      /\ UNCHANGED << cache, claimed, tried >>
  BY DEF Judge, CheckAt, OnlyCheck, steady, limitStores
<1>2. CheckTyped(Verdict(check[w])) /\ (Exact => ProperCheck(Verdict(check[w])))
  BY <1>1, Worker, VerdictWell
<1> QED BY <1>1, <1>2, WorkerSteps DEF LimitInv, StoresTyped, Partial

LEMMA ClaimKeeps ==
  ASSUME LimitInv, NEW w \in Workers, Claim(w) PROVE LimitInv'
<1>1. PICK m : m = [check[w] EXCEPT !.pc = "mail"]
  OBVIOUS
<1>2. PICK d \in {Afterwards(check[w]), m} : OnlyCheck(w, d)
  BY <1>1 DEF Claim, OnlyCheck, steady
<1>3. /\ check[w].pc = "claim" /\ UNCHANGED << cache, tried >>
      /\ claimed' = claimed \cup {check[w].notice}
  BY DEF Claim, CheckAt, steady
<1>4. CheckTyped(d) /\ (Exact => ProperCheck(d))
  BY <1>1, <1>2, <1>3, Worker, AfterwardsWell, MailingWell
<1>5. claimed' \subseteq Notices
  BY <1>3, Worker DEF CheckTyped, LimitInv, StoresTyped
<1> QED BY <1>2, <1>3, <1>4, <1>5, WorkerSteps DEF LimitInv, StoresTyped, Partial

LEMMA NoticeKeeps ==
  ASSUME LimitInv, NEW w \in Workers, MailNotice(w) \/ NoticeFails(w) PROVE LimitInv'
<1>1. PICK d \in {Afterwards(check[w]), Ends(check[w], "error")} : OnlyCheck(w, d)
  BY DEF MailNotice, NoticeFails, OnlyCheck, steady
<1>2. /\ check[w].pc = "mail" /\ UNCHANGED << cache, claimed >>
      /\ tried' = tried \cup {check[w].notice}
  BY DEF MailNotice, NoticeFails, CheckAt, steady
<1>3. CheckTyped(d) /\ (Exact => ProperCheck(d))
  BY <1>1, <1>2, Worker, AfterwardsWell, EndsTyped, EndsWell
<1>4. tried' \subseteq Notices
  BY <1>2, Worker DEF CheckTyped, LimitInv, StoresTyped
<1> QED BY <1>1, <1>2, <1>3, <1>4, WorkerSteps DEF LimitInv, StoresTyped, Partial

LEMMA RefuseKeeps ==
  ASSUME LimitInv, NEW w \in Workers, Refuse(w) PROVE LimitInv'
<1>1. /\ check[w].pc # "idle" /\ OnlyCheck(w, IdleCheck) /\ UNCHANGED << cache, claimed, tried >>
  BY DEF Refuse, CheckAt, OnlyCheck, steady, limitStores
<1> QED BY <1>1, IdleIsTyped, WorkerSteps DEF LimitInv, StoresTyped, Partial

LEMMA SendKeeps ==
  ASSUME LimitInv, NEW w \in Workers, Send(w) PROVE LimitInv'
<1>1. /\ check[w].pc = "send" /\ check' = [check EXCEPT ![w] = IdleCheck]
      /\ unreported < MaxUnreported /\ unreported' = unreported + 1 /\ sent' = OneMore(sent)
      /\ UNCHANGED << clientPath, lagged, truth, suspended, cache, claimed, tried, op, ops >>
  BY DEF Send, CheckAt, steady
<1>2. /\ DOMAIN check = Workers /\ check'[w] = IdleCheck
      /\ \A v \in Workers \ {w} : check'[v] = check[v]
  BY <1>1 DEF LimitInv, ChecksTyped
<1>3. OneMore(sent) \in Usages
  BY LimitAssumption DEF LimitInv, StoresTyped, Usages, OneMore, Capped
<1>4. StoresTyped'
  <2>1. unreported' \in 0 .. MaxUnreported
    BY <1>1, LimitAssumption DEF LimitInv, StoresTyped
  <2> QED BY <1>1, <1>3, <2>1 DEF LimitInv, StoresTyped, Partial
<1>5. SentIsCounted'
  <2>1. truth["usage"] \in Usages /\ sent \in Usages /\ unreported \in Nat
    BY LimitAssumption DEF LimitInv, StoresTyped, Partial, Keys, Value
  <2>2. /\ sent'.day \in Int /\ sent'.day <= sent.day + 1
        /\ sent'.month \in Int /\ sent'.month <= sent.month + 1
    BY <1>1, <2>1, LimitAssumption DEF OneMore, Capped, Usages
  <2> QED BY <1>1, <2>1, <2>2, LimitAssumption DEF LimitInv, SentIsCounted, Usages
<1>6. ChecksTyped'
  <2>1. \A v \in Workers : CheckTyped(check'[v])
    BY <1>2, IdleIsTyped DEF LimitInv, ChecksTyped
  <2> QED BY <1>1, <1>2, <2>1 DEF ChecksTyped, CheckTyped, Partial
<1>7. ASSUME Exact PROVE Exact'
  <2>1. op.pc = "idle" /\ \A v \in Workers : check'[v].pc = "idle"
    BY <1>1, <1>2, <1>7, IdleIsTyped DEF Exact, OneCheck
  <2>2. OneCheck'
    BY <2>1 DEF OneCheck
  <2>3. CachesTrue'
    BY <1>1, <1>7 DEF Exact, CachesTrue
  <2>4. \A v \in Workers : ProperCheck(check'[v])
    BY <1>2, <1>7, IdleIsTyped DEF Exact
  <2>5. \A v \in Workers : ProperCheck(check[v])'
    BY <1>1, <2>4 DEF ProperCheck, Asking, Over, OverDay, OverMonth, DayLimit, MonthLimit,
         Blocked
  <2> QED BY <2>2, <2>3, <2>5 DEF Exact
<1> QED BY <1>1, <1>4, <1>5, <1>6, <1>7 DEF LimitInv

-----------------------------------------------------------------------------
\* A step of somebody else, who leaves the checks alone; until things overlap
\* it changes what checks read only while nobody is at work.
Nobody == \A w \in Workers : check[w].pc = "idle"

LEMMA IdleIsProper ==
  ASSUME LimitInv, check' = check, NEW w \in Workers, check[w].pc = "idle"
  PROVE  ProperCheck(check[w])'
BY DEF LimitInv, ChecksTyped, CheckTyped, ProperCheck, Asking

LEMMA OtherSteps ==
  ASSUME LimitInv, check' = check, StoresTyped', SentIsCounted',
         ~lagged' => Exact /\ CachesTrue' /\ OneCheck',
         ~lagged' => \/ Nobody
                     \/ UNCHANGED << clientPath, truth, suspended >>
  PROVE  LimitInv'
<1>1. ChecksTyped'
  BY DEF LimitInv, ChecksTyped, CheckTyped, Partial
<1>2. ASSUME ~lagged' PROVE \A w \in Workers : ProperCheck(check[w])'
  <2>1. CASE Nobody
    BY <2>1, IdleIsProper DEF Nobody
  <2>2. CASE UNCHANGED << clientPath, truth, suspended >>
    <3>1. \A w \in Workers : ProperCheck(check[w])
      BY <1>2 DEF Exact
    <3> QED BY <2>2, <3>1 DEF ProperCheck, Asking, Over, OverDay, OverMonth, DayLimit,
              MonthLimit, Blocked
  <2> QED BY <1>2, <2>1, <2>2
<1> QED BY <1>1, <1>2 DEF LimitInv, Exact

LEMMA UsageIsTyped ==
  ASSUME StoresTyped
  PROVE  /\ truth["usage"] \in Usages /\ truth["team"] \in TeamRows /\ truth["plan"] \in Plans
         /\ "usage" \in Keys /\ "team" \in Keys /\ "plan" \in Keys
         /\ unreported \in Nat /\ sent \in Usages /\ DOMAIN truth = Keys
BY LimitAssumption DEF StoresTyped, Partial, Keys, Value

\* A row of the database that changes.
LEMMA TruthChanges ==
  ASSUME StoresTyped, NEW k \in Keys, NEW v \in Value(k),
         NEW f, DOMAIN f = Keys, f[k] = v, \A x \in Keys \ {k} : f[x] = truth[x]
  PROVE  Partial(f)
BY DEF StoresTyped, Partial

LEMMA ReportKeeps ==
  ASSUME LimitInv, Report PROVE LimitInv'
<1>1. /\ unreported > 0 /\ unreported' = unreported - 1
      /\ truth' = [truth EXCEPT !["usage"] = OneMore(truth["usage"])]
      /\ UNCHANGED << clientPath, lagged, suspended, cache, check, op, claimed, ops, sent, tried >>
  BY DEF Report, steady
<1>2. StoresTyped
  BY DEF LimitInv
<1>3. OneMore(truth["usage"]) \in Value("usage")
  BY <1>2, UsageIsTyped, LimitAssumption DEF Usages, OneMore, Capped, Value
<1>4. /\ DOMAIN truth' = Keys /\ Partial(truth') /\ truth'["usage"] = OneMore(truth["usage"])
      /\ truth'["team"] = truth["team"] /\ truth'["plan"] = truth["plan"]
  <2>1. "usage" \in Keys /\ "team" \in Keys \ {"usage"} /\ "plan" \in Keys \ {"usage"}
    BY DEF Keys
  <2>2. PICK v \in Value("usage") : v = OneMore(truth["usage"])
    BY <1>3
  <2>3. PICK f : f = [truth EXCEPT !["usage"] = v]
    OBVIOUS
  <2>4. /\ DOMAIN f = Keys /\ f["usage"] = v
        /\ \A x \in Keys \ {"usage"} : f[x] = truth[x]
    BY <1>2, <2>1, <2>3 DEF StoresTyped
  <2>6. Partial(f)
    BY <1>2, <2>1, <2>3, <2>4, TruthChanges
  <2>5. truth' = f
    BY <1>1, <2>2, <2>3
  <2> QED BY <2>1, <2>2, <2>4, <2>5, <2>6
<1>5. StoresTyped'
  <2>1. unreported' \in 0 .. MaxUnreported
    BY <1>1, <1>2, LimitAssumption DEF StoresTyped
  <2> QED BY <1>1, <1>2, <1>4, <2>1 DEF StoresTyped, Partial
<1>6. SentIsCounted'
  <2>1. /\ sent.day <= MaxSent /\ sent.month <= MaxSent /\ sent.day \in Int /\ sent.month \in Int
        /\ unreported \in Int /\ truth["usage"].day \in Int /\ truth["usage"].month \in Int
    BY <1>2, UsageIsTyped, LimitAssumption DEF Usages
  <2>2. sent'.day <= truth'["usage"].day + unreported'
    BY <1>1, <1>4, <2>1, LimitAssumption DEF LimitInv, SentIsCounted, OneMore, Capped
  <2>3. sent'.month <= truth'["usage"].month + unreported'
    BY <1>1, <1>4, <2>1, LimitAssumption DEF LimitInv, SentIsCounted, OneMore, Capped
  <2> QED BY <2>2, <2>3 DEF SentIsCounted
<1>7. ASSUME ~lagged' PROVE Exact /\ CachesTrue' /\ OneCheck' /\ Nobody
  <2>1. Exact
    BY <1>1, <1>7 DEF LimitInv
  <2>2. Nobody
    BY <1>1, <2>1 DEF Exact, OneCheck, Nobody
  <2>3. OneCheck'
    BY <1>1, <2>2 DEF Nobody, OneCheck
  <2>4. CachesTrue'
    BY <1>1, <1>4, <2>1 DEF Exact, CachesTrue
  <2> QED BY <2>1, <2>2, <2>3, <2>4
<1> QED BY <1>1, <1>5, <1>6, <1>7, OtherSteps

LEMMA ExpireKeeps ==
  ASSUME LimitInv, NEW k \in Keys, Expire(k) PROVE LimitInv'
<1>1. /\ cache' = Without(cache, k)
      /\ UNCHANGED << clientPath, lagged, truth, suspended, check, op, unreported, claimed, ops,
                      sent, tried >>
  BY DEF Expire, steady
<1>2. /\ Partial(cache') /\ DOMAIN cache' \subseteq DOMAIN cache
      /\ \A x \in DOMAIN cache' : cache'[x] = cache[x]
  BY <1>1, PartialWithout DEF Without, LimitInv, StoresTyped
<1>3. StoresTyped' /\ SentIsCounted'
  BY <1>1, <1>2 DEF LimitInv, StoresTyped, SentIsCounted, Partial
<1>4. ASSUME ~lagged' PROVE Exact /\ CachesTrue' /\ OneCheck'
  <2>1. Exact
    BY <1>1, <1>4 DEF LimitInv
  <2>2. OneCheck'
    BY <1>1, <1>2, <2>1 DEF Exact, OneCheck
  <2>3. CachesTrue'
    BY <1>1, <1>2, <2>1 DEF Exact, CachesTrue
  <2> QED BY <2>1, <2>2, <2>3
<1> QED BY <1>1, <1>3, <1>4, OtherSteps

LEMMA CooldownEndsKeeps ==
  ASSUME LimitInv, NEW n \in Notices, CooldownEnds(n) PROVE LimitInv'
<1>1. /\ claimed' \subseteq claimed /\ tried' \subseteq tried
      /\ UNCHANGED << clientPath, lagged, truth, suspended, cache, check, op, unreported, ops, sent >>
  BY DEF CooldownEnds, steady
<1>2. StoresTyped' /\ SentIsCounted'
  BY <1>1 DEF LimitInv, StoresTyped, SentIsCounted, Partial
<1>3. ~lagged' => Exact /\ CachesTrue' /\ OneCheck'
  BY <1>1 DEF LimitInv, Exact, OneCheck, CachesTrue
<1> QED BY <1>1, <1>2, <1>3, OtherSteps

-----------------------------------------------------------------------------
\* Days and operators.  What the rows say may change while nobody is at work.
LEMMA TogetherIsApart ==
  ASSUME LimitInv, NEW apart, Together(apart), ~lagged'
  PROVE  ~lagged /\ apart /\ Exact
BY DEF Together, LimitInv

LEMMA NewPeriodKeeps ==
  ASSUME LimitInv, NEW months \in BOOLEAN, NewPeriod(months) PROVE LimitInv'
<1>1. PICK u : u = [day |-> 0, month |-> IF months THEN 0 ELSE truth["usage"].month]
  OBVIOUS
<1>2. /\ ops < MaxOps /\ ops' = ops + 1 /\ Together(NothingOpen)
      /\ truth' = [truth EXCEPT !["usage"] = u]
      /\ sent' = [day |-> 0, month |-> IF months THEN 0 ELSE sent.month]
      /\ UNCHANGED << clientPath, suspended, cache, check, op, unreported, claimed, tried >>
  BY <1>1 DEF NewPeriod
<1>3. StoresTyped
  BY DEF LimitInv
<1>4. u \in Usages /\ sent' \in Usages
  BY <1>1, <1>2, <1>3, UsageIsTyped, LimitAssumption DEF Usages
<1>5. /\ DOMAIN truth' = Keys /\ Partial(truth') /\ truth'["usage"] = u
      /\ truth'["team"] = truth["team"] /\ truth'["plan"] = truth["plan"]
  <2>1. "usage" \in Keys /\ "team" \in Keys \ {"usage"} /\ "plan" \in Keys \ {"usage"}
    BY DEF Keys
  <2>2. u \in Value("usage")
    BY <1>4 DEF Value
  <2>3. PICK f : f = [truth EXCEPT !["usage"] = u]
    OBVIOUS
  <2>4. /\ DOMAIN f = Keys /\ f["usage"] = u
        /\ \A x \in Keys \ {"usage"} : f[x] = truth[x]
    BY <1>3, <2>1, <2>2, <2>3 DEF StoresTyped
  <2>6. Partial(f)
    BY <1>3, <2>1, <2>2, <2>3, <2>4, TruthChanges
  <2>5. truth' = f
    BY <1>2, <2>3
  <2> QED BY <2>1, <2>4, <2>5, <2>6
<1>6. StoresTyped'
  <2>1. ops' \in 0 .. MaxOps
    BY <1>2, <1>3, LimitAssumption DEF StoresTyped
  <2>2. lagged' \in BOOLEAN
    BY <1>2, <1>3, Zenon DEF StoresTyped, Together
  <2> QED BY <1>2, <1>3, <1>4, <1>5, <2>1, <2>2 DEF StoresTyped, Partial
<1>7. SentIsCounted'
  <2>1. /\ unreported \in Nat /\ truth["usage"].month \in Int /\ sent.month \in Int
        /\ sent.month <= truth["usage"].month + unreported
    BY <1>3, UsageIsTyped, LimitAssumption DEF Usages, LimitInv, SentIsCounted
  <2>2. CASE months
    BY <1>1, <1>2, <1>5, <2>1, <2>2 DEF SentIsCounted
  <2>3. CASE ~months
    BY <1>1, <1>2, <1>5, <2>1, <2>3 DEF SentIsCounted
  <2> QED BY <2>2, <2>3
<1>8. ASSUME ~lagged' PROVE Exact /\ CachesTrue' /\ OneCheck' /\ Nobody
  <2>1. NothingOpen /\ Exact
    BY <1>2, <1>8, TogetherIsApart
  <2>2. OneCheck'
    BY <1>2, <2>1 DEF NothingOpen, OneCheck
  <2>3. CachesTrue'
    BY <1>2, <1>5, <2>1 DEF Exact, CachesTrue
  <2> QED BY <2>1, <2>2, <2>3 DEF NothingOpen, Nobody
<1> QED BY <1>2, <1>6, <1>7, <1>8, OtherSteps

\* The request of an operator begins: what it leaves of the caches is true.
LEMMA RequestKeeps ==
  ASSUME LimitInv, OperatorAsks, Partial(truth'), DOMAIN truth' = Keys,
         truth'["usage"] = truth["usage"], suspended' \in BOOLEAN,
         op' \in [pc : {"reread", "drop"}, drop : BOOLEAN, row : TeamRows],
         op'.pc = "drop" => truth' = truth,
         op'.pc = "reread" /\ ~op'.drop => truth'["plan"] = truth["plan"],
         UNCHANGED << clientPath, cache, check, unreported, claimed, sent, tried >>
  PROVE  LimitInv'
<1>1. op.pc = "idle" /\ Together(NothingOpen) /\ ops < MaxOps /\ ops' = ops + 1
  BY DEF OperatorAsks
<1>2. StoresTyped'
  <2>1. ops' \in 0 .. MaxOps
    BY <1>1, LimitAssumption DEF LimitInv, StoresTyped
  <2>2. lagged' \in BOOLEAN
    BY <1>1, Zenon DEF LimitInv, StoresTyped, Together
  <2> QED BY <2>1, <2>2 DEF LimitInv, StoresTyped, Partial
<1>3. SentIsCounted'
  BY DEF LimitInv, SentIsCounted
<1>4. ASSUME ~lagged' PROVE Exact /\ CachesTrue' /\ OneCheck' /\ Nobody
  <2>1. NothingOpen /\ Exact
    BY <1>1, <1>4, TogetherIsApart
  <2>2. OneCheck'
    BY <2>1 DEF NothingOpen, OneCheck
  <2>3. CachesTrue'
    BY <1>1, <2>1 DEF Exact, CachesTrue
  <2> QED BY <2>1, <2>2, <2>3 DEF NothingOpen, Nobody
<1> QED BY <1>2, <1>3, <1>4, OtherSteps

LEMMA SetTeamKeeps ==
  ASSUME LimitInv, SetTeam PROVE LimitInv'
<1>1. PICK r \in TeamRows : truth' = [truth EXCEPT !["team"] = r]
  BY DEF SetTeam
<1>2. /\ OperatorAsks /\ op' = [op EXCEPT !.pc = "reread", !.drop = FALSE]
      /\ UNCHANGED << clientPath, suspended, cache, check, unreported, claimed, sent, tried >>
  BY DEF SetTeam
<1>3. StoresTyped
  BY DEF LimitInv
<1>4. /\ DOMAIN truth' = Keys /\ Partial(truth')
      /\ truth'["usage"] = truth["usage"] /\ truth'["plan"] = truth["plan"]
  <2>1. "team" \in Keys /\ "usage" \in Keys \ {"team"} /\ "plan" \in Keys \ {"team"}
    BY DEF Keys
  <2>2. r \in Value("team")
    BY DEF Value
  <2>3. PICK f : f = [truth EXCEPT !["team"] = r]
    OBVIOUS
  <2>4. /\ DOMAIN f = Keys /\ f["team"] = r
        /\ \A x \in Keys \ {"team"} : f[x] = truth[x]
    BY <1>3, <2>1, <2>2, <2>3 DEF StoresTyped
  <2>6. Partial(f)
    BY <1>3, <2>1, <2>2, <2>3, <2>4, TruthChanges
  <2>5. truth' = f
    BY <1>1, <2>3
  <2> QED BY <2>1, <2>4, <2>5, <2>6
<1>5. /\ op' \in [pc : {"reread", "drop"}, drop : BOOLEAN, row : TeamRows]
      /\ op'.pc = "reread" /\ suspended' \in BOOLEAN
  BY <1>2, <1>3 DEF StoresTyped
<1> QED BY <1>2, <1>4, <1>5, RequestKeeps

LEMMA AssignPlanKeeps ==
  ASSUME LimitInv, AssignPlan PROVE LimitInv'
<1>1. PICK p \in Plans : truth' = [truth EXCEPT !["plan"] = p]
  BY DEF AssignPlan
<1>2. /\ OperatorAsks /\ op' = [op EXCEPT !.pc = "reread", !.drop = TRUE]
      /\ UNCHANGED << clientPath, suspended, cache, check, unreported, claimed, sent, tried >>
  BY DEF AssignPlan
<1>3. StoresTyped
  BY DEF LimitInv
<1>4. DOMAIN truth' = Keys /\ Partial(truth') /\ truth'["usage"] = truth["usage"]
  <2>1. "plan" \in Keys /\ "usage" \in Keys \ {"plan"}
    BY DEF Keys
  <2>2. p \in Value("plan")
    BY DEF Value
  <2>3. PICK f : f = [truth EXCEPT !["plan"] = p]
    OBVIOUS
  <2>4. /\ DOMAIN f = Keys /\ f["plan"] = p
        /\ \A x \in Keys \ {"plan"} : f[x] = truth[x]
    BY <1>3, <2>1, <2>2, <2>3 DEF StoresTyped
  <2>6. Partial(f)
    BY <1>3, <2>1, <2>2, <2>3, <2>4, TruthChanges
  <2>5. truth' = f
    BY <1>1, <2>3
  <2> QED BY <2>1, <2>4, <2>5, <2>6
<1>5. /\ op' \in [pc : {"reread", "drop"}, drop : BOOLEAN, row : TeamRows]
      /\ op'.pc = "reread" /\ op'.drop = TRUE /\ suspended' \in BOOLEAN
  BY <1>2, <1>3 DEF StoresTyped
<1> QED BY <1>2, <1>4, <1>5, RequestKeeps

LEMMA SetUserBlockedKeeps ==
  ASSUME LimitInv, SetUserBlocked PROVE LimitInv'
<1>1. /\ OperatorAsks /\ op' = [op EXCEPT !.pc = "drop"] /\ suspended' = ~suspended
      /\ UNCHANGED << clientPath, truth, cache, check, unreported, claimed, sent, tried >>
  BY DEF SetUserBlocked
<1>2. StoresTyped
  BY DEF LimitInv
<1>3. /\ op' \in [pc : {"reread", "drop"}, drop : BOOLEAN, row : TeamRows] /\ op'.pc = "drop"
  BY <1>1, <1>2 DEF StoresTyped
<1>4. DOMAIN truth' = Keys /\ Partial(truth') /\ suspended' \in BOOLEAN
  BY <1>1, <1>2 DEF StoresTyped
<1> QED BY <1>1, <1>3, <1>4, RequestKeeps

\* It goes on: the steps of a request under way.
LEMMA OperatorKeeps ==
  ASSUME LimitInv, op.pc # "idle", Partial(cache'),
         op' \in [pc : {"idle", "set", "drop"}, drop : BOOLEAN, row : TeamRows],
         DOMAIN cache' \subseteq DOMAIN cache \cup {"team"},
         "usage" \in DOMAIN cache' => cache'["usage"] = cache["usage"],
         CachesTrue => CachesTrue',
         UNCHANGED << clientPath, lagged, truth, suspended, check, unreported, claimed, ops, sent,
                      tried >>
  PROVE  LimitInv'
<1>1. StoresTyped' /\ SentIsCounted'
  BY DEF LimitInv, StoresTyped, SentIsCounted, Partial
<1>2. ASSUME ~lagged' PROVE Exact /\ CachesTrue' /\ OneCheck'
  <2>1. Exact
    BY <1>2 DEF LimitInv
  <2>2. OneCheck'
    BY <2>1 DEF Exact, OneCheck
  <2> QED BY <2>1, <2>2 DEF Exact
<1> QED BY <1>1, <1>2, OtherSteps

LEMMA RereadKeeps ==
  ASSUME LimitInv, Reread PROVE LimitInv'
<1>1. /\ op.pc = "reread" /\ op' = [op EXCEPT !.pc = "set", !.row = truth["team"]]
      /\ UNCHANGED << clientPath, lagged, truth, suspended, cache, check, unreported, claimed, ops,
                      sent, tried >>
  BY DEF Reread, steady, limitStores
<1>2. StoresTyped /\ truth["team"] \in TeamRows
  BY UsageIsTyped DEF LimitInv
<1>3. /\ op' \in [pc : {"idle", "set", "drop"}, drop : BOOLEAN, row : TeamRows]
      /\ op'.pc = "set" /\ op'.row = truth["team"] /\ op'.drop = op.drop
  BY <1>1, <1>2 DEF StoresTyped
<1>4. CachesTrue => CachesTrue'
  BY <1>1, <1>3 DEF CachesTrue
<1>5. Partial(cache') /\ op.pc # "idle"
  BY <1>1, <1>2 DEF StoresTyped
<1> QED BY <1>1, <1>3, <1>4, <1>5, OperatorKeeps

LEMMA SetCachedKeeps ==
  ASSUME LimitInv, SetCached PROVE LimitInv'
<1>1. /\ op.pc = "set" /\ cache' = With(cache, "team", op.row)
      /\ op' \in {[op EXCEPT !.pc = "drop"], IdleOp}
      /\ op' = IdleOp => ~op.drop
      /\ UNCHANGED << clientPath, lagged, truth, suspended, check, unreported, claimed, ops,
                      sent, tried >>
  <2>1. op.drop => [op EXCEPT !.pc = "drop"] # IdleOp
    BY DEF LimitInv, StoresTyped, IdleOp
  <2> QED BY <2>1 DEF SetCached, steady
<1>2. StoresTyped /\ "team" \in Keys /\ op.row \in Value("team")
  BY DEF LimitInv, StoresTyped, Keys, Value
<1>3. /\ op' \in [pc : {"idle", "set", "drop"}, drop : BOOLEAN, row : TeamRows]
      /\ op'.pc \in {"idle", "drop"} /\ (op'.pc = "idle" => ~op.drop)
  <2>1. CASE op' = IdleOp
    BY <1>1, <2>1, LimitAssumption DEF IdleOp
  <2>2. CASE op' = [op EXCEPT !.pc = "drop"]
    BY <1>2, <2>2 DEF StoresTyped
  <2> QED BY <1>1, <2>1, <2>2
<1>4. Partial(cache')
  BY <1>1, <1>2, PartialAdded DEF StoresTyped
<1>5. /\ DOMAIN cache' = DOMAIN cache \cup {"team"} /\ cache'["team"] = op.row
      /\ \A x \in DOMAIN cache : x # "team" => cache'[x] = cache[x]
  BY <1>1 DEF With
<1>6. CachesTrue => CachesTrue'
  BY <1>1, <1>2, <1>3, <1>5 DEF CachesTrue, StoresTyped
<1>7. "usage" \in DOMAIN cache' => cache'["usage"] = cache["usage"]
  BY <1>5
<1> QED BY <1>1, <1>3, <1>4, <1>5, <1>6, <1>7, OperatorKeeps

LEMMA InvalidatePlanKeeps ==
  ASSUME LimitInv, InvalidatePlan PROVE LimitInv'
<1>1. /\ op.pc = "drop" /\ cache' = Without(cache, "plan") /\ op' = IdleOp
      /\ UNCHANGED << clientPath, lagged, truth, suspended, check, unreported, claimed, ops,
                      sent, tried >>
  BY DEF InvalidatePlan, steady
<1>2. /\ op' \in [pc : {"idle", "set", "drop"}, drop : BOOLEAN, row : TeamRows]
      /\ op'.pc = "idle"
  BY <1>1, LimitAssumption DEF IdleOp
<1>3. Partial(cache')
  BY <1>1, PartialWithout DEF LimitInv, StoresTyped
<1>4. /\ DOMAIN cache' = DOMAIN cache \ {"plan"} /\ \A x \in DOMAIN cache' : cache'[x] = cache[x]
  BY <1>1 DEF Without
<1>5. CachesTrue => CachesTrue'
  BY <1>1, <1>2, <1>4 DEF CachesTrue
<1> QED BY <1>1, <1>2, <1>3, <1>4, <1>5, OperatorKeeps

LEMMA BeginKeeps ==
  ASSUME LimitInv, NEW w \in Workers, Begin(w) PROVE LimitInv'
<1>1. PICK d : d = IF clientPath THEN [IdleCheck EXCEPT !.pc = "readUser"] ELSE Ask(w, "team")
  OBVIOUS
<1>2. /\ check[w].pc = "idle" /\ check' = [check EXCEPT ![w] = d]
      /\ Together(NothingOpen /\ unreported = 0 /\ "usage" \notin DOMAIN cache)
      /\ UNCHANGED << clientPath, truth, suspended, cache, unreported, claimed, sent, tried, op, ops >>
  BY <1>1 DEF Begin, CheckAt, limitStores
<1>3. /\ DOMAIN check = Workers /\ check'[w] = d
      /\ \A v \in Workers \ {w} : check'[v] = check[v]
  BY <1>2 DEF LimitInv, ChecksTyped
<1>4. CheckTyped(d) /\ ProperCheck(d)
  <2>1. CASE ~clientPath
    BY <1>1, <1>2, <2>1, Worker, AskedTyped
  <2>2. CASE clientPath
    <3>1. /\ DOMAIN d = {"pc", "key", "seen", "notice"} /\ d.pc = "readUser" /\ d.key = "none"
          /\ d.seen = << >> /\ d.notice = "none"
      BY <1>1, <2>2 DEF IdleCheck
    <3>2. CheckTyped(d)
      BY <3>1, IdleIsTyped DEF CheckTyped, Steps
    <3>3. ProperCheck(d)
      BY <3>1, <2>2, IdleIsTyped DEF ProperCheck, Asking
    <3> QED BY <3>2, <3>3
  <2> QED BY <2>1, <2>2
<1>5. StoresTyped' /\ SentIsCounted'
  <2>1. lagged' \in BOOLEAN
    BY <1>2, Zenon DEF LimitInv, StoresTyped, Together
  <2> QED BY <1>2, <2>1 DEF LimitInv, StoresTyped, SentIsCounted, Partial
<1>6. ChecksTyped'
  <2>1. DOMAIN check' = Workers
    BY <1>2, <1>3
  <2>2. \A v \in Workers : CheckTyped(check'[v])
    BY <1>3, <1>4 DEF LimitInv, ChecksTyped
  <2> QED BY <2>1, <2>2 DEF ChecksTyped, CheckTyped, Partial
<1>7. ASSUME ~lagged' PROVE Exact'
  <2>1. NothingOpen /\ unreported = 0 /\ "usage" \notin DOMAIN cache /\ Exact
    BY <1>2, <1>7, TogetherIsApart
  <2>2. OneCheck'
    BY <1>2, <1>3, <2>1 DEF NothingOpen, OneCheck
  <2>3. CachesTrue'
    BY <1>2, <2>1 DEF Exact, CachesTrue
  <2>4. \A v \in Workers : ProperCheck(check'[v])
    BY <1>3, <1>4, <2>1 DEF Exact
  <2>5. \A v \in Workers : ProperCheck(check[v])'
    BY <1>2, <2>4 DEF ProperCheck, Asking, Over, OverDay, OverMonth, DayLimit, MonthLimit,
         Blocked
  <2> QED BY <2>2, <2>3, <2>5 DEF Exact
<1> QED BY <1>5, <1>6, <1>7 DEF LimitInv

-----------------------------------------------------------------------------
LEMMA LimitInitIs ==
  ASSUME LimitInit PROVE LimitInv
<1>1. PICK p \in FirstPlans :
        truth = [k \in Keys |-> CASE k = "team" -> FirstRow [] k = "plan" -> p
                                  [] k = "usage" -> FirstUsage]
  BY DEF LimitInit
<1>2. /\ clientPath \in BOOLEAN /\ suspended = FALSE /\ cache = << >>
      /\ check = [w \in Workers |-> IdleCheck] /\ op = IdleOp
      /\ unreported = 0 /\ claimed = {} /\ ops = 0
      /\ sent = FirstUsage /\ tried = {} /\ lagged = FALSE
  BY DEF LimitInit
<1>3. /\ DOMAIN truth = Keys /\ truth["team"] = FirstRow /\ truth["plan"] = p
      /\ truth["usage"] = FirstUsage /\ p \in Plans /\ FirstUsage \in Usages
  BY <1>1, LimitAssumption DEF Keys, Usages
<1>4. Partial(truth)
  BY <1>3, LimitAssumption DEF Partial, Keys, Value
<1>5. Partial(cache) /\ DOMAIN cache = {}
  BY <1>2, IdleIsTyped
<1>6. op \in [pc : {"idle", "reread", "set", "drop"}, drop : BOOLEAN, row : TeamRows] /\ op.pc = "idle"
  BY <1>2, LimitAssumption DEF IdleOp
<1>7. StoresTyped
  <2>1. unreported \in 0 .. MaxUnreported /\ ops \in 0 .. MaxOps
    BY <1>2, LimitAssumption
  <2>2. clientPath \in BOOLEAN /\ suspended \in BOOLEAN /\ lagged \in BOOLEAN
    BY <1>2
  <2>3. sent \in Usages /\ claimed \subseteq Notices /\ tried \subseteq Notices
    BY <1>2, <1>3
  <2> QED BY <1>3, <1>4, <1>5, <1>6, <2>1, <2>2, <2>3 DEF StoresTyped
<1>8. DOMAIN check = Workers /\ \A w \in Workers : check[w] = IdleCheck
  BY <1>2
<1>9. ChecksTyped
  BY <1>8, IdleIsTyped DEF ChecksTyped
<1>10. SentIsCounted
  BY <1>2, <1>3, LimitAssumption DEF SentIsCounted
<1>11. Exact
  <2>1. OneCheck
    BY <1>8, IdleIsTyped DEF OneCheck
  <2>2. CachesTrue
    BY <1>5, <1>6 DEF CachesTrue
  <2> QED BY <1>8, <2>1, <2>2, IdleIsTyped DEF Exact
<1> QED BY <1>7, <1>9, <1>10, <1>11 DEF LimitInv

LEMMA LimitInvNext ==
  ASSUME LimitInv, [LimitNext]_limitVars PROVE LimitInv'
<1>1. CASE UNCHANGED limitVars
  <2>1. UNCHANGED << clientPath, truth, suspended, cache, check, op, unreported, claimed, ops,
                     sent, tried, lagged >>
    BY <1>1 DEF limitVars
  <2>2. StoresTyped' /\ SentIsCounted'
    BY <2>1 DEF LimitInv, StoresTyped, SentIsCounted, Partial
  <2>3. ~lagged' => Exact /\ CachesTrue' /\ OneCheck'
    BY <2>1 DEF LimitInv, Exact, OneCheck, CachesTrue
  <2> QED BY <2>1, <2>2, <2>3, OtherSteps
<1>2. ASSUME NEW w \in Workers, Begin(w) \/ WorkerStep(w) PROVE LimitInv'
  BY <1>2, BeginKeeps, ReadUserKeeps, GetKeeps, FetchKeeps, StoreKeeps, JudgeKeeps, ClaimKeeps,
     NoticeKeeps, RefuseKeeps, SendKeeps DEF WorkerStep
<1>3. CASE Report \/ SetTeam \/ AssignPlan \/ SetUserBlocked \/ OperatorStep
  BY <1>3, ReportKeeps, SetTeamKeeps, AssignPlanKeeps, SetUserBlockedKeeps, RereadKeeps,
     SetCachedKeeps, InvalidatePlanKeeps DEF OperatorStep
<1>4. ASSUME NEW k \in Keys, Expire(k) PROVE LimitInv'
  BY <1>4, ExpireKeeps
<1>5. ASSUME NEW months \in BOOLEAN, NewPeriod(months) PROVE LimitInv'
  BY <1>5, NewPeriodKeeps
<1>6. ASSUME NEW n \in Notices, CooldownEnds(n) PROVE LimitInv'
  BY <1>6, CooldownEndsKeeps
<1> QED BY <1>1, <1>2, <1>3, <1>4, <1>5, <1>6 DEF LimitNext

\* What was sent is over a limit only where what is counted is, too.
LEMMA OverGrows ==
  ASSUME LimitInv, unreported = 0, Over(sent) PROVE Over(truth["usage"])
<1>1. /\ sent.day \in Int /\ sent.month \in Int
      /\ truth["usage"].day \in Int /\ truth["usage"].month \in Int
      /\ sent.day <= truth["usage"].day /\ sent.month <= truth["usage"].month
  BY UsageIsTyped, LimitAssumption DEF LimitInv, SentIsCounted, Usages
<1>2. DayLimit(truth["team"], truth["plan"]) \in Int /\ MonthLimit(truth["plan"]) \in Int
  <2>1. truth["team"].cap \in Int /\ truth["plan"].day \in Int /\ truth["plan"].month \in Int
    BY UsageIsTyped, LimitAssumption DEF LimitInv
  <2> QED BY <2>1 DEF DayLimit, MonthLimit, Unlimited
<1>3. ASSUME NEW limit \in Int, NEW m \in Int, NEW n \in Int, m <= n, Exceeded(m, limit)
      PROVE  Exceeded(n, limit)
  BY <1>3 DEF Exceeded
<1> QED BY <1>1, <1>2, <1>3 DEF Over, OverDay, OverMonth

LEMMA SentWithinLimits ==
  ASSUME LimitInv, NEW w \in Workers, Send(w) PROVE lagged \/ (~Over(sent) /\ ~Blocked)
<1>1. SUFFICES ASSUME ~lagged PROVE ~Over(sent) /\ ~Blocked
  OBVIOUS
<1>2. check[w].pc = "send" /\ Exact /\ ProperCheck(check[w])
  BY <1>1, Worker DEF Send, CheckAt, LimitInv
<1>3. ~Over(truth["usage"]) /\ ~Blocked
  BY <1>2 DEF ProperCheck, Asking, Blocked
<1>4. unreported = 0
  BY <1>2 DEF Exact, OneCheck
<1> QED BY <1>3, <1>4, OverGrows

LEMMA RefusedWithCause ==
  ASSUME LimitInv, NEW w \in Workers, CheckAt(w, "refuse")
  PROVE  lagged \/ Blocked \/ Over(truth["usage"])
BY Worker DEF LimitInv, CheckAt, ProperCheck

LEMMA LimitInvSays ==
  ASSUME LimitInv PROVE LimitTypeOK
BY DEF LimitInv, StoresTyped, ChecksTyped, CheckTyped, LimitTypeOK

(* For every number of workers, every catalogue of plans and every bound:   *)
(* until checks, reports, requests or days overlap, a mail goes to SES only *)
(* when neither the rows' limits nor a block forbid it, and a mail is       *)
(* refused only for a limit or a block that is so, whatever the caches      *)
(* hold.                                                                    *)
THEOREM LimitsAreAlwaysExact == LimitSpec => LimitsAreExact
<1>1. LimitSpec => []LimitInv
  BY LimitInitIs, LimitInvNext, PTL DEF LimitSpec
<1>2. LimitInv => LimitTypeOK
  BY LimitInvSays
<1>3. LimitInv => \A w \in Workers : Send(w) => lagged \/ ~Over(sent)
  BY SentWithinLimits
<1>4. LimitInv => \A w \in Workers :
          /\ Send(w) => lagged \/ ~Blocked
          /\ Refuse(w) /\ CheckAt(w, "refuse") => lagged \/ Blocked \/ Over(truth["usage"])
  BY SentWithinLimits, RefusedWithCause
<1> QED BY <1>1, <1>2, <1>3, <1>4, PTL DEF LimitsAreExact, KeepsToPlan, RefusedForCause
=============================================================================
