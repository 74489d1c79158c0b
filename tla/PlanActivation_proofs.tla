----------------------- MODULE PlanActivation_proofs -----------------------
(***************************************************************************)
(* The manual billing cycle for any number of clients, teams, plans and    *)
(* callers: periods are regular, nothing that was paid or decided is taken *)
(* back, and the job suspends whom it should.                              *)
(*                                                                         *)
(* Four facts carry the proof.  An operation sees the day it began on, so  *)
(* what it activates ends later than anything the job finds due (OfToday). *)
(* A request an operation holds was pending today, so the job holds none   *)
(* of them (DueIsUnheld).  A tick that has read its rows has them all in   *)
(* hand (Closing, Noticed).  While nothing has overlapped an operation is  *)
(* alone, and what it read is what there is (Alone, ReadIsTrue).           *)
(***************************************************************************)
EXTENDS PlanActivation, FiniteSetTheorems, WellFoundedInduction, TLAPS

(***************************************************************************)
(* Two hypotheses of theorems below.  That every period is longer than the *)
(* final notice: time is counted in days, and a period of one day that     *)
(* begins after a tick is closed by the next, which in the code comes some *)
(* hours before its end and announces it.  And that a client is in         *)
(* one team: a suspension is of the client, a period of one team.          *)
(***************************************************************************)
PeriodsOutlastNotice ==
  DefaultDays > FinalDays /\ \A d \in Lengths : d = 0 \/ d > FinalDays

ClientsHaveOneTeam == \A m, n \in Members : m[2] = n[2] => m = n

Shortest == IF PeriodsOutlastNotice THEN FinalDays + 1 ELSE 1

-----------------------------------------------------------------------------
(* What an operation may be doing                                          *)

Activations == {"approve", "assign", "pay"}
BeforeWrite == {"start", "peek", "activate"}
Settling == {"void", "find", "record"}

WellFormed(k) ==
  /\ k \in Call
  /\ \/ k = Idle
     \/ k.op = "create" /\ k.step = "insert"
     \/ k.op \in {"cancel", "reject"} /\ k.step = "decline" /\ k.r \in Requests
     \/ k.op \in Activations /\ k.step \in BeforeWrite \cup Settling \cup {"return"}
     \/ k.op = "issue" /\ k.step \in {"start", "bill"}
     \/ k.op = "void" /\ k.step = "voidOne" /\ k.i \in Invoices
  /\ k.op = "approve" => k.r \in Requests
  /\ k.op = "pay" => k.i \in Invoices
  /\ k.op \in {"pay", "issue"} \/ k.step \in Settling \cup {"peek"} => k.target # NoUser
  /\ k.target # NoUser => <<k.team, k.target>> \in Members
  /\ k.days = 0 \/ k.days >= Shortest
  /\ k.op = "issue" => k.days >= Shortest

\* It will insert a request, it may create an invoice, it is about to write r.
WillInsert(k) ==
  \/ k.op = "create"
  \/ k.op \in {"assign", "pay"} /\ k.step \in BeforeWrite
WillBill(k) == k.op \in Activations \cup {"issue"}
Holds(k, r) ==
  /\ k.r = r
  /\ k.step = "decline" \/ (k.op = "approve" /\ k.step \in BeforeWrite)

Busy == {c \in Callers : call[c] # Idle}
Inserting == {c \in Callers : WillInsert(call[c])}
Charging == {c \in Callers : WillBill(call[c])}
Held(r) == \E c \in Callers : Holds(call[c], r)

-----------------------------------------------------------------------------
(* The invariant                                                           *)

Accounts == [plan : Plans \cup {NoPlan}, blocked : BOOLEAN, bySystem : BOOLEAN]
Entry == [r : Requests, expires : Nat, reviewed : Nat]

JobFormed ==
  /\ job \in [step : {"idle", "first", "final", "expire"}, rows : SUBSET Entry,
              r : 0..MaxRequests]
  /\ job.step = "idle" => job = Resting
  /\ job.step = "expire" => job.r = 0
  /\ job # Resting => ticked

Typed ==
  /\ today \in 0..MaxDay /\ ticked \in BOOLEAN
  /\ crashes \in 0..MaxDisturbances /\ overlapped \in BOOLEAN
  /\ req \in [Requests -> Row] /\ inv \in [Invoices -> Invoice]
  /\ user \in [Users -> Accounts]
  /\ teamPlan \in [Teams -> Plans \cup {NoPlan}]
  /\ call \in [Callers -> Call] /\ \A c \in Callers : WellFormed(call[c])
  /\ JobFormed
  /\ manual \in [Users -> {"untouched", "blocked", "unblocked"}]

\* Rows are numbered without gaps, and there is room for what is under way.
Numbered(rows) == Used(rows) = 1..Cardinality(Used(rows))
RoomKept ==
  /\ Numbered(req) /\ Numbered(inv) /\ IsFiniteSet(Busy)
  /\ Cardinality(Used(req)) + Cardinality(Inserting) <= MaxRequests
  /\ Cardinality(Used(inv)) + Cardinality(Charging) <= MaxInvoices
  /\ \A c \in Callers :
       /\ call[c].step = "record" => call[c].found = 0 \/ call[c].found \in Used(inv)
       /\ call[c].step = "voidOne" => call[c].i \in Used(inv)

Running(r) == req[r].status = "APPROVED" /\ req[r].expires # NoExpiry

\* A period, an invoice and what the tick read of one last long enough.
LastLong ==
  /\ \A r \in Requests : Running(r) => req[r].expires >= req[r].reviewed + Shortest
  /\ \A i \in Invoices : inv[i].status # "none" => inv[i].end >= inv[i].start + Shortest
  /\ \A row \in job.rows : row.expires >= row.reviewed + Shortest

\* Requests are of members.
OfMembers ==
  \A r \in Requests : req[r].target # NoUser => <<req[r].team, req[r].target>> \in Members

\* An operation starts no period before today, and a request it holds is not
\* one that ends soon.
OfToday ==
  /\ \A c \in Callers : call[c].step \in {"peek", "activate", "bill"} =>
                        call[c].start >= today
  /\ \A c \in Callers, r \in Requests : Holds(call[c], r) =>
        /\ req[r].status # "none"
        /\ Running(r) => req[r].expires >= today + Shortest

\* The tick has each row in hand once.
RowsAreDistinct ==
  /\ \A row, other \in job.rows : row.r = other.r => row = other
  /\ \A row \in job.rows : row.r # job.r /\ req[row.r].status # "none"
  /\ job.r # 0 => req[job.r].status # "none"

\* What the tick is about to close has ended, and no operation holds it.
DueIsUnheld ==
  job.step = "expire" => \A row \in job.rows :
     /\ req[row.r].status \in {"APPROVED", "EXPIRED"} /\ ~Held(row.r)
     /\ req[row.r].expires = row.expires /\ row.expires \in 1..today

\* Periods are closed by the tick of their last day, or of the next day if a
\* tick died; while the tick closes them, what is left is in its hands.
Closing ==
  \A r \in Requests : Running(r) =>
     /\ req[r].expires + crashes >= today
     /\ ticked /\ job = Resting => req[r].expires + crashes > today
     /\ job.step = "expire" =>
          req[r].expires > today \/ \E row \in job.rows : row.r = r

\* A reminder that was mailed is recorded, is being recorded, or its tick died.
RemindersRecorded ==
  /\ \A r \in Requests :
       /\ req[r].mails <= crashes + (IF req[r].reminded THEN 1 ELSE 0)
                                  + (IF job.step = "first" /\ job.r = r THEN 1 ELSE 0)
       /\ req[r].finals <= crashes + (IF req[r].finalReminded THEN 1 ELSE 0)
                                   + (IF job.step = "final" /\ job.r = r THEN 1 ELSE 0)
  /\ job.step = "first" => /\ \A row \in job.rows : ~req[row.r].reminded
                           /\ job.r # 0 => ~req[job.r].reminded
  /\ job.step = "final" => /\ \A row \in job.rows : ~req[row.r].finalReminded
                           /\ job.r # 0 => ~req[job.r].finalReminded

PeriodsInv ==
  /\ LastLong /\ OfMembers /\ OfToday /\ OnePeriodPerTarget
  /\ RowsAreDistinct /\ DueIsUnheld /\ Closing /\ RemindersRecorded

\* A final notice is recorded once it was sent, and no operation takes back
\* what it announces.  While no tick has died, a period no final notice was
\* sent of ends after the ticks that are still to read it.
NoticeCounted == \A r \in Requests : req[r].finalReminded => req[r].finals >= 1

Announcing(r) == req[r].status \in {"APPROVED", "EXPIRED"} /\ ~Held(r)
NoticeInHand ==
  job.step = "final" => /\ \A row \in job.rows : Announcing(row.r)
                        /\ job.r # 0 => Announcing(job.r) /\ req[job.r].finals >= 1

Unannounced(r) == Running(r) /\ req[r].finals = 0
NoticeAhead ==
  crashes = 0 => \A r \in Requests : Unannounced(r) =>
     /\ req[r].expires > today
     /\ (ticked /\ job = Resting) \/ job.step = "expire" => req[r].expires > today + 1
     /\ job.step = "final" =>
          req[r].expires > today + 1 \/ \E row \in job.rows : row.r = r

Noticed == PeriodsOutlastNotice => NoticeCounted /\ NoticeInHand /\ NoticeAhead

\* Nothing has overlapped: an operation or the tick is alone,
Alone ==
  ~overlapped => /\ \A c, d \in Callers : call[c] # Idle /\ call[d] # Idle => c = d
                 /\ job # Resting => \A c \in Callers : call[c] = Idle

OpenFor(k) == {i \in OpenInvoices(k.target) : inv[i].plan = k.plan}

\* and what it has read is still true.
ReadIsTrue(k) ==
  /\ \A r \in Requests : Holds(k, r) => req[r].status = "PENDING"
  /\ k.op \in Activations /\ k.step \in {"peek", "activate"} =>
       \A r \in Requests :
          (/\ req[r].status = "APPROVED" /\ req[r].team = k.team
           /\ req[r].target = k.target /\ req[r].plan = k.plan
           /\ req[r].expires > today) => k.start >= req[r].expires
  /\ k.step = "activate" /\ k.target # NoUser =>
       k.lift = (user[k.target].blocked /\ user[k.target].bySystem)
  /\ k.op = "pay" /\ k.step \in BeforeWrite \cup Settling => k.i \in OpenFor(k)
  /\ k.step = "record" => IF k.found = 0 THEN OpenFor(k) = {} ELSE k.found \in OpenFor(k)
  /\ k.step = "voidOne" => inv[k.i].status = "ISSUED"

LoneInv ==
  /\ Alone
  /\ ~overlapped => \A c \in Callers : ReadIsTrue(call[c])
  /\ ~overlapped /\ job.step = "expire" =>
       \A row \in job.rows : req[row.r].status = "APPROVED"

\* A period of the client's has ended for good.
HasEnded(u) ==
  \E r \in Requests : req[r].target = u /\ req[r].status = "EXPIRED" /\ ~Held(r)

\* The job suspends, and a payment unsuspends, whose period ended.
BlocksAreTold ==
  /\ \A u \in Users : user[u].bySystem => HasEnded(u)
  /\ \A c \in Callers : call[c].lift => HasEnded(call[c].target)
  /\ \A u \in Users : manual[u] = "blocked" => user[u].blocked \/ HasEnded(u)

ActInv == Typed /\ RoomKept /\ PeriodsInv /\ Noticed /\ LoneInv
BlockInv == BlocksAreTold /\ NoFreeRide
SuspensionInv == ClientsHaveOneTeam => PaidUserNotSuspended

-----------------------------------------------------------------------------
(* Constants and records                                                   *)

LEMMA ConstantsFit ==
  /\ Shortest \in Nat \ {0} /\ DefaultDays >= Shortest
  /\ \A d \in Lengths : d \in Nat /\ (d = 0 \/ d >= Shortest)
  /\ {ReminderDays, FinalDays, DefaultDays} \subseteq Nat \ {0}
  /\ PeriodsOutlastNotice => Shortest = FinalDays + 1
  BY ActivationAssumption DEF Shortest, PeriodsOutlastNotice

LEMMA SomeTeam ==
  NoRow.team \in Teams
  <1>1. (CHOOSE t \in Teams : TRUE) \in Teams
    BY ActivationAssumption
  <1> QED
    BY <1>1 DEF NoRow

LEMMA RecordsFit ==
  /\ NoRow \in Row /\ NoInvoice \in Invoice /\ Idle \in Call
  /\ WellFormed(Idle) /\ ~WillInsert(Idle) /\ ~WillBill(Idle)
  /\ \A r : ~Holds(Idle, r)
  <1>1. NoRow.team \in Teams /\ FreePlan \in Plans /\ NoUser \in Targets
    BY SomeTeam, ActivationAssumption DEF Targets
  <1>2. MaxRequests \in Nat /\ MaxInvoices \in Nat
    BY ActivationAssumption
  <1>3. NoRow \in Row
    BY <1>1 DEF NoRow, Row, Statuses, NoExpiry
  <1>4. NoInvoice \in Invoice
    BY <1>1, <1>2 DEF NoInvoice, Invoice
  <1>5. Idle \in Call
    BY <1>1, <1>2 DEF Idle, Call, OpNames, Steps
  <1>6. WellFormed(Idle)
    BY <1>5 DEF WellFormed, Idle, Settling
  <1>7. ~WillInsert(Idle) /\ ~WillBill(Idle) /\ \A r : ~Holds(Idle, r)
    BY DEF Idle, WillInsert, WillBill, Holds, Activations
  <1> QED
    BY <1>3, <1>4, <1>5, <1>6, <1>7

(***************************************************************************)
(* One caller's record changes and the others stay.                        *)
(***************************************************************************)
LEMMA CallBecomes ==
  ASSUME Typed, NEW c \in Callers, NEW k, WellFormed(k),
         call' = [call EXCEPT ![c] = k]
  PROVE  /\ call' \in [Callers -> Call] /\ \A d \in Callers : WellFormed(call'[d])
         /\ call'[c] = k /\ \A d \in Callers \ {c} : call'[d] = call[d]
  BY DEF Typed, WellFormed

LEMMA CallIsFormed ==
  ASSUME Typed, NEW c \in Callers
  PROVE  /\ WellFormed(call[c]) /\ call[c] \in Call
         /\ call[c].team \in Teams /\ call[c].target \in Targets
         /\ call[c].plan \in Plans /\ call[c].days \in Nat
         /\ call[c].start \in Nat /\ call[c].lift \in BOOLEAN
         /\ call[c].r \in 0..MaxRequests /\ call[c].i \in 0..MaxInvoices
         /\ call[c].found \in 0..MaxInvoices
  BY DEF Typed, Call

-----------------------------------------------------------------------------
(* How an operation begins                                                 *)

\* What a new operation's record is: it holds pending requests alone, pays
\* and voids open invoices, and has read nothing else yet.
Opening(to) ==
  /\ WellFormed(to) /\ to.op \in OpNames
  /\ to.step \in {"insert", "decline", "start", "voidOne"} /\ to.lift = FALSE
  /\ \A r \in Requests : Holds(to, r) => req[r].status = "PENDING"
  /\ to.op = "pay" => to.i \in OpenFor(to)
  /\ to.step = "voidOne" => inv[to.i].status = "ISSUED"

Begins(c) == \E to : Begin(c, to) /\ Opening(to)
Blocks(c) == \E u \in Users, b \in BOOLEAN : SetUserBlocked(c, u, b)

LEMMA MembersFit ==
  ASSUME NEW m \in Members
  PROVE  m[1] \in Teams /\ m[2] \in Targets /\ m[2] # NoUser /\ <<m[1], m[2]>> \in Members
  BY ActivationAssumption DEF Targets

LEMMA StartsAreOpenings ==
  ASSUME Typed, PeriodsInv, NEW c \in Callers, CallStarts(c)
  PROVE  Begins(c) \/ Blocks(c)
  <1> USE DEF OpNames
  <1>n. MaxRequests \in Nat /\ MaxInvoices \in Nat /\ 0 \in 0..MaxRequests
          /\ 0 \in 0..MaxInvoices /\ Requests \subseteq 0..MaxRequests
          /\ Invoices \subseteq 0..MaxInvoices
    BY ActivationAssumption DEF Requests, Invoices
  <1>t. /\ NoRow.team \in Teams /\ NoUser \in Targets /\ FreePlan \in Plans
        /\ Priced \subseteq Plans
    BY SomeTeam, ActivationAssumption DEF Targets
  <1>1. ASSUME NEW tu \in Members, NEW p \in Plans, CreateRequest(c, tu[1], tu[2], p)
        PROVE  Begins(c)
    <2> DEFINE to == [Idle EXCEPT !.op = "create", !.step = "insert",
                                  !.team = tu[1], !.target = tu[2], !.plan = p]
    <2>1. /\ to.op = "create" /\ to.step = "insert" /\ to.team = tu[1]
          /\ to.target = tu[2] /\ to.plan = p /\ to.days = 0 /\ to.lift = FALSE
          /\ to.r = 0 /\ to.i = 0
      BY DEF Idle
    <2>2. to \in Call
      BY <1>n, <1>t, MembersFit DEF Call, Idle, Steps
    <2>3. Begin(c, to)
      BY <1>1 DEF CreateRequest
    <2> HIDE DEF to
    <2>4. WellFormed(to)
      BY <2>1, <2>2, MembersFit DEF WellFormed, Settling
    <2> QED
      BY <2>1, <2>3, <2>4 DEF Begins, Opening, Holds
  <1>2. ASSUME NEW r \in Requests, NEW op \in {"cancel", "reject"}, Decline(c, r, op)
        PROVE  Begins(c)
    <2> DEFINE to == [Idle EXCEPT !.op = op, !.step = "decline", !.r = r]
    <2>1. /\ to.op = op /\ to.step = "decline" /\ to.target = NoUser
          /\ to.days = 0 /\ to.lift = FALSE /\ to.r = r /\ to.i = 0
      BY DEF Idle
    <2>2. to \in Call
      BY <1>n, <1>t DEF Call, Idle, Steps
    <2>3. Begin(c, to) /\ req[r].status = "PENDING"
      BY <1>2 DEF Decline
    <2> HIDE DEF to
    <2>4. WellFormed(to)
      BY <2>1, <2>2 DEF WellFormed, Settling
    <2> QED
      BY <2>1, <2>3, <2>4 DEF Begins, Opening, Holds
  <1>3. ASSUME NEW r \in Requests, NEW d \in Lengths, Approve(c, r, d)
        PROVE  Begins(c)
    <2> DEFINE to == [Idle EXCEPT !.op = "approve", !.step = "start", !.r = r,
                                  !.team = req[r].team, !.target = req[r].target,
                                  !.plan = req[r].plan, !.days = d]
    <2>1. /\ to.op = "approve" /\ to.step = "start" /\ to.team = req[r].team
          /\ to.target = req[r].target /\ to.days = d /\ to.lift = FALSE
          /\ to.r = r /\ to.i = 0
      BY DEF Idle
    <2>2. req[r] \in Row
      BY DEF Typed
    <2>3. to \in Call
      BY <1>n, <1>t, <2>2, ConstantsFit, ZenonT(60) DEF Call, Idle, Steps, Row
    <2>4. Begin(c, to) /\ req[r].status = "PENDING"
      BY <1>3 DEF Approve
    <2> HIDE DEF to
    <2>5. to.target # NoUser => <<to.team, to.target>> \in Members
      BY <2>1 DEF PeriodsInv, OfMembers
    <2>6. WellFormed(to)
      BY <2>1, <2>3, <2>5, ConstantsFit
      DEF WellFormed, Settling, Activations, BeforeWrite
    <2> QED
      BY <2>1, <2>4, <2>6 DEF Begins, Opening, Holds
  <1>4. ASSUME NEW t \in Teams, NEW u \in Targets, NEW p \in Plans, NEW d \in Lengths,
               ManualAssign(c, t, u, p, d)
        PROVE  Begins(c)
    <2> DEFINE to == [Idle EXCEPT !.op = "assign", !.step = "start",
                                  !.team = t, !.target = u, !.plan = p, !.days = d]
    <2>1. /\ to.op = "assign" /\ to.step = "start" /\ to.team = t /\ to.target = u
          /\ to.days = d /\ to.lift = FALSE /\ to.r = 0 /\ to.i = 0
      BY DEF Idle
    <2>2. to \in Call
      BY <1>n, <1>t, ConstantsFit DEF Call, Idle, Steps
    <2>3. Begin(c, to) /\ (u = NoUser \/ <<t, u>> \in Members)
      BY <1>4 DEF ManualAssign
    <2> HIDE DEF to
    <2>4. WellFormed(to)
      BY <2>1, <2>2, <2>3, ConstantsFit
      DEF WellFormed, Settling, Activations, BeforeWrite
    <2> QED
      BY <2>1, <2>3, <2>4 DEF Begins, Opening, Holds
  <1>5. ASSUME NEW i \in Invoices, RegisterInvoicePayment(c, i)
        PROVE  Begins(c)
    <2> DEFINE to == [Idle EXCEPT !.op = "pay", !.step = "start", !.i = i,
                                  !.team = inv[i].team, !.target = inv[i].user,
                                  !.plan = inv[i].plan, !.days = inv[i].end - inv[i].start]
    <2>1. /\ to.op = "pay" /\ to.step = "start" /\ to.team = inv[i].team
          /\ to.target = inv[i].user /\ to.plan = inv[i].plan
          /\ to.days = inv[i].end - inv[i].start /\ to.lift = FALSE
          /\ to.r = 0 /\ to.i = i
      BY DEF Idle
    <2>2. inv[i] \in Invoice
      BY DEF Typed
    <2>3. /\ Begin(c, to) /\ inv[i].status = "ISSUED" /\ inv[i].user # NoUser
          /\ <<inv[i].team, inv[i].user>> \in Members
      BY <1>5 DEF RegisterInvoicePayment
    <2>4. inv[i].end - inv[i].start \in Nat /\ inv[i].end - inv[i].start >= Shortest
      <3>1. inv[i].end >= inv[i].start + Shortest
        BY <2>3 DEF PeriodsInv, LastLong
      <3>2. inv[i].end \in Nat /\ inv[i].start \in Nat
        BY <2>2 DEF Invoice
      <3> QED
        BY <3>1, <3>2, ConstantsFit
    <2>5. to \in Call
      BY <1>n, <1>t, <2>2, <2>4, ZenonT(60) DEF Call, Idle, Steps, Invoice
    <2> HIDE DEF to
    <2>6. WellFormed(to)
      BY <2>1, <2>3, <2>4, <2>5 DEF WellFormed, Settling, Activations, BeforeWrite
    <2>7. i \in OpenFor(to)
      BY <2>1, <2>3 DEF OpenFor, OpenInvoices
    <2> QED
      BY <2>1, <2>3, <2>6, <2>7 DEF Begins, Opening, Holds
  <1>6. ASSUME NEW i \in Invoices, VoidInvoice(c, i)
        PROVE  Begins(c)
    <2> DEFINE to == [Idle EXCEPT !.op = "void", !.step = "voidOne", !.i = i]
    <2>1. /\ to.op = "void" /\ to.step = "voidOne" /\ to.target = NoUser
          /\ to.days = 0 /\ to.lift = FALSE /\ to.r = 0 /\ to.i = i
      BY DEF Idle
    <2>2. to \in Call
      BY <1>n, <1>t DEF Call, Idle, Steps
    <2>3. Begin(c, to) /\ inv[i].status = "ISSUED"
      BY <1>6 DEF VoidInvoice
    <2> HIDE DEF to
    <2>4. WellFormed(to)
      BY <2>1, <2>2 DEF WellFormed, Settling
    <2> QED
      BY <2>1, <2>3, <2>4 DEF Begins, Opening, Holds
  <1>7. ASSUME NEW tu \in Members, NEW p \in Plans, NEW d \in Lengths,
               IssueInvoice(c, tu[1], tu[2], p, d)
        PROVE  Begins(c)
    <2> DEFINE days == IF d = 0 THEN DefaultDays ELSE d
    <2> DEFINE to == [Idle EXCEPT !.op = "issue", !.step = "start",
                                  !.team = tu[1], !.target = tu[2], !.plan = p,
                                  !.days = days]
    <2>1. /\ to.op = "issue" /\ to.step = "start" /\ to.team = tu[1]
          /\ to.target = tu[2] /\ to.days = days /\ to.lift = FALSE
          /\ to.r = 0 /\ to.i = 0
      BY DEF Idle
    <2>2. days \in Nat /\ days >= Shortest
      BY ConstantsFit
    <2>3. Begin(c, to)
      BY <1>7 DEF IssueInvoice
    <2> HIDE DEF days
    <2>4. to \in Call
      BY <1>n, <1>t, <2>2, MembersFit DEF Call, Idle, Steps
    <2> HIDE DEF to
    <2>5. WellFormed(to)
      BY <2>1, <2>2, <2>4, MembersFit DEF WellFormed, Settling
    <2> QED
      BY <2>1, <2>3, <2>5 DEF Begins, Opening, Holds
  <1>8. ASSUME NEW u \in Users, NEW b \in BOOLEAN, SetUserBlocked(c, u, b)
        PROVE  Blocks(c)
    BY <1>8 DEF Blocks
  <1> QED
    BY <1>1, <1>2, <1>3, <1>4, <1>5, <1>6, <1>7, <1>8 DEF CallStarts

-----------------------------------------------------------------------------
(* What an operation reads                                                 *)

LEMMA LargestExists ==
  ASSUME NEW N \in Nat, NEW T \in SUBSET (1..N), T # {}
  PROVE  Latest(T) \in T /\ \A y \in T : y <= Latest(T)
  <1> DEFINE Less == { p \in Nat \X Nat : p[1] < p[2] }
             Left == { N - x : x \in T }
  <1>1. IsWellFoundedOn(Less, Nat)
    BY NatLessThanWellFounded DEF OpToRel
  <1>2. \E x \in Left : \A y \in Left : ~ (<< y, x >> \in Less)
    <2>1. Left \subseteq Nat
      <3>1. \A x \in T : N - x \in Nat
        OBVIOUS
      <3> QED
        BY <3>1
    <2>2. Left # {}
      <3>1. PICK x \in T : TRUE
        OBVIOUS
      <3>2. N - x \in Left
        BY <3>1
      <3> QED
        BY <3>2
    <2> HIDE DEF Left, Less
    <2> QED
      BY <1>1, <2>1, <2>2, WFMin
  <1>3. PICK x \in T : \A y \in T : ~ (<< N - y, N - x >> \in Less)
    BY <1>2
  <1>4. ASSUME NEW y \in T PROVE y <= x
    <2>1. << N - y, N - x >> \in Nat \X Nat
      OBVIOUS
    <2>2. ~ (N - y < N - x)
      BY <1>3, <2>1
    <2> QED
      BY <2>2
  <1> QED
    BY <1>4 DEF Latest

\* nextPeriodStart is today, or the end of the one period that runs.
LEMMA PeriodStartFits ==
  ASSUME Typed, OnePeriodPerTarget, NEW t, NEW u, NEW p
  PROVE  /\ NextPeriodStart(t, u, p) \in Nat /\ NextPeriodStart(t, u, p) >= today
         /\ \A r \in Requests :
              (/\ req[r].status = "APPROVED" /\ req[r].team = t /\ req[r].target = u
               /\ req[r].plan = p /\ req[r].expires > today)
                => NextPeriodStart(t, u, p) >= req[r].expires
  <1> DEFINE Current == {k \in Requests : /\ req[k].status = "APPROVED"
                                          /\ req[k].team = t /\ req[k].target = u
                                          /\ req[k].plan = p /\ req[k].expires > today}
             Ends == {req[r].expires : r \in Current}
  <1>1. NextPeriodStart(t, u, p) = IF Ends = {} THEN today ELSE Latest(Ends)
    BY DEF NextPeriodStart
  <1>2. today \in Nat /\ \A r \in Requests : req[r].expires \in Nat
    BY ActivationAssumption DEF Typed, Row
  <1>3. CASE Current = {}
    BY <1>1, <1>2, <1>3
  <1>4. CASE Current # {}
    <2>1. PICK r \in Current : TRUE
      BY <1>4
    <2>2. \A s \in Current : s = r
      BY <2>1 DEF OnePeriodPerTarget
    <2>3. Ends = {req[r].expires}
      BY <2>1, <2>2
    <2>4. Latest(Ends) = req[r].expires
      BY <2>3, <1>2 DEF Latest
    <2>5. NextPeriodStart(t, u, p) = req[r].expires
      BY <1>1, <2>3, <2>4
    <2>6. req[r].expires \in Nat /\ req[r].expires > today
      BY <1>2, <2>1
    <2>7. ASSUME NEW s \in Requests,
                 req[s].status = "APPROVED", req[s].team = t, req[s].target = u,
                 req[s].plan = p, req[s].expires > today
          PROVE  req[s].expires = req[r].expires
      BY <2>2, <2>7
    <2> QED
      BY <1>2, <2>5, <2>6, <2>7
  <1> QED
    BY <1>3, <1>4

\* What a step of an operation leaves alone in its record.
SameTask(k, m) ==
  /\ k.op = m.op /\ k.team = m.team /\ k.target = m.target /\ k.plan = m.plan
  /\ k.days = m.days /\ k.i = m.i

LEMMA GoesTo ==
  ASSUME Typed, NEW c \in Callers, NEW s \in Steps, Goto(c, s)
  PROVE  /\ call' = [call EXCEPT ![c] = call'[c]] /\ call'[c] \in Call
         /\ SameTask(call'[c], call[c]) /\ call'[c].step = s
         /\ call'[c].r = call[c].r /\ call'[c].start = call[c].start
         /\ call'[c].lift = call[c].lift /\ call'[c].found = call[c].found
  <1>1. call \in [Callers -> Call]
    BY DEF Typed
  <1>2. call' = [call EXCEPT ![c].step = s]
    BY DEF Goto
  <1>3. call[c] \in Call /\ call'[c] = [call[c] EXCEPT !.step = s]
    BY <1>1, <1>2
  <1> QED
    BY <1>1, <1>2, <1>3 DEF SameTask, Call

LEMMA PeriodStartIsRead ==
  ASSUME Typed, OnePeriodPerTarget, NEW c \in Callers, ReadPeriodStart(c)
  PROVE  /\ call' = [call EXCEPT ![c] = call'[c]] /\ call'[c] \in Call
         /\ SameTask(call'[c], call[c]) /\ call'[c].r = call[c].r
         /\ call'[c].lift = call[c].lift /\ call'[c].found = call[c].found
         /\ call'[c].start = NextPeriodStart(call[c].team, call[c].target, call[c].plan)
         /\ call'[c].step = IF call[c].op = "issue" THEN "bill"
                            ELSE IF call[c].target = NoUser THEN "activate" ELSE "peek"
  <1> DEFINE start == NextPeriodStart(call[c].team, call[c].target, call[c].plan)
             step == IF call[c].op = "issue" THEN "bill"
                     ELSE IF call[c].target = NoUser THEN "activate" ELSE "peek"
  <1>1. call \in [Callers -> Call] /\ call[c] \in Call
    BY DEF Typed
  <1>2. call' = [call EXCEPT ![c].start = start, ![c].step = step]
    BY DEF ReadPeriodStart
  <1>3. start \in Nat /\ step \in Steps
    BY PeriodStartFits DEF Steps
  <1> HIDE DEF start, step
  <1>4. call'[c] = [[call[c] EXCEPT !.start = start] EXCEPT !.step = step]
    BY <1>1, <1>2
  <1>5. [call[c] EXCEPT !.start = start] \in Call
    BY <1>1, <1>3 DEF Call
  <1>6. call'[c] \in Call
    BY <1>3, <1>4, <1>5 DEF Call
  <1>7. call' = [call EXCEPT ![c] = call'[c]]
    BY <1>1, <1>2, <1>4
  <1>8. /\ SameTask(call'[c], call[c]) /\ call'[c].r = call[c].r
        /\ call'[c].lift = call[c].lift /\ call'[c].found = call[c].found
        /\ call'[c].start = start /\ call'[c].step = step
    BY <1>1, <1>4 DEF SameTask, Call
  <1> QED
    BY <1>6, <1>7, <1>8 DEF start, step

LEMMA SuspensionIsRead ==
  ASSUME Typed, NEW c \in Callers, ReadSuspension(c)
  PROVE  /\ call' = [call EXCEPT ![c] = call'[c]] /\ call'[c] \in Call
         /\ SameTask(call'[c], call[c]) /\ call'[c].r = call[c].r
         /\ call'[c].start = call[c].start /\ call'[c].found = call[c].found
         /\ call'[c].step = "activate"
         /\ call'[c].lift = (user[call[c].target].blocked /\ user[call[c].target].bySystem)
  <1> DEFINE lift == user[call[c].target].blocked /\ user[call[c].target].bySystem
  <1>1. call \in [Callers -> Call] /\ call[c] \in Call
    BY DEF Typed
  <1>2. call' = [call EXCEPT ![c].lift = lift, ![c].step = "activate"]
    BY DEF ReadSuspension
  <1>3. lift \in BOOLEAN
    OBVIOUS
  <1> HIDE DEF lift
  <1>4. call'[c] = [[call[c] EXCEPT !.lift = lift] EXCEPT !.step = "activate"]
    BY <1>1, <1>2
  <1>5. [call[c] EXCEPT !.lift = lift] \in Call
    BY <1>1, <1>3 DEF Call
  <1>6. call'[c] \in Call
    BY <1>4, <1>5 DEF Call, Steps
  <1>7. call' = [call EXCEPT ![c] = call'[c]]
    BY <1>1, <1>2, <1>4
  <1>8. /\ SameTask(call'[c], call[c]) /\ call'[c].r = call[c].r
        /\ call'[c].start = call[c].start /\ call'[c].found = call[c].found
        /\ call'[c].lift = lift /\ call'[c].step = "activate"
    BY <1>1, <1>4 DEF SameTask, Call
  <1> QED
    BY <1>6, <1>7, <1>8 DEF lift

LEMMA OpenIsFound ==
  ASSUME Typed, NEW c \in Callers, FindOpen(c)
  PROVE  /\ call' = [call EXCEPT ![c] = call'[c]] /\ call'[c] \in Call
         /\ SameTask(call'[c], call[c]) /\ call'[c].r = call[c].r
         /\ call'[c].start = call[c].start /\ call'[c].lift = call[c].lift
         /\ call'[c].step = "record"
         /\ IF OpenFor(call[c]) = {} THEN call'[c].found = 0
            ELSE call'[c].found \in OpenFor(call[c])
  <1> DEFINE open == OpenFor(call[c])
             found == IF open = {} THEN 0 ELSE Latest(open)
  <1>1. call \in [Callers -> Call] /\ call[c] \in Call /\ MaxInvoices \in Nat
    BY ActivationAssumption DEF Typed
  <1>2. call' = [call EXCEPT ![c].step = "record", ![c].found = found]
    BY DEF FindOpen, OpenFor
  <1>3. open \in SUBSET (1..MaxInvoices)
    BY DEF OpenFor, OpenInvoices, Invoices
  <1>4. IF open = {} THEN found = 0 ELSE found \in open
    BY <1>1, <1>3, LargestExists
  <1>5. found \in 0..MaxInvoices
    BY <1>1, <1>3, <1>4
  <1> HIDE DEF open, found
  <1>6. call'[c] = [[call[c] EXCEPT !.step = "record"] EXCEPT !.found = found]
    BY <1>1, <1>2
  <1>7. [call[c] EXCEPT !.step = "record"] \in Call
    BY <1>1 DEF Call, Steps
  <1>8. call'[c] \in Call
    BY <1>5, <1>6, <1>7 DEF Call
  <1>9. call' = [call EXCEPT ![c] = call'[c]]
    BY <1>1, <1>2, <1>6
  <1>10. /\ SameTask(call'[c], call[c]) /\ call'[c].r = call[c].r
         /\ call'[c].start = call[c].start /\ call'[c].lift = call[c].lift
         /\ call'[c].found = found /\ call'[c].step = "record"
    BY <1>1, <1>6 DEF SameTask, Call
  <1> QED
    BY <1>4, <1>8, <1>9, <1>10 DEF open

-----------------------------------------------------------------------------
(* Room                                                                    *)

LEMMA FreshFits ==
  ASSUME NEW N \in Nat, NEW rows, DOMAIN rows = 1..N, Numbered(rows)
  PROVE  /\ Cardinality(Used(rows)) \in Nat
         /\ Cardinality(Used(rows)) < N =>
              Fresh(rows) \in 1..N /\ rows[Fresh(rows)].status = "none"
  <1>1. IsFiniteSet(Used(rows))
    <2>1. IsFiniteSet(1..N)
      BY FS_Interval
    <2>2. Used(rows) \subseteq 1..N
      BY DEF Used
    <2> QED
      BY <2>1, <2>2, FS_Subset
  <1>2. Cardinality(Used(rows)) \in Nat
    BY <1>1, FS_CardinalityType
  <1>3. Fresh(rows) = Cardinality(Used(rows)) + 1
    BY DEF Fresh
  <1>4. Fresh(rows) \notin Used(rows)
    BY <1>2, <1>3 DEF Numbered
  <1> QED
    BY <1>2, <1>3, <1>4 DEF Used

LEMMA FreshGrows ==
  ASSUME NEW N \in Nat, NEW rows, DOMAIN rows = 1..N, Numbered(rows),
         Cardinality(Used(rows)) < N,
         NEW after, DOMAIN after = 1..N, after[Fresh(rows)].status # "none",
         \A k \in (1..N) \ {Fresh(rows)} :
            (after[k].status = "none") <=> (rows[k].status = "none")
  PROVE  Numbered(after) /\ Cardinality(Used(after)) = Cardinality(Used(rows)) + 1
  <1> DEFINE n == Cardinality(Used(rows))
  <1>1. n \in Nat /\ Fresh(rows) = n + 1 /\ Fresh(rows) \in 1..N
    BY FreshFits DEF Fresh
  <1>2. Used(rows) = 1..n
    BY DEF Numbered
  <1>3. Used(after) = Used(rows) \cup {Fresh(rows)}
    BY <1>1 DEF Used
  <1>4. Used(after) = 1..(n + 1)
    BY <1>1, <1>2, <1>3
  <1>5. Cardinality(1..(n + 1)) = n + 1
    <2>1. 1 \in Int /\ n + 1 \in Int /\ ~(1 > n + 1) /\ (n + 1) - 1 + 1 = n + 1
      BY <1>1
    <2> HIDE DEF n
    <2>2. Cardinality(1..(n + 1)) = IF 1 > n + 1 THEN 0 ELSE (n + 1) - 1 + 1
      BY <2>1, FS_Interval
    <2> QED
      BY <2>1, <2>2
  <1> QED
    BY <1>4, <1>5 DEF Numbered

LEMMA UsedStays ==
  ASSUME NEW rows, NEW after, DOMAIN after = DOMAIN rows,
         \A k \in DOMAIN rows : (after[k].status = "none") <=> (rows[k].status = "none")
  PROVE  Used(after) = Used(rows)
  BY DEF Used

LEMMA CountsChange ==
  ASSUME NEW S, IsFiniteSet(S), NEW c
  PROVE  /\ IsFiniteSet(S \cup {c}) /\ IsFiniteSet(S \ {c})
         /\ Cardinality(S) \in Nat
         /\ Cardinality(S \cup {c}) \in Nat /\ Cardinality(S \ {c}) \in Nat
         /\ Cardinality(S \cup {c}) <= Cardinality(S) + 1
         /\ Cardinality(S \ {c}) <= Cardinality(S)
         /\ c \in S => Cardinality(S \ {c}) = Cardinality(S) - 1
                       /\ Cardinality(S \cup {c}) = Cardinality(S)
  <1>1. IsFiniteSet(S \cup {c}) /\ IsFiniteSet(S \ {c})
    BY FS_AddElement, FS_RemoveElement
  <1>2. /\ Cardinality(S) \in Nat /\ Cardinality(S \cup {c}) \in Nat
        /\ Cardinality(S \ {c}) \in Nat
    BY <1>1, FS_CardinalityType
  <1>3. CASE c \in S
    <2>1. S \cup {c} = S
      BY <1>3
    <2>2. Cardinality(S \ {c}) = Cardinality(S) - 1
      BY <1>3, FS_RemoveElement
    <2>3. Cardinality(S \cup {c}) = Cardinality(S)
      BY <2>1
    <2> HIDE <2>1
    <2> QED
      BY <1>1, <1>2, <1>3, <2>2, <2>3
  <1>4. CASE c \notin S
    <2>1. S \ {c} = S
      BY <1>4
    <2>2. Cardinality(S \cup {c}) = Cardinality(S) + 1
      BY <1>4, FS_AddElement
    <2> QED
      BY <1>1, <1>2, <1>4, <2>1, <2>2
  <1> QED
    BY <1>3, <1>4

LEMMA CountsFit ==
  ASSUME Typed, RoomKept
  PROVE  /\ Inserting \subseteq Busy /\ IsFiniteSet(Inserting)
         /\ Charging \subseteq Busy /\ IsFiniteSet(Charging)
         /\ Cardinality(Busy) \in Nat /\ Cardinality(Inserting) \in Nat
         /\ Cardinality(Charging) \in Nat
         /\ Cardinality(Inserting) <= Cardinality(Busy)
         /\ Cardinality(Charging) <= Cardinality(Busy)
         /\ Cardinality(Used(req)) \in Nat /\ Cardinality(Used(inv)) \in Nat
         /\ MaxRequests \in Nat /\ MaxInvoices \in Nat
         /\ DOMAIN req = 1..MaxRequests /\ DOMAIN inv = 1..MaxInvoices
  <1>1. Inserting \subseteq Busy /\ Charging \subseteq Busy
    BY RecordsFit DEF Inserting, Charging, Busy
  <1>2. /\ MaxRequests \in Nat /\ MaxInvoices \in Nat
        /\ DOMAIN req = 1..MaxRequests /\ DOMAIN inv = 1..MaxInvoices
    BY ActivationAssumption DEF Typed, Requests, Invoices
  <1>3. Cardinality(Used(req)) \in Nat /\ Cardinality(Used(inv)) \in Nat
    BY <1>2, FreshFits DEF RoomKept
  <1> QED
    BY <1>1, <1>2, <1>3, FS_Subset, FS_CardinalityType DEF RoomKept

\* A caller that will insert or charge finds room for the row.
LEMMA ThereIsRoom ==
  ASSUME Typed, RoomKept, NEW c \in Callers
  PROVE  /\ WillInsert(call[c]) =>
              /\ Cardinality(Used(req)) < MaxRequests
              /\ Fresh(req) \in Requests /\ req[Fresh(req)].status = "none"
         /\ WillBill(call[c]) =>
              /\ Cardinality(Used(inv)) < MaxInvoices
              /\ Fresh(inv) \in Invoices /\ inv[Fresh(inv)].status = "none"
  <1>1. ASSUME WillInsert(call[c])
        PROVE  Cardinality(Used(req)) < MaxRequests
    <2>1. Inserting # {}
      BY <1>1 DEF Inserting
    <2>2. Cardinality(Inserting) # 0
      BY <2>1, CountsFit, FS_EmptySet
    <2> QED
      BY <2>2, CountsFit, SMTT(30) DEF RoomKept
  <1>2. ASSUME WillBill(call[c])
        PROVE  Cardinality(Used(inv)) < MaxInvoices
    <2>1. Charging # {}
      BY <1>2 DEF Charging
    <2>2. Cardinality(Charging) # 0
      BY <2>1, CountsFit, FS_EmptySet
    <2> QED
      BY <2>2, CountsFit, SMTT(30) DEF RoomKept
  <1> QED
    BY <1>1, <1>2, CountsFit, FreshFits DEF RoomKept, Requests, Invoices

LEMMA CallersMove ==
  ASSUME Typed, RoomKept, NEW c \in Callers, NEW k, call' = [call EXCEPT ![c] = k]
  PROVE  /\ IsFiniteSet(Busy')
         /\ Inserting' = IF WillInsert(k) THEN Inserting \cup {c} ELSE Inserting \ {c}
         /\ Charging' = IF WillBill(k) THEN Charging \cup {c} ELSE Charging \ {c}
  <1>1. /\ call'[c] = k /\ \A d \in Callers \ {c} : call'[d] = call[d]
    BY DEF Typed
  <1>2. Busy' \subseteq Busy \cup {c}
    BY <1>1 DEF Busy
  <1>3. IsFiniteSet(Busy \cup {c})
    BY CountsChange DEF RoomKept
  <1>4. IsFiniteSet(Busy')
    BY <1>2, <1>3, FS_Subset
  <1>5. Inserting' = IF WillInsert(k) THEN Inserting \cup {c} ELSE Inserting \ {c}
    BY <1>1 DEF Inserting
  <1>6. Charging' = IF WillBill(k) THEN Charging \cup {c} ELSE Charging \ {c}
    BY <1>1 DEF Charging
  <1> QED
    BY <1>4, <1>5, <1>6

\* What a step leaves to those that will insert and charge: used' and the
\* counts are as large as they were, or a caller takes the room it held.
LEMMA RoomStays ==
  ASSUME Typed, RoomKept, NEW c \in Callers, NEW k, call' = [call EXCEPT ![c] = k],
         WillInsert(k) => WillInsert(call[c]), WillBill(k) => WillBill(call[c])
  PROVE  /\ IsFiniteSet(Busy')
         /\ Cardinality(Inserting') \in Nat /\ Cardinality(Charging') \in Nat
         /\ Cardinality(Inserting') <= Cardinality(Inserting)
         /\ Cardinality(Charging') <= Cardinality(Charging)
         /\ WillInsert(call[c]) /\ ~WillInsert(k) =>
              Cardinality(Inserting') = Cardinality(Inserting) - 1
         /\ WillBill(call[c]) /\ ~WillBill(k) =>
              Cardinality(Charging') = Cardinality(Charging) - 1
  <1>1. WillInsert(call[c]) => c \in Inserting
    BY DEF Inserting
  <1>2. WillBill(call[c]) => c \in Charging
    BY DEF Charging
  <1>3. /\ IsFiniteSet(Inserting) /\ IsFiniteSet(Charging)
        /\ Cardinality(Inserting) \in Nat /\ Cardinality(Charging) \in Nat
    BY CountsFit
  <1>4. /\ Cardinality(Inserting') \in Nat /\ Cardinality(Inserting') <= Cardinality(Inserting)
        /\ WillInsert(call[c]) /\ ~WillInsert(k) => Cardinality(Inserting') = Cardinality(Inserting) - 1
    <2>1. CASE WillInsert(k)
      <3>1. Inserting' = Inserting \cup {c} /\ c \in Inserting
        BY <1>1, <2>1, CallersMove
      <3>2. Inserting' = Inserting
        BY <3>1
      <3> QED
        BY <1>3, <2>1, <3>2
    <2>2. CASE ~WillInsert(k)
      <3>1. Inserting' = Inserting \ {c}
        BY <2>2, CallersMove
      <3> QED
        BY <1>3, <1>1, <3>1, CountsChange
    <2> QED
      BY <2>1, <2>2
  <1>5. /\ Cardinality(Charging') \in Nat /\ Cardinality(Charging') <= Cardinality(Charging)
        /\ WillBill(call[c]) /\ ~WillBill(k) => Cardinality(Charging') = Cardinality(Charging) - 1
    <2>1. CASE WillBill(k)
      <3>1. Charging' = Charging \cup {c} /\ c \in Charging
        BY <1>2, <2>1, CallersMove
      <3>2. Charging' = Charging
        BY <3>1
      <3> QED
        BY <1>3, <2>1, <3>2
    <2>2. CASE ~WillBill(k)
      <3>1. Charging' = Charging \ {c}
        BY <2>2, CallersMove
      <3> QED
        BY <1>3, <1>2, <3>1, CountsChange
    <2> QED
      BY <2>1, <2>2
  <1> QED
    BY <1>4, <1>5, CallersMove

-----------------------------------------------------------------------------
(* What the steps do to requests                                           *)

SameTerms(m, n) ==
  /\ m.team = n.team /\ m.target = n.target /\ m.plan = n.plan
  /\ m.expires = n.expires /\ m.reviewed = n.reviewed

SameNotices(m, n) ==
  /\ m.reminded = n.reminded /\ m.finalReminded = n.finalReminded
  /\ m.mails = n.mails /\ m.finals = n.finals

NoNotices(m) == /\ m.reminded = FALSE /\ m.finalReminded = FALSE
                /\ m.mails = 0 /\ m.finals = 0

LEMMA TodayIsNat ==
  ASSUME Typed
  PROVE  /\ today \in Nat /\ crashes \in Nat
         /\ today + 1 \in Nat /\ crashes + 1 \in Nat
  BY ActivationAssumption DEF Typed

\* An operation at a step is one that has that step.
LEMMA AtStepFits ==
  ASSUME Typed, NEW c \in Callers
  PROVE  /\ AtStep(c, "insert") => call[c].op = "create"
         /\ AtStep(c, "decline") =>
              call[c].op \in {"cancel", "reject"} /\ call[c].r \in Requests
         /\ AtStep(c, "start") => call[c].op \in Activations \cup {"issue"}
         /\ call[c].step \in {"peek", "activate"} \cup Settling \cup {"return"} =>
              call[c].op \in Activations
         /\ AtStep(c, "bill") => call[c].op = "issue"
         /\ AtStep(c, "voidOne") => call[c].op = "void" /\ call[c].i \in Invoices
         /\ call[c].op = "approve" => call[c].r \in Requests
         /\ call[c].step = "idle" => call[c] = Idle
  <1>1. Idle.op = "none" /\ Idle.step = "idle"
    BY DEF Idle
  <1>2. \/ call[c] = Idle
        \/ call[c].op = "create" /\ call[c].step = "insert"
        \/ /\ call[c].op \in {"cancel", "reject"} /\ call[c].step = "decline"
           /\ call[c].r \in Requests
        \/ /\ call[c].op \in Activations
           /\ call[c].step \in BeforeWrite \cup Settling \cup {"return"}
        \/ call[c].op = "issue" /\ call[c].step \in {"start", "bill"}
        \/ /\ call[c].op = "void" /\ call[c].step = "voidOne"
           /\ call[c].i \in Invoices
    BY CallIsFormed DEF WellFormed
  <1>3. call[c].op = "approve" => call[c].r \in Requests
    BY CallIsFormed DEF WellFormed
  <1> QED
    BY <1>1, <1>2, <1>3 DEF AtStep, Activations, BeforeWrite, Settling

LEMMA InsertDoes ==
  ASSUME Typed, RoomKept, NEW c \in Callers, InsertRequest(c), NEW r, r = Fresh(req)
  PROVE  /\ req' \in [Requests -> Row] /\ r \in Requests /\ req[r].status = "none"
         /\ req'[r].status = "PENDING" /\ req'[r].team = call[c].team
         /\ req'[r].target = call[c].target /\ NoNotices(req'[r])
         /\ \A q \in Requests \ {r} : req'[q] = req[q]
         /\ WillInsert(call[c])
  <1> DEFINE row == [NoRow EXCEPT !.status = "PENDING", !.team = call[c].team,
                                  !.target = call[c].target, !.plan = call[c].plan]
  <1>1. WillInsert(call[c]) /\ r \in Requests /\ req[r].status = "none"
    BY AtStepFits, ThereIsRoom DEF InsertRequest, WillInsert
  <1>2. req \in [Requests -> Row] /\ req' = [req EXCEPT ![r] = row]
    BY DEF Typed, InsertRequest
  <1>3. row \in Row
    BY CallIsFormed, RecordsFit DEF Row, Statuses
  <1>4. /\ row.status = "PENDING" /\ row.team = call[c].team
        /\ row.target = call[c].target /\ NoNotices(row)
    BY DEF NoRow, NoNotices
  <1> HIDE DEF row
  <1> QED
    BY <1>1, <1>2, <1>3, <1>4

LEMMA DeclineDoes ==
  ASSUME Typed, NEW c \in Callers, WriteDecline(c), NEW r, r = call[c].r
  PROVE  /\ req' \in [Requests -> Row] /\ r \in Requests /\ Holds(call[c], r)
         /\ req'[r].status \in {"CANCELLED", "REJECTED"}
         /\ req'[r].target = req[r].target /\ req'[r].team = req[r].team
         /\ SameNotices(req'[r], req[r])
         /\ \A q \in Requests \ {r} : req'[q] = req[q]
  <1> DEFINE status == IF call[c].op = "cancel" THEN "CANCELLED" ELSE "REJECTED"
  <1>1. r \in Requests /\ Holds(call[c], r)
    BY AtStepFits DEF WriteDecline, Holds, AtStep
  <1>2. req \in [Requests -> Row] /\ req[r] \in Row
    BY <1>1 DEF Typed
  <1>3. req' = [req EXCEPT ![r].status = status, ![r].reviewed = today]
    BY DEF WriteDecline
  <1>4. status \in {"CANCELLED", "REJECTED"}
    OBVIOUS
  <1> HIDE DEF status
  <1>5. req'[r] = [[req[r] EXCEPT !.status = status] EXCEPT !.reviewed = today]
    BY <1>1, <1>2, <1>3
  <1>6. [req[r] EXCEPT !.status = status] \in Row
    BY <1>2, <1>4 DEF Row, Statuses
  <1>7. req'[r] \in Row
    BY <1>5, <1>6, TodayIsNat, ZenonT(60) DEF Row
  <1>8. /\ req'[r].status = status /\ req'[r].target = req[r].target
        /\ req'[r].team = req[r].team /\ SameNotices(req'[r], req[r])
    BY <1>2, <1>5 DEF Row, SameNotices
  <1>9. \A q \in Requests \ {r} : req'[q] = req[q]
    BY <1>2, <1>3
  <1>10. req' \in [Requests -> Row]
    BY <1>1, <1>2, <1>3, <1>7, <1>9
  <1> QED
    BY <1>1, <1>4, <1>8, <1>9, <1>10

LEMMA ActivateMoves ==
  ASSUME Typed, RoomKept, NEW c \in Callers, Activate(c), NEW r, r = call'[c].r
  PROVE  /\ r \in Requests
         /\ \/ call[c].op = "approve" /\ Holds(call[c], r)
            \/ call[c].op \in {"assign", "pay"} /\ req[r].status = "none" /\ r = Fresh(req)
         /\ call' = [call EXCEPT ![c] = call'[c]] /\ call'[c] \in Call
         /\ SameTask(call'[c], call[c]) /\ call'[c].start = call[c].start
         /\ call'[c].lift = call[c].lift /\ call'[c].found = call[c].found
         /\ call'[c].step = IF call[c].target = NoUser THEN "return" ELSE "void"
  <1> DEFINE s == IF call[c].op = "approve" THEN call[c].r ELSE Fresh(req)
             step == IF call[c].target = NoUser THEN "return" ELSE "void"
  <1>1. call \in [Callers -> Call] /\ call[c] \in Call
    BY DEF Typed
  <1>2. call' = [call EXCEPT ![c].r = s, ![c].step = step]
    BY DEF Activate
  <1>3. call[c].op \in Activations /\ call[c].step = "activate"
    BY AtStepFits DEF Activate, AtStep
  <1>4. \/ call[c].op = "approve" /\ s \in Requests /\ Holds(call[c], s)
        \/ /\ call[c].op \in {"assign", "pay"} /\ s \in Requests
           /\ req[s].status = "none" /\ s = Fresh(req)
    BY <1>3, AtStepFits, ThereIsRoom DEF Holds, BeforeWrite, WillInsert, Activations
  <1>5. step \in Steps
    BY DEF Steps
  <1>6. Requests \subseteq 0..MaxRequests
    BY ActivationAssumption DEF Requests
  <1>s. step = IF call[c].target = NoUser THEN "return" ELSE "void"
    OBVIOUS
  <1> HIDE DEF s, step
  <1>7. call'[c] = [[call[c] EXCEPT !.r = s] EXCEPT !.step = step]
    BY <1>1, <1>2
  <1>8. [call[c] EXCEPT !.r = s] \in Call
    BY <1>1, <1>4, <1>6 DEF Call
  <1>9. call'[c] \in Call
    BY <1>5, <1>7, <1>8 DEF Call
  <1>10. call' = [call EXCEPT ![c] = call'[c]]
    BY <1>1, <1>2, <1>7
  <1>11. /\ SameTask(call'[c], call[c]) /\ call'[c].start = call[c].start
         /\ call'[c].lift = call[c].lift /\ call'[c].found = call[c].found
         /\ call'[c].step = step /\ call'[c].r = s
    BY <1>1, <1>7 DEF SameTask, Call
  <1> QED
    BY <1>4, <1>9, <1>10, <1>11, <1>s

\* The rows an activation ends are those of the same team and target.
LEMMA ActivateDoes ==
  ASSUME Typed, RoomKept, OfToday, NEW c \in Callers, Activate(c), NEW r, r = call'[c].r
  PROVE  /\ req' \in [Requests -> Row]
         /\ req'[r].status = "APPROVED" /\ req'[r].team = call[c].team
         /\ req'[r].target = call[c].target /\ req'[r].plan = call[c].plan
         /\ req'[r].reviewed = today /\ NoNotices(req'[r])
         /\ req'[r].expires = (IF call[c].days = 0 THEN NoExpiry
                               ELSE call[c].start + call[c].days)
         /\ req'[r].expires # NoExpiry => req'[r].expires >= today + Shortest
         /\ \A q \in Requests \ {r} :
              IF /\ req[q].status = "APPROVED" /\ req[q].team = call[c].team
                 /\ req[q].target = call[c].target
              THEN /\ req'[q].status = "EXPIRED" /\ SameTerms(req'[q], req[q])
                   /\ SameNotices(req'[q], req[q])
              ELSE req'[q] = req[q]
  <1> DEFINE s == IF call[c].op = "approve" THEN call[c].r ELSE Fresh(req)
             expires == ComputeExpiresAt(call[c].start, call[c].days)
             row == [NoRow EXCEPT !.status = "APPROVED", !.team = call[c].team,
                                  !.target = call[c].target, !.plan = call[c].plan,
                                  !.reviewed = today, !.expires = expires,
                                  !.start = call[c].start]
  <1>1. r = s /\ r \in Requests
    <2>1. r \in Requests
      BY ActivateMoves
    <2>2. call' = [call EXCEPT ![c].r = s,
                     ![c].step = IF call[c].target = NoUser THEN "return" ELSE "void"]
      BY DEF Activate
    <2>3. call \in [Callers -> Call] /\ call[c] \in Call
      BY DEF Typed
    <2>4. call'[c].r = s
      BY <2>2, <2>3 DEF Call
    <2> QED
      BY <2>1, <2>4
  <1>2. req' = [q \in Requests |->
                  IF q = r THEN row
                  ELSE IF q \in Superseded(call[c].team, call[c].target, r)
                  THEN [req[q] EXCEPT !.status = "EXPIRED"]
                  ELSE req[q]]
    BY <1>1 DEF Activate
  <1>3. expires = IF call[c].days = 0 THEN NoExpiry ELSE call[c].start + call[c].days
    BY DEF ComputeExpiresAt
  <1>4. expires \in Nat /\ (expires # NoExpiry => expires >= today + Shortest)
    <2>1. call[c].days = 0 \/ call[c].days >= Shortest
      BY CallIsFormed DEF WellFormed
    <2>2. call[c].start >= today
      BY DEF OfToday, Activate, AtStep
    <2> HIDE DEF expires
    <2> QED
      BY <1>3, <2>1, <2>2, CallIsFormed, TodayIsNat, ConstantsFit DEF NoExpiry
  <1> HIDE DEF expires
  <1>5. row \in Row
    <2>1. [NoRow EXCEPT !.status = "APPROVED", !.team = call[c].team,
                        !.target = call[c].target, !.plan = call[c].plan] \in Row
      BY CallIsFormed, RecordsFit DEF Row, Statuses
    <2> QED
      BY <2>1, <1>4, TodayIsNat, CallIsFormed, ZenonT(60) DEF Row, NoRow
  <1>6. /\ row.status = "APPROVED" /\ row.team = call[c].team
        /\ row.target = call[c].target /\ row.plan = call[c].plan
        /\ row.reviewed = today /\ NoNotices(row) /\ row.expires = expires
    BY DEF NoRow, NoNotices
  <1> HIDE DEF row
  <1>7. req \in [Requests -> Row]
    BY DEF Typed
  <1>8. req'[r] = row
    BY <1>1, <1>2
  <1>9. ASSUME NEW q \in Requests \ {r}
        PROVE  /\ req'[q] \in Row
               /\ IF /\ req[q].status = "APPROVED" /\ req[q].team = call[c].team
                     /\ req[q].target = call[c].target
                  THEN /\ req'[q].status = "EXPIRED" /\ SameTerms(req'[q], req[q])
                       /\ SameNotices(req'[q], req[q])
                  ELSE req'[q] = req[q]
    <2>1. CASE /\ req[q].status = "APPROVED" /\ req[q].team = call[c].team
               /\ req[q].target = call[c].target
      <3>1. req'[q] = [req[q] EXCEPT !.status = "EXPIRED"]
        BY <1>2, <2>1 DEF Superseded
      <3>2. req[q] \in Row
        BY <1>7
      <3>3. req'[q] \in Row
        BY <3>1, <3>2 DEF Row, Statuses
      <3>4. /\ req'[q].status = "EXPIRED" /\ SameTerms(req'[q], req[q])
            /\ SameNotices(req'[q], req[q])
        BY <3>1, <3>2 DEF Row, SameTerms, SameNotices
      <3> QED
        BY <2>1, <3>3, <3>4
    <2>2. CASE ~(/\ req[q].status = "APPROVED" /\ req[q].team = call[c].team
                 /\ req[q].target = call[c].target)
      <3>1. req'[q] = req[q]
        BY <1>2, <2>2 DEF Superseded
      <3> QED
        BY <1>7, <2>2, <3>1
    <2> QED
      BY <2>1, <2>2
  <1>10. req' \in [Requests -> Row]
    BY <1>2, <1>5, <1>8, <1>9
  <1> QED
    BY <1>3, <1>4, <1>6, <1>8, <1>9, <1>10

-----------------------------------------------------------------------------
(* What the steps do to invoices                                           *)

\* Invoices keep their shape and length, and at most one is added.
InvoicesKept ==
  /\ inv' \in [Invoices -> Invoice]
  /\ \A i \in Invoices : inv'[i].status # "none" => inv'[i].end >= inv'[i].start + Shortest

\* One invoice is written: a used one, or the next there is room for.
LEMMA InvoiceIsWritten ==
  ASSUME Typed, RoomKept, LastLong, NEW i \in Invoices, NEW row \in Invoice,
         inv' = [inv EXCEPT ![i] = row], row.status # "none",
         row.end >= row.start + Shortest
  PROVE  /\ InvoicesKept /\ inv'[i] = row
         /\ \A j \in Invoices \ {i} : inv'[j] = inv[j]
         /\ i \in Used(inv) => Used(inv') = Used(inv)
         /\ i = Fresh(inv) /\ Cardinality(Used(inv)) < MaxInvoices =>
              /\ Numbered(inv') /\ Used(inv) \subseteq Used(inv')
              /\ Cardinality(Used(inv')) = Cardinality(Used(inv)) + 1
  <1>1. inv \in [Invoices -> Invoice]
    BY DEF Typed
  <1>2. inv'[i] = row /\ \A j \in Invoices \ {i} : inv'[j] = inv[j]
    BY <1>1
  <1>3. inv' \in [Invoices -> Invoice]
    BY <1>1
  <1>4. InvoicesKept
    BY <1>2, <1>3 DEF InvoicesKept, LastLong
  <1>5. i \in Used(inv) => Used(inv') = Used(inv)
    BY <1>1, <1>2, <1>3 DEF Used
  <1>6. ASSUME i = Fresh(inv), Cardinality(Used(inv)) < MaxInvoices
        PROVE  /\ Numbered(inv') /\ Used(inv) \subseteq Used(inv')
               /\ Cardinality(Used(inv')) = Cardinality(Used(inv)) + 1
    <2>1. /\ DOMAIN inv = 1..MaxInvoices /\ DOMAIN inv' = 1..MaxInvoices
          /\ MaxInvoices \in Nat /\ Numbered(inv)
      BY <1>1, <1>3, CountsFit DEF Invoices, RoomKept
    <2>2. inv'[Fresh(inv)].status # "none"
      BY <1>2, <1>6
    <2>3. \A k \in (1..MaxInvoices) \ {Fresh(inv)} :
             (inv'[k].status = "none") <=> (inv[k].status = "none")
      BY <1>2, <1>6 DEF Invoices
    <2>4. /\ Numbered(inv')
          /\ Cardinality(Used(inv')) = Cardinality(Used(inv)) + 1
      BY <1>6, <2>1, <2>2, <2>3, FreshGrows
    <2>5. Used(inv) \subseteq Used(inv')
      BY <1>1, <1>2, <1>3, <1>6, <2>2 DEF Used
    <2> QED
      BY <2>4, <2>5
  <1> QED
    BY <1>2, <1>4, <1>5, <1>6

LEMMA OthersAreVoided ==
  ASSUME Typed, LastLong, NEW c \in Callers, VoidOthers(c)
  PROVE  /\ InvoicesKept /\ Used(inv') = Used(inv)
         /\ \A i \in Invoices :
              /\ inv'[i].user = inv[i].user /\ inv'[i].plan = inv[i].plan
              /\ inv'[i].status = IF /\ inv[i].status = "ISSUED"
                                     /\ inv[i].user = call[c].target
                                     /\ inv[i].plan # call[c].plan
                                  THEN "VOID" ELSE inv[i].status
         /\ Goto(c, "find") \/ Goto(c, "return")
  <1>1. inv \in [Invoices -> Invoice]
    BY DEF Typed
  <1>2. inv' = [i \in Invoices |->
                  IF i \in OpenInvoices(call[c].target) /\ inv[i].plan # call[c].plan
                  THEN [inv[i] EXCEPT !.status = "VOID"] ELSE inv[i]]
    BY DEF VoidOthers
  <1>3. ASSUME NEW i \in Invoices
        PROVE  /\ inv'[i] \in Invoice
               /\ inv'[i].start = inv[i].start /\ inv'[i].end = inv[i].end
               /\ inv'[i].user = inv[i].user /\ inv'[i].plan = inv[i].plan
               /\ inv'[i].status = IF /\ inv[i].status = "ISSUED"
                                      /\ inv[i].user = call[c].target
                                      /\ inv[i].plan # call[c].plan
                                   THEN "VOID" ELSE inv[i].status
    <2>1. inv[i] \in Invoice
      BY <1>1
    <2>2. CASE i \in OpenInvoices(call[c].target) /\ inv[i].plan # call[c].plan
      <3>1. inv'[i] = [inv[i] EXCEPT !.status = "VOID"]
        BY <1>2, <2>2
      <3> QED
        BY <2>1, <2>2, <3>1 DEF Invoice, OpenInvoices
    <2>3. CASE ~(i \in OpenInvoices(call[c].target) /\ inv[i].plan # call[c].plan)
      <3>1. inv'[i] = inv[i]
        BY <1>2, <2>3
      <3> QED
        BY <2>1, <2>3, <3>1 DEF OpenInvoices
    <2> QED
      BY <2>2, <2>3
  <1>4. inv' \in [Invoices -> Invoice]
    BY <1>2, <1>3
  <1>5. \A i \in Invoices : (inv'[i].status = "none") <=> (inv[i].status = "none")
    BY <1>3
  <1>6. Used(inv') = Used(inv)
    BY <1>1, <1>4, <1>5, UsedStays
  <1>7. InvoicesKept
    BY <1>3, <1>4, <1>5 DEF InvoicesKept, LastLong
  <1>8. Goto(c, "find") \/ Goto(c, "return")
    BY DEF VoidOthers
  <1> QED
    BY <1>3, <1>6, <1>7, <1>8

LEMMA PaymentIsRecorded ==
  ASSUME Typed, RoomKept, LastLong, NEW c \in Callers, RecordPayment(c),
         NEW i, i = IF call[c].found = 0 THEN Fresh(inv) ELSE call[c].found
  PROVE  /\ InvoicesKept /\ Numbered(inv') /\ Used(inv) \subseteq Used(inv')
         /\ Cardinality(Used(inv')) <= Cardinality(Used(inv)) + 1
         /\ WillBill(call[c]) /\ i \in Invoices /\ inv'[i].status = "PAID"
         /\ \A j \in Invoices \ {i} : inv'[j] = inv[j]
         /\ call[c].found = 0 => inv[i].status = "none"
  <1> DEFINE expires == ComputeExpiresAt(call[c].start, call[c].days)
             end == IF expires = NoExpiry THEN call[c].start + DefaultDays ELSE expires
             row == [status |-> "PAID", user |-> call[c].target, team |-> call[c].team,
                     plan |-> call[c].plan, for |-> call[c].r,
                     start |-> call[c].start, end |-> end]
  <1>1. WillBill(call[c])
    BY AtStepFits DEF RecordPayment, AtStep, Settling, WillBill
  <1>2. inv' = [inv EXCEPT ![i] = row]
    BY DEF RecordPayment
  <1>3. end \in Nat /\ end >= call[c].start + Shortest
    <2>1. call[c].days = 0 \/ call[c].days >= Shortest
      BY CallIsFormed DEF WellFormed
    <2> QED
      BY <2>1, CallIsFormed, ConstantsFit DEF ComputeExpiresAt, NoExpiry
  <1> HIDE DEF end
  <1>4. row \in Invoice
    BY <1>3, CallIsFormed DEF Invoice
  <1>5. row.status = "PAID" /\ row.status # "none" /\ row.end >= row.start + Shortest
    BY <1>3
  <1> HIDE DEF row
  <1>6. /\ Numbered(inv) /\ Cardinality(Used(inv)) < MaxInvoices
        /\ Cardinality(Used(inv)) \in Nat
    BY <1>1, ThereIsRoom, CountsFit DEF RoomKept
  <1>7. CASE call[c].found = 0
    <2>1. i = Fresh(inv) /\ i \in Invoices /\ inv[i].status = "none"
      BY <1>1, <1>7, ThereIsRoom
    <2>2. /\ InvoicesKept /\ inv'[i] = row
          /\ \A j \in Invoices \ {i} : inv'[j] = inv[j]
          /\ i = Fresh(inv) /\ Cardinality(Used(inv)) < MaxInvoices =>
               /\ Numbered(inv') /\ Used(inv) \subseteq Used(inv')
               /\ Cardinality(Used(inv')) = Cardinality(Used(inv)) + 1
      BY <1>2, <1>4, <1>5, <2>1, InvoiceIsWritten
    <2> QED
      BY <1>1, <1>5, <1>6, <1>7, <2>1, <2>2
  <1>8. CASE call[c].found # 0
    <2>1. i \in Used(inv) /\ i \in Invoices
      BY <1>8 DEF RoomKept, RecordPayment, AtStep, Used, Typed
    <2>2. Used(inv') = Used(inv) /\ InvoicesKept /\ inv'[i] = row
            /\ \A j \in Invoices \ {i} : inv'[j] = inv[j]
      BY <1>2, <1>4, <1>5, <2>1, InvoiceIsWritten, ZenonT(60)
    <2>3. Numbered(inv')
      BY <1>6, <2>2 DEF Numbered
    <2> QED
      BY <1>1, <1>5, <1>6, <1>8, <2>1, <2>2, <2>3
  <1> QED
    BY <1>7, <1>8

LEMMA IssuedIsCreated ==
  ASSUME Typed, RoomKept, LastLong, NEW c \in Callers, CreateIssued(c)
  PROVE  /\ InvoicesKept /\ Numbered(inv') /\ Used(inv) \subseteq Used(inv')
         /\ Cardinality(Used(inv')) <= Cardinality(Used(inv)) + 1
         /\ WillBill(call[c])
         /\ \A j \in Invoices : inv[j].status # "none" => inv'[j] = inv[j]
  <1> DEFINE row == [status |-> "ISSUED", user |-> call[c].target,
                     team |-> call[c].team, plan |-> call[c].plan, for |-> 0,
                     start |-> call[c].start, end |-> call[c].start + call[c].days]
  <1>1. WillBill(call[c]) /\ call[c].op = "issue"
    BY AtStepFits DEF CreateIssued, WillBill
  <1>2. inv' = [inv EXCEPT ![Fresh(inv)] = row]
    BY DEF CreateIssued
  <1>3. call[c].days >= Shortest
    BY <1>1, CallIsFormed DEF WellFormed
  <1>4. row \in Invoice /\ row.end >= row.start + Shortest /\ row.status # "none"
    BY <1>3, CallIsFormed, ConstantsFit, ActivationAssumption DEF Invoice
  <1> HIDE DEF row
  <1>5. /\ Cardinality(Used(inv)) < MaxInvoices /\ Fresh(inv) \in Invoices
        /\ inv[Fresh(inv)].status = "none" /\ Cardinality(Used(inv)) \in Nat
    BY <1>1, ThereIsRoom, CountsFit
  <1>6. /\ InvoicesKept
        /\ \A j \in Invoices \ {Fresh(inv)} : inv'[j] = inv[j]
        /\ Cardinality(Used(inv)) < MaxInvoices =>
             /\ Numbered(inv') /\ Used(inv) \subseteq Used(inv')
             /\ Cardinality(Used(inv')) = Cardinality(Used(inv)) + 1
    BY <1>2, <1>4, <1>5, InvoiceIsWritten
  <1> QED
    BY <1>1, <1>5, <1>6

LEMMA VoidIsWritten ==
  ASSUME Typed, RoomKept, LastLong, NEW c \in Callers, WriteVoid(c)
  PROVE  /\ InvoicesKept /\ Used(inv') = Used(inv) /\ call[c].i \in Invoices
         /\ \A j \in Invoices \ {call[c].i} : inv'[j] = inv[j]
  <1> DEFINE i == call[c].i
             row == [inv[i] EXCEPT !.status = "VOID"]
  <1>1. i \in Invoices /\ i \in Used(inv)
    BY AtStepFits DEF WriteVoid, AtStep, RoomKept
  <1>2. inv \in [Invoices -> Invoice] /\ inv[i] \in Invoice
    BY <1>1 DEF Typed
  <1>3. inv' = [inv EXCEPT ![i] = row]
    BY <1>1, <1>2 DEF WriteVoid
  <1>4. row \in Invoice
    BY <1>2 DEF Invoice
  <1>5. row.status = "VOID" /\ row.end = inv[i].end /\ row.start = inv[i].start
    BY <1>2 DEF Invoice
  <1>6. inv[i].end >= inv[i].start + Shortest
    BY <1>1 DEF LastLong, Used
  <1> HIDE DEF row
  <1> QED
    BY <1>1, <1>3, <1>4, <1>5, <1>6, InvoiceIsWritten

-----------------------------------------------------------------------------
(* What the tick does                                                      *)

LEMMA SnapshotIs ==
  ASSUME Typed, NEW ids \in SUBSET Requests
  PROVE  /\ Snapshot(ids) \subseteq Entry
         /\ \A row \in Snapshot(ids) : /\ row.r \in ids
                                       /\ row.expires = req[row.r].expires
                                       /\ row.reviewed = req[row.r].reviewed
         /\ \A row, other \in Snapshot(ids) : row.r = other.r => row = other
         /\ \A r \in ids : \E row \in Snapshot(ids) : row.r = r
  <1> DEFINE Of(r) == [r |-> r, expires |-> req[r].expires, reviewed |-> req[r].reviewed]
  <1>1. Snapshot(ids) = {Of(r) : r \in ids}
    BY DEF Snapshot
  <1>2. ASSUME NEW r \in ids
        PROVE  /\ Of(r) \in Entry /\ Of(r).r = r
               /\ Of(r).expires = req[r].expires /\ Of(r).reviewed = req[r].reviewed
    BY DEF Typed, Row, Entry
  <1> HIDE DEF Of
  <1>3. \A row \in Snapshot(ids) : row.r \in ids /\ row = Of(row.r)
    BY <1>1, <1>2
  <1>4. \A r \in ids : Of(r) \in Snapshot(ids)
    BY <1>1
  <1> QED
    BY <1>2, <1>3, <1>4

LEMMA JobFits ==
  ASSUME Typed
  PROVE  /\ \A row \in job.rows : /\ row \in Entry /\ row.r \in Requests
                                  /\ row.expires \in Nat /\ row.reviewed \in Nat
         /\ job.r \in 0..MaxRequests /\ (job.r # 0 => job.r \in Requests)
         /\ job.step \in {"idle", "first", "final", "expire"}
         /\ Resting.step = "idle" /\ Resting.rows = {} /\ Resting.r = 0
         /\ job.step = "idle" <=> job = Resting
         /\ job.step = "expire" => job.r = 0
         /\ job # Resting => ticked = TRUE
  <1>1. JobFormed
    BY DEF Typed
  <1>2. job.rows \subseteq Entry /\ job.r \in 0..MaxRequests
          /\ job.step \in {"idle", "first", "final", "expire"}
    BY <1>1 DEF JobFormed
  <1>3. Resting.step = "idle" /\ Resting.rows = {} /\ Resting.r = 0
    BY DEF Resting
  <1>4. ticked \in BOOLEAN
    BY DEF Typed
  <1> QED
    BY <1>1, <1>2, <1>3, <1>4, ActivationAssumption DEF JobFormed, Requests, Entry

\* The job's record after a step.
LEMMA JobBecomes ==
  ASSUME NEW s \in {"first", "final", "expire"}, NEW rows \in SUBSET Entry,
         NEW r \in 0..MaxRequests, s = "expire" => r = 0,
         job' = [step |-> s, rows |-> rows, r |-> r], ticked' = TRUE
  PROVE  JobFormed' /\ job'.step = s /\ job'.rows = rows /\ job'.r = r /\ job' # Resting
  <1>1. job'.step = s /\ job'.rows = rows /\ job'.r = r
    OBVIOUS
  <1>2. Resting.step = "idle"
    BY DEF Resting
  <1> QED
    BY <1>1, <1>2 DEF JobFormed

LEMMA JobRests ==
  ASSUME job' = Resting
  PROVE  JobFormed'
  <1>1. 0 \in 0..MaxRequests
    BY ActivationAssumption
  <1> QED
    BY <1>1 DEF JobFormed, Resting

LEMMA RemindKeepsJob ==
  ASSUME Typed, NEW row \in job.rows, Remind(row)
  PROVE  /\ job' = [step |-> job.step, rows |-> job.rows \ {row}, r |-> row.r]
         /\ JobFormed' /\ job'.step = job.step /\ job'.rows = job.rows \ {row}
         /\ job'.r = row.r /\ job' # Resting /\ job # Resting
  <1>1. job \in [step : {"idle", "first", "final", "expire"}, rows : SUBSET Entry,
                 r : 0..MaxRequests]
    BY DEF Typed, JobFormed
  <1>2. job.step \in {"first", "final"} /\ job # Resting /\ ticked = TRUE
    BY JobFits DEF Remind
  <1>3. job' = [[job EXCEPT !.rows = @ \ {row}] EXCEPT !.r = row.r]
    BY <1>1 DEF Remind
  <1>4. job' = [step |-> job.step, rows |-> job.rows \ {row}, r |-> row.r]
    BY <1>1, <1>3
  <1>5. row.r \in 0..MaxRequests /\ job.rows \ {row} \in SUBSET Entry
    BY JobFits, ActivationAssumption DEF Requests
  <1>6. ticked' = TRUE
    BY <1>2 DEF Remind, clock
  <1> QED
    BY <1>2, <1>4, <1>5, <1>6, JobBecomes

LEMMA RemindDoes ==
  ASSUME Typed, NEW row \in job.rows, Remind(row), NEW r, r = row.r
  PROVE  /\ req' \in [Requests -> Row] /\ r \in Requests
         /\ req'[r].status = req[r].status /\ SameTerms(req'[r], req[r])
         /\ req'[r].reminded = req[r].reminded
         /\ req'[r].finalReminded = req[r].finalReminded
         /\ req'[r].mails = req[r].mails + (IF job.step = "first" THEN 1 ELSE 0)
         /\ req'[r].finals = req[r].finals + (IF job.step = "first" THEN 0 ELSE 1)
         /\ \A q \in Requests \ {r} : req'[q] = req[q]
  <1>1. r \in Requests /\ req \in [Requests -> Row] /\ req[r] \in Row
    BY JobFits DEF Typed
  <1>2. CASE job.step = "first"
    <2>1. req' = [req EXCEPT ![r] = [req[r] EXCEPT !.mails = req[r].mails + 1]]
      BY <1>1, <1>2 DEF Remind
    <2>2. [req[r] EXCEPT !.mails = req[r].mails + 1] \in Row
      BY <1>1 DEF Row
    <2> QED
      BY <1>1, <1>2, <2>1, <2>2 DEF Row, SameTerms
  <1>3. CASE job.step # "first"
    <2>1. req' = [req EXCEPT ![r] = [req[r] EXCEPT !.finals = req[r].finals + 1]]
      BY <1>1, <1>3 DEF Remind
    <2>2. [req[r] EXCEPT !.finals = req[r].finals + 1] \in Row
      BY <1>1 DEF Row
    <2> QED
      BY <1>1, <1>3, <2>1, <2>2 DEF Row, SameTerms
  <1> QED
    BY <1>2, <1>3

LEMMA RemindBills ==
  ASSUME Typed, RoomKept, LastLong, NEW row \in job.rows, Remind(row)
  PROVE  /\ InvoicesKept /\ Numbered(inv') /\ Used(inv) \subseteq Used(inv')
         /\ \A j \in Invoices : inv[j].status # "none" => inv'[j] = inv[j]
         /\ \/ Used(inv') = Used(inv)
            \/ /\ Cardinality(Used(inv')) = Cardinality(Used(inv)) + 1
               /\ Cardinality(Used(inv)) + Cardinality(Busy) < MaxInvoices
  <1> DEFINE p == req[row.r].plan
             u == req[row.r].target
             days == IF row.expires > row.reviewed THEN row.expires - row.reviewed ELSE 1
             bill == [status |-> "ISSUED", user |-> u, team |-> req[row.r].team,
                      plan |-> p, for |-> row.r, start |-> row.expires,
                      end |-> row.expires + days]
  <1>1. \/ inv' = inv
        \/ Room(inv, MaxInvoices) /\ inv' = [inv EXCEPT ![Fresh(inv)] = bill]
    BY DEF Remind
  <1>2. CASE inv' = inv
    BY <1>2 DEF InvoicesKept, Typed, LastLong, RoomKept
  <1>3. CASE Room(inv, MaxInvoices) /\ inv' = [inv EXCEPT ![Fresh(inv)] = bill]
    <2>1. row.r \in Requests /\ req[row.r] \in Row /\ row.expires \in Nat
            /\ row.reviewed \in Nat /\ row.expires >= row.reviewed + Shortest
      BY JobFits DEF Typed, LastLong
    <2>2. days \in Nat /\ days >= Shortest
      BY <2>1, ConstantsFit
    <2> HIDE DEF days
    <2>3. row.r \in 0..MaxRequests
      BY <2>1, ActivationAssumption DEF Requests
    <2>4. bill \in Invoice
      BY <2>1, <2>2, <2>3 DEF Invoice, Row
    <2>5. bill.end >= bill.start + Shortest /\ bill.status # "none"
      BY <2>1, <2>2, ConstantsFit
    <2> HIDE DEF bill
    <2>6. Cardinality(Used(inv)) + Cardinality(Busy) < MaxInvoices
      BY <1>3 DEF Room, Busy
    <2>7. Cardinality(Used(inv)) < MaxInvoices
      BY <2>6, CountsFit
    <2>8. Fresh(inv) \in Invoices /\ inv[Fresh(inv)].status = "none"
      BY <2>7, CountsFit, FreshFits DEF RoomKept, Invoices
    <2>9. /\ InvoicesKept
          /\ \A j \in Invoices \ {Fresh(inv)} : inv'[j] = inv[j]
          /\ Cardinality(Used(inv)) < MaxInvoices =>
               /\ Numbered(inv') /\ Used(inv) \subseteq Used(inv')
               /\ Cardinality(Used(inv')) = Cardinality(Used(inv)) + 1
      BY <1>3, <2>4, <2>5, <2>8, InvoiceIsWritten
    <2> QED
      BY <2>6, <2>7, <2>8, <2>9
  <1> QED
    BY <1>1, <1>2, <1>3

LEMMA MarkDoes ==
  ASSUME Typed, MarkReminded, NEW r, r = job.r
  PROVE  /\ req' \in [Requests -> Row] /\ r \in Requests
         /\ req'[r].status = req[r].status /\ SameTerms(req'[r], req[r])
         /\ req'[r].mails = req[r].mails /\ req'[r].finals = req[r].finals
         /\ req'[r].reminded = IF job.step = "first" THEN TRUE ELSE req[r].reminded
         /\ req'[r].finalReminded =
              IF job.step = "first" THEN req[r].finalReminded ELSE TRUE
         /\ \A q \in Requests \ {r} : req'[q] = req[q]
         /\ JobFormed' /\ job'.step = job.step /\ job'.rows = job.rows /\ job'.r = 0
         /\ job' # Resting /\ job # Resting
  <1>1. r \in Requests /\ req \in [Requests -> Row] /\ req[r] \in Row
    BY JobFits DEF Typed, MarkReminded
  <1>2. /\ JobFormed' /\ job'.step = job.step /\ job'.rows = job.rows /\ job'.r = 0
        /\ job' # Resting /\ job # Resting
    <2>1. job \in [step : {"idle", "first", "final", "expire"}, rows : SUBSET Entry,
                   r : 0..MaxRequests]
      BY DEF Typed, JobFormed
    <2>2. job.step \in {"first", "final"} /\ job # Resting /\ ticked = TRUE
      BY JobFits DEF MarkReminded
    <2>3. job' = [step |-> job.step, rows |-> job.rows, r |-> 0]
      BY <2>1 DEF MarkReminded
    <2>4. 0 \in 0..MaxRequests /\ job.rows \in SUBSET Entry /\ ticked' = TRUE
      BY <2>1, <2>2, ActivationAssumption DEF MarkReminded, clock
    <2> QED
      BY <2>2, <2>3, <2>4, JobBecomes
  <1>3. CASE job.step = "first"
    <2>1. req' = [req EXCEPT ![r] = [req[r] EXCEPT !.reminded = TRUE]]
      BY <1>1, <1>3 DEF MarkReminded
    <2>2. [req[r] EXCEPT !.reminded = TRUE] \in Row
      BY <1>1 DEF Row
    <2> QED
      BY <1>1, <1>2, <1>3, <2>1, <2>2 DEF Row, SameTerms
  <1>4. CASE job.step # "first"
    <2>1. req' = [req EXCEPT ![r] = [req[r] EXCEPT !.finalReminded = TRUE]]
      BY <1>1, <1>4 DEF MarkReminded
    <2>2. [req[r] EXCEPT !.finalReminded = TRUE] \in Row
      BY <1>1 DEF Row
    <2> QED
      BY <1>1, <1>2, <1>4, <2>1, <2>2 DEF Row, SameTerms
  <1> QED
    BY <1>3, <1>4

LEMMA ExpireDoes ==
  ASSUME Typed, NEW row \in job.rows, Expire(row), NEW r, r = row.r
  PROVE  /\ req' \in [Requests -> Row] /\ r \in Requests
         /\ req'[r].status = "EXPIRED" /\ SameTerms(req'[r], req[r])
         /\ SameNotices(req'[r], req[r])
         /\ \A q \in Requests \ {r} : req'[q] = req[q]
         /\ JobFormed' /\ job'.step = "expire" /\ job'.rows = job.rows \ {row}
         /\ job'.r = 0 /\ job' # Resting /\ job # Resting /\ job.step = "expire"
  <1>1. r \in Requests /\ req \in [Requests -> Row] /\ req[r] \in Row
    BY JobFits DEF Typed
  <1>2. req' = [req EXCEPT ![r] = [req[r] EXCEPT !.status = "EXPIRED"]]
    BY <1>1 DEF Expire
  <1>3. [req[r] EXCEPT !.status = "EXPIRED"] \in Row
    BY <1>1 DEF Row, Statuses
  <1>4. /\ req' \in [Requests -> Row] /\ req'[r].status = "EXPIRED"
        /\ SameTerms(req'[r], req[r]) /\ SameNotices(req'[r], req[r])
        /\ \A q \in Requests \ {r} : req'[q] = req[q]
    BY <1>1, <1>2, <1>3 DEF Row, SameTerms, SameNotices
  <1>5. job \in [step : {"idle", "first", "final", "expire"}, rows : SUBSET Entry,
                 r : 0..MaxRequests]
    BY DEF Typed, JobFormed
  <1>6. job.step = "expire" /\ job # Resting /\ ticked = TRUE /\ job.r = 0
    BY JobFits DEF Expire
  <1>7. job' = [step |-> "expire", rows |-> job.rows \ {row}, r |-> 0]
    BY <1>5, <1>6, ZenonT(60) DEF Expire
  <1>8. 0 \in 0..MaxRequests /\ job.rows \ {row} \in SUBSET Entry /\ ticked' = TRUE
    BY <1>5, <1>6, ActivationAssumption DEF Expire, clock
  <1> QED
    BY <1>1, <1>4, <1>6, <1>7, <1>8, JobBecomes

LEMMA PhaseDoes ==
  ASSUME Typed, NextPhase
  PROVE  /\ JobFormed' /\ job' # Resting /\ job # Resting /\ job'.r = 0
         /\ job.r = 0 /\ job.rows = {}
         /\ \/ job.step = "first" /\ job'.step = "final" /\ job'.rows = FinalWindow
            \/ job.step = "final" /\ job'.step = "expire" /\ job'.rows = DueRows
  <1>1. FinalWindow \in SUBSET Entry /\ DueRows \in SUBSET Entry
    BY SnapshotIs DEF FinalWindow, DueRows, EndWithin, Approved
  <1>2. job.step \in {"first", "final"} /\ job # Resting /\ ticked = TRUE
    BY JobFits DEF NextPhase
  <1>3. 0 \in 0..MaxRequests /\ ticked' = TRUE
    BY <1>2, ActivationAssumption DEF NextPhase, clock
  <1>4. CASE job.step = "first"
    <2>1. job' = [step |-> "final", rows |-> FinalWindow, r |-> 0]
      BY <1>4 DEF NextPhase
    <2> QED
      BY <1>1, <1>2, <1>3, <1>4, <2>1, JobBecomes DEF NextPhase
  <1>5. CASE job.step = "final"
    <2>1. job' = [step |-> "expire", rows |-> DueRows, r |-> 0]
      BY <1>5 DEF NextPhase
    <2> QED
      BY <1>1, <1>2, <1>3, <1>5, <2>1, JobBecomes DEF NextPhase
  <1> QED
    BY <1>2, <1>4, <1>5

LEMMA TickDoes ==
  ASSUME Typed, TickStarts
  PROVE  /\ JobFormed' /\ job' # Resting /\ job = Resting /\ job'.r = 0
         /\ job'.step = "first" /\ job'.rows = FirstWindow /\ ticked' = TRUE
  <1>1. FirstWindow \in SUBSET Entry
    BY SnapshotIs DEF FirstWindow, EndWithin, Approved
  <1>2. 0 \in 0..MaxRequests /\ ticked' = TRUE /\ job = Resting
    BY ActivationAssumption DEF TickStarts
  <1>3. job' = [step |-> "first", rows |-> FirstWindow, r |-> 0]
    BY DEF TickStarts
  <1> QED
    BY <1>1, <1>2, <1>3, JobBecomes

-----------------------------------------------------------------------------
(* Types                                                                   *)

USE DEF clock, accounts, faults, rest

CallerStep(c) ==
  \/ Begins(c) \/ Blocks(c) \/ InsertRequest(c) \/ WriteDecline(c)
  \/ ReadPeriodStart(c) \/ ReadSuspension(c) \/ Activate(c)
  \/ ReturnUnbilled(c) \/ VoidOthers(c) \/ FindOpen(c)
  \/ RecordPayment(c) \/ CreateIssued(c) \/ WriteVoid(c) \/ CallDies(c)

LEMMA StepIs ==
  ASSUME Typed, PeriodsInv, [ActivationNext]_vars
  PROVE  \/ \E c \in Callers : CallerStep(c)
         \/ TickStarts
         \/ \E row \in job.rows : Remind(row) \/ Expire(row)
         \/ MarkReminded \/ NextPhase \/ TickEnds \/ TickDies \/ NextDay
         \/ UNCHANGED vars
  <1>1. ASSUME NEW c \in Callers, CallStarts(c)
        PROVE  Begins(c) \/ Blocks(c)
    BY <1>1, StartsAreOpenings
  <1>2. CASE ActivationNext
    BY <1>1, <1>2 DEF ActivationNext, CallGoesOn, TickGoesOn, CallerStep
  <1> QED
    BY <1>2

\* What all but the day, its tick and the row in hand leave alone.
LEMMA CallerTyped ==
  ASSUME Typed, NEW c \in Callers, NEW k, WellFormed(k), call' = [call EXCEPT ![c] = k],
         UNCHANGED <<today, ticked, job, manual>>, overlapped' \in BOOLEAN,
         crashes' \in 0..MaxDisturbances,
         req' \in [Requests -> Row], inv' \in [Invoices -> Invoice],
         user' \in [Users -> Accounts], teamPlan' \in [Teams -> Plans \cup {NoPlan}]
  PROVE  Typed'
  <1>1. JobFormed'
    BY DEF Typed, JobFormed
  <1>2. call' \in [Callers -> Call] /\ \A d \in Callers : WellFormed(call'[d])
    BY CallBecomes
  <1> QED
    BY <1>1, <1>2 DEF Typed

\* An activation, or an invoice on demand, goes on to its next step.
LEMMA StillFormed ==
  ASSUME NEW k, NEW m, WellFormed(m), SameTask(k, m), k \in Call,
         m.op \in Activations \cup {"issue"}, m.op = "approve" => k.r = m.r,
         IF m.op = "issue" THEN k.step = "bill"
         ELSE \/ k.step \in {"activate", "return"}
              \/ k.step \in Settling \cup {"peek"} /\ m.target # NoUser
  PROVE  WellFormed(k)
  BY DEF WellFormed, SameTask, Activations, Settling, BeforeWrite

LEMMA ActivateUsers ==
  ASSUME Typed, NEW c \in Callers, Activate(c)
  PROVE  /\ user' \in [Users -> Accounts] /\ teamPlan' \in [Teams -> Plans \cup {NoPlan}]
         /\ \A u \in Users :
              IF u = call[c].target
              THEN /\ user'[u].plan = call[c].plan
                   /\ user'[u].blocked = (user[u].blocked /\ ~call[c].lift)
                   /\ user'[u].bySystem = (user[u].bySystem /\ ~call[c].lift)
              ELSE user'[u] = user[u]
  <1>1. user \in [Users -> Accounts] /\ teamPlan \in [Teams -> Plans \cup {NoPlan}]
    BY DEF Typed
  <1>2. call[c].plan \in Plans /\ call[c].lift \in BOOLEAN /\ call[c].team \in Teams
          /\ call[c].target \in Targets
    BY CallIsFormed
  <1>3. CASE call[c].target = NoUser
    <2>1. user' = user /\ teamPlan' = [teamPlan EXCEPT ![call[c].team] = call[c].plan]
      BY <1>3 DEF Activate
    <2> QED
      BY <1>1, <1>2, <1>3, <2>1, ActivationAssumption
  <1>4. CASE call[c].target # NoUser
    <2> DEFINE u == call[c].target
               row == [plan |-> call[c].plan,
                       blocked |-> user[u].blocked /\ ~call[c].lift,
                       bySystem |-> user[u].bySystem /\ ~call[c].lift]
    <2>1. u \in Users
      BY <1>2, <1>4 DEF Targets
    <2>2. teamPlan' = teamPlan /\ user' = [user EXCEPT ![u] = row]
      BY <1>1, <1>4, <2>1 DEF Activate
    <2>3. row \in Accounts
      BY <1>1, <1>2, <2>1 DEF Accounts
    <2>4. /\ row.plan = call[c].plan
          /\ row.blocked = (user[u].blocked /\ ~call[c].lift)
          /\ row.bySystem = (user[u].bySystem /\ ~call[c].lift)
      OBVIOUS
    <2> HIDE DEF row
    <2> QED
      BY <1>1, <2>1, <2>2, <2>3, <2>4
  <1> QED
    BY <1>3, <1>4

LEMMA ExpireUsers ==
  ASSUME Typed, NEW row \in job.rows, Expire(row)
  PROVE  /\ user' \in [Users -> Accounts] /\ teamPlan' \in [Teams -> Plans \cup {NoPlan}]
         /\ \A u \in Users :
              IF u = req[row.r].target
              THEN user'[u].plan = user[u].plan /\ user'[u].blocked /\ user'[u].bySystem
              ELSE user'[u] = user[u]
  <1>1. user \in [Users -> Accounts] /\ teamPlan \in [Teams -> Plans \cup {NoPlan}]
    BY DEF Typed
  <1>2. req[row.r] \in Row
    BY JobFits DEF Typed
  <1>3. CASE req[row.r].target = NoUser
    <2> DEFINE t == req[row.r].team
               p == IF teamPlan[t] = req[row.r].plan THEN FreePlan ELSE teamPlan[t]
    <2>1. user' = user /\ teamPlan' = [teamPlan EXCEPT ![t] = p]
      BY <1>3 DEF Expire
    <2>2. t \in Teams
      BY <1>2 DEF Row
    <2>3. p \in Plans \cup {NoPlan}
      BY <1>1, <2>2, ActivationAssumption
    <2> HIDE DEF p
    <2> QED
      BY <1>1, <1>3, <2>1, <2>3, ActivationAssumption
  <1>4. CASE req[row.r].target # NoUser
    <2> DEFINE u == req[row.r].target
    <2>1. u \in Users
      BY <1>2, <1>4 DEF Row, Targets
    <2>2. /\ teamPlan' = teamPlan
          /\ user' = [user EXCEPT ![u].blocked = TRUE, ![u].bySystem = TRUE]
      BY <1>4 DEF Expire
    <2>3. user'[u] = [[user[u] EXCEPT !.blocked = TRUE] EXCEPT !.bySystem = TRUE]
      BY <1>1, <2>1, <2>2, ZenonT(60)
    <2>4. user[u] \in Accounts
      BY <1>1, <2>1
    <2>5. /\ user'[u] \in Accounts /\ user'[u].plan = user[u].plan
          /\ user'[u].blocked /\ user'[u].bySystem
      BY <2>3, <2>4 DEF Accounts
    <2>6. \A v \in Users \ {u} : user'[v] = user[v]
      BY <1>1, <2>1, <2>2, ZenonT(60)
    <2> QED
      BY <1>1, <2>1, <2>2, <2>5, <2>6, ZenonT(60)
  <1> QED
    BY <1>3, <1>4

LEMMA BlockUsers ==
  ASSUME Typed, NEW c \in Callers, NEW u \in Users, NEW b \in BOOLEAN,
         SetUserBlocked(c, u, b)
  PROVE  /\ user' \in [Users -> Accounts]
         /\ manual' \in [Users -> {"untouched", "blocked", "unblocked"}]
         /\ user'[u].plan = user[u].plan /\ user'[u].blocked = b
         /\ user'[u].bySystem = FALSE
         /\ manual'[u] = IF b THEN "blocked" ELSE "unblocked"
         /\ \A v \in Users \ {u} : user'[v] = user[v] /\ manual'[v] = manual[v]
  <1>1. user \in [Users -> Accounts] /\ user[u] \in Accounts
    BY DEF Typed
  <1>2. user' = [user EXCEPT ![u].blocked = b, ![u].bySystem = FALSE]
    BY DEF SetUserBlocked
  <1>3. user'[u] = [[user[u] EXCEPT !.blocked = b] EXCEPT !.bySystem = FALSE]
    BY <1>1, <1>2
  <1>4. /\ user'[u] \in Accounts /\ user'[u].plan = user[u].plan
        /\ user'[u].blocked = b /\ user'[u].bySystem = FALSE
    BY <1>1, <1>3 DEF Accounts
  <1>5. \A v \in Users \ {u} : user'[v] = user[v]
    BY <1>1, <1>2
  <1>6. user' \in [Users -> Accounts]
    BY <1>1, <1>2, <1>4, <1>5
  <1>7. /\ manual' = [manual EXCEPT ![u] = IF b THEN "blocked" ELSE "unblocked"]
        /\ manual \in [Users -> {"untouched", "blocked", "unblocked"}]
    BY DEF SetUserBlocked, Typed
  <1> QED
    BY <1>4, <1>5, <1>6, <1>7

LEMMA JobTyped ==
  ASSUME Typed, JobFormed', UNCHANGED <<today, crashes, overlapped, call, manual>>,
         ticked' \in BOOLEAN,
         req' \in [Requests -> Row], inv' \in [Invoices -> Invoice],
         user' \in [Users -> Accounts], teamPlan' \in [Teams -> Plans \cup {NoPlan}]
  PROVE  Typed'
  BY DEF Typed

LEMMA TypedStays ==
  ASSUME Typed, RoomKept, PeriodsInv, [ActivationNext]_vars
  PROVE  Typed'
  <1> USE DEF PeriodsInv
  <1>t. /\ req \in [Requests -> Row] /\ inv \in [Invoices -> Invoice]
        /\ user \in [Users -> Accounts] /\ teamPlan \in [Teams -> Plans \cup {NoPlan}]
        /\ overlapped \in BOOLEAN /\ crashes \in 0..MaxDisturbances
        /\ ticked \in BOOLEAN
    BY DEF Typed
  <1>r. WellFormed(Idle)
    BY RecordsFit
  <1>1. ASSUME NEW c \in Callers, Begins(c) PROVE Typed'
    <2>1. PICK to : Begin(c, to) /\ Opening(to)
      BY <1>1 DEF Begins
    <2> QED
      BY <1>t, <2>1, CallerTyped DEF Begin, Opening, Join
  <1>2. ASSUME NEW c \in Callers, Blocks(c) PROVE Typed'
    <2>1. PICK u \in Users, b \in BOOLEAN : SetUserBlocked(c, u, b)
      BY <1>2 DEF Blocks
    <2>2. JobFormed'
      BY <2>1 DEF SetUserBlocked, Typed, JobFormed
    <2> QED
      BY <1>t, <2>1, <2>2, BlockUsers, ZenonT(60) DEF SetUserBlocked, Join, Typed
  <1>3. ASSUME NEW c \in Callers, InsertRequest(c) PROVE Typed'
    BY <1>t, <1>r, <1>3, InsertDoes, CallerTyped, ZenonT(60) DEF InsertRequest, Return
  <1>4. ASSUME NEW c \in Callers, WriteDecline(c) PROVE Typed'
    BY <1>t, <1>r, <1>4, DeclineDoes, CallerTyped, ZenonT(60) DEF WriteDecline, Return
  <1>5. ASSUME NEW c \in Callers, ReadPeriodStart(c) PROVE Typed'
    <2>1. WellFormed(call'[c])
      <3>1. call[c].op \in Activations \cup {"issue"} /\ WellFormed(call[c])
        BY <1>5, AtStepFits, CallIsFormed DEF ReadPeriodStart
      <3> QED
        BY <1>5, <3>1, PeriodStartIsRead, StillFormed
    <2>2. call' = [call EXCEPT ![c] = call'[c]]
      BY <1>5, PeriodStartIsRead
    <2> QED
      BY <1>t, <1>5, <2>1, <2>2, CallerTyped DEF ReadPeriodStart
  <1>6. ASSUME NEW c \in Callers, ReadSuspension(c) PROVE Typed'
    <2>1. WellFormed(call'[c])
      <3>1. call[c].op \in Activations /\ WellFormed(call[c])
        BY <1>6, AtStepFits, CallIsFormed DEF ReadSuspension, AtStep
      <3> QED
        BY <1>6, <3>1, SuspensionIsRead, StillFormed DEF Activations
    <2>2. call' = [call EXCEPT ![c] = call'[c]]
      BY <1>6, SuspensionIsRead
    <2> QED
      BY <1>t, <1>6, <2>1, <2>2, CallerTyped DEF ReadSuspension
  <1>7. ASSUME NEW c \in Callers, Activate(c) PROVE Typed'
    <2>1. WellFormed(call'[c])
      <3>1. call[c].op \in Activations /\ WellFormed(call[c])
        BY <1>7, AtStepFits, CallIsFormed DEF Activate, AtStep
      <3>2. call[c].op = "approve" => call'[c].r = call[c].r
        BY <1>7, ActivateMoves DEF Holds
      <3> QED
        BY <1>7, <3>1, <3>2, ActivateMoves, StillFormed DEF Activations, Settling
    <2>2. call' = [call EXCEPT ![c] = call'[c]]
      BY <1>7, ActivateMoves
    <2>3. req' \in [Requests -> Row]
      BY <1>7, ActivateDoes
    <2> QED
      BY <1>t, <1>7, <2>1, <2>2, <2>3, ActivateUsers, CallerTyped, ZenonT(60) DEF Activate
  <1>8. ASSUME NEW c \in Callers, ReturnUnbilled(c) PROVE Typed'
    BY <1>t, <1>r, <1>8, CallerTyped DEF ReturnUnbilled, Return
  <1>9. ASSUME NEW c \in Callers, VoidOthers(c) PROVE Typed'
    <2>1. call[c].op \in Activations /\ call[c].target # NoUser /\ WellFormed(call[c])
      BY <1>9, AtStepFits, CallIsFormed DEF VoidOthers, AtStep, Settling, WellFormed
    <2>2. WellFormed(call'[c]) /\ call' = [call EXCEPT ![c] = call'[c]]
      <3>1. CASE Goto(c, "find")
        BY <2>1, <3>1, GoesTo, StillFormed DEF Steps, Settling, Activations
      <3>2. CASE Goto(c, "return")
        BY <2>1, <3>2, GoesTo, StillFormed DEF Steps, Settling, Activations
      <3> QED
        BY <1>9, <3>1, <3>2, OthersAreVoided
    <2> QED
      BY <1>t, <1>9, <2>2, OthersAreVoided, CallerTyped DEF VoidOthers, InvoicesKept
  <1>10. ASSUME NEW c \in Callers, FindOpen(c) PROVE Typed'
    <2>1. call[c].op \in Activations /\ call[c].target # NoUser /\ WellFormed(call[c])
      BY <1>10, AtStepFits, CallIsFormed DEF FindOpen, AtStep, Settling, WellFormed
    <2>2. WellFormed(call'[c]) /\ call' = [call EXCEPT ![c] = call'[c]]
      BY <1>10, <2>1, OpenIsFound, StillFormed DEF Settling, Activations
    <2> QED
      BY <1>t, <1>10, <2>2, CallerTyped DEF FindOpen
  <1>11. ASSUME NEW c \in Callers, RecordPayment(c) PROVE Typed'
    BY <1>t, <1>r, <1>11, PaymentIsRecorded, CallerTyped, ZenonT(60)
    DEF RecordPayment, Return, InvoicesKept
  <1>12. ASSUME NEW c \in Callers, CreateIssued(c) PROVE Typed'
    BY <1>t, <1>r, <1>12, IssuedIsCreated, CallerTyped
    DEF CreateIssued, Return, InvoicesKept
  <1>13. ASSUME NEW c \in Callers, WriteVoid(c) PROVE Typed'
    BY <1>t, <1>r, <1>13, VoidIsWritten, CallerTyped DEF WriteVoid, Return, InvoicesKept
  <1>14. ASSUME NEW c \in Callers, CallDies(c) PROVE Typed'
    <2>1. crashes' \in 0..MaxDisturbances
      BY <1>t, <1>14, ActivationAssumption DEF CallDies, Disturbances
    <2> QED
      BY <1>t, <1>r, <1>14, <2>1, CallerTyped DEF CallDies, Return
  <1>15. ASSUME TickStarts PROVE Typed'
    <2>1. overlapped' \in BOOLEAN /\ JobFormed' /\ ticked' = TRUE
      BY <1>t, <1>15, TickDoes DEF TickStarts, Join
    <2> QED
      BY <1>t, <1>15, <2>1 DEF TickStarts, Typed
  <1>16. ASSUME NEW row \in job.rows, Remind(row) PROVE Typed'
    BY <1>t, <1>16, RemindKeepsJob, RemindDoes, RemindBills, JobTyped, ZenonT(60)
    DEF Remind, InvoicesKept
  <1>17. ASSUME NEW row \in job.rows, Expire(row) PROVE Typed'
    BY <1>t, <1>17, ExpireDoes, ExpireUsers, JobTyped, ZenonT(60) DEF Expire
  <1>18. ASSUME MarkReminded PROVE Typed'
    BY <1>t, <1>18, MarkDoes, JobTyped DEF MarkReminded
  <1>19. ASSUME NextPhase PROVE Typed'
    BY <1>t, <1>19, PhaseDoes, JobTyped DEF NextPhase
  <1>20. ASSUME TickEnds PROVE Typed'
    BY <1>t, <1>20, JobRests, JobTyped DEF TickEnds
  <1>21. ASSUME TickDies PROVE Typed'
    <2>1. crashes' \in 0..MaxDisturbances
      BY <1>t, <1>21, ActivationAssumption DEF TickDies, Disturbances
    <2>2. JobFormed' /\ ticked' \in BOOLEAN
      BY <1>21, JobRests DEF TickDies
    <2> QED
      BY <1>21, <2>1, <2>2 DEF TickDies, Typed
  <1>22. ASSUME NextDay PROVE Typed'
    <2>1. today' \in 0..MaxDay
      BY <1>22, ActivationAssumption DEF NextDay, Typed
    <2>2. JobFormed' /\ ticked' \in BOOLEAN
      BY <1>22, JobRests DEF NextDay
    <2> QED
      BY <1>22, <2>1, <2>2 DEF NextDay, Typed
  <1>23. ASSUME UNCHANGED vars PROVE Typed'
    BY <1>23 DEF vars, Typed, JobFormed
  <1> QED
    BY <1>1, <1>2, <1>3, <1>4, <1>5, <1>6, <1>7, <1>8, <1>9, <1>10, <1>11, <1>12,
       <1>13, <1>14, <1>15, <1>16, <1>17, <1>18, <1>19, <1>20, <1>21, <1>22, <1>23,
       StepIs DEF CallerStep

-----------------------------------------------------------------------------
(* Room is kept                                                            *)

LEMMA CardsFit ==
  ASSUME NEW rows, NEW N \in Nat, DOMAIN rows = 1..N, Numbered(rows)
  PROVE  Cardinality(Used(rows)) \in Nat
  BY FreshFits

\* A caller that inserts or charges gives up the room it held.
LEMMA RoomLeft ==
  ASSUME Typed, Typed', RoomKept, NEW c \in Callers, NEW k, call' = [call EXCEPT ![c] = k],
         WillInsert(k) => WillInsert(call[c]), WillBill(k) => WillBill(call[c]),
         Numbered(req'), Numbered(inv'), Used(inv) \subseteq Used(inv'),
         \/ Cardinality(Used(req')) = Cardinality(Used(req))
         \/ /\ Cardinality(Used(req')) = Cardinality(Used(req)) + 1
            /\ WillInsert(call[c]) /\ ~WillInsert(k),
         \/ Cardinality(Used(inv')) = Cardinality(Used(inv))
         \/ /\ Cardinality(Used(inv')) <= Cardinality(Used(inv)) + 1
            /\ WillBill(call[c]) /\ ~WillBill(k),
         k.step = "record" => k.found = 0 \/ k.found \in Used(inv'),
         k.step = "voidOne" => k.i \in Used(inv')
  PROVE  RoomKept'
  <1>1. /\ IsFiniteSet(Busy')
        /\ Cardinality(Inserting') \in Nat /\ Cardinality(Charging') \in Nat
        /\ Cardinality(Inserting') <= Cardinality(Inserting)
        /\ Cardinality(Charging') <= Cardinality(Charging)
        /\ WillInsert(call[c]) /\ ~WillInsert(k) =>
             Cardinality(Inserting') = Cardinality(Inserting) - 1
        /\ WillBill(call[c]) /\ ~WillBill(k) =>
             Cardinality(Charging') = Cardinality(Charging) - 1
    BY RoomStays
  <1>2. /\ Cardinality(Inserting) \in Nat /\ Cardinality(Charging) \in Nat
        /\ Cardinality(Used(req)) \in Nat /\ Cardinality(Used(inv)) \in Nat
        /\ MaxRequests \in Nat /\ MaxInvoices \in Nat
    BY CountsFit
  <1>3. Cardinality(Used(req')) \in Nat /\ Cardinality(Used(inv')) \in Nat
    <2>1. DOMAIN req' = 1..MaxRequests /\ DOMAIN inv' = 1..MaxInvoices
      BY DEF Typed, Requests, Invoices
    <2> QED
      BY <1>2, <2>1, CardsFit
  <1>4. /\ Cardinality(Used(req)) + Cardinality(Inserting) <= MaxRequests
        /\ Cardinality(Used(inv)) + Cardinality(Charging) <= MaxInvoices
    BY DEF RoomKept
  <1>5. Cardinality(Used(req')) + Cardinality(Inserting') <= MaxRequests
    BY <1>1, <1>2, <1>3, <1>4
  <1>6. Cardinality(Used(inv')) + Cardinality(Charging') <= MaxInvoices
    BY <1>1, <1>2, <1>3, <1>4
  <1>7. \A d \in Callers :
          /\ call'[d].step = "record" => call'[d].found = 0 \/ call'[d].found \in Used(inv')
          /\ call'[d].step = "voidOne" => call'[d].i \in Used(inv')
    <2>1. call'[c] = k /\ \A d \in Callers \ {c} : call'[d] = call[d]
      BY DEF Typed
    <2> QED
      BY <2>1 DEF RoomKept
  <1> QED
    BY <1>1, <1>5, <1>6, <1>7 DEF RoomKept

\* The tick and the clock take no room but what is left over.
LEMMA RoomUntouched ==
  ASSUME Typed, Typed', RoomKept, call' = call,
         Used(req') = Used(req), Numbered(inv'), Used(inv) \subseteq Used(inv'),
         \/ Used(inv') = Used(inv)
         \/ /\ Cardinality(Used(inv')) = Cardinality(Used(inv)) + 1
            /\ Cardinality(Used(inv)) + Cardinality(Busy) < MaxInvoices
  PROVE  RoomKept'
  <1>1. Busy' = Busy /\ Inserting' = Inserting /\ Charging' = Charging
    BY DEF Busy, Inserting, Charging
  <1>2. Cardinality(Used(inv')) + Cardinality(Charging) <= MaxInvoices
    BY CountsFit, SMTT(30) DEF RoomKept
  <1>3. Numbered(req')
    BY DEF Numbered, RoomKept
  <1>4. \A d \in Callers :
          /\ call'[d].step = "record" => call'[d].found = 0 \/ call'[d].found \in Used(inv')
          /\ call'[d].step = "voidOne" => call'[d].i \in Used(inv')
    BY DEF RoomKept
  <1> QED
    BY <1>1, <1>2, <1>3, <1>4 DEF RoomKept

LEMMA OneStaysUsed ==
  ASSUME Typed, Typed', NEW r \in Requests, req[r].status # "none", req'[r].status # "none",
         \A q \in Requests \ {r} : req'[q] = req[q]
  PROVE  Used(req') = Used(req)
  BY DEF Typed, Used

LEMMA BeginTakesRoom ==
  ASSUME Typed, RoomKept, NEW c \in Callers, NEW to, Begin(c, to), Opening(to), Typed'
  PROVE  RoomKept'
  <1>1. call' = [call EXCEPT ![c] = to] /\ req' = req /\ inv' = inv /\ call[c] = Idle
    BY DEF Begin
  <1>2. /\ IsFiniteSet(Busy')
        /\ Inserting' = IF WillInsert(to) THEN Inserting \cup {c} ELSE Inserting \ {c}
        /\ Charging' = IF WillBill(to) THEN Charging \cup {c} ELSE Charging \ {c}
    BY <1>1, CallersMove
  <1>3. /\ IsFiniteSet(Inserting) /\ IsFiniteSet(Charging)
        /\ Cardinality(Busy) \in Nat /\ Cardinality(Inserting) \in Nat
        /\ Cardinality(Charging) \in Nat
        /\ Cardinality(Inserting) <= Cardinality(Busy)
        /\ Cardinality(Charging) <= Cardinality(Busy)
        /\ Cardinality(Used(req)) \in Nat /\ Cardinality(Used(inv)) \in Nat
        /\ MaxRequests \in Nat /\ MaxInvoices \in Nat
    BY CountsFit
  <1>4. Cardinality(Used(req)) + Cardinality(Inserting') <= MaxRequests
    <2>1. CASE WillInsert(to)
      <3>1. to.op \in {"create", "assign", "pay"}
        BY <2>1 DEF WillInsert
      <3>2. Cardinality(Used(req)) + Cardinality(Busy) < MaxRequests
        BY <3>1 DEF Begin, Room, Busy
      <3>3. Cardinality(Inserting') \in Nat /\ Cardinality(Inserting') <= Cardinality(Inserting) + 1
        BY <1>2, <1>3, <2>1, CountsChange
      <3> QED
        BY <1>3, <3>2, <3>3
    <2>2. CASE ~WillInsert(to)
      <3>1. Cardinality(Inserting') \in Nat /\ Cardinality(Inserting') <= Cardinality(Inserting)
        BY <1>2, <1>3, <2>2, CountsChange
      <3> QED
        BY <1>3, <3>1 DEF RoomKept
    <2> QED
      BY <2>1, <2>2
  <1>5. Cardinality(Used(inv)) + Cardinality(Charging') <= MaxInvoices
    <2>1. CASE WillBill(to)
      <3>1. to.op \in {"approve", "assign", "pay", "issue"}
        BY <2>1 DEF WillBill, Activations
      <3>2. Cardinality(Used(inv)) + Cardinality(Busy) < MaxInvoices
        <4>1. CASE to.op = "issue"
          BY <1>3, <4>1, ActivationAssumption DEF Begin, Room, Busy
        <4>2. CASE to.op # "issue"
          BY <3>1, <4>2 DEF Begin, Room, Busy
        <4> QED
          BY <4>1, <4>2
      <3>3. Cardinality(Charging') \in Nat /\ Cardinality(Charging') <= Cardinality(Charging) + 1
        BY <1>2, <1>3, <2>1, CountsChange
      <3> QED
        BY <1>3, <3>2, <3>3
    <2>2. CASE ~WillBill(to)
      <3>1. Cardinality(Charging') \in Nat /\ Cardinality(Charging') <= Cardinality(Charging)
        BY <1>2, <1>3, <2>2, CountsChange
      <3> QED
        BY <1>3, <3>1 DEF RoomKept
    <2> QED
      BY <2>1, <2>2
  <1>6. \A d \in Callers :
          /\ call'[d].step = "record" => call'[d].found = 0 \/ call'[d].found \in Used(inv)
          /\ call'[d].step = "voidOne" => call'[d].i \in Used(inv)
    <2>1. call'[c] = to /\ \A d \in Callers \ {c} : call'[d] = call[d]
      BY <1>1 DEF Typed
    <2>2. to.step # "record"
      BY DEF Opening
    <2>3. to.step = "voidOne" => to.i \in Used(inv)
      <3>1. Idle.step = "idle"
        BY DEF Idle
      <3>2. to.step = "voidOne" => to.i \in Invoices
        BY <3>1 DEF Opening, WellFormed, BeforeWrite, Settling
      <3> QED
        BY <3>2 DEF Opening, Used, Typed
    <2> QED
      BY <2>1, <2>2, <2>3 DEF RoomKept
  <1> QED
    BY <1>1, <1>2, <1>4, <1>5, <1>6 DEF RoomKept

LEMMA RoomStaysKept ==
  ASSUME Typed, RoomKept, PeriodsInv, [ActivationNext]_vars, Typed'
  PROVE  RoomKept'
  <1> USE DEF PeriodsInv
  <1>u. /\ Numbered(req) /\ Numbered(inv) /\ ~WillInsert(Idle) /\ ~WillBill(Idle)
        /\ Idle.step = "idle"
    BY RecordsFit DEF RoomKept, Idle
  <1>s. ASSUME Used(req') = Used(req) PROVE Numbered(req')
    BY <1>u, <1>s DEF Numbered
  <1>v. ASSUME Used(inv') = Used(inv) PROVE Numbered(inv')
    BY <1>u, <1>v DEF Numbered
  <1>1. ASSUME NEW c \in Callers, Begins(c) PROVE RoomKept'
    BY <1>1, BeginTakesRoom DEF Begins
  <1>2. ASSUME NEW c \in Callers, Blocks(c) PROVE RoomKept'
    <2>1. UNCHANGED <<req, inv, call>>
      BY <1>2 DEF Blocks, SetUserBlocked
    <2> QED
      BY <1>u, <2>1, RoomUntouched
  <1>3. ASSUME NEW c \in Callers, InsertRequest(c) PROVE RoomKept'
    <2> DEFINE r == Fresh(req)
    <2>1. /\ r \in Requests /\ req[r].status = "none" /\ req'[r].status # "none"
          /\ \A q \in Requests \ {r} : req'[q] = req[q]
          /\ WillInsert(call[c]) /\ req' \in [Requests -> Row]
      BY <1>3, InsertDoes
    <2>2. Cardinality(Used(req)) < MaxRequests
      BY <2>1, ThereIsRoom
    <2>3. Numbered(req') /\ Cardinality(Used(req')) = Cardinality(Used(req)) + 1
      <3>1. DOMAIN req = 1..MaxRequests /\ DOMAIN req' = 1..MaxRequests /\ MaxRequests \in Nat
        BY <2>1, CountsFit DEF Requests
      <3> QED
        BY <1>u, <2>1, <2>2, <3>1, FreshGrows DEF Requests
    <2>4. inv' = inv /\ call' = [call EXCEPT ![c] = Idle]
      BY <1>3 DEF InsertRequest, Return
    <2> QED
      BY <1>u, <2>1, <2>3, <2>4, RoomLeft
  <1>4. ASSUME NEW c \in Callers, WriteDecline(c) PROVE RoomKept'
    <2> DEFINE r == call[c].r
    <2>1. /\ r \in Requests /\ Holds(call[c], r) /\ req'[r].status # "none"
          /\ \A q \in Requests \ {r} : req'[q] = req[q]
      BY <1>4, DeclineDoes
    <2>2. req[r].status # "none"
      BY <2>1 DEF OfToday
    <2>3. Used(req') = Used(req)
      BY <2>1, <2>2, OneStaysUsed
    <2>4. inv' = inv /\ call' = [call EXCEPT ![c] = Idle]
      BY <1>4 DEF WriteDecline, Return
    <2> QED
      BY <1>u, <1>s, <2>3, <2>4, RoomLeft
  <1>5. ASSUME NEW c \in Callers, ReadPeriodStart(c) PROVE RoomKept'
    <2>1. /\ call' = [call EXCEPT ![c] = call'[c]] /\ call'[c].op = call[c].op
          /\ call'[c].step \in {"peek", "activate", "bill"} /\ call[c].step = "start"
      BY <1>5, PeriodStartIsRead DEF SameTask, ReadPeriodStart, AtStep
    <2>2. UNCHANGED <<req, inv>>
      BY <1>5 DEF ReadPeriodStart
    <2> QED
      BY <1>u, <2>1, <2>2, RoomLeft DEF WillInsert, WillBill, BeforeWrite
  <1>6. ASSUME NEW c \in Callers, ReadSuspension(c) PROVE RoomKept'
    <2>1. /\ call' = [call EXCEPT ![c] = call'[c]] /\ call'[c].op = call[c].op
          /\ call'[c].step = "activate" /\ call[c].step = "peek"
      BY <1>6, SuspensionIsRead, ZenonT(60) DEF SameTask, ReadSuspension, AtStep
    <2>2. UNCHANGED <<req, inv>>
      BY <1>6 DEF ReadSuspension
    <2> QED
      BY <1>u, <2>1, <2>2, RoomLeft DEF WillInsert, WillBill, BeforeWrite
  <1>7. ASSUME NEW c \in Callers, Activate(c) PROVE RoomKept'
    <2> DEFINE r == call'[c].r
    <2>1. /\ r \in Requests /\ call' = [call EXCEPT ![c] = call'[c]]
          /\ \/ call[c].op = "approve" /\ Holds(call[c], r)
             \/ call[c].op \in {"assign", "pay"} /\ req[r].status = "none" /\ r = Fresh(req)
          /\ call'[c].op = call[c].op /\ call'[c].step \in {"return", "void"}
      BY <1>7, ActivateMoves DEF SameTask
    <2>2. call[c].step = "activate" /\ call[c].op \in Activations
      BY <1>7, AtStepFits DEF Activate, AtStep
    <2>3. /\ req' \in [Requests -> Row] /\ req'[r].status # "none"
          /\ \A q \in Requests \ {r} : (req'[q].status = "none") <=> (req[q].status = "none")
      BY <1>7, ActivateDoes
    <2>4. /\ Numbered(req')
          /\ \/ Cardinality(Used(req')) = Cardinality(Used(req))
             \/ /\ Cardinality(Used(req')) = Cardinality(Used(req)) + 1
                /\ WillInsert(call[c]) /\ ~WillInsert(call'[c])
      <3>1. CASE call[c].op = "approve" /\ Holds(call[c], r)
        <4>1. req[r].status # "none"
          BY <2>1, <3>1 DEF OfToday
        <4>2. \A q \in Requests : (req'[q].status = "none") <=> (req[q].status = "none")
          BY <2>3, <4>1
        <4>3. Used(req') = Used(req)
          BY <2>3, <4>2, UsedStays DEF Typed
        <4> QED
          BY <1>s, <4>3
      <3>2. CASE call[c].op \in {"assign", "pay"} /\ req[r].status = "none" /\ r = Fresh(req)
        <4>1. WillInsert(call[c]) /\ ~WillInsert(call'[c])
          BY <2>1, <2>2, <3>2 DEF WillInsert, BeforeWrite
        <4>2. Cardinality(Used(req)) < MaxRequests
          BY <4>1, ThereIsRoom
        <4>3. DOMAIN req = 1..MaxRequests /\ DOMAIN req' = 1..MaxRequests /\ MaxRequests \in Nat
          BY <2>3, CountsFit DEF Requests
        <4>4. Numbered(req') /\ Cardinality(Used(req')) = Cardinality(Used(req)) + 1
          BY <1>u, <2>3, <3>2, <4>2, <4>3, FreshGrows DEF Requests
        <4> QED
          BY <4>1, <4>4
      <3> QED
        BY <2>1, <3>1, <3>2
    <2>5. inv' = inv
      BY <1>7 DEF Activate
    <2>6. WillInsert(call'[c]) => WillInsert(call[c])
      BY <2>1 DEF WillInsert, BeforeWrite
    <2>7. WillBill(call'[c]) => WillBill(call[c])
      BY <2>1 DEF WillBill
    <2> HIDE DEF r
    <2> QED
      BY <1>u, <2>1, <2>4, <2>5, <2>6, <2>7, RoomLeft
  <1>8. ASSUME NEW c \in Callers, ReturnUnbilled(c) PROVE RoomKept'
    BY <1>u, <1>8, RoomLeft DEF ReturnUnbilled, Return
  <1>9. ASSUME NEW c \in Callers, VoidOthers(c) PROVE RoomKept'
    <2>1. /\ call' = [call EXCEPT ![c] = call'[c]] /\ call'[c].op = call[c].op
          /\ call'[c].step \in {"find", "return"}
      BY <1>9, OthersAreVoided, GoesTo DEF SameTask, Steps
    <2>2. req' = req /\ Used(inv') = Used(inv)
      BY <1>9, OthersAreVoided DEF VoidOthers
    <2> QED
      BY <1>u, <1>v, <2>1, <2>2, RoomLeft DEF WillInsert, WillBill, BeforeWrite
  <1>10. ASSUME NEW c \in Callers, FindOpen(c) PROVE RoomKept'
    <2>1. /\ call' = [call EXCEPT ![c] = call'[c]] /\ call'[c].op = call[c].op
          /\ call'[c].step = "record"
          /\ call'[c].found = 0 \/ call'[c].found \in OpenFor(call[c])
      BY <1>10, OpenIsFound DEF SameTask
    <2>2. UNCHANGED <<req, inv>>
      BY <1>10 DEF FindOpen
    <2>3. call'[c].found = 0 \/ call'[c].found \in Used(inv)
      BY <2>1 DEF OpenFor, OpenInvoices, Used, Typed
    <2> QED
      BY <1>u, <2>1, <2>2, <2>3, RoomLeft DEF WillInsert, WillBill, BeforeWrite
  <1>11. ASSUME NEW c \in Callers, RecordPayment(c) PROVE RoomKept'
    <2>1. /\ Numbered(inv') /\ Used(inv) \subseteq Used(inv') /\ WillBill(call[c])
          /\ Cardinality(Used(inv')) <= Cardinality(Used(inv)) + 1
      BY <1>11, PaymentIsRecorded
    <2>2. req' = req /\ call' = [call EXCEPT ![c] = Idle]
      BY <1>11 DEF RecordPayment, Return
    <2> QED
      BY <1>u, <2>1, <2>2, RoomLeft
  <1>12. ASSUME NEW c \in Callers, CreateIssued(c) PROVE RoomKept'
    <2>1. /\ Numbered(inv') /\ Used(inv) \subseteq Used(inv') /\ WillBill(call[c])
          /\ Cardinality(Used(inv')) <= Cardinality(Used(inv)) + 1
      BY <1>12, IssuedIsCreated
    <2>2. req' = req /\ call' = [call EXCEPT ![c] = Idle]
      BY <1>12 DEF CreateIssued, Return
    <2> QED
      BY <1>u, <2>1, <2>2, RoomLeft
  <1>13. ASSUME NEW c \in Callers, WriteVoid(c) PROVE RoomKept'
    <2>1. Used(inv') = Used(inv) /\ req' = req /\ call' = [call EXCEPT ![c] = Idle]
      BY <1>13, VoidIsWritten DEF WriteVoid, Return
    <2> QED
      BY <1>u, <1>v, <2>1, RoomLeft
  <1>14. ASSUME NEW c \in Callers, CallDies(c) PROVE RoomKept'
    BY <1>u, <1>14, RoomLeft DEF CallDies, Return
  <1>15. ASSUME NEW row \in job.rows, Remind(row) PROVE RoomKept'
    <2>1. row.r \in Requests /\ req[row.r].status # "none"
            /\ req'[row.r].status = req[row.r].status
            /\ \A q \in Requests \ {row.r} : req'[q] = req[q]
      BY <1>15, RemindDoes DEF RowsAreDistinct
    <2>2. Used(req') = Used(req)
      BY <2>1, OneStaysUsed
    <2>3. call' = call
      BY <1>15 DEF Remind
    <2> QED
      BY <1>15, <2>2, <2>3, RemindBills, RoomUntouched
  <1>16. ASSUME NEW row \in job.rows, Expire(row) PROVE RoomKept'
    <2>1. row.r \in Requests /\ req[row.r].status # "none" /\ req'[row.r].status # "none"
            /\ \A q \in Requests \ {row.r} : req'[q] = req[q]
      BY <1>16, ExpireDoes DEF RowsAreDistinct
    <2>2. Used(req') = Used(req)
      BY <2>1, OneStaysUsed
    <2>3. UNCHANGED <<call, inv>>
      BY <1>16 DEF Expire
    <2> QED
      BY <1>u, <2>2, <2>3, RoomUntouched
  <1>17. ASSUME MarkReminded PROVE RoomKept'
    <2>1. job.r \in Requests /\ req[job.r].status # "none"
            /\ req'[job.r].status = req[job.r].status
            /\ \A q \in Requests \ {job.r} : req'[q] = req[q]
      BY <1>17, MarkDoes DEF RowsAreDistinct, MarkReminded
    <2>2. Used(req') = Used(req)
      BY <2>1, OneStaysUsed
    <2>3. UNCHANGED <<call, inv>>
      BY <1>17 DEF MarkReminded
    <2> QED
      BY <1>u, <2>2, <2>3, RoomUntouched
  <1>18. ASSUME \/ TickStarts \/ NextPhase \/ TickEnds \/ TickDies \/ NextDay
                \/ UNCHANGED vars
         PROVE  RoomKept'
    <2>1. UNCHANGED <<req, inv, call>>
      BY <1>18 DEF TickStarts, NextPhase, TickEnds, TickDies, NextDay, vars
    <2> QED
      BY <1>u, <2>1, RoomUntouched
  <1> QED
    BY <1>1, <1>2, <1>3, <1>4, <1>5, <1>6, <1>7, <1>8, <1>9, <1>10, <1>11, <1>12,
       <1>13, <1>14, <1>15, <1>16, <1>17, <1>18, StepIs DEF CallerStep

-----------------------------------------------------------------------------
(* What a caller's step does to each request, and to who holds it          *)

Kept(r) == req'[r] = req[r]
Requested(r) ==
  req[r].status = "none" /\ req'[r].status = "PENDING" /\ NoNotices(req'[r])
Declined(r) ==
  /\ Held(r) /\ req'[r].status \in {"CANCELLED", "REJECTED"}
  /\ SameNotices(req'[r], req[r])
Activated(r) ==
  /\ Held(r) \/ req[r].status = "none"
  /\ req'[r].status = "APPROVED" /\ req'[r].reviewed = today /\ NoNotices(req'[r])
  /\ req'[r].expires # NoExpiry => req'[r].expires >= today + Shortest
Replaced(r) ==
  /\ req[r].status = "APPROVED" /\ req'[r].status = "EXPIRED"
  /\ SameTerms(req'[r], req[r]) /\ SameNotices(req'[r], req[r])

RowsMove ==
  \A r \in Requests : Kept(r) \/ Requested(r) \/ Declined(r) \/ Activated(r) \/ Replaced(r)

\* A request is held on, or is pending when an operation takes it up.
HoldsMove ==
  \A d \in Callers, r \in Requests :
     Holds(call'[d], r) => Holds(call[d], r) \/ (req[r].status = "PENDING" /\ Kept(r))

StartsMove ==
  \A d \in Callers : call'[d].step \in {"peek", "activate", "bill"} => call'[d].start >= today

CallerEffect ==
  /\ UNCHANGED <<today, ticked, job>> /\ crashes' \in {crashes, crashes + 1}
  /\ RowsMove /\ HoldsMove /\ StartsMove /\ OnePeriodPerTarget' /\ OfMembers'
  /\ \A i \in Invoices : inv'[i].status # "none" => inv'[i].end >= inv'[i].start + Shortest

\* The steps that leave the requests alone.
LEMMA RowsKept ==
  ASSUME OnePeriodPerTarget, OfMembers, req' = req
  PROVE  RowsMove /\ OnePeriodPerTarget' /\ OfMembers'
  BY DEF RowsMove, Kept, OnePeriodPerTarget, OfMembers

\* The caller that moves takes up nothing, or pending requests alone, and
\* begins nothing before today.
LEMMA OneCallerMoves ==
  ASSUME Typed, OfToday, NEW c \in Callers, NEW k, call' = [call EXCEPT ![c] = k],
         \A r \in Requests : Holds(k, r) =>
            Holds(call[c], r) \/ (req[r].status = "PENDING" /\ Kept(r)),
         k.step \in {"peek", "activate", "bill"} => k.start >= today
  PROVE  HoldsMove /\ StartsMove
  <1>1. call'[c] = k /\ \A d \in Callers \ {c} : call'[d] = call[d]
    BY DEF Typed
  <1>2. HoldsMove
    BY <1>1 DEF HoldsMove
  <1>3. StartsMove
    BY <1>1 DEF StartsMove, OfToday
  <1> QED
    BY <1>2, <1>3

\* An activation leaves one period to its team and target.
LEMMA ActivateIsOne ==
  ASSUME Typed, RoomKept, PeriodsInv, NEW c \in Callers, Activate(c)
  PROVE  RowsMove /\ OnePeriodPerTarget' /\ OfMembers'
  <1> DEFINE k == call[c]
             r == call'[c].r
  <1>1. /\ r \in Requests /\ (Held(r) \/ req[r].status = "none")
        /\ req'[r].status = "APPROVED" /\ req'[r].team = k.team
        /\ req'[r].target = k.target /\ req'[r].reviewed = today /\ NoNotices(req'[r])
        /\ req'[r].expires # NoExpiry => req'[r].expires >= today + Shortest
    BY ActivateMoves, ActivateDoes DEF Held, PeriodsInv
  <1>2. \A q \in Requests \ {r} :
           IF req[q].status = "APPROVED" /\ req[q].team = k.team /\ req[q].target = k.target
           THEN /\ req'[q].status = "EXPIRED" /\ SameTerms(req'[q], req[q])
                /\ SameNotices(req'[q], req[q])
           ELSE req'[q] = req[q]
    BY ActivateDoes DEF PeriodsInv
  <1>3. k.target # NoUser => <<k.team, k.target>> \in Members
    BY CallIsFormed DEF WellFormed
  <1> HIDE DEF r, k
  <1>4. RowsMove
    <2>1. Activated(r)
      BY <1>1 DEF Activated
    <2>2. \A q \in Requests \ {r} : Kept(q) \/ Replaced(q)
      BY <1>2 DEF Kept, Replaced
    <2> QED
      BY <2>1, <2>2 DEF RowsMove
  <1>5. OnePeriodPerTarget'
    <2>1. ASSUME NEW q \in Requests \ {r}, req'[q].status = "APPROVED"
          PROVE  /\ req'[q] = req[q]
                 /\ ~(req'[q].team = k.team /\ req'[q].target = k.target)
      BY <1>2, <2>1
    <2>2. ASSUME NEW q \in Requests, NEW s \in Requests,
                 req'[q].status = "APPROVED", req'[s].status = "APPROVED",
                 req'[q].team = req'[s].team, req'[q].target = req'[s].target
          PROVE  q = s
      <3>1. CASE q = r \/ s = r
        BY <1>1, <2>1, <2>2, <3>1
      <3>2. CASE q # r /\ s # r
        BY <2>1, <2>2, <3>2 DEF PeriodsInv, OnePeriodPerTarget
      <3> QED
        BY <3>1, <3>2
    <2> QED
      BY <2>2 DEF OnePeriodPerTarget
  <1>6. OfMembers'
    BY <1>1, <1>2, <1>3 DEF OfMembers, PeriodsInv, SameTerms
  <1> QED
    BY <1>4, <1>5, <1>6

LEMMA CallerDoes ==
  ASSUME Typed, RoomKept, PeriodsInv, NEW c \in Callers, CallerStep(c)
  PROVE  CallerEffect
  <1> USE DEF PeriodsInv
  <1>l. \A i \in Invoices : inv[i].status # "none" => inv[i].end >= inv[i].start + Shortest
    BY DEF LastLong
  <1>i. /\ \A r : ~Holds(Idle, r)
        /\ Idle.step \notin {"peek", "activate", "bill"}
    BY RecordsFit DEF Idle
  <1>1. ASSUME Begins(c) PROVE CallerEffect
    <2>1. PICK to : Begin(c, to) /\ Opening(to)
      BY <1>1 DEF Begins
    <2>2. /\ UNCHANGED <<today, ticked, job, crashes, req, inv>>
          /\ call' = [call EXCEPT ![c] = to]
      BY <2>1 DEF Begin
    <2>3. HoldsMove /\ StartsMove
      BY <2>1, <2>2, OneCallerMoves DEF Opening, Kept
    <2> QED
      BY <1>l, <2>2, <2>3, RowsKept DEF CallerEffect
  <1>2. ASSUME Blocks(c) PROVE CallerEffect
    <2>1. UNCHANGED <<today, ticked, job, crashes, req, inv, call>>
      BY <1>2 DEF Blocks, SetUserBlocked
    <2>2. HoldsMove /\ StartsMove
      BY <2>1 DEF HoldsMove, StartsMove, OfToday
    <2> QED
      BY <1>l, <2>1, <2>2, RowsKept DEF CallerEffect
  <1>3. ASSUME InsertRequest(c) PROVE CallerEffect
    <2> DEFINE r == Fresh(req)
    <2>1. /\ UNCHANGED <<today, ticked, job, crashes, inv>>
          /\ call' = [call EXCEPT ![c] = Idle]
      BY <1>3 DEF InsertRequest, Return
    <2>2. /\ r \in Requests /\ Requested(r) /\ req'[r].status = "PENDING"
          /\ req'[r].team = call[c].team /\ req'[r].target = call[c].target
          /\ \A q \in Requests \ {r} : req'[q] = req[q]
      BY <1>3, InsertDoes DEF Requested
    <2> HIDE DEF r
    <2>3. RowsMove
      BY <2>2 DEF RowsMove, Kept
    <2>4. OnePeriodPerTarget'
      BY <2>2 DEF OnePeriodPerTarget
    <2>5. OfMembers'
      BY <2>2, CallIsFormed DEF OfMembers, WellFormed
    <2>6. HoldsMove /\ StartsMove
      BY <1>i, <2>1, OneCallerMoves
    <2> QED
      BY <1>l, <2>1, <2>3, <2>4, <2>5, <2>6 DEF CallerEffect
  <1>4. ASSUME WriteDecline(c) PROVE CallerEffect
    <2> DEFINE r == call[c].r
    <2>1. /\ UNCHANGED <<today, ticked, job, crashes, inv>>
          /\ call' = [call EXCEPT ![c] = Idle]
      BY <1>4 DEF WriteDecline, Return
    <2>2. /\ r \in Requests /\ Holds(call[c], r)
          /\ req'[r].status \in {"CANCELLED", "REJECTED"}
          /\ SameNotices(req'[r], req[r])
          /\ req'[r].team = req[r].team /\ req'[r].target = req[r].target
          /\ \A q \in Requests \ {r} : req'[q] = req[q]
      BY <1>4, DeclineDoes
    <2> HIDE DEF r
    <2>3. RowsMove
      BY <2>2 DEF RowsMove, Kept, Declined, Held
    <2>4. OnePeriodPerTarget'
      BY <2>2 DEF OnePeriodPerTarget
    <2>5. OfMembers'
      BY <2>2 DEF OfMembers
    <2>6. HoldsMove /\ StartsMove
      BY <1>i, <2>1, OneCallerMoves
    <2> QED
      BY <1>l, <2>1, <2>3, <2>4, <2>5, <2>6 DEF CallerEffect
  <1>5. ASSUME ReadPeriodStart(c) PROVE CallerEffect
    <2>1. UNCHANGED <<today, ticked, job, crashes, req, inv>>
      BY <1>5 DEF ReadPeriodStart
    <2>2. /\ call' = [call EXCEPT ![c] = call'[c]] /\ call'[c].op = call[c].op
          /\ call'[c].r = call[c].r /\ call[c].step = "start"
          /\ call'[c].step \in {"bill", "activate", "peek"}
          /\ call'[c].start = NextPeriodStart(call[c].team, call[c].target, call[c].plan)
      BY <1>5, PeriodStartIsRead, ZenonT(60) DEF SameTask, ReadPeriodStart, AtStep
    <2>3. call'[c].start >= today
      BY <2>2, PeriodStartFits
    <2>4. HoldsMove /\ StartsMove
      BY <2>2, <2>3, OneCallerMoves DEF Holds, BeforeWrite
    <2> QED
      BY <1>l, <2>1, <2>4, RowsKept DEF CallerEffect
  <1>6. ASSUME ReadSuspension(c) PROVE CallerEffect
    <2>1. UNCHANGED <<today, ticked, job, crashes, req, inv>>
      BY <1>6 DEF ReadSuspension
    <2>2. /\ call' = [call EXCEPT ![c] = call'[c]] /\ call'[c].op = call[c].op
          /\ call'[c].r = call[c].r /\ call[c].step = "peek"
          /\ call'[c].step = "activate" /\ call'[c].start = call[c].start
      BY <1>6, SuspensionIsRead, ZenonT(60) DEF SameTask, ReadSuspension, AtStep
    <2>3. HoldsMove /\ StartsMove
      BY <2>2, OneCallerMoves DEF Holds, BeforeWrite, OfToday
    <2> QED
      BY <1>l, <2>1, <2>3, RowsKept DEF CallerEffect
  <1>7. ASSUME Activate(c) PROVE CallerEffect
    <2>1. UNCHANGED <<today, ticked, job, crashes, inv>>
      BY <1>7 DEF Activate
    <2>2. /\ call' = [call EXCEPT ![c] = call'[c]]
          /\ call'[c].step \in {"return", "void"}
      BY <1>7, ActivateMoves
    <2>3. HoldsMove /\ StartsMove
      BY <2>2, OneCallerMoves DEF Holds, BeforeWrite
    <2> QED
      BY <1>7, <1>l, <2>1, <2>3, ActivateIsOne DEF CallerEffect
  <1>8. ASSUME ReturnUnbilled(c) \/ CallDies(c) PROVE CallerEffect
    <2>1. /\ UNCHANGED <<today, ticked, job, req, inv>> /\ crashes' \in {crashes, crashes + 1}
          /\ call' = [call EXCEPT ![c] = Idle]
      BY <1>8 DEF ReturnUnbilled, CallDies, Return
    <2>2. HoldsMove /\ StartsMove
      BY <1>i, <2>1, OneCallerMoves
    <2> QED
      BY <1>l, <2>1, <2>2, RowsKept DEF CallerEffect
  <1>9. ASSUME VoidOthers(c) PROVE CallerEffect
    <2>1. UNCHANGED <<today, ticked, job, crashes, req>>
      BY <1>9 DEF VoidOthers
    <2>2. /\ call' = [call EXCEPT ![c] = call'[c]] /\ call'[c].step \in {"find", "return"}
      BY <1>9, OthersAreVoided, GoesTo DEF Steps
    <2>3. HoldsMove /\ StartsMove
      BY <2>2, OneCallerMoves DEF Holds, BeforeWrite
    <2> QED
      BY <1>9, <2>1, <2>3, RowsKept, OthersAreVoided DEF CallerEffect, InvoicesKept
  <1>10. ASSUME FindOpen(c) PROVE CallerEffect
    <2>1. UNCHANGED <<today, ticked, job, crashes, req, inv>>
      BY <1>10 DEF FindOpen
    <2>2. call' = [call EXCEPT ![c] = call'[c]] /\ call'[c].step = "record"
      BY <1>10, OpenIsFound
    <2>3. HoldsMove /\ StartsMove
      BY <2>2, OneCallerMoves DEF Holds, BeforeWrite
    <2> QED
      BY <1>l, <2>1, <2>3, RowsKept DEF CallerEffect
  <1>11. ASSUME RecordPayment(c) \/ CreateIssued(c) \/ WriteVoid(c) PROVE CallerEffect
    <2>1. /\ UNCHANGED <<today, ticked, job, crashes, req>>
          /\ call' = [call EXCEPT ![c] = Idle]
      BY <1>11 DEF RecordPayment, CreateIssued, WriteVoid, Return
    <2>2. HoldsMove /\ StartsMove
      BY <1>i, <2>1, OneCallerMoves
    <2>3. InvoicesKept
      BY <1>11, PaymentIsRecorded, IssuedIsCreated, VoidIsWritten
    <2> QED
      BY <2>1, <2>2, <2>3, RowsKept DEF CallerEffect, InvoicesKept
  <1> QED
    BY <1>1, <1>2, <1>3, <1>4, <1>5, <1>6, <1>7, <1>8, <1>9, <1>10, <1>11 DEF CallerStep

LEMMA RowMoved ==
  ASSUME Typed, RowsMove, NEW r \in Requests
  PROVE  /\ req[r].status # "none" => req'[r].status # "none"
         /\ (req'[r].status = "APPROVED" /\ req'[r].expires # NoExpiry) =>
              \/ Kept(r)
              \/ req'[r].reviewed = today /\ req'[r].expires >= today + Shortest
                 /\ NoNotices(req'[r])
         /\ ~Held(r) /\ req[r].status \in {"APPROVED", "EXPIRED"} =>
              /\ req'[r].status \in {"APPROVED", "EXPIRED"}
              /\ SameTerms(req'[r], req[r]) /\ SameNotices(req'[r], req[r])
         /\ SameNotices(req'[r], req[r]) \/ NoNotices(req'[r])
  BY DEF RowsMove, Kept, Requested, Declined, Activated, Replaced, SameNotices, SameTerms

LEMMA CallerKeepsPeriods ==
  ASSUME Typed, Typed', PeriodsInv, CallerEffect
  PROVE  PeriodsInv'
  <1> USE DEF PeriodsInv
  <1>j. today' = today /\ ticked' = ticked /\ job' = job /\ crashes' >= crashes
          /\ RowsMove /\ HoldsMove
    BY TodayIsNat DEF CallerEffect
  <1>r. \A row \in job.rows : row.r \in Requests
    BY JobFits
  <1>h. ASSUME NEW r \in Requests, Held(r)' PROVE Held(r) \/ (req[r].status = "PENDING" /\ Kept(r))
    BY <1>j, <1>h DEF Held, HoldsMove
  <1>1. LastLong'
    <2>1. ASSUME NEW r \in Requests, Running(r)'
          PROVE  req'[r].expires >= req'[r].reviewed + Shortest
      BY <1>j, <2>1, RowMoved DEF Running, Kept, LastLong
    <2> QED
      BY <1>j, <2>1 DEF LastLong, CallerEffect
  <1>2. OfToday'
    <2>1. ASSUME NEW d \in Callers, NEW r \in Requests, Holds(call'[d], r)
          PROVE  /\ req'[r].status # "none"
                 /\ Running(r)' => req'[r].expires >= today + Shortest
      <3>1. CASE Holds(call[d], r)
        BY <1>j, <3>1, RowMoved DEF OfToday, Running, Kept
      <3>2. CASE req[r].status = "PENDING" /\ Kept(r)
        BY <3>2 DEF Kept, Running
      <3> QED
        BY <1>j, <2>1, <3>1, <3>2 DEF HoldsMove
    <2>2. StartsMove
      BY DEF CallerEffect
    <2> QED
      BY <1>j, <2>1, <2>2 DEF OfToday, StartsMove
  <1>3. RowsAreDistinct'
    BY <1>j, <1>r, JobFits, RowMoved DEF RowsAreDistinct
  <1>4. DueIsUnheld'
    <2>1. ASSUME NEW row \in job.rows, job.step = "expire"
          PROVE  /\ req'[row.r].status \in {"APPROVED", "EXPIRED"} /\ ~Held(row.r)'
                 /\ req'[row.r].expires = row.expires /\ row.expires \in 1..today
      <3>1. /\ req[row.r].status \in {"APPROVED", "EXPIRED"} /\ ~Held(row.r)
            /\ req[row.r].expires = row.expires /\ row.expires \in 1..today
            /\ row.r \in Requests
        BY <1>r, <2>1 DEF DueIsUnheld
      <3>2. /\ req'[row.r].status \in {"APPROVED", "EXPIRED"}
            /\ req'[row.r].expires = req[row.r].expires
        BY <1>j, <3>1, RowMoved DEF SameTerms
      <3>3. ~Held(row.r)'
        BY <1>h, <3>1
      <3> QED
        BY <3>1, <3>2, <3>3
    <2> QED
      BY <1>j, <2>1 DEF DueIsUnheld
  <1>5. Closing'
    <2>1. ASSUME NEW r \in Requests, Running(r)'
          PROVE  /\ req'[r].expires + crashes' >= today
                 /\ ticked /\ job = Resting => req'[r].expires + crashes' > today
                 /\ job.step = "expire" =>
                      req'[r].expires > today \/ \E row \in job.rows : row.r = r
      <3>1. req'[r].expires \in Nat /\ req[r].expires \in Nat /\ crashes' \in Nat
        BY TodayIsNat, ActivationAssumption DEF Typed, Row
      <3>2. CASE Kept(r)
        BY <1>j, <2>1, <3>1, <3>2, TodayIsNat DEF Kept, Closing, Running
      <3>3. CASE req'[r].expires >= today + Shortest
        BY <3>1, <3>3, TodayIsNat, ConstantsFit
      <3> QED
        BY <1>j, <2>1, <3>2, <3>3, RowMoved DEF Running
    <2> QED
      BY <1>j, <2>1 DEF Closing
  <1>6. RemindersRecorded'
    <2>1. ASSUME NEW r \in Requests
          PROVE  /\ req'[r].mails <= crashes' + (IF req'[r].reminded THEN 1 ELSE 0)
                                     + (IF job.step = "first" /\ job.r = r THEN 1 ELSE 0)
                 /\ req'[r].finals <= crashes' + (IF req'[r].finalReminded THEN 1 ELSE 0)
                                      + (IF job.step = "final" /\ job.r = r THEN 1 ELSE 0)
      <3>1. /\ crashes' \in Nat /\ crashes \in Nat
            /\ req[r].mails \in Nat /\ req[r].finals \in Nat
        BY TodayIsNat, ActivationAssumption DEF Typed, Row
      <3>2. CASE NoNotices(req'[r])
        <4>1. /\ (IF req'[r].reminded THEN 1 ELSE 0) \in Nat
              /\ (IF job.step = "first" /\ job.r = r THEN 1 ELSE 0) \in Nat
              /\ (IF req'[r].finalReminded THEN 1 ELSE 0) \in Nat
              /\ (IF job.step = "final" /\ job.r = r THEN 1 ELSE 0) \in Nat
          OBVIOUS
        <4>2. req'[r].mails = 0 /\ req'[r].finals = 0
          BY <3>2 DEF NoNotices
        <4>3. \A x, y, z \in Nat : 0 <= x + y + z
          OBVIOUS
        <4> QED
          BY <3>1, <4>1, <4>2, <4>3, SMTT(30)
      <3>3. CASE SameNotices(req'[r], req[r])
        <4>1. /\ req[r].mails <= crashes + (IF req[r].reminded THEN 1 ELSE 0)
                                   + (IF job.step = "first" /\ job.r = r THEN 1 ELSE 0)
              /\ req[r].finals <= crashes + (IF req[r].finalReminded THEN 1 ELSE 0)
                                    + (IF job.step = "final" /\ job.r = r THEN 1 ELSE 0)
          BY DEF RemindersRecorded
        <4> QED
          BY <1>j, <3>1, <3>3, <4>1 DEF SameNotices
      <3> QED
        BY <1>j, <3>2, <3>3, RowMoved
    <2>2. ASSUME NEW r \in Requests
          PROVE  /\ ~req[r].reminded => ~req'[r].reminded
                 /\ ~req[r].finalReminded => ~req'[r].finalReminded
      BY <1>j, RowMoved DEF SameNotices, NoNotices
    <2>3. job.r # 0 => job.r \in Requests
      BY JobFits
    <2>4. job.step = "first" => /\ \A row \in job.rows : ~req'[row.r].reminded
                                /\ job.r # 0 => ~req'[job.r].reminded
      BY <1>r, <2>2, <2>3 DEF RemindersRecorded
    <2>5. job.step = "final" => /\ \A row \in job.rows : ~req'[row.r].finalReminded
                                /\ job.r # 0 => ~req'[job.r].finalReminded
      BY <1>r, <2>2, <2>3 DEF RemindersRecorded
    <2> QED
      BY <1>j, <2>1, <2>4, <2>5 DEF RemindersRecorded
  <1> QED
    BY <1>1, <1>2, <1>3, <1>4, <1>5, <1>6 DEF CallerEffect

-----------------------------------------------------------------------------
(* Periods under the tick and the clock                                    *)

\* The tick changes no terms, and no status but to EXPIRED.
TermsKept ==
  \A r \in Requests :
     /\ SameTerms(req'[r], req[r])
     /\ \/ req'[r].status = req[r].status
        \/ req[r].status # "none" /\ req'[r].status = "EXPIRED"

TickFrame ==
  /\ UNCHANGED <<today, call>> /\ TermsKept
  /\ \A i \in Invoices : inv'[i].status # "none" => inv'[i].end >= inv'[i].start + Shortest

LEMMA RowsSame ==
  ASSUME req' = req
  PROVE  TermsKept
  BY DEF TermsKept, SameTerms

LEMMA TickKeepsRows ==
  ASSUME Typed, PeriodsInv, TickFrame,
         \A row \in job'.rows : row.expires >= row.reviewed + Shortest
  PROVE  LastLong' /\ OfMembers' /\ OfToday' /\ OnePeriodPerTarget'
  <1>1. LastLong'
    BY DEF LastLong, PeriodsInv, TickFrame, TermsKept, SameTerms, Running
  <1>2. OfMembers'
    BY DEF OfMembers, PeriodsInv, TickFrame, TermsKept, SameTerms
  <1>3. OfToday'
    BY DEF OfToday, PeriodsInv, TickFrame, TermsKept, SameTerms, Running
  <1>4. OnePeriodPerTarget'
    BY DEF OnePeriodPerTarget, PeriodsInv, TickFrame, TermsKept, SameTerms
  <1> QED
    BY <1>1, <1>2, <1>3, <1>4

\* Rows the tick reads run, and so last long enough.
LEMMA ReadRowsRun ==
  ASSUME Typed, PeriodsInv, NEW ids \in SUBSET Requests, \A r \in ids : Running(r)
  PROVE  \A row \in Snapshot(ids) : /\ row.expires >= row.reviewed + Shortest
                                    /\ row.r \in ids /\ row.r # 0
                                    /\ row.expires = req[row.r].expires
                                    /\ req[row.r].status = "APPROVED"
  <1>1. 0 \notin Requests
    BY DEF Requests
  <1> QED
    BY <1>1, SnapshotIs DEF PeriodsInv, LastLong, Running

LEMMA PhaseKeepsReminders ==
  ASSUME Typed, RemindersRecorded, UNCHANGED <<req, crashes>>, job.r = 0, job'.r = 0,
         job'.step = "first" => \A row \in job'.rows : ~req[row.r].reminded,
         job'.step = "final" => \A row \in job'.rows : ~req[row.r].finalReminded
  PROVE  RemindersRecorded'
  <1>1. \A r \in Requests : r # 0
    BY DEF Requests
  <1>2. ASSUME NEW r \in Requests
        PROVE  /\ req'[r].mails <= crashes' + (IF req'[r].reminded THEN 1 ELSE 0)
                                   + (IF job'.step = "first" /\ job'.r = r THEN 1 ELSE 0)
               /\ req'[r].finals <= crashes' + (IF req'[r].finalReminded THEN 1 ELSE 0)
                                    + (IF job'.step = "final" /\ job'.r = r THEN 1 ELSE 0)
    <2>1. /\ req[r].mails <= crashes + (IF req[r].reminded THEN 1 ELSE 0)
                             + (IF job.step = "first" /\ job.r = r THEN 1 ELSE 0)
          /\ req[r].finals <= crashes + (IF req[r].finalReminded THEN 1 ELSE 0)
                              + (IF job.step = "final" /\ job.r = r THEN 1 ELSE 0)
      BY DEF RemindersRecorded
    <2>2. /\ ~(job.step = "first" /\ job.r = r) /\ ~(job'.step = "first" /\ job'.r = r)
          /\ ~(job.step = "final" /\ job.r = r) /\ ~(job'.step = "final" /\ job'.r = r)
      BY <1>1
    <2> QED
      BY <2>1, <2>2
  <1> QED
    BY <1>2 DEF RemindersRecorded

LEMMA TickStartKeepsPeriods ==
  ASSUME Typed, PeriodsInv, TickStarts
  PROVE  PeriodsInv'
  <1> DEFINE ids == {r \in EndWithin(ReminderDays) : ~req[r].reminded}
  <1>1. /\ job'.step = "first" /\ job'.rows = Snapshot(ids) /\ job'.r = 0
        /\ job' # Resting /\ job = Resting
    BY TickDoes DEF FirstWindow
  <1>2. ids \in SUBSET Requests /\ \A r \in ids : Running(r) /\ ~req[r].reminded
    BY DEF EndWithin, Approved, Running
  <1>3. UNCHANGED <<today, crashes, req, inv, call>>
    BY DEF TickStarts
  <1> HIDE DEF ids
  <1>4. \A row \in job'.rows : /\ row.expires >= row.reviewed + Shortest
                               /\ row.r \in ids /\ row.r # 0
                               /\ req[row.r].status = "APPROVED"
    BY <1>1, <1>2, ReadRowsRun
  <1>5. TickFrame
    BY <1>3, RowsSame DEF TickFrame, PeriodsInv, LastLong
  <1>6. LastLong' /\ OfMembers' /\ OfToday' /\ OnePeriodPerTarget'
    BY <1>4, <1>5, TickKeepsRows
  <1>7. RowsAreDistinct'
    BY <1>1, <1>2, <1>3, <1>4, SnapshotIs DEF RowsAreDistinct
  <1>8. DueIsUnheld'
    BY <1>1 DEF DueIsUnheld
  <1>9. Closing'
    BY <1>1, <1>3 DEF Closing, Running, PeriodsInv
  <1>10. RemindersRecorded'
    BY <1>1, <1>2, <1>3, <1>4, JobFits, PhaseKeepsReminders DEF PeriodsInv
  <1> QED
    BY <1>6, <1>7, <1>8, <1>9, <1>10 DEF PeriodsInv

LEMMA PhaseKeepsPeriods ==
  ASSUME Typed, PeriodsInv, NextPhase
  PROVE  PeriodsInv'
  <1>1. /\ UNCHANGED <<today, ticked, crashes, req, inv, call>>
        /\ job' # Resting /\ job # Resting /\ job.r = 0 /\ job'.r = 0 /\ job.rows = {}
    BY PhaseDoes DEF NextPhase
  <1>2. TickFrame
    BY <1>1, RowsSame DEF TickFrame, PeriodsInv, LastLong
  <1>3. CASE job'.step = "final" /\ job'.rows = FinalWindow
    <2> DEFINE ids == {r \in EndWithin(FinalDays) : ~req[r].finalReminded}
    <2>1. job'.rows = Snapshot(ids)
      BY <1>3 DEF FinalWindow
    <2>2. ids \in SUBSET Requests /\ \A r \in ids : Running(r) /\ ~req[r].finalReminded
      BY DEF EndWithin, Approved, Running
    <2> HIDE DEF ids
    <2>3. \A row \in job'.rows : /\ row.expires >= row.reviewed + Shortest
                                 /\ row.r \in ids /\ row.r # 0
                                 /\ req[row.r].status = "APPROVED"
      BY <2>1, <2>2, ReadRowsRun
    <2>4. LastLong' /\ OfMembers' /\ OfToday' /\ OnePeriodPerTarget'
      BY <1>2, <2>3, TickKeepsRows
    <2>5. RowsAreDistinct'
      BY <1>1, <2>1, <2>2, <2>3, SnapshotIs DEF RowsAreDistinct
    <2>6. DueIsUnheld'
      BY <1>3 DEF DueIsUnheld
    <2>7. Closing'
      BY <1>1, <1>3 DEF Closing, Running, PeriodsInv
    <2>8. RemindersRecorded'
      BY <1>1, <1>3, <2>2, <2>3, PhaseKeepsReminders DEF PeriodsInv
    <2> QED
      BY <2>4, <2>5, <2>6, <2>7, <2>8 DEF PeriodsInv
  <1>4. CASE job'.step = "expire" /\ job'.rows = DueRows
    <2> DEFINE ids == {r \in Approved : /\ req[r].expires # NoExpiry
                                        /\ req[r].expires <= today}
    <2>1. job'.rows = Snapshot(ids)
      BY <1>4 DEF DueRows
    <2>2. ids \in SUBSET Requests /\ \A r \in ids : Running(r) /\ req[r].expires <= today
      BY DEF Approved, Running
    <2>3. \A r \in Requests : Running(r) /\ req[r].expires <= today => r \in ids
      BY DEF Approved, Running
    <2> HIDE DEF ids
    <2>4. \A row \in job'.rows : /\ row.expires >= row.reviewed + Shortest
                                 /\ row.r \in ids /\ row.r # 0
                                 /\ row.expires = req[row.r].expires
                                 /\ req[row.r].status = "APPROVED"
      BY <2>1, <2>2, ReadRowsRun
    <2>5. LastLong' /\ OfMembers' /\ OfToday' /\ OnePeriodPerTarget'
      BY <1>2, <2>4, TickKeepsRows
    <2>6. RowsAreDistinct'
      BY <1>1, <2>1, <2>2, <2>4, SnapshotIs DEF RowsAreDistinct
    <2>7. DueIsUnheld'
      <3>1. ASSUME NEW row \in job'.rows
            PROVE  ~Held(row.r) /\ req[row.r].expires \in 1..today
        <4>1. row.r \in Requests /\ Running(row.r) /\ req[row.r].expires <= today
          BY <2>2, <2>4
        <4>2. req[row.r].expires \in Nat /\ req[row.r].expires # 0
          BY <4>1 DEF Typed, Row, Running, NoExpiry
        <4>3. req[row.r].expires \in 1..today
          BY <4>1, <4>2, TodayIsNat
        <4>4. ~Held(row.r)
          BY <4>1, <4>2, TodayIsNat, ConstantsFit DEF Held, PeriodsInv, OfToday
        <4> QED
          BY <4>3, <4>4
      <3> QED
        BY <1>1, <2>4, <3>1 DEF DueIsUnheld, Held
    <2>8. Closing'
      <3>1. ASSUME NEW r \in Requests, Running(r)
            PROVE  req[r].expires > today \/ \E row \in job'.rows : row.r = r
        <4>1. CASE req[r].expires <= today
          BY <2>1, <2>2, <2>3, <3>1, <4>1, SnapshotIs
        <4>2. CASE ~(req[r].expires <= today)
          BY <4>2, TodayIsNat DEF Typed, Row
        <4> QED
          BY <4>1, <4>2
      <3> QED
        BY <1>1, <3>1 DEF Closing, Running, PeriodsInv
    <2>9. RemindersRecorded'
      BY <1>1, <1>4, PhaseKeepsReminders DEF PeriodsInv
    <2> QED
      BY <2>5, <2>6, <2>7, <2>8, <2>9 DEF PeriodsInv
  <1> QED
    BY <1>3, <1>4, PhaseDoes

LEMMA RestKeepsPeriods ==
  ASSUME Typed, Typed', PeriodsInv, TickEnds \/ TickDies
  PROVE  PeriodsInv'
  <1>1. /\ UNCHANGED <<today, req, inv, call>> /\ job' = Resting /\ job # Resting
        /\ job'.step = "idle" /\ job'.rows = {} /\ job'.r = 0
    BY JobFits DEF TickEnds, TickDies
  <1>2. TickFrame
    BY <1>1, RowsSame DEF TickFrame, PeriodsInv, LastLong
  <1>3. LastLong' /\ OfMembers' /\ OfToday' /\ OnePeriodPerTarget'
    BY <1>1, <1>2, TickKeepsRows
  <1>4. RowsAreDistinct' /\ DueIsUnheld'
    BY <1>1 DEF RowsAreDistinct, DueIsUnheld
  <1>5. CASE TickEnds
    <2>1. job.step = "expire" /\ job.rows = {} /\ job.r = 0 /\ crashes' = crashes
      BY <1>5, JobFits DEF TickEnds
    <2>2. Closing'
      <3>1. ASSUME NEW r \in Requests, Running(r)
            PROVE  /\ req[r].expires + crashes >= today /\ req[r].expires + crashes > today
        BY <2>1, <3>1, TodayIsNat DEF Closing, PeriodsInv, Typed, Row
      <3> QED
        BY <1>1, <2>1, <3>1 DEF Closing, Running
    <2>3. RemindersRecorded'
      BY <1>1, <2>1, PhaseKeepsReminders DEF PeriodsInv
    <2> QED
      BY <1>3, <1>4, <2>2, <2>3 DEF PeriodsInv
  <1>6. CASE TickDies
    <2>1. crashes' = crashes + 1 /\ crashes \in Nat
      BY <1>6, TodayIsNat DEF TickDies
    <2>2. Closing'
      <3>1. ASSUME NEW r \in Requests, Running(r)
            PROVE  req[r].expires + crashes' >= today /\ req[r].expires + crashes' > today
        BY <2>1, <3>1, TodayIsNat DEF Closing, PeriodsInv, Typed, Row
      <3> QED
        BY <1>1, <3>1 DEF Closing, Running
    <2>3. RemindersRecorded'
      <3>1. ASSUME NEW r \in Requests
            PROVE  /\ req[r].mails <= crashes' + (IF req[r].reminded THEN 1 ELSE 0) + 0
                   /\ req[r].finals <= crashes' + (IF req[r].finalReminded THEN 1 ELSE 0) + 0
        <4>1. /\ req[r].mails <= crashes + (IF req[r].reminded THEN 1 ELSE 0)
                                 + (IF job.step = "first" /\ job.r = r THEN 1 ELSE 0)
              /\ req[r].finals <= crashes + (IF req[r].finalReminded THEN 1 ELSE 0)
                                  + (IF job.step = "final" /\ job.r = r THEN 1 ELSE 0)
          BY DEF RemindersRecorded, PeriodsInv
        <4>2. req[r].mails \in Nat /\ req[r].finals \in Nat
          BY DEF Typed, Row
        <4> QED
          BY <2>1, <4>1, <4>2
      <3>2. ~(job'.step = "first") /\ ~(job'.step = "final")
        BY <1>1
      <3> QED
        BY <1>1, <3>1, <3>2 DEF RemindersRecorded
    <2> QED
      BY <1>3, <1>4, <2>2, <2>3 DEF PeriodsInv
  <1> QED
    BY <1>5, <1>6

LEMMA DayKeepsPeriods ==
  ASSUME Typed, Typed', PeriodsInv, NextDay
  PROVE  PeriodsInv'
  <1>1. /\ UNCHANGED <<req, inv, call, job, crashes>> /\ today' = today + 1
        /\ ticked /\ ticked' = FALSE /\ job = Resting
        /\ job.step = "idle" /\ job.rows = {} /\ job.r = 0
        /\ \A c \in Callers : call[c] = Idle
    BY JobFits DEF NextDay
  <1>2. LastLong' /\ OfMembers' /\ OnePeriodPerTarget'
    BY <1>1 DEF PeriodsInv, LastLong, OfMembers, OnePeriodPerTarget, Running
  <1>3. OfToday'
    <2>1. /\ \A r : ~Holds(Idle, r)
          /\ Idle.step \notin {"peek", "activate", "bill"}
      BY RecordsFit DEF Idle
    <2> QED
      BY <1>1, <2>1 DEF OfToday
  <1>4. RowsAreDistinct' /\ DueIsUnheld' /\ RemindersRecorded'
    BY <1>1 DEF RowsAreDistinct, DueIsUnheld, RemindersRecorded, PeriodsInv
  <1>5. Closing'
    <2>1. ASSUME NEW r \in Requests, Running(r)
          PROVE  req[r].expires + crashes >= today + 1
      BY <1>1, <2>1, TodayIsNat DEF Closing, PeriodsInv, Typed, Row
    <2> QED
      BY <1>1, <2>1 DEF Closing, Running
  <1> QED
    BY <1>2, <1>3, <1>4, <1>5 DEF PeriodsInv

\* What every step of the tick that writes keeps.
LEMMA WritesKeepPeriods ==
  ASSUME Typed, PeriodsInv, TickFrame, job'.rows \subseteq job.rows
  PROVE  LastLong' /\ OfMembers' /\ OfToday' /\ OnePeriodPerTarget'
  BY TickKeepsRows DEF PeriodsInv, LastLong

LEMMA RemindKeepsPeriods ==
  ASSUME Typed, Typed', RoomKept, PeriodsInv, NEW row \in job.rows, Remind(row)
  PROVE  PeriodsInv'
  <1> DEFINE r == row.r
  <1> USE DEF PeriodsInv
  <1>1. /\ UNCHANGED <<today, ticked, crashes, call>>
        /\ job.step \in {"first", "final"} /\ job.r = 0
        /\ job'.step = job.step /\ job'.rows = job.rows \ {row} /\ job'.r = r
        /\ job # Resting /\ job' # Resting
    BY RemindKeepsJob, ZenonT(60) DEF Remind
  <1>2. /\ r \in Requests /\ req'[r].status = req[r].status /\ SameTerms(req'[r], req[r])
        /\ req'[r].reminded = req[r].reminded
        /\ req'[r].finalReminded = req[r].finalReminded
        /\ req'[r].mails = req[r].mails + (IF job.step = "first" THEN 1 ELSE 0)
        /\ req'[r].finals = req[r].finals + (IF job.step = "first" THEN 0 ELSE 1)
        /\ \A q \in Requests \ {r} : req'[q] = req[q]
    BY RemindDoes
  <1> HIDE DEF r
  <1>3. TickFrame
    BY <1>1, <1>2, RemindBills DEF TickFrame, TermsKept, SameTerms, InvoicesKept, LastLong
  <1>4. LastLong' /\ OfMembers' /\ OfToday' /\ OnePeriodPerTarget'
    BY <1>1, <1>3, WritesKeepPeriods
  <1>5. RowsAreDistinct'
    BY <1>1, <1>2, JobFits DEF RowsAreDistinct, r
  <1>6. DueIsUnheld'
    BY <1>1 DEF DueIsUnheld
  <1>7. Closing'
    <2>1. \A q \in Requests : /\ req'[q].status = req[q].status
                              /\ req'[q].expires = req[q].expires
      BY <1>2 DEF SameTerms
    <2> QED
      BY <1>1, <2>1 DEF Closing, Running
  <1>8. RemindersRecorded'
    <2>1. ASSUME NEW q \in Requests
          PROVE  /\ req'[q].mails <= crashes + (IF req'[q].reminded THEN 1 ELSE 0)
                                     + (IF job.step = "first" /\ r = q THEN 1 ELSE 0)
                 /\ req'[q].finals <= crashes + (IF req'[q].finalReminded THEN 1 ELSE 0)
                                      + (IF job.step = "final" /\ r = q THEN 1 ELSE 0)
      <3>1. q # 0
        BY DEF Requests
      <3>2. /\ req[q].mails <= crashes + (IF req[q].reminded THEN 1 ELSE 0) + 0
            /\ req[q].finals <= crashes + (IF req[q].finalReminded THEN 1 ELSE 0) + 0
        BY <1>1, <3>1 DEF RemindersRecorded
      <3>3. req[q].mails \in Nat /\ req[q].finals \in Nat /\ crashes \in Nat
        BY TodayIsNat DEF Typed, Row
      <3>4. CASE q = r
        BY <1>1, <1>2, <3>2, <3>3, <3>4
      <3>5. CASE q # r
        <4>1. req'[q] = req[q]
          BY <1>2, <3>5
        <4> QED
          BY <3>2, <3>5, <4>1
      <3> QED
        BY <3>4, <3>5
    <2>2. \A q \in Requests : /\ req'[q].reminded = req[q].reminded
                              /\ req'[q].finalReminded = req[q].finalReminded
      BY <1>2
    <2>3. /\ job.step = "first" => /\ \A other \in job.rows : ~req'[other.r].reminded
                                   /\ ~req'[r].reminded
          /\ job.step = "final" => /\ \A other \in job.rows : ~req'[other.r].finalReminded
                                   /\ ~req'[r].finalReminded
      BY <2>2, JobFits DEF RemindersRecorded, r
    <2> QED
      BY <1>1, <2>1, <2>3 DEF RemindersRecorded
  <1> QED
    BY <1>4, <1>5, <1>6, <1>7, <1>8

LEMMA MarkKeepsPeriods ==
  ASSUME Typed, Typed', PeriodsInv, MarkReminded
  PROVE  PeriodsInv'
  <1> DEFINE r == job.r
  <1> USE DEF PeriodsInv
  <1>1. /\ UNCHANGED <<today, ticked, crashes, call, inv>>
        /\ job.step \in {"first", "final"} /\ job.r # 0
        /\ job'.step = job.step /\ job'.rows = job.rows /\ job'.r = 0
        /\ job # Resting /\ job' # Resting
    BY MarkDoes DEF MarkReminded
  <1>2. /\ r \in Requests /\ req'[r].status = req[r].status /\ SameTerms(req'[r], req[r])
        /\ req'[r].mails = req[r].mails /\ req'[r].finals = req[r].finals
        /\ req'[r].reminded = IF job.step = "first" THEN TRUE ELSE req[r].reminded
        /\ req'[r].finalReminded =
             IF job.step = "first" THEN req[r].finalReminded ELSE TRUE
        /\ \A q \in Requests \ {r} : req'[q] = req[q]
    BY MarkDoes
  <1> HIDE DEF r
  <1>3. TickFrame
    BY <1>1, <1>2 DEF TickFrame, TermsKept, SameTerms, LastLong
  <1>4. LastLong' /\ OfMembers' /\ OfToday' /\ OnePeriodPerTarget'
    BY <1>1, <1>3, WritesKeepPeriods
  <1>5. RowsAreDistinct'
    <2>1. \A row \in job.rows : row.r \in Requests /\ row.r # 0
      BY JobFits DEF Requests
    <2> QED
      BY <1>1, <1>2, <2>1 DEF RowsAreDistinct
  <1>6. DueIsUnheld'
    BY <1>1 DEF DueIsUnheld
  <1>7. Closing'
    <2>1. \A q \in Requests : /\ req'[q].status = req[q].status
                              /\ req'[q].expires = req[q].expires
      BY <1>2 DEF SameTerms
    <2> QED
      BY <1>1, <2>1 DEF Closing, Running
  <1>8. RemindersRecorded'
    <2>1. ASSUME NEW q \in Requests
          PROVE  /\ req'[q].mails <= crashes + (IF req'[q].reminded THEN 1 ELSE 0) + 0
                 /\ req'[q].finals <= crashes + (IF req'[q].finalReminded THEN 1 ELSE 0) + 0
      <3>1. /\ req[q].mails <= crashes + (IF req[q].reminded THEN 1 ELSE 0)
                               + (IF job.step = "first" /\ r = q THEN 1 ELSE 0)
            /\ req[q].finals <= crashes + (IF req[q].finalReminded THEN 1 ELSE 0)
                                + (IF job.step = "final" /\ r = q THEN 1 ELSE 0)
        BY DEF RemindersRecorded, r
      <3>2. /\ job.step = "first" => ~req[r].reminded
            /\ job.step = "final" => ~req[r].finalReminded
        BY <1>1 DEF RemindersRecorded, r
      <3>3. req[q].mails \in Nat /\ req[q].finals \in Nat /\ crashes \in Nat
        BY TodayIsNat DEF Typed, Row
      <3>4. CASE q = r
        <4>1. CASE job.step = "first"
          <5>1. /\ req[q].mails <= crashes + 0 + 1
                /\ req[q].finals <= crashes + (IF req[q].finalReminded THEN 1 ELSE 0) + 0
            BY <3>1, <3>2, <3>4, <4>1
          <5>2. /\ req'[q].mails = req[q].mails /\ req'[q].finals = req[q].finals
                /\ req'[q].reminded = TRUE /\ req'[q].finalReminded = req[q].finalReminded
            BY <1>2, <3>4, <4>1
          <5>3. req'[q].mails <= crashes + 1 + 0
            BY <3>3, <5>1, <5>2
          <5> QED
            BY <5>1, <5>2, <5>3
        <4>2. CASE job.step = "final"
          <5>1. /\ req[q].mails <= crashes + (IF req[q].reminded THEN 1 ELSE 0) + 0
                /\ req[q].finals <= crashes + 0 + 1
            BY <3>1, <3>2, <3>4, <4>2
          <5>2. /\ req'[q].mails = req[q].mails /\ req'[q].finals = req[q].finals
                /\ req'[q].reminded = req[q].reminded /\ req'[q].finalReminded = TRUE
            BY <1>2, <3>4, <4>2
          <5>3. req'[q].finals <= crashes + 1 + 0
            BY <3>3, <5>1, <5>2
          <5> QED
            BY <5>1, <5>2, <5>3
        <4> QED
          BY <1>1, <4>1, <4>2
      <3>5. CASE q # r
        <4>1. req'[q] = req[q]
          BY <1>2, <3>5
        <4> QED
          BY <3>1, <3>5, <4>1
      <3> QED
        BY <3>4, <3>5
    <2>2. \A row \in job.rows : req'[row.r] = req[row.r]
      BY <1>2, JobFits DEF RowsAreDistinct, r
    <2>3. \A q \in Requests : q # 0
      BY DEF Requests
    <2>4. /\ job.step = "first" => \A row \in job.rows : ~req'[row.r].reminded
          /\ job.step = "final" => \A row \in job.rows : ~req'[row.r].finalReminded
      BY <2>2 DEF RemindersRecorded
    <2> QED
      BY <1>1, <2>1, <2>3, <2>4 DEF RemindersRecorded
  <1> QED
    BY <1>4, <1>5, <1>6, <1>7, <1>8

LEMMA ExpireKeepsPeriods ==
  ASSUME Typed, Typed', PeriodsInv, NEW row \in job.rows, Expire(row)
  PROVE  PeriodsInv'
  <1> DEFINE r == row.r
  <1> USE DEF PeriodsInv
  <1>1. /\ UNCHANGED <<today, ticked, crashes, call, inv>>
        /\ job.step = "expire" /\ job.r = 0
        /\ job'.step = "expire" /\ job'.rows = job.rows \ {row} /\ job'.r = 0
        /\ job # Resting /\ job' # Resting
    BY ExpireDoes, JobFits, ZenonT(60) DEF Expire
  <1>2. /\ r \in Requests /\ req'[r].status = "EXPIRED" /\ SameTerms(req'[r], req[r])
        /\ SameNotices(req'[r], req[r]) /\ req[r].status # "none"
        /\ \A q \in Requests \ {r} : req'[q] = req[q]
    BY ExpireDoes DEF RowsAreDistinct
  <1> HIDE DEF r
  <1>3. TickFrame
    BY <1>1, <1>2 DEF TickFrame, TermsKept, SameTerms, LastLong
  <1>4. LastLong' /\ OfMembers' /\ OfToday' /\ OnePeriodPerTarget'
    BY <1>1, <1>3, WritesKeepPeriods
  <1>5. RowsAreDistinct'
    BY <1>1, <1>2, JobFits DEF RowsAreDistinct
  <1>6. DueIsUnheld'
    <2>1. \A other \in job'.rows : req'[other.r].status \in {"APPROVED", "EXPIRED"}
                                   /\ req'[other.r].expires = req[other.r].expires
      BY <1>1, <1>2, JobFits DEF DueIsUnheld, SameTerms
    <2> QED
      BY <1>1, <2>1 DEF DueIsUnheld, Held
  <1>7. Closing'
    <2>1. ASSUME NEW q \in Requests, Running(q)'
          PROVE  q # r /\ Running(q) /\ req'[q] = req[q]
      BY <1>2, <2>1 DEF Running
    <2> QED
      BY <1>1, <2>1 DEF Closing, r
  <1>8. RemindersRecorded'
    <2>1. \A q \in Requests : SameNotices(req'[q], req[q])
      BY <1>2 DEF SameNotices
    <2> QED
      BY <1>1, <2>1 DEF RemindersRecorded, SameNotices
  <1> QED
    BY <1>4, <1>5, <1>6, <1>7, <1>8

\* The invariant on periods is kept by every step.
LEMMA PeriodsStay ==
  ASSUME Typed, RoomKept, PeriodsInv, [ActivationNext]_vars
  PROVE  Typed' /\ RoomKept' /\ PeriodsInv'
  <1>1. Typed' /\ RoomKept'
    BY TypedStays, RoomStaysKept
  <1>2. CASE \E c \in Callers : CallerStep(c)
    BY <1>1, <1>2, CallerDoes, CallerKeepsPeriods
  <1>3. ASSUME NEW row \in job.rows, Remind(row)
        PROVE  PeriodsInv'
    BY <1>1, <1>3, RemindKeepsPeriods
  <1>4. ASSUME NEW row \in job.rows, Expire(row)
        PROVE  PeriodsInv'
    BY <1>1, <1>4, ExpireKeepsPeriods
  <1>5. CASE MarkReminded
    BY <1>1, <1>5, MarkKeepsPeriods
  <1>6. CASE TickStarts
    BY <1>1, <1>6, TickStartKeepsPeriods
  <1>7. CASE NextPhase
    BY <1>1, <1>7, PhaseKeepsPeriods
  <1>8. CASE TickEnds \/ TickDies
    BY <1>1, <1>8, RestKeepsPeriods
  <1>9. CASE NextDay
    BY <1>1, <1>9, DayKeepsPeriods
  <1>10. CASE UNCHANGED vars
    <2>1. UNCHANGED <<today, ticked, crashes, req, inv, call, job>>
      BY <1>10 DEF vars
    <2>2. LastLong' /\ OfMembers' /\ OfToday' /\ OnePeriodPerTarget' /\ RowsAreDistinct'
      BY <2>1 DEF PeriodsInv, LastLong, OfMembers, OfToday, OnePeriodPerTarget,
                  RowsAreDistinct, Running
    <2>3. DueIsUnheld' /\ Closing' /\ RemindersRecorded'
      BY <2>1 DEF PeriodsInv, DueIsUnheld, Closing, RemindersRecorded, Running, Held
    <2> QED
      BY <1>1, <2>2, <2>3 DEF PeriodsInv
  <1>11. PeriodsInv'
    BY <1>2, <1>3, <1>4, <1>5, <1>6, <1>7, <1>8, <1>9, <1>10, StepIs
  <1> QED
    BY <1>1, <1>11
-----------------------------------------------------------------------------
(* The beginning                                                           *)

LEMMA NothingAtFirst ==
  ASSUME ActivationInit
  PROVE  /\ Typed /\ RoomKept /\ PeriodsInv
         /\ \A r \in Requests : req[r] = NoRow /\ ~Held(r)
         /\ \A c \in Callers : call[c] = Idle
         /\ job = Resting /\ job.step = "idle" /\ job.rows = {}
  <1>1. /\ MaxRequests \in Nat /\ MaxInvoices \in Nat /\ MaxDay \in Nat
        /\ MaxDisturbances \in Nat
    BY ActivationAssumption
  <1>2. /\ today = 0 /\ ticked = FALSE /\ crashes = 0 /\ overlapped = FALSE
        /\ \A r \in Requests : req[r] = NoRow
        /\ \A i \in Invoices : inv[i] = NoInvoice
        /\ \A c \in Callers : call[c] = Idle
        /\ job.step = "idle" /\ job.rows = {} /\ job.r = 0 /\ job = Resting
    BY DEF ActivationInit, Resting
  <1>3. /\ NoRow.status = "none" /\ NoRow.target = NoUser
        /\ NoRow.reminded = FALSE /\ NoRow.finalReminded = FALSE
        /\ NoRow.mails = 0 /\ NoRow.finals = 0 /\ NoInvoice.status = "none"
        /\ Idle.step = "idle" /\ Idle.op = "none"
    BY DEF NoRow, NoInvoice, Idle
  <1>4. Typed
    <2>1. req \in [Requests -> Row] /\ inv \in [Invoices -> Invoice]
      BY RecordsFit DEF ActivationInit
    <2>2. call \in [Callers -> Call] /\ \A c \in Callers : WellFormed(call[c])
      BY RecordsFit DEF ActivationInit
    <2>3. user \in [Users -> Accounts] /\ teamPlan \in [Teams -> Plans \cup {NoPlan}]
            /\ manual \in [Users -> {"untouched", "blocked", "unblocked"}]
      BY DEF ActivationInit, Accounts
    <2>4. JobFormed
      BY <1>1, <1>2 DEF JobFormed, Resting
    <2>5. today \in 0..MaxDay /\ crashes \in 0..MaxDisturbances
      BY <1>1, <1>2
    <2>6. ticked \in BOOLEAN /\ overlapped \in BOOLEAN
      BY <1>2
    <2> QED
      BY <2>1, <2>2, <2>3, <2>4, <2>5, <2>6 DEF Typed
  <1>5. \A r : \A c \in Callers : ~Holds(call[c], r)
    BY <1>2, RecordsFit
  <1>6. RoomKept
    <2>1. Used(req) = {} /\ Used(inv) = {}
      BY <1>2, <1>3 DEF Used, ActivationInit
    <2>2. Busy = {} /\ Inserting = {} /\ Charging = {}
      BY <1>2, RecordsFit DEF Busy, Inserting, Charging
    <2>3. Cardinality({}) = 0 /\ IsFiniteSet({}) /\ 1..0 = {}
      BY FS_EmptySet
    <2> QED
      BY <1>1, <1>2, <1>3, <2>1, <2>2, <2>3 DEF RoomKept, Numbered
  <1>7. PeriodsInv
    <2>1. LastLong /\ OfMembers /\ OnePeriodPerTarget
      BY <1>2, <1>3 DEF LastLong, OfMembers, OnePeriodPerTarget, Running
    <2>2. OfToday
      BY <1>2, <1>3, <1>5 DEF OfToday
    <2>3. RowsAreDistinct /\ DueIsUnheld /\ Closing
      BY <1>2, <1>3 DEF RowsAreDistinct, DueIsUnheld, Closing, Running
    <2>4. RemindersRecorded
      BY <1>2, <1>3 DEF RemindersRecorded
    <2> QED
      BY <2>1, <2>2, <2>3, <2>4 DEF PeriodsInv
  <1> QED
    BY <1>2, <1>4, <1>5, <1>6, <1>7 DEF Held

-----------------------------------------------------------------------------
(* Periods are regular                                                     *)

LEMMA RegularIs ==
  ASSUME Typed, RoomKept, PeriodsInv
  PROVE  PeriodsAreRegular
  <1>1. ActTypeOK
    BY JobFits DEF ActTypeOK, Typed, RoomKept, Numbered, Accounts
  <1>2. OnePeriodPerTarget
    BY DEF PeriodsInv
  <1>3. ReminderOnce
    <2>1. ASSUME NEW r \in Requests
          PROVE  req[r].mails <= 1 + crashes /\ req[r].finals <= 1 + crashes
      <3>1. /\ req[r].mails <= crashes + (IF req[r].reminded THEN 1 ELSE 0)
                               + (IF job.step = "first" /\ job.r = r THEN 1 ELSE 0)
            /\ req[r].finals <= crashes + (IF req[r].finalReminded THEN 1 ELSE 0)
                                + (IF job.step = "final" /\ job.r = r THEN 1 ELSE 0)
            /\ job.step = "first" /\ job.r = r => ~req[r].reminded
            /\ job.step = "final" /\ job.r = r => ~req[r].finalReminded
        BY DEF PeriodsInv, RemindersRecorded, Requests
      <3>2. req[r].mails \in Nat /\ req[r].finals \in Nat /\ crashes \in Nat
        BY TodayIsNat DEF Typed, Row
      <3> QED
        BY <3>1, <3>2
    <2> QED
      BY <2>1 DEF ReminderOnce
  <1>4. DueIsClosed
    BY DEF DueIsClosed, Approved, PeriodsInv, Closing, Running
  <1> QED
    BY <1>1, <1>2, <1>3, <1>4 DEF PeriodsAreRegular

(***************************************************************************)
(* PeriodsAreRegular, for any number of clients, teams, plans, callers and *)
(* rows: rows are numbered without gaps and there is always room for the   *)
(* one an operation is about to write, a team and target have one approved *)
(* request at a time whatever overlaps, a reminder is mailed once in a     *)
(* period but for ticks that died, and no period outlives the tick of its  *)
(* last day but for them (supersedeActiveRequests and expireDue of         *)
(* plan-activation-service.ts, plan-expiry-job.ts).                        *)
(***************************************************************************)
THEOREM PeriodsAlwaysRegular ==
  ActivationSpec => []PeriodsAreRegular
  <1> DEFINE Inv == Typed /\ RoomKept /\ PeriodsInv
  <1>1. ActivationInit => Inv
    BY NothingAtFirst
  <1>2. Inv /\ [ActivationNext]_vars => Inv'
    BY PeriodsStay
  <1>3. Inv => PeriodsAreRegular
    BY RegularIs
  <1> QED
    BY <1>1, <1>2, <1>3, PTL DEF ActivationSpec
-----------------------------------------------------------------------------
(* Final notices                                                           *)

\* An operation begins no period that needs a notice before the next tick, and
\* takes back none that the tick announces.
LEMMA CallerKeepsNotices ==
  ASSUME Typed, Typed', PeriodsInv, PeriodsOutlastNotice, CallerEffect,
         NoticeCounted, NoticeInHand, NoticeAhead
  PROVE  NoticeCounted' /\ NoticeInHand' /\ NoticeAhead'
  <1>1. /\ UNCHANGED <<today, ticked, job>> /\ RowsMove /\ HoldsMove
        /\ crashes' \in {crashes, crashes + 1} /\ crashes \in Nat /\ today \in Nat
    BY TodayIsNat DEF CallerEffect
  <1>2. NoticeCounted'
    BY <1>1, RowMoved DEF NoticeCounted, SameNotices, NoNotices
  <1>3. ASSUME NEW r \in Requests, Announcing(r)
        PROVE  Announcing(r)' /\ req'[r].finals = req[r].finals
    <2>1. /\ req'[r].status \in {"APPROVED", "EXPIRED"}
          /\ req'[r].finals = req[r].finals
      BY <1>1, <1>3, RowMoved DEF Announcing, SameNotices
    <2>2. ~Held(r)'
      BY <1>1, <1>3 DEF HoldsMove, Held, Announcing
    <2> QED
      BY <2>1, <2>2 DEF Announcing
  <1>4. NoticeInHand'
    BY <1>1, <1>3, JobFits DEF NoticeInHand
  <1>5. NoticeAhead'
    <2>1. ASSUME crashes' = 0, NEW r \in Requests, Unannounced(r)'
          PROVE  \/ req'[r].expires > today + 1
                 \/ Unannounced(r) /\ req'[r] = req[r]
      <3>1. \/ Kept(r)
            \/ req'[r].expires >= today + Shortest
        BY <1>1, <2>1, RowMoved DEF Unannounced, Running
      <3>2. req'[r].expires >= today + Shortest => req'[r].expires > today + 1
        <4>1. Shortest = FinalDays + 1 /\ FinalDays \in Nat \ {0}
          BY ConstantsFit
        <4>2. req'[r].expires \in Nat
          BY DEF Typed, Row
        <4> QED
          BY <1>1, <4>1, <4>2
      <3> QED
        BY <2>1, <3>1, <3>2 DEF Kept, Unannounced, Running
    <2>2. \A r \in Requests : req'[r].expires > today + 1 => req'[r].expires > today
      BY <1>1 DEF Typed, Row
    <2> QED
      BY <1>1, <2>1, <2>2 DEF NoticeAhead
  <1> QED
    BY <1>2, <1>4, <1>5

\* The tick announces what ends by the next day, before it closes anything.
LEMMA PhaseKeepsNotices ==
  ASSUME Typed, PeriodsInv, PeriodsOutlastNotice, NextPhase,
         NoticeCounted, NoticeInHand, NoticeAhead
  PROVE  NoticeCounted' /\ NoticeInHand' /\ NoticeAhead'
  <1>1. /\ UNCHANGED <<today, ticked, crashes, req, inv, call>> /\ job' # Resting
        /\ job.r = 0 /\ job'.r = 0 /\ job.rows = {} /\ today \in Nat
    BY PhaseDoes, TodayIsNat DEF NextPhase
  <1>2. NoticeCounted'
    BY <1>1 DEF NoticeCounted
  <1>3. CASE job.step = "first" /\ job'.step = "final" /\ job'.rows = FinalWindow
    <2> DEFINE ids == {r \in EndWithin(FinalDays) : ~req[r].finalReminded}
    <2>1. job'.rows = Snapshot(ids)
      BY <1>3 DEF FinalWindow
    <2>2. ids \in SUBSET Requests
            /\ \A r \in ids : Running(r) /\ req[r].expires <= today + FinalDays
      BY DEF EndWithin, Approved, Running
    <2>3. \A r \in Requests : /\ Running(r) /\ ~req[r].finalReminded /\ req[r].expires > today
                             /\ req[r].expires <= today + FinalDays
                             => r \in ids
      BY DEF EndWithin, Approved, Running
    <2> HIDE DEF ids
    <2>4. Shortest = FinalDays + 1 /\ FinalDays \in Nat \ {0}
      BY ConstantsFit
    <2>5. \A r \in Requests : req[r].expires \in Nat /\ req[r].finals \in Nat
      BY DEF Typed, Row
    <2>6. ASSUME NEW r \in ids PROVE Announcing(r)
      <3>1. ~(req[r].expires >= today + Shortest)
        BY <1>1, <2>2, <2>4, <2>5
      <3> QED
        BY <2>2, <3>1 DEF Announcing, Running, Held, PeriodsInv, OfToday
    <2>7. \A row \in job'.rows : Announcing(row.r)
      BY <2>1, <2>2, <2>6, SnapshotIs
    <2>8. NoticeInHand'
      BY <1>1, <2>7 DEF NoticeInHand, Announcing, Held
    <2>9. ASSUME crashes = 0, NEW r \in Requests, Unannounced(r)
          PROVE  /\ req[r].expires > today
                 /\ req[r].expires > today + 1 \/ \E row \in job'.rows : row.r = r
      <3>1. req[r].expires > today
        BY <2>9 DEF NoticeAhead
      <3>2. ~req[r].finalReminded
        BY <2>9 DEF Unannounced, NoticeCounted
      <3>3. CASE req[r].expires <= today + FinalDays
        BY <2>1, <2>2, <2>3, <2>9, <3>1, <3>2, <3>3, SnapshotIs DEF Unannounced
      <3>4. ~(req[r].expires <= today + FinalDays) => req[r].expires > today + 1
        BY <1>1, <2>4, <2>5
      <3> QED
        BY <3>1, <3>3, <3>4
    <2>10. NoticeAhead'
      BY <1>1, <1>3, <2>9 DEF NoticeAhead, Unannounced, Running
    <2> QED
      BY <1>2, <2>8, <2>10
  <1>4. CASE job.step = "final" /\ job'.step = "expire"
    <2>1. NoticeInHand'
      BY <1>4 DEF NoticeInHand
    <2>2. NoticeAhead'
      BY <1>1, <1>4 DEF NoticeAhead, Unannounced, Running
    <2> QED
      BY <1>2, <2>1, <2>2
  <1> QED
    BY <1>3, <1>4, PhaseDoes

\* The steps that write reminders, and the one that closes a period.
LEMMA WritesKeepNotices ==
  ASSUME Typed, Typed', PeriodsInv, NEW row \in job.rows, NoticeCounted, NoticeInHand, NoticeAhead
  PROVE  Remind(row) \/ Expire(row) => NoticeCounted' /\ NoticeInHand' /\ NoticeAhead'
  <1>1. ASSUME Remind(row) PROVE NoticeCounted' /\ NoticeInHand' /\ NoticeAhead'
    <2> DEFINE r == row.r
    <2>1. /\ UNCHANGED <<today, ticked, crashes, call>>
          /\ job.step \in {"first", "final"} /\ job.r = 0
          /\ job'.step = job.step /\ job'.rows = job.rows \ {row} /\ job'.r = r
          /\ job # Resting /\ job' # Resting
      BY <1>1, RemindKeepsJob, ZenonT(60) DEF Remind
    <2>2. /\ r \in Requests /\ req'[r].status = req[r].status /\ SameTerms(req'[r], req[r])
          /\ req'[r].finalReminded = req[r].finalReminded
          /\ req'[r].finals = req[r].finals + (IF job.step = "first" THEN 0 ELSE 1)
          /\ \A q \in Requests \ {r} : req'[q] = req[q]
      BY <1>1, RemindDoes
    <2>3. req[r].finals \in Nat /\ \A other \in job.rows : other.r \in Requests
      BY <2>2, JobFits DEF Typed, Row
    <2> HIDE DEF r
    <2>4. \A q \in Requests : /\ req'[q].status = req[q].status
                             /\ req'[q].expires = req[q].expires
      BY <2>2 DEF SameTerms
    <2>5. NoticeCounted'
      BY <2>1, <2>2, <2>3 DEF NoticeCounted
    <2>6. NoticeInHand'
      <3>1. \A q \in Requests : Announcing(q) => Announcing(q)'
        BY <2>1, <2>4 DEF Announcing, Held
      <3>2. job.step = "final" => Announcing(r) /\ req'[r].finals >= 1
        BY <2>1, <2>2, <2>3 DEF NoticeInHand, r
      <3> QED
        BY <2>1, <2>2, <2>3, <3>1, <3>2 DEF NoticeInHand
    <2>7. NoticeAhead'
      <3>1. ASSUME NEW q \in Requests, Unannounced(q)'
            PROVE  Unannounced(q) /\ (job.step = "final" => q # r)
        <4>1. req'[q].finals = 0 => req[q].finals = 0 /\ (job.step = "final" => q # r)
          BY <2>2, <2>3
        <4> QED
          BY <2>4, <3>1, <4>1 DEF Unannounced, Running
      <3> QED
        BY <2>1, <2>4, <3>1 DEF NoticeAhead, r
    <2> QED
      BY <2>5, <2>6, <2>7
  <1>2. ASSUME Expire(row) PROVE NoticeCounted' /\ NoticeInHand' /\ NoticeAhead'
    <2> DEFINE r == row.r
    <2>1. /\ UNCHANGED <<today, ticked, crashes, call>>
          /\ job'.step = "expire" /\ job' # Resting /\ job # Resting /\ job.step = "expire"
      BY <1>2, ExpireDoes, ZenonT(60) DEF Expire
    <2>2. /\ r \in Requests /\ req'[r].status = "EXPIRED" /\ SameNotices(req'[r], req[r])
          /\ \A q \in Requests \ {r} : req'[q] = req[q]
      BY <1>2, ExpireDoes
    <2> HIDE DEF r
    <2>3. NoticeCounted'
      BY <2>2 DEF NoticeCounted, SameNotices
    <2>4. NoticeInHand'
      BY <2>1 DEF NoticeInHand
    <2>5. \A q \in Requests : Unannounced(q)' => Unannounced(q) /\ req'[q] = req[q]
      BY <2>2 DEF Unannounced, Running
    <2>6. NoticeAhead'
      BY <2>1, <2>5 DEF NoticeAhead
    <2> QED
      BY <2>3, <2>4, <2>6
  <1> QED
    BY <1>1, <1>2

LEMMA MarkKeepsNotices ==
  ASSUME Typed, Typed', MarkReminded, NoticeCounted, NoticeInHand, NoticeAhead
  PROVE  NoticeCounted' /\ NoticeInHand' /\ NoticeAhead'
  <1> DEFINE r == job.r
  <1>1. /\ UNCHANGED <<today, ticked, crashes, call>>
        /\ job.step \in {"first", "final"} /\ job.r # 0
        /\ job'.step = job.step /\ job'.rows = job.rows /\ job'.r = 0
        /\ job # Resting /\ job' # Resting
    BY MarkDoes DEF MarkReminded
  <1>2. /\ r \in Requests /\ req'[r].status = req[r].status /\ SameTerms(req'[r], req[r])
        /\ req'[r].finals = req[r].finals
        /\ req'[r].finalReminded =
             IF job.step = "first" THEN req[r].finalReminded ELSE TRUE
        /\ \A q \in Requests \ {r} : req'[q] = req[q]
    BY MarkDoes
  <1>3. job.step = "final" => req[r].finals >= 1
    BY <1>1 DEF NoticeInHand
  <1> HIDE DEF r
  <1>4. \A q \in Requests : /\ req'[q].status = req[q].status
                           /\ req'[q].expires = req[q].expires
                           /\ req'[q].finals = req[q].finals
    BY <1>2 DEF SameTerms
  <1>5. NoticeCounted'
    BY <1>1, <1>2, <1>3 DEF NoticeCounted
  <1>6. NoticeInHand'
    BY <1>1, <1>4, JobFits DEF NoticeInHand, Announcing, Held
  <1>7. NoticeAhead'
    BY <1>1, <1>4 DEF NoticeAhead, Unannounced, Running
  <1> QED
    BY <1>5, <1>6, <1>7

\* The notices are kept by every step.
LEMMA NoticesStay ==
  ASSUME Typed, RoomKept, PeriodsInv, Noticed, [ActivationNext]_vars
  PROVE  Noticed'
  <1> SUFFICES ASSUME PeriodsOutlastNotice
               PROVE  NoticeCounted' /\ NoticeInHand' /\ NoticeAhead'
    BY DEF Noticed, PeriodsOutlastNotice
  <1>0. NoticeCounted /\ NoticeInHand /\ NoticeAhead /\ Typed'
    BY PeriodsStay DEF Noticed
  <1> DEFINE Goal == NoticeCounted' /\ NoticeInHand' /\ NoticeAhead'
  <1>1. ASSUME NEW c \in Callers, CallerStep(c) PROVE Goal
    BY <1>0, <1>1, CallerDoes, CallerKeepsNotices
  <1>2. ASSUME NEW row \in job.rows, Remind(row) \/ Expire(row) PROVE Goal
    BY <1>0, <1>2, WritesKeepNotices
  <1>3. ASSUME MarkReminded PROVE Goal
    BY <1>0, <1>3, MarkKeepsNotices
  <1>4. ASSUME NextPhase PROVE Goal
    BY <1>0, <1>4, PhaseKeepsNotices
  <1>5. ASSUME TickStarts PROVE Goal
    <2>1. UNCHANGED <<today, crashes, req, call>> /\ job'.step = "first" /\ job' # Resting
      BY <1>5, TickDoes DEF TickStarts
    <2> QED
      BY <1>0, <2>1 DEF NoticeCounted, NoticeInHand, NoticeAhead, Unannounced, Running
  <1>6. ASSUME TickEnds PROVE Goal
    <2>1. /\ UNCHANGED <<today, ticked, crashes, req, call>> /\ job.step = "expire"
          /\ job' = Resting /\ job'.step = "idle"
      BY <1>6, JobFits DEF TickEnds
    <2> QED
      BY <1>0, <2>1 DEF NoticeCounted, NoticeInHand, NoticeAhead, Unannounced, Running
  <1>7. ASSUME TickDies PROVE Goal
    <2>1. /\ UNCHANGED <<today, req, call>> /\ job'.step = "idle" /\ crashes' # 0
      BY <1>7, JobFits, TodayIsNat DEF TickDies
    <2> QED
      BY <1>0, <2>1 DEF NoticeCounted, NoticeInHand, NoticeAhead
  <1>8. ASSUME NextDay PROVE Goal
    <2>1. /\ UNCHANGED <<crashes, req, call, job>> /\ ticked' = FALSE /\ job.step = "idle"
          /\ ticked /\ job = Resting /\ today' = today + 1
      BY <1>8, JobFits DEF NextDay
    <2> QED
      BY <1>0, <2>1 DEF NoticeCounted, NoticeInHand, NoticeAhead, Unannounced, Running
  <1>9. ASSUME UNCHANGED vars PROVE Goal
    <2>1. UNCHANGED <<today, ticked, crashes, req, call, job>>
      BY <1>9 DEF vars
    <2> QED
      BY <1>0, <2>1 DEF NoticeCounted, NoticeInHand, NoticeAhead, Unannounced, Running,
                        Announcing, Held
  <1> QED
    BY <1>1, <1>2, <1>3, <1>4, <1>5, <1>6, <1>7, <1>8, <1>9, StepIs
-----------------------------------------------------------------------------
(* While nothing has overlapped                                            *)

\* An operation that moves, and has overlapped nothing, is alone.
LEMMA CallerIsAlone ==
  ASSUME Typed, Alone, NEW c \in Callers, CallerStep(c), ~overlapped'
  PROVE  /\ ~overlapped /\ job = Resting /\ job' = Resting
         /\ \A d \in Callers \ {c} : call[d] = Idle
  <1>1. ASSUME Begins(c) \/ Blocks(c)
        PROVE  /\ ~overlapped /\ job = Resting /\ job' = Resting
               /\ \A d \in Callers \ {c} : call[d] = Idle
    <2>1. Join(job # Resting \/ \E d \in Callers \ {c} : call[d] # Idle) /\ job' = job
      BY <1>1 DEF Begins, Begin, Blocks, SetUserBlocked
    <2> QED
      BY <2>1 DEF Join
  <1>2. ASSUME ~(Begins(c) \/ Blocks(c))
        PROVE  /\ ~overlapped /\ job = Resting /\ job' = Resting
               /\ \A d \in Callers \ {c} : call[d] = Idle
    <2>1. overlapped' = overlapped /\ job' = job /\ call[c] # Idle
      <3>1. Idle.step = "idle"
        BY DEF Idle
      <3>2. CASE CallDies(c)
        BY <3>2 DEF CallDies
      <3>3. CASE ~CallDies(c)
        <4>1. call[c].step # "idle"
          BY <1>2, <3>3, ZenonT(60) DEF CallerStep, InsertRequest, WriteDecline, ReadPeriodStart,
             ReadSuspension, Activate, ReturnUnbilled, VoidOthers, FindOpen,
             RecordPayment, CreateIssued, WriteVoid, AtStep
        <4>2. overlapped' = overlapped /\ job' = job
          BY <1>2, <3>3, ZenonT(60) DEF CallerStep, InsertRequest, WriteDecline, ReadPeriodStart,
             ReadSuspension, Activate, ReturnUnbilled, VoidOthers, FindOpen,
             RecordPayment, CreateIssued, WriteVoid
        <4> QED
          BY <3>1, <4>1, <4>2
      <3> QED
        BY <3>2, <3>3
    <2> QED
      BY <2>1 DEF Alone
  <1> QED
    BY <1>1, <1>2

\* An operation that has ended has read nothing.
LEMMA NothingIsRead ==
  /\ ReadIsTrue(Idle)
  /\ \A k : k = Idle => ReadIsTrue(k)'
  <1>1. /\ Idle.op = "none" /\ Idle.step = "idle"
        /\ \A r : ~Holds(Idle, r)
    BY RecordsFit DEF Idle
  <1> QED
    BY <1>1 DEF ReadIsTrue, Activations

\* What an operation has read is as it read it after its own step.
LEMMA ReadStaysTrue ==
  ASSUME Typed, RoomKept, PeriodsInv, LoneInv, NEW c \in Callers, CallerStep(c),
         ~overlapped'
  PROVE  ReadIsTrue(call[c])'
  <1>a. /\ ReadIsTrue(call[c]) /\ ~overlapped
        /\ \A d \in Callers \ {c} : call[d] = Idle
    BY CallerIsAlone DEF LoneInv
  <1>i. ASSUME call'[c] = Idle PROVE ReadIsTrue(call[c])'
    BY <1>i, NothingIsRead
  <1>f. call \in [Callers -> Call]
    BY DEF Typed
  <1>1. ASSUME Begins(c) PROVE ReadIsTrue(call[c])'
    <2>1. PICK to : Begin(c, to) /\ Opening(to)
      BY <1>1 DEF Begins
    <2>2. UNCHANGED <<req, inv, user>> /\ call'[c] = to
      BY <1>f, <2>1 DEF Begin
    <2>3. /\ to.step \in {"insert", "decline", "start", "voidOne"}
          /\ \A r \in Requests : Holds(to, r) => req[r].status = "PENDING"
          /\ to.op = "pay" => to.i \in OpenFor(to)
          /\ to.step = "voidOne" => inv[to.i].status = "ISSUED"
      BY <2>1 DEF Opening
    <2> QED
      BY <2>2, <2>3 DEF ReadIsTrue, OpenFor, OpenInvoices
  <1>2. ASSUME Blocks(c) PROVE ReadIsTrue(call[c])'
    <2>1. call'[c] = Idle
      BY <1>2 DEF Blocks, SetUserBlocked
    <2> QED
      BY <1>i, <2>1
  <1>3. ASSUME \/ InsertRequest(c) \/ WriteDecline(c) \/ ReturnUnbilled(c)
               \/ RecordPayment(c) \/ CreateIssued(c) \/ WriteVoid(c) \/ CallDies(c)
        PROVE  ReadIsTrue(call[c])'
    <2>1. Return(c)
      BY <1>3 DEF InsertRequest, WriteDecline, ReturnUnbilled, RecordPayment,
                  CreateIssued, WriteVoid, CallDies
    <2> QED
      BY <1>f, <1>i, <2>1 DEF Return
  <1>4. ASSUME ReadPeriodStart(c) PROVE ReadIsTrue(call[c])'
    <2> DEFINE k == call[c]
               n == call'[c]
               s == NextPeriodStart(k.team, k.target, k.plan)
    <2>1. /\ SameTask(n, k) /\ n.r = k.r /\ n.start = s
          /\ n.step = IF k.op = "issue" THEN "bill"
                      ELSE IF k.target = NoUser THEN "activate" ELSE "peek"
          /\ k.step = "start" /\ UNCHANGED <<today, req, inv, user>>
      BY <1>4, PeriodStartIsRead DEF PeriodsInv, ReadPeriodStart, AtStep
    <2>2. \A r \in Requests :
            (/\ req[r].status = "APPROVED" /\ req[r].team = k.team
             /\ req[r].target = k.target /\ req[r].plan = k.plan
             /\ req[r].expires > today) => s >= req[r].expires
      BY PeriodStartFits DEF PeriodsInv
    <2> HIDE DEF s
    <2>3. k.op \in Activations \cup {"issue"}
      BY <2>1, AtStepFits DEF AtStep
    <2>4. \A r \in Requests : Holds(n, r) => req[r].status = "PENDING"
      <3>1. \A r \in Requests : Holds(n, r) => Holds(k, r)
        BY <2>1 DEF Holds, BeforeWrite, SameTask
      <3> QED
        BY <1>a, <3>1 DEF ReadIsTrue
    <2>5. n.op = "pay" => n.i \in OpenFor(n)
      BY <1>a, <2>1 DEF ReadIsTrue, BeforeWrite, SameTask, OpenFor
    <2>6. ReadIsTrue(n)
      BY <2>1, <2>2, <2>4, <2>5 DEF ReadIsTrue, SameTask
    <2> QED
      BY <2>1, <2>6 DEF ReadIsTrue, OpenFor, OpenInvoices
  <1>5. ASSUME ReadSuspension(c) PROVE ReadIsTrue(call[c])'
    <2> DEFINE k == call[c]
               n == call'[c]
    <2>1. /\ SameTask(n, k) /\ n.r = k.r /\ n.start = k.start
          /\ n.step = "activate" /\ k.step = "peek"
          /\ n.lift = (user[k.target].blocked /\ user[k.target].bySystem)
          /\ UNCHANGED <<today, req, inv, user>>
      BY <1>5, SuspensionIsRead, ZenonT(60) DEF ReadSuspension, AtStep
    <2>2. \A r \in Requests : Holds(n, r) => req[r].status = "PENDING"
      <3>1. \A r \in Requests : Holds(n, r) => Holds(k, r)
        BY <2>1 DEF Holds, BeforeWrite, SameTask
      <3> QED
        BY <1>a, <3>1 DEF ReadIsTrue
    <2>3. n.op = "pay" => n.i \in OpenFor(n)
      BY <1>a, <2>1 DEF ReadIsTrue, BeforeWrite, SameTask, OpenFor
    <2>4. n.op \in Activations => \A r \in Requests :
            (/\ req[r].status = "APPROVED" /\ req[r].team = n.team
             /\ req[r].target = n.target /\ req[r].plan = n.plan
             /\ req[r].expires > today) => n.start >= req[r].expires
      BY <1>a, <2>1 DEF ReadIsTrue, SameTask
    <2>5. ReadIsTrue(n)
      BY <2>1, <2>2, <2>3, <2>4 DEF ReadIsTrue, SameTask
    <2> QED
      BY <2>1, <2>5 DEF ReadIsTrue, OpenFor, OpenInvoices
  <1>6. ASSUME Activate(c) PROVE ReadIsTrue(call[c])'
    <2>0. call[c].step = "activate" /\ inv' = inv
      BY <1>6 DEF Activate, AtStep
    <2>1. /\ SameTask(call'[c], call[c]) /\ call'[c].step \in {"return", "void"}
          /\ call[c].step = "activate" /\ inv' = inv
      BY <1>6, <2>0, ActivateMoves
    <2>2. call'[c].op = "pay" => call'[c].i \in OpenFor(call'[c])
      BY <1>a, <2>1 DEF ReadIsTrue, BeforeWrite, SameTask, OpenFor
    <2> QED
      BY <2>1, <2>2 DEF ReadIsTrue, OpenFor, OpenInvoices, Holds, BeforeWrite
  <1>7. ASSUME VoidOthers(c) PROVE ReadIsTrue(call[c])'
    <2>1. /\ SameTask(call'[c], call[c]) /\ call'[c].step \in {"find", "return"}
          /\ call[c].step = "void"
      BY <1>7, OthersAreVoided, GoesTo DEF PeriodsInv, VoidOthers, AtStep, Steps
    <2>2. \A i \in Invoices : i \in OpenFor(call[c]) =>
             /\ inv'[i].user = inv[i].user /\ inv'[i].plan = inv[i].plan
             /\ inv'[i].status = inv[i].status
      BY <1>7, OthersAreVoided DEF PeriodsInv, OpenFor
    <2>3. call[c].op = "pay" => call[c].i \in OpenFor(call[c])
      BY <1>a, <2>1 DEF ReadIsTrue, Settling
    <2>4. call'[c].op = "pay" => call'[c].i \in OpenFor(call[c])'
      BY <2>1, <2>2, <2>3 DEF SameTask, OpenFor, OpenInvoices
    <2> QED
      BY <2>1, <2>4 DEF ReadIsTrue, Holds, BeforeWrite
  <1>8. ASSUME FindOpen(c) PROVE ReadIsTrue(call[c])'
    <2>1. /\ SameTask(call'[c], call[c]) /\ call'[c].step = "record"
          /\ call[c].step = "find" /\ inv' = inv
          /\ IF OpenFor(call[c]) = {} THEN call'[c].found = 0
             ELSE call'[c].found \in OpenFor(call[c])
      BY <1>8, OpenIsFound DEF FindOpen, AtStep
    <2>2. OpenFor(call[c])' = OpenFor(call[c])
      BY <2>1 DEF OpenFor, OpenInvoices, SameTask
    <2>3. call'[c].op = "pay" => call'[c].i \in OpenFor(call[c])'
      BY <1>a, <2>1, <2>2 DEF ReadIsTrue, Settling, SameTask
    <2>4. \A i \in OpenFor(call[c]) : i # 0
      BY DEF OpenFor, OpenInvoices, Invoices
    <2> QED
      BY <2>1, <2>2, <2>3, <2>4 DEF ReadIsTrue, Holds, BeforeWrite
  <1> QED
    BY <1>1, <1>2, <1>3, <1>4, <1>5, <1>6, <1>7, <1>8 DEF CallerStep

\* A step of one operation is of its record alone.
LEMMA CallerMovesAlone ==
  ASSUME Typed, RoomKept, PeriodsInv, NEW c \in Callers, CallerStep(c)
  PROVE  \/ \E k : call' = [call EXCEPT ![c] = k]
         \/ call' = call
  <1>1. CASE Begins(c) \/ Blocks(c)
    BY <1>1 DEF Begins, Begin, Blocks, SetUserBlocked
  <1>2. CASE \/ InsertRequest(c) \/ WriteDecline(c) \/ ReturnUnbilled(c)
             \/ RecordPayment(c) \/ CreateIssued(c) \/ WriteVoid(c) \/ CallDies(c)
    BY <1>2 DEF InsertRequest, WriteDecline, ReturnUnbilled, RecordPayment,
                CreateIssued, WriteVoid, CallDies, Return
  <1>3. CASE ReadPeriodStart(c)
    BY <1>3, PeriodStartIsRead DEF PeriodsInv
  <1>4. CASE ReadSuspension(c)
    BY <1>4, SuspensionIsRead
  <1>5. CASE Activate(c)
    BY <1>5, ActivateMoves
  <1>6. CASE VoidOthers(c)
    BY <1>6, OthersAreVoided, GoesTo DEF PeriodsInv, Steps
  <1>7. CASE FindOpen(c)
    BY <1>7, OpenIsFound
  <1> QED
    BY <1>1, <1>2, <1>3, <1>4, <1>5, <1>6, <1>7 DEF CallerStep

LEMMA LoneStays ==
  ASSUME Typed, RoomKept, PeriodsInv, LoneInv, [ActivationNext]_vars
  PROVE  LoneInv'
  <1>f. call \in [Callers -> Call] /\ Idle.step = "idle" /\ Resting.step = "idle"
    BY DEF Typed, Idle, Resting
  <1>1. ASSUME overlapped' PROVE LoneInv'
    BY <1>1 DEF LoneInv, Alone
  <1>2. ASSUME ~overlapped', NEW c \in Callers, CallerStep(c) PROVE LoneInv'
    <2>1. /\ ~overlapped /\ job' = Resting
          /\ \A d \in Callers \ {c} : call[d] = Idle
      BY <1>2, CallerIsAlone DEF LoneInv
    <2>2. \A d \in Callers \ {c} : call'[d] = Idle
      <3>1. \/ \E k : call' = [call EXCEPT ![c] = k]
            \/ call' = call
        BY <1>2, CallerMovesAlone
      <3> QED
        BY <1>f, <2>1, <3>1
    <2>3. ReadIsTrue(call[c])'
      BY <1>2, ReadStaysTrue
    <2>4. \A d \in Callers : ReadIsTrue(call[d])'
      BY <2>2, <2>3, NothingIsRead
    <2>5. Alone'
      BY <2>1, <2>2 DEF Alone
    <2> QED
      BY <1>f, <2>1, <2>4, <2>5 DEF LoneInv
  <1>3. ASSUME ~overlapped', ~overlapped, call' = call,
               \A c \in Callers : call[c] = Idle,
               job'.step = "expire" =>
                  \A row \in job'.rows : req'[row.r].status = "APPROVED"
        PROVE  LoneInv'
    <2>1. \A c \in Callers : ReadIsTrue(call[c])'
      BY <1>3, NothingIsRead
    <2> QED
      BY <1>3, <2>1 DEF LoneInv, Alone
  <1>4. ASSUME ~overlapped', NEW row \in job.rows, Remind(row) \/ Expire(row)
        PROVE  LoneInv'
    <2>1. overlapped' = overlapped /\ call' = call
      BY <1>4, ZenonT(60) DEF Remind, Expire
    <2>2. \A c \in Callers : call[c] = Idle
      <3>1. job # Resting
        BY <1>4, RemindKeepsJob, ExpireDoes
      <3> QED
        BY <1>4, <2>1, <3>1 DEF LoneInv, Alone
    <2>3. ASSUME Expire(row) PROVE \A other \in job'.rows : req'[other.r].status = "APPROVED"
      <3>1. /\ job.step = "expire" /\ job'.rows = job.rows \ {row}
            /\ \A q \in Requests \ {row.r} : req'[q] = req[q]
        BY <2>3, ExpireDoes
      <3>2. \A other \in job.rows : req[other.r].status = "APPROVED"
        BY <1>4, <2>1, <3>1 DEF LoneInv
      <3> QED
        BY <3>1, <3>2, JobFits DEF PeriodsInv, RowsAreDistinct
    <2>4. ASSUME Remind(row) PROVE job'.step # "expire"
      <3>1. job'.step = job.step
        BY <2>4, RemindKeepsJob
      <3>2. job.step \in {"first", "final"}
        BY <2>4 DEF Remind
      <3> QED
        BY <3>1, <3>2
    <2> QED
      BY <1>3, <1>4, <2>1, <2>2, <2>3, <2>4
  <1>5. ASSUME ~overlapped', MarkReminded PROVE LoneInv'
    <2>1. /\ overlapped' = overlapped /\ call' = call /\ job # Resting
          /\ job'.step # "expire"
      BY <1>5, MarkDoes DEF MarkReminded
    <2> QED
      BY <1>3, <1>5, <2>1 DEF LoneInv, Alone
  <1>6. ASSUME ~overlapped', NextPhase PROVE LoneInv'
    <2>1. overlapped' = overlapped /\ call' = call /\ job # Resting /\ req' = req
      BY <1>6, PhaseDoes DEF NextPhase
    <2>2. job'.step = "expire" => job'.rows = DueRows
      BY <1>6, PhaseDoes
    <2>3. \A row \in DueRows : req[row.r].status = "APPROVED"
      <3> DEFINE ids == {r \in Approved : /\ req[r].expires # NoExpiry
                                          /\ req[r].expires <= today}
      <3>1. ids \in SUBSET Requests /\ \A r \in ids : Running(r)
        BY DEF Approved, Running
      <3>2. DueRows = Snapshot(ids)
        BY DEF DueRows
      <3> HIDE DEF ids
      <3> QED
        BY <3>1, <3>2, ReadRowsRun
    <2> QED
      BY <1>3, <1>6, <2>1, <2>2, <2>3 DEF LoneInv, Alone
  <1>7. ASSUME ~overlapped', TickStarts PROVE LoneInv'
    <2>1. /\ Join(\E c \in Callers : call[c] # Idle) /\ call' = call
          /\ job'.step = "first"
      BY <1>7, TickDoes DEF TickStarts
    <2>2. ~overlapped /\ \A c \in Callers : call[c] = Idle
      BY <1>7, <2>1 DEF Join
    <2> QED
      BY <1>3, <1>7, <2>1, <2>2
  <1>8. ASSUME ~overlapped', TickEnds \/ TickDies PROVE LoneInv'
    <2>1. /\ overlapped' = overlapped /\ call' = call /\ job # Resting /\ job' = Resting
      BY <1>8, JobFits DEF TickEnds, TickDies
    <2> QED
      BY <1>3, <1>8, <1>f, <2>1 DEF LoneInv, Alone
  <1>9. ASSUME ~overlapped', NextDay PROVE LoneInv'
    <2>1. /\ overlapped' = overlapped /\ call' = call /\ job' = Resting
          /\ \A c \in Callers : call[c] = Idle
      BY <1>9 DEF NextDay
    <2> QED
      BY <1>3, <1>9, <1>f, <2>1
  <1>10. ASSUME UNCHANGED vars PROVE LoneInv'
    <2>1. UNCHANGED <<today, overlapped, req, inv, user, call, job>>
      BY <1>10 DEF vars
    <2>2. \A c \in Callers : ReadIsTrue(call[c]) => ReadIsTrue(call[c])'
      BY <2>1 DEF ReadIsTrue, OpenFor, OpenInvoices
    <2> QED
      BY <2>1, <2>2 DEF LoneInv, Alone
  <1> QED
    BY <1>1, <1>2, <1>4, <1>5, <1>6, <1>7, <1>8, <1>9, <1>10, StepIs
-----------------------------------------------------------------------------
(* What was paid and decided                                               *)

Quiet == TickStarts \/ NextPhase \/ TickEnds \/ TickDies \/ NextDay \/ UNCHANGED vars

\* The steps of the clock and between the phases of the tick write no row.
LEMMA QuietStepsWriteNothing ==
  ASSUME Quiet
  PROVE  UNCHANGED <<req, inv, user, manual, call>>
  <1>1. CASE TickStarts \/ NextPhase \/ TickEnds
    BY <1>1 DEF TickStarts, NextPhase, TickEnds
  <1>2. CASE TickDies \/ NextDay
    BY <1>2 DEF TickDies, NextDay
  <1>3. CASE UNCHANGED vars
    BY <1>3 DEF vars
  <1> QED
    BY <1>1, <1>2, <1>3 DEF Quiet

\* The tick's own steps move no operation.
LEMMA TickMovesNoCall ==
  ASSUME NEW row \in job.rows, Remind(row) \/ Expire(row)
  PROVE  call' = call
  <1>1. CASE Remind(row)
    BY <1>1 DEF Remind
  <1>2. CASE Expire(row)
    BY <1>2, ZenonT(60) DEF Expire
  <1> QED
    BY <1>1, <1>2

\* A request leaves the state it was reviewed into when its period ends alone.
LEMMA ReviewsStand ==
  ASSUME Typed, RoomKept, PeriodsInv, LoneInv, [ActivationNext]_vars,
         NEW r \in Requests, req[r].status \notin {"none", "PENDING"},
         req'[r].status # req[r].status
  PROVE  overlapped \/ (req[r].status = "APPROVED" /\ req'[r].status = "EXPIRED")
  <1> DEFINE Goal == overlapped \/ (req[r].status = "APPROVED" /\ req'[r].status = "EXPIRED")
  <1>1. ASSUME NEW c \in Callers, CallerStep(c), ~overlapped PROVE Goal
    <2>1. Kept(r) \/ Requested(r) \/ Declined(r) \/ Activated(r) \/ Replaced(r)
      BY <1>1, CallerDoes DEF CallerEffect, RowsMove
    <2>2. ~Held(r)
      BY <1>1 DEF Held, LoneInv, ReadIsTrue
    <2> QED
      BY <2>1, <2>2 DEF Kept, Requested, Declined, Activated, Replaced
  <1>2. ASSUME NEW row \in job.rows, Expire(row) PROVE Goal
    <2>1. r = row.r /\ req'[r].status = "EXPIRED" /\ job.step = "expire"
      BY <1>2, ExpireDoes
    <2> QED
      BY <2>1 DEF PeriodsInv, DueIsUnheld
  <1>3. ASSUME NEW row \in job.rows, Remind(row) PROVE req'[r].status = req[r].status
    BY <1>3, RemindDoes
  <1>4. ASSUME MarkReminded PROVE req'[r].status = req[r].status
    BY <1>4, MarkDoes
  <1>5. ASSUME Quiet PROVE req' = req
    BY <1>5, QuietStepsWriteNothing
  <1> QED
    BY <1>1, <1>2, <1>3, <1>4, <1>5, StepIs DEF Quiet

\* An invoice that was paid or voided is written no more.
LEMMA InvoicesStand ==
  ASSUME Typed, RoomKept, PeriodsInv, LoneInv, [ActivationNext]_vars,
         NEW i \in Invoices, inv[i].status \in {"PAID", "VOID"}
  PROVE  overlapped \/ inv'[i].status = inv[i].status
  <1> SUFFICES ASSUME ~overlapped
               PROVE  inv'[i].status = inv[i].status
    OBVIOUS
  <1>1. ASSUME NEW c \in Callers, CallerStep(c) PROVE inv'[i].status = inv[i].status
    <2>1. ReadIsTrue(call[c])
      BY DEF LoneInv
    <2>2. CASE VoidOthers(c)
      BY <2>2, OthersAreVoided DEF PeriodsInv
    <2>3. CASE RecordPayment(c)
      <3> DEFINE j == IF call[c].found = 0 THEN Fresh(inv) ELSE call[c].found
      <3>1. /\ \A k \in Invoices \ {j} : inv'[k] = inv[k]
            /\ call[c].found = 0 => inv[j].status = "none"
        BY <2>3, PaymentIsRecorded DEF PeriodsInv
      <3>2. call[c].found # 0 => inv[j].status = "ISSUED"
        BY <2>1, <2>3 DEF ReadIsTrue, RecordPayment, AtStep, OpenFor, OpenInvoices
      <3> QED
        BY <3>1, <3>2
    <2>4. CASE CreateIssued(c)
      BY <2>4, IssuedIsCreated DEF PeriodsInv
    <2>5. CASE WriteVoid(c)
      <3>1. \A j \in Invoices \ {call[c].i} : inv'[j] = inv[j]
        BY <2>5, VoidIsWritten DEF PeriodsInv
      <3>2. inv[call[c].i].status = "ISSUED"
        BY <2>1, <2>5 DEF ReadIsTrue, WriteVoid, AtStep
      <3> QED
        BY <3>1, <3>2
    <2>6. CASE Begins(c) \/ Blocks(c)
      BY <2>6 DEF Begins, Begin, Blocks, SetUserBlocked
    <2>7. CASE InsertRequest(c) \/ WriteDecline(c) \/ ReadPeriodStart(c) \/ ReadSuspension(c)
      BY <2>7 DEF InsertRequest, WriteDecline, ReadPeriodStart, ReadSuspension
    <2>8. CASE Activate(c)
      BY <2>8 DEF Activate
    <2>9. CASE ReturnUnbilled(c) \/ FindOpen(c) \/ CallDies(c)
      BY <2>9 DEF ReturnUnbilled, FindOpen, CallDies
    <2> QED
      BY <1>1, <2>2, <2>3, <2>4, <2>5, <2>6, <2>7, <2>8, <2>9 DEF CallerStep
  <1>2. ASSUME NEW row \in job.rows, Remind(row) PROVE inv'[i].status = inv[i].status
    BY <1>2, RemindBills DEF PeriodsInv
  <1>3. ASSUME NEW row \in job.rows, Expire(row) PROVE inv' = inv
    BY <1>3 DEF Expire
  <1>4. ASSUME MarkReminded PROVE inv' = inv
    BY <1>4 DEF MarkReminded
  <1>5. ASSUME Quiet PROVE inv' = inv
    BY <1>5, QuietStepsWriteNothing
  <1> QED
    BY <1>1, <1>2, <1>3, <1>4, <1>5, StepIs DEF Quiet

\* An operation stays where it is while others move.
LEMMA OthersStay ==
  ASSUME Typed, RoomKept, PeriodsInv, [ActivationNext]_vars, NEW c \in Callers
  PROVE  call'[c] = call[c] \/ CallerStep(c)
  <1>1. ASSUME NEW d \in Callers, d # c, CallerStep(d) PROVE call'[c] = call[c]
    BY <1>1, CallerMovesAlone DEF Typed
  <1>2. ASSUME NEW row \in job.rows, Remind(row) \/ Expire(row) PROVE call' = call
    BY <1>2, TickMovesNoCall
  <1>3. ASSUME MarkReminded PROVE call' = call
    BY <1>3 DEF MarkReminded
  <1>4. ASSUME Quiet PROVE call' = call
    BY <1>4, QuietStepsWriteNothing
  <1> QED
    BY <1>1, <1>2, <1>3, <1>4, StepIs DEF Quiet

\* A registered payment is booked on the invoice it was registered for.
LEMMA PaymentIsBooked ==
  ASSUME Typed, RoomKept, PeriodsInv, LoneInv, [ActivationNext]_vars, NEW c \in Callers,
         call[c].op = "pay", call[c].step = "record", call'[c] = Idle, crashes' = crashes,
         OpenInvoices(call[c].target) \subseteq {call[c].i}, ~overlapped
  PROVE  inv'[call[c].i].status = "PAID"
  <1>1. Idle.step = "idle"
    BY DEF Idle
  <1>2. CallerStep(c) /\ call[c] # Idle
    BY <1>1, OthersStay
  <1>3. RecordPayment(c)
    <2>1. ~Begins(c) /\ ~CallDies(c)
      BY <1>2, TodayIsNat DEF Begins, Begin, CallDies
    <2>2. ~Blocks(c)
      BY <1>2 DEF Blocks, SetUserBlocked
    <2> QED
      BY <1>2, <2>1, <2>2 DEF CallerStep, InsertRequest, WriteDecline, ReadPeriodStart,
         ReadSuspension, Activate, ReturnUnbilled, VoidOthers, FindOpen, CreateIssued,
         WriteVoid, AtStep
  <1>4. call[c].found = call[c].i /\ call[c].found # 0
    <2>1. /\ call[c].i \in OpenFor(call[c])
          /\ IF call[c].found = 0 THEN OpenFor(call[c]) = {}
             ELSE call[c].found \in OpenFor(call[c])
      BY DEF LoneInv, ReadIsTrue, Settling
    <2> QED
      BY <2>1 DEF OpenFor
  <1> QED
    BY <1>3, <1>4, PaymentIsRecorded DEF PeriodsInv

\* A renewal ends later than the period it replaces.
LEMMA RenewalLasts ==
  ASSUME Typed, RoomKept, PeriodsInv, LoneInv, [ActivationNext]_vars,
         NEW r \in Requests, NEW s \in Requests,
         req[r].status = "APPROVED", req'[r].status = "EXPIRED", req[r].expires > today,
         req[s].status # "APPROVED", req'[s].status = "APPROVED",
         req[r].team = req'[s].team, req[r].target = req'[s].target,
         req[r].plan = req'[s].plan, ~overlapped
  PROVE  req'[s].expires = NoExpiry \/ req'[s].expires > req[r].expires
  <1>1. PICK c \in Callers : Activate(c)
    <2>1. ASSUME NEW c \in Callers, CallerStep(c) PROVE Activate(c)
      <3>1. CASE InsertRequest(c)
        BY <3>1, InsertDoes
      <3>2. CASE WriteDecline(c)
        BY <3>2, DeclineDoes
      <3>3. CASE \/ Begins(c) \/ Blocks(c) \/ ReadPeriodStart(c) \/ ReadSuspension(c)
                 \/ ReturnUnbilled(c) \/ VoidOthers(c) \/ FindOpen(c) \/ RecordPayment(c)
                 \/ CreateIssued(c) \/ WriteVoid(c) \/ CallDies(c)
        <4>1. req' = req
          BY <3>3 DEF Begins, Begin, Blocks, SetUserBlocked, ReadPeriodStart,
             ReadSuspension, ReturnUnbilled, VoidOthers, FindOpen, RecordPayment,
             CreateIssued, WriteVoid, CallDies
        <4> QED
          BY <4>1
      <3> QED
        BY <2>1, <3>1, <3>2, <3>3 DEF CallerStep
    <2>2. ASSUME NEW row \in job.rows, Remind(row) PROVE req'[s].status = req[s].status
      BY <2>2, RemindDoes
    <2>3. ASSUME NEW row \in job.rows, Expire(row) PROVE FALSE
      BY <2>3, ExpireDoes
    <2>4. ASSUME MarkReminded PROVE req'[s].status = req[s].status
      BY <2>4, MarkDoes
    <2>5. ASSUME Quiet PROVE req' = req
      BY <2>5, QuietStepsWriteNothing
    <2> QED
      BY <2>1, <2>2, <2>3, <2>4, <2>5, StepIs DEF Quiet
  <1>2. s = call'[c].r
    BY <1>1, ActivateMoves, ActivateDoes DEF PeriodsInv
  <1>3. /\ req'[s].team = call[c].team /\ req'[s].target = call[c].target
        /\ req'[s].plan = call[c].plan
        /\ req'[s].expires = (IF call[c].days = 0 THEN NoExpiry
                              ELSE call[c].start + call[c].days)
    BY <1>1, <1>2, ActivateDoes DEF PeriodsInv
  <1>4. call[c].step = "activate" /\ call[c].op \in Activations
    BY <1>1, AtStepFits DEF Activate, AtStep
  <1>5. call[c].start >= req[r].expires
    BY <1>3, <1>4 DEF LoneInv, ReadIsTrue
  <1>6. /\ call[c].start \in Nat /\ call[c].days \in Nat
        /\ req[r].expires \in Nat
    BY CallIsFormed DEF Typed, Row
  <1> QED
    BY <1>3, <1>5, <1>6

\* The tick closes no period it sent no final notice of.
LEMMA NoticeIsGiven ==
  ASSUME Typed, RoomKept, PeriodsInv, Noticed, PeriodsOutlastNotice, [ActivationNext]_vars,
         NEW r \in Requests, req[r].status = "APPROVED", req'[r].status = "EXPIRED",
         job.step = "expire", job' # job
  PROVE  req[r].finals >= 1 \/ crashes > 0
  <1>1. PICK row \in job.rows : Expire(row)
    <2>1. ASSUME NEW c \in Callers, CallerStep(c) PROVE job' = job
      BY <2>1, CallerDoes DEF CallerEffect
    <2>2. ASSUME NEW row \in job.rows, Remind(row) PROVE FALSE
      BY <2>2 DEF Remind
    <2>3. ASSUME MarkReminded PROVE FALSE
      BY <2>3 DEF MarkReminded
    <2>4. ASSUME Quiet PROVE req' = req
      BY <2>4, QuietStepsWriteNothing
    <2> QED
      BY <2>1, <2>2, <2>3, <2>4, StepIs DEF Quiet
  <1>2. r = row.r
    BY <1>1, ExpireDoes
  <1>3. req[r].expires \in 1..today
    BY <1>2 DEF PeriodsInv, DueIsUnheld
  <1>4. req[r].finals \in Nat /\ crashes \in Nat /\ today \in Nat
    BY TodayIsNat DEF Typed, Row
  <1>5. ~(crashes = 0 /\ req[r].finals = 0)
    <2>1. req[r].expires # 0 /\ ~(req[r].expires > today)
      BY <1>3, <1>4
    <2> QED
      BY <2>1 DEF Noticed, NoticeAhead, Unannounced, Running, NoExpiry
  <1> QED
    BY <1>4, <1>5

\* The whole invariant, which every behaviour keeps.
LEMMA ActInvAlways ==
  ActivationSpec => []ActInv
  <1>1. ActivationInit => ActInv
    <2>1. ASSUME ActivationInit PROVE ActInv
      <3>1. /\ Typed /\ RoomKept /\ PeriodsInv
            /\ \A r \in Requests : req[r] = NoRow
            /\ \A c \in Callers : call[c] = Idle
            /\ job = Resting /\ job.step = "idle" /\ job.rows = {}
        BY <2>1, NothingAtFirst
      <3>2. NoRow.status = "none" /\ NoRow.finalReminded = FALSE
        BY DEF NoRow
      <3>3. Noticed
        BY <3>1, <3>2 DEF Noticed, NoticeCounted, NoticeInHand, NoticeAhead,
                          Unannounced, Running
      <3>4. LoneInv
        BY <3>1, NothingIsRead DEF LoneInv, Alone
      <3> QED
        BY <3>1, <3>3, <3>4 DEF ActInv
    <2> QED
      BY <2>1
  <1>2. ActInv /\ [ActivationNext]_vars => ActInv'
    BY PeriodsStay, NoticesStay, LoneStays DEF ActInv
  <1> QED
    BY <1>1, <1>2, PTL DEF ActivationSpec

(***************************************************************************)
(* A renewal ends later than the period it replaces, a request is reviewed *)
(* once, a paid or void invoice stays so and a registered payment is       *)
(* booked on its invoice, for every instance: plan-activation-service.ts   *)
(* computes the next period from what runs, and its reads hold while       *)
(* nothing overlaps them.                                                  *)
(***************************************************************************)
THEOREM DecisionsAlwaysStand ==
  ActivationSpec => RenewalExtends /\ DecisionsStand
  <1> DEFINE
        Renews == \A r, s \in Requests :
          (/\ req[r].status = "APPROVED" /\ req'[r].status = "EXPIRED"
           /\ req[r].expires > today
           /\ req[s].status # "APPROVED" /\ req'[s].status = "APPROVED"
           /\ req[r].team = req'[s].team /\ req[r].target = req'[s].target
           /\ req[r].plan = req'[s].plan /\ ~overlapped)
          => req'[s].expires = NoExpiry \/ req'[s].expires > req[r].expires
        Reviews == \A r \in Requests :
          (req[r].status \notin {"none", "PENDING"} /\ req'[r].status # req[r].status)
          => \/ overlapped
             \/ req[r].status = "APPROVED" /\ req'[r].status = "EXPIRED"
        Finals == \A i \in Invoices : inv[i].status \in {"PAID", "VOID"} =>
                              overlapped \/ inv'[i].status = inv[i].status
        Books == \A c \in Callers :
          (/\ call[c].op = "pay" /\ call[c].step = "record"
           /\ call'[c] = Idle /\ crashes' = crashes
           /\ OpenInvoices(call[c].target) \subseteq {call[c].i} /\ ~overlapped)
          => inv'[call[c].i].status = "PAID"
  <1>1. ASSUME ActInv, [ActivationNext]_vars PROVE Renews /\ Reviews /\ Finals /\ Books
    <2>1. Typed /\ RoomKept /\ PeriodsInv /\ LoneInv
      BY <1>1 DEF ActInv
    <2>2. Renews
      BY <1>1, <2>1, RenewalLasts
    <2>3. Reviews
      BY <1>1, <2>1, ReviewsStand
    <2>4. Finals
      BY <1>1, <2>1, InvoicesStand
    <2>5. Books
      BY <1>1, <2>1, PaymentIsBooked
    <2> QED
      BY <2>2, <2>3, <2>4, <2>5
  <1> HIDE DEF Renews, Reviews, Finals, Books
  <1>2. ActivationSpec => [][Renews]_vars /\ [][Reviews]_vars /\ [][Finals]_vars /\ [][Books]_vars
    BY <1>1, ActInvAlways, PTL DEF ActivationSpec
  <1> QED
    BY <1>2 DEF Renews, Reviews, Finals, Books, RenewalExtends, DecisionsStand, ReviewedOnce,
                InvoiceIsFinal, PaymentSettlesItsInvoice

(***************************************************************************)
(* And, if every period is longer than the final notice, the job of        *)
(* plan-expiry-job.ts closes no period unannounced: NothingTakenBack.      *)
(* PeriodsOutlastNotice says what a shorter one would mean.                *)
(***************************************************************************)
THEOREM NothingIsTakenBack ==
  ASSUME PeriodsOutlastNotice
  PROVE  ActivationSpec => NothingTakenBack
  <1> DEFINE Announced == \A r \in Requests :
               (/\ req[r].status = "APPROVED" /\ req'[r].status = "EXPIRED"
                /\ job.step = "expire" /\ job' # job)
               => req[r].finals >= 1 \/ crashes > 0
  <1>1. ActInv /\ [ActivationNext]_vars => Announced
    BY NoticeIsGiven DEF ActInv
  <1> HIDE DEF Announced
  <1>2. ActivationSpec => [][Announced]_vars
    BY <1>1, ActInvAlways, PTL DEF ActivationSpec
  <1>3. ActivationSpec => RenewalExtends /\ DecisionsStand
    BY DecisionsAlwaysStand
  <1> QED
    BY <1>2, <1>3 DEF Announced, NoticeBeforeExpiry, PeriodsAreHonoured, NothingTakenBack
-----------------------------------------------------------------------------
(* Suspensions                                                             *)

\* A period that ended is not taken up again.
LEMMA EndedForGood ==
  ASSUME Typed, RoomKept, PeriodsInv, [ActivationNext]_vars, NEW u, HasEnded(u)
  PROVE  HasEnded(u)'
  <1>1. PICK r \in Requests : /\ req[r].target = u /\ req[r].status = "EXPIRED"
                              /\ ~Held(r)
    BY DEF HasEnded
  <1>2. ASSUME NEW c \in Callers, CallerStep(c)
        PROVE  req'[r] = req[r] /\ ~Held(r)'
    <2>1. RowsMove /\ HoldsMove
      BY <1>2, CallerDoes DEF CallerEffect
    <2>2. Kept(r)
      BY <1>1, <2>1 DEF RowsMove, Requested, Declined, Activated, Replaced
    <2>3. ~Held(r)'
      BY <1>1, <2>1 DEF HoldsMove, Held
    <2> QED
      BY <2>2, <2>3 DEF Kept
  <1>3. ASSUME call' = call, req'[r].target = req[r].target, req'[r].status = req[r].status
        PROVE  HasEnded(u)'
    BY <1>1, <1>3 DEF HasEnded, Held
  <1>4. ASSUME NEW row \in job.rows, Remind(row) PROVE HasEnded(u)'
    <2>1. req'[r].target = req[r].target /\ req'[r].status = req[r].status
      BY <1>4, RemindDoes DEF SameTerms
    <2> QED
      BY <1>3, <1>4, <2>1, TickMovesNoCall
  <1>5. ASSUME NEW row \in job.rows, Expire(row) PROVE HasEnded(u)'
    <2>1. req'[r].target = req[r].target /\ req'[r].status = req[r].status
      BY <1>1, <1>5, ExpireDoes DEF SameTerms
    <2> QED
      BY <1>3, <1>5, <2>1, TickMovesNoCall
  <1>6. ASSUME MarkReminded PROVE HasEnded(u)'
    <2>1. req'[r].target = req[r].target /\ req'[r].status = req[r].status
      BY <1>6, MarkDoes DEF SameTerms
    <2>2. call' = call
      BY <1>6 DEF MarkReminded
    <2> QED
      BY <1>3, <2>1, <2>2
  <1>7. ASSUME Quiet PROVE HasEnded(u)'
    BY <1>3, <1>7, QuietStepsWriteNothing
  <1>8. ASSUME NEW c \in Callers, CallerStep(c) PROVE HasEnded(u)'
    BY <1>1, <1>2, <1>8 DEF HasEnded
  <1> QED
    BY <1>4, <1>5, <1>6, <1>7, <1>8, StepIs DEF Quiet

\* A payment lifts the suspension of a client whose period ended.
LEMMA LiftsStayTold ==
  ASSUME Typed, RoomKept, PeriodsInv, BlocksAreTold, [ActivationNext]_vars,
         NEW c \in Callers, call'[c].lift
  PROVE  HasEnded(call[c].target)'
  <1>1. Idle.lift = FALSE /\ call \in [Callers -> Call]
    BY DEF Idle, Typed
  <1>2. ASSUME call'[c].target = call[c].target, call[c].lift
        PROVE  HasEnded(call[c].target)'
    <2>1. HasEnded(call[c].target)
      BY <1>2 DEF BlocksAreTold
    <2>2. \A u : u = call[c].target => HasEnded(u)'
      BY <2>1, EndedForGood
    <2> QED
      BY <1>2, <2>2 DEF HasEnded, Held
  <1>3. CASE call'[c] = call[c]
    BY <1>2, <1>3
  <1>4. ASSUME CallerStep(c), call'[c] # call[c] PROVE HasEnded(call[c].target)'
    <2>1. CASE Begins(c)
      BY <1>1, <2>1 DEF Begins, Begin, Opening
    <2>2. CASE Blocks(c)
      BY <1>4, <2>2 DEF Blocks, SetUserBlocked
    <2>3. CASE \/ InsertRequest(c) \/ WriteDecline(c) \/ ReturnUnbilled(c)
               \/ RecordPayment(c) \/ CreateIssued(c) \/ WriteVoid(c) \/ CallDies(c)
      <3>1. Return(c)
        BY <2>3 DEF InsertRequest, WriteDecline, ReturnUnbilled, RecordPayment,
                    CreateIssued, WriteVoid, CallDies
      <3> QED
        BY <1>1, <3>1 DEF Return
    <2>4. CASE ReadPeriodStart(c)
      BY <1>2, <2>4, PeriodStartIsRead DEF SameTask, PeriodsInv
    <2>5. CASE ReadSuspension(c)
      <3>0. /\ SameTask(call'[c], call[c])
            /\ call'[c].lift = (user[call[c].target].blocked /\ user[call[c].target].bySystem)
        BY <2>5, SuspensionIsRead
      <3>4. call[c].step = "peek"
        BY <2>5 DEF ReadSuspension, AtStep
      <3>1. /\ call'[c].target = call[c].target /\ user[call[c].target].bySystem
            /\ call[c].step = "peek"
        BY <3>0, <3>4 DEF SameTask
      <3>2. call[c].target \in Users
        BY <3>1, CallIsFormed DEF WellFormed, Targets
      <3>3. \A u : u = call[c].target => HasEnded(u)'
        BY <3>1, <3>2, EndedForGood DEF BlocksAreTold
      <3> QED
        BY <3>1, <3>3 DEF HasEnded, Held
    <2>6. CASE Activate(c)
      BY <1>2, <2>6, ActivateMoves DEF SameTask
    <2>7. CASE VoidOthers(c)
      BY <1>2, <2>7, OthersAreVoided, GoesTo DEF SameTask, PeriodsInv, Steps
    <2>8. CASE FindOpen(c)
      BY <1>2, <2>8, OpenIsFound DEF SameTask
    <2> QED
      BY <1>4, <2>1, <2>2, <2>3, <2>4, <2>5, <2>6, <2>7, <2>8 DEF CallerStep
  <1> QED
    BY <1>3, <1>4, OthersStay

\* Activations, blocks by an operator and the closing of periods alone write
\* to clients.
LEMMA WhoWritesUsers ==
  ASSUME Typed, RoomKept, PeriodsInv, [ActivationNext]_vars
  PROVE  \/ \E c \in Callers : Activate(c) \/ Blocks(c)
         \/ \E row \in job.rows : Expire(row)
         \/ UNCHANGED <<user, manual>>
  <1>1. ASSUME NEW c \in Callers, CallerStep(c)
        PROVE  Activate(c) \/ Blocks(c) \/ UNCHANGED <<user, manual>>
    <2>1. CASE Begins(c)
      BY <2>1 DEF Begins, Begin
    <2>2. CASE InsertRequest(c) \/ WriteDecline(c) \/ ReadPeriodStart(c) \/ ReadSuspension(c)
      BY <2>2 DEF InsertRequest, WriteDecline, ReadPeriodStart, ReadSuspension
    <2>3. CASE ReturnUnbilled(c) \/ VoidOthers(c) \/ FindOpen(c)
      BY <2>3 DEF ReturnUnbilled, VoidOthers, FindOpen
    <2>4. CASE RecordPayment(c) \/ CreateIssued(c) \/ WriteVoid(c) \/ CallDies(c)
      BY <2>4 DEF RecordPayment, CreateIssued, WriteVoid, CallDies
    <2> QED
      BY <1>1, <2>1, <2>2, <2>3, <2>4 DEF CallerStep
  <1>2. ASSUME NEW row \in job.rows, Remind(row) PROVE UNCHANGED <<user, manual>>
    BY <1>2 DEF Remind
  <1>3. ASSUME MarkReminded PROVE UNCHANGED <<user, manual>>
    BY <1>3 DEF MarkReminded
  <1>4. ASSUME Quiet PROVE UNCHANGED <<user, manual>>
    BY <1>4, QuietStepsWriteNothing
  <1> QED
    BY <1>1, <1>2, <1>3, <1>4, StepIs DEF Quiet

LEMMA BlocksStayTold ==
  ASSUME Typed, RoomKept, PeriodsInv, BlocksAreTold, [ActivationNext]_vars
  PROVE  BlocksAreTold'
  <1> DEFINE Told(u) == /\ user'[u].bySystem => HasEnded(u)'
                        /\ manual'[u] = "blocked" => user'[u].blocked \/ HasEnded(u)'
  <1>1. \A u : HasEnded(u) => HasEnded(u)'
    BY EndedForGood
  <1>2. ASSUME NEW u \in Users, user'[u] = user[u], manual'[u] = manual[u] PROVE Told(u)
    BY <1>1, <1>2 DEF BlocksAreTold
  <1>3. ASSUME NEW c \in Callers, Activate(c), NEW u \in Users PROVE Told(u)
    <2>1. manual' = manual
      BY <1>3 DEF Activate
    <2>2. CASE u = call[c].target
      <3>1. /\ user'[u].blocked = (user[u].blocked /\ ~call[c].lift)
            /\ user'[u].bySystem = (user[u].bySystem /\ ~call[c].lift)
        BY <1>3, <2>2, ActivateUsers
      <3>2. call[c].lift => HasEnded(u)
        BY <2>2 DEF BlocksAreTold
      <3> QED
        BY <1>1, <2>1, <3>1, <3>2 DEF BlocksAreTold
    <2>3. CASE u # call[c].target
      BY <1>2, <1>3, <2>1, <2>3, ActivateUsers
    <2> QED
      BY <2>2, <2>3
  <1>4. ASSUME NEW c \in Callers, Blocks(c), NEW u \in Users PROVE Told(u)
    <2>1. PICK v \in Users, b \in BOOLEAN : SetUserBlocked(c, v, b)
      BY <1>4 DEF Blocks
    <2>2. CASE u = v
      BY <2>1, <2>2, BlockUsers, ZenonT(60)
    <2>3. CASE u # v
      BY <1>2, <2>1, <2>3, BlockUsers
    <2> QED
      BY <2>2, <2>3
  <1>5. ASSUME NEW row \in job.rows, Expire(row), NEW u \in Users PROVE Told(u)
    <2>0. manual' = manual /\ job.step = "expire"
      BY <1>5 DEF Expire
    <2>1. manual' = manual /\ job.step = "expire" /\ row.r \in Requests
      BY <2>0, JobFits
    <2>2. CASE u = req[row.r].target
      <3>1. req'[row.r].status = "EXPIRED" /\ req'[row.r].target = u /\ ~Held(row.r)'
        BY <1>5, <2>1, <2>2, ExpireDoes, TickMovesNoCall
        DEF SameTerms, PeriodsInv, DueIsUnheld, Held
      <3>2. HasEnded(u)'
        BY <2>1, <3>1 DEF HasEnded
      <3> QED
        BY <3>2
    <2>3. CASE u # req[row.r].target
      BY <1>2, <1>5, <2>1, <2>3, ExpireUsers
    <2> QED
      BY <2>2, <2>3
  <1>6. \A u \in Users : Told(u)
    BY <1>2, <1>3, <1>4, <1>5, WhoWritesUsers
  <1>7. ASSUME NEW c \in Callers, call'[c].lift PROVE HasEnded(call[c].target)'
    BY <1>7, LiftsStayTold
  <1> QED
    BY <1>6, <1>7 DEF BlocksAreTold

\* Neither what is approved nor whom it is for.
PeriodsSame ==
  \A r \in Requests :
     /\ (req'[r].status = "APPROVED") <=> (req[r].status = "APPROVED")
     /\ req[r].status = "APPROVED" => SameTerms(req'[r], req[r])

\* While nothing has overlapped, activations and the closing of periods alone
\* change what is approved.
LEMMA WhoWritesPeriods ==
  ASSUME Typed, RoomKept, PeriodsInv, LoneInv, ~overlapped, [ActivationNext]_vars
  PROVE  \/ \E c \in Callers : Activate(c)
         \/ \E c \in Callers : Blocks(c) /\ PeriodsSame
         \/ \E row \in job.rows : Expire(row)
         \/ UNCHANGED <<user, manual>> /\ PeriodsSame
  <1>1. ASSUME req' = req PROVE PeriodsSame
    BY <1>1 DEF PeriodsSame, SameTerms
  <1>2. ASSUME NEW c \in Callers, CallerStep(c) PROVE Activate(c) \/ PeriodsSame
    <2>1. CASE InsertRequest(c)
      BY <2>1, InsertDoes DEF PeriodsSame, SameTerms
    <2>2. CASE WriteDecline(c)
      <3> DEFINE r == call[c].r
      <3>1. /\ r \in Requests /\ Holds(call[c], r) /\ req'[r].status # "APPROVED"
            /\ \A q \in Requests \ {r} : req'[q] = req[q]
        BY <2>2, DeclineDoes
      <3>2. req[r].status = "PENDING"
        BY <3>1 DEF LoneInv, ReadIsTrue
      <3> HIDE DEF r
      <3> QED
        BY <3>1, <3>2 DEF PeriodsSame, SameTerms
    <2>3. CASE Begins(c) \/ Blocks(c)
      BY <1>1, <2>3 DEF Begins, Begin, Blocks, SetUserBlocked
    <2>4. CASE ReadPeriodStart(c) \/ ReadSuspension(c) \/ ReturnUnbilled(c) \/ VoidOthers(c)
      BY <1>1, <2>4 DEF ReadPeriodStart, ReadSuspension, ReturnUnbilled, VoidOthers
    <2>5. CASE \/ FindOpen(c) \/ RecordPayment(c) \/ CreateIssued(c) \/ WriteVoid(c)
               \/ CallDies(c)
      BY <1>1, <2>5 DEF FindOpen, RecordPayment, CreateIssued, WriteVoid, CallDies
    <2> QED
      BY <1>2, <2>1, <2>2, <2>3, <2>4, <2>5 DEF CallerStep
  <1>3. ASSUME NEW row \in job.rows, Remind(row) PROVE PeriodsSame
    BY <1>3, RemindDoes DEF PeriodsSame, SameTerms
  <1>4. ASSUME MarkReminded PROVE PeriodsSame
    <2> DEFINE r == job.r
    <2>1. /\ r \in Requests /\ req'[r].status = req[r].status /\ SameTerms(req'[r], req[r])
          /\ \A q \in Requests \ {r} : req'[q] = req[q]
      BY <1>4, MarkDoes
    <2> HIDE DEF r
    <2> QED
      BY <2>1 DEF PeriodsSame, SameTerms
  <1>5. ASSUME Quiet PROVE PeriodsSame
    BY <1>1, <1>5, QuietStepsWriteNothing
  <1> QED
    BY <1>2, <1>3, <1>4, <1>5, StepIs, WhoWritesUsers DEF Quiet

LEMMA OverlapsLast ==
  ASSUME Typed, RoomKept, PeriodsInv, LoneInv, [ActivationNext]_vars, ~overlapped'
  PROVE  ~overlapped
  <1>1. ASSUME NEW c \in Callers, CallerStep(c) PROVE ~overlapped
    BY <1>1, CallerIsAlone DEF LoneInv
  <1>2. ASSUME NEW row \in job.rows, Remind(row) PROVE ~overlapped
    BY <1>2 DEF Remind
  <1>3. ASSUME NEW row \in job.rows, Expire(row) PROVE ~overlapped
    BY <1>3 DEF Expire
  <1>4. ASSUME MarkReminded \/ NextPhase \/ TickEnds PROVE ~overlapped
    BY <1>4 DEF MarkReminded, NextPhase, TickEnds
  <1>5. ASSUME TickStarts \/ TickDies \/ NextDay PROVE ~overlapped
    BY <1>5 DEF TickStarts, Join, TickDies, NextDay
  <1>6. ASSUME UNCHANGED vars PROVE ~overlapped
    BY <1>6 DEF vars
  <1> QED
    BY <1>1, <1>2, <1>3, <1>4, <1>5, <1>6, StepIs

\* What an activation of one target leaves of the others' periods.
LEMMA ActivateSparesOthers ==
  ASSUME Typed, RoomKept, PeriodsInv, LoneInv, ~overlapped, NEW c \in Callers, Activate(c),
         NEW r, r = call'[c].r
  PROVE  /\ r \in Requests /\ req[r].status # "APPROVED" /\ req'[r].status = "APPROVED"
         /\ req'[r].target = call[c].target /\ req'[r].plan = call[c].plan
         /\ \A q \in Requests \ {r} :
              /\ req'[q].status = "APPROVED" => req'[q] = req[q]
              /\ req[q].status = "APPROVED" /\ req[q].target # call[c].target =>
                   req'[q] = req[q]
  <1>1. /\ r \in Requests
        /\ \/ call[c].op = "approve" /\ Holds(call[c], r)
           \/ call[c].op \in {"assign", "pay"} /\ req[r].status = "none"
    BY ActivateMoves
  <1>2. req[r].status \in {"PENDING", "none"}
    BY <1>1 DEF LoneInv, ReadIsTrue
  <1>3. /\ req'[r].status = "APPROVED" /\ req'[r].target = call[c].target
        /\ req'[r].plan = call[c].plan
        /\ \A q \in Requests \ {r} :
             IF /\ req[q].status = "APPROVED" /\ req[q].team = call[c].team
                /\ req[q].target = call[c].target
             THEN req'[q].status = "EXPIRED"
             ELSE req'[q] = req[q]
    BY ActivateDoes DEF PeriodsInv
  <1> QED
    BY <1>1, <1>2, <1>3

LEMMA NobodyRidesFree ==
  ASSUME Typed, RoomKept, PeriodsInv, LoneInv, NoFreeRide, [ActivationNext]_vars
  PROVE  NoFreeRide'
  <1> DEFINE Rides(u) == \E r \in Requests : /\ req'[r].status = "APPROVED"
                                             /\ req'[r].target = u /\ req'[r].plan = user'[u].plan
  <1> SUFFICES ASSUME NEW u \in Users, user'[u].plan # NoPlan, ~user'[u].blocked,
                      manual'[u] # "unblocked", ~overlapped'
               PROVE  Rides(u)
    BY DEF NoFreeRide, Approved
  <1>1. ~overlapped
    BY OverlapsLast
  <1>2. ASSUME user'[u] = user[u], manual'[u] = manual[u]
        PROVE  \E r \in Requests : /\ req[r].status = "APPROVED" /\ req[r].target = u
                                   /\ req[r].plan = user'[u].plan
    BY <1>1, <1>2 DEF NoFreeRide, Approved
  <1>3. ASSUME NEW c \in Callers, Activate(c) PROVE Rides(u)
    <2> DEFINE r == call'[c].r
    <2>1. /\ r \in Requests /\ req[r].status # "APPROVED" /\ req'[r].status = "APPROVED"
          /\ req'[r].target = call[c].target /\ req'[r].plan = call[c].plan
          /\ \A q \in Requests \ {r} :
               req[q].status = "APPROVED" /\ req[q].target # call[c].target => req'[q] = req[q]
      BY <1>1, <1>3, ActivateSparesOthers
    <2> HIDE DEF r
    <2>2. CASE u = call[c].target
      <3>1. user'[u].plan = call[c].plan
        BY <1>3, <2>2, ActivateUsers
      <3> QED
        BY <2>1, <2>2, <3>1
    <2>3. CASE u # call[c].target
      <3>0. manual' = manual
        BY <1>3 DEF Activate
      <3>1. user'[u] = user[u] /\ manual' = manual
        BY <1>3, <2>3, <3>0, ActivateUsers
      <3> QED
        BY <1>2, <2>1, <2>3, <3>1
    <2> QED
      BY <2>2, <2>3
  <1>4. ASSUME PeriodsSame, user'[u] = user[u], manual'[u] = manual[u] PROVE Rides(u)
    BY <1>2, <1>4 DEF PeriodsSame, SameTerms
  <1>5. ASSUME NEW c \in Callers, Blocks(c), PeriodsSame PROVE Rides(u)
    <2>1. PICK v \in Users, b \in BOOLEAN : SetUserBlocked(c, v, b)
      BY <1>5 DEF Blocks
    <2>2. u # v
      BY <2>1, BlockUsers
    <2> QED
      BY <1>4, <1>5, <2>1, <2>2, BlockUsers
  <1>6. ASSUME NEW row \in job.rows, Expire(row) PROVE Rides(u)
    <2>1. u # req[row.r].target /\ user'[u] = user[u]
      BY <1>6, ExpireUsers
    <2>2. manual' = manual
      BY <1>6 DEF Expire
    <2>3. \A q \in Requests \ {row.r} : req'[q] = req[q]
      BY <1>6, ExpireDoes
    <2> QED
      BY <1>2, <2>1, <2>2, <2>3
  <1> QED
    BY <1>1, <1>3, <1>4, <1>5, <1>6, WhoWritesPeriods

LEMMA DaysPass ==
  ASSUME Typed, RoomKept, PeriodsInv, [ActivationNext]_vars
  PROVE  today \in Nat /\ today' \in Nat /\ today' >= today
  <1>1. today \in Nat /\ today + 1 \in Nat
    BY TodayIsNat
  <1>2. ASSUME NEW c \in Callers, CallerStep(c) PROVE today' = today
    BY <1>2, CallerDoes DEF CallerEffect
  <1>3. ASSUME NEW row \in job.rows, Remind(row) PROVE today' = today
    BY <1>3 DEF Remind
  <1>4. ASSUME NEW row \in job.rows, Expire(row) PROVE today' = today
    BY <1>4 DEF Expire
  <1>5. ASSUME MarkReminded \/ NextPhase \/ TickEnds \/ TickStarts PROVE today' = today
    BY <1>5 DEF MarkReminded, NextPhase, TickEnds, TickStarts
  <1>6. ASSUME TickDies \/ NextDay PROVE today' \in {today, today + 1}
    BY <1>6 DEF TickDies, NextDay
  <1>7. ASSUME UNCHANGED vars PROVE today' = today
    BY <1>7 DEF vars
  <1>8. today' \in {today, today + 1}
    BY <1>2, <1>3, <1>4, <1>5, <1>6, <1>7, StepIs
  <1> QED
    BY <1>1, <1>8

\* A client of one team has one period, so the one the tick closes was the
\* last that ran.
LEMMA NobodyPaidIsSuspended ==
  ASSUME Typed, RoomKept, PeriodsInv, LoneInv, ClientsHaveOneTeam, PaidUserNotSuspended,
         [ActivationNext]_vars
  PROVE  PaidUserNotSuspended'
  <1> SUFFICES ASSUME NEW u \in Users, user'[u].blocked, user'[u].bySystem, ~overlapped',
                      NEW r \in Requests, req'[r].status = "APPROVED", req'[r].target = u
               PROVE  req'[r].expires # NoExpiry /\ req'[r].expires <= today'
    BY DEF PaidUserNotSuspended, Approved
  <1>1. ~overlapped
    BY OverlapsLast
  <1>2. ASSUME user[u].blocked, user[u].bySystem, req[r].status = "APPROVED",
               SameTerms(req'[r], req[r])
        PROVE  req'[r].expires # NoExpiry /\ req'[r].expires <= today'
    <2>1. /\ req'[r].expires = req[r].expires /\ req[r].expires # NoExpiry
          /\ req[r].expires <= today
      BY <1>1, <1>2 DEF PaidUserNotSuspended, Approved, SameTerms
    <2>2. req[r].expires \in Nat
      BY DEF Typed, Row
    <2> QED
      BY <2>1, <2>2, DaysPass
  <1>3. ASSUME NEW c \in Callers, Activate(c)
        PROVE  req'[r].expires # NoExpiry /\ req'[r].expires <= today'
    <2>1. u # call[c].target
      <3>1. SUFFICES ASSUME u = call[c].target PROVE FALSE
        OBVIOUS
      <3>2. /\ user'[u].blocked = (user[u].blocked /\ ~call[c].lift)
            /\ user'[u].bySystem = (user[u].bySystem /\ ~call[c].lift)
        BY <1>3, <3>1, ActivateUsers
      <3>3. call[c].step = "activate" /\ u # NoUser
        BY <1>3, ActivationAssumption DEF Activate, AtStep
      <3>4. call[c].lift = (user[u].blocked /\ user[u].bySystem)
        BY <1>1, <3>1, <3>3 DEF LoneInv, ReadIsTrue
      <3> QED
        BY <3>2, <3>4
    <2>2. user'[u] = user[u]
      BY <1>3, <2>1, ActivateUsers
    <2>3. req'[r] = req[r]
      BY <1>1, <1>3, <2>1, ActivateSparesOthers
    <2> QED
      BY <1>2, <2>2, <2>3 DEF SameTerms
  <1>4. ASSUME PeriodsSame, user'[u] = user[u]
        PROVE  req'[r].expires # NoExpiry /\ req'[r].expires <= today'
    BY <1>2, <1>4 DEF PeriodsSame
  <1>5. ASSUME NEW c \in Callers, Blocks(c), PeriodsSame
        PROVE  req'[r].expires # NoExpiry /\ req'[r].expires <= today'
    <2>1. PICK v \in Users, b \in BOOLEAN : SetUserBlocked(c, v, b)
      BY <1>5 DEF Blocks
    <2>2. u # v
      BY <2>1, BlockUsers, ZenonT(60)
    <2> QED
      BY <1>4, <1>5, <2>1, <2>2, BlockUsers
  <1>6. ASSUME NEW row \in job.rows, Expire(row)
        PROVE  req'[r].expires # NoExpiry /\ req'[r].expires <= today'
    <2>1. /\ row.r \in Requests /\ req'[row.r].status = "EXPIRED" /\ job.step = "expire"
          /\ \A q \in Requests \ {row.r} : req'[q] = req[q]
      BY <1>6, ExpireDoes
    <2>2. r # row.r /\ req'[r] = req[r]
      BY <2>1
    <2>3. req[row.r].status = "APPROVED"
      BY <1>1, <2>1 DEF LoneInv
    <2>4. u # req[row.r].target
      <3>1. SUFFICES ASSUME u = req[row.r].target PROVE FALSE
        OBVIOUS
      <3>2. u # NoUser
        BY ActivationAssumption
      <3>3. <<req[r].team, u>> \in Members /\ <<req[row.r].team, u>> \in Members
        BY <2>1, <2>2, <3>1, <3>2 DEF PeriodsInv, OfMembers
      <3>4. req[r].team = req[row.r].team
        BY <3>3 DEF ClientsHaveOneTeam
      <3> QED
        BY <2>1, <2>2, <2>3, <3>1, <3>4 DEF PeriodsInv, OnePeriodPerTarget
    <2>5. user'[u] = user[u]
      BY <1>6, <2>4, ExpireUsers
    <2> QED
      BY <1>2, <2>2, <2>5 DEF SameTerms
  <1> QED
    BY <1>1, <1>3, <1>4, <1>5, <1>6, WhoWritesPeriods

LEMMA BlocksAtFirst ==
  ASSUME ActivationInit
  PROVE  BlocksAreTold /\ NoFreeRide /\ PaidUserNotSuspended
  <1>1. /\ \A u \in Users : /\ user[u].plan = NoPlan /\ user[u].bySystem = FALSE
                            /\ manual[u] = "untouched"
        /\ \A c \in Callers : call[c].lift = FALSE
    BY DEF ActivationInit, Idle
  <1> QED
    BY <1>1 DEF BlocksAreTold, NoFreeRide, PaidUserNotSuspended

(***************************************************************************)
(* Nobody who may send has a plan that no approved request will ever end   *)
(* (unless an operator unblocked them, or operations overlapped), and no   *)
(* payment lifts a block an operator set, for every instance and whatever  *)
(* overlaps: systemUnblockData lifts what expireDue set alone.             *)
(***************************************************************************)
THEOREM BlocksAlwaysTold ==
  ActivationSpec => [](NoFreeRide /\ ManualBlockStays)
  <1>1. ActivationInit => BlocksAreTold /\ NoFreeRide
    BY BlocksAtFirst
  <1>2. ActInv /\ BlocksAreTold /\ NoFreeRide /\ [ActivationNext]_vars =>
          BlocksAreTold' /\ NoFreeRide'
    BY BlocksStayTold, NobodyRidesFree DEF ActInv
  <1>3. BlocksAreTold => ManualBlockStays
    BY DEF BlocksAreTold, ManualBlockStays, HasEnded
  <1> QED
    BY <1>1, <1>2, <1>3, ActInvAlways, PTL DEF ActivationSpec

(***************************************************************************)
(* And, where a client is in one team, the job suspends no client whose    *)
(* period still runs: SuspensionIsJust.  A client of two teams may be paid *)
(* for in one and suspended by the end of the period of the other.         *)
(***************************************************************************)
THEOREM SuspensionAlwaysJust ==
  ASSUME ClientsHaveOneTeam
  PROVE  ActivationSpec => []SuspensionIsJust
  <1>1. ActivationInit => PaidUserNotSuspended
    BY BlocksAtFirst
  <1>2. ActInv /\ PaidUserNotSuspended /\ [ActivationNext]_vars => PaidUserNotSuspended'
    BY NobodyPaidIsSuspended DEF ActInv
  <1>3. PaidUserNotSuspended /\ NoFreeRide /\ ManualBlockStays => SuspensionIsJust
    BY DEF SuspensionIsJust
  <1> QED
    BY <1>1, <1>2, <1>3, ActInvAlways, BlocksAlwaysTold, PTL DEF ActivationSpec
=============================================================================
