--------------------------- MODULE PlanActivation ---------------------------
(***************************************************************************)
(* The manual billing cycle: plan-activation-service.ts with the invoices  *)
(* of invoice-service.ts and the daily job of plan-expiry-job.ts.          *)
(*                                                                         *)
(* A caller (an operator, a client, the admin API) runs one operation at a *)
(* time, one action per database round trip; several callers and the daily *)
(* tick interleave.  Time is counted in days, and an operation does not    *)
(* last until the next day.  A crash or a database error stops an          *)
(* operation, or the tick, between two round trips.                        *)
(* Left out: the catalogue (every plan in Plans is on sale), the PDFs and  *)
(* mails, caches, and the team's own block flag.                           *)
(***************************************************************************)
EXTENDS Naturals, FiniteSets

CONSTANTS
    Users, Teams, Plans,
    NoUser,       \* targetUserId = null: a team-level (legacy) activation
    NoPlan,       \* pricingPlanId = null
    FreePlan,     \* the plan with key "free"
    Priced,       \* the plans with a price
    Members,      \* the pairs <<team, user>> in teamUser
    Callers,
    Ops,          \* the operations each caller uses
    Lengths,      \* the periods operators choose, in days; 0 is "no expiry"
    ReminderDays, FinalDays, DefaultDays,
    MaxRequests, MaxInvoices, MaxDay,               \* bounds
    MaxIssued,       \* bound: on invoices there are once one is issued on demand
    MaxDisturbances  \* bound: on crashes, and overlap counts as one

OpNames == {"create", "cancel", "reject", "approve", "assign", "pay",
            "issue", "void", "block"}

ASSUME ActivationAssumption ==
    /\ Teams # {} /\ NoUser \notin Users /\ NoPlan \notin Plans
    /\ FreePlan \in Plans /\ Priced \subseteq Plans \ {FreePlan}
    /\ Members \subseteq Teams \X Users
    /\ Lengths \subseteq Nat /\ Ops \in [Callers -> SUBSET OpNames]
    /\ {ReminderDays, FinalDays, DefaultDays} \subseteq Nat \ {0}
    /\ {MaxRequests, MaxInvoices, MaxIssued, MaxDay, MaxDisturbances} \subseteq Nat
    /\ MaxIssued <= MaxInvoices

VARIABLES
    today, ticked,  \* the day, and whether its tick has started for good
    req,            \* PlanActivationRequest rows
    inv,            \* PlanInvoice rows, in the order they were issued
    user,           \* plan, isBlocked and blockedBySystem of each user
    teamPlan,       \* pricingPlanId of each team
    call,           \* what each caller is doing
    job,            \* what the tick is doing
    crashes,        \* how many operations and ticks died
    overlapped,     \* history: operations, or one and the tick, were under way at once
    manual          \* history: users blocked, or unblocked, by an operator

clock == <<today, ticked>>
accounts == <<user, teamPlan, manual>>
faults == <<crashes, overlapped>>
rest == <<clock, req, inv, accounts, job, faults>>
vars == <<today, ticked, req, inv, user, teamPlan, call, job, faults, manual>>

Requests == 1..MaxRequests
Invoices == 1..MaxInvoices
Targets  == Users \cup {NoUser}
NoExpiry == 0

\* expiresAt, with 0 for null; start, mails and final are history: the
\* beginning of the period and how often each reminder was mailed in it
NoRow == [status |-> "none", team |-> CHOOSE t \in Teams : TRUE,
          target |-> NoUser, plan |-> FreePlan, expires |-> NoExpiry,
          reviewed |-> 0, reminded |-> FALSE, finalReminded |-> FALSE,
          start |-> 0, mails |-> 0, finals |-> 0]
NoInvoice == [status |-> "none", user |-> NoUser, team |-> NoRow.team,
              plan |-> FreePlan, for |-> 0, start |-> 0, end |-> 0]
Idle == [op |-> "none", step |-> "idle", r |-> 0, i |-> 0, found |-> 0,
         team |-> NoRow.team, target |-> NoUser, plan |-> FreePlan,
         days |-> 0, start |-> 0, lift |-> FALSE]
Resting == [step |-> "idle", rows |-> {}, r |-> 0]

ActivationInit ==
    /\ today = 0 /\ ticked = FALSE /\ crashes = 0 /\ overlapped = FALSE
    /\ req = [r \in Requests |-> NoRow]
    /\ inv = [i \in Invoices |-> NoInvoice]
    /\ user = [u \in Users |->
                 [plan |-> NoPlan, blocked |-> FALSE, bySystem |-> FALSE]]
    /\ teamPlan = [t \in Teams |-> NoPlan]
    /\ call = [c \in Callers |-> Idle]
    /\ job = Resting
    /\ manual = [u \in Users |-> "untouched"]

-----------------------------------------------------------------------------
(* Queries and small helpers                                               *)

Used(rows) == {k \in DOMAIN rows : rows[k].status # "none"}
Fresh(rows) == Cardinality(Used(rows)) + 1
Latest(S) == CHOOSE k \in S : \A j \in S : j <= k

\* addDays and computeExpiresAt: no days means no expiry.
ComputeExpiresAt(from, days) == IF days = 0 THEN NoExpiry ELSE from + days

\* Mutant of NextPeriodStart: every period starts today.
NextPeriodStartNow(t, u, p) == today

\* A renewal of the same plan starts when the current period ends.
NextPeriodStart(t, u, p) ==
    LET current == {req[r].expires : r \in
            {k \in Requests : /\ req[k].status = "APPROVED"
                              /\ req[k].team = t /\ req[k].target = u
                              /\ req[k].plan = p /\ req[k].expires > today}}
    IN  IF current = {} THEN today ELSE Latest(current)

\* Mutant of Superseded: manualAssign, which has no request, closes none.
SupersededOther(t, u, keep) ==
    {r \in Requests \ {keep} : req[r].status = "APPROVED" /\ keep \in Requests
                               /\ req[keep].status = "PENDING"
                               /\ req[r].team = t /\ req[r].target = u}

\* supersedeActiveRequests: the other approved rows of the same team and target.
Superseded(t, u, keep) ==
    {r \in Requests \ {keep} : req[r].status = "APPROVED"
                               /\ req[r].team = t /\ req[r].target = u}

OpenInvoices(u) == {i \in Invoices : inv[i].status = "ISSUED" /\ inv[i].user = u}

Goto(c, step) == call' = [call EXCEPT ![c].step = step]
Return(c) == call' = [call EXCEPT ![c] = Idle]
AtStep(c, step) == call[c].step = step

\* Bound: a caller starts what may create a row only if there is room for it,
\* whatever the other callers do.
Room(rows, bound) ==
    Cardinality(Used(rows)) + Cardinality({c \in Callers : call[c] # Idle}) < bound

Disturbances == crashes + (IF overlapped THEN 1 ELSE 0)

\* An operation or tick starts, over another if the bound allows it.
Join(busy) ==
    /\ busy => overlapped \/ Disturbances < MaxDisturbances
    /\ overlapped' = (overlapped \/ busy)

\* Caller c starts an operation.
Begin(c, to) ==
    /\ to.op \in Ops[c]
    /\ call[c] = Idle
    /\ Join(job # Resting \/ \E d \in Callers \ {c} : call[d] # Idle)
    /\ to.op \in {"create", "assign", "pay"} => Room(req, MaxRequests)
    /\ to.op \in {"approve", "assign", "pay"} => Room(inv, MaxInvoices)
    /\ to.op = "issue" => Room(inv, MaxIssued)
    /\ call' = [call EXCEPT ![c] = to]
    /\ UNCHANGED <<clock, req, inv, accounts, job, crashes>>

-----------------------------------------------------------------------------
(* Requests of clients and their review                                    *)

\* createRequest looks for a pending request like it ...
CreateRequest(c, t, u, p) ==
    /\ ~\E r \in Requests : /\ req[r].status = "PENDING"
                            /\ req[r].team = t /\ req[r].target = u
                            /\ req[r].plan = p
    /\ Begin(c, [Idle EXCEPT !.op = "create", !.step = "insert",
                            !.team = t, !.target = u, !.plan = p])

\* ... and inserts it.
InsertRequest(c) ==
    /\ AtStep(c, "insert")
    /\ req' = [req EXCEPT ![Fresh(req)] =
                 [NoRow EXCEPT !.status = "PENDING", !.team = call[c].team,
                               !.target = call[c].target, !.plan = call[c].plan]]
    /\ Return(c)
    /\ UNCHANGED <<clock, inv, accounts, job, faults>>

\* Mutant of Decline: a reviewed request may be cancelled.
DeclineAny(c, r, op) ==
    /\ req[r].status # "none"
    /\ Begin(c, [Idle EXCEPT !.op = op, !.step = "decline", !.r = r])

\* cancelOwn and reject read the request ...
Decline(c, r, op) ==
    /\ req[r].status = "PENDING"
    /\ Begin(c, [Idle EXCEPT !.op = op, !.step = "decline", !.r = r])

\* Mutant of WriteDecline: the name of the operation is written.
WriteDeclineOp(c) ==
    /\ AtStep(c, "decline")
    /\ req' = [req EXCEPT ![call[c].r].status = call[c].op]
    /\ Return(c)
    /\ UNCHANGED <<clock, inv, accounts, job, faults>>

\* ... and write it, whatever it has become.
WriteDecline(c) ==
    /\ AtStep(c, "decline")
    /\ req' = [req EXCEPT ![call[c].r].status =
                 IF call[c].op = "cancel" THEN "CANCELLED" ELSE "REJECTED",
                           ![call[c].r].reviewed = today]
    /\ Return(c)
    /\ UNCHANGED <<clock, inv, accounts, job, faults>>

-----------------------------------------------------------------------------
(* Activations: approve, manualAssign, registerInvoicePayment              *)

Approve(c, r, days) ==
    /\ req[r].status = "PENDING"
    /\ Begin(c, [Idle EXCEPT !.op = "approve", !.step = "start", !.r = r,
                            !.team = req[r].team, !.target = req[r].target,
                            !.plan = req[r].plan, !.days = days])

ManualAssign(c, t, u, p, days) ==
    /\ u = NoUser \/ <<t, u>> \in Members
    /\ Begin(c, [Idle EXCEPT !.op = "assign", !.step = "start",
                            !.team = t, !.target = u, !.plan = p, !.days = days])

\* registerInvoicePayment is manualAssign for the period the invoice bills.
RegisterInvoicePayment(c, i) ==
    /\ inv[i].status = "ISSUED" /\ inv[i].user # NoUser
    /\ <<inv[i].team, inv[i].user>> \in Members
    /\ Begin(c, [Idle EXCEPT !.op = "pay", !.step = "start", !.i = i,
                            !.team = inv[i].team, !.target = inv[i].user,
                            !.plan = inv[i].plan,
                            !.days = inv[i].end - inv[i].start])

\* issueInvoice, for a plan with a price.
IssueInvoice(c, t, u, p, days) ==
    /\ p \in Priced /\ <<t, u>> \in Members
    /\ Begin(c, [Idle EXCEPT !.op = "issue", !.step = "start",
                            !.team = t, !.target = u, !.plan = p,
                            !.days = IF days = 0 THEN DefaultDays ELSE days])

\* nextPeriodStart, read before the transaction.
ReadPeriodStart(c) ==
    /\ AtStep(c, "start")
    /\ call' = [call EXCEPT
          ![c].start = NextPeriodStart(call[c].team, call[c].target, call[c].plan),
          ![c].step  = IF call[c].op = "issue" THEN "bill"
                       ELSE IF call[c].target = NoUser THEN "activate" ELSE "peek"]
    /\ UNCHANGED rest

\* Mutant of ReadSuspension: a payment lifts no suspension.
ReadSuspensionNever(c) ==
    /\ AtStep(c, "peek")
    /\ Goto(c, "activate")
    /\ UNCHANGED rest

\* Mutant of ReadSuspension: a payment lifts any block.
ReadSuspensionAny(c) ==
    /\ AtStep(c, "peek")
    /\ call' = [call EXCEPT ![c].lift = user[call[c].target].blocked,
                            ![c].step = "activate"]
    /\ UNCHANGED rest

\* systemUnblockData: the transaction reads whether to lift a suspension ...
ReadSuspension(c) ==
    /\ AtStep(c, "peek")
    /\ call' = [call EXCEPT
          ![c].lift = user[call[c].target].blocked /\ user[call[c].target].bySystem,
          ![c].step = "activate"]
    /\ UNCHANGED rest

\* ... and its writes, which the lock on the user (or team) row it takes
\* first makes atomic.
Activate(c) ==
    LET k == call[c]
        r == IF k.op = "approve" THEN k.r ELSE Fresh(req)
        expires == ComputeExpiresAt(k.start, k.days)
    IN  /\ AtStep(c, "activate")
        /\ IF k.target # NoUser
           THEN /\ user' = [user EXCEPT ![k.target] =
                     [plan     |-> k.plan,
                      blocked  |-> @.blocked /\ ~k.lift,
                      bySystem |-> @.bySystem /\ ~k.lift]]
                /\ UNCHANGED teamPlan
           ELSE /\ teamPlan' = [teamPlan EXCEPT ![k.team] = k.plan]
                /\ UNCHANGED user
        /\ req' = [q \in Requests |->
              IF q = r
              THEN [NoRow EXCEPT !.status = "APPROVED", !.team = k.team,
                                 !.target = k.target, !.plan = k.plan,
                                 !.reviewed = today, !.expires = expires,
                                 !.start = k.start]
              ELSE IF q \in Superseded(k.team, k.target, r)
              THEN [req[q] EXCEPT !.status = "EXPIRED"]
              ELSE req[q]]
        /\ call' = [call EXCEPT ![c].r = r,
                      ![c].step = IF k.target = NoUser THEN "return" ELSE "void"]
        /\ UNCHANGED <<clock, inv, job, faults, manual>>

\* A team-level activation writes no invoice.
ReturnUnbilled(c) ==
    /\ AtStep(c, "return")
    /\ Return(c)
    /\ UNCHANGED rest

-----------------------------------------------------------------------------
(* Invoices                                                                *)

\* settleInvoice, once the activation is committed: it voids what is open for
\* other plans,
VoidOthers(c) ==
    /\ AtStep(c, "void")
    /\ inv' = [i \in Invoices |->
                 IF i \in OpenInvoices(call[c].target) /\ inv[i].plan # call[c].plan
                 THEN [inv[i] EXCEPT !.status = "VOID"] ELSE inv[i]]
    /\ Goto(c, IF call[c].plan \in Priced THEN "find" ELSE "return")
    /\ UNCHANGED <<clock, req, accounts, job, faults>>

\* Mutant of FindOpen: the invoices of an earlier activation are not looked at.
FindOpenLinked(c) ==
    /\ AtStep(c, "find")
    /\ LET open == {i \in OpenInvoices(call[c].target) : inv[i].for = call[c].r}
       IN  call' = [call EXCEPT ![c].step = "record",
                      ![c].found = IF open = {} THEN 0 ELSE Latest(open)]
    /\ UNCHANGED rest

\* looks for the latest invoice that is open for this plan,
FindOpen(c) ==
    /\ AtStep(c, "find")
    /\ LET open == {i \in OpenInvoices(call[c].target) : inv[i].plan = call[c].plan}
       IN  call' = [call EXCEPT ![c].step = "record",
                      ![c].found = IF open = {} THEN 0 ELSE Latest(open)]
    /\ UNCHANGED rest

\* and marks it paid, whatever it has become, or else creates a paid one.
RecordPayment(c) ==
    LET k == call[c]
        i == IF k.found = 0 THEN Fresh(inv) ELSE k.found
        expires == ComputeExpiresAt(k.start, k.days)
    IN  /\ AtStep(c, "record")
        /\ inv' = [inv EXCEPT ![i] =
             [status |-> "PAID", user |-> k.target, team |-> k.team,
              plan |-> k.plan, for |-> k.r, start |-> k.start,
              end |-> IF expires = NoExpiry THEN k.start + DefaultDays ELSE expires]]
        /\ Return(c)
        /\ UNCHANGED <<clock, req, accounts, job, faults>>

\* issueInvoice creates an invoice no activation is linked to.
CreateIssued(c) ==
    /\ AtStep(c, "bill")
    /\ inv' = [inv EXCEPT ![Fresh(inv)] =
         [status |-> "ISSUED", user |-> call[c].target, team |-> call[c].team,
          plan |-> call[c].plan, for |-> 0, start |-> call[c].start,
          end |-> call[c].start + call[c].days]]
    /\ Return(c)
    /\ UNCHANGED <<clock, req, accounts, job, faults>>

\* Mutant of VoidInvoice: a paid invoice may be voided.
VoidInvoiceAny(c, i) ==
    /\ inv[i].status # "none"
    /\ Begin(c, [Idle EXCEPT !.op = "void", !.step = "voidOne", !.i = i])

\* InvoiceService.void reads that the invoice is open ...
VoidInvoice(c, i) ==
    /\ inv[i].status = "ISSUED"
    /\ Begin(c, [Idle EXCEPT !.op = "void", !.step = "voidOne", !.i = i])

\* ... and voids it.
WriteVoid(c) ==
    /\ AtStep(c, "voidOne")
    /\ inv' = [inv EXCEPT ![call[c].i].status = "VOID"]
    /\ Return(c)
    /\ UNCHANGED <<clock, req, accounts, job, faults>>

-----------------------------------------------------------------------------
(* Blocks by an operator                                                   *)

SetUserBlocked(c, u, blocked) ==
    /\ "block" \in Ops[c] /\ call[c] = Idle
    /\ Join(job # Resting \/ \E d \in Callers \ {c} : call[d] # Idle)
    /\ user' = [user EXCEPT ![u].blocked = blocked, ![u].bySystem = FALSE]
    /\ manual' = [manual EXCEPT ![u] = IF blocked THEN "blocked" ELSE "unblocked"]
    /\ UNCHANGED <<clock, req, inv, teamPlan, call, job, crashes>>

-----------------------------------------------------------------------------
(* The daily tick                                                          *)

Snapshot(ids) ==
    {[r |-> r, expires |-> req[r].expires, reviewed |-> req[r].reviewed] : r \in ids}

Approved == {r \in Requests : req[r].status = "APPROVED"}

\* Mutant of EndWithin: the last day of the window is left out.
EndBefore(days) ==
    {r \in Approved : /\ req[r].expires # NoExpiry
                      /\ today < req[r].expires /\ req[r].expires < today + days}

\* Approved rows that end within so many days, but have not ended.
EndWithin(days) ==
    {r \in Approved : /\ req[r].expires # NoExpiry
                      /\ today < req[r].expires /\ req[r].expires <= today + days}

\* Each phase of the tick reads its rows once and then works through them.
FirstWindow == Snapshot({r \in EndWithin(ReminderDays) : ~req[r].reminded})
FinalWindow == Snapshot({r \in EndWithin(FinalDays) : ~req[r].finalReminded})
\* Mutant of DueRows: rows that end today wait for tomorrow's tick.
DueRowsLate == Snapshot({r \in Approved : /\ req[r].expires # NoExpiry
                                          /\ req[r].expires < today})

DueRows     == Snapshot({r \in Approved : /\ req[r].expires # NoExpiry
                                          /\ req[r].expires <= today})

TickStarts ==
    /\ job = Resting /\ ~ticked
    /\ Join(\E c \in Callers : call[c] # Idle)
    /\ ticked' = TRUE
    /\ job' = [step |-> "first", rows |-> FirstWindow, r |-> 0]
    /\ UNCHANGED <<today, req, inv, accounts, call, crashes>>

\* pendingInvoiceFor, and the mail it goes with.  The invoice opened for this
\* activation is used again; its period is as long as the time from the
\* review of the activation to its end.
Remind(row) ==
    /\ job.step \in {"first", "final"} /\ job.r = 0
    /\ row \in job.rows
    /\ LET p == req[row.r].plan
           u == req[row.r].target
           days == IF row.expires > row.reviewed THEN row.expires - row.reviewed ELSE 1
       IN  IF \/ u = NoUser \/ p \notin Priced
              \/ \E i \in Invoices : inv[i].for = row.r /\ inv[i].status = "ISSUED"
              \/ ~Room(inv, MaxInvoices)   \* an error there is only logged
           THEN UNCHANGED inv
           ELSE inv' = [inv EXCEPT ![Fresh(inv)] =
                  [status |-> "ISSUED", user |-> u, team |-> req[row.r].team,
                   plan |-> p, for |-> row.r, start |-> row.expires,
                   end |-> row.expires + days]]
    /\ req' = IF job.step = "first" THEN [req EXCEPT ![row.r].mails = @ + 1]
                                    ELSE [req EXCEPT ![row.r].finals = @ + 1]
    /\ job' = [job EXCEPT !.rows = @ \ {row}, !.r = row.r]
    /\ UNCHANGED <<clock, accounts, call, faults>>

\* Mutant of MarkReminded: only the final reminder is recorded.
MarkRemindedFinal ==
    /\ job.step \in {"first", "final"} /\ job.r # 0
    /\ req' = [req EXCEPT ![job.r].finalReminded = TRUE]
    /\ job' = [job EXCEPT !.r = 0]
    /\ UNCHANGED <<clock, inv, accounts, call, faults>>

\* The reminder is recorded on the request.
MarkReminded ==
    /\ job.step \in {"first", "final"} /\ job.r # 0
    /\ req' = IF job.step = "first" THEN [req EXCEPT ![job.r].reminded = TRUE]
                                    ELSE [req EXCEPT ![job.r].finalReminded = TRUE]
    /\ job' = [job EXCEPT !.r = 0]
    /\ UNCHANGED <<clock, inv, accounts, call, faults>>

NextPhase ==
    /\ job.step \in {"first", "final"} /\ job.rows = {} /\ job.r = 0
    /\ job' = IF job.step = "first"
              THEN [step |-> "final", rows |-> FinalWindow, r |-> 0]
              ELSE [step |-> "expire", rows |-> DueRows, r |-> 0]
    /\ UNCHANGED <<clock, req, inv, accounts, call, faults>>

\* One transaction of expireDue: a client is suspended, a team that still has
\* the plan of this request falls back to the free one.
Expire(row) ==
    LET u == req[row.r].target
        t == req[row.r].team
    IN  /\ job.step = "expire" /\ row \in job.rows
        /\ IF u # NoUser
           THEN /\ user' = [user EXCEPT ![u].blocked = TRUE, ![u].bySystem = TRUE]
                /\ UNCHANGED teamPlan
           ELSE /\ teamPlan' = [teamPlan EXCEPT ![t] =
                                  IF @ = req[row.r].plan THEN FreePlan ELSE @]
                /\ UNCHANGED user
        /\ req' = [req EXCEPT ![row.r].status = "EXPIRED"]
        /\ job' = [job EXCEPT !.rows = @ \ {row}]
        /\ UNCHANGED <<clock, inv, call, faults, manual>>

TickEnds ==
    /\ job.step = "expire" /\ job.rows = {}
    /\ job' = Resting
    /\ UNCHANGED <<clock, req, inv, accounts, call, faults>>

-----------------------------------------------------------------------------
(* Faults and time                                                         *)

\* An operation stops where it is; an error in settleInvoice is only logged,
\* which stops it too.
CallDies(c) ==
    /\ call[c] # Idle /\ Disturbances < MaxDisturbances
    /\ Return(c)
    /\ crashes' = crashes + 1
    /\ UNCHANGED <<clock, req, inv, accounts, job, overlapped>>

\* The tick fails, and is not run again that day, or its worker dies and the
\* job is taken up again.  No fault on the last day.
TickDies ==
    /\ job # Resting /\ Disturbances < MaxDisturbances /\ today < MaxDay
    /\ job' = Resting
    /\ ticked' \in BOOLEAN
    /\ crashes' = crashes + 1
    /\ UNCHANGED <<today, req, inv, accounts, call, overlapped>>

NextDay ==
    /\ today < MaxDay /\ ticked
    /\ job = Resting /\ \A c \in Callers : call[c] = Idle
    /\ today' = today + 1
    /\ ticked' = FALSE
    /\ UNCHANGED <<req, inv, accounts, call, job, faults>>

-----------------------------------------------------------------------------

CallStarts(c) ==
    \/ \E tu \in Members, p \in Plans : CreateRequest(c, tu[1], tu[2], p)
    \/ \E r \in Requests, op \in {"cancel", "reject"} : Decline(c, r, op)
    \/ \E r \in Requests, d \in Lengths : Approve(c, r, d)
    \/ \E t \in Teams, u \in Targets, p \in Plans, d \in Lengths :
          ManualAssign(c, t, u, p, d)
    \/ \E i \in Invoices : RegisterInvoicePayment(c, i) \/ VoidInvoice(c, i)
    \/ \E tu \in Members, p \in Plans, d \in Lengths :
          IssueInvoice(c, tu[1], tu[2], p, d)
    \/ \E u \in Users, b \in BOOLEAN : SetUserBlocked(c, u, b)

CallGoesOn(c) ==
    \/ InsertRequest(c) \/ WriteDecline(c)
    \/ ReadPeriodStart(c) \/ ReadSuspension(c) \/ Activate(c) \/ ReturnUnbilled(c)
    \/ VoidOthers(c) \/ FindOpen(c) \/ RecordPayment(c)
    \/ CreateIssued(c) \/ WriteVoid(c)

TickGoesOn ==
    \/ \E row \in job.rows : Remind(row) \/ Expire(row)
    \/ MarkReminded \/ NextPhase \/ TickEnds

ActivationNext ==
    \/ \E c \in Callers : CallStarts(c) \/ CallGoesOn(c) \/ CallDies(c)
    \/ TickStarts \/ TickGoesOn \/ TickDies \/ NextDay

ActivationSpec == ActivationInit /\ [][ActivationNext]_vars
-----------------------------------------------------------------------------
(* Properties                                                              *)

Statuses == {"none", "PENDING", "APPROVED", "REJECTED", "CANCELLED", "EXPIRED"}
Row == [status : Statuses, team : Teams, target : Targets, plan : Plans,
        expires : Nat, reviewed : Nat, reminded : BOOLEAN,
        finalReminded : BOOLEAN, start : Nat, mails : Nat, finals : Nat]
Invoice == [status : {"none", "ISSUED", "PAID", "VOID"}, user : Targets,
            team : Teams, plan : Plans, for : 0..MaxRequests,
            start : Nat, end : Nat]
Steps == {"idle", "insert", "decline", "start", "peek", "activate", "return",
          "void", "find", "record", "bill", "voidOne"}
Call == [op : OpNames \cup {"none"}, step : Steps,
         r : 0..MaxRequests, i : 0..MaxInvoices, found : 0..MaxInvoices,
         team : Teams, target : Targets, plan : Plans,
         days : Nat, start : Nat, lift : BOOLEAN]

\* Every row is one the schema allows, and rows are numbered without gaps.
ActTypeOK ==
    /\ today \in 0..MaxDay /\ ticked \in BOOLEAN /\ crashes \in 0..MaxDisturbances /\ overlapped \in BOOLEAN
    /\ req \in [Requests -> Row] /\ Used(req) = 1..Cardinality(Used(req))
    /\ inv \in [Invoices -> Invoice] /\ Used(inv) = 1..Cardinality(Used(inv))
    /\ user \in [Users -> [plan : Plans \cup {NoPlan},
                           blocked : BOOLEAN, bySystem : BOOLEAN]]
    /\ teamPlan \in [Teams -> Plans \cup {NoPlan}]
    /\ call \in [Callers -> Call]
    /\ job.step \in {"idle", "first", "final", "expire"} /\ job.r \in 0..MaxRequests
    /\ manual \in [Users -> {"untouched", "blocked", "unblocked"}]

\* supersedeActiveRequests leaves one approved request per team and target,
\* whatever overlaps: plan-activation-service.ts:997 "A new approval for the
\* same target replaces any previous active period".
OnePeriodPerTarget ==
    \A r, s \in Requests :
        (/\ req[r].status = "APPROVED" /\ req[s].status = "APPROVED"
         /\ req[r].team = req[s].team /\ req[r].target = req[s].target) => r = s

\* No client is suspended by the job while a period of theirs still runs:
\* plan-activation-service.ts:998 "so the expiry job never downgrades the
\* target because of a stale row".  A payment during the tick breaks it.
PaidUserNotSuspended ==
    \A u \in Users : user[u].blocked /\ user[u].bySystem /\ ~overlapped =>
        \A r \in Approved : req[r].target = u =>
            req[r].expires # NoExpiry /\ req[r].expires <= today

\* Nobody who may send has a plan that no approved request will ever end,
\* unless an operator unblocked them, or a cancellation overtook an approval.
NoFreeRide ==
    \A u \in Users :
        (/\ user[u].plan # NoPlan /\ ~user[u].blocked
         /\ manual[u] # "unblocked" /\ ~overlapped) =>
            \E r \in Approved : req[r].target = u /\ req[r].plan = user[u].plan

\* A payment never lifts a block an operator set: README.md:92 "manual
\* suspensions from Admin -> Clientes are never lifted by a payment".  The end
\* of a period makes the block one of the job's.
ManualBlockStays ==
    \A u \in Users : manual[u] = "blocked" =>
        \/ user[u].blocked
        \/ \E r \in Requests : req[r].target = u /\ req[r].status = "EXPIRED"

\* Each reminder is mailed once in a period, and again only after a crash.
ReminderOnce ==
    \A r \in Requests : req[r].mails <= 1 + crashes /\ req[r].finals <= 1 + crashes

\* An approval that replaces a running period of the same plan ends later
\* than it: README.md:91 "A renewal of the same plan starts when the current
\* period ends, so paying early never shortens it".  Of two payments at a
\* time, which read the same end, one is lost.
RenewalExtends ==
    [][\A r, s \in Requests :
        (/\ req[r].status = "APPROVED" /\ req'[r].status = "EXPIRED"
         /\ req[r].expires > today
         /\ req[s].status # "APPROVED" /\ req'[s].status = "APPROVED"
         /\ req[r].team = req'[s].team /\ req[r].target = req'[s].target
         /\ req[r].plan = req'[s].plan /\ ~overlapped)
        => req'[s].expires = NoExpiry \/ req'[s].expires > req[r].expires]_vars

\* A request is reviewed once; only its period ends after that.  Two reviews
\* at a time both find it pending.
ReviewedOnce ==
    [][\A r \in Requests :
        (req[r].status \notin {"none", "PENDING"} /\ req'[r].status # req[r].status)
        => \/ overlapped
           \/ req[r].status = "APPROVED" /\ req'[r].status = "EXPIRED"]_vars

\* A paid invoice stays paid and a void one void, unless it is paid and
\* voided at the same time.
InvoiceIsFinal ==
    [][\A i \in Invoices : inv[i].status \in {"PAID", "VOID"} =>
                            overlapped \/ inv'[i].status = inv[i].status]_vars

\* The invoice whose payment an operator registers is the one that is paid,
\* if it is the client's only open one and nobody voids it meanwhile.
PaymentSettlesItsInvoice ==
    [][\A c \in Callers :
        (/\ call[c].op = "pay" /\ call[c].step = "record"
         /\ call'[c] = Idle /\ crashes' = crashes
         /\ OpenInvoices(call[c].target) \subseteq {call[c].i} /\ ~overlapped)
        => inv'[call[c].i].status = "PAID"]_vars

\* The job suspends nobody it sent no final reminder, unless a tick was lost.
NoticeBeforeExpiry ==
    [][\A r \in Requests :
        (/\ req[r].status = "APPROVED" /\ req'[r].status = "EXPIRED"
         /\ job.step = "expire" /\ job' # job)
        => req[r].finals >= 1 \/ crashes > 0]_vars

\* After the day's tick no period is left that ended that day or before, but
\* for a day's delay by each tick that died, and whatever overlapped the tick.
DueIsClosed ==
    ticked /\ job = Resting =>
        \A r \in Approved :
            req[r].expires # NoExpiry => req[r].expires + crashes > today

\* The job suspends whom it should and nobody else, and a payment unsuspends
\* only whom the job suspended.
SuspensionIsJust == PaidUserNotSuspended /\ NoFreeRide /\ ManualBlockStays

\* A period is one at a time, is announced once, and is closed when it ends.
PeriodsAreRegular == ActTypeOK /\ OnePeriodPerTarget /\ ReminderOnce /\ DueIsClosed

\* A period that was paid lasts, and does not end unannounced.
PeriodsAreHonoured == RenewalExtends /\ NoticeBeforeExpiry

\* What was approved, declined, paid or voided remains so, and a payment is
\* booked on the invoice it was made for.
DecisionsStand == ReviewedOnce /\ InvoiceIsFinal /\ PaymentSettlesItsInvoice

\* No step takes back what was paid or decided.
NothingTakenBack == PeriodsAreHonoured /\ DecisionsStand
=============================================================================
