----------------------------- MODULE StripeSync -----------------------------
(***************************************************************************)
(* The Stripe gateway and one team: checkouts that make the team a         *)
(* customer and open a session, the subscriptions the sessions end in, and *)
(* the webhooks by which Stripe tells of them.  A webhook says only whose  *)
(* subscription changed: its handler finds the customer's team, lists the  *)
(* newest subscription at Stripe, and writes it to the Subscription row    *)
(* and to the team, in three round trips that other handlers cross.        *)
(*                                                                         *)
(* Stripe is external: it delivers an event until it is answered 200, in   *)
(* any order and perhaps again.  owed, latest, stale, crossed and replaced *)
(* are history.                                                            *)
(***************************************************************************)
EXTENDS Integers, FiniteSets

CONSTANTS
  MaxCustomers,\* bound: customers, numbered as Stripe makes them
  Checkouts,   \* requests for a checkout, each made once
  Handlers,    \* webhook requests handled at a time
  Plans,       \* the plans with a price at Stripe
  Wanted,      \* Wanted[r]: the plan request r is for
  MaxSubs,     \* bound: subscriptions, numbered as they are made
  MaxChanges,  \* bound: changes of subscriptions
  MaxFaults,   \* bound: handlers and checkouts cut off, and repeated deliveries
  None

ASSUME NoneAssumption == None \notin Plans
ASSUME WantedAssumption == Wanted \in [Checkouts -> Plans]
ASSUME BoundsAssumption ==
  /\ MaxCustomers \in Nat /\ MaxSubs \in Nat
  /\ MaxChanges \in Nat /\ MaxFaults \in Nat

VARIABLES
  team,     \* the row: [customer, plan, legacy, active]
  rows,     \* rows[s]: status in the Subscription row of s
  subs,     \* the subscriptions at Stripe: [customer, plan, status]
  version,  \* how often subscriptions were made or changed
  made,     \* customers made at Stripe
  due,      \* due[c]: events about c that Stripe has still to deliver
  checkout, \* checkout[r]: [pc, customer]
  handler,  \* handler[h]: [pc, customer, was, seen]
  owed,     \* the times the team became paid, less the confirmations sent or lost;
            \* 0 once handlers crossed
  faults,
  latest,   \* latest[s]: the newest listing written to the row of s, 0: to the team
  stale,    \* those last written from an older listing, or another customer's
  crossed,  \* a handler began while another had not ended
  replaced  \* customers of the team that another took the place of

teamVars == << team, rows >>
stripeVars == << subs, version, made >>
historyVars == << owed, latest, stale, crossed, replaced >>
stripeSyncVars == << teamVars, stripeVars, due, checkout, handler, faults, historyVars >>

Customers == 1 .. MaxCustomers
Subscriptions == 1 .. MaxSubs
Shown == Subscriptions \cup {0}
SubscriptionStatus == { "active", "past_due", "unpaid", "canceled" }
NoSub == [customer |-> 0, plan |-> None, status |-> "none"]
Listing == [sub : Subscriptions, plan : Plans, status : SubscriptionStatus, version : Nat]
Unread == [sub |-> 0, plan |-> None, status |-> "none", version |-> 0]
Over == [pc |-> "over", customer |-> 0]
IdleHandler == [pc |-> "idle", customer |-> 0, was |-> FALSE, seen |-> Unread]

SyncTypeOK ==
  /\ team \in [customer : Customers \cup {0}, plan : Plans \cup {None},
               legacy : {"FREE", "BASIC"}, active : BOOLEAN]
  /\ rows \in [Subscriptions -> SubscriptionStatus \cup {"none"}]
  /\ subs \in [Subscriptions -> [customer : Customers \cup {0}, plan : Plans \cup {None},
                                 status : SubscriptionStatus \cup {"none"}]]
  /\ version \in Nat /\ made \in 0 .. MaxCustomers
  /\ due \in [Customers -> Nat]
  /\ checkout \in [Checkouts ->
       [pc : {"new", "asked", "creating", "saving", "opening", "open", "over"},
        customer : Customers \cup {0}]]
  /\ handler \in [Handlers ->
       [pc : {"idle", "listing", "upserting", "updating", "confirming"},
        customer : Customers \cup {0}, was : BOOLEAN, seen : Listing \cup {Unread}]]
  /\ faults \in Nat /\ owed \in Int
  /\ latest \in [Shown -> Nat] /\ stale \subseteq Shown
  /\ crossed \in BOOLEAN /\ replaced \subseteq Customers

\* A team is made active, on the free plan and without a customer.
SyncInit ==
  /\ team = [customer |-> 0, plan |-> None, legacy |-> "FREE", active |-> TRUE]
  /\ rows = [s \in Subscriptions |-> "none"]
  /\ subs = [s \in Subscriptions |-> NoSub]
  /\ version = 0 /\ made = 0
  /\ due = [c \in Customers |-> 0]
  /\ checkout = [r \in Checkouts |-> [pc |-> "new", customer |-> 0]]
  /\ handler = [h \in Handlers |-> IdleHandler]
  /\ faults = 0 /\ owed = 0
  /\ latest = [x \in Shown |-> 0] /\ stale = {}
  /\ crossed = FALSE /\ replaced = {}

Fault == faults < MaxFaults /\ faults' = faults + 1

-----------------------------------------------------------------------------
\* createCheckoutSessionForTeam and createCheckoutSession, request r.

\* The plan the team has already is refused ...
AskCheckout(r) ==
  /\ checkout[r].pc = "new"
  /\ ~(team.plan = Wanted[r] /\ team.active)
  /\ checkout' = [checkout EXCEPT ![r].pc = "asked"]
  /\ UNCHANGED << teamVars, stripeVars, due, handler, faults, historyVars >>

\* ... and the gateway reads the team's customer.
ReadCustomer(r) ==
  /\ checkout[r].pc = "asked"
  /\ checkout' = [checkout EXCEPT ![r] =
       [@ EXCEPT !.pc = IF team.customer = 0 THEN "creating" ELSE "opening",
                 !.customer = team.customer]]
  /\ UNCHANGED << teamVars, stripeVars, due, handler, faults, historyVars >>

CreateCustomer(r) ==
  /\ checkout[r].pc = "creating"
  /\ made < MaxCustomers
  /\ made' = made + 1
  /\ checkout' = [checkout EXCEPT ![r] = [@ EXCEPT !.pc = "saving", !.customer = made + 1]]
  /\ UNCHANGED << teamVars, subs, version, due, handler, faults, historyVars >>

\* Mutant of SaveCustomer: the session is opened and the customer saved after,
\* by a request that may not get there.
SaveCustomerLater(r) ==
  /\ checkout[r].pc = "saving"
  /\ checkout' = [checkout EXCEPT ![r].pc = "opening"]
  /\ UNCHANGED << teamVars, stripeVars, due, handler, faults, historyVars >>

\* The team's customer is written whatever it is by now.
SaveCustomer(r) ==
  /\ checkout[r].pc = "saving"
  /\ team' = [team EXCEPT !.customer = checkout[r].customer]
  /\ replaced' = replaced \cup ({team.customer} \ {0})
  /\ checkout' = [checkout EXCEPT ![r].pc = "opening"]
  /\ UNCHANGED << rows, stripeVars, due, handler, faults, owed, latest, stale,
                  crossed >>

OpenSession(r) ==
  /\ checkout[r].pc = "opening"
  /\ checkout' = [checkout EXCEPT ![r].pc = "open"]
  /\ UNCHANGED << teamVars, stripeVars, due, handler, faults, historyVars >>

\* The process dies, or Stripe or the database does not answer.
CheckoutFails(r) ==
  /\ checkout[r].pc \in {"asked", "creating", "saving", "opening"}
  /\ checkout' = [checkout EXCEPT ![r] = Over]
  /\ Fault
  /\ UNCHANGED << teamVars, stripeVars, due, handler, historyVars >>

-----------------------------------------------------------------------------
\* Stripe.

NextSub == Cardinality({ s \in Subscriptions : subs[s] # NoSub }) + 1

\* The customer pays: checkout.session.completed and
\* customer.subscription.created.
Pay(r) ==
  /\ checkout[r].pc = "open" /\ NextSub \in Subscriptions
  /\ checkout' = [checkout EXCEPT ![r] = Over]
  /\ subs' = [subs EXCEPT ![NextSub] = [customer |-> checkout[r].customer,
                                        plan |-> Wanted[r], status |-> "active"]]
  /\ version' = version + 1
  /\ due' = [due EXCEPT ![checkout[r].customer] = @ + 2]
  /\ UNCHANGED << teamVars, made, handler, faults, historyVars >>

\* customer.subscription.updated and deleted: a payment fails or succeeds, the
\* customer changes the plan or cancels.
Changes(from) ==
  CASE from = "active"   -> {"past_due", "canceled"}
    [] from = "past_due" -> {"active", "unpaid", "canceled"}
    [] from = "unpaid"   -> {"active", "canceled"}
    [] OTHER             -> {}

ChangeSubscription(s) ==
  /\ subs[s] # NoSub
  /\ version < MaxChanges
  /\ \/ \E to \in Changes(subs[s].status) : subs' = [subs EXCEPT ![s].status = to]
     \/ /\ subs[s].status = "active"
        /\ \E p \in Plans \ {subs[s].plan} : subs' = [subs EXCEPT ![s].plan = p]
  /\ version' = version + 1
  /\ due' = [due EXCEPT ![subs[s].customer] = @ + 1]
  /\ UNCHANGED << teamVars, made, checkout, handler, faults, historyVars >>

-----------------------------------------------------------------------------
\* handleWebhook and syncStripeDataForCustomer, request h.

GoTo(h, pc) == handler' = [handler EXCEPT ![h].pc = pc]
Return(h) == handler' = [handler EXCEPT ![h] = IdleHandler]

\* History: n more confirmations are owed.
Owe(n) == crossed' = crossed /\ owed' = IF crossed THEN 0 ELSE owed + n

TeamIsPaid == team.active /\ team.legacy # "FREE"

\* Stripe posts an event, which the handler takes to the team of its customer;
\* without one it answers 200 and Stripe forgets the event.
Receive(h) ==
  /\ handler[h].pc = "idle"
  /\ \E c \in Customers :
       /\ due[c] > 0
       /\ due' = [due EXCEPT ![c] = @ - 1]
       /\ handler' = IF team.customer # c THEN handler ELSE
            [handler EXCEPT ![h] = [@ EXCEPT !.pc = "listing", !.customer = c,
                                             !.was = TeamIsPaid]]
       /\ crossed' = (crossed \/ (team.customer = c
                                  /\ \E g \in Handlers : handler[g].pc # "idle"))
  /\ owed' = IF crossed' THEN 0 ELSE owed
  /\ UNCHANGED << teamVars, stripeVars, checkout, faults, latest, stale, replaced >>

\* The newest subscription of a customer, what subscriptions.list begins with.
SubsOf(c) == { s \in Subscriptions : subs[s].customer = c }
Newest(c) == CHOOSE s \in SubsOf(c) : \A o \in SubsOf(c) : o <= s

\* Mutant of ListSubscriptions: the oldest one.
ListSubscriptionsOldest(h) ==
  /\ handler[h].pc = "listing"
  /\ LET of == SubsOf(handler[h].customer)
         s == CHOOSE o \in of : \A n \in of : o <= n IN
       handler' = [handler EXCEPT ![h] = [@ EXCEPT !.pc = "upserting",
         !.seen = [sub |-> s, plan |-> subs[s].plan, status |-> subs[s].status,
                   version |-> version]]]
  /\ UNCHANGED << teamVars, stripeVars, due, checkout, faults, historyVars >>

ListSubscriptions(h) ==
  /\ handler[h].pc = "listing"
  /\ LET s == Newest(handler[h].customer) IN
       handler' = [handler EXCEPT ![h] = [@ EXCEPT !.pc = "upserting",
         !.seen = [sub |-> s, plan |-> subs[s].plan, status |-> subs[s].status,
                   version |-> version]]]
  /\ UNCHANGED << teamVars, stripeVars, due, checkout, faults, historyVars >>

\* History: h writes x, from what it saw.
Wrote(x, h) ==
  LET v == handler[h].seen.version IN
  /\ latest' = [latest EXCEPT ![x] = IF v > @ THEN v ELSE @]
  /\ stale' = IF v < latest[x] \/ handler[h].customer # team.customer
                THEN stale \cup {x} ELSE stale \ {x}

UpsertSubscription(h) ==
  /\ handler[h].pc = "upserting"
  /\ rows' = [rows EXCEPT ![handler[h].seen.sub] = handler[h].seen.status]
  /\ Wrote(handler[h].seen.sub, h)
  /\ GoTo(h, "updating")
  /\ UNCHANGED << team, stripeVars, due, checkout, faults, owed, crossed, replaced >>

IsEntitled(status) == status \in {"active", "trialing", "past_due"}

\* What the team's row becomes; Plans are found by their price and none is the
\* free plan.
Synced(seen) ==
  [ customer |-> team.customer, plan |-> seen.plan,
    legacy |-> IF seen.status = "canceled" THEN "FREE" ELSE "BASIC",
    active |-> IsEntitled(seen.status) ]

\* Mutant of UpdateTeam: every paid team is told so.
UpdateTeamTelling(h) ==
  LET seen == handler[h].seen IN
  /\ handler[h].pc = "updating"
  /\ team' = Synced(seen)
  /\ Wrote(0, h)
  /\ Owe(IF ~TeamIsPaid /\ seen.status = "active" THEN 1 ELSE 0)
  /\ IF seen.status = "active" THEN GoTo(h, "confirming") ELSE Return(h)
  /\ UNCHANGED << rows, stripeVars, due, checkout, faults, replaced >>

\* The team that was not paid when the handler began, and is, is told so.
UpdateTeam(h) ==
  LET seen == handler[h].seen IN
  /\ handler[h].pc = "updating"
  /\ team' = Synced(seen)
  /\ Wrote(0, h)
  /\ Owe(IF ~TeamIsPaid /\ seen.status = "active" THEN 1 ELSE 0)
  /\ IF ~handler[h].was /\ seen.status = "active" THEN GoTo(h, "confirming") ELSE Return(h)
  /\ UNCHANGED << rows, stripeVars, due, checkout, faults, replaced >>

\* A mail that fails is logged.
SendConfirmation(h) ==
  /\ handler[h].pc = "confirming"
  /\ Owe(-1)
  /\ Return(h)
  /\ UNCHANGED << teamVars, stripeVars, due, checkout, faults, latest, stale, replaced >>

\* Mutant of HandlerFails: the error is caught and answered 200.
HandlerFailsQuietly(h) ==
  /\ handler[h].pc # "idle"
  /\ Owe(IF handler[h].pc = "confirming" THEN -1 ELSE 0)
  /\ Return(h)
  /\ Fault
  /\ UNCHANGED << teamVars, stripeVars, due, checkout, latest, stale, replaced >>

\* The handler throws or dies: Stripe gets no 200 and delivers again.
HandlerFails(h) ==
  /\ handler[h].pc # "idle"
  /\ due' = [due EXCEPT ![handler[h].customer] = @ + 1]
  /\ Owe(IF handler[h].pc = "confirming" THEN -1 ELSE 0)
  /\ Return(h)
  /\ Fault
  /\ UNCHANGED << teamVars, stripeVars, checkout, latest, stale, replaced >>

\* Stripe delivers an event once more.
Redeliver(c) ==
  /\ \E s \in Subscriptions : subs[s].customer = c
  /\ due' = [due EXCEPT ![c] = @ + 1]
  /\ Fault
  /\ UNCHANGED << teamVars, stripeVars, checkout, handler, historyVars >>

-----------------------------------------------------------------------------
HandlerStep(h) ==
  \/ Receive(h) \/ ListSubscriptions(h) \/ UpsertSubscription(h) \/ UpdateTeam(h)
  \/ SendConfirmation(h)

CheckoutStep(r) ==
  \/ AskCheckout(r) \/ ReadCustomer(r) \/ CreateCustomer(r) \/ SaveCustomer(r)
  \/ OpenSession(r) \/ Pay(r) \/ CheckoutFails(r)

SyncNext ==
  \/ \E r \in Checkouts : CheckoutStep(r)
  \/ \E s \in Subscriptions : ChangeSubscription(s)
  \/ \E h \in Handlers : HandlerStep(h) \/ HandlerFails(h)
  \/ \E c \in Customers : Redeliver(c)

SyncSpec == SyncInit /\ [][SyncNext]_stripeSyncVars

\* Stripe goes on delivering and handlers go on; nobody has to check out, pay or
\* change anything.
SyncFairSpec == SyncSpec /\ WF_stripeSyncVars(\E h \in Handlers : HandlerStep(h))

-----------------------------------------------------------------------------
(* Properties. *)

\* Who has paid is found: a subscription belongs to the customer the team's
\* row names, whatever was cut off, unless two checkouts each made the team a
\* customer and the later took the place of the earlier.
PaymentFindsTeam ==
  \A s \in Subscriptions :
    subs[s] # NoSub => subs[s].customer \in {team.customer} \cup replaced

\* A team is told of its subscription once for each time it becomes paid:
\* what is owed is what a handler is about to send, unless two overlapped.
ToldWhenPaid ==
  crossed \/ owed = Cardinality({ h \in Handlers : handler[h].pc = "confirming" })

PaymentIsKnown == PaymentFindsTeam /\ ToldWhenPaid

\* The row of the newest subscription and the team show what Stripe has,
\* unless a handler wrote last that had listed it before another that wrote,
\* or whose customer another has taken the place of.
InStep ==
  \/ team.customer = 0 \/ SubsOf(team.customer) = {}
  \/ LET s == Newest(team.customer) IN
       /\ s \in stale \/ rows[s] = subs[s].status
       /\ 0 \in stale \/ team = Synced(subs[s])

\* In the end, whatever was repeated, reordered or cut off, the team shows the
\* last state of its newest subscription.
TeamFollowsStripe == <>[]InStep
=============================================================================
