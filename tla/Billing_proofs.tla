----------------------------- MODULE Billing_proofs -----------------------------
(***************************************************************************)
(* What the billing keeps for any number of checkouts, webhooks, callers   *)
(* and faults.  First the numbering of invoices, for any number of         *)
(* attempts and of invoices; then the Stripe gateway, where a payment is   *)
(* known as the team's; and both under the registry that decides between   *)
(* them.                                                                   *)
(***************************************************************************)
EXTENDS Billing, FiniteSetTheorems, WellFoundedInduction, TLAPS

-----------------------------------------------------------------------------
(* The numbers of invoices. *)

USE AttemptsAssumption, MaxInvoicesAssumption

Calling == {"count", "create", "failed"}

\* A call in its loop has attempts left; one that left it has none.
AttemptsLeft ==
  \A c \in Callers :
    /\ pc[c] \in {"count", "create"} => attempt[c] < Attempts
    /\ pc[c] = "failed" => attempt[c] = Attempts

\* Rows are never deleted, so a count is not above the rows there are.
CountIsPast == \A c \in Callers : pc[c] = "create" => seen[c] <= Cardinality(issued)

\* While nobody else creates a row the count stays right, and every number
\* that was tried is still taken and still lies as far ahead of the rows.
AloneSeesAll ==
  \A c \in Callers : alone[c] =>
    /\ pc[c] = "create" => seen[c] = Cardinality(issued)
    /\ pc[c] \in Calling =>
         \A k \in 0..attempt[c] - 1 : Cardinality(issued) + 1 + k \in issued

NumInv == NumTypeOK /\ HolesAreFew /\ AttemptsLeft /\ CountIsPast /\ AloneSeesAll

LEMMA CardIsNat ==
  ASSUME NumTypeOK
  PROVE  Cardinality(issued) \in Nat
  BY FS_CardinalityType DEF NumTypeOK

LEMMA NumberIsPositive ==
  ASSUME NumTypeOK, NEW c \in Callers
  PROVE  Number(c) \in Nat \ {0}
  BY DEF NumTypeOK, Number

LEMMA NumInit == Init => NumInv
<1>1. Cardinality({}) = 0 /\ IsFiniteSet({})
  BY FS_EmptySet
<1> QED
  BY <1>1 DEF Init, NumInv, NumTypeOK, HolesAreFew, AttemptsLeft, CountIsPast, AloneSeesAll, Calling, PCs

LEMMA BeginKeeps ==
  ASSUME NumInv, NEW c \in Callers, Begin(c)
  PROVE  NumInv'
  BY DEF NumInv, NumTypeOK, HolesAreFew, AttemptsLeft, CountIsPast, AloneSeesAll, Calling, PCs, Begin

LEMMA CountKeeps ==
  ASSUME NumInv, NEW c \in Callers, Count(c)
  PROVE  NumInv'
<1>1. Cardinality(issued) \in Nat
  BY CardIsNat DEF NumInv
<1> QED
  BY <1>1 DEF NumInv, NumTypeOK, HolesAreFew, AttemptsLeft, CountIsPast, AloneSeesAll, Calling, PCs, Count

LEMMA CreateKeeps ==
  ASSUME NumInv, NEW c \in Callers, Create(c)
  PROVE  NumInv'
<1> DEFINE had == Cardinality(issued)
<1>1. had \in Nat
  BY CardIsNat DEF NumInv
<1>2. IsFiniteSet(issued') /\ Cardinality(issued') = had + 1
  BY FS_AddElement DEF NumInv, NumTypeOK, Create
<1>3. NumTypeOK'
  BY <1>2, NumberIsPositive DEF NumInv, NumTypeOK, PCs, Create
<1>4. Number(c) < had + 1 + Attempts
  BY <1>1 DEF NumInv, NumTypeOK, AttemptsLeft, CountIsPast, Create, Number
<1>5. HolesAreFew'
  BY <1>1, <1>2, <1>4, NumberIsPositive DEF NumInv, NumTypeOK, HolesAreFew, Create
<1>6. AttemptsLeft'
  BY DEF NumInv, NumTypeOK, AttemptsLeft, Create
<1>7. CountIsPast'
  BY <1>1, <1>2 DEF NumInv, NumTypeOK, CountIsPast, Create
<1>8. AloneSeesAll'
  BY DEF NumInv, NumTypeOK, AloneSeesAll, Calling, Create
<1> QED
  BY <1>3, <1>5, <1>6, <1>7, <1>8 DEF NumInv

LEMMA CollideKeeps ==
  ASSUME NumInv, NEW c \in Callers, Collide(c)
  PROVE  NumInv'
<1>1. Cardinality(issued) \in Nat
  BY CardIsNat DEF NumInv
<1>2. attempt[c] \in Nat /\ attempt[c] < Attempts /\ attempt' = [attempt EXCEPT ![c] = attempt[c] + 1]
  BY DEF NumInv, NumTypeOK, AttemptsLeft, Collide
<1>3. NumTypeOK'
  BY <1>2 DEF NumInv, NumTypeOK, PCs, Collide
<1>4. HolesAreFew'
  BY DEF NumInv, HolesAreFew, Collide
<1>5. AttemptsLeft'
  BY <1>2 DEF NumInv, NumTypeOK, AttemptsLeft, Collide
<1>6. CountIsPast'
  BY DEF NumInv, NumTypeOK, CountIsPast, Collide
<1>7. ASSUME NEW d \in Callers, alone[d], pc'[d] \in Calling, NEW k \in 0..attempt'[d] - 1
      PROVE  Cardinality(issued) + 1 + k \in issued
  <2>1. CASE d # c
    BY <1>7, <2>1 DEF NumInv, NumTypeOK, AloneSeesAll, Calling, Collide
  <2>2. CASE d = c /\ k < attempt[c]
    BY <1>2, <1>7, <2>2 DEF NumInv, NumTypeOK, AloneSeesAll, Calling, Collide
  <2>3. CASE d = c /\ k = attempt[c]
    <3>1. seen[c] = Cardinality(issued)
      BY <1>7, <2>3 DEF NumInv, AloneSeesAll, Collide
    <3> QED
      BY <2>3, <3>1 DEF Collide, Number
  <2> QED
    BY <1>2, <1>7, <2>1, <2>2, <2>3 DEF NumInv, NumTypeOK
<1>8. ASSUME NEW d \in Callers, alone[d], pc'[d] = "create"
      PROVE  seen[d] = Cardinality(issued)
  BY <1>8 DEF NumInv, NumTypeOK, AloneSeesAll, Collide
<1>9. AloneSeesAll'
  BY <1>7, <1>8 DEF AloneSeesAll, Collide
<1> QED
  BY <1>3, <1>4, <1>5, <1>6, <1>9 DEF NumInv

LEMMA ReportKeeps ==
  ASSUME NumInv, NEW c \in Callers, Report(c)
  PROVE  NumInv'
  BY DEF NumInv, NumTypeOK, HolesAreFew, AttemptsLeft, CountIsPast, AloneSeesAll, Calling, PCs, Report

LEMMA NumStep == NumInv /\ [Next]_vars => NumInv'
<1> SUFFICES ASSUME NumInv, [Next]_vars PROVE NumInv'
  OBVIOUS
<1>1. CASE UNCHANGED vars
  BY <1>1 DEF NumInv, NumTypeOK, HolesAreFew, AttemptsLeft, CountIsPast, AloneSeesAll, vars
<1>2. CASE Next
  BY <1>2, BeginKeeps, CountKeeps, CreateKeeps, CollideKeeps, ReportKeeps DEF Next
<1> QED
  BY <1>1, <1>2

(***************************************************************************)
(* A call that nobody overtook never runs out of attempts: its last number *)
(* lies further ahead of the rows than any number there is.                *)
(***************************************************************************)
LEMMA AloneIsNotFailed ==
  ASSUME NumInv, NEW c \in Callers, pc[c] = "failed", alone[c]
  PROVE  FALSE
<1>1. Cardinality(issued) \in Nat
  BY CardIsNat DEF NumInv
<1>2. Cardinality(issued) + 1 + (Attempts - 1) \in issued
  <2>1. attempt[c] = Attempts /\ Attempts - 1 \in 0..attempt[c] - 1
    BY DEF NumInv, AttemptsLeft
  <2> QED
    BY <2>1 DEF NumInv, AloneSeesAll, Calling
<1>3. Cardinality(issued) + Attempts < Cardinality(issued) + Attempts
  BY <1>1, <1>2 DEF NumInv, HolesAreFew
<1> QED
  BY <1>1, <1>3

(***************************************************************************)
(* A year's numbers run ahead of its rows by less than the attempts of a   *)
(* call, for a number is a count plus at most Attempts and counts only     *)
(* grow; and a call fails only where another has created a row meanwhile.  *)
(***************************************************************************)
THEOREM NumbersAlwaysHold == Spec => []NumbersHold
<1>1. NumInv => NumbersHold
  BY AloneIsNotFailed DEF NumbersHold, FailedWasContended, NumInv, NumTypeOK
<1> QED
  BY NumInit, NumStep, <1>1, PTL DEF Spec

-----------------------------------------------------------------------------
(* The Stripe gateway. *)

Known == {team.customer} \cup replaced

\* A session is opened for a customer the team's row has or had.
SessionsKnown ==
  \A r \in Checkouts :
    /\ checkout[r].pc \in {"saving", "opening", "open"} => checkout[r].customer # 0
    /\ checkout[r].pc \in {"opening", "open"} => checkout[r].customer \in Known

\* Subscriptions are made whole, and in the order of their numbers.
SubsInOrder ==
  \A s \in Subscriptions : subs[s] # NoSub =>
    /\ subs[s].customer # 0 /\ subs[s].plan \in Plans
    /\ subs[s].status \in SubscriptionStatus
    /\ \A o \in Subscriptions : o < s => subs[o] # NoSub

\* What Stripe tells of, and what a handler works on, has a subscription.
EventsHaveSub == \A c \in Customers : due[c] > 0 => SubsOf(c) # {}

HandlersHaveSub ==
  \A h \in Handlers :
    /\ handler[h].pc # "idle" => handler[h].customer # 0 /\ SubsOf(handler[h].customer) # {}
    /\ handler[h].pc \in {"upserting", "updating"} => handler[h].seen \in Listing

\* Until handlers cross there is one at most, and the team is paid, or not, as
\* it was when it began.
OneAtATime ==
  ~crossed =>
    /\ \A g, h \in Handlers : handler[g].pc # "idle" /\ handler[h].pc # "idle" => g = h
    /\ \A h \in Handlers :
         handler[h].pc \in {"listing", "upserting", "updating"} => handler[h].was = TeamIsPaid

SyncInv ==
  /\ SyncTypeOK /\ SessionsKnown /\ SubsInOrder /\ EventsHaveSub /\ HandlersHaveSub
  /\ OneAtATime /\ PaymentIsKnown

(***************************************************************************)
(* A set of numbers up to a bound has a largest.                           *)
(***************************************************************************)
LEMMA LargestExists ==
  ASSUME NEW N \in Nat, NEW T \in SUBSET (1 .. N), T # {}
  PROVE  \E x \in T : \A y \in T : y <= x
<1> DEFINE Less == { p \in Nat \X Nat : p[1] < p[2] }
           Left == { N - x : x \in T }
<1>1. IsWellFoundedOn(Less, Nat)
  BY NatLessThanWellFounded DEF OpToRel
<1>2. \E x \in Left : \A y \in Left : ~ (<< y, x >> \in Less)
  <2>1. Left \subseteq Nat
    <3>1. \A x \in T : N - x \in Nat
      OBVIOUS
    <3> QED
      BY <3>1
  <2>2. Left # {}
    <3>1. PICK x \in T : TRUE
      OBVIOUS
    <3>2. N - x \in Left
      BY <3>1
    <3> QED
      BY <3>2
  <2> HIDE DEF Left, Less
  <2> QED
    BY <1>1, <2>1, <2>2, WFMin
<1>3. PICK x \in T : \A y \in T : ~ (<< N - y, N - x >> \in Less)
  BY <1>2
<1>4. ASSUME NEW y \in T PROVE y <= x
  <2>1. << N - y, N - x >> \in Nat \X Nat
    OBVIOUS
  <2>2. ~ (N - y < N - x)
    BY <1>3, <2>1
  <2> QED
    BY <2>2
<1> QED
  BY <1>4

LEMMA NewestIs ==
  ASSUME SyncTypeOK, NEW c \in Customers, SubsOf(c) # {}
  PROVE  Newest(c) \in SubsOf(c) /\ \A o \in SubsOf(c) : o <= Newest(c)
<1>1. SubsOf(c) \in SUBSET (1 .. MaxSubs) /\ MaxSubs \in Nat
  BY BoundsAssumption DEF SubsOf, Subscriptions
<1>2. \E s \in SubsOf(c) : \A o \in SubsOf(c) : o <= s
  BY <1>1, LargestExists
<1> QED
  BY <1>2 DEF Newest

(***************************************************************************)
(* The next subscription is a new one, and all before it are made.         *)
(***************************************************************************)
LEMMA NextSubIsNew ==
  ASSUME SyncTypeOK, SubsInOrder, NextSub \in Subscriptions
  PROVE  /\ subs[NextSub] = NoSub
         /\ \A o \in Subscriptions : o < NextSub => subs[o] # NoSub
<1> DEFINE Made == { s \in Subscriptions : subs[s] # NoSub }
<1>1. MaxSubs \in Nat
  BY BoundsAssumption
<1>2. \A n \in 0 .. MaxSubs : IsFiniteSet(1 .. n) /\ Cardinality(1 .. n) = n
  BY <1>1, FS_Interval
<1>3. IsFiniteSet(Made) /\ Cardinality(Made) \in Nat
  BY <1>1, <1>2, FS_Subset, FS_CardinalityType, Made \subseteq 1 .. MaxSubs DEF Subscriptions
<1>4. NextSub = Cardinality(Made) + 1
  BY DEF NextSub
<1>5. subs[NextSub] = NoSub
  <2> SUFFICES ASSUME subs[NextSub] # NoSub PROVE FALSE
    OBVIOUS
  <2>1. 1 .. NextSub \subseteq Made
    BY <1>1 DEF SubsInOrder, Subscriptions
  <2>2. Cardinality(1 .. NextSub) <= Cardinality(Made)
    BY <1>3, <2>1, FS_Subset
  <2> QED
    BY <1>1, <1>2, <1>3, <1>4, <2>2 DEF Subscriptions
<1>6. ASSUME NEW o \in Subscriptions, o < NextSub, subs[o] = NoSub
      PROVE  FALSE
  <2>1. Made \subseteq 1 .. (o - 1)
    BY <1>1, <1>6 DEF SubsInOrder, Subscriptions
  <2>2. o - 1 \in 0 .. MaxSubs
    BY <1>1 DEF Subscriptions
  <2>3. Cardinality(Made) <= o - 1
    BY <1>2, <2>1, <2>2, FS_Subset
  <2> QED
    BY <1>1, <1>3, <1>4, <1>6, <2>3 DEF Subscriptions
<1> QED
  BY <1>5, <1>6

CheckoutStates ==
  [pc : {"new", "asked", "creating", "saving", "opening", "open", "over"},
   customer : Customers \cup {0}]
HandlerStates ==
  [pc : {"idle", "listing", "upserting", "updating", "confirming"},
   customer : Customers \cup {0}, was : BOOLEAN, seen : Listing \cup {Unread}]
SubStates ==
  [customer : Customers \cup {0}, plan : Plans \cup {None},
   status : SubscriptionStatus \cup {"none"}]
TeamStates ==
  [customer : Customers \cup {0}, plan : Plans \cup {None},
   legacy : {"FREE", "BASIC"}, active : BOOLEAN]

(***************************************************************************)
(* What a step does to the checkout and to the handler it is a step of.    *)
(***************************************************************************)
LEMMA CheckoutMoves ==
  ASSUME SyncTypeOK, NEW r \in Checkouts, CheckoutStep(r)
  PROVE  /\ checkout' = [checkout EXCEPT ![r] = checkout'[r]]
         /\ checkout'[r] \in CheckoutStates
         /\ made' \in 0 .. MaxCustomers
<1> USE BoundsAssumption DEF SyncTypeOK, CheckoutStates, Customers
<1>1. CASE AskCheckout(r)
  BY <1>1, SMTT(30) DEF AskCheckout, stripeVars
<1>2. CASE ReadCustomer(r)
  BY <1>2, ZenonT(60) DEF ReadCustomer, stripeVars
<1>3. CASE CreateCustomer(r)
  <2>1. made + 1 \in Customers /\ made' = made + 1
    BY <1>3, SMTT(30) DEF CreateCustomer
  <2>2. checkout[r] \in CheckoutStates
    OBVIOUS
  <2>3. ASSUME NEW n \in Customers
        PROVE  [checkout[r] EXCEPT !.pc = "saving", !.customer = n] \in CheckoutStates
    BY <2>2
  <2>4. checkout' = [checkout EXCEPT ![r] =
                       [checkout[r] EXCEPT !.pc = "saving", !.customer = made + 1]]
    BY <1>3 DEF CreateCustomer
  <2> HIDE DEF CheckoutStates
  <2>5. checkout \in [Checkouts -> CheckoutStates]
    BY DEF CheckoutStates
  <2>6. checkout'[r] = [checkout[r] EXCEPT !.pc = "saving", !.customer = made + 1]
    BY <2>4, <2>5
  <2>7. made' \in 0 .. MaxCustomers
    BY <1>3, <2>1 DEF CreateCustomer
  <2> QED
    BY <2>1, <2>3, <2>4, <2>6, <2>7, ZenonT(60)
<1>4. CASE SaveCustomer(r)
  BY <1>4 DEF SaveCustomer, stripeVars
<1>5. CASE OpenSession(r)
  BY <1>5, SMTT(30) DEF OpenSession, stripeVars
<1>6. CASE Pay(r)
  BY <1>6 DEF Pay, Over
<1>7. CASE CheckoutFails(r)
  BY <1>7 DEF CheckoutFails, Over, stripeVars
<1> QED
  BY <1>1, <1>2, <1>3, <1>4, <1>5, <1>6, <1>7 DEF CheckoutStep

LEMMA SeenIsListing ==
  ASSUME SyncTypeOK, SubsInOrder, HandlersHaveSub,
         NEW h \in Handlers, ListSubscriptions(h)
  PROVE  /\ handler'[h].seen \in Listing
         /\ handler' = [handler EXCEPT ![h] = [@ EXCEPT !.pc = "upserting",
                                                        !.seen = handler'[h].seen]]
<1> DEFINE s == Newest(handler[h].customer)
<1>1. handler[h].customer \in Customers /\ SubsOf(handler[h].customer) # {}
  BY DEF ListSubscriptions, HandlersHaveSub, SyncTypeOK
<1>2. s \in Subscriptions /\ subs[s].customer = handler[h].customer
  BY <1>1, NewestIs DEF SubsOf
<1>3. subs[s] # NoSub
  BY <1>1, <1>2 DEF NoSub, Customers
<1>4. [sub |-> s, plan |-> subs[s].plan, status |-> subs[s].status, version |-> version] \in Listing
  BY <1>2, <1>3 DEF SubsInOrder, Listing, SyncTypeOK
<1> QED
  BY <1>4 DEF ListSubscriptions, SyncTypeOK

LEMMA HandlerMoves ==
  ASSUME SyncInv, NEW h \in Handlers, HandlerStep(h) \/ HandlerFails(h)
  PROVE  /\ handler' = [handler EXCEPT ![h] = handler'[h]]
         /\ handler'[h] \in HandlerStates
<1>0. SyncTypeOK /\ handler \in [Handlers -> HandlerStates]
  BY DEF SyncInv, SyncTypeOK, HandlerStates
<1>i. IdleHandler \in HandlerStates
  BY DEF IdleHandler, HandlerStates
<1>b. TeamIsPaid \in BOOLEAN
  BY DEF TeamIsPaid
<1>1. CASE Receive(h)
  <2>1. PICK c \in Customers :
          handler' = IF team.customer # c THEN handler ELSE
            [handler EXCEPT ![h] = [@ EXCEPT !.pc = "listing", !.customer = c,
                                             !.was = TeamIsPaid]]
    BY <1>1, ZenonT(60) DEF Receive
  <2> QED
    BY <1>0, <1>b, <2>1 DEF HandlerStates
<1>2. CASE ListSubscriptions(h)
  <2>1. /\ handler'[h].seen \in Listing
        /\ handler' = [handler EXCEPT ![h] = [@ EXCEPT !.pc = "upserting",
                                                       !.seen = handler'[h].seen]]
    BY <1>2, SeenIsListing, ZenonT(60) DEF SyncInv
  <2>2. [handler[h] EXCEPT !.pc = "upserting", !.seen = handler'[h].seen] \in HandlerStates
    BY <1>0, <2>1 DEF HandlerStates
  <2> QED
    BY <1>0, <2>1, <2>2
<1>3. CASE UpsertSubscription(h)
  BY <1>0, <1>3 DEF UpsertSubscription, GoTo, HandlerStates
<1>4. CASE UpdateTeam(h)
  BY <1>0, <1>i, <1>4 DEF UpdateTeam, GoTo, Return, HandlerStates
<1>5. CASE SendConfirmation(h)
  BY <1>0, <1>i, <1>5 DEF SendConfirmation, Return
<1>6. CASE HandlerFails(h)
  BY <1>0, <1>i, <1>6 DEF HandlerFails, Return
<1> QED
  BY <1>1, <1>2, <1>3, <1>4, <1>5, <1>6 DEF HandlerStep

(***************************************************************************)
(* What a step does to the subscriptions: those there are stay, with their *)
(* customers, and only a session that is paid makes one.                   *)
(***************************************************************************)
LEMMA PayMakes ==
  ASSUME SyncInv, NEW r \in Checkouts, Pay(r)
  PROVE  /\ NextSub \in Subscriptions /\ subs[NextSub] = NoSub
         /\ \A o \in Subscriptions : o < NextSub => subs[o] # NoSub
         /\ checkout[r].customer \in Customers /\ checkout[r].customer \in Known
         /\ subs' = [subs EXCEPT ![NextSub] =
              [customer |-> checkout[r].customer, plan |-> Wanted[r], status |-> "active"]]
         /\ Wanted[r] \in Plans
<1>1. SyncTypeOK /\ SubsInOrder /\ SessionsKnown
  BY DEF SyncInv
<1> QED
  BY <1>1, NextSubIsNew, WantedAssumption DEF Pay, SessionsKnown, SyncTypeOK

LEMMA ChangeKeeps ==
  ASSUME SyncInv, NEW s \in Subscriptions, ChangeSubscription(s)
  PROVE  /\ subs[s] # NoSub
         /\ \E p \in Plans, to \in SubscriptionStatus :
              subs' = [subs EXCEPT ![s] = [customer |-> subs[s].customer, plan |-> p, status |-> to]]
<1>1. subs[s] # NoSub
  BY DEF ChangeSubscription
<1>2. subs \in [Subscriptions -> SubStates] /\ subs[s].plan \in Plans
      /\ subs[s].status \in SubscriptionStatus
  BY <1>1 DEF SyncInv, SyncTypeOK, SubStates, SubsInOrder
<1>3. subs[s] = [customer |-> subs[s].customer, plan |-> subs[s].plan, status |-> subs[s].status]
  BY <1>2 DEF SubStates
<1>4. CASE \E to \in Changes(subs[s].status) : subs' = [subs EXCEPT ![s].status = to]
  <2>1. PICK to \in Changes(subs[s].status) : subs' = [subs EXCEPT ![s].status = to]
    BY <1>4
  <2>2. to \in SubscriptionStatus
    BY <1>2 DEF Changes, SubscriptionStatus
  <2>3. [subs[s] EXCEPT !.status = to] =
          [customer |-> subs[s].customer, plan |-> subs[s].plan, status |-> to]
    BY <1>2 DEF SubStates
  <2> QED
    BY <1>1, <1>2, <2>1, <2>2, <2>3
<1>5. CASE \E p \in Plans \ {subs[s].plan} : subs' = [subs EXCEPT ![s].plan = p]
  <2>1. PICK p \in Plans : subs' = [subs EXCEPT ![s].plan = p]
    BY <1>5
  <2>2. [subs[s] EXCEPT !.plan = p] =
          [customer |-> subs[s].customer, plan |-> p, status |-> subs[s].status]
    BY <1>2 DEF SubStates
  <2> QED
    BY <1>1, <1>2, <2>1, <2>2
<1> QED
  BY <1>1, <1>4, <1>5 DEF ChangeSubscription

\* A step is that of a session paid, of a subscription changed, or leaves them.
LEMMA SubsFrame ==
  ASSUME [SyncNext]_stripeSyncVars
  PROVE  \/ \E r \in Checkouts : Pay(r)
         \/ \E s \in Subscriptions : ChangeSubscription(s)
         \/ UNCHANGED << subs, version >>
<1>1. CASE \E r \in Checkouts : CheckoutStep(r)
  BY <1>1 DEF CheckoutStep, AskCheckout, ReadCustomer, CreateCustomer, SaveCustomer,
     OpenSession, CheckoutFails, stripeVars
<1>2. CASE \E h \in Handlers : HandlerStep(h) \/ HandlerFails(h)
  BY <1>2, ZenonT(60) DEF HandlerStep, Receive, ListSubscriptions, UpsertSubscription, UpdateTeam,
     SendConfirmation, HandlerFails, stripeVars
<1>3. CASE \E c \in Customers : Redeliver(c)
  BY <1>3 DEF Redeliver, stripeVars
<1>4. CASE UNCHANGED stripeSyncVars
  BY <1>4 DEF stripeSyncVars, stripeVars
<1> QED
  BY <1>1, <1>2, <1>3, <1>4 DEF SyncNext

LEMMA SubsStay ==
  ASSUME SyncInv, [SyncNext]_stripeSyncVars
  PROVE  /\ SubsInOrder' /\ subs' \in [Subscriptions -> SubStates] /\ version' \in Nat
         /\ \A s \in Subscriptions : subs[s] # NoSub =>
              subs'[s] # NoSub /\ subs'[s].customer = subs[s].customer
         /\ \A c \in Customers : SubsOf(c) \subseteq SubsOf(c)'
<1>1. subs \in [Subscriptions -> SubStates] /\ SubsInOrder /\ version \in Nat
      /\ Subscriptions \subseteq Nat
  BY BoundsAssumption DEF SyncInv, SyncTypeOK, SubStates, Subscriptions
<1>2. ASSUME NEW r \in Checkouts, Pay(r)
      PROVE  /\ SubsInOrder' /\ subs' \in [Subscriptions -> SubStates] /\ version' \in Nat
             /\ \A s \in Subscriptions : subs[s] # NoSub =>
                  subs'[s] # NoSub /\ subs'[s].customer = subs[s].customer
  <2> DEFINE n == NextSub
             new == [customer |-> checkout[r].customer, plan |-> Wanted[r], status |-> "active"]
  <2>1. /\ n \in Subscriptions /\ subs[n] = NoSub
        /\ \A o \in Subscriptions : o < n => subs[o] # NoSub
        /\ subs' = [subs EXCEPT ![n] = new]
        /\ checkout[r].customer \in Customers /\ Wanted[r] \in Plans
    BY <1>2, PayMakes
  <2>2. new # NoSub /\ new \in SubStates /\ new.customer # 0
    BY <2>1 DEF NoSub, SubStates, SubscriptionStatus, Customers
  <2>3. version' \in Nat
    BY <1>1, <1>2 DEF Pay
  <2>4. subs' \in [Subscriptions -> SubStates]
    BY <1>1, <2>1, <2>2
  <2>5. subs'[n] = new /\ \A s \in Subscriptions \ {n} : subs'[s] = subs[s]
    BY <1>1, <2>1
  <2> HIDE DEF n
  <2>6. SubsInOrder'
    <3> SUFFICES ASSUME NEW s \in Subscriptions, subs'[s] # NoSub
                PROVE  /\ subs'[s].customer # 0 /\ subs'[s].plan \in Plans
                       /\ subs'[s].status \in SubscriptionStatus
                       /\ \A o \in Subscriptions : o < s => subs'[o] # NoSub
      BY DEF SubsInOrder, Subscriptions
    <3>1. CASE s = n
      BY <1>1, <2>1, <2>2, <2>5, <3>1 DEF SubscriptionStatus
    <3>2. CASE s # n
      BY <1>1, <2>2, <2>5, <3>2 DEF SubsInOrder
    <3> QED
      BY <3>1, <3>2
  <2> QED
    BY <2>1, <2>3, <2>4, <2>5, <2>6
<1>3. ASSUME NEW q \in Subscriptions, ChangeSubscription(q)
      PROVE  /\ SubsInOrder' /\ subs' \in [Subscriptions -> SubStates] /\ version' \in Nat
             /\ \A s \in Subscriptions : subs[s] # NoSub =>
                  subs'[s] # NoSub /\ subs'[s].customer = subs[s].customer
  <2>1. PICK p \in Plans, to \in SubscriptionStatus :
          subs' = [subs EXCEPT ![q] = [customer |-> subs[q].customer, plan |-> p, status |-> to]]
    BY <1>3, ChangeKeeps
  <2> DEFINE new == [customer |-> subs[q].customer, plan |-> p, status |-> to]
  <2>2. subs[q] # NoSub /\ subs[q].customer # 0 /\ subs[q] \in SubStates
    BY <1>1, <1>3 DEF ChangeSubscription, SubsInOrder
  <2>3. new \in SubStates /\ new.customer # 0 /\ new # NoSub
    BY <2>2 DEF SubStates, NoSub
  <2>4. subs'[q] = new /\ \A s \in Subscriptions \ {q} : subs'[s] = subs[s]
    BY <1>1, <2>1
  <2>5. version' \in Nat
    BY <1>1, <1>3 DEF ChangeSubscription
  <2>6. SubsInOrder'
    <3> SUFFICES ASSUME NEW s \in Subscriptions, subs'[s] # NoSub
                PROVE  /\ subs'[s].customer # 0 /\ subs'[s].plan \in Plans
                       /\ subs'[s].status \in SubscriptionStatus
                       /\ \A o \in Subscriptions : o < s => subs'[o] # NoSub
      BY DEF SubsInOrder, Subscriptions
    <3>1. subs[s] # NoSub
      BY <2>2, <2>4
    <3>2. \A o \in Subscriptions : o < s => subs'[o] # NoSub
      BY <1>1, <2>3, <2>4, <3>1 DEF SubsInOrder
    <3> QED
      BY <1>1, <2>3, <2>4, <3>1, <3>2 DEF SubsInOrder
  <2> QED
    BY <1>1, <2>1, <2>2, <2>3, <2>4, <2>5, <2>6
<1>4. ASSUME UNCHANGED << subs, version >>
      PROVE  /\ SubsInOrder' /\ subs' \in [Subscriptions -> SubStates] /\ version' \in Nat
             /\ \A s \in Subscriptions : subs[s] # NoSub =>
                  subs'[s] # NoSub /\ subs'[s].customer = subs[s].customer
  BY <1>1, <1>4 DEF SubsInOrder
<1>5. /\ SubsInOrder' /\ subs' \in [Subscriptions -> SubStates] /\ version' \in Nat
      /\ \A s \in Subscriptions : subs[s] # NoSub =>
           subs'[s] # NoSub /\ subs'[s].customer = subs[s].customer
  BY <1>2, <1>3, <1>4, SubsFrame
<1>6. ASSUME NEW c \in Customers, NEW s \in SubsOf(c)
      PROVE  s \in SubsOf(c)'
  BY <1>5, <1>6 DEF SubsOf, NoSub, Customers, Subscriptions
<1> QED
  BY <1>5, <1>6

(***************************************************************************)
(* The team's customers are not forgotten, and its standing changes only   *)
(* when a handler updates it.                                              *)
(***************************************************************************)
LEMMA TeamFrame ==
  ASSUME [SyncNext]_stripeSyncVars
  PROVE  \/ \E r \in Checkouts : SaveCustomer(r)
         \/ \E h \in Handlers : UpdateTeam(h)
         \/ UNCHANGED << team, replaced >>
<1>1. CASE \E r \in Checkouts : CheckoutStep(r)
  BY <1>1 DEF CheckoutStep, AskCheckout, ReadCustomer, CreateCustomer, Pay, OpenSession,
     CheckoutFails, teamVars, historyVars
<1>2. CASE \E h \in Handlers : HandlerStep(h) \/ HandlerFails(h)
  BY <1>2, ZenonT(60) DEF HandlerStep, Receive, ListSubscriptions, UpsertSubscription,
     SendConfirmation, HandlerFails, teamVars, historyVars
<1>3. CASE \/ \E c \in Customers : Redeliver(c)
           \/ \E s \in Subscriptions : ChangeSubscription(s)
  BY <1>3 DEF Redeliver, ChangeSubscription, teamVars, historyVars
<1>4. CASE UNCHANGED stripeSyncVars
  BY <1>4 DEF stripeSyncVars, teamVars, historyVars
<1> QED
  BY <1>1, <1>2, <1>3, <1>4 DEF SyncNext

LEMMA TeamStays ==
  ASSUME SyncInv, [SyncNext]_stripeSyncVars
  PROVE  /\ team' \in TeamStates /\ replaced' \in SUBSET Customers
         /\ \A c \in Customers : c \in Known => c \in Known'
<1>1. team \in TeamStates /\ replaced \in SUBSET Customers
  BY DEF SyncInv, SyncTypeOK, TeamStates
<1>2. CASE \E r \in Checkouts : SaveCustomer(r)
  <2>1. PICK r \in Checkouts : SaveCustomer(r)
    BY <1>2
  <2>2. checkout[r].customer \in Customers \cup {0}
    BY DEF SyncInv, SyncTypeOK
  <2>3. team' = [team EXCEPT !.customer = checkout[r].customer]
        /\ replaced' = replaced \cup ({team.customer} \ {0})
    BY <2>1 DEF SaveCustomer
  <2> QED
    BY <1>1, <2>2, <2>3 DEF TeamStates, Known, Customers
<1>3. CASE \E h \in Handlers : UpdateTeam(h)
  <2>1. PICK h \in Handlers : UpdateTeam(h)
    BY <1>3
  <2>2. handler[h].seen \in Listing
    BY <2>1 DEF UpdateTeam, SyncInv, HandlersHaveSub
  <2>3. Synced(handler[h].seen) \in TeamStates
    BY <1>1, <2>2 DEF Synced, IsEntitled, Listing, TeamStates
  <2>4. team' = Synced(handler[h].seen) /\ replaced' = replaced
    BY <2>1 DEF UpdateTeam
  <2>5. team'.customer = team.customer
    BY <2>4 DEF Synced
  <2> QED
    BY <1>1, <2>3, <2>4, <2>5 DEF Known
<1>4. CASE UNCHANGED << team, replaced >>
  BY <1>1, <1>4 DEF Known
<1> QED
  BY <1>2, <1>3, <1>4, TeamFrame

(***************************************************************************)
(* Each part of the invariant, over a step.                                *)
(***************************************************************************)
LEMMA SessionsNext ==
  ASSUME SyncInv, [SyncNext]_stripeSyncVars
  PROVE  SessionsKnown' /\ checkout' \in [Checkouts -> CheckoutStates]
         /\ made' \in 0 .. MaxCustomers
<1>1. /\ checkout \in [Checkouts -> CheckoutStates] /\ SessionsKnown
      /\ made \in 0 .. MaxCustomers /\ team.customer \in Customers \cup {0}
  BY DEF SyncInv, SyncTypeOK, CheckoutStates
<1>2. ASSUME NEW r \in Checkouts, CheckoutStep(r)
      PROVE  /\ checkout'[r].pc \in {"saving", "opening", "open"} => checkout'[r].customer # 0
             /\ checkout'[r].pc \in {"opening", "open"} => checkout'[r].customer \in Known'
  <2> USE <1>1
  <2>1. CASE AskCheckout(r)
    BY <2>1 DEF AskCheckout, CheckoutStates
  <2>2. CASE ReadCustomer(r)
    <3>1. Known' = Known
      BY <2>2 DEF ReadCustomer, Known, teamVars, historyVars
    <3>2. checkout'[r].customer = team.customer
          /\ checkout'[r].pc = IF team.customer = 0 THEN "creating" ELSE "opening"
      BY <2>2 DEF ReadCustomer, CheckoutStates
    <3> QED
      BY <3>1, <3>2 DEF Known
  <2>3. CASE CreateCustomer(r)
    <3>1. checkout'[r].pc = "saving" /\ checkout'[r].customer = made + 1
      BY <2>3 DEF CreateCustomer, CheckoutStates
    <3>2. made + 1 # 0
      BY BoundsAssumption
    <3> QED
      BY <3>1, <3>2
  <2>4. CASE SaveCustomer(r)
    <3>1. checkout'[r] = [checkout[r] EXCEPT !.pc = "opening"]
      BY <2>4 DEF SaveCustomer
    <3>2. team'.customer = checkout[r].customer
      BY <2>4 DEF SaveCustomer, SyncInv, SyncTypeOK
    <3> QED
      BY <2>4, <3>1, <3>2 DEF Known, CheckoutStates, SaveCustomer, SessionsKnown
  <2>5. CASE OpenSession(r)
    BY <2>5 DEF OpenSession, CheckoutStates, SessionsKnown, Known, teamVars, historyVars
  <2>6. CASE Pay(r)
    BY <2>6 DEF Pay, Over
  <2>7. CASE CheckoutFails(r)
    BY <2>7 DEF CheckoutFails, Over
  <2> QED
    BY <1>2, <2>1, <2>2, <2>3, <2>4, <2>5, <2>6, <2>7 DEF CheckoutStep
<1>3. ASSUME NEW q \in Checkouts, checkout'[q] = checkout[q]
      PROVE  /\ checkout'[q].pc \in {"saving", "opening", "open"} => checkout'[q].customer # 0
             /\ checkout'[q].pc \in {"opening", "open"} => checkout'[q].customer \in Known'
  <2>1. checkout[q].customer \in Customers \cup {0}
    BY <1>1 DEF CheckoutStates
  <2> QED
    BY <1>1, <1>3, <2>1, TeamStays DEF SessionsKnown
<1>4. CASE \E r \in Checkouts : CheckoutStep(r)
  <2>1. PICK r \in Checkouts : CheckoutStep(r)
    BY <1>4
  <2>2. checkout' = [checkout EXCEPT ![r] = checkout'[r]] /\ checkout'[r] \in CheckoutStates
        /\ made' \in 0 .. MaxCustomers
    BY <2>1, CheckoutMoves DEF SyncInv
  <2>3. \A q \in Checkouts \ {r} : checkout'[q] = checkout[q]
    BY <1>1, <2>2
  <2>4. checkout' \in [Checkouts -> CheckoutStates]
    BY <1>1, <2>2
  <2> QED
    BY <1>2, <1>3, <2>1, <2>2, <2>3, <2>4 DEF SessionsKnown
<1>5. CASE UNCHANGED << checkout, made >>
  BY <1>1, <1>3, <1>5 DEF SessionsKnown
<1>6. \/ \E r \in Checkouts : CheckoutStep(r)
      \/ UNCHANGED << checkout, made >>
  <2>1. CASE \E h \in Handlers : HandlerStep(h) \/ HandlerFails(h)
    BY <2>1, ZenonT(60) DEF HandlerStep, Receive, ListSubscriptions, UpsertSubscription, UpdateTeam,
       SendConfirmation, HandlerFails, stripeVars
  <2>2. CASE \/ \E c \in Customers : Redeliver(c)
             \/ \E s \in Subscriptions : ChangeSubscription(s)
    BY <2>2 DEF Redeliver, ChangeSubscription, stripeVars
  <2>3. CASE UNCHANGED stripeSyncVars
    BY <2>3 DEF stripeSyncVars, stripeVars
  <2> QED
    BY <2>1, <2>2, <2>3 DEF SyncNext
<1> QED
  BY <1>4, <1>5, <1>6

LEMMA DueFrame ==
  ASSUME SyncInv, [SyncNext]_stripeSyncVars
  PROVE  /\ due' \in [Customers -> Nat]
         /\ \A c \in Customers : due'[c] > due[c] => SubsOf(c)' # {}
<1>1. due \in [Customers -> Nat] /\ subs' \in [Subscriptions -> SubStates]
      /\ \A c \in Customers : SubsOf(c) \subseteq SubsOf(c)'
  BY SubsStay DEF SyncInv, SyncTypeOK
<1>2. ASSUME NEW c \in Customers, NEW n \in Nat, SubsOf(c)' # {}, due' = [due EXCEPT ![c] = @ + n]
      PROVE  /\ due' \in [Customers -> Nat]
             /\ \A k \in Customers : due'[k] > due[k] => SubsOf(k)' # {}
  BY <1>1, <1>2
<1>3. ASSUME NEW r \in Checkouts, Pay(r)
      PROVE  \E c \in Customers : SubsOf(c)' # {} /\ due' = [due EXCEPT ![c] = @ + 2]
  <2>1. /\ NextSub \in Subscriptions /\ checkout[r].customer \in Customers
        /\ subs' = [subs EXCEPT ![NextSub] =
             [customer |-> checkout[r].customer, plan |-> Wanted[r], status |-> "active"]]
    BY <1>3, PayMakes
  <2>2. subs \in [Subscriptions -> SubStates]
    BY DEF SyncInv, SyncTypeOK, SubStates
  <2>3. PICK s \in Subscriptions, c \in Customers :
          /\ c = checkout[r].customer
          /\ subs' = [subs EXCEPT ![s] =
               [customer |-> c, plan |-> Wanted[r], status |-> "active"]]
    BY <2>1
  <2>4. s \in SubsOf(c)'
    BY <2>2, <2>3 DEF SubsOf, Subscriptions
  <2>5. due' = [due EXCEPT ![c] = @ + 2]
    BY <1>3, <2>3 DEF Pay
  <2> QED
    BY <2>4, <2>5
<1>4. ASSUME NEW s \in Subscriptions, ChangeSubscription(s)
      PROVE  \E c \in Customers : SubsOf(c)' # {} /\ due' = [due EXCEPT ![c] = @ + 1]
  <2>1. subs[s] # NoSub /\ due' = [due EXCEPT ![subs[s].customer] = @ + 1]
    BY <1>4 DEF ChangeSubscription
  <2>2. subs[s].customer \in Customers
    BY <2>1 DEF SyncInv, SyncTypeOK, SubsInOrder
  <2>3. s \in SubsOf(subs[s].customer)
    BY DEF SubsOf
  <2> QED
    BY <1>1, <2>1, <2>2, <2>3
<1>5. ASSUME NEW h \in Handlers, HandlerFails(h)
      PROVE  \E c \in Customers : SubsOf(c)' # {} /\ due' = [due EXCEPT ![c] = @ + 1]
  <2>1. handler[h].customer \in Customers /\ SubsOf(handler[h].customer) # {}
    BY <1>5 DEF HandlerFails, SyncInv, SyncTypeOK, HandlersHaveSub
  <2> QED
    BY <1>1, <1>5, <2>1 DEF HandlerFails
<1>6. ASSUME NEW c \in Customers, Redeliver(c)
      PROVE  \E k \in Customers : SubsOf(k)' # {} /\ due' = [due EXCEPT ![k] = @ + 1]
  <2>1. SubsOf(c) # {} /\ due' = [due EXCEPT ![c] = @ + 1]
    BY <1>6 DEF Redeliver, SubsOf
  <2> QED
    BY <1>1, <2>1
<1>7. CASE \E h \in Handlers : Receive(h)
  BY <1>1, <1>7 DEF Receive
<1>8. CASE UNCHANGED due
  BY <1>1, <1>8
<1>9. \/ \E r \in Checkouts : Pay(r)
      \/ \E s \in Subscriptions : ChangeSubscription(s)
      \/ \E h \in Handlers : HandlerFails(h) \/ Receive(h)
      \/ \E c \in Customers : Redeliver(c)
      \/ UNCHANGED due
  <2>1. CASE \E r \in Checkouts : CheckoutStep(r)
    BY <2>1 DEF CheckoutStep, AskCheckout, ReadCustomer, CreateCustomer, SaveCustomer,
       OpenSession, CheckoutFails
  <2>2. CASE \E h \in Handlers : HandlerStep(h)
    BY <2>2 DEF HandlerStep, ListSubscriptions, UpsertSubscription, UpdateTeam,
       SendConfirmation
  <2>3. CASE UNCHANGED stripeSyncVars
    BY <2>3 DEF stripeSyncVars
  <2> QED
    BY <2>1, <2>2, <2>3 DEF SyncNext
<1> QED
  BY <1>2, <1>3, <1>4, <1>5, <1>6, <1>7, <1>8, <1>9

LEMMA EventsNext ==
  ASSUME SyncInv, [SyncNext]_stripeSyncVars
  PROVE  EventsHaveSub'
<1>1. /\ due \in [Customers -> Nat] /\ EventsHaveSub
      /\ due' \in [Customers -> Nat]
      /\ \A c \in Customers : due'[c] > due[c] => SubsOf(c)' # {}
      /\ \A c \in Customers : SubsOf(c) \subseteq SubsOf(c)'
  BY DueFrame, SubsStay DEF SyncInv, SyncTypeOK
<1>2. ASSUME NEW c \in Customers, due'[c] > 0 PROVE SubsOf(c)' # {}
  <2>1. CASE due[c] > 0
    BY <1>1, <2>1 DEF EventsHaveSub
  <2>2. CASE due[c] = 0
    BY <1>1, <1>2, <2>2
  <2> QED
    BY <1>1, <2>1, <2>2
<1> QED
  BY <1>2 DEF EventsHaveSub, Customers

LEMMA HandlerFrame ==
  ASSUME [SyncNext]_stripeSyncVars
  PROVE  \/ \E h \in Handlers : HandlerStep(h) \/ HandlerFails(h)
         \/ UNCHANGED << handler, crossed, owed, latest, stale >>
            /\ (UNCHANGED team \/ \E r \in Checkouts : SaveCustomer(r))
<1>1. CASE \E r \in Checkouts : CheckoutStep(r)
  BY <1>1 DEF CheckoutStep, AskCheckout, ReadCustomer, CreateCustomer, SaveCustomer,
     OpenSession, Pay, CheckoutFails, historyVars, teamVars
<1>2. CASE \/ \E c \in Customers : Redeliver(c)
           \/ \E s \in Subscriptions : ChangeSubscription(s)
  BY <1>2 DEF Redeliver, ChangeSubscription, historyVars, teamVars
<1>3. CASE UNCHANGED stripeSyncVars
  BY <1>3 DEF stripeSyncVars, historyVars, teamVars
<1> QED
  BY <1>1, <1>2, <1>3 DEF SyncNext

LEMMA HandlersNext ==
  ASSUME SyncInv, [SyncNext]_stripeSyncVars
  PROVE  HandlersHaveSub' /\ handler' \in [Handlers -> HandlerStates]
<1>1. /\ handler \in [Handlers -> HandlerStates] /\ HandlersHaveSub /\ EventsHaveSub
      /\ \A c \in Customers : SubsOf(c) \subseteq SubsOf(c)'
      /\ due \in [Customers -> Nat]
  BY SubsStay DEF SyncInv, SyncTypeOK, HandlerStates
<1> DEFINE Good(h) ==
      /\ handler'[h].pc # "idle" =>
           handler'[h].customer # 0 /\ SubsOf(handler[h].customer)' # {}
      /\ handler'[h].pc \in {"upserting", "updating"} => handler'[h].seen \in Listing
<1>2. ASSUME NEW h \in Handlers,
             handler'[h].pc = "idle" \/ handler'[h].customer = handler[h].customer,
             handler[h].pc # "idle" \/ handler'[h] = handler[h],
             handler'[h].pc \in {"upserting", "updating"} => handler'[h].seen \in Listing
      PROVE  Good(h)
  <2>1. handler[h] \in HandlerStates
    BY <1>1
  <2>2. handler[h].customer \in Customers \cup {0}
    BY <2>1 DEF HandlerStates
  <2>3. ASSUME handler'[h].pc # "idle"
        PROVE  handler'[h].customer # 0 /\ SubsOf(handler[h].customer)' # {}
    <3>1. handler[h].pc # "idle" /\ handler'[h].customer = handler[h].customer
      BY <1>2, <2>3
    <3> QED
      BY <1>1, <2>2, <3>1 DEF HandlersHaveSub
  <2> QED
    BY <1>2, <2>3
<1>3. ASSUME NEW h \in Handlers, handler'[h] = handler[h] PROVE Good(h)
  <2>1. handler'[h].pc \in {"upserting", "updating"} => handler'[h].seen \in Listing
    BY <1>1, <1>3 DEF HandlersHaveSub
  <2> QED
    BY <1>2, <1>3, <2>1
<1>4. ASSUME NEW h \in Handlers, HandlerStep(h) \/ HandlerFails(h) PROVE Good(h)
  <2>h. handler[h] \in HandlerStates
    BY <1>1
  <2>1. CASE Receive(h)
    <3>1. PICK c \in Customers :
            /\ due[c] > 0
            /\ handler' = IF team.customer # c THEN handler ELSE
                 [handler EXCEPT ![h] = [@ EXCEPT !.pc = "listing", !.customer = c,
                                                  !.was = TeamIsPaid]]
      BY <2>1, ZenonT(60) DEF Receive
    <3>2. CASE team.customer # c
      BY <1>3, <3>1, <3>2
    <3>3. CASE team.customer = c
      <4>1. handler'[h].pc = "listing" /\ handler'[h].customer = c
        BY <1>1, <2>h, <3>1, <3>3 DEF HandlerStates
      <4>2. c # 0 /\ SubsOf(c)' # {}
        BY <1>1, <3>1 DEF EventsHaveSub, Customers
      <4> QED
        BY <4>1, <4>2
    <3> QED
      BY <3>2, <3>3
  <2>2. CASE ListSubscriptions(h)
    <3>1. handler'[h].seen \in Listing
          /\ handler' = [handler EXCEPT ![h] = [@ EXCEPT !.pc = "upserting",
                                                         !.seen = handler'[h].seen]]
      BY <2>2, SeenIsListing, ZenonT(60) DEF SyncInv
    <3>2. handler'[h].customer = handler[h].customer
      BY <1>1, <2>h, <3>1 DEF HandlerStates
    <3> QED
      BY <1>2, <2>2, <3>1, <3>2 DEF ListSubscriptions
  <2>3. CASE UpsertSubscription(h)
    <3>1. handler[h].pc = "upserting" /\ handler' = [handler EXCEPT ![h].pc = "updating"]
      BY <2>3 DEF UpsertSubscription, GoTo
    <3>2. handler'[h].customer = handler[h].customer /\ handler'[h].seen = handler[h].seen
      BY <1>1, <2>h, <3>1 DEF HandlerStates
    <3> QED
      BY <1>1, <1>2, <3>1, <3>2 DEF HandlersHaveSub
  <2>4. CASE UpdateTeam(h)
    <3>1. handler[h].pc = "updating"
          /\ (handler' = [handler EXCEPT ![h].pc = "confirming"]
              \/ handler' = [handler EXCEPT ![h] = IdleHandler])
      BY <2>4 DEF UpdateTeam, GoTo, Return
    <3>2. \/ handler'[h].customer = handler[h].customer /\ handler'[h].pc = "confirming"
          \/ handler'[h].pc = "idle"
      BY <1>1, <2>h, <3>1 DEF HandlerStates, IdleHandler
    <3> QED
      BY <1>2, <3>1, <3>2
  <2>5. CASE SendConfirmation(h) \/ HandlerFails(h)
    <3>1. handler'[h].pc = "idle"
      BY <1>1, <2>5 DEF SendConfirmation, HandlerFails, Return, IdleHandler
    <3> QED
      BY <3>1
  <2> QED
    BY <1>4, <2>1, <2>2, <2>3, <2>4, <2>5 DEF HandlerStep
<1>5. CASE \E h \in Handlers : HandlerStep(h) \/ HandlerFails(h)
  <2>1. PICK h \in Handlers : HandlerStep(h) \/ HandlerFails(h)
    BY <1>5
  <2>2. handler' = [handler EXCEPT ![h] = handler'[h]] /\ handler'[h] \in HandlerStates
    BY <2>1, HandlerMoves
  <2>3. \A g \in Handlers \ {h} : handler'[g] = handler[g]
    BY <1>1, <2>2
  <2>4. handler' \in [Handlers -> HandlerStates]
    BY <1>1, <2>2
  <2>5. \A g \in Handlers : Good(g)
    BY <1>3, <1>4, <2>1, <2>3
  <2> QED
    BY <2>4, <2>5 DEF HandlersHaveSub
<1>6. CASE UNCHANGED handler
  <2>1. \A g \in Handlers : Good(g)
    BY <1>3, <1>6
  <2> QED
    BY <1>1, <1>6, <2>1 DEF HandlersHaveSub
<1> QED
  BY <1>5, <1>6, HandlerFrame

LEMMA RestTypes ==
  ASSUME SyncInv, [SyncNext]_stripeSyncVars
  PROVE  /\ rows' \in [Subscriptions -> SubscriptionStatus \cup {"none"}]
         /\ faults' \in Nat /\ owed' \in Int
         /\ latest' \in [Shown -> Nat] /\ stale' \in SUBSET Shown /\ crossed' \in BOOLEAN
<1>1. /\ rows \in [Subscriptions -> SubscriptionStatus \cup {"none"}]
      /\ faults \in Nat /\ owed \in Int
      /\ latest \in [Shown -> Nat] /\ stale \in SUBSET Shown /\ crossed \in BOOLEAN
      /\ HandlersHaveSub
  BY DEF SyncInv, SyncTypeOK
<1>2. ASSUME NEW h \in Handlers, UpsertSubscription(h) \/ UpdateTeam(h)
      PROVE  handler[h].seen \in Listing
  BY <1>1, <1>2 DEF UpsertSubscription, UpdateTeam, HandlersHaveSub
<1>3. ASSUME NEW h \in Handlers, NEW x \in Shown, handler[h].seen \in Listing, Wrote(x, h)
      PROVE  latest' \in [Shown -> Nat] /\ stale' \in SUBSET Shown
  <2>1. handler[h].seen.version \in Nat
    BY <1>3 DEF Listing
  <2> QED
    BY <1>1, <1>3, <2>1 DEF Wrote
<1>4. ASSUME NEW n \in Int, Owe(n) PROVE owed' \in Int /\ crossed' \in BOOLEAN
  BY <1>1, <1>4 DEF Owe
<1>5. CASE \E r \in Checkouts : CheckoutStep(r)
  BY <1>1, <1>5 DEF CheckoutStep, AskCheckout, ReadCustomer, CreateCustomer, SaveCustomer,
     OpenSession, Pay, CheckoutFails, Fault, historyVars, teamVars
<1>6. CASE \/ \E c \in Customers : Redeliver(c)
           \/ \E s \in Subscriptions : ChangeSubscription(s)
  BY <1>1, <1>6 DEF Redeliver, ChangeSubscription, Fault, historyVars, teamVars
<1>7. ASSUME NEW h \in Handlers, HandlerStep(h) \/ HandlerFails(h)
      PROVE  /\ rows' \in [Subscriptions -> SubscriptionStatus \cup {"none"}]
             /\ faults' \in Nat /\ owed' \in Int
             /\ latest' \in [Shown -> Nat] /\ stale' \in SUBSET Shown /\ crossed' \in BOOLEAN
  <2>1. CASE Receive(h)
    <3>1. rows' = rows /\ faults' = faults /\ latest' = latest /\ stale' = stale
      BY <2>1 DEF Receive, teamVars
    <3>2. crossed' \in BOOLEAN /\ owed' = IF crossed' THEN 0 ELSE owed
      BY <1>1, <2>1 DEF Receive
    <3> QED
      BY <1>1, <3>1, <3>2
  <2>2. CASE ListSubscriptions(h)
    BY <1>1, <2>2 DEF ListSubscriptions, teamVars, historyVars
  <2>3. CASE UpsertSubscription(h)
    <3>1. handler[h].seen \in Listing
      BY <1>2, <2>3
    <3>2. handler[h].seen.sub \in Shown /\ handler[h].seen.sub \in Subscriptions
          /\ handler[h].seen.status \in SubscriptionStatus
      BY <3>1 DEF Listing, Shown
    <3> QED
      BY <1>1, <1>3, <2>3, <3>1, <3>2 DEF UpsertSubscription
  <2>4. CASE UpdateTeam(h)
    <3>1. latest' \in [Shown -> Nat] /\ stale' \in SUBSET Shown
      BY <1>2, <1>3, <2>4 DEF UpdateTeam, Shown
    <3>2. owed' \in Int /\ crossed' \in BOOLEAN
      BY <1>4, <2>4 DEF UpdateTeam
    <3> QED
      BY <1>1, <2>4, <3>1, <3>2 DEF UpdateTeam
  <2>5. CASE SendConfirmation(h)
    <3>1. owed' \in Int /\ crossed' \in BOOLEAN
      BY <1>4, <2>5 DEF SendConfirmation
    <3> QED
      BY <1>1, <2>5, <3>1 DEF SendConfirmation, teamVars
  <2>6. CASE HandlerFails(h)
    <3>1. owed' \in Int /\ crossed' \in BOOLEAN
      BY <1>4, <2>6 DEF HandlerFails
    <3> QED
      BY <1>1, <2>6, <3>1 DEF HandlerFails, Fault, teamVars
  <2> QED
    BY <1>7, <2>1, <2>2, <2>3, <2>4, <2>5, <2>6 DEF HandlerStep
<1>8. CASE UNCHANGED stripeSyncVars
  BY <1>1, <1>8 DEF stripeSyncVars, historyVars, teamVars
<1> QED
  BY <1>5, <1>6, <1>7, <1>8 DEF SyncNext

LEMMA SyncTypesNext ==
  ASSUME SyncInv, [SyncNext]_stripeSyncVars
  PROVE  SyncTypeOK'
<1>1. team' \in TeamStates /\ replaced' \in SUBSET Customers
  BY TeamStays
<1>2. subs' \in [Subscriptions -> SubStates] /\ version' \in Nat
  BY SubsStay
<1>3. checkout' \in [Checkouts -> CheckoutStates] /\ made' \in 0 .. MaxCustomers
  BY SessionsNext
<1>4. due' \in [Customers -> Nat]
  BY DueFrame
<1>5. handler' \in [Handlers -> HandlerStates]
  BY HandlersNext
<1> QED
  BY <1>1, <1>2, <1>3, <1>4, <1>5, RestTypes
     DEF SyncTypeOK, TeamStates, SubStates, CheckoutStates, HandlerStates, Customers,
         Subscriptions, Shown, Listing, SubscriptionStatus, Unread

LEMMA PaymentNext ==
  ASSUME SyncInv, [SyncNext]_stripeSyncVars
  PROVE  PaymentFindsTeam'
<1>1. /\ subs \in [Subscriptions -> SubStates] /\ PaymentFindsTeam /\ SubsInOrder
      /\ \A c \in Customers : c \in Known => c \in Known'
  BY TeamStays DEF SyncInv, SyncTypeOK, SubStates, PaymentIsKnown
<1>2. ASSUME NEW s \in Subscriptions, subs[s] # NoSub, subs'[s].customer = subs[s].customer
      PROVE  subs'[s].customer \in Known'
  <2>1. subs[s].customer \in Customers /\ subs[s].customer \in Known
    BY <1>1, <1>2 DEF SubsInOrder, PaymentFindsTeam, Known, SubStates
  <2> QED
    BY <1>1, <1>2, <2>1
<1>3. ASSUME NEW s \in Subscriptions, subs[s] = NoSub, subs'[s] # NoSub
      PROVE  subs'[s].customer \in Known'
  <2>1. PICK r \in Checkouts : Pay(r)
    <3>1. ASSUME NEW q \in Subscriptions, ChangeSubscription(q) PROVE subs'[s] = subs[s]
      BY <1>1, <1>3, <3>1, ChangeKeeps
    <3> QED
      BY <1>3, <3>1, SubsFrame
  <2>2. /\ checkout[r].customer \in Customers /\ checkout[r].customer \in Known
        /\ NextSub \in Subscriptions
        /\ subs' = [subs EXCEPT ![NextSub] =
             [customer |-> checkout[r].customer, plan |-> Wanted[r], status |-> "active"]]
    BY <2>1, PayMakes
  <2>3. subs'[s].customer = checkout[r].customer
    BY <1>1, <1>3, <2>2
  <2> QED
    BY <1>1, <2>2, <2>3
<1>4. \A s \in Subscriptions : subs'[s] # NoSub => subs'[s].customer \in Known'
  BY <1>2, <1>3, SubsStay
<1> QED
  BY <1>4 DEF PaymentFindsTeam, Known, Subscriptions, NoSub

(***************************************************************************)
(* While handlers have not crossed, the one whose step it is is alone:     *)
(* what is owed is what it is about to send.                               *)
(***************************************************************************)
LEMMA AloneNext ==
  ASSUME SyncInv, [SyncNext]_stripeSyncVars
  PROVE  OneAtATime' /\ ToldWhenPaid'
<1> DEFINE Confirming == { h \in Handlers : handler[h].pc = "confirming" }
           ConfirmingThen == { h \in Handlers : handler'[h].pc = "confirming" }
<1>1. /\ handler \in [Handlers -> HandlerStates] /\ OneAtATime /\ ToldWhenPaid
      /\ owed \in Int /\ crossed \in BOOLEAN /\ team \in TeamStates
      /\ handler' \in [Handlers -> HandlerStates]
  BY HandlersNext DEF SyncInv, SyncTypeOK, HandlerStates, TeamStates, PaymentIsKnown
<1>2. Cardinality({}) = 0 /\ \A h \in Handlers : Cardinality({h}) = 1
  BY FS_EmptySet, FS_Singleton
<1>3. ASSUME NEW h \in Handlers, HandlerStep(h) \/ HandlerFails(h), ~crossed'
      PROVE  OneAtATime' /\ owed' = Cardinality(ConfirmingThen)
  <2>h. handler[h] \in HandlerStates
    BY <1>1
  <2>1. ~crossed
    BY <1>1, <1>3, ZenonT(60)
       DEF HandlerStep, HandlerFails, Receive, ListSubscriptions, UpsertSubscription,
       UpdateTeam, SendConfirmation, Owe, historyVars
  <2>2. /\ handler' = [handler EXCEPT ![h] = handler'[h]]
        /\ \A g \in Handlers \ {h} : handler'[g] = handler[g]
    BY <1>1, <1>3, HandlerMoves
  <2>3. owed = Cardinality(Confirming)
    BY <2>1, <1>1 DEF ToldWhenPaid
  <2>4. ASSUME handler[h].pc # "idle"
        PROVE  \A g \in Handlers \ {h} : handler[g].pc = "idle" /\ handler'[g].pc = "idle"
    BY <1>1, <2>1, <2>2, <2>4 DEF OneAtATime
  <2>5. ASSUME handler[h].pc # "idle"
        PROVE  /\ Confirming = IF handler[h].pc = "confirming" THEN {h} ELSE {}
               /\ ConfirmingThen = IF handler'[h].pc = "confirming" THEN {h} ELSE {}
               /\ owed = IF handler[h].pc = "confirming" THEN 1 ELSE 0
    <3>1. /\ Confirming = IF handler[h].pc = "confirming" THEN {h} ELSE {}
          /\ ConfirmingThen = IF handler'[h].pc = "confirming" THEN {h} ELSE {}
      BY <2>4, <2>5
    <3> QED
      BY <1>2, <2>3, <3>1
  <2>6. ASSUME handler[h].pc # "idle",
               handler'[h].pc \in {"listing", "upserting", "updating"}
                 => handler'[h].was = TeamIsPaid'
        PROVE  OneAtATime'
    <3>1. \A g, k \in Handlers : handler'[g].pc # "idle" /\ handler'[k].pc # "idle" => g = k
      BY <2>4, <2>6
    <3>2. \A g \in Handlers : handler'[g].pc \in {"listing", "upserting", "updating"}
                                => handler'[g].was = TeamIsPaid'
      BY <2>4, <2>6
    <3> QED
      BY <3>1, <3>2 DEF OneAtATime
  <2>7. CASE Receive(h)
    <3>1. PICK c \in Customers :
            /\ handler[h].pc = "idle"
            /\ handler' = IF team.customer # c THEN handler ELSE
                 [handler EXCEPT ![h] = [@ EXCEPT !.pc = "listing", !.customer = c,
                                                  !.was = TeamIsPaid]]
            /\ crossed' = (crossed \/ (team.customer = c
                                       /\ \E g \in Handlers : handler[g].pc # "idle"))
      BY <2>7, ZenonT(60) DEF Receive
    <3>2. owed' = owed /\ TeamIsPaid' = TeamIsPaid
      BY <1>3, <2>7 DEF Receive, teamVars, TeamIsPaid
    <3>3. CASE team.customer # c
      <4>1. handler' = handler
        BY <3>1, <3>3
      <4>2. OneAtATime'
        BY <1>1, <2>1, <3>2, <4>1 DEF OneAtATime
      <4>3. ConfirmingThen = Confirming
        BY <4>1
      <4> QED
        BY <2>3, <3>2, <4>2, <4>3
    <3>4. CASE team.customer = c
      <4>1. \A g \in Handlers : handler[g].pc = "idle"
        BY <1>3, <3>1, <3>4
      <4>2. handler'[h] = [handler[h] EXCEPT !.pc = "listing", !.customer = c, !.was = TeamIsPaid]
        BY <1>1, <3>1, <3>4
      <4>3. handler'[h].pc = "listing" /\ handler'[h].was = TeamIsPaid
        BY <2>h, <4>2 DEF HandlerStates
      <4>4. \A g \in Handlers \ {h} : handler'[g].pc = "idle"
        BY <2>2, <4>1
      <4>5. Confirming = {} /\ ConfirmingThen = {}
        BY <4>1, <4>3, <4>4
      <4>6. OneAtATime'
        <5>1. \A g, k \in Handlers : handler'[g].pc # "idle" /\ handler'[k].pc # "idle" => g = k
          BY <4>4
        <5>2. \A g \in Handlers : handler'[g].pc \in {"listing", "upserting", "updating"}
                                    => handler'[g].was = TeamIsPaid'
          BY <3>2, <4>3, <4>4
        <5> QED
          BY <5>1, <5>2 DEF OneAtATime
      <4> QED
        BY <2>3, <3>2, <4>5, <4>6
    <3> QED
      BY <3>3, <3>4
  <2>8. CASE ListSubscriptions(h)
    <3>1. handler[h].pc = "listing" /\ owed' = owed /\ TeamIsPaid' = TeamIsPaid
      BY <2>8 DEF ListSubscriptions, teamVars, historyVars, TeamIsPaid
    <3>2. handler'[h] = [handler[h] EXCEPT !.pc = "upserting", !.seen = handler'[h].seen]
      BY <1>1, <2>8, SeenIsListing, ZenonT(60) DEF SyncInv
    <3>3. handler'[h].pc = "upserting" /\ handler'[h].was = handler[h].was
      BY <2>h, <3>2 DEF HandlerStates
    <3> QED
      BY <1>1, <1>2, <2>1, <2>5, <2>6, <3>1, <3>3 DEF OneAtATime
  <2>9. CASE UpsertSubscription(h)
    <3>1. handler[h].pc = "upserting" /\ owed' = owed /\ TeamIsPaid' = TeamIsPaid
          /\ handler'[h] = [handler[h] EXCEPT !.pc = "updating"]
      BY <1>1, <2>9 DEF UpsertSubscription, GoTo, TeamIsPaid
    <3>2. handler'[h].pc = "updating" /\ handler'[h].was = handler[h].was
      BY <2>h, <3>1 DEF HandlerStates
    <3> QED
      BY <1>1, <1>2, <2>1, <2>5, <2>6, <3>1, <3>2 DEF OneAtATime
  <2>10. CASE UpdateTeam(h)
    <3> DEFINE becomes == handler[h].seen.status = "active"
    <3>1. handler[h].pc = "updating" /\ handler[h].was = TeamIsPaid
      BY <1>1, <2>1, <2>10 DEF UpdateTeam, OneAtATime
    <3>2. owed' = owed + (IF ~TeamIsPaid /\ becomes THEN 1 ELSE 0)
      BY <2>1, <2>10 DEF UpdateTeam, Owe
    <3>3. IF ~handler[h].was /\ becomes THEN GoTo(h, "confirming") ELSE Return(h)
      BY <2>10 DEF UpdateTeam
    <3>4. handler'[h].pc = IF ~TeamIsPaid /\ becomes THEN "confirming" ELSE "idle"
      BY <1>1, <2>h, <3>1, <3>3 DEF GoTo, Return, IdleHandler, HandlerStates
    <3>5. OneAtATime'
      BY <2>6, <3>1, <3>4
    <3>6. owed = 0 /\ ConfirmingThen = IF handler'[h].pc = "confirming" THEN {h} ELSE {}
      BY <2>5, <3>1
    <3>7. CASE ~TeamIsPaid /\ becomes
      <4>1. owed' = 1 /\ ConfirmingThen = {h}
        BY <3>2, <3>4, <3>6, <3>7
      <4> QED
        BY <1>2, <3>5, <4>1
    <3>8. CASE ~(~TeamIsPaid /\ becomes)
      <4>1. owed' = 0 /\ ConfirmingThen = {}
        BY <3>2, <3>4, <3>6, <3>8
      <4> QED
        BY <1>2, <3>5, <4>1
    <3> QED
      BY <3>7, <3>8
  <2>11. CASE SendConfirmation(h)
    <3>1. handler[h].pc = "confirming" /\ owed' = owed - 1 /\ handler'[h].pc = "idle"
      BY <1>1, <2>1, <2>11 DEF SendConfirmation, Owe, Return, IdleHandler
    <3>2. OneAtATime'
      BY <2>6, <3>1
    <3>3. owed = 1 /\ ConfirmingThen = {}
      BY <2>5, <3>1
    <3>4. owed' = 0
      BY <3>1, <3>3
    <3> QED
      BY <1>2, <3>2, <3>3, <3>4
  <2>12. CASE HandlerFails(h)
    <3>1. handler[h].pc # "idle" /\ handler'[h].pc = "idle"
          /\ owed' = owed + (IF handler[h].pc = "confirming" THEN -1 ELSE 0)
      BY <1>1, <2>1, <2>12 DEF HandlerFails, Owe, Return, IdleHandler
    <3>2. OneAtATime'
      BY <2>6, <3>1
    <3>3. owed = (IF handler[h].pc = "confirming" THEN 1 ELSE 0) /\ ConfirmingThen = {}
      BY <2>5, <3>1
    <3>4. owed' = 0
      BY <3>1, <3>3
    <3> QED
      BY <1>2, <3>2, <3>3, <3>4
  <2> QED
    BY <1>3, <2>7, <2>8, <2>9, <2>10, <2>11, <2>12 DEF HandlerStep
<1>4. ASSUME NEW h \in Handlers, HandlerStep(h) \/ HandlerFails(h), crossed'
      PROVE  OneAtATime' /\ ToldWhenPaid'
  BY <1>4 DEF OneAtATime, ToldWhenPaid
<1>5. CASE /\ UNCHANGED << handler, crossed, owed >>
           /\ UNCHANGED team \/ \E r \in Checkouts : SaveCustomer(r)
  <2>1. TeamIsPaid' = TeamIsPaid
    <3>1. CASE \E r \in Checkouts : SaveCustomer(r)
      BY <1>1, <3>1 DEF SaveCustomer, TeamIsPaid, TeamStates
    <3> QED
      BY <1>5, <3>1 DEF TeamIsPaid
  <2> QED
    BY <1>1, <1>5, <2>1 DEF OneAtATime, ToldWhenPaid
<1> QED
  BY <1>3, <1>4, <1>5, HandlerFrame DEF ToldWhenPaid

LEMMA SyncInitially ==
  ASSUME SyncInit
  PROVE  SyncInv
<1> USE BoundsAssumption, NoneAssumption DEF SyncInit
<1>1. team \in TeamStates /\ replaced \in SUBSET Customers
  BY DEF TeamStates
<1>2. subs \in [Subscriptions -> SubStates] /\ version \in Nat
  BY DEF SubStates, NoSub
<1>3. checkout \in [Checkouts -> CheckoutStates] /\ made \in 0 .. MaxCustomers
  BY DEF CheckoutStates
<1>4. due \in [Customers -> Nat]
  OBVIOUS
<1>5. handler \in [Handlers -> HandlerStates]
  BY DEF HandlerStates, IdleHandler
<1>r. faults \in Nat /\ owed \in Int
  OBVIOUS
<1>c. crossed \in BOOLEAN
  OBVIOUS
<1>t. stale \in SUBSET Shown
  OBVIOUS
<1>s. rows \in [Subscriptions -> SubscriptionStatus \cup {"none"}]
  OBVIOUS
<1>l. latest \in [Shown -> Nat]
  OBVIOUS
<1>6. SyncTypeOK
  BY <1>1, <1>2, <1>3, <1>4, <1>5, <1>r, <1>c, <1>s, <1>t, <1>l DEF SyncTypeOK, TeamStates, SubStates, CheckoutStates, HandlerStates
<1>7. SessionsKnown /\ SubsInOrder /\ EventsHaveSub /\ HandlersHaveSub /\ OneAtATime
  BY DEF SessionsKnown, SubsInOrder, EventsHaveSub, HandlersHaveSub, OneAtATime, IdleHandler, NoSub
<1>8. PaymentIsKnown
  <2>1. { h \in Handlers : handler[h].pc = "confirming" } = {}
    BY DEF IdleHandler
  <2>2. ToldWhenPaid
    BY <2>1, FS_EmptySet DEF ToldWhenPaid
  <2> QED
    BY <2>2 DEF PaymentIsKnown, PaymentFindsTeam
<1> QED
  BY <1>6, <1>7, <1>8 DEF SyncInv

LEMMA SyncInductive ==
  ASSUME SyncInv, [SyncNext]_stripeSyncVars
  PROVE  SyncInv'
BY SyncTypesNext, SessionsNext, SubsStay, EventsNext, HandlersNext, AloneNext, PaymentNext
   DEF SyncInv, PaymentIsKnown

-----------------------------------------------------------------------------
(* The two under the registry. *)

\* A checkout that another gateway takes is over for Stripe.
LEMMA OtherGateway ==
  ASSUME SyncInv, NEW r \in Checkouts, FileRequest(r) \/ RefuseCheckout(r)
  PROVE  SyncInv' /\ UNCHANGED vars
<1>1. /\ UNCHANGED << team, rows, subs, version, made, due, handler, faults, owed, latest, stale,
                      crossed, replaced, vars >>
      /\ checkout' = [checkout EXCEPT ![r] = Over]
  BY DEF FileRequest, RefuseCheckout, teamVars, stripeVars, historyVars
<1>2. /\ SyncTypeOK /\ SubsInOrder /\ EventsHaveSub /\ HandlersHaveSub
      /\ OneAtATime /\ PaymentIsKnown /\ SessionsKnown
  BY DEF SyncInv
<1>3. checkout \in [Checkouts -> CheckoutStates] /\ Over \in CheckoutStates
  BY <1>2 DEF SyncTypeOK, CheckoutStates, Over
<1>4. checkout' \in [Checkouts -> CheckoutStates]
  BY <1>1, <1>3
<1>5. SyncTypeOK'
  BY <1>1, <1>2, <1>4 DEF SyncTypeOK, CheckoutStates
<1>6. SessionsKnown'
  BY <1>1, <1>2, <1>3 DEF SessionsKnown, Known, Over
<1>7. SubsInOrder' /\ EventsHaveSub' /\ HandlersHaveSub' /\ OneAtATime' /\ PaymentIsKnown'
  BY <1>1, <1>2 DEF SubsInOrder, EventsHaveSub, SubsOf, HandlersHaveSub, OneAtATime, TeamIsPaid,
     PaymentIsKnown, PaymentFindsTeam, ToldWhenPaid
<1> QED
  BY <1>1, <1>5, <1>6, <1>7 DEF SyncInv

LEMMA BillingSteps ==
  ASSUME [BillingNext]_billingVars
  PROVE  \/ [SyncNext]_stripeSyncVars /\ [Next]_vars
         \/ \E r \in Checkouts : FileRequest(r) \/ RefuseCheckout(r)
<1>1. CASE Stripe
  BY <1>1 DEF Stripe
<1>2. CASE DrawNumber
  BY <1>2 DEF DrawNumber
<1>3. ASSUME NEW r \in Checkouts, AskCheckout(r) /\ UNCHANGED << registryVars, vars >>
      PROVE  SyncNext /\ UNCHANGED vars
  BY <1>3 DEF SyncNext, CheckoutStep
<1>4. CASE UNCHANGED billingVars
  BY <1>4 DEF billingVars
<1> QED
  BY <1>1, <1>2, <1>3, <1>4 DEF BillingNext, Checkout

\* Whatever gateway is the default, a payment made with Stripe is the team's
\* and is told once, and the numbers of the invoices stay close to their rows:
\* what createCheckoutSession, syncStripeDataForCustomer and createWithNumber
\* keep between them, for any number of each.
THEOREM PaymentIsAlwaysKnown == BillingSpec => []PaymentIsKnown
<1>1. BillingInit => SyncInv
  BY SyncInitially DEF BillingInit
<1>2. SyncInv /\ [BillingNext]_billingVars => SyncInv'
  BY BillingSteps, OtherGateway, SyncInductive
<1>3. SyncInv => PaymentIsKnown
  BY DEF SyncInv
<1> QED
  BY <1>1, <1>2, <1>3, PTL DEF BillingSpec

\* What holds of the numbering holds of it here: no step of another part draws
\* a number or deletes an invoice.
THEOREM BillingKeepsNumbers == BillingSpec => []NumbersHold
<1>1. BillingInit => NumInv
  BY NumInit DEF BillingInit
<1>2. NumInv /\ [BillingNext]_billingVars => NumInv'
  <2> SUFFICES ASSUME NumInv, [BillingNext]_billingVars PROVE NumInv'
    OBVIOUS
  <2>1. [Next]_vars
    BY BillingSteps DEF FileRequest, RefuseCheckout
  <2> QED
    BY <2>1, NumStep
<1>3. NumInv => NumbersHold
  BY AloneIsNotFailed DEF NumbersHold, FailedWasContended, NumInv, NumTypeOK
<1> QED
  BY <1>1, <1>2, <1>3, PTL DEF BillingSpec
=============================================================================
