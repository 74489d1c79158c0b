------------------------------- MODULE Billing -------------------------------
(***************************************************************************)
(* The payment gateways of a deployment (payments/gateway-registry.ts) and *)
(* what a checkout leads to.  The default gateway decides: Stripe opens a  *)
(* session and tells of the subscription (StripeSync); the manual gateway  *)
(* files an activation request, and operators' approvals draw the numbers  *)
(* of invoices (InvoiceNumbering); dLocal Go is a stub that refuses every  *)
(* checkout.                                                               *)
(*                                                                         *)
(* The operator does not change the default while the model runs, and      *)
(* where it is Stripe no invoices are drawn: the two touch no common row.  *)
(***************************************************************************)
EXTENDS StripeSync, InvoiceNumbering

Providers == { "STRIPE", "MANUAL", "DLOCALGO" }

VARIABLES
  default, \* the provider of the row with isDefault and isActive, or "none"
  filed    \* the plans with a PENDING request of the team

registryVars == << default, filed >>
billingVars == << registryVars, stripeSyncVars, vars >>

BillingInit ==
  /\ SyncInit /\ Init
  /\ default \in Providers \cup {"none"}
  /\ filed = {}

\* getActiveGateway: without a default, the manual gateway.
ActiveGateway == IF default = "none" THEN "MANUAL" ELSE default

\* ManualGateway's createCheckoutSession: a request there is already is
\* answered again.
FileRequest(r) ==
  /\ ActiveGateway = "MANUAL"
  /\ checkout[r].pc = "asked"
  /\ filed' = filed \cup {Wanted[r]}
  /\ checkout' = [checkout EXCEPT ![r] = Over]
  /\ UNCHANGED << default, teamVars, stripeVars, due, handler, faults, historyVars, vars >>

\* DlocalGoGateway's createCheckoutSession throws NotImplementedError.
RefuseCheckout(r) ==
  /\ ActiveGateway = "DLOCALGO"
  /\ checkout[r].pc = "asked"
  /\ checkout' = [checkout EXCEPT ![r] = Over]
  /\ UNCHANGED << registryVars, teamVars, stripeVars, due, handler, faults,
                  historyVars, vars >>

Checkout(r) ==
  \/ AskCheckout(r) /\ UNCHANGED << registryVars, vars >>
  \/ FileRequest(r) \/ RefuseCheckout(r)

Stripe ==
  /\ ActiveGateway = "STRIPE"
  /\ SyncNext
  /\ UNCHANGED << registryVars, vars >>

\* Approvals, and the renewals and reminders that follow, need a request.
DrawNumber ==
  /\ filed # {}
  /\ Next
  /\ UNCHANGED << registryVars, stripeSyncVars >>

BillingNext == Stripe \/ DrawNumber \/ \E r \in Checkouts : Checkout(r)

\* Stripe delivers until it is answered, and handlers go on.
BillingSpec ==
  /\ BillingInit /\ [][BillingNext]_billingVars
  /\ WF_billingVars(\E h \in Handlers : HandlerStep(h) /\ UNCHANGED << registryVars, vars >>)
=============================================================================
