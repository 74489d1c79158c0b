------------------------- MODULE MCWebhookDispatch -------------------------
(* An instance of WebhookDispatch, and beside it what stands at the ends of *)
(* a team's connections: WebhookSignature, the receiver of its webhook, and *)
(* MailServer, of which a behaviour follows a mail or the certificate.      *)
(* They share no state and a behaviour follows one of them.                 *)
EXTENDS WebhookDispatch, MailServer, WebhookSignature

NoMailYet ==
  /\ mail = [to |-> Addresses, cc |-> {}, hidden |-> {}, named |-> FALSE, leaked |-> FALSE]
  /\ suppressed = {} /\ todo = {Addresses} /\ session = NoSession /\ lost = 0
  /\ \A a \in Addresses : mailed[a] = 0
NoPostYet == skew = 0 /\ tolerance = 1 /\ clock = 0 /\ secret = 0 /\ tries = 0

NoMailStep == NoMailYet /\ UNCHANGED smtpVars
NoRenewal == file = [f \in Files |-> 0] /\ UNCHANGED certVars
NoPostStep == NoPostYet /\ UNCHANGED signatureVars
NoCallStep == (\A c \in Calls : call[c].status = "none") /\ UNCHANGED webhookVars

SomeSkews == {-1, 0}
SomeTolerances == {-1, 1}

ConnectionsInit ==
  /\ DispatchInit /\ MailInit /\ CertInit /\ SignatureInit
  /\ NoMailYet \/ NoPostYet
ConnectionsNext ==
  \/ NoMailStep /\ NoRenewal /\ NoPostStep /\ WebhookNext
  \/ NoCallStep /\ NoRenewal /\ NoPostStep /\ MailNext
  \/ NoCallStep /\ NoMailStep /\ NoPostStep /\ CertNext
  \/ NoCallStep /\ NoMailStep /\ NoRenewal /\ SignatureNext
ConnectionsSpec ==
  /\ ConnectionsInit
  /\ [][ConnectionsNext]_<< webhookVars, smtpVars, certVars, signatureVars >>
  /\ WebhookFairness

-----------------------------------------------------------------------------
(* A property. *)

\* Everybody of a mail handed to the SMTP server is mailed, its certificate
\* fits, and a webhook's receiver takes what was signed for it.
ConnectionsHold == MailServerHolds /\ ReceiverHolds
============================================================================
