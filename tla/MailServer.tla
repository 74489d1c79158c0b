----------------------------- MODULE MailServer -----------------------------
(***************************************************************************)
(* The SMTP server: it turns each transaction of a mail client into one    *)
(* request to the API, and reloads its certificate when a file of it       *)
(* changes.  A mail is one for the client, which may split its recipients  *)
(* over several transactions; each carries the same headers, so the        *)
(* envelope alone tells them apart.  The request's fields are texts: To as  *)
(* it was written, and the API looks up each text as one address in the    *)
(* list of suppressed ones.                                                *)
(*                                                                         *)
(* An address stands for its spellings: normalize makes them one.  The API *)
(* is what sendEmail makes of the three fields; the rest of it is in       *)
(* EmailPipeline and PublicApi.  lost, blind and mailed are history.       *)
(***************************************************************************)
EXTENDS FiniteSets, Naturals

CONSTANTS
  Addresses,  \* people a mail may be to
  MaxLost,    \* bound: transactions whose answer does not reach the client
  MaxRenewals \* bound: certificates issued after the first

ASSUME MailServerAssumption ==
  IsFiniteSet(Addresses) /\ MaxLost \in Nat /\ MaxRenewals \in Nat

VARIABLES
  mail,       \* [to, cc, hidden: its recipients; named: To gives a name, if only of a group; leaked: it has a Bcc header]
  suppressed, \* the team's suppressed addresses
  todo,       \* transactions the client has still to see accepted, each its recipients
  session,    \* the transaction under way: [pc, rcpts, fields]
  mailed,     \* mailed[a]: requests taken on that mail a
  lost,       \* transactions taken on whose answer was lost
  blind       \* the list could not be read, so nobody was left out
smtpVars == << mail, suppressed, todo, session, mailed, lost, blind >>

VARIABLES
  file,       \* file[f]: the certificate the file is of; 0 at first
  watched,    \* files whose changes are still seen
  changed,    \* files whose change is still to be acted on
  read,       \* the key a reload has read, or NotRead
  served      \* served[f]: what connections are made with
certVars == << file, watched, changed, read, served >>

NoFields == [to |-> {}, cc |-> {}, bcc |-> {}]
NoSession == [pc |-> "none", rcpts |-> {}, fields |-> NoFields]
Everyone(m) == m.to \cup m.cc \cup m.hidden

MailTypeOK ==
  /\ session.pc \in {"none", "data", "api", "taken", "refused"}
  /\ session.rcpts \subseteq Addresses /\ todo \subseteq SUBSET Addresses
  /\ \A a \in Addresses : mailed[a] \in Nat
  /\ lost \in 0 .. MaxLost /\ blind \in BOOLEAN

MailInit ==
  /\ mail \in [to: SUBSET Addresses, cc: SUBSET Addresses, hidden: SUBSET Addresses,
               named: BOOLEAN, leaked: BOOLEAN]
  /\ mail.to \cap mail.cc = {} /\ mail.hidden \cap (mail.to \cup mail.cc) = {}
  /\ Everyone(mail) # {}
  /\ mail.leaked => mail.hidden # {}
  /\ suppressed \in SUBSET Everyone(mail)
  /\ todo \in { {Everyone(mail)}, { {a} : a \in Everyone(mail) } }
  /\ session = NoSession /\ mailed = [a \in Addresses |-> 0]
  /\ lost = 0 /\ blind = FALSE

-----------------------------------------------------------------------------
(* One transaction. *)

\* The client has logged in with the API key as its password.
Transact ==
  /\ session.pc = "none"
  /\ \E t \in todo : session' = [NoSession EXCEPT !.pc = "data", !.rcpts = t]
  /\ UNCHANGED << mail, suppressed, todo, mailed, lost, blind >>

\* Mutant of resolveRecipients: whoever is in the envelope goes to bcc.
EnvelopeToBcc(m, rcpts) ==
  [to |-> m.to, cc |-> m.cc, bcc |-> (IF m.leaked THEN m.hidden ELSE {}) \cup rcpts]

\* Whoever is of the envelope or a Bcc header and in neither To nor Cc.
resolveRecipients(m, rcpts) ==
  [to |-> m.to, cc |-> m.cc,
   bcc |-> ((IF m.leaked THEN m.hidden ELSE {}) \cup rcpts) \ (m.to \cup m.cc)]

onData ==
  /\ session.pc = "data"
  /\ session' = [session EXCEPT !.pc = "api", !.fields = resolveRecipients(mail, session.rcpts)]
  /\ UNCHANGED << mail, suppressed, todo, mailed, lost, blind >>

\* A field is looked up as one text: a list of addresses, and an address beside
\* a name, are on nobody's list.
LeftOut(field, named) ==
  IF Cardinality(field) = 1 /\ ~ named /\ field \subseteq suppressed THEN field ELSE {}

\* Mutant of Spared: only To is looked up.
SparedTo(fields) == [fields EXCEPT !.to = @ \ LeftOut(@, mail.named)]

Spared(fields) ==
  [to |-> fields.to \ LeftOut(fields.to, mail.named),
   cc |-> fields.cc \ LeftOut(fields.cc, FALSE),
   bcc |-> fields.bcc \ LeftOut(fields.bcc, FALSE)]
Copies(fields, a) == Cardinality({ f \in {"to", "cc", "bcc"} : a \in fields[f] })

\* A mail without To is refused.  One whose To is suppressed is taken on and
\* sent to nobody.  If the list cannot be read nobody is held to be on it.
sendEmail ==
  LET left == Spared(session.fields)
      to == session.fields.to IN
  /\ session.pc = "api"
  /\ IF to = {} /\ ~ mail.named
     THEN session' = [session EXCEPT !.pc = "refused"] /\ UNCHANGED << mailed, blind >>
     ELSE /\ session' = [session EXCEPT !.pc = "taken"]
          /\ \/ /\ mailed' = [a \in Addresses |->
                     mailed[a] + IF left.to = {} /\ to # {} THEN 0 ELSE Copies(left, a)]
                /\ UNCHANGED blind
             \/ /\ mailed' = [a \in Addresses |-> mailed[a] + Copies(session.fields, a)]
                /\ blind' = TRUE
  /\ UNCHANGED << mail, suppressed, todo, lost >>

\* Mutant of ApiAnswered: the client is answered before the API has.
AnsweredAtOnce == session.pc \in {"api", "taken"}
ApiAnswered == session.pc = "taken"

\* 250 once the API has answered so, and an error the client tries again after
\* otherwise.
Answer ==
  /\ \/ ApiAnswered /\ todo' = todo \ {session.rcpts}
     \/ session.pc = "refused" /\ UNCHANGED todo
  /\ session' = NoSession
  /\ UNCHANGED << mail, suppressed, mailed, lost, blind >>

\* The API's answer or the server's is lost, or the server is shut down, which
\* waits for nobody.  Nothing tells a second try of the mail from a first.
AnswerLost ==
  /\ session.pc # "none" /\ lost < MaxLost
  /\ session' = NoSession
  /\ lost' = lost + IF session.pc = "taken" THEN 1 ELSE 0
  /\ UNCHANGED << mail, suppressed, todo, mailed, blind >>

MailNext == Transact \/ onData \/ sendEmail \/ Answer \/ AnswerLost

-----------------------------------------------------------------------------
(* The certificate. *)

Files == {"key", "cert"}
NotRead == MaxRenewals + 1

CertInit ==
  /\ file = [f \in Files |-> 0] /\ served = file
  /\ watched = Files /\ changed = {} /\ read = NotRead

\* A renewal writes one file after the other: over what is there, or anew and
\* in its place; a watch stays with the file it was set on.
Renew(f) ==
  /\ file[f] < MaxRenewals /\ \A g \in Files : file[f] <= file[g]
  /\ file' = [file EXCEPT ![f] = @ + 1]
  /\ changed' = changed \cup ({f} \cap watched)
  /\ watched' \in {watched, watched \ {f}}
  /\ UNCHANGED << read, served >>

\* reloadCertificates, which reads the key and then the certificate.
ReadKey(f) ==
  /\ f \in changed /\ read = NotRead
  /\ changed' = changed \ {f} /\ read' = file["key"]
  /\ UNCHANGED << file, watched, served >>

\* Mutant of Installed: what was read is kept whether it fits or not.
InstalledUnfit(k, c) == served' = [key |-> k, cert |-> c]

\* A key and a certificate that do not fit throw, which is caught and logged.
Installed(k, c) == IF k = c THEN served' = [key |-> k, cert |-> c] ELSE UNCHANGED served
ReadCert ==
  /\ read # NotRead /\ read' = NotRead
  /\ Installed(read, file["cert"])
  /\ UNCHANGED << file, watched, changed >>

\* The server is started again; with files that do not fit it does not start.
RestartServer ==
  /\ file["key"] = file["cert"]
  /\ served' = file /\ watched' = Files /\ changed' = {} /\ read' = NotRead
  /\ UNCHANGED file

CertNext == (\E f \in Files : Renew(f) \/ ReadKey(f)) \/ ReadCert \/ RestartServer

-----------------------------------------------------------------------------
(* Properties. *)

\* What the client holds to be sent has been: once it has seen every
\* transaction accepted, everyone of the mail was mailed but those on the
\* list, or nobody was since To was all on it.
SentIsSent ==
  todo = {} => \/ \A a \in Everyone(mail) \ suppressed : mailed[a] > 0
               \/ /\ mail.to # {} /\ mail.to \subseteq suppressed
                  /\ blind \/ \A a \in Addresses : mailed[a] = 0

\* A person not in To or Cc is mailed once, however the mail was split, and the
\* others once for each transaction; more only where an answer was lost.
TwiceIfLost ==
  LET split == Cardinality(Everyone(mail)) IN
  \A a \in Addresses :
    mailed[a] <= lost + (IF a \in mail.hidden /\ ~ mail.leaked THEN 1 ELSE split)

\* Somebody on the list is mailed only where a field is not one address alone,
\* or the list could not be read.
SuppressedAreSpared ==
  \A a \in suppressed : mailed[a] > 0 =>
    \/ blind
    \/ a \in mail.to /\ (mail.named \/ Cardinality(mail.to) > 1)
    \/ a \in mail.cc /\ Cardinality(mail.cc) > 1
    \/ a \in mail.hidden /\ Cardinality(mail.hidden) > 1

\* Connections are made with a key and a certificate that fit, and with the
\* newest once its files were acted on, if both are still watched.
CertificateFits ==
  /\ served["key"] = served["cert"]
  /\ watched = Files /\ changed = {} /\ read = NotRead /\ file["key"] = file["cert"]
       => served = file

MailServerHolds ==
  MailTypeOK /\ SentIsSent /\ TwiceIfLost /\ SuppressedAreSpared /\ CertificateFits
=============================================================================
