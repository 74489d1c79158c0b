------------------------- MODULE ContactSubscription -------------------------
(***************************************************************************)
(* Whether one email address is subscribed to the contact books of a team: *)
(* imports and upserts (contact-service.ts, run by the twenty workers of    *)
(* contact-queue-service.ts or by API requests), operators' edits, the      *)
(* double opt-in confirmation (double-opt-in-service.ts), the unsubscribe   *)
(* and subscribe links of campaigns (campaign-service.ts), and bounces and  *)
(* complaints (checkUnsubscribe of ses-hook-parser.ts).                     *)
(*                                                                         *)
(* Every operation is one action per database round trip.  Left out: names *)
(* and properties, webhooks, the campaigns' unsubscribed counters, and     *)
(* expiry of links, since an expired link does nothing.                    *)
(***************************************************************************)
EXTENDS Naturals, FiniteSets

CONSTANTS
    Books,
    DoubleOptIn,    \* the books with doubleOptInEnabled
    Procs,          \* workers and requests
    BounceReasons,  \* why SES may give an address up
    MaxIds,         \* bound: the rows of the contact ever made, in all books
    MaxLost         \* bound: crashes and mails that fail

ASSUME ContactAssumption ==
    /\ Books # {} /\ DoubleOptIn \subseteq Books
    /\ BounceReasons \subseteq {"BOUNCED", "COMPLAINED"}
    /\ MaxIds \in Nat /\ MaxLost \in Nat

VARIABLES
    contact,    \* the row of the address in each book; id 0 if there is none
    made,       \* how many rows each book has had
    proc,       \* what each process is doing
    sent,       \* the rows a confirmation link was mailed to
    lost,       \* crashes and lost mails so far
    optedOut,   \* history: books whose row was unsubscribed, and by nobody resubscribed
    consented,  \* history: books whose row was confirmed, or subscribed by hand
    mailed,     \* history: the rows that were subscribed once
    overtaken,  \* history: books where a write was decided from an older row
    overlapped  \* history: operations were under way at once

vars == <<contact, made, proc, sent, lost, optedOut, consented, mailed, overtaken, overlapped>>
history == <<optedOut, consented, mailed, overtaken>>

Nobody == [id |-> 0, subscribed |-> FALSE, reason |-> "none"]
Exists(b, id) == id # 0 /\ contact[b].id = id
Pending(row) == row.id # 0 /\ ~row.subscribed /\ row.reason = "none"

Idle == [op |-> "none", step |-> "idle", book |-> CHOOSE b \in Books : TRUE,
         id |-> 0, was |-> Nobody, want |-> "unset", reason |-> "none", todo |-> {}]

ContactInit ==
    /\ contact = [b \in Books |-> Nobody]
    /\ made = [b \in Books |-> 0]
    /\ proc = [p \in Procs |-> Idle]
    /\ sent = {} /\ lost = 0
    /\ optedOut = {} /\ consented = {} /\ mailed = {}
    /\ overtaken = {} /\ overlapped = FALSE

Begin(p, to) ==
    /\ proc[p] = Idle
    /\ overlapped' = (overlapped \/ \E q \in Procs : proc[q] # Idle)
    /\ proc' = [proc EXCEPT ![p] = to]
    /\ UNCHANGED <<contact, made, sent, lost, history>>

Made == {bi \in Books \X (1..MaxIds) : bi[2] <= made[bi[1]]}
AtStep(p, step) == proc[p].step = step
Return(p) == proc' = [proc EXCEPT ![p] = Idle]

\* Writes a row, and keeps the history of the book.
Save(b, row) ==
    /\ contact' = [contact EXCEPT ![b] = row]
    /\ mailed' = IF row.subscribed THEN mailed \cup {<<b, row.id>>} ELSE mailed

-----------------------------------------------------------------------------
(* addOrUpdateContact                                                      *)

Import(p, b, want) ==
    Begin(p, [Idle EXCEPT !.op = "import", !.step = "read", !.book = b, !.want = want])

\* The contact is read ...
ReadExisting(p) ==
    /\ AtStep(p, "read")
    /\ proc' = [proc EXCEPT ![p].was = contact[proc[p].book], ![p].step = "upsert"]
    /\ UNCHANGED <<contact, made, sent, lost, history>>

\* Mutant of SubscribedValue: an import may subscribe anybody.
SubscribedValueAny(want, was) == want

\* ... what to write is decided from what was read: no import subscribes
\* whom it found unsubscribed, and a new contact of a double opt-in book is
\* pending ...
SubscribedValue(want, was) ==
    IF was.id # 0 /\ ~was.subscribed /\ want = "true" THEN "unset" ELSE want

\* Mutant of Created: an import that says so subscribes at once.
CreatedAtOnce(b, want, was) ==
    LET pending == b \in DoubleOptIn /\ was.id = 0 /\ want = "unset"
    IN  [id |-> made[b] + 1,
         subscribed |-> ~pending /\ want # "false",
         reason |-> IF want = "false" THEN "UNSUBSCRIBED" ELSE "none"]

Created(b, want, was) ==
    LET pending == b \in DoubleOptIn /\ was.id = 0 /\ want # "false"
    IN  [id |-> made[b] + 1,
         subscribed |-> ~pending /\ want # "false",
         reason |-> IF want = "false" THEN "UNSUBSCRIBED" ELSE "none"]

\* Mutant of Updated: the reason is left as it is.
UpdatedNoReason(b, want) ==
    IF want = "unset" THEN contact[b]
    ELSE [contact[b] EXCEPT !.subscribed = want = "true"]

Updated(b, want) ==
    IF want = "unset" THEN contact[b]
    ELSE [contact[b] EXCEPT !.subscribed = want = "true",
                            !.reason = IF want = "true" THEN "none" ELSE "UNSUBSCRIBED"]

\* Mutant of ShouldConfirm: only an import that says so mails a link.
ShouldConfirmTrue(b, want, was) ==
    b \in DoubleOptIn /\ want = "true" /\ (was.id = 0 \/ Pending(was))

ShouldConfirm(b, want, was) ==
    b \in DoubleOptIn /\ want # "false" /\ (was.id = 0 \/ Pending(was))

\* ... and the upsert creates the row or updates it, as it finds it now.
Upsert(p) ==
    LET b    == proc[p].book
        want == proc[p].want
        was  == proc[p].was
        new  == contact[b].id = 0
        row  == IF new THEN Created(b, want, was)
                       ELSE Updated(b, SubscribedValue(want, was))
    IN  /\ AtStep(p, "upsert")
        /\ new => Cardinality(Made) < MaxIds
        /\ Save(b, row)
        /\ made' = IF new THEN [made EXCEPT ![b] = @ + 1] ELSE made
        /\ optedOut' = IF want = "false" THEN optedOut \cup {b}
                       ELSE IF new THEN optedOut \ {b} ELSE optedOut
        /\ consented' = IF new THEN consented \ {b} ELSE consented
        /\ overtaken' = IF was = contact[b] THEN overtaken ELSE overtaken \cup {b}
        /\ IF ShouldConfirm(b, want, was)
           THEN proc' = [proc EXCEPT ![p].id = row.id, ![p].step = "mail"]
           ELSE Return(p)
        /\ UNCHANGED <<sent, lost>>

\* sendDoubleOptInConfirmationEmail; the caller only logs its errors.
SendConfirmation(p) ==
    /\ AtStep(p, "mail")
    /\ sent' = IF Exists(proc[p].book, proc[p].id)
               THEN sent \cup {<<proc[p].book, proc[p].id>>} ELSE sent
    /\ Return(p)
    /\ UNCHANGED <<contact, made, lost, history>>

ConfirmationFails(p) ==
    /\ AtStep(p, "mail") /\ lost < MaxLost
    /\ lost' = lost + 1
    /\ Return(p)
    /\ UNCHANGED <<contact, made, sent, history>>

\* resendDoubleOptInConfirmationInContactBook, for a pending contact.
Resend(p, b) ==
    /\ Pending(contact[b])
    /\ Begin(p, [Idle EXCEPT !.op = "resend", !.step = "mail", !.book = b,
                            !.id = contact[b].id])

-----------------------------------------------------------------------------
(* Operators' edits                                                        *)

\* updateContactInContactBook and deleteContactInContactBook find the row ...
Edit(p, b, op, want) ==
    /\ contact[b].id # 0
    /\ Begin(p, [Idle EXCEPT !.op = op, !.step = op, !.book = b,
                            !.id = contact[b].id, !.want = want])

\* ... and write it, if it is still there.
WriteUpdate(p) ==
    LET b  == proc[p].book
        on == proc[p].want = "true"
    IN  /\ AtStep(p, "update")
        /\ IF Exists(b, proc[p].id)
           THEN /\ Save(b, Updated(b, proc[p].want))
                /\ optedOut' = IF on THEN optedOut \ {b} ELSE optedOut \cup {b}
                /\ consented' = IF on THEN consented \cup {b} ELSE consented
                /\ UNCHANGED overtaken
           ELSE UNCHANGED <<contact, history>>
        /\ Return(p)
        /\ UNCHANGED <<made, sent, lost>>

WriteDelete(p) ==
    LET b == proc[p].book
    IN  /\ AtStep(p, "delete")
        /\ IF Exists(b, proc[p].id)
           THEN /\ contact' = [contact EXCEPT ![b] = Nobody]
                /\ optedOut' = optedOut \ {b} /\ consented' = consented \ {b}
                /\ overtaken' = overtaken \ {b}
           ELSE UNCHANGED <<contact, optedOut, consented, overtaken>>
        /\ Return(p)
        /\ UNCHANGED <<made, sent, lost, mailed>>

-----------------------------------------------------------------------------
(* Links, bounces and complaints                                           *)

\* unsubscribeContact finds a row that is subscribed ...
Unsubscribe(p, b, id) ==
    /\ Exists(b, id) /\ contact[b].subscribed
    /\ Begin(p, [Idle EXCEPT !.op = "unsubscribe", !.step = "optOut", !.book = b,
                            !.id = id, !.reason = "UNSUBSCRIBED"])

\* ... and unsubscribes it.
WriteOptOut(p) ==
    LET b == proc[p].book
    IN  /\ AtStep(p, "optOut")
        /\ IF Exists(b, proc[p].id)
           THEN /\ Save(b, [contact[b] EXCEPT !.subscribed = FALSE,
                                              !.reason = proc[p].reason])
                /\ optedOut' = optedOut \cup {b}
           ELSE UNCHANGED <<contact, optedOut, mailed>>
        /\ IF proc[p].todo = {} THEN Return(p)
           ELSE proc' = [proc EXCEPT ![p].step = "spread"]
        /\ UNCHANGED <<made, sent, lost, consented, overtaken>>

\* Mutant of Bounce: only the row the mail went to.
BounceOne(p, b, id, reason) ==
    /\ Exists(b, id)
    /\ Begin(p, [Idle EXCEPT !.op = "bounce", !.step = "spread", !.reason = reason,
                            !.todo = {<<b, id>>}])

\* checkUnsubscribe lists the rows of the address in all books of the team.
Bounce(p, b, id, reason) ==
    /\ Exists(b, id)
    /\ Begin(p, [Idle EXCEPT !.op = "bounce", !.step = "spread", !.reason = reason,
                    !.todo = {<<c, contact[c].id>> :
                                c \in {d \in Books : contact[d].id # 0}}])

\* unsubscribeContact for each of them, which passes over rows that are gone
\* or not subscribed.
Spread(p) ==
    /\ AtStep(p, "spread")
    /\ \E bi \in proc[p].todo :
          LET rest == proc[p].todo \ {bi}
          IN  IF Exists(bi[1], bi[2]) /\ contact[bi[1]].subscribed
              THEN proc' = [proc EXCEPT ![p].step = "optOut", ![p].book = bi[1],
                                        ![p].id = bi[2], ![p].todo = rest]
              ELSE IF rest = {} THEN Return(p)
              ELSE proc' = [proc EXCEPT ![p].todo = rest]
    /\ UNCHANGED <<contact, made, sent, lost, history>>

\* subscribeContact, from the page of a campaign's unsubscribe link.
Resubscribe(p, b, id) ==
    /\ Exists(b, id) /\ ~contact[b].subscribed
    /\ Begin(p, [Idle EXCEPT !.op = "resubscribe", !.step = "optIn", !.book = b,
                            !.id = id])

\* confirmDoubleOptInSubscription, for a row that is pending.
Confirm(p, b, id) ==
    /\ Exists(b, id) /\ Pending(contact[b])
    /\ Begin(p, [Idle EXCEPT !.op = "confirm", !.step = "optIn", !.book = b,
                            !.id = id])

\* Mutant of WriteOptIn: the reason is left as it is.
WriteOptInNoReason(p) ==
    LET b == proc[p].book
    IN  /\ AtStep(p, "optIn")
        /\ IF Exists(b, proc[p].id)
           THEN /\ Save(b, [contact[b] EXCEPT !.subscribed = TRUE])
                /\ consented' = consented \cup {b} /\ optedOut' = optedOut \ {b}
                /\ UNCHANGED overtaken
           ELSE UNCHANGED <<contact, history>>
        /\ Return(p)
        /\ UNCHANGED <<made, sent, lost>>

\* Both subscribe the row, if it is still there.
WriteOptIn(p) ==
    LET b == proc[p].book
    IN  /\ AtStep(p, "optIn")
        /\ IF Exists(b, proc[p].id)
           THEN /\ Save(b, [contact[b] EXCEPT !.subscribed = TRUE, !.reason = "none"])
                /\ consented' = consented \cup {b}
                /\ optedOut' = IF proc[p].op = "resubscribe" THEN optedOut \ {b}
                               ELSE optedOut
                /\ overtaken' = IF proc[p].op = "resubscribe" \/ Pending(contact[b])
                                THEN overtaken ELSE overtaken \cup {b}
           ELSE UNCHANGED <<contact, history>>
        /\ Return(p)
        /\ UNCHANGED <<made, sent, lost>>

-----------------------------------------------------------------------------

\* A process dies: a request is lost, a job of the import queue is taken up
\* again by another worker.
Dies(p) ==
    /\ proc[p] # Idle /\ lost < MaxLost
    /\ lost' = lost + 1
    /\ proc' = [proc EXCEPT ![p] =
                  IF @.op = "import" THEN [@ EXCEPT !.step = "read"] ELSE Idle]
    /\ UNCHANGED <<contact, made, sent, history>>

\* The links there are: a campaign goes to rows that are subscribed, a
\* confirmation to the rows in sent.
Starts(p) ==
    \/ \E b \in Books, want \in {"true", "false", "unset"} : Import(p, b, want)
    \/ \E b \in Books : Resend(p, b) \/ Edit(p, b, "delete", "unset")
    \/ \E b \in Books, want \in {"true", "false"} : Edit(p, b, "update", want)
    \/ \E bi \in mailed :
          \/ Unsubscribe(p, bi[1], bi[2]) \/ Resubscribe(p, bi[1], bi[2])
          \/ \E reason \in BounceReasons : Bounce(p, bi[1], bi[2], reason)
    \/ \E bi \in sent : Confirm(p, bi[1], bi[2])

GoesOn(p) ==
    \/ ReadExisting(p) \/ Upsert(p) \/ SendConfirmation(p) \/ ConfirmationFails(p)
    \/ WriteUpdate(p) \/ WriteDelete(p) \/ WriteOptOut(p) \/ Spread(p) \/ WriteOptIn(p)

ContactNext ==
    \E p \in Procs :
        \/ Starts(p)
        \/ (GoesOn(p) \/ Dies(p)) /\ UNCHANGED overlapped

ContactSpec == ContactInit /\ [][ContactNext]_vars

-----------------------------------------------------------------------------
(* Properties                                                              *)

Reasons == {"none", "UNSUBSCRIBED"} \cup BounceReasons
Rows == [id : 0..MaxIds, subscribed : BOOLEAN, reason : Reasons]
Operations == {"none", "import", "resend", "update", "delete", "unsubscribe", "bounce",
               "resubscribe", "confirm"}
Steps == {"idle", "read", "upsert", "mail", "update", "delete", "optOut", "spread", "optIn"}

\* Every book has at most one row of the address, which says why it is not
\* subscribed if it once was, and nothing of the kind if it is.
ContactTypeOK ==
    /\ contact \in [Books -> Rows] /\ made \in [Books -> 0..MaxIds]
    /\ \A b \in Books : /\ contact[b].id \in {0, made[b]}
                        /\ contact[b].subscribed => contact[b].reason = "none"
    /\ proc \in [Procs -> [op : Operations, step : Steps, book : Books, id : 0..MaxIds,
                           was : Rows, want : {"true", "false", "unset"},
                           reason : Reasons, todo : SUBSET (Books \X (1..MaxIds))]]
    /\ {sent, mailed} \subseteq SUBSET (Books \X (1..MaxIds)) /\ lost \in 0..MaxLost
    /\ {optedOut, consented, overtaken} \subseteq SUBSET Books /\ overlapped \in BOOLEAN

\* Whoever is unsubscribed, by a link, a bounce or an operator, stays so
\* until they or an operator subscribe them again, whatever is imported:
\* contact-service.ts:59 "allow unsubscribe, prevent re-subscribe".  What
\* breaks it is an import or a confirmation that read the row before.
OptOutHolds == \A b \in optedOut \ overtaken : ~contact[b].subscribed

\* In a double opt-in book only those are subscribed who followed a link or
\* whom an operator subscribed: docs/guides/double-opt-in.mdx:8 "Only after
\* clicking the link do they become fully subscribed".  An import that took
\* another's pending row for its own new one is the exception.
OnlyConfirmedSubscribed ==
    \A b \in DoubleOptIn \ overtaken : contact[b].subscribed => b \in consented

\* A pending contact was mailed a link, or is about to be, unless a mail or a
\* process was lost.
PendingHasLink ==
    \A b \in Books : Pending(contact[b]) =>
        \/ <<b, contact[b].id>> \in sent \/ lost > 0
        \/ \E p \in Procs : AtStep(p, "mail") /\ proc[p].book = b
                            /\ proc[p].id = contact[b].id

\* Pending is where a contact begins: nobody gets there who was subscribed,
\* as an import would ask them to confirm although they had left.
OnlyNewIsPending ==
    \A b \in Books : Pending(contact[b]) => <<b, contact[b].id>> \notin mailed

\* Once a bounce or complaint is dealt with, no book has the address
\* subscribed, unless something else was done to it meanwhile.
BounceReachesEveryBook ==
    [][\A p \in Procs :
        (proc[p].op = "bounce" /\ proc'[p] = Idle /\ lost' = lost /\ ~overlapped)
        => \A b \in Books : ~contact'[b].subscribed]_vars

\* Nobody is subscribed against their will or unasked, and a bounce or a
\* complaint takes an address out of every book.
SubscribedByConsent ==
    [](OptOutHolds /\ OnlyConfirmedSubscribed) /\ BounceReachesEveryBook

\* Rows are well formed, and whoever is pending is new and was asked.
PendingIsAsked == ContactTypeOK /\ PendingHasLink /\ OnlyNewIsPending
=============================================================================
