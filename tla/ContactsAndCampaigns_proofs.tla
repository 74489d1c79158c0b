-------------------- MODULE ContactsAndCampaigns_proofs --------------------
(***************************************************************************)
(* Whoever is subscribed wants to be, whoever is pending was asked, and a  *)
(* bounce takes an address out of every book: for any number of books,     *)
(* workers and requests, however their reads and writes interleave.  Then  *)
(* what mails such a book: a campaign reaches each of its contacts and     *)
(* none twice, for any number of contacts, requests and faults, and says   *)
(* what was written, for any documents and calls; and the catalogue of     *)
(* plans is as its caches promise.                                         *)
(***************************************************************************)
EXTENDS MCContactSubscription, MCCampaignBatch, FiniteSetTheorems, WellFoundedInduction, TLAPS

OptOutReasons == {"UNSUBSCRIBED"} \cup BounceReasons

ProcRecords ==
  [op : Operations, step : Steps, book : Books, id : 0..MaxIds, was : Rows,
   want : {"true", "false", "unset"}, reason : Reasons, todo : SUBSET (Books \X (1..MaxIds))]

(***************************************************************************)
(* A row is new once: its id is one more than any before it, and so no     *)
(* other was subscribed, or mailed, under it.                              *)
(***************************************************************************)
RowsInOrder == \A b \in Books : contact[b].id = 0 => contact[b] = Nobody

IdsInOrder == IsFiniteSet(Made) /\ \A bi \in mailed : bi[2] <= made[bi[1]]

\* What takes an address out gives a reason; so nobody who left is pending.
InOrder(r) ==
  /\ r.step \in {"optOut", "spread"} => r.reason \in OptOutReasons
  /\ r.step = "update" => r.want # "unset"
  /\ r.op = "bounce" => r.step \in {"spread", "optOut"}

LeftNotPending == \A b \in optedOut : ~Pending(contact[b])

\* As long as nothing overlaps, one process is at work, and the rows that a
\* bounce has still to take out are all that are subscribed.
Alone == ~overlapped => \A p, q \in Procs : proc[p] # Idle /\ proc[q] # Idle => p = q

Left(r, b) ==
  \/ <<b, contact[b].id>> \in r.todo
  \/ r.step = "optOut" /\ r.book = b /\ r.id = contact[b].id

BounceLeaves ==
  ~overlapped =>
    \A p \in Procs : proc[p].op = "bounce" => \A b \in Books : contact[b].subscribed => Left(proc[p], b)

ContactInv ==
  /\ PendingIsAsked /\ OptOutHolds /\ OnlyConfirmedSubscribed
  /\ RowsInOrder /\ IdsInOrder /\ LeftNotPending
  /\ \A p \in Procs : InOrder(proc[p])
  /\ Alone /\ BounceLeaves

USE ContactAssumption

LEMMA ContactTypes ==
  ASSUME ContactTypeOK
  PROVE  /\ contact \in [Books -> Rows] /\ made \in [Books -> 0..MaxIds]
         /\ proc \in [Procs -> ProcRecords]
         /\ \A b \in Books : /\ contact[b].id \in {0, made[b]}
                             /\ contact[b].subscribed => contact[b].reason = "none"
         /\ sent \subseteq Books \X (1..MaxIds) /\ mailed \subseteq Books \X (1..MaxIds)
         /\ lost \in 0..MaxLost /\ overlapped \in BOOLEAN
         /\ optedOut \subseteq Books /\ consented \subseteq Books /\ overtaken \subseteq Books
  BY DEF ContactTypeOK, ProcRecords

LEMMA IdleTypes ==
  /\ Nobody \in Rows /\ Idle \in ProcRecords /\ InOrder(Idle)
  /\ Idle.op = "none" /\ Idle.step = "idle" /\ Idle.todo = {} /\ Idle.reason = "none"
<1> DEFINE any == CHOOSE b \in Books : TRUE
<1>1. any \in Books
  OBVIOUS
<1>2. Idle = [op |-> "none", step |-> "idle", book |-> any, id |-> 0, was |-> Nobody,
              want |-> "unset", reason |-> "none", todo |-> {}]
  BY DEF Idle
<1> HIDE DEF any
<1>3. Nobody \in Rows
  BY DEF Nobody, Rows, Reasons
<1>4. Idle \in ProcRecords
  <2>1. "none" \in Operations \cap Reasons /\ "idle" \in Steps
    BY DEF Operations, Reasons, Steps
  <2>2. 0 \in 0..MaxIds
    OBVIOUS
  <2> QED
    BY <1>1, <1>2, <1>3, <2>1, <2>2 DEF ProcRecords
<1> QED
  BY <1>2, <1>3, <1>4 DEF InOrder

LEMMA ContactInvInit == ContactInit => ContactInv
<1> SUFFICES ASSUME ContactInit PROVE ContactInv
  OBVIOUS
<1>1. ContactTypeOK
  <2>1. contact \in [Books -> Rows] /\ proc \in [Procs -> ProcRecords]
    BY IdleTypes DEF ContactInit
  <2>2. made \in [Books -> 0..MaxIds] /\ lost \in 0..MaxLost
    BY DEF ContactInit
  <2>3. overlapped \in BOOLEAN
    BY DEF ContactInit
  <2> QED
    BY <2>1, <2>2, <2>3 DEF ContactInit, ContactTypeOK, ProcRecords, Nobody
<1>2. \A b \in Books : contact[b] = Nobody /\ ~Pending(contact[b]) /\ ~contact[b].subscribed
  BY DEF ContactInit, Pending, Nobody
<1>3. PendingIsAsked /\ OptOutHolds /\ OnlyConfirmedSubscribed /\ RowsInOrder /\ LeftNotPending
      /\ BounceLeaves
  BY <1>1, <1>2 DEF PendingIsAsked, PendingHasLink, OnlyNewIsPending, OptOutHolds,
     OnlyConfirmedSubscribed, RowsInOrder, LeftNotPending, BounceLeaves, ContactInit
<1>4. IdsInOrder
  <2>1. Made = {}
    BY DEF ContactInit, Made
  <2> QED
    BY <2>1, FS_EmptySet DEF ContactInit, IdsInOrder
<1>5. Alone /\ \A p \in Procs : InOrder(proc[p])
  BY IdleTypes DEF ContactInit, Alone
<1> QED
  BY <1>3, <1>4, <1>5 DEF ContactInv

(***************************************************************************)
(* A step that writes no row: what it takes for the invariant to remain.   *)
(***************************************************************************)
LEMMA Proceeds ==
  ASSUME ContactInv, NEW p \in Procs, NEW r \in ProcRecords, InOrder(r),
         UNCHANGED <<contact, made, history>>,
         proc' = [proc EXCEPT ![p] = r],
         sent \subseteq sent', sent' \subseteq Books \X (1..MaxIds),
         lost <= lost', lost' \in 0..MaxLost,
         overlapped' \in BOOLEAN, overlapped => overlapped',
         ~overlapped' => \A q \in Procs \ {p} : proc[q] = Idle,
         AtStep(p, "mail") =>
           \/ lost' > 0 \/ ~Exists(proc[p].book, proc[p].id)
           \/ <<proc[p].book, proc[p].id>> \in sent',
         ~overlapped' /\ r.op = "bounce" =>
           \A b \in Books : contact[b].subscribed => Left(r, b)
  PROVE  ContactInv'
<1> USE DEF ContactInv, PendingIsAsked
<1>1. proc'[p] = r /\ \A q \in Procs : q # p => proc'[q] = proc[q]
  BY ContactTypes
<1>2. ContactTypeOK'
  <2>1. proc' \in [Procs -> ProcRecords]
    BY ContactTypes
  <2>2. {sent', mailed'} \subseteq SUBSET (Books \X (1..MaxIds))
    BY ContactTypes DEF history
  <2> QED
    BY <2>1, <2>2 DEF ContactTypeOK, ProcRecords, history
<1>3. PendingHasLink'
  <2> SUFFICES ASSUME NEW b \in Books, Pending(contact[b]), ~(lost' > 0),
                      <<b, contact[b].id>> \notin sent'
               PROVE  \E q \in Procs : AtStep(q, "mail")' /\ proc'[q].book = b
                                       /\ proc'[q].id = contact[b].id
    BY DEF PendingHasLink
  <2>1. PICK q \in Procs : AtStep(q, "mail") /\ proc[q].book = b /\ proc[q].id = contact[b].id
    BY ContactTypes DEF PendingHasLink
  <2>2. Exists(b, contact[b].id)
    BY DEF Pending, Exists
  <2>3. q # p
    BY <2>1, <2>2
  <2> QED
    BY <1>1, <2>1, <2>3 DEF AtStep
<1>4. /\ OnlyNewIsPending' /\ OptOutHolds' /\ OnlyConfirmedSubscribed' /\ RowsInOrder'
      /\ LeftNotPending'
  BY DEF OnlyNewIsPending, OptOutHolds, OnlyConfirmedSubscribed, RowsInOrder, LeftNotPending, history
<1>5. IdsInOrder'
  BY DEF IdsInOrder, Made, history
<1>6. \A q \in Procs : InOrder(proc'[q])
  BY <1>1
<1>7. Alone'
  BY <1>1 DEF Alone
<1>8. BounceLeaves'
  <2> SUFFICES ASSUME ~overlapped', NEW q \in Procs, proc'[q].op = "bounce", NEW b \in Books,
                      contact'[b].subscribed
               PROVE  Left(proc[q], b)'
    BY DEF BounceLeaves
  <2>1. q = p
    BY <1>1, IdleTypes
  <2>2. Left(r, b)
    BY <1>1, <2>1
  <2> QED
    BY <1>1, <2>1, <2>2 DEF Left
<1> QED
  BY <1>2, <1>3, <1>4, <1>5, <1>6, <1>7, <1>8

(***************************************************************************)
(* A step that writes the row of one book.                                 *)
(***************************************************************************)
LEMMA Writes ==
  ASSUME ContactInv, NEW p \in Procs, NEW b \in Books, NEW record \in Rows, NEW r \in ProcRecords,
         InOrder(r), proc[p] # Idle, ~AtStep(p, "mail"),
         UNCHANGED <<sent, lost, overlapped>>,
         contact' = [contact EXCEPT ![b] = record],
         proc' = [proc EXCEPT ![p] = r],
         mailed' = IF record.subscribed THEN mailed \cup {<<b, record.id>>} ELSE mailed,
         made' \in [Books -> 0..MaxIds], IsFiniteSet(Made'),
         \A c \in Books : made[c] <= made'[c] /\ (c # b => made'[c] = made[c]),
         record.id \in {0, made'[b]}, record.subscribed => record.id # 0 /\ record.reason = "none",
         record.id = 0 => record = Nobody,
         Pending(record) => \/ record = contact[b]
                         \/ /\ record.id = made[b] + 1
                            /\ r.step = "mail" /\ r.book = b /\ r.id = record.id,
         optedOut' \subseteq Books, consented' \subseteq Books, overtaken' \subseteq Books,
         \A c \in Books \ {b} : /\ (c \in optedOut' => c \in optedOut)
                               /\ (c \in consented => c \in consented')
                               /\ (c \in overtaken => c \in overtaken'),
         b \in optedOut' => ~Pending(record) /\ (record.subscribed => b \in overtaken'),
         b \in DoubleOptIn /\ record.subscribed => b \in overtaken' \/ b \in consented',
         ~overlapped /\ r.op = "bounce" =>
           \A c \in Books : contact'[c].subscribed => Left(r, c)'
  PROVE  ContactInv'
<1> USE DEF ContactInv, PendingIsAsked
<1>1. proc'[p] = r /\ \A q \in Procs : q # p => proc'[q] = proc[q]
  BY ContactTypes
<1>2. contact'[b] = record /\ \A c \in Books : c # b => contact'[c] = contact[c]
  BY ContactTypes
<1>3. ContactTypeOK'
  <2>1. proc' \in [Procs -> ProcRecords] /\ contact' \in [Books -> Rows]
    BY ContactTypes
  <2>2. record.subscribed => <<b, record.id>> \in Books \X (1..MaxIds)
    BY DEF Rows
  <2>3. {sent', mailed'} \subseteq SUBSET (Books \X (1..MaxIds))
    BY <2>2, ContactTypes
  <2>4. \A c \in Books : /\ contact'[c].id \in {0, made'[c]}
                         /\ contact'[c].subscribed => contact'[c].reason = "none"
    BY <1>2, ContactTypes
  <2>5. {optedOut', consented', overtaken'} \subseteq SUBSET Books
    OBVIOUS
  <2> QED
    BY <2>1, <2>3, <2>4, <2>5, ContactTypes DEF ContactTypeOK, ProcRecords
<1>4. PendingHasLink'
  <2> SUFFICES ASSUME NEW c \in Books, Pending(contact'[c]), ~(lost > 0),
                      <<c, contact'[c].id>> \notin sent
               PROVE  \E q \in Procs : AtStep(q, "mail")' /\ proc'[q].book = c
                                       /\ proc'[q].id = contact'[c].id
    BY DEF PendingHasLink
  <2>1. CASE contact'[c] = contact[c]
    <3>1. PICK q \in Procs : AtStep(q, "mail") /\ proc[q].book = c /\ proc[q].id = contact[c].id
      BY <2>1 DEF PendingHasLink
    <3> QED
      BY <1>1, <2>1, <3>1 DEF AtStep
  <2>2. CASE contact'[c] # contact[c]
    <3>1. c = b /\ r.step = "mail" /\ r.book = b /\ r.id = record.id
      BY <1>2, <2>2
    <3> QED
      BY <1>1, <1>2, <3>1 DEF AtStep
  <2> QED
    BY <2>1, <2>2
<1>5. OnlyNewIsPending'
  <2> SUFFICES ASSUME NEW c \in Books, Pending(contact'[c]), <<c, contact'[c].id>> \in mailed'
               PROVE  FALSE
    BY DEF OnlyNewIsPending
  <2>1. <<c, contact'[c].id>> \in mailed
    BY <1>2 DEF Pending
  <2>2. contact'[c] # contact[c]
    BY <2>1 DEF OnlyNewIsPending
  <2>3. c = b /\ contact'[c].id = made[b] + 1
    BY <1>2, <2>2
  <2>4. <<c, contact'[c].id>>[2] <= made[<<c, contact'[c].id>>[1]]
    BY <2>1 DEF IdsInOrder
  <2>5. made[b] \in Nat
    BY ContactTypes
  <2> QED
    BY <2>3, <2>4, <2>5
<1>6. OptOutHolds' /\ OnlyConfirmedSubscribed'
  <2>1. ASSUME NEW c \in optedOut' \ overtaken' PROVE ~contact'[c].subscribed
    BY <1>2 DEF OptOutHolds
  <2>2. ASSUME NEW c \in DoubleOptIn \ overtaken', contact'[c].subscribed PROVE c \in consented'
    BY <1>2, <2>2 DEF OnlyConfirmedSubscribed
  <2> QED
    BY <2>1, <2>2 DEF OptOutHolds, OnlyConfirmedSubscribed
<1>7. RowsInOrder' /\ LeftNotPending'
  <2>1. ASSUME NEW c \in optedOut' PROVE ~Pending(contact'[c])
    BY <1>2 DEF LeftNotPending
  <2> QED
    BY <1>2, <2>1 DEF RowsInOrder, LeftNotPending
<1>8. IdsInOrder'
  <2> SUFFICES ASSUME NEW bi \in mailed' PROVE bi[2] <= made'[bi[1]]
    BY DEF IdsInOrder
  <2>1. CASE bi \in mailed
    <3>1. bi[1] \in Books /\ bi[2] \in Nat /\ bi[2] <= made[bi[1]]
      BY <2>1, ContactTypes DEF IdsInOrder
    <3>2. made[bi[1]] \in Nat /\ made'[bi[1]] \in Nat
      BY <3>1, ContactTypes
    <3> QED
      BY <3>1, <3>2
  <2>2. CASE bi \notin mailed
    <3>1. record.subscribed /\ bi = <<b, record.id>>
      BY <2>2
    <3>2. record.id = made'[b] /\ made'[b] \in Nat
      BY <3>1
    <3> QED
      BY <3>1, <3>2
  <2> QED
    BY <2>1, <2>2
<1>9. \A q \in Procs : InOrder(proc'[q])
  BY <1>1
<1>10. ~overlapped => \A q \in Procs \ {p} : proc[q] = Idle
  BY DEF Alone
<1>11. Alone'
  BY <1>1, <1>10 DEF Alone
<1>12. BounceLeaves'
  <2> SUFFICES ASSUME ~overlapped, NEW q \in Procs, proc'[q].op = "bounce", NEW c \in Books,
                      contact'[c].subscribed
               PROVE  Left(proc[q], c)'
    BY DEF BounceLeaves
  <2>1. q = p
    BY <1>1, <1>10, IdleTypes
  <2>2. Left(r, c)'
    BY <1>1, <2>1
  <2> QED
    BY <1>1, <2>1, <2>2 DEF Left
<1> QED
  BY <1>3, <1>4, <1>5, <1>6, <1>7, <1>8, <1>9, <1>11, <1>12

LEMMA Begins ==
  ASSUME ContactInv, NEW p \in Procs, NEW r \in ProcRecords, InOrder(r), Begin(p, r),
         r.op = "bounce" => \A b \in Books : contact[b].subscribed => Left(r, b)
  PROVE  ContactInv'
<1>1. /\ UNCHANGED <<contact, made, history, sent, lost>> /\ proc' = [proc EXCEPT ![p] = r]
      /\ proc[p] = Idle
  BY DEF Begin
<1>2. overlapped' \in BOOLEAN /\ (overlapped => overlapped')
  BY Zenon DEF Begin
<1>3. ~overlapped' => \A q \in Procs : proc[q] = Idle
  BY DEF Begin
<1>4. ~AtStep(p, "mail")
  BY <1>1, IdleTypes DEF AtStep
<1>5. sent \subseteq sent' /\ sent' \subseteq Books \X (1..MaxIds) /\ lost <= lost' /\ lost' \in 0..MaxLost
  BY <1>1, ContactTypes DEF ContactInv, PendingIsAsked
<1> QED
  BY <1>1, <1>2, <1>3, <1>4, <1>5, Proceeds

\* The books whose rows a bounce lists are all that have one.
LEMMA BounceLists ==
  ASSUME ContactInv, NEW p \in Procs, NEW bi \in mailed, NEW why \in BounceReasons,
         Bounce(p, bi[1], bi[2], why)
  PROVE  ContactInv'
<1> DEFINE listed == {<<c, contact[c].id>> : c \in {d \in Books : contact[d].id # 0}}
           r == [Idle EXCEPT !.op = "bounce", !.step = "spread", !.reason = why, !.todo = listed]
<1>1. Begin(p, r)
  BY DEF Bounce
<1>2. ContactTypeOK /\ RowsInOrder
  BY DEF ContactInv, PendingIsAsked
<1>3. listed \subseteq Books \X (1..MaxIds)
  BY <1>2, ContactTypes DEF Rows
<1>4. why \in OptOutReasons /\ why \in Reasons
  BY DEF OptOutReasons, Reasons
<1>5. \A b \in Books : contact[b].subscribed => <<b, contact[b].id>> \in listed
  BY <1>2 DEF RowsInOrder, Nobody
<1> HIDE DEF listed
<1>6. r \in ProcRecords /\ InOrder(r)
  BY <1>3, <1>4, IdleTypes DEF ProcRecords, InOrder, Operations, Steps
<1>7. \A b \in Books : contact[b].subscribed => Left(r, b)
  BY <1>5, IdleTypes DEF Left, ProcRecords
<1> HIDE DEF r
<1> QED
  BY <1>1, <1>6, <1>7, Begins

LEMMA StartsKept ==
  ASSUME ContactInv, NEW p \in Procs, Starts(p)
  PROVE  ContactInv'
<1> USE DEF ContactInv, PendingIsAsked
<1>0. \A bi \in Books \X (1..MaxIds) : bi[1] \in Books /\ bi[2] \in 0..MaxIds
  OBVIOUS
<1>1. ASSUME NEW b \in Books, NEW want \in {"true", "false", "unset"}, Import(p, b, want)
      PROVE  ContactInv'
  <2> DEFINE r == [Idle EXCEPT !.op = "import", !.step = "read", !.book = b, !.want = want]
  <2>1. r \in ProcRecords /\ InOrder(r) /\ r.op # "bounce"
    BY IdleTypes DEF ProcRecords, InOrder, Operations, Steps
  <2>2. Begin(p, r)
    BY <1>1 DEF Import
  <2> HIDE DEF r
  <2> QED
    BY <2>1, <2>2, Begins
<1>2. ASSUME NEW b \in Books, Resend(p, b) PROVE ContactInv'
  <2> DEFINE r == [Idle EXCEPT !.op = "resend", !.step = "mail", !.book = b, !.id = contact[b].id]
  <2>0. contact[b].id \in 0..MaxIds
    BY ContactTypes DEF Rows
  <2>1. r \in ProcRecords /\ InOrder(r) /\ r.op # "bounce"
    BY <2>0, IdleTypes DEF ProcRecords, InOrder, Operations, Steps
  <2>2. Begin(p, r)
    BY <1>2 DEF Resend
  <2> HIDE DEF r
  <2> QED
    BY <2>1, <2>2, Begins
<1>3. ASSUME NEW b \in Books, NEW op \in {"update", "delete"}, NEW want \in {"true", "false", "unset"},
             op = "update" => want # "unset", Edit(p, b, op, want)
      PROVE  ContactInv'
  <2> DEFINE r == [Idle EXCEPT !.op = op, !.step = op, !.book = b, !.id = contact[b].id, !.want = want]
  <2>0. contact[b].id \in 0..MaxIds /\ op \in Operations \cap Steps
    BY ContactTypes DEF Rows, Operations, Steps
  <2>1. r \in ProcRecords /\ InOrder(r) /\ r.op # "bounce"
    BY <1>3, <2>0, IdleTypes DEF ProcRecords, InOrder
  <2>2. Begin(p, r)
    BY <1>3 DEF Edit
  <2> HIDE DEF r
  <2> QED
    BY <2>1, <2>2, Begins
<1>4. ASSUME NEW bi \in mailed, Unsubscribe(p, bi[1], bi[2]) PROVE ContactInv'
  <2> DEFINE r == [Idle EXCEPT !.op = "unsubscribe", !.step = "optOut", !.book = bi[1],
                               !.id = bi[2], !.reason = "UNSUBSCRIBED"]
  <2>0. bi[1] \in Books /\ bi[2] \in 0..MaxIds
    BY <1>0, ContactTypes
  <2>1. r \in ProcRecords /\ InOrder(r) /\ r.op # "bounce"
    BY <2>0, IdleTypes DEF ProcRecords, InOrder, Operations, Steps, Reasons, OptOutReasons
  <2>2. Begin(p, r)
    BY <1>4 DEF Unsubscribe
  <2> HIDE DEF r
  <2> QED
    BY <2>1, <2>2, Begins
<1>5. ASSUME NEW bi \in mailed \cup sent, NEW op \in {"resubscribe", "confirm"},
             Begin(p, [Idle EXCEPT !.op = op, !.step = "optIn", !.book = bi[1], !.id = bi[2]])
      PROVE  ContactInv'
  <2> DEFINE r == [Idle EXCEPT !.op = op, !.step = "optIn", !.book = bi[1], !.id = bi[2]]
  <2>0. bi[1] \in Books /\ bi[2] \in 0..MaxIds
    BY <1>0, ContactTypes
  <2>1. r \in ProcRecords /\ InOrder(r) /\ r.op # "bounce"
    BY <2>0, IdleTypes DEF ProcRecords, InOrder, Operations, Steps
  <2>2. Begin(p, r)
    BY <1>5, SMTT(20)
  <2> HIDE DEF r
  <2> QED
    BY <2>1, <2>2, Begins
<1>6. ASSUME NEW bi \in mailed, Resubscribe(p, bi[1], bi[2]) PROVE ContactInv'
  BY <1>5, <1>6 DEF Resubscribe
<1>7. ASSUME NEW bi \in sent, Confirm(p, bi[1], bi[2]) PROVE ContactInv'
  BY <1>5, <1>7 DEF Confirm
<1> QED
  BY <1>1, <1>2, <1>3, <1>4, <1>6, <1>7, BounceLists DEF Starts

LEMMA Carries ==
  ASSUME ContactInv, NEW p \in Procs, NEW r \in ProcRecords, InOrder(r), proc[p] # Idle,
         UNCHANGED <<contact, made, history>>, UNCHANGED overlapped,
         proc' = [proc EXCEPT ![p] = r],
         sent' = sent \/ (sent \subseteq sent' /\ sent' \subseteq Books \X (1..MaxIds)),
         lost' = lost \/ (lost' = lost + 1 /\ lost' \in 0..MaxLost),
         AtStep(p, "mail") =>
           \/ lost' = lost + 1 \/ ~Exists(proc[p].book, proc[p].id)
           \/ <<proc[p].book, proc[p].id>> \in sent',
         ~overlapped /\ r.op = "bounce" =>
           \A b \in Books : contact[b].subscribed => Left(r, b)
  PROVE  ContactInv'
<1>1. sent \subseteq Books \X (1..MaxIds) /\ lost \in 0..MaxLost /\ overlapped \in BOOLEAN
  BY ContactTypes DEF ContactInv, PendingIsAsked
<1>2. sent \subseteq sent' /\ sent' \subseteq Books \X (1..MaxIds)
  BY <1>1
<1>3. lost <= lost' /\ lost' \in 0..MaxLost /\ (lost' = lost + 1 => lost' > 0)
  BY <1>1
<1>4. overlapped' \in BOOLEAN /\ (overlapped => overlapped')
  BY <1>1
<1>5. ~overlapped' => \A q \in Procs \ {p} : proc[q] = Idle
  BY DEF ContactInv, Alone
<1> QED
  BY <1>2, <1>3, <1>4, <1>5, Proceeds

LEMMA ReadsKept ==
  ASSUME ContactInv, NEW p \in Procs, UNCHANGED overlapped,
         \/ ReadExisting(p) \/ SendConfirmation(p) \/ ConfirmationFails(p) \/ Spread(p) \/ Dies(p)
  PROVE  ContactInv'
<1>1. /\ contact \in [Books -> Rows] /\ proc[p] \in ProcRecords /\ InOrder(proc[p])
      /\ sent \subseteq Books \X (1..MaxIds) /\ lost \in 0..MaxLost
  BY ContactTypes DEF ContactInv, PendingIsAsked
<1>2. proc[p] # Idle
  BY IdleTypes DEF ReadExisting, SendConfirmation, ConfirmationFails, Spread, Dies, AtStep
<1>3. UNCHANGED <<contact, made, history>>
  BY DEF ReadExisting, SendConfirmation, ConfirmationFails, Spread, Dies
<1>4. CASE ReadExisting(p)
  <2> DEFINE r == [proc[p] EXCEPT !.was = contact[proc[p].book], !.step = "upsert"]
  <2>1. r \in ProcRecords /\ InOrder(r) /\ r.op # "bounce"
    BY <1>1, <1>4 DEF ReadExisting, AtStep, ProcRecords, InOrder, Steps
  <2>2. proc' = [proc EXCEPT ![p] = r]
    BY <1>1, <1>4, ContactTypes DEF ReadExisting, ContactInv, PendingIsAsked
  <2>3. sent' = sent /\ lost' = lost /\ ~AtStep(p, "mail")
    BY <1>4 DEF ReadExisting, AtStep
  <2> HIDE DEF r
  <2> QED
    BY <1>2, <1>3, <2>1, <2>2, <2>3, Carries
<1>5. CASE SendConfirmation(p)
  <2>1. proc' = [proc EXCEPT ![p] = Idle] /\ lost' = lost
    BY <1>5 DEF SendConfirmation, Return
  <2>2. sent \subseteq sent' /\ sent' \subseteq Books \X (1..MaxIds)
        /\ (Exists(proc[p].book, proc[p].id) => <<proc[p].book, proc[p].id>> \in sent')
    BY <1>1, <1>5 DEF SendConfirmation, Exists, ProcRecords
  <2> QED
    BY <1>2, <1>3, <2>1, <2>2, IdleTypes, Carries
<1>6. CASE ConfirmationFails(p)
  <2>1. proc' = [proc EXCEPT ![p] = Idle] /\ lost' = lost + 1 /\ lost' \in 0..MaxLost /\ sent' = sent
    BY <1>1, <1>6 DEF ConfirmationFails, Return
  <2> QED
    BY <1>2, <1>3, <2>1, IdleTypes, Carries
<1>7. CASE Dies(p)
  <2> DEFINE r == IF proc[p].op = "import" THEN [proc[p] EXCEPT !.step = "read"] ELSE Idle
  <2>1. proc' = [proc EXCEPT ![p] = r] /\ lost' = lost + 1 /\ lost' \in 0..MaxLost /\ sent' = sent
    BY <1>1, <1>7, ContactTypes DEF Dies, ContactInv, PendingIsAsked
  <2>2. r \in ProcRecords /\ InOrder(r) /\ r.op # "bounce"
    BY <1>1, IdleTypes DEF ProcRecords, InOrder, Steps
  <2> HIDE DEF r
  <2> QED
    BY <1>2, <1>3, <2>1, <2>2, Carries
<1>8. CASE Spread(p)
  <2>1. PICK bi \in proc[p].todo :
          IF Exists(bi[1], bi[2]) /\ contact[bi[1]].subscribed
          THEN proc' = [proc EXCEPT ![p].step = "optOut", ![p].book = bi[1],
                                    ![p].id = bi[2], ![p].todo = proc[p].todo \ {bi}]
          ELSE IF proc[p].todo \ {bi} = {} THEN Return(p)
          ELSE proc' = [proc EXCEPT ![p].todo = proc[p].todo \ {bi}]
    BY <1>8 DEF Spread
  <2>2. /\ sent' = sent /\ lost' = lost /\ proc[p].step = "spread" /\ ~AtStep(p, "mail")
        /\ proc \in [Procs -> ProcRecords]
    BY <1>8, ContactTypes DEF Spread, AtStep, ContactInv, PendingIsAsked
  <2>3. bi[1] \in Books /\ bi[2] \in 0..MaxIds /\ bi = <<bi[1], bi[2]>>
    BY <1>1 DEF ProcRecords
  <2>4. ~overlapped /\ proc[p].op = "bounce" =>
          \A b \in Books : contact[b].subscribed => <<b, contact[b].id>> \in proc[p].todo
    BY <2>2 DEF ContactInv, BounceLeaves, Left
  <2>5. CASE Exists(bi[1], bi[2]) /\ contact[bi[1]].subscribed
    <3> DEFINE r == [proc[p] EXCEPT !.step = "optOut", !.book = bi[1], !.id = bi[2],
                                    !.todo = proc[p].todo \ {bi}]
    <3>1. r \in ProcRecords /\ InOrder(r)
      BY <1>1, <2>2, <2>3 DEF ProcRecords, InOrder, Steps
    <3>2. proc' = [proc EXCEPT ![p] = r]
      BY <2>1, <2>2, <2>5
    <3>3. ~overlapped /\ r.op = "bounce" =>
            \A b \in Books : contact[b].subscribed => Left(r, b)
      <4> SUFFICES ASSUME ~overlapped, proc[p].op = "bounce", NEW b \in Books, contact[b].subscribed
                   PROVE  Left(r, b)
        BY <1>1 DEF ProcRecords
      <4>1. <<b, contact[b].id>> \in proc[p].todo
        BY <2>4
      <4>2. <<b, contact[b].id>> = bi => b = bi[1] /\ contact[b].id = bi[2]
        BY <2>3
      <4> QED
        BY <1>1, <4>1, <4>2 DEF Left, ProcRecords
    <3> HIDE DEF r
    <3> QED
      BY <1>2, <1>3, <2>2, <3>1, <3>2, <3>3, Carries
  <2>6. CASE ~(Exists(bi[1], bi[2]) /\ contact[bi[1]].subscribed)
    <3>0. ~overlapped /\ proc[p].op = "bounce" =>
            \A b \in Books : contact[b].subscribed => <<b, contact[b].id>> \in proc[p].todo \ {bi}
      <4> SUFFICES ASSUME ~overlapped, proc[p].op = "bounce", NEW b \in Books, contact[b].subscribed,
                          <<b, contact[b].id>> = bi
                   PROVE  FALSE
        BY <2>4
      <4>1. b = bi[1] /\ contact[b].id = bi[2]
        BY <2>3
      <4>2. contact[b].id # 0
        BY DEF ContactInv, RowsInOrder, Nobody
      <4> QED
        BY <2>6, <4>1, <4>2 DEF Exists
    <3>1. CASE proc[p].todo \ {bi} = {}
      <4>1. proc' = [proc EXCEPT ![p] = Idle]
        BY <2>1, <2>6, <3>1 DEF Return
      <4> QED
        BY <1>2, <1>3, <2>2, <4>1, IdleTypes, Carries
    <3>2. CASE proc[p].todo \ {bi} # {}
      <4> DEFINE r == [proc[p] EXCEPT !.todo = proc[p].todo \ {bi}]
      <4>1. r \in ProcRecords /\ InOrder(r)
        BY <1>1, <2>2 DEF ProcRecords, InOrder
      <4>2. proc' = [proc EXCEPT ![p] = r]
        BY <2>1, <2>2, <2>6, <3>2
      <4>3. ~overlapped /\ r.op = "bounce" =>
              \A b \in Books : contact[b].subscribed => Left(r, b)
        BY <1>1, <3>0 DEF Left, ProcRecords
      <4> HIDE DEF r
      <4> QED
        BY <1>2, <1>3, <2>2, <4>1, <4>2, <4>3, Carries
    <3> QED
      BY <3>1, <3>2
  <2> QED
    BY <2>5, <2>6, SMTT(30)
<1> QED
  BY <1>4, <1>5, <1>6, <1>7, <1>8

(***************************************************************************)
(* The bound on the rows made, and that they are finitely many.            *)
(***************************************************************************)
LEMMA OneMore ==
  ASSUME ContactTypeOK, IsFiniteSet(Made), NEW b \in Books, Cardinality(Made) < MaxIds,
         made' = [made EXCEPT ![b] = @ + 1]
  PROVE  /\ made[b] + 1 \in 1..MaxIds /\ made' \in [Books -> 0..MaxIds] /\ made'[b] = made[b] + 1
         /\ \A c \in Books : made[c] <= made'[c] /\ (c # b => made'[c] = made[c])
         /\ IsFiniteSet(Made')
<1>1. made \in [Books -> 0..MaxIds]
  BY ContactTypes
<1>2. made[b] # MaxIds
  <2> SUFFICES ASSUME made[b] = MaxIds PROVE FALSE
    OBVIOUS
  <2>1. {b} \X (1..MaxIds) \subseteq Made
    BY DEF Made
  <2>2. IsFiniteSet({b}) /\ Cardinality({b}) = 1
    BY FS_Singleton
  <2>3. IsFiniteSet(1..MaxIds) /\ Cardinality(1..MaxIds) = MaxIds
    BY FS_Interval
  <2>4. Cardinality({b} \X (1..MaxIds)) = Cardinality({b}) * Cardinality(1..MaxIds)
    BY <2>2, <2>3, FS_Product
  <2>5. Cardinality({b} \X (1..MaxIds)) = MaxIds
    BY <2>2, <2>3, <2>4
  <2>6. Cardinality({b} \X (1..MaxIds)) <= Cardinality(Made)
    BY <2>1, FS_Subset
  <2>7. Cardinality(Made) \in Nat
    BY FS_CardinalityType
  <2> QED
    BY <2>5, <2>6, <2>7
<1>3. /\ made[b] + 1 \in 1..MaxIds /\ made'[b] = made[b] + 1
      /\ \A c \in Books : c # b => made'[c] = made[c]
  BY <1>1, <1>2
<1>4. made' \in [Books -> 0..MaxIds]
  BY <1>1, <1>3
<1>5. \A c \in Books : made[c] <= made'[c]
  BY <1>1, <1>3
<1>6. IsFiniteSet(Made')
  <2>1. Made' \subseteq Made \cup {<<b, made[b] + 1>>}
    <3> SUFFICES ASSUME NEW c \in Books, NEW i \in 1..MaxIds, i <= made'[c], <<c, i>> \notin Made
                 PROVE  c = b /\ i = made[b] + 1
      BY DEF Made
    <3>1. ~(i <= made[c])
      BY DEF Made
    <3> QED
      BY <1>1, <1>3, <3>1
  <2>2. IsFiniteSet(Made \cup {<<b, made[b] + 1>>})
    BY FS_AddElement
  <2> QED
    BY <2>1, <2>2, FS_Subset
<1> QED
  BY <1>3, <1>4, <1>5, <1>6

LEMMA UpsertKept ==
  ASSUME ContactInv, NEW p \in Procs, Upsert(p), UNCHANGED overlapped
  PROVE  ContactInv'
<1> DEFINE b == proc[p].book
           want == proc[p].want
           was == proc[p].was
           new == contact[b].id = 0
           record == IF new THEN Created(b, want, was) ELSE Updated(b, SubscribedValue(want, was))
           r == IF ShouldConfirm(b, want, was) THEN [proc[p] EXCEPT !.id = record.id, !.step = "mail"]
                ELSE Idle
<1>1. /\ proc[p].step = "upsert" /\ contact' = [contact EXCEPT ![b] = record]
      /\ mailed' = (IF record.subscribed THEN mailed \cup {<<b, record.id>>} ELSE mailed)
      /\ UNCHANGED <<sent, lost, overlapped>>
      /\ new => Cardinality(Made) < MaxIds
      /\ made' = IF new THEN [made EXCEPT ![b] = @ + 1] ELSE made
  BY DEF Upsert, Save, AtStep
<1>2. /\ optedOut' = IF want = "false" THEN optedOut \cup {b}
                      ELSE IF new THEN optedOut \ {b} ELSE optedOut
      /\ consented' = IF new THEN consented \ {b} ELSE consented
      /\ overtaken' = IF was = contact[b] THEN overtaken ELSE overtaken \cup {b}
      /\ IF ShouldConfirm(b, want, was)
         THEN proc' = [proc EXCEPT ![p].id = record.id, ![p].step = "mail"] ELSE Return(p)
  BY DEF Upsert
<1>3. /\ proc \in [Procs -> ProcRecords] /\ contact \in [Books -> Rows] /\ made \in [Books -> 0..MaxIds]
      /\ optedOut \subseteq Books /\ consented \subseteq Books /\ overtaken \subseteq Books
      /\ ContactTypeOK /\ IsFiniteSet(Made)
  BY ContactTypes DEF ContactInv, PendingIsAsked, IdsInOrder
<1>4. /\ proc[p] \in ProcRecords /\ InOrder(proc[p]) /\ b \in Books /\ was \in Rows
      /\ want \in {"true", "false", "unset"} /\ contact[b] \in Rows
      /\ contact[b].id \in {0, made[b]} /\ (contact[b].subscribed => contact[b].reason = "none")
      /\ (contact[b].id = 0 => contact[b] = Nobody)
  BY <1>3, ContactTypes DEF ProcRecords, ContactInv, RowsInOrder
<1>5. /\ made' \in [Books -> 0..MaxIds] /\ IsFiniteSet(Made')
      /\ \A c \in Books : made[c] <= made'[c] /\ (c # b => made'[c] = made[c])
      /\ (new => made[b] + 1 \in 1..MaxIds /\ made'[b] = made[b] + 1)
  <2>1. CASE new
    BY <1>1, <1>3, <1>4, <2>1, OneMore
  <2>2. CASE ~new
    BY <1>1, <1>3, <2>2 DEF Made
  <2> QED
    BY <2>1, <2>2
<1>6. CASE new
  <2> DEFINE wait == b \in DoubleOptIn /\ was.id = 0 /\ want # "false"
  <2>1. /\ record.id = made[b] + 1 /\ record.subscribed = (~wait /\ want # "false")
        /\ record.reason = (IF want = "false" THEN "UNSUBSCRIBED" ELSE "none")
        /\ record \in Rows
    BY <1>4, <1>5, <1>6 DEF Created, Rows, Reasons
  <2>2. wait => ShouldConfirm(b, want, was)
    BY DEF ShouldConfirm
  <2>3. Pending(record) => wait
    BY <2>1 DEF Pending
  <2>4. was = contact[b] => was.id = 0
    BY <1>4, <1>6
  <2>5. /\ r \in ProcRecords /\ InOrder(r) /\ (r.op = "bounce" => proc[p].op = "bounce")
        /\ (Pending(record) => r.step = "mail" /\ r.book = b /\ r.id = record.id)
    <3>0. record.id \in 0..MaxIds
      BY <2>1 DEF Rows
    <3> HIDE DEF record, b, want, was, wait
    <3>1. CASE ShouldConfirm(b, want, was)
      <4>1. r = [proc[p] EXCEPT !.id = record.id, !.step = "mail"]
        BY <3>1
      <4> HIDE DEF r
      <4>2. /\ r \in ProcRecords /\ r.op = proc[p].op /\ r.step = "mail" /\ r.id = record.id
            /\ r.book = proc[p].book
        BY <1>4, <3>0, <4>1 DEF ProcRecords, Steps
      <4>3. InOrder(r)
        BY <1>1, <1>4, <4>2 DEF InOrder
      <4> QED
        BY <4>2, <4>3 DEF b
    <3>2. CASE ~ShouldConfirm(b, want, was)
      BY <2>2, <2>3, <3>2, IdleTypes
    <3> QED
      BY <3>1, <3>2
  <2>6. proc' = [proc EXCEPT ![p] = r]
    BY <1>2, <1>3 DEF Return
  <2>7. /\ proc[p] # Idle /\ ~AtStep(p, "mail") /\ r.op # "bounce"
    BY <1>1, <1>4, <2>5, IdleTypes DEF InOrder, AtStep
  <2>8. /\ record.id \in {0, made'[b]} /\ record.id # 0 /\ (record.subscribed => record.reason = "none")
        /\ (Pending(record) => record.id = made[b] + 1)
    <3> HIDE DEF record, b
    <3>1. record.id = made[b] + 1 /\ made[b] + 1 \in 1..MaxIds /\ made'[b] = made[b] + 1
      BY <1>5, <1>6, <2>1
    <3>2. record.id \in {0, made'[b]} /\ record.id # 0
      BY <3>1
    <3>3. record.subscribed => record.reason = "none"
      BY <2>1
    <3> QED
      BY <3>1, <3>2, <3>3
  <2>9. /\ b \in optedOut' => ~Pending(record) /\ ~record.subscribed
        /\ b \in DoubleOptIn /\ record.subscribed => b \in overtaken'
        /\ \A c \in Books \ {b} : /\ (c \in optedOut' => c \in optedOut)
                                /\ (c \in consented => c \in consented')
                                /\ (c \in overtaken => c \in overtaken')
        /\ optedOut' \subseteq Books /\ consented' \subseteq Books /\ overtaken' \subseteq Books
    BY <1>2, <1>3, <1>4, <1>6, <2>1, <2>3, <2>4
  <2> HIDE DEF r, record, b, want, was, wait, new
  <2> QED
    BY <1>1, <1>4, <1>5, <2>1, <2>5, <2>6, <2>7, <2>8, <2>9, Writes
<1>7. CASE ~new
  <2> DEFINE say == SubscribedValue(want, was)
  <2>1. /\ record = (IF say = "unset" THEN contact[b]
                  ELSE [contact[b] EXCEPT !.subscribed = say = "true",
                            !.reason = IF say = "true" THEN "none" ELSE "UNSUBSCRIBED"])
        /\ say \in {"true", "false", "unset"} /\ (say = "false" <=> want = "false")
        /\ (say = "true" => want = "true" /\ (was.id = 0 \/ was.subscribed))
    BY <1>4, <1>7 DEF Updated, SubscribedValue
  <2> HIDE DEF say
  <2>2. /\ record \in Rows /\ record.id = contact[b].id /\ (record.subscribed => record.reason = "none")
        /\ (say = "unset" => record = contact[b])
        /\ (say = "true" => record.subscribed /\ record.reason = "none")
        /\ (say = "false" => ~record.subscribed /\ record.reason = "UNSUBSCRIBED")
    <3> HIDE DEF record, b
    <3>1. CASE say = "unset"
      BY <1>4, <2>1, <3>1
    <3>2. CASE say # "unset"
      <4>1. record = [contact[b] EXCEPT !.subscribed = say = "true",
                            !.reason = IF say = "true" THEN "none" ELSE "UNSUBSCRIBED"]
        BY <2>1, <3>2
      <4>2. contact[b] \in Rows
        BY <1>4
      <4>3. record.id = contact[b].id /\ record.subscribed = (say = "true") /\ record \in Rows
            /\ record.reason = (IF say = "true" THEN "none" ELSE "UNSUBSCRIBED")
        BY <4>1, <4>2 DEF Rows, Reasons
      <4> QED
        BY <2>1, <3>2, <4>3
    <3> QED
      BY <3>1, <3>2
  <2>3. /\ Pending(record) => record = contact[b]
        /\ record.id \in {0, made'[b]} /\ record.id # 0
    BY <1>1, <1>4, <1>7, <2>1, <2>2 DEF Pending
  <2>4. r \in ProcRecords /\ InOrder(r) /\ r.op # "bounce"
    BY <1>1, <1>4, <2>2, IdleTypes DEF ProcRecords, InOrder, Rows, Steps
  <2>5. proc' = [proc EXCEPT ![p] = r]
    BY <1>2, <1>3 DEF Return
  <2>6. proc[p] # Idle /\ ~AtStep(p, "mail")
    BY <1>1, IdleTypes DEF AtStep
  <2>7. b \in optedOut' => ~Pending(record) /\ (record.subscribed => b \in overtaken')
    <3>1. CASE say = "false"
      BY <2>2, <3>1 DEF Pending
    <3>2. CASE say = "unset"
      BY <1>2, <1>4, <1>7, <2>1, <2>2, <3>2 DEF ContactInv, LeftNotPending, OptOutHolds
    <3>3. CASE say = "true"
      <4>1. ~Pending(record)
        BY <2>2, <3>3 DEF Pending
      <4>2. was = contact[b] => contact[b].subscribed
        BY <1>7, <2>1, <3>3
      <4> QED
        BY <1>2, <1>4, <1>7, <2>1, <3>3, <4>1, <4>2 DEF ContactInv, OptOutHolds
    <3> QED
      BY <2>1, <3>1, <3>2, <3>3
  <2>8. b \in DoubleOptIn /\ record.subscribed => b \in overtaken' \/ b \in consented'
    <3>1. was = contact[b] /\ record.subscribed => contact[b].subscribed
      BY <1>7, <2>1, <2>2
    <3> QED
      BY <1>2, <1>7, <3>1 DEF ContactInv, OnlyConfirmedSubscribed
  <2>9. /\ \A c \in Books \ {b} : /\ (c \in optedOut' => c \in optedOut)
                                /\ (c \in consented => c \in consented')
                                /\ (c \in overtaken => c \in overtaken')
        /\ optedOut' \subseteq Books /\ consented' \subseteq Books /\ overtaken' \subseteq Books
    BY <1>2, <1>3, <1>4, <1>7
  <2> HIDE DEF r, record, b, want, was, new
  <2> QED
    BY <1>1, <1>4, <1>5, <2>2, <2>3, <2>4, <2>5, <2>6, <2>7, <2>8, <2>9, Writes
<1> QED
  BY <1>6, <1>7

(***************************************************************************)
(* A step that writes a row there is: it changes, or goes, and none is     *)
(* made.                                                                   *)
(***************************************************************************)
LEMMA Rewrites ==
  ASSUME ContactInv, NEW p \in Procs, NEW b \in Books, NEW record \in Rows, NEW r \in ProcRecords,
         InOrder(r), proc[p] # Idle, ~AtStep(p, "mail"),
         UNCHANGED <<made, sent, lost, overlapped>>,
         contact' = [contact EXCEPT ![b] = record],
         proc' = [proc EXCEPT ![p] = r],
         mailed' = IF record.subscribed THEN mailed \cup {<<b, record.id>>} ELSE mailed,
         record = Nobody \/ (contact[b].id # 0 /\ record.id = contact[b].id),
         record.subscribed => record.reason = "none",
         ~Pending(record),
         optedOut' \subseteq optedOut \cup {b}, consented' \subseteq consented \cup {b},
         overtaken' \subseteq overtaken \cup {b},
         \A c \in Books \ {b} : /\ (c \in consented => c \in consented')
                               /\ (c \in overtaken => c \in overtaken'),
         record.subscribed => b \notin optedOut' \/ b \in overtaken',
         b \in DoubleOptIn /\ record.subscribed => b \in overtaken' \/ b \in consented',
         ~overlapped /\ r.op = "bounce" =>
           \A c \in Books : contact'[c].subscribed => Left(r, c)'
  PROVE  ContactInv'
<1>1. /\ made \in [Books -> 0..MaxIds] /\ IsFiniteSet(Made) /\ contact[b].id \in {0, made[b]}
      /\ optedOut \subseteq Books /\ consented \subseteq Books /\ overtaken \subseteq Books
  BY ContactTypes DEF ContactInv, PendingIsAsked, IdsInOrder
<1>2. made' \in [Books -> 0..MaxIds] /\ IsFiniteSet(Made')
  BY <1>1 DEF Made
<1>3. \A c \in Books : made[c] <= made'[c] /\ (c # b => made'[c] = made[c])
  BY <1>1
<1>4. record.id \in {0, made'[b]}
  BY <1>1 DEF Nobody
<1>5. (record.subscribed => record.id # 0 /\ record.reason = "none") /\ (record.id = 0 => record = Nobody)
  BY DEF Nobody
<1>6. /\ optedOut' \subseteq Books /\ consented' \subseteq Books /\ overtaken' \subseteq Books
      /\ \A c \in Books \ {b} : /\ (c \in optedOut' => c \in optedOut)
                                /\ (c \in consented => c \in consented')
                                /\ (c \in overtaken => c \in overtaken')
  BY <1>1
<1> QED
  BY <1>2, <1>3, <1>4, <1>5, <1>6, Writes

\* What the steps that write a row there is have in common.
LEMMA Writer ==
  ASSUME ContactInv, NEW p \in Procs, proc[p].step \in {"update", "delete", "optOut", "optIn"}
  PROVE  /\ proc[p] \in ProcRecords /\ InOrder(proc[p]) /\ proc[p].book \in Books
         /\ proc[p].want \in {"true", "false", "unset"} /\ contact[proc[p].book] \in Rows
         /\ proc[p] # Idle /\ ~AtStep(p, "mail")
         /\ (proc[p].step # "optOut" => proc[p].op # "bounce")
         /\ proc \in [Procs -> ProcRecords] /\ contact \in [Books -> Rows]
<1>1. proc \in [Procs -> ProcRecords] /\ contact \in [Books -> Rows]
  BY ContactTypes DEF ContactInv, PendingIsAsked
<1>2. proc[p] \in ProcRecords /\ InOrder(proc[p])
  BY <1>1 DEF ContactInv
<1> QED
  BY <1>1, <1>2, IdleTypes DEF ProcRecords, InOrder, AtStep

\* The row is gone, and nothing is written.
LEMMA Gone ==
  ASSUME ContactInv, NEW p \in Procs, proc[p].step \in {"update", "delete", "optOut", "optIn"},
         UNCHANGED <<contact, made, sent, lost, overlapped, history>>, NEW r \in ProcRecords,
         InOrder(r), proc' = [proc EXCEPT ![p] = r],
         ~overlapped /\ r.op = "bounce" => \A b \in Books : contact[b].subscribed => Left(r, b)
  PROVE  ContactInv'
BY Writer, Carries

LEMMA WriteUpdateKept ==
  ASSUME ContactInv, NEW p \in Procs, WriteUpdate(p), UNCHANGED overlapped
  PROVE  ContactInv'
<1> DEFINE b == proc[p].book
           on == proc[p].want = "true"
           record == Updated(b, proc[p].want)
<1>1. /\ proc[p].step = "update" /\ proc' = [proc EXCEPT ![p] = Idle]
      /\ UNCHANGED <<made, sent, lost, overlapped>>
  BY DEF WriteUpdate, Return, AtStep
<1>2. CASE Exists(b, proc[p].id)
  <2>1. /\ contact' = [contact EXCEPT ![b] = record]
        /\ mailed' = (IF record.subscribed THEN mailed \cup {<<b, record.id>>} ELSE mailed)
        /\ optedOut' = (IF on THEN optedOut \ {b} ELSE optedOut \cup {b})
        /\ consented' = (IF on THEN consented \cup {b} ELSE consented)
        /\ overtaken' = overtaken
    BY <1>2 DEF WriteUpdate, Save
  <2>2. contact[b] \in Rows /\ contact[b].id # 0 /\ b \in Books
    BY <1>1, <1>2, Writer DEF Exists
  <2>3. proc[p].want \in {"true", "false"}
    BY <1>1, Writer DEF InOrder
  <2>4. record = [contact[b] EXCEPT !.subscribed = on,
                                 !.reason = IF on THEN "none" ELSE "UNSUBSCRIBED"]
    BY <2>3 DEF Updated
  <2> HIDE DEF b, on, record
  <2>5. /\ record \in Rows /\ record.id = contact[b].id /\ record.subscribed = on
        /\ record.reason = (IF on THEN "none" ELSE "UNSUBSCRIBED")
    <3>1. on \in BOOLEAN
      BY DEF on
    <3> QED
      BY <2>2, <2>4, <3>1 DEF Rows, Reasons
  <2>6. /\ ~Pending(record) /\ (record.subscribed => record.reason = "none")
        /\ (record.subscribed => b \notin optedOut' /\ b \in consented')
        /\ optedOut' \subseteq optedOut \cup {b} /\ consented' \subseteq consented \cup {b}
        /\ \A c \in Books \ {b} : c \in consented => c \in consented'
    BY <2>1, <2>5 DEF Pending
  <2> QED
    BY <1>1, <2>1, <2>2, <2>5, <2>6, IdleTypes, Writer, Rewrites
<1>3. CASE ~Exists(b, proc[p].id)
  <2>1. UNCHANGED <<contact, history>>
    BY <1>3 DEF WriteUpdate
  <2> QED
    BY <1>1, <2>1, IdleTypes, Gone
<1> QED
  BY <1>2, <1>3

LEMMA WriteDeleteKept ==
  ASSUME ContactInv, NEW p \in Procs, WriteDelete(p), UNCHANGED overlapped
  PROVE  ContactInv'
<1> DEFINE b == proc[p].book
<1>1. /\ proc[p].step = "delete" /\ proc' = [proc EXCEPT ![p] = Idle]
      /\ UNCHANGED <<made, sent, lost, overlapped, mailed>>
  BY DEF WriteDelete, Return, AtStep
<1>2. CASE Exists(b, proc[p].id)
  <2>1. /\ contact' = [contact EXCEPT ![b] = Nobody] /\ optedOut' = optedOut \ {b}
        /\ consented' = consented \ {b} /\ overtaken' = overtaken \ {b}
    BY <1>2 DEF WriteDelete
  <2>2. ~Nobody.subscribed /\ ~Pending(Nobody) /\ Nobody \in Rows
    BY IdleTypes DEF Pending, Nobody
  <2>3. b \in Books
    BY <1>1, Writer
  <2> HIDE DEF b
  <2>4. /\ optedOut' \subseteq optedOut \cup {b} /\ consented' \subseteq consented \cup {b}
        /\ overtaken' \subseteq overtaken \cup {b}
        /\ \A c \in Books \ {b} : /\ (c \in consented => c \in consented')
                                  /\ (c \in overtaken => c \in overtaken')
    BY <2>1
  <2>5. mailed' = IF Nobody.subscribed THEN mailed \cup {<<b, Nobody.id>>} ELSE mailed
    BY <1>1, <2>2
  <2> QED
    BY <1>1, <2>1, <2>2, <2>3, <2>4, <2>5, IdleTypes, Writer, Rewrites
<1>3. CASE ~Exists(b, proc[p].id)
  <2>1. UNCHANGED <<contact, history>>
    BY <1>1, <1>3 DEF WriteDelete, history
  <2> QED
    BY <1>1, <2>1, IdleTypes, Gone
<1> QED
  BY <1>2, <1>3

LEMMA WriteOptInKept ==
  ASSUME ContactInv, NEW p \in Procs, WriteOptIn(p), UNCHANGED overlapped
  PROVE  ContactInv'
<1> DEFINE b == proc[p].book
           record == [contact[b] EXCEPT !.subscribed = TRUE, !.reason = "none"]
           again == proc[p].op = "resubscribe"
<1>1. /\ proc[p].step = "optIn" /\ proc' = [proc EXCEPT ![p] = Idle]
      /\ UNCHANGED <<made, sent, lost, overlapped>>
  BY DEF WriteOptIn, Return, AtStep
<1>2. CASE Exists(b, proc[p].id)
  <2>1. /\ contact' = [contact EXCEPT ![b] = record]
        /\ mailed' = (IF record.subscribed THEN mailed \cup {<<b, record.id>>} ELSE mailed)
        /\ consented' = consented \cup {b}
        /\ optedOut' = (IF again THEN optedOut \ {b} ELSE optedOut)
        /\ overtaken' = (IF again \/ Pending(contact[b]) THEN overtaken ELSE overtaken \cup {b})
    BY <1>2 DEF WriteOptIn, Save
  <2>2. contact[b] \in Rows /\ contact[b].id # 0 /\ b \in Books
    BY <1>1, <1>2, Writer DEF Exists
  <2>3. record \in Rows /\ record.id = contact[b].id /\ record.subscribed /\ record.reason = "none"
    BY <2>2 DEF Rows, Reasons
  <2> HIDE DEF b, record, again
  <2>4. b \notin optedOut' \/ b \in overtaken'
    BY <2>1, <2>2 DEF ContactInv, LeftNotPending
  <2>5. /\ ~Pending(record) /\ optedOut' \subseteq optedOut \cup {b}
        /\ consented' \subseteq consented \cup {b} /\ overtaken' \subseteq overtaken \cup {b}
        /\ b \in consented'
        /\ \A c \in Books \ {b} : /\ (c \in consented => c \in consented')
                                  /\ (c \in overtaken => c \in overtaken')
    BY <2>1, <2>3 DEF Pending
  <2> QED
    BY <1>1, <2>1, <2>2, <2>3, <2>4, <2>5, IdleTypes, Writer, Rewrites
<1>3. CASE ~Exists(b, proc[p].id)
  <2>1. UNCHANGED <<contact, history>>
    BY <1>3 DEF WriteOptIn
  <2> QED
    BY <1>1, <2>1, IdleTypes, Gone
<1> QED
  BY <1>2, <1>3

LEMMA WriteOptOutKept ==
  ASSUME ContactInv, NEW p \in Procs, WriteOptOut(p), UNCHANGED overlapped
  PROVE  ContactInv'
<1> DEFINE b == proc[p].book
           record == [contact[b] EXCEPT !.subscribed = FALSE, !.reason = proc[p].reason]
<1>0. PICK r : r = IF proc[p].todo = {} THEN Idle ELSE [proc[p] EXCEPT !.step = "spread"]
  OBVIOUS
<1>1. /\ proc[p].step = "optOut" /\ UNCHANGED <<made, sent, lost, overlapped, consented, overtaken>>
      /\ b \in Books /\ proc \in [Procs -> ProcRecords] /\ contact \in [Books -> Rows]
      /\ proc[p] \in ProcRecords /\ proc[p].reason \in OptOutReasons
  BY Writer DEF WriteOptOut, AtStep, InOrder
<1>2. proc' = [proc EXCEPT ![p] = r]
  BY <1>0, <1>1 DEF WriteOptOut, Return
<1>3. /\ r \in ProcRecords /\ InOrder(r)
      /\ (r.op = "bounce" => proc[p].op = "bounce" /\ r.todo = proc[p].todo)
  BY <1>0, <1>1, IdleTypes DEF ProcRecords, InOrder, Steps
<1>4. ASSUME ~overlapped, r.op = "bounce", NEW c \in Books, contact[c].subscribed,
             ~(c = b /\ contact[b].id = proc[p].id)
      PROVE  <<c, contact[c].id>> \in r.todo
  BY <1>1, <1>3, <1>4 DEF ContactInv, BounceLeaves, Left
<1>5. CASE Exists(b, proc[p].id)
  <2>1. /\ contact' = [contact EXCEPT ![b] = record]
        /\ mailed' = (IF record.subscribed THEN mailed \cup {<<b, record.id>>} ELSE mailed)
        /\ optedOut' = optedOut \cup {b}
    BY <1>5 DEF WriteOptOut, Save
  <2>2. contact[b] \in Rows /\ contact[b].id # 0
    BY <1>1, <1>5 DEF Exists
  <2>3. /\ record \in Rows /\ record.id = contact[b].id /\ ~record.subscribed /\ record.reason = proc[p].reason
    BY <1>1, <2>2 DEF Rows, Reasons, OptOutReasons
  <2>4. proc[p].reason # "none"
    BY <1>1 DEF OptOutReasons
  <2> HIDE DEF b, record
  <2>5. ~overlapped /\ r.op = "bounce" => \A c \in Books : contact'[c].subscribed => Left(r, c)'
    <3> SUFFICES ASSUME ~overlapped, r.op = "bounce", NEW c \in Books, contact'[c].subscribed
                 PROVE  Left(r, c)'
      OBVIOUS
    <3>1. c # b /\ contact'[c] = contact[c]
      BY <1>1, <2>1, <2>3
    <3>2. <<c, contact[c].id>> \in r.todo
      BY <1>4, <3>1
    <3> QED
      BY <3>1, <3>2 DEF Left
  <2>6. ~Pending(record)
    BY <2>3, <2>4 DEF Pending
  <2> QED
    BY <1>1, <1>2, <1>3, <2>1, <2>2, <2>3, <2>5, <2>6, Writer, Rewrites
<1>6. CASE ~Exists(b, proc[p].id)
  <2>1. UNCHANGED <<contact, made, sent, lost, overlapped, history>>
    BY <1>1, <1>6 DEF WriteOptOut, history
  <2>2. ~overlapped /\ r.op = "bounce" => \A c \in Books : contact[c].subscribed => Left(r, c)
    <3> SUFFICES ASSUME ~overlapped, r.op = "bounce", NEW c \in Books, contact[c].subscribed
                 PROVE  Left(r, c)
      OBVIOUS
    <3>1. contact[c].id # 0
      BY DEF ContactInv, RowsInOrder, Nobody
    <3>2. <<c, contact[c].id>> \in r.todo
      BY <1>4, <1>6, <3>1 DEF Exists
    <3> QED
      BY <3>2 DEF Left
  <2> QED
    BY <1>1, <1>2, <1>3, <2>1, <2>2, Gone
<1> QED
  BY <1>5, <1>6

LEMMA ContactInvNext == ContactInv /\ [ContactNext]_vars => ContactInv'
<1> SUFFICES ASSUME ContactInv, [ContactNext]_vars PROVE ContactInv'
  OBVIOUS
<1>1. CASE UNCHANGED vars
  BY <1>1 DEF vars, ContactInv, PendingIsAsked, ContactTypeOK, PendingHasLink, OnlyNewIsPending,
     OptOutHolds, OnlyConfirmedSubscribed, RowsInOrder, IdsInOrder, Made, LeftNotPending, Alone,
     BounceLeaves, Left, AtStep
<1>2. CASE ContactNext
  <2>1. PICK p \in Procs : Starts(p) \/ ((GoesOn(p) \/ Dies(p)) /\ UNCHANGED overlapped)
    BY <1>2 DEF ContactNext
  <2>2. CASE Starts(p)
    BY <2>2, StartsKept
  <2>3. CASE (GoesOn(p) \/ Dies(p)) /\ UNCHANGED overlapped
    BY <2>3, ReadsKept, UpsertKept, WriteUpdateKept, WriteDeleteKept, WriteOptOutKept,
       WriteOptInKept DEF GoesOn
  <2> QED
    BY <2>1, <2>2, <2>3
<1> QED
  BY <1>1, <1>2

LEMMA ContactInvHolds == ContactSpec => []ContactInv
<1> QED
  BY ContactInvInit, ContactInvNext, PTL DEF ContactSpec

\* Nobody waits for a confirmation that was never mailed, unless something
\* was lost: contact-service.ts:136 mails after it wrote the row, and only a
\* row that is new is pending.
THEOREM PendingIsAlwaysAsked == ContactSpec => []PendingIsAsked
<1>1. ContactInv => PendingIsAsked
  BY DEF ContactInv
<1> QED
  BY <1>1, ContactInvHolds, PTL

(***************************************************************************)
(* How a bounce ends.                                                      *)
(***************************************************************************)
LEMMA OwnProcess ==
  ASSUME ContactTypeOK, NEW q \in Procs, Starts(q) \/ GoesOn(q) \/ Dies(q)
  PROVE  \A p \in Procs : p # q => proc'[p] = proc[p]
<1>1. proc \in [Procs -> ProcRecords]
  BY ContactTypes, SMTT(30)
<1>2. CASE Starts(q)
  <2>1. ASSUME NEW r, Begin(q, r) PROVE \A p \in Procs : p # q => proc'[p] = proc[p]
    BY <1>1, <2>1 DEF Begin
  <2> QED
    BY <1>2, <2>1 DEF Starts, Import, Resend, Edit, Unsubscribe, Resubscribe, Bounce, Confirm
<1>3. CASE GoesOn(q)
  <2>1. CASE ReadExisting(q) \/ SendConfirmation(q) \/ ConfirmationFails(q)
    BY <1>1, <2>1 DEF ReadExisting, SendConfirmation, ConfirmationFails, Return
  <2>2. CASE WriteUpdate(q) \/ WriteDelete(q) \/ WriteOptOut(q) \/ WriteOptIn(q)
    BY <1>1, <2>2 DEF WriteUpdate, WriteDelete, WriteOptOut, WriteOptIn, Return
  <2>3. CASE Upsert(q)
    BY <1>1, <2>3 DEF Upsert, Return
  <2>4. CASE Spread(q)
    BY <1>1, <2>4 DEF Spread, Return
  <2> QED
    BY <1>3, <2>1, <2>2, <2>3, <2>4 DEF GoesOn
<1>4. CASE Dies(q)
  BY <1>1, <1>4 DEF Dies
<1> QED
  BY <1>2, <1>3, <1>4

LEMMA BounceEnds ==
  ASSUME ContactInv, [ContactNext]_vars, NEW p \in Procs,
         proc[p].op = "bounce", proc'[p] = Idle, lost' = lost, ~overlapped, NEW b \in Books
  PROVE  ~contact'[b].subscribed
<1>1. /\ ContactTypeOK /\ InOrder(proc[p]) /\ proc[p] \in ProcRecords /\ lost \in Nat
      /\ proc \in [Procs -> ProcRecords] /\ contact \in [Books -> Rows]
  BY ContactTypes DEF ContactInv, PendingIsAsked
<1>2. proc[p] # Idle /\ proc[p].step \in {"spread", "optOut"}
  BY <1>1, IdleTypes DEF InOrder
<1>3. PICK q \in Procs : Starts(q) \/ GoesOn(q) \/ Dies(q)
  BY <1>2 DEF ContactNext, vars
<1>4. q = p
  BY <1>1, <1>2, <1>3, OwnProcess, SMTT(30)
<1>5. ~Starts(p)
  <2>1. ASSUME NEW r, Begin(p, r) PROVE FALSE
    BY <1>2, <2>1 DEF Begin
  <2> QED
    BY <2>1 DEF Starts, Import, Resend, Edit, Unsubscribe, Resubscribe, Bounce, Confirm
<1>6. ~Dies(p)
  BY <1>1 DEF Dies
<1>7. WriteOptOut(p) \/ Spread(p)
  BY <1>2, <1>3, <1>4, <1>5, <1>6 DEF GoesOn, AtStep, ReadExisting, Upsert, SendConfirmation,
     ConfirmationFails, WriteUpdate, WriteDelete, WriteOptIn
<1>8. \A c \in Books : contact[c].subscribed => contact[c].id # 0 /\ Left(proc[p], c)
  BY DEF ContactInv, BounceLeaves, RowsInOrder, Nobody
<1>9. CASE WriteOptOut(p)
  <2>1. proc[p].todo = {}
    BY <1>1, <1>9, IdleTypes DEF WriteOptOut, ProcRecords
  <2>2. contact[b].subscribed => b = proc[p].book /\ Exists(b, proc[p].id)
    BY <1>8, <2>1 DEF Left, Exists
  <2>3. CASE Exists(proc[p].book, proc[p].id)
    <3>1. /\ contact' = [contact EXCEPT ![proc[p].book] =
                           [contact[proc[p].book] EXCEPT !.subscribed = FALSE, !.reason = proc[p].reason]]
          /\ contact[proc[p].book] \in Rows
      BY <1>1, <1>9, <2>3 DEF WriteOptOut, Save, ProcRecords
    <3>2. CASE b = proc[p].book
      BY <1>1, <3>1, <3>2 DEF Rows
    <3>3. CASE b # proc[p].book
      BY <1>1, <2>2, <3>1, <3>3
    <3> QED
      BY <3>2, <3>3
  <2>4. CASE ~Exists(proc[p].book, proc[p].id)
    BY <1>9, <2>2, <2>4 DEF WriteOptOut
  <2> QED
    BY <2>3, <2>4
<1>10. CASE Spread(p)
  <2>1. PICK bi \in proc[p].todo :
          /\ ~(Exists(bi[1], bi[2]) /\ contact[bi[1]].subscribed)
          /\ proc[p].todo \ {bi} = {}
    BY <1>1, <1>2, <1>10, IdleTypes DEF Spread, ProcRecords
  <2>2. contact' = contact /\ proc[p].step = "spread"
    BY <1>10 DEF Spread, AtStep
  <2>3. contact[b].subscribed => bi = <<b, contact[b].id>>
    BY <1>8, <2>1, <2>2 DEF Left
  <2> QED
    BY <1>8, <2>1, <2>2, <2>3 DEF Exists
<1> QED
  BY <1>7, <1>9, <1>10

\* Who opted out stays out, a double opt-in book has only those who
\* confirmed, and a bounce takes the address out of every book
\* (contact-service.ts:60, ses-hook-parser.ts:584).
THEOREM AlwaysSubscribedByConsent == ContactSpec => SubscribedByConsent
<1>1. ContactInv => OptOutHolds /\ OnlyConfirmedSubscribed
  BY DEF ContactInv
<1>2. ContactInv /\ [ContactNext]_vars =>
        [\A p \in Procs :
           (proc[p].op = "bounce" /\ proc'[p] = Idle /\ lost' = lost /\ ~overlapped)
           => \A b \in Books : ~contact'[b].subscribed]_vars
  BY BounceEnds
<1> QED
  BY <1>1, <1>2, ContactInvHolds, PTL DEF ContactSpec, SubscribedByConsent, BounceReachesEveryBook

-----------------------------------------------------------------------------
(***************************************************************************)
(* The ids a batch pages over: a set of them has a least and, being        *)
(* finite, a greatest, and a page is the ones up to its last.              *)
(***************************************************************************)
LEMMA LeastId ==
  ASSUME NEW S, S \subseteq Nat, S # {}
  PROVE  Min(S) \in S /\ \A k \in S : Min(S) <= k
<1> DEFINE Less == { p \in Nat \X Nat : p[1] < p[2] }
<1>1. IsWellFoundedOn(Less, Nat)
  BY NatLessThanWellFounded DEF OpToRel
<1>2. PICK x \in S : \A y \in S : ~ (<< y, x >> \in Less)
  <2> HIDE DEF Less
  <2> QED BY <1>1, WFMin
<1>3. \A y \in S : x <= y
  <2> TAKE y \in S
  <2>1. << y, x >> \in Nat \X Nat /\ ~ (<< y, x >> \in Less)
    BY <1>2
  <2> QED BY <2>1
<1> QED BY <1>3 DEF Min

LEMMA LastId ==
  ASSUME NEW S, S \subseteq Nat, IsFiniteSet(S), S # {}
  PROVE  Max(S) \in S /\ \A k \in S : k <= Max(S)
<1> DEFINE Above(x) == { y \in S : y > x }
           Counts == { Cardinality(Above(x)) : x \in S }
<1>1. \A x \in S : IsFiniteSet(Above(x)) /\ Cardinality(Above(x)) \in Nat
  BY FS_Subset, FS_CardinalityType
<1>2. Counts \subseteq Nat /\ Counts # {}
  BY <1>1
<1>3. PICK x \in S : \A y \in S : Cardinality(Above(x)) <= Cardinality(Above(y))
  <2>1. Min(Counts) \in Counts /\ \A c \in Counts : Min(Counts) <= c
    BY <1>2, LeastId
  <2> QED BY <2>1
<1>4. ASSUME NEW y \in S, y > x  PROVE FALSE
  <2>1. Above(y) \subseteq Above(x) /\ y \in Above(x) /\ y \notin Above(y)
    <3>1. y \in Nat /\ x \in Nat /\ \A z \in S : z \in Nat
      BY <1>4
    <3>2. \A z \in S : z > y => z > x
      BY <1>4, <3>1
    <3>3. Above(y) \subseteq Above(x)
      BY <3>2
    <3>4. y \in Above(x) /\ y \notin Above(y)
      BY <1>4, <3>1
    <3> QED BY <3>3, <3>4
  <2>2. Cardinality(Above(y)) < Cardinality(Above(x))
    <3>1. Cardinality(Above(y)) <= Cardinality(Above(x))
          /\ (Cardinality(Above(y)) = Cardinality(Above(x)) => Above(y) = Above(x))
      BY <1>1, <2>1, FS_Subset
    <3> QED BY <1>1, <2>1, <3>1
  <2> QED BY <1>1, <1>3, <2>2
<1>5. \A y \in S : x >= y
  BY <1>4
<1> QED BY <1>5 DEF Max

LEMMA OfPage ==
  ASSUME NEW S, S \subseteq Contacts
  PROVE  /\ FirstOf(BatchSize, S) \subseteq S
         /\ S # {} => FirstOf(BatchSize, S) # {}
         /\ \A k \in S, j \in FirstOf(BatchSize, S) : k <= j => k \in FirstOf(BatchSize, S)
<1>1. IsFiniteSet(S) /\ S \subseteq Nat
  BY ContactsAssumption, FS_Subset
<1>2. ASSUME S # {}  PROVE FirstOf(BatchSize, S) # {}
  <2>1. Min(S) \in S /\ { j \in S : j <= Min(S) } = { Min(S) }
    <3>1. Min(S) \in S /\ \A j \in S : Min(S) <= j
      BY <1>1, <1>2, LeastId
    <3>2. PICK m : m = Min(S)
      OBVIOUS
    <3>3. m \in Nat /\ \A j \in S : j \in Nat /\ m <= j
      BY <1>1, <3>1, <3>2
    <3>4. \A j \in S : j <= m <=> j = m
      BY <3>3
    <3> QED BY <3>1, <3>2, <3>4
  <2>2. Cardinality({ j \in S : j <= Min(S) }) = 1
    BY <2>1, FS_Singleton
  <2> QED BY <2>1, <2>2, BatchAssumption DEF FirstOf
<1>3. ASSUME NEW k \in S, NEW j \in FirstOf(BatchSize, S), k <= j
      PROVE  k \in FirstOf(BatchSize, S)
  <2> DEFINE To(x) == { y \in S : y <= x }
  <2>1. j \in S /\ To(k) \subseteq To(j) /\ IsFiniteSet(To(j))
    <3>1. j \in S
      BY <1>3 DEF FirstOf
    <3>2. \A y \in S : y <= k => y <= j
      BY <1>1, <1>3, <3>1
    <3>3. IsFiniteSet(To(j))
      BY <1>1, FS_Subset
    <3> QED BY <3>1, <3>2, <3>3
  <2>2. Cardinality(To(k)) <= Cardinality(To(j))
        /\ Cardinality(To(k)) \in Nat /\ Cardinality(To(j)) \in Nat
    BY <2>1, FS_Subset, FS_CardinalityType
  <2> QED BY <1>3, <2>1, <2>2, BatchAssumption DEF FirstOf
<1> QED BY <1>2, <1>3 DEF FirstOf

-----------------------------------------------------------------------------
(***************************************************************************)
(* A campaign's rows, its mails and its runs, for themselves.              *)
(***************************************************************************)
BatchRuns ==
  [pc : BatchPCs, cursor : Contacts \cup {0}, todo : SUBSET Contacts,
   last : Contacts \cup {0}, throws : BOOLEAN]
Campaigns ==
  [status : CampaignStatus \cup {"deleted"}, due : BOOLEAN, cursor : Contacts \cup {0}]
BatchJobs ==
  [state : {"none", "waiting", "active", "failed"}, owner : Slots \cup {0},
   stalls : 0 .. MaxStalled]
Links == [state : {"none", "pending", "failed", "suppressed"}, queued : BOOLEAN]
CampaignRequestTypes == [pc : {"new", "read", "done"}, reset : BOOLEAN]

RunTypes == run \in [Slots -> BatchRuns]
RowTypes ==
  /\ campaign \in Campaigns
  /\ contacts \in [Contacts -> ContactStates]
  /\ request \in [CampaignRequests -> CampaignRequestTypes]
  /\ tick \in BOOLEAN /\ job \in BatchJobs
  /\ steady \subseteq Contacts
  /\ skipping \in BOOLEAN /\ suffered \subseteq CampaignFaults
CountTypes ==
  /\ edits \in 0 .. MaxDisturbances
  /\ held \in [runs : 0 .. MaxStalled + 1, mails : Nat]
MailTypes ==
  /\ link \in [Contacts -> Links]
  /\ loose \in [Contacts -> Nat] /\ sends \in [Contacts -> Nat]

AtContact == {"linking", "queueing", "recording"}
AtOne == \A i \in Slots : run[i].pc \in AtContact => run[i].todo # {}

\* Run i goes to p with S to do; the others stay.
OtherRunsStay(i) ==
  /\ run' \in [Slots -> BatchRuns]
  /\ \A j \in Slots : j # i => run'[j] = run[j]
Shifts(i, p, S) ==
  /\ OtherRunsStay(i)
  /\ run'[i].pc = p /\ run'[i].todo = S
  /\ run'[i].cursor = run[i].cursor /\ run'[i].last = run[i].last
BeginsBatch(i) ==
  /\ OtherRunsStay(i)
  /\ run'[i].pc \in {"leaving", "marking", "finding"}
  /\ run'[i].todo = {} /\ run'[i].last = 0 /\ run'[i].cursor = campaign.cursor
FindsPage(i) ==
  LET fetched == FirstOf(BatchSize, Behind(run[i].cursor)) IN
  /\ OtherRunsStay(i)
  /\ run'[i].pc = IF fetched = {} THEN "finishing" ELSE "checking"
  /\ run'[i].todo = fetched /\ run'[i].cursor = run[i].cursor
  /\ run'[i].last = IF fetched = {} THEN 0 ELSE Max(fetched)
Stops(i) == OtherRunsStay(i) /\ run'[i] = Stopped

LEMMA SlotTypes == /\ IsFiniteSet(Slots) /\ Cardinality(Slots) = MaxStalled + 1
                   /\ Slots \subseteq Nat \ {0}
<1>1. MaxStalled \in Nat
  BY BatchAssumption
<1>2. 1 \in Int /\ MaxStalled + 1 \in Int
  BY <1>1
<1>3. PICK n \in Int : n = MaxStalled + 1
  BY <1>2
<1>4. IsFiniteSet(1 .. n) /\ Cardinality(1 .. n) = IF 1 > n THEN 0 ELSE n - 1 + 1
  <2>1. 1 \in Int
    OBVIOUS
  <2> QED BY <1>3, <2>1, FS_Interval, Zenon
<1> QED BY <1>1, <1>3, <1>4 DEF Slots

LEMMA CurrentIsToDo ==
  ASSUME RunTypes, NEW i \in Slots, run[i].todo # {}
  PROVE  Current(i) \in run[i].todo /\ Current(i) \in Contacts
<1>1. run[i].todo \subseteq Contacts /\ run[i].todo \subseteq Nat
  BY ContactsAssumption DEF RunTypes, BatchRuns
<1>2. Min(run[i].todo) \in run[i].todo
  BY <1>1, LeastId
<1> QED BY <1>1, <1>2 DEF Current

LEMMA ShiftsBySet ==
  ASSUME RunTypes, NEW i \in Slots, NEW s \in BatchPCs, SetRun(i, s)
  PROVE  Shifts(i, s, run[i].todo)
<1>1. run[i] \in BatchRuns
  BY DEF RunTypes
<1>2. [run[i] EXCEPT !.pc = s] \in BatchRuns
  BY <1>1 DEF BatchRuns
<1>3. run' = [run EXCEPT ![i] = [run[i] EXCEPT !.pc = s]]
  BY DEF SetRun
<1> QED BY <1>1, <1>2, <1>3 DEF Shifts, OtherRunsStay, RunTypes, BatchRuns

LEMMA ShiftsByLeaving ==
  ASSUME RunTypes, NEW i \in Slots, LeaveBatch(i) \/ ThrowBatch(i)
  PROVE  Shifts(i, "leaving", run[i].todo)
<1>1. run[i] \in BatchRuns
  BY DEF RunTypes
<1>2. PICK b \in BOOLEAN : run' = [run EXCEPT ![i].pc = "leaving", ![i].throws = b]
  BY DEF LeaveBatch, ThrowBatch
<1>3. PICK r : r = [run[i] EXCEPT !.pc = "leaving", !.throws = b]
  OBVIOUS
<1>4. r \in BatchRuns /\ r.pc = "leaving" /\ r.todo = run[i].todo
      /\ r.cursor = run[i].cursor /\ r.last = run[i].last
  BY <1>1, <1>3 DEF BatchRuns, BatchPCs
<1>5. run' = [run EXCEPT ![i] = r]
  BY <1>2, <1>3 DEF RunTypes
<1> QED BY <1>4, <1>5 DEF Shifts, OtherRunsStay, RunTypes

LEMMA ShiftsByDone ==
  ASSUME RunTypes, NEW i \in Slots, Done(i, "next")
  PROVE  Shifts(i, "next", run[i].todo \ {Current(i)})
<1>1. run[i] \in BatchRuns
  BY DEF RunTypes
<1>2. PICK k : k = Current(i)
  OBVIOUS
<1>3. run' = [run EXCEPT ![i].pc = "next", ![i].todo = @ \ {k}]
  BY <1>2 DEF Done
<1>4. PICK r : r = [run[i] EXCEPT !.pc = "next", !.todo = @ \ {k}]
  OBVIOUS
<1>5. r \in BatchRuns /\ r.pc = "next" /\ r.todo = run[i].todo \ {k}
      /\ r.cursor = run[i].cursor /\ r.last = run[i].last
  BY <1>1, <1>4 DEF BatchRuns, BatchPCs
<1>6. run' = [run EXCEPT ![i] = r]
  BY <1>3, <1>4 DEF RunTypes
<1> QED BY <1>2, <1>5, <1>6 DEF Shifts, OtherRunsStay, RunTypes

LEMMA StoppedTypes == Stopped \in BatchRuns
BY DEF Stopped, BatchRuns, BatchPCs

LEMMA BeginsByStart ==
  ASSUME RunTypes, RowTypes, NEW i \in Slots, StartBatch(i)
  PROVE  BeginsBatch(i)
<1>1. PICK p \in {"leaving", "marking", "finding"} :
        run' = [run EXCEPT ![i] = [Stopped EXCEPT !.cursor = campaign.cursor, !.pc = p]]
  BY DEF StartBatch
<1>2. PICK r : r = [Stopped EXCEPT !.cursor = campaign.cursor, !.pc = p]
  OBVIOUS
<1>3. campaign.cursor \in Contacts \cup {0}
  BY DEF RowTypes, Campaigns
<1>4. r \in BatchRuns /\ r.pc = p /\ r.todo = {} /\ r.last = 0 /\ r.cursor = campaign.cursor
  BY <1>2, <1>3 DEF Stopped, BatchRuns, BatchPCs
<1> QED BY <1>1, <1>2, <1>4 DEF BeginsBatch, OtherRunsStay, RunTypes

LEMMA BehindTypes == \A c : Behind(c) \subseteq Contacts
BY DEF Behind, Subscribed

LEMMA PageByFind ==
  ASSUME RunTypes, NEW i \in Slots, FindContacts(i)
  PROVE  FindsPage(i)
<1> DEFINE fetched == FirstOf(BatchSize, Behind(run[i].cursor))
<1>1. fetched \subseteq Contacts /\ IsFiniteSet(fetched) /\ fetched \subseteq Nat
  BY ContactsAssumption, BehindTypes, OfPage, FS_Subset
<1>2. PICK m : m = IF fetched = {} THEN 0 ELSE Max(fetched)
  OBVIOUS
<1>3. m \in Contacts \cup {0}
  BY <1>1, <1>2, LastId
<1>4. PICK p \in {"finishing", "checking"} : p = IF fetched = {} THEN "finishing" ELSE "checking"
  OBVIOUS
<1> HIDE DEF fetched
<1>5. run' = [run EXCEPT ![i].pc = p, ![i].todo = fetched, ![i].last = m]
  BY <1>2, <1>4 DEF FindContacts, fetched
<1>6. run[i] \in BatchRuns
  BY DEF RunTypes
<1>7. PICK r : r = [run[i] EXCEPT !.pc = p, !.todo = fetched, !.last = m]
  OBVIOUS
<1>8. r \in BatchRuns /\ r.pc = p /\ r.todo = fetched /\ r.last = m /\ r.cursor = run[i].cursor
  BY <1>1, <1>3, <1>6, <1>7 DEF BatchRuns, BatchPCs
<1>9. run' = [run EXCEPT ![i] = r]
  BY <1>5, <1>7 DEF RunTypes
<1>10. OtherRunsStay(i) /\ run'[i] = r
  BY <1>8, <1>9 DEF OtherRunsStay, RunTypes
<1> QED BY <1>2, <1>4, <1>8, <1>10 DEF FindsPage, fetched

LEMMA ShiftsByChecking ==
  ASSUME RunTypes, NEW i \in Slots, CheckExisting(i)
  PROVE  Shifts(i, "next", { k \in run[i].todo : link[k].state = "none" })
<1>1. run[i] \in BatchRuns
  BY DEF RunTypes
<1>2. PICK S : S = { k \in run[i].todo : link[k].state = "none" }
  OBVIOUS
<1>3. run' = [run EXCEPT ![i].pc = "next", ![i].todo = S]
  BY <1>2 DEF CheckExisting, RunTypes
<1>4. PICK r : r = [run[i] EXCEPT !.pc = "next", !.todo = S]
  OBVIOUS
<1>5. S \subseteq run[i].todo
  BY <1>2
<1>6. r \in BatchRuns /\ r.pc = "next" /\ r.todo = S
      /\ r.cursor = run[i].cursor /\ r.last = run[i].last
  BY <1>1, <1>4, <1>5 DEF BatchRuns, BatchPCs
<1>7. run' = [run EXCEPT ![i] = r]
  BY <1>3, <1>4 DEF RunTypes
<1> QED BY <1>2, <1>6, <1>7 DEF Shifts, OtherRunsStay, RunTypes

(***************************************************************************)
(* Why a contact is mailed once.  Each link is made from none and its mail *)
(* queued by the run that made it, so mails, runs about to queue one and   *)
(* a link still to be made are one together; once the links are deleted,   *)
(* two.  And an email has lost no link without being counted as loose.     *)
(***************************************************************************)
RunsAt(k, s) == { i \in Slots : run[i].pc = s /\ Current(i) = k }
ToBeLinked(k) == IF link[k].state = "none" THEN 1 ELSE 0
Unqueued(k) == IF link[k].state # "none" /\ ~link[k].queued THEN 1 ELSE 0

MailsPerLink ==
  \A k \in Contacts :
    sends[k] + Cardinality(RunsAt(k, "queueing")) + ToBeLinked(k)
      <= IF CampaignExists THEN 1 ELSE 2
EmailsAreLoose ==
  \A k \in Contacts :
    loose[k] + Unqueued(k)
      >= Cardinality(RunsAt(k, "linking")) + Cardinality(RunsAt(k, "queueing"))
NoneIsQueued == \A k \in Contacts : link[k].state = "none" => ~link[k].queued

MailCounts == MailTypes /\ MailsPerLink /\ EmailsAreLoose /\ NoneIsQueued

LEMMA RunsAtFinite ==
  \A k, s : IsFiniteSet(RunsAt(k, s)) /\ Cardinality(RunsAt(k, s)) \in Nat
BY SlotTypes, FS_Subset, FS_CardinalityType DEF RunsAt

LEMMA AlsoFinite ==
  \A k, s : IsFiniteSet(RunsAt(k, s)') /\ Cardinality(RunsAt(k, s)') \in Nat
BY SlotTypes, FS_Subset, FS_CardinalityType DEF RunsAt

LEMMA Moved ==
  ASSUME RunTypes, NEW i \in Slots, OtherRunsStay(i), NEW k, NEW s
  PROVE  \E c \in Nat :
           /\ Cardinality(RunsAt(k, s))
              = IF run[i].pc = s /\ Current(i) = k THEN c + 1 ELSE c
           /\ Cardinality(RunsAt(k, s)')
              = IF run'[i].pc = s /\ Current(i)' = k THEN c + 1 ELSE c
<1>1. PICK D : D = RunsAt(k, s) \ {i}
  OBVIOUS
<1>2. D = RunsAt(k, s)' \ {i}
  <2>1. \A j \in Slots \ {i} : run'[j] = run[j] /\ Current(j)' = Current(j)
    BY DEF OtherRunsStay, Current
  <2> QED BY <1>1, <2>1 DEF RunsAt
<1>3. IsFiniteSet(D) /\ Cardinality(D) \in Nat /\ i \notin D
  BY <1>1, RunsAtFinite, FS_Subset, FS_CardinalityType
<1>4. Cardinality(D \cup {i}) = Cardinality(D) + 1
  BY <1>3, FS_AddElement
<1>5. RunsAt(k, s) = IF run[i].pc = s /\ Current(i) = k THEN D \cup {i} ELSE D
  BY <1>1 DEF RunsAt
<1>6. RunsAt(k, s)' = IF run'[i].pc = s /\ Current(i)' = k THEN D \cup {i} ELSE D
  BY <1>2 DEF RunsAt
<1> QED BY <1>3, <1>4, <1>5, <1>6

LEMMA Tallies ==
  ASSUME NEW k \in Contacts
  PROVE  /\ ToBeLinked(k) \in {0, 1} /\ Unqueued(k) \in {0, 1}
         /\ ToBeLinked(k)' \in {0, 1} /\ Unqueued(k)' \in {0, 1}
BY Zenon DEF ToBeLinked, Unqueued

\* A run that does not get to link or queue leaves the counts as they are.
LEMMA FewerRuns ==
  ASSUME RunTypes, MailCounts, NEW i \in Slots, OtherRunsStay(i),
         run'[i].pc \notin {"linking", "queueing"},
         UNCHANGED mailVars, CampaignExists' = CampaignExists
  PROVE  MailCounts'
<1>1. MailTypes' /\ NoneIsQueued'
  BY DEF MailCounts, MailTypes, NoneIsQueued, mailVars
<1>2. ASSUME NEW k \in Contacts
      PROVE  /\ Cardinality(RunsAt(k, "queueing")') <= Cardinality(RunsAt(k, "queueing"))
             /\ Cardinality(RunsAt(k, "linking")') <= Cardinality(RunsAt(k, "linking"))
             /\ Cardinality(RunsAt(k, "queueing")) \in Nat /\ Cardinality(RunsAt(k, "queueing")') \in Nat
             /\ Cardinality(RunsAt(k, "linking")) \in Nat /\ Cardinality(RunsAt(k, "linking")') \in Nat
  <2>1. PICK c \in Nat :
           /\ Cardinality(RunsAt(k, "queueing"))
              = IF run[i].pc = "queueing" /\ Current(i) = k THEN c + 1 ELSE c
           /\ Cardinality(RunsAt(k, "queueing")')
              = IF run'[i].pc = "queueing" /\ Current(i)' = k THEN c + 1 ELSE c
    BY Moved
  <2>2. PICK d \in Nat :
           /\ Cardinality(RunsAt(k, "linking"))
              = IF run[i].pc = "linking" /\ Current(i) = k THEN d + 1 ELSE d
           /\ Cardinality(RunsAt(k, "linking")')
              = IF run'[i].pc = "linking" /\ Current(i)' = k THEN d + 1 ELSE d
    BY Moved
  <2> QED BY <2>1, <2>2
<1>3. ASSUME NEW k \in Contacts
      PROVE  /\ ToBeLinked(k)' = ToBeLinked(k) /\ Unqueued(k)' = Unqueued(k)
             /\ loose'[k] = loose[k] /\ sends'[k] = sends[k]
             /\ loose[k] \in Nat /\ sends[k] \in Nat
  BY DEF ToBeLinked, Unqueued, mailVars, MailCounts, MailTypes
<1>4. MailsPerLink'
  <2> SUFFICES ASSUME NEW k \in Contacts
        PROVE  sends'[k] + Cardinality(RunsAt(k, "queueing")') + ToBeLinked(k)'
                 <= IF CampaignExists' THEN 1 ELSE 2
    BY DEF MailsPerLink
  <2>1. sends[k] + Cardinality(RunsAt(k, "queueing")) + ToBeLinked(k)
          <= IF CampaignExists THEN 1 ELSE 2
    BY DEF MailCounts, MailsPerLink
  <2> QED BY <1>2, <1>3, <2>1, Tallies
<1>5. EmailsAreLoose'
  <2> SUFFICES ASSUME NEW k \in Contacts
        PROVE  loose'[k] + Unqueued(k)'
                 >= Cardinality(RunsAt(k, "linking")') + Cardinality(RunsAt(k, "queueing")')
    BY DEF EmailsAreLoose
  <2>1. loose[k] + Unqueued(k)
          >= Cardinality(RunsAt(k, "linking")) + Cardinality(RunsAt(k, "queueing"))
    BY DEF MailCounts, EmailsAreLoose
  <2> QED BY <1>2, <1>3, <2>1, Tallies
<1> QED BY <1>1, <1>4, <1>5 DEF MailCounts

\* What run i does to the mail of its contact, and where it goes, keeps the
\* counts if it does so at that contact.
LEMMA Recount ==
  ASSUME RunTypes, MailCounts, NEW i \in Slots, OtherRunsStay(i), NEW k0 \in Contacts,
         MailTypes', CampaignExists' = CampaignExists,
         \A k \in Contacts :
           k # k0 => link'[k] = link[k] /\ loose'[k] = loose[k] /\ sends'[k] = sends[k],
         run[i].pc \in {"linking", "queueing"} => Current(i) = k0,
         run'[i].pc \in {"linking", "queueing"} => Current(i)' = k0,
         link'[k0].state = "none" => ~link'[k0].queued,
         NEW q \in {0, 1}, q = IF run[i].pc = "queueing" THEN 1 ELSE 0,
         NEW p \in {0, 1}, p = IF run'[i].pc = "queueing" THEN 1 ELSE 0,
         NEW l \in {0, 1}, l = IF run[i].pc = "linking" THEN 1 ELSE 0,
         NEW m \in {0, 1}, m = IF run'[i].pc = "linking" THEN 1 ELSE 0,
         sends'[k0] + p + ToBeLinked(k0)' <= sends[k0] + q + ToBeLinked(k0),
         loose'[k0] + Unqueued(k0)' + l + q >= loose[k0] + Unqueued(k0) + m + p
  PROVE  MailCounts'
<1>1. NoneIsQueued'
  <2>1. ASSUME NEW k \in Contacts, link'[k].state = "none"  PROVE ~link'[k].queued
    <3>1. CASE k = k0
      BY <2>1, <3>1
    <3>2. CASE k # k0
      BY <2>1, <3>2, Zenon DEF MailCounts, NoneIsQueued
    <3> QED BY <3>1, <3>2
  <2> QED BY <2>1 DEF NoneIsQueued
<1>2. ASSUME NEW k \in Contacts
      PROVE  /\ sends'[k] + Cardinality(RunsAt(k, "queueing")') + ToBeLinked(k)'
                  <= IF CampaignExists' THEN 1 ELSE 2
             /\ loose'[k] + Unqueued(k)'
                  >= Cardinality(RunsAt(k, "linking")') + Cardinality(RunsAt(k, "queueing")')
  <2>1. PICK c \in Nat :
           /\ Cardinality(RunsAt(k, "queueing"))
              = IF run[i].pc = "queueing" /\ Current(i) = k THEN c + 1 ELSE c
           /\ Cardinality(RunsAt(k, "queueing")')
              = IF run'[i].pc = "queueing" /\ Current(i)' = k THEN c + 1 ELSE c
    BY Moved
  <2>2. PICK d \in Nat :
           /\ Cardinality(RunsAt(k, "linking"))
              = IF run[i].pc = "linking" /\ Current(i) = k THEN d + 1 ELSE d
           /\ Cardinality(RunsAt(k, "linking")')
              = IF run'[i].pc = "linking" /\ Current(i)' = k THEN d + 1 ELSE d
    BY Moved
  <2>3. /\ sends[k] + Cardinality(RunsAt(k, "queueing")) + ToBeLinked(k)
            <= IF CampaignExists THEN 1 ELSE 2
        /\ loose[k] + Unqueued(k)
            >= Cardinality(RunsAt(k, "linking")) + Cardinality(RunsAt(k, "queueing"))
    BY DEF MailCounts, MailsPerLink, EmailsAreLoose
  <2>4. /\ sends[k] \in Nat /\ loose[k] \in Nat /\ sends'[k] \in Nat /\ loose'[k] \in Nat
        /\ ToBeLinked(k) \in Nat /\ ToBeLinked(k)' \in Nat
        /\ Unqueued(k) \in Nat /\ Unqueued(k)' \in Nat
    BY Tallies DEF MailCounts, MailTypes
  <2>5. CASE k = k0
    <3>1. Cardinality(RunsAt(k, "queueing")) = c + q /\ Cardinality(RunsAt(k, "queueing")') = c + p
      BY <2>1, <2>5
    <3>2. Cardinality(RunsAt(k, "linking")) = d + l /\ Cardinality(RunsAt(k, "linking")') = d + m
      BY <2>2, <2>5
    <3> QED BY <2>3, <2>4, <2>5, <3>1, <3>2
  <2>6. CASE k # k0
    <3>1. Cardinality(RunsAt(k, "queueing")) = c /\ Cardinality(RunsAt(k, "queueing")') = c
      BY <2>1, <2>6
    <3>2. Cardinality(RunsAt(k, "linking")) = d /\ Cardinality(RunsAt(k, "linking")') = d
      BY <2>2, <2>6
    <3>3. ToBeLinked(k)' = ToBeLinked(k) /\ Unqueued(k)' = Unqueued(k)
      BY <2>6 DEF ToBeLinked, Unqueued
    <3> QED BY <2>3, <2>4, <2>6, <3>1, <3>2, <3>3
  <2> QED BY <2>5, <2>6
<1> QED BY <1>1, <1>2 DEF MailCounts, MailsPerLink, EmailsAreLoose

LEMMA CreateEmailCounts ==
  ASSUME RunTypes, MailCounts, NEW i \in Slots, CreateEmail(i)
  PROVE  MailCounts'
<1>1. PICK k0 \in Contacts : k0 = Current(i)
  BY CurrentIsToDo DEF CreateEmail
<1>2. Shifts(i, "linking", run[i].todo) /\ run[i].pc = "next"
  BY ShiftsBySet DEF CreateEmail, BatchPCs
<1>3. Current(i)' = k0
  BY <1>1, <1>2 DEF Shifts, Current
<1>4. loose' = [loose EXCEPT ![k0] = @ + 1] /\ link' = link /\ sends' = sends
      /\ campaign' = campaign
  BY <1>1 DEF CreateEmail
<1>5. /\ loose[k0] \in Nat /\ sends[k0] \in Nat
      /\ MailTypes /\ loose \in [Contacts -> Nat]
  BY DEF MailCounts, MailTypes
<1>6. MailTypes' /\ loose'[k0] = loose[k0] + 1 /\ CampaignExists' = CampaignExists
  BY <1>4, <1>5 DEF MailTypes, CampaignExists
<1>7. ToBeLinked(k0)' = ToBeLinked(k0) /\ Unqueued(k0)' = Unqueued(k0)
  BY <1>4 DEF ToBeLinked, Unqueued
<1>8. link'[k0].state = "none" => ~link'[k0].queued
  BY <1>4, Zenon DEF MailCounts, NoneIsQueued
<1>9. \A k \in Contacts :
        k # k0 => link'[k] = link[k] /\ loose'[k] = loose[k] /\ sends'[k] = sends[k]
  BY <1>4, <1>5
<1>10. /\ sends'[k0] + 0 + ToBeLinked(k0)' <= sends[k0] + 0 + ToBeLinked(k0)
       /\ loose'[k0] + Unqueued(k0)' + 0 + 0 >= loose[k0] + Unqueued(k0) + 1 + 0
  BY <1>4, <1>5, <1>6, <1>7, Tallies
<1>11. OtherRunsStay(i) /\ run'[i].pc = "linking"
  BY <1>2 DEF Shifts
<1> QED BY <1>2, <1>3, <1>6, <1>8, <1>9, <1>10, <1>11, Recount

LEMMA QueueEmailCounts ==
  ASSUME RunTypes, AtOne, MailCounts, NEW i \in Slots, QueueEmail(i)
  PROVE  MailCounts'
<1>1. PICK k0 \in Contacts : k0 = Current(i)
  BY CurrentIsToDo DEF QueueEmail, AtOne, AtContact
<1>2. Shifts(i, "next", run[i].todo \ {Current(i)}) /\ run[i].pc = "queueing"
  BY ShiftsByDone DEF QueueEmail
<1>3. /\ sends' = [sends EXCEPT ![k0] = @ + 1] /\ loose' = loose /\ campaign' = campaign
      /\ link' = [link EXCEPT ![k0].queued = link[k0].state # "none"]
  BY <1>1 DEF QueueEmail
<1>4. /\ loose[k0] \in Nat /\ sends[k0] \in Nat
      /\ loose \in [Contacts -> Nat] /\ sends \in [Contacts -> Nat]
      /\ link \in [Contacts -> Links] /\ link[k0] \in Links
  BY DEF MailCounts, MailTypes
<1>5. PICK b \in BOOLEAN : b = (link[k0].state # "none")
  OBVIOUS
<1>6. PICK e : e = [link[k0] EXCEPT !.queued = b]
  OBVIOUS
<1>7. e \in Links /\ e.state = link[k0].state /\ e.queued = b
  BY <1>4, <1>6 DEF Links
<1>8. link' = [link EXCEPT ![k0] = e]
  BY <1>3, <1>4, <1>5, <1>6
<1>9. link'[k0] = e /\ sends'[k0] = sends[k0] + 1 /\ MailTypes' /\ CampaignExists' = CampaignExists
  BY <1>3, <1>4, <1>7, <1>8 DEF MailTypes, CampaignExists
<1>10. ToBeLinked(k0)' = ToBeLinked(k0)
  BY <1>7, <1>9 DEF ToBeLinked
<1>11. link'[k0].state = "none" => ~link'[k0].queued
  BY <1>5, <1>7, <1>9, Zenon
<1>12. Unqueued(k0)' + 1 >= Unqueued(k0)
  BY Tallies
<1>13. \A k \in Contacts :
        k # k0 => link'[k] = link[k] /\ loose'[k] = loose[k] /\ sends'[k] = sends[k]
  BY <1>3, <1>4, <1>8
<1>14. /\ sends'[k0] + 0 + ToBeLinked(k0)' <= sends[k0] + 1 + ToBeLinked(k0)
       /\ loose'[k0] + Unqueued(k0)' + 0 + 1 >= loose[k0] + Unqueued(k0) + 0 + 0
  BY <1>3, <1>4, <1>9, <1>10, <1>12, Tallies
<1>15. OtherRunsStay(i) /\ run'[i].pc = "next"
  BY <1>2 DEF Shifts
<1> QED BY <1>1, <1>2, <1>9, <1>11, <1>13, <1>14, <1>15, Recount

LEMMA RecordFailureCounts ==
  ASSUME RunTypes, AtOne, MailCounts, NEW i \in Slots, RecordFailure(i)
  PROVE  MailCounts'
<1>1. PICK k0 \in Contacts : k0 = Current(i)
  BY CurrentIsToDo DEF RecordFailure, AtOne, AtContact
<1>2. Shifts(i, "next", run[i].todo \ {Current(i)}) /\ run[i].pc = "recording"
  BY ShiftsByDone DEF RecordFailure
<1>3. /\ link' = [link EXCEPT ![k0].state = "failed"] /\ sends' = sends /\ campaign' = campaign
      /\ loose' = [loose EXCEPT ![k0] = IF link[k0].state = "none" /\ @ > 0 THEN @ - 1 ELSE @]
  BY <1>1 DEF RecordFailure
<1>4. /\ loose[k0] \in Nat /\ sends[k0] \in Nat
      /\ loose \in [Contacts -> Nat] /\ sends \in [Contacts -> Nat]
      /\ link \in [Contacts -> Links] /\ link[k0] \in Links
  BY DEF MailCounts, MailTypes
<1>5. PICK n : n = IF link[k0].state = "none" /\ loose[k0] > 0 THEN loose[k0] - 1 ELSE loose[k0]
  OBVIOUS
<1>6. n \in Nat
  BY <1>4, <1>5
<1>7. PICK e : e = [link[k0] EXCEPT !.state = "failed"]
  OBVIOUS
<1>8. e \in Links /\ e.state = "failed" /\ e.queued = link[k0].queued
  BY <1>4, <1>7 DEF Links
<1>9. link' = [link EXCEPT ![k0] = e] /\ loose' = [loose EXCEPT ![k0] = n]
  BY <1>3, <1>4, <1>5, <1>7
<1>10. link'[k0] = e /\ loose'[k0] = n /\ MailTypes' /\ CampaignExists' = CampaignExists
  BY <1>3, <1>4, <1>6, <1>8, <1>9 DEF MailTypes, CampaignExists
<1>11. ToBeLinked(k0)' = 0
  BY <1>8, <1>10 DEF ToBeLinked
<1>12. link'[k0].state = "none" => ~link'[k0].queued
  BY <1>8, <1>10
<1>13. Unqueued(k0)' = IF link[k0].state = "none" THEN 1 ELSE Unqueued(k0)
  <2>1. CASE link[k0].state = "none"
    <3>1. ~link[k0].queued
      BY <2>1, Zenon DEF MailCounts, NoneIsQueued
    <3>2. link'[k0].state # "none" /\ ~link'[k0].queued
      BY <1>8, <1>10, <3>1
    <3> QED BY <2>1, <3>2 DEF Unqueued
  <2>2. CASE link[k0].state # "none"
    BY <1>8, <1>10, <2>2 DEF Unqueued
  <2> QED BY <2>1, <2>2
<1>14. link[k0].state = "none" => Unqueued(k0) = 0
  BY DEF Unqueued
<1>15. \A k \in Contacts :
        k # k0 => link'[k] = link[k] /\ loose'[k] = loose[k] /\ sends'[k] = sends[k]
  BY <1>3, <1>4, <1>9
<1>16. /\ sends'[k0] + 0 + ToBeLinked(k0)' <= sends[k0] + 0 + ToBeLinked(k0)
       /\ loose'[k0] + Unqueued(k0)' + 0 + 0 >= loose[k0] + Unqueued(k0) + 0 + 0
  BY <1>3, <1>4, <1>5, <1>6, <1>10, <1>11, <1>13, <1>14, Tallies
<1>17. OtherRunsStay(i) /\ run'[i].pc = "next"
  BY <1>2 DEF Shifts
<1> QED BY <1>2, <1>10, <1>12, <1>15, <1>16, <1>17, Recount

\* What LinkEmail does: a link there is already, one for a suppressed contact,
\* or one for a mail to be queued.
LinksNone(i, k0) ==
  /\ link[k0].state # "none" /\ UNCHANGED << link, loose >>
  /\ Shifts(i, "recording", run[i].todo)
LinksAs(i, k0, s) ==
  /\ link[k0].state = "none" /\ link' = [link EXCEPT ![k0].state = s]
  /\ loose' = [loose EXCEPT ![k0] = @ - 1]

LEMMA LinkEmailCases ==
  ASSUME RunTypes, AtOne, NEW i \in Slots, LinkEmail(i)
  PROVE  \E k0 \in Contacts :
           /\ k0 = Current(i) /\ k0 \in run[i].todo /\ run[i].pc = "linking"
           /\ UNCHANGED << campaign, bookVars, request, tick, job, sends, held, skipping,
                           suffered >>
           /\ \/ LinksNone(i, k0)
              \/ LinksAs(i, k0, "suppressed") /\ Shifts(i, "next", run[i].todo \ {k0})
              \/ LinksAs(i, k0, "pending") /\ Shifts(i, "queueing", run[i].todo)
<1>1. PICK k0 \in Contacts : k0 = Current(i) /\ k0 \in run[i].todo
  BY CurrentIsToDo DEF LinkEmail, AtOne, AtContact
<1>2. SetRun(i, "recording") => Shifts(i, "recording", run[i].todo)
  BY ShiftsBySet DEF BatchPCs
<1>3. SetRun(i, "queueing") => Shifts(i, "queueing", run[i].todo)
  BY ShiftsBySet DEF BatchPCs
<1>4. Done(i, "next") => Shifts(i, "next", run[i].todo \ {k0})
  BY <1>1, ShiftsByDone
<1> QED BY <1>1, <1>2, <1>3, <1>4 DEF LinkEmail, LinksNone, LinksAs

LEMMA LinkedAs ==
  ASSUME RunTypes, MailCounts, NEW i \in Slots, NEW k0 \in Contacts, k0 = Current(i),
         run[i].pc = "linking", UNCHANGED << campaign, sends >>,
         NEW s \in {"pending", "suppressed"}, LinksAs(i, k0, s)
  PROVE  /\ MailTypes' /\ CampaignExists' = CampaignExists
         /\ link'[k0].state = s /\ ~link'[k0].queued /\ loose'[k0] = loose[k0] - 1
         /\ \A k \in Contacts :
              k # k0 => link'[k] = link[k] /\ loose'[k] = loose[k] /\ sends'[k] = sends[k]
         /\ ToBeLinked(k0) = 1 /\ ToBeLinked(k0)' = 0
         /\ Unqueued(k0) = 0 /\ Unqueued(k0)' = 1
<1>1. /\ loose[k0] \in Nat /\ sends[k0] \in Nat
      /\ loose \in [Contacts -> Nat] /\ sends \in [Contacts -> Nat]
      /\ link \in [Contacts -> Links] /\ link[k0] \in Links
  BY DEF MailCounts, MailTypes
<1>2. link[k0].state = "none" /\ ~link[k0].queued
  <2>1. link[k0].state = "none"
    BY DEF LinksAs
  <2> QED BY <2>1, Zenon DEF MailCounts, NoneIsQueued
<1>3. ToBeLinked(k0) = 1 /\ Unqueued(k0) = 0
  BY <1>2 DEF ToBeLinked, Unqueued
<1>4. loose[k0] - 1 \in Nat
  <2>1. i \in RunsAt(k0, "linking")
    BY DEF RunsAt
  <2>2. Cardinality(RunsAt(k0, "linking")) >= 1
    <3>1. Cardinality(RunsAt(k0, "linking")) # 0
      BY <2>1, RunsAtFinite, FS_EmptySet
    <3> QED BY <3>1, RunsAtFinite
  <2>3. loose[k0] + Unqueued(k0)
          >= Cardinality(RunsAt(k0, "linking")) + Cardinality(RunsAt(k0, "queueing"))
    BY DEF MailCounts, EmailsAreLoose
  <2>4. PICK c \in Nat : c = Cardinality(RunsAt(k0, "linking"))
    BY RunsAtFinite
  <2>5. PICK d \in Nat : d = Cardinality(RunsAt(k0, "queueing"))
    BY RunsAtFinite
  <2> QED BY <1>1, <1>3, <2>2, <2>3, <2>4, <2>5
<1>5. PICK e : e = [link[k0] EXCEPT !.state = s]
  OBVIOUS
<1>6. e \in Links /\ e.state = s /\ e.queued = link[k0].queued
  BY <1>1, <1>5 DEF Links
<1>7. link' = [link EXCEPT ![k0] = e] /\ loose' = [loose EXCEPT ![k0] = loose[k0] - 1]
  BY <1>1, <1>5 DEF LinksAs
<1>8. link'[k0] = e /\ loose'[k0] = loose[k0] - 1 /\ MailTypes' /\ CampaignExists' = CampaignExists
  BY <1>1, <1>4, <1>6, <1>7 DEF MailTypes, CampaignExists
<1>9. link'[k0].state = s /\ ~link'[k0].queued
  BY <1>2, <1>6, <1>8
<1>10. ToBeLinked(k0)' = 0
  BY <1>9 DEF ToBeLinked
<1>11. Unqueued(k0)' = 1
  <2>1. link'[k0].state # "none" /\ ~link'[k0].queued
    BY <1>9
  <2> QED BY <2>1 DEF Unqueued
<1>12. \A k \in Contacts :
        k # k0 => link'[k] = link[k] /\ loose'[k] = loose[k] /\ sends'[k] = sends[k]
  BY <1>1, <1>7
<1> QED BY <1>3, <1>8, <1>9, <1>10, <1>11, <1>12

LEMMA LinkEmailCounts ==
  ASSUME RunTypes, AtOne, MailCounts, NEW i \in Slots, LinkEmail(i)
  PROVE  MailCounts'
<1>1. PICK k0 \in Contacts :
           /\ k0 = Current(i) /\ k0 \in run[i].todo /\ run[i].pc = "linking"
           /\ UNCHANGED << campaign, bookVars, request, tick, job, sends, held, skipping,
                           suffered >>
           /\ \/ LinksNone(i, k0)
              \/ LinksAs(i, k0, "suppressed") /\ Shifts(i, "next", run[i].todo \ {k0})
              \/ LinksAs(i, k0, "pending") /\ Shifts(i, "queueing", run[i].todo)
  BY LinkEmailCases
<1>2. CASE LinksNone(i, k0)
  <2>1. UNCHANGED mailVars /\ CampaignExists' = CampaignExists
    BY <1>1, <1>2 DEF LinksNone, mailVars, CampaignExists
  <2>2. OtherRunsStay(i) /\ run'[i].pc = "recording"
    BY <1>2 DEF LinksNone, Shifts
  <2> QED BY <2>1, <2>2, FewerRuns
<1>3. CASE LinksAs(i, k0, "suppressed") /\ Shifts(i, "next", run[i].todo \ {k0})
  <2>1. /\ MailTypes' /\ CampaignExists' = CampaignExists
        /\ link'[k0].state = "suppressed" /\ ~link'[k0].queued /\ loose'[k0] = loose[k0] - 1
        /\ \A k \in Contacts :
              k # k0 => link'[k] = link[k] /\ loose'[k] = loose[k] /\ sends'[k] = sends[k]
        /\ ToBeLinked(k0) = 1 /\ ToBeLinked(k0)' = 0
        /\ Unqueued(k0) = 0 /\ Unqueued(k0)' = 1
    BY <1>1, <1>3, LinkedAs
  <2>2. OtherRunsStay(i) /\ run'[i].pc = "next"
    BY <1>3 DEF Shifts
  <2>3. loose[k0] \in Nat /\ sends[k0] \in Nat /\ sends'[k0] = sends[k0]
    BY <1>1 DEF MailCounts, MailTypes
  <2>4. /\ sends'[k0] + 0 + ToBeLinked(k0)' <= sends[k0] + 0 + ToBeLinked(k0)
        /\ loose'[k0] + Unqueued(k0)' + 1 + 0 >= loose[k0] + Unqueued(k0) + 0 + 0
    BY <2>1, <2>3
  <2> QED BY <1>1, <2>1, <2>2, <2>4, Recount
<1>4. CASE LinksAs(i, k0, "pending") /\ Shifts(i, "queueing", run[i].todo)
  <2>1. /\ MailTypes' /\ CampaignExists' = CampaignExists
        /\ link'[k0].state = "pending" /\ ~link'[k0].queued /\ loose'[k0] = loose[k0] - 1
        /\ \A k \in Contacts :
              k # k0 => link'[k] = link[k] /\ loose'[k] = loose[k] /\ sends'[k] = sends[k]
        /\ ToBeLinked(k0) = 1 /\ ToBeLinked(k0)' = 0
        /\ Unqueued(k0) = 0 /\ Unqueued(k0)' = 1
    BY <1>1, <1>4, LinkedAs
  <2>2. OtherRunsStay(i) /\ run'[i].pc = "queueing" /\ Current(i)' = k0
    BY <1>1, <1>4 DEF Shifts, Current
  <2>3. loose[k0] \in Nat /\ sends[k0] \in Nat /\ sends'[k0] = sends[k0]
    BY <1>1 DEF MailCounts, MailTypes
  <2>4. /\ sends'[k0] + 1 + ToBeLinked(k0)' <= sends[k0] + 0 + ToBeLinked(k0)
        /\ loose'[k0] + Unqueued(k0)' + 1 + 0 >= loose[k0] + Unqueued(k0) + 0 + 1
    BY <2>1, <2>3
  <2> QED BY <1>1, <2>1, <2>2, <2>4, Recount
<1> QED BY <1>1, <1>2, <1>3, <1>4

LEMMA DeleteCampaignCounts ==
  ASSUME RunTypes, MailCounts, RowTypes, NEW r, DeleteCampaign(r)
  PROVE  MailCounts' /\ ~CampaignExists' /\ CampaignExists /\ run' = run
<1>1. /\ CampaignExists /\ run' = run /\ sends' = sends
      /\ campaign' = [campaign EXCEPT !.status = "deleted"]
      /\ link' = [k \in Contacts |-> NoMail]
      /\ loose' = [k \in Contacts |->
                 IF Reached(k) /\ ~link[k].queued THEN loose[k] + 1 ELSE loose[k]]
  BY DEF DeleteCampaign
<1>2. ~CampaignExists'
  BY <1>1 DEF CampaignExists, RowTypes, Campaigns
<1>3. NoMail \in Links /\ NoMail.state = "none" /\ NoMail.queued = FALSE
  BY DEF NoMail, Links
<1>4. ASSUME NEW k \in Contacts
      PROVE  /\ link'[k].state = "none" /\ ~link'[k].queued
             /\ loose'[k] = loose[k] + Unqueued(k) /\ loose[k] \in Nat /\ sends[k] \in Nat
             /\ ToBeLinked(k)' = 1 /\ Unqueued(k)' = 0
  <2>1. link'[k].state = "none" /\ ~link'[k].queued
    BY <1>1, <1>3
  <2>2. loose[k] \in Nat /\ sends[k] \in Nat
    BY DEF MailCounts, MailTypes
  <2>3. CASE Reached(k) /\ ~link[k].queued
    <3>1. loose'[k] = loose[k] + 1
      BY <1>1, <2>3
    <3>2. Unqueued(k) = 1
      BY <2>3 DEF Unqueued, Reached
    <3> QED BY <2>1, <2>2, <3>1, <3>2 DEF ToBeLinked, Unqueued
  <2>4. CASE ~(Reached(k) /\ ~link[k].queued)
    <3>1. loose'[k] = loose[k]
      BY <1>1, <2>4
    <3>2. Unqueued(k) = 0
      BY <2>4 DEF Unqueued, Reached
    <3> QED BY <2>1, <2>2, <3>1, <3>2 DEF ToBeLinked, Unqueued
  <2> QED BY <2>3, <2>4
<1>5. MailTypes'
  <2>1. link' \in [Contacts -> Links]
    BY <1>1, <1>3
  <2>2. \A k \in Contacts : loose'[k] \in Nat
    BY <1>4, Tallies
  <2>3. loose' \in [Contacts -> Nat]
    BY <1>1, <2>2
  <2> QED BY <1>1, <2>1, <2>3 DEF MailCounts, MailTypes
<1>6. NoneIsQueued'
  BY <1>4 DEF NoneIsQueued
<1>7. ASSUME NEW k \in Contacts
      PROVE  /\ sends'[k] + Cardinality(RunsAt(k, "queueing")') + ToBeLinked(k)'
                  <= IF CampaignExists' THEN 1 ELSE 2
             /\ loose'[k] + Unqueued(k)'
                  >= Cardinality(RunsAt(k, "linking")') + Cardinality(RunsAt(k, "queueing")')
  <2>1. RunsAt(k, "linking")' = RunsAt(k, "linking") /\ RunsAt(k, "queueing")' = RunsAt(k, "queueing")
    BY <1>1 DEF RunsAt, Current
  <2>2. /\ sends[k] + Cardinality(RunsAt(k, "queueing")) + ToBeLinked(k) <= 1
        /\ loose[k] + Unqueued(k)
            >= Cardinality(RunsAt(k, "linking")) + Cardinality(RunsAt(k, "queueing"))
    BY <1>1 DEF MailCounts, MailsPerLink, EmailsAreLoose
  <2>3. PICK c \in Nat : c = Cardinality(RunsAt(k, "queueing"))
    BY RunsAtFinite
  <2>4. PICK d \in Nat : d = Cardinality(RunsAt(k, "linking"))
    BY RunsAtFinite
  <2> QED BY <1>1, <1>2, <1>4, <2>1, <2>2, <2>3, <2>4, Tallies
<1> QED BY <1>1, <1>2, <1>5, <1>6, <1>7 DEF MailCounts, MailsPerLink, EmailsAreLoose

\* Nothing of what the counts are about changes.
LEMMA CountsStay ==
  ASSUME MailCounts, run' = run, UNCHANGED mailVars, CampaignExists' = CampaignExists
  PROVE  MailCounts'
BY DEF MailCounts, MailTypes, MailsPerLink, EmailsAreLoose, NoneIsQueued, RunsAt, Current,
       ToBeLinked, Unqueued, mailVars

(***************************************************************************)
(* Where each of a run's steps takes it, and that a campaign's rows stay    *)
(* rows.                                                                   *)
(***************************************************************************)
LEMMA MovesOf ==
  ASSUME RunTypes, NEW i \in Slots
  PROVE  /\ MarkRunning(i) => Shifts(i, "finding", run[i].todo)
         /\ MarkSent(i) \/ DomainMissing(i) \/ AdvanceCursor(i) \/ BatchThrows(i)
              => Shifts(i, "leaving", run[i].todo)
         /\ CreateEmail(i) => Shifts(i, "linking", run[i].todo)
         /\ QueueEmail(i) \/ RecordFailure(i) \/ RecordThrows(i)
              => Shifts(i, "next", run[i].todo \ {Current(i)})
         /\ EndContacts(i) => Shifts(i, "advancing", run[i].todo)
         /\ \A f : ContactThrows(i, f) => Shifts(i, "recording", run[i].todo)
         /\ FinishBatch(i) \/ Stall(i, "crash") => Stops(i)
         /\ Stall(i, "stall") => run' = run
<1>1. \A s \in BatchPCs : SetRun(i, s) => Shifts(i, s, run[i].todo)
  BY ShiftsBySet
<1>2. {"finding", "linking", "advancing", "recording"} \subseteq BatchPCs
  BY DEF BatchPCs
<1>3. LeaveBatch(i) \/ ThrowBatch(i) => Shifts(i, "leaving", run[i].todo)
  BY ShiftsByLeaving
<1>4. Done(i, "next") => Shifts(i, "next", run[i].todo \ {Current(i)})
  BY ShiftsByDone
<1>5. MarkRunning(i) => Shifts(i, "finding", run[i].todo)
  BY <1>1, <1>2 DEF MarkRunning
<1>6. MarkSent(i) \/ DomainMissing(i) \/ AdvanceCursor(i) \/ BatchThrows(i)
        => Shifts(i, "leaving", run[i].todo)
  BY <1>3 DEF MarkSent, DomainMissing, AdvanceCursor, BatchThrows
<1>7. CreateEmail(i) => Shifts(i, "linking", run[i].todo)
  BY <1>1, <1>2 DEF CreateEmail
<1>8. QueueEmail(i) \/ RecordFailure(i) \/ RecordThrows(i)
        => Shifts(i, "next", run[i].todo \ {Current(i)})
  BY <1>4 DEF QueueEmail, RecordFailure, RecordThrows
<1>9. EndContacts(i) => Shifts(i, "advancing", run[i].todo)
  BY <1>1, <1>2 DEF EndContacts
<1>10. \A f : ContactThrows(i, f) => Shifts(i, "recording", run[i].todo)
  BY <1>1, <1>2 DEF ContactThrows
<1>11. run' = [run EXCEPT ![i] = Stopped] => Stops(i)
  BY StoppedTypes DEF Stops, OtherRunsStay, RunTypes
<1>12. FinishBatch(i) \/ Stall(i, "crash") => Stops(i)
  BY <1>11 DEF FinishBatch, Stall
<1>13. Stall(i, "stall") => run' = run
  BY DEF Stall
<1> QED BY <1>5, <1>6, <1>7, <1>8, <1>9, <1>10, <1>12, <1>13

LEMMA RowSteps ==
  ASSUME RowTypes
  PROVE  /\ \A s \in CampaignStatus :
              campaign' = [campaign EXCEPT !.status = s]
              => campaign' \in Campaigns /\ CampaignExists' /\ campaign'.cursor = campaign.cursor
                 /\ campaign'.status = s
         /\ campaign' = [campaign EXCEPT !.due = TRUE]
              => campaign' \in Campaigns /\ campaign'.cursor = campaign.cursor
                 /\ campaign'.status = campaign.status
         /\ \A c \in Contacts \cup {0} :
              campaign' = [campaign EXCEPT !.cursor = c]
              => campaign' \in Campaigns /\ campaign'.cursor = c
                 /\ campaign'.status = campaign.status
BY DEF RowTypes, Campaigns, CampaignExists, CampaignStatus

LEMMA Suffers ==
  ASSUME RowTypes, CountTypes, NEW f \in CampaignFaults, Suffer(f)
  PROVE  suffered' = suffered \cup {f} /\ suffered' \subseteq CampaignFaults
BY DEF Suffer, RowTypes

LEMMA RequestRows ==
  ASSUME RowTypes, NEW r \in CampaignRequests, Request(r)
  PROVE  /\ RowTypes' /\ run' = run /\ job' = job /\ suffered' = suffered
         /\ contacts' = contacts /\ steady' = steady /\ skipping' = skipping /\ edits' = edits
         /\ DeleteCampaign(r) \/ (UNCHANGED mailVars /\ CampaignExists' = CampaignExists
                                  /\ (CampaignExists =>
                                        /\ campaign'.cursor \in {campaign.cursor, 0}
                                        /\ campaign'.status # "SENT" \/ campaign' = campaign))
<1>1. /\ campaign \in Campaigns /\ request \in [CampaignRequests -> CampaignRequestTypes]
      /\ request[r] \in CampaignRequestTypes
  BY DEF RowTypes
<1>2. CASE ReadForSchedule(r)
  <2>1. PICK b \in BOOLEAN : request' = [request EXCEPT ![r] = [pc |-> "read", reset |-> b]]
    <3>1. PICK b \in BOOLEAN : b = (campaign.status \in {"DRAFT", "SENT"})
      <4>1. (campaign.status \in {"DRAFT", "SENT"}) \in BOOLEAN
        OBVIOUS
      <4> QED BY <4>1
    <3>2. request' = [request EXCEPT ![r] = [pc |-> "read", reset |-> b]]
      BY <1>2, <3>1 DEF ReadForSchedule
    <3> QED BY <3>2
  <2>2. [pc |-> "read", reset |-> b] \in CampaignRequestTypes
    BY DEF CampaignRequestTypes
  <2>3. request' \in [CampaignRequests -> CampaignRequestTypes]
    BY <1>1, <2>1, <2>2
  <2> QED BY <1>2, <2>3 DEF ReadForSchedule, RowTypes, CampaignExists, mailVars, bookVars
<1>3. \A p \in {"done"} : request' = [request EXCEPT ![r].pc = p]
        => request' \in [CampaignRequests -> CampaignRequestTypes]
  BY <1>1 DEF CampaignRequestTypes
<1>4. CASE WriteSchedule(r)
  <2>1. request' \in [CampaignRequests -> CampaignRequestTypes]
    BY <1>3, <1>4 DEF WriteSchedule
  <2>2. CASE ~CampaignExists /\ UNCHANGED campaign
    BY <1>4, <2>1, <2>2 DEF WriteSchedule, RowTypes, CampaignExists, mailVars, bookVars
  <2>3. CASE CampaignExists /\ ~(UNCHANGED campaign)
    <3>1. PICK d \in BOOLEAN, c \in {campaign.cursor, 0} :
            campaign' = [status |-> "SCHEDULED", due |-> d, cursor |-> c]
      BY <1>4, <2>3 DEF WriteSchedule
    <3>2. campaign' \in Campaigns /\ CampaignExists' /\ campaign'.status = "SCHEDULED"
          /\ campaign'.cursor = c
      BY <1>1, <3>1 DEF Campaigns, CampaignStatus, CampaignExists
    <3> QED BY <1>4, <2>1, <2>3, <3>1, <3>2 DEF WriteSchedule, RowTypes, mailVars, bookVars
  <2>4. CASE UNCHANGED campaign
    BY <1>4, <2>1, <2>4 DEF WriteSchedule, RowTypes, CampaignExists, mailVars, bookVars
  <2> QED BY <1>4, <2>2, <2>3, <2>4 DEF WriteSchedule
<1>5. CASE \E s \in {"PAUSED", "RUNNING", "SCHEDULED"} : SetStatus(r, s)
  <2>1. PICK s \in {"PAUSED", "RUNNING", "SCHEDULED"} : SetStatus(r, s)
    BY <1>5
  <2>2. s \in CampaignStatus
    BY DEF CampaignStatus
  <2>3. campaign' \in Campaigns /\ CampaignExists' /\ campaign'.cursor = campaign.cursor
        /\ campaign'.status = s
    BY <2>1, <2>2, RowSteps DEF SetStatus
  <2>4. request' \in [CampaignRequests -> CampaignRequestTypes]
    BY <1>3, <2>1 DEF SetStatus
  <2> QED BY <2>1, <2>3, <2>4 DEF SetStatus, RowTypes, CampaignExists, mailVars, bookVars
<1>6. CASE DeleteCampaign(r)
  <2>1. campaign' \in Campaigns
    BY <1>1, <1>6 DEF DeleteCampaign, Campaigns
  <2>2. request' \in [CampaignRequests -> CampaignRequestTypes]
    BY <1>3, <1>6 DEF DeleteCampaign
  <2> QED BY <1>6, <2>1, <2>2 DEF DeleteCampaign, RowTypes, bookVars
<1>7. PauseCampaign(r) \/ ResumeCampaign(r) => \E s \in {"PAUSED", "RUNNING", "SCHEDULED"} : SetStatus(r, s)
  BY DEF PauseCampaign, ResumeCampaign
<1> QED BY <1>2, <1>4, <1>5, <1>6, <1>7 DEF Request

\* Time, the scheduler and the book.
OutsideSteps ==
  \/ ScheduledTimePasses \/ SchedulerTick \/ QueueBatch
  \/ \E k \in Contacts : EditContact(k)

LEMMA OutsideRows ==
  ASSUME RowTypes, OutsideSteps
  PROVE  /\ RowTypes' /\ run' = run /\ suffered' = suffered /\ skipping' = skipping
         /\ UNCHANGED mailVars /\ CampaignExists' = CampaignExists
         /\ campaign'.cursor = campaign.cursor /\ campaign'.status = campaign.status
         /\ job'.owner = job.owner /\ (job'.state = "active" <=> job.state = "active")
         /\ steady' \subseteq steady /\ \A k \in steady' : contacts'[k] = contacts[k]
<1>1. campaign \in Campaigns /\ contacts \in [Contacts -> ContactStates] /\ job \in BatchJobs
      /\ steady \subseteq Contacts
  BY DEF RowTypes
<1>2. CASE ScheduledTimePasses
  <2>1. campaign' \in Campaigns /\ campaign'.cursor = campaign.cursor
        /\ campaign'.status = campaign.status
    BY <1>2, RowSteps DEF ScheduledTimePasses
  <2> QED BY <1>2, <2>1 DEF ScheduledTimePasses, RowTypes, CampaignExists, bookVars
<1>3. CASE SchedulerTick
  BY <1>3 DEF SchedulerTick, RowTypes, CampaignExists, bookVars
<1>4. CASE QueueBatch
  <2>1. job' \in BatchJobs /\ job'.owner = job.owner /\ (job'.state = "active" <=> job.state = "active")
    BY <1>1, <1>4 DEF QueueBatch, BatchJobs
  <2> QED BY <1>4, <2>1 DEF QueueBatch, RowTypes, CampaignExists, bookVars
<1>5. CASE \E k \in Contacts : EditContact(k)
  <2>1. PICK k \in Contacts : EditContact(k)
    BY <1>5
  <2>2. PICK s \in ContactStates : contacts' = [contacts EXCEPT ![k] = s]
    BY <2>1 DEF EditContact, ContactStates
  <2>3. contacts' \in [Contacts -> ContactStates] /\ \A j \in Contacts \ {k} : contacts'[j] = contacts[j]
    BY <1>1, <2>2
  <2>4. steady' = steady \ {k}
    BY <2>1 DEF EditContact
  <2> QED BY <1>1, <2>1, <2>3, <2>4 DEF EditContact, RowTypes, CampaignExists
<1> QED BY <1>2, <1>3, <1>4, <1>5 DEF OutsideSteps

\* What a step of a run does to the rows.
StepsWithMail(i) == CreateEmail(i) \/ LinkEmail(i) \/ QueueEmail(i) \/ RecordFailure(i)

LEMMA StepRows ==
  ASSUME RowTypes, RunTypes, CountTypes, NEW i \in Slots,
         BatchStep(i) \/ (\E f \in {"stall", "crash"} : Stall(i, f))
  PROVE  /\ campaign' \in Campaigns /\ CampaignExists' = CampaignExists
         /\ suffered' \subseteq CampaignFaults /\ suffered \subseteq suffered'
         /\ UNCHANGED << contacts, edits, steady, request, tick >>
         /\ campaign'.cursor # campaign.cursor
              => AdvanceCursor(i) /\ campaign'.cursor = run[i].last
         /\ campaign'.status = "SENT" => campaign.status = "SENT" \/ MarkSent(i)
         /\ skipping' \in BOOLEAN
         /\ StepsWithMail(i) \/ UNCHANGED mailVars
<1>1. campaign \in Campaigns /\ job \in BatchJobs /\ run[i] \in BatchRuns
      /\ suffered \subseteq CampaignFaults
  BY DEF RowTypes, RunTypes
<1>2. run[i].last \in Contacts \cup {0}
  BY <1>1 DEF BatchRuns
<1>3. \A f \in CampaignFaults :
        Suffer(f) => suffered' \subseteq CampaignFaults /\ suffered \subseteq suffered'
  BY Suffers
<1>4. {"stall", "crash", "db", "render", "redis", "domain"} = CampaignFaults
  BY DEF CampaignFaults
<1>5. CASE StartBatch(i)
  BY <1>1, <1>5 DEF StartBatch, RowTypes, CampaignExists, bookVars
<1>6. CASE MarkRunning(i)
  <2>1. campaign' \in Campaigns /\ CampaignExists' /\ campaign'.cursor = campaign.cursor
        /\ campaign'.status = "RUNNING"
    BY <1>6, RowSteps DEF MarkRunning, CampaignStatus
  <2> QED BY <1>1, <1>6, <2>1 DEF MarkRunning, RowTypes, bookVars
<1>7. CASE FindContacts(i)
  <2>1. (run[i].cursor # 0 /\ contacts[run[i].cursor] # "subscribed") \in BOOLEAN
    OBVIOUS
  <2>2. skipping' \in BOOLEAN
    BY <1>7, <2>1, Zenon DEF FindContacts, RowTypes
  <2> QED BY <1>1, <1>7, <2>2 DEF FindContacts, RowTypes, CampaignExists, bookVars
<1>8. CASE MarkSent(i)
  <2>1. campaign' \in Campaigns /\ CampaignExists' /\ campaign'.cursor = campaign.cursor
    BY <1>8, RowSteps DEF MarkSent, CampaignStatus
  <2> QED BY <1>1, <1>8, <2>1 DEF MarkSent, RowTypes, bookVars
<1>9. CASE DomainMissing(i)
  BY <1>1, <1>3, <1>4, <1>9 DEF DomainMissing, RowTypes, CampaignExists, bookVars
<1>10. CASE CheckExisting(i)
  BY <1>1, <1>10 DEF CheckExisting, RowTypes, CampaignExists, bookVars
<1>11. CASE CreateEmail(i)
  BY <1>1, <1>11 DEF CreateEmail, RowTypes, CampaignExists, bookVars, StepsWithMail
<1>12. CASE LinkEmail(i)
  BY <1>1, <1>12 DEF LinkEmail, RowTypes, CampaignExists, bookVars, StepsWithMail
<1>13. CASE QueueEmail(i)
  BY <1>1, <1>13 DEF QueueEmail, RowTypes, CampaignExists, bookVars, StepsWithMail
<1>14. CASE RecordFailure(i)
  BY <1>1, <1>14 DEF RecordFailure, RowTypes, CampaignExists, bookVars, StepsWithMail
<1>15. CASE RecordThrows(i)
  BY <1>1, <1>3, <1>4, <1>15 DEF RecordThrows, RowTypes, CampaignExists, bookVars
<1>16. CASE EndContacts(i)
  BY <1>1, <1>16 DEF EndContacts, RowTypes, CampaignExists, bookVars
<1>17. CASE AdvanceCursor(i)
  <2>1. campaign' \in Campaigns /\ campaign'.cursor = run[i].last
        /\ campaign'.status = campaign.status
    BY <1>2, <1>17, RowSteps DEF AdvanceCursor
  <2> QED BY <1>1, <1>17, <2>1 DEF AdvanceCursor, RowTypes, CampaignExists, bookVars
<1>18. CASE BatchThrows(i)
  BY <1>1, <1>3, <1>4, <1>18 DEF BatchThrows, RowTypes, CampaignExists, bookVars
<1>19. CASE FinishBatch(i)
  BY <1>1, <1>19 DEF FinishBatch, RowTypes, CampaignExists, bookVars
<1>20. CASE \E f \in {"render", "db", "redis"} : ContactThrows(i, f)
  BY <1>1, <1>3, <1>4, <1>20 DEF ContactThrows, RowTypes, CampaignExists, bookVars
<1>21. CASE \E f \in {"stall", "crash"} : Stall(i, f)
  BY <1>1, <1>3, <1>4, <1>21 DEF Stall, RowTypes, CampaignExists, bookVars
<1> QED BY <1>5, <1>6, <1>7, <1>8, <1>9, <1>10, <1>11, <1>12, <1>13, <1>14, <1>15, <1>16,
           <1>17, <1>18, <1>19, <1>20, <1>21 DEF BatchStep

(***************************************************************************)
(* The job has an owner while it is active, and as long as no worker has   *)
(* stalled its owner is the one run there is.                              *)
(***************************************************************************)
NoStall == "stall" \notin suffered
ActiveHasOwner == job.state = "active" <=> job.owner # 0
OneRun == NoStall => \A i \in Slots : run[i].pc # "idle" <=> job.owner = i
JobHeld == ActiveHasOwner /\ OneRun /\ AtOne

LEMMA AloneNow ==
  ASSUME JobHeld, NoStall, NEW i \in Slots, run[i].pc # "idle"
  PROVE  \A j \in Slots : j # i => run[j].pc = "idle"
BY DEF JobHeld, OneRun, NoStall

\* A run under way that takes a step of its own leaves the job alone.
LEMMA JobStays ==
  ASSUME RunTypes, JobHeld, NEW i \in Slots, NEW p, NEW S, Shifts(i, p, S), p # "idle",
         p \in AtContact => S # {},
         run[i].pc # "idle", job' = job, suffered \subseteq suffered'
  PROVE  JobHeld'
<1>1. OneRun'
  <2> SUFFICES ASSUME NoStall', NEW j \in Slots
               PROVE  run'[j].pc # "idle" <=> job'.owner = j
    BY DEF OneRun
  <2>1. run[j].pc # "idle" <=> job.owner = j
    BY DEF JobHeld, OneRun, NoStall
  <2>2. run'[j].pc # "idle" <=> run[j].pc # "idle"
    BY DEF Shifts, OtherRunsStay
  <2> QED BY <2>1, <2>2
<1>2. AtOne'
  BY DEF JobHeld, AtOne, Shifts, OtherRunsStay
<1> QED BY <1>1, <1>2 DEF JobHeld, ActiveHasOwner

LEMMA StartJob ==
  ASSUME RunTypes, RowTypes, JobHeld, NEW i \in Slots, StartBatch(i)
  PROVE  JobHeld' /\ job' \in BatchJobs
<1>1. /\ job' = [job EXCEPT !.state = "active", !.owner = i]
      /\ job.state = "waiting" /\ suffered' = suffered
  BY DEF StartBatch
<1>2. job' \in BatchJobs /\ job'.state = "active" /\ job'.owner = i /\ i # 0 /\ job.owner = 0
  BY <1>1, SlotTypes DEF RowTypes, BatchJobs, JobHeld, ActiveHasOwner
<1>3. BeginsBatch(i)
  BY BeginsByStart
<1>4. OneRun'
  <2> SUFFICES ASSUME NoStall', NEW j \in Slots
               PROVE  run'[j].pc # "idle" <=> job'.owner = j
    BY DEF OneRun
  <2>1. run[j].pc # "idle" <=> job.owner = j
    BY <1>1 DEF JobHeld, OneRun, NoStall
  <2>2. run'[j].pc # "idle" <=> j = i
    BY <1>2, <1>3, <2>1, SlotTypes DEF BeginsBatch, OtherRunsStay
  <2> QED BY <1>2, <2>2
<1>5. AtOne'
  BY <1>3 DEF JobHeld, AtOne, BeginsBatch, OtherRunsStay, AtContact
<1> QED BY <1>2, <1>4, <1>5 DEF JobHeld, ActiveHasOwner

\* The job without its run: failed, gone, or waiting for another.
LEMMA Ownerless ==
  ASSUME RowTypes, job.owner # 0,
         \/ job' = [job EXCEPT !.state = "failed", !.owner = 0]
         \/ job' = NoBatch
         \/ /\ job.stalls < MaxStalled
            /\ job' = [state |-> "waiting", owner |-> 0, stalls |-> job.stalls + 1]
  PROVE  job' \in BatchJobs /\ job'.owner = 0 /\ job'.state # "active"
<1>1. job \in BatchJobs /\ MaxStalled \in Nat
  BY BatchAssumption DEF RowTypes
<1>2. CASE job' = [job EXCEPT !.state = "failed", !.owner = 0]
  BY <1>1, <1>2 DEF BatchJobs
<1>3. CASE job' = NoBatch
  BY <1>1, <1>3 DEF BatchJobs, NoBatch
<1>4. CASE /\ job.stalls < MaxStalled
           /\ job' = [state |-> "waiting", owner |-> 0, stalls |-> job.stalls + 1]
  <2>1. PICK n : n = job.stalls + 1
    OBVIOUS
  <2>2. n \in 0 .. MaxStalled
    BY <1>1, <1>4, <2>1 DEF BatchJobs
  <2>3. job' = [state |-> "waiting", owner |-> 0, stalls |-> n]
    BY <1>4, <2>1
  <2> QED BY <2>2, <2>3 DEF BatchJobs
<1> QED BY <1>2, <1>3, <1>4

LEMMA EndJob ==
  ASSUME RunTypes, RowTypes, JobHeld, NEW i \in Slots,
         FinishBatch(i) \/ Stall(i, "crash") \/ Stall(i, "stall")
  PROVE  JobHeld' /\ job' \in BatchJobs
<1>1. job \in BatchJobs /\ MaxStalled \in Nat /\ i # 0
  BY BatchAssumption, SlotTypes DEF RowTypes
<1>2. CASE FinishBatch(i) /\ job.owner # i
  <2>1. job' = job /\ suffered' = suffered /\ Stops(i) /\ run[i].pc = "leaving"
    BY <1>2, MovesOf DEF FinishBatch
  <2>2. ~NoStall'
    BY <1>2, <2>1 DEF NoStall, JobHeld, OneRun
  <2>3. AtOne'
    BY <2>1 DEF JobHeld, AtOne, Stops, OtherRunsStay, Stopped, AtContact
  <2> QED BY <1>1, <2>1, <2>2, <2>3 DEF JobHeld, OneRun, ActiveHasOwner
<1>3. CASE (FinishBatch(i) /\ job.owner = i) \/ Stall(i, "crash")
  <2>1. /\ job.owner = i /\ Stops(i) /\ job' \in BatchJobs /\ job'.owner = 0
        /\ job'.state # "active" /\ suffered \subseteq suffered'
    <3>1. job.owner = i /\ Stops(i) /\ suffered \subseteq suffered'
      BY <1>3, MovesOf DEF FinishBatch, Stall, Suffer
    <3>2. CASE FinishBatch(i) /\ job.owner = i
      BY <1>1, <3>1, <3>2, Ownerless DEF FinishBatch
    <3>3. CASE Stall(i, "crash")
      BY <1>1, <3>1, <3>3, Ownerless DEF Stall
    <3> QED BY <1>3, <3>1, <3>2, <3>3
  <2>2. OneRun'
    <3> SUFFICES ASSUME NoStall', NEW j \in Slots
                 PROVE  run'[j].pc # "idle" <=> job'.owner = j
      BY DEF OneRun
    <3>1. run[j].pc # "idle" <=> j = i
      BY <2>1 DEF JobHeld, OneRun, NoStall
    <3>2. run'[j].pc = "idle"
      BY <2>1, <3>1 DEF Stops, OtherRunsStay, Stopped
    <3> QED BY <2>1, <3>2, SlotTypes
  <2>3. AtOne'
    BY <2>1 DEF JobHeld, AtOne, Stops, OtherRunsStay, Stopped, AtContact
  <2> QED BY <2>1, <2>2, <2>3 DEF JobHeld, ActiveHasOwner
<1>4. CASE Stall(i, "stall")
  <2>1. /\ job' \in BatchJobs /\ job'.owner = 0 /\ job'.state # "active"
    BY <1>1, <1>4, Ownerless DEF Stall
  <2>2. run' = run /\ ~NoStall'
    BY <1>4, MovesOf DEF Stall, Suffer, NoStall
  <2> QED BY <2>1, <2>2 DEF JobHeld, ActiveHasOwner, OneRun, AtOne
<1> QED BY <1>2, <1>3, <1>4

LEMMA StepJob ==
  ASSUME RowTypes, RunTypes, CountTypes, JobHeld, NEW i \in Slots,
         BatchStep(i) \/ (\E f \in {"stall", "crash"} : Stall(i, f))
  PROVE  JobHeld' /\ job' \in BatchJobs /\ RunTypes'
<1>1. suffered \subseteq suffered'
  BY StepRows
<1>2. job \in BatchJobs
  BY DEF RowTypes
<1>3. CASE StartBatch(i)
  BY <1>3, StartJob, BeginsByStart DEF BeginsBatch, OtherRunsStay, RunTypes
<1>4. CASE FinishBatch(i) \/ (\E f \in {"stall", "crash"} : Stall(i, f))
  BY <1>4, EndJob, MovesOf DEF Stops, OtherRunsStay, RunTypes
<1>5. CASE FindContacts(i)
  <2>1. FindsPage(i) /\ run[i].pc = "finding" /\ job' = job
    BY <1>5, PageByFind DEF FindContacts
  <2>2. OneRun'
    <3> SUFFICES ASSUME NoStall', NEW j \in Slots
                 PROVE  run'[j].pc # "idle" <=> job'.owner = j
      BY DEF OneRun
    <3>1. run[j].pc # "idle" <=> job.owner = j
      BY <1>1 DEF JobHeld, OneRun, NoStall
    <3>2. run'[j].pc # "idle" <=> run[j].pc # "idle"
      BY <2>1 DEF FindsPage, OtherRunsStay
    <3> QED BY <2>1, <3>1, <3>2
  <2>3. AtOne'
    BY <2>1 DEF JobHeld, AtOne, FindsPage, OtherRunsStay, AtContact
  <2> QED BY <1>2, <2>1, <2>2, <2>3 DEF JobHeld, ActiveHasOwner, RunTypes, FindsPage, OtherRunsStay
<1>6. ASSUME NEW p, NEW S, Shifts(i, p, S), p # "idle", p \in AtContact => S # {},
             run[i].pc # "idle", job' = job
      PROVE  JobHeld' /\ job' \in BatchJobs /\ RunTypes'
  BY <1>1, <1>2, <1>6, JobStays DEF Shifts, OtherRunsStay, RunTypes
<1>7. CASE MarkRunning(i)
  BY <1>6, <1>7, MovesOf DEF MarkRunning, AtContact
<1>8. CASE MarkSent(i) \/ DomainMissing(i) \/ AdvanceCursor(i) \/ BatchThrows(i)
  <2>1. Shifts(i, "leaving", run[i].todo)
    BY <1>8, MovesOf
  <2>2. run[i].pc # "idle" /\ job' = job
    BY <1>8 DEF MarkSent, DomainMissing, AdvanceCursor, BatchThrows
  <2> QED BY <1>6, <2>1, <2>2 DEF AtContact
<1>9. CASE CheckExisting(i)
  BY <1>6, <1>9, ShiftsByChecking DEF CheckExisting, AtContact
<1>10. CASE CreateEmail(i)
  BY <1>6, <1>10, MovesOf DEF CreateEmail
<1>11. CASE LinkEmail(i)
  <2>1. PICK k0 \in Contacts :
           /\ k0 = Current(i) /\ k0 \in run[i].todo /\ run[i].pc = "linking"
           /\ UNCHANGED << campaign, bookVars, request, tick, job, sends, held, skipping,
                           suffered >>
           /\ \/ LinksNone(i, k0)
              \/ LinksAs(i, k0, "suppressed") /\ Shifts(i, "next", run[i].todo \ {k0})
              \/ LinksAs(i, k0, "pending") /\ Shifts(i, "queueing", run[i].todo)
    BY <1>11, LinkEmailCases DEF JobHeld
  <2>2. \E p \in {"recording", "queueing"} : Shifts(i, p, run[i].todo)
        \/ Shifts(i, "next", run[i].todo \ {k0})
    BY <2>1 DEF LinksNone
  <2> QED BY <1>6, <2>1, <2>2 DEF AtContact
<1>12. CASE QueueEmail(i) \/ RecordFailure(i) \/ RecordThrows(i)
  <2>1. Shifts(i, "next", run[i].todo \ {Current(i)})
    BY <1>12, MovesOf
  <2>2. run[i].pc # "idle" /\ job' = job
    BY <1>12 DEF QueueEmail, RecordFailure, RecordThrows
  <2> QED BY <1>6, <2>1, <2>2 DEF AtContact
<1>13. CASE EndContacts(i)
  BY <1>6, <1>13, MovesOf DEF EndContacts, AtContact
<1>14. CASE \E f \in {"render", "db", "redis"} : ContactThrows(i, f)
  <2>1. Shifts(i, "recording", run[i].todo)
    BY <1>14, MovesOf
  <2>2. run[i].pc # "idle" /\ job' = job /\ run[i].todo # {}
    BY <1>14 DEF ContactThrows, JobHeld, AtOne, AtContact
  <2> QED BY <1>6, <2>1, <2>2
<1> QED BY <1>3, <1>4, <1>5, <1>7, <1>8, <1>9, <1>10, <1>11, <1>12, <1>13, <1>14 DEF BatchStep

\* The faults there have been leave what they may not break.
Fine == suffered \cap {"stall", "crash", "db"} = {}

(***************************************************************************)
(* As long as no worker has stalled, what a run has still to do has no     *)
(* mail yet, and what it is at none that was queued; so none that failed   *)
(* was queued.  As long as none died either and no write failed, an email  *)
(* without a link and a link without a job are those a run is at.          *)
(***************************************************************************)
PageOf(i) ==
  run[i].pc \in {"next", "linking", "queueing", "recording"} =>
    /\ \A k \in run[i].todo :
         k # Current(i) \/ run[i].pc \in {"next", "linking"} => link[k].state = "none"
    /\ run[i].pc \in {"queueing", "recording"} =>
         link[Current(i)].state \in {"none", "pending"} /\ ~link[Current(i)].queued
PageUnmailed == NoStall => \A i \in Slots : PageOf(i)
FailedUnqueued ==
  NoStall => \A k \in Contacts : link[k].state = "failed" => ~link[k].queued
LooseHeld(k) ==
  CampaignExists /\ loose[k] > 0 =>
    loose[k] = 1 /\ \E i \in Slots : run[i].pc = "linking" /\ k = Current(i)
PendingHeld(k) ==
  link[k].state = "pending" /\ ~link[k].queued =>
    \E i \in Slots : run[i].pc \in {"queueing", "recording"} /\ k = Current(i)
NoneLost == Fine => \A k \in Contacts : LooseHeld(k) /\ PendingHeld(k)
MailHeld == PageUnmailed /\ FailedUnqueued /\ NoneLost

ServiceInv == RunTypes /\ RowTypes /\ CountTypes /\ MailCounts /\ JobHeld

LEMMA FineHasNoStall == Fine => NoStall
BY DEF Fine, NoStall

LEMMA PageToDo ==
  ASSUME ServiceInv, MailHeld, NoStall, NEW i \in Slots, run[i].todo # {}
  PROVE  /\ run[i].pc \in {"next", "linking"} =>
              \A k \in run[i].todo : link[k].state = "none" /\ ~link[k].queued
         /\ run[i].pc \in {"queueing", "recording"} =>
              /\ \A k \in run[i].todo : k # Current(i) => link[k].state = "none"
              /\ link[Current(i)].state \in {"none", "pending"} /\ ~link[Current(i)].queued
<1>1. run[i].todo \subseteq Contacts
  BY DEF ServiceInv, RunTypes, BatchRuns
<1>2. PageOf(i)
  BY DEF MailHeld, PageUnmailed
<1>3. \A k \in Contacts : link[k].state = "none" => ~link[k].queued
  BY Zenon DEF ServiceInv, MailCounts, NoneIsQueued
<1> QED BY <1>1, <1>2, <1>3 DEF PageOf

\* A step of run i that leaves the mails alone and does not go to a contact.
LEMMA HeldByOthers ==
  ASSUME ServiceInv, MailHeld, NEW i \in Slots, OtherRunsStay(i),
         UNCHANGED mailVars, CampaignExists' = CampaignExists, suffered \subseteq suffered',
         run[i].pc \in AtContact => ~Fine',
         run'[i].pc \notin {"next", "linking", "queueing", "recording"},
         NoStall' => \A j \in Slots : j # i => run[j].pc = "idle"
  PROVE  MailHeld'
<1>1. link' = link /\ loose' = loose /\ sends' = sends
  BY DEF mailVars
<1>2. NoStall' => NoStall
  BY DEF NoStall
<1>3. Fine' => Fine /\ NoStall'
  BY DEF Fine, NoStall
<1>4. PageUnmailed'
  <2> SUFFICES ASSUME NoStall', NEW j \in Slots
               PROVE  PageOf(j)'
    BY DEF PageUnmailed
  <2>1. run'[j].pc \notin {"next", "linking", "queueing", "recording"}
    BY DEF OtherRunsStay
  <2> QED BY <2>1 DEF PageOf
<1>5. FailedUnqueued'
  BY <1>1, <1>2, Zenon DEF MailHeld, FailedUnqueued
<1>6. NoneLost'
  <2> SUFFICES ASSUME Fine', NEW k \in Contacts
               PROVE  LooseHeld(k)' /\ PendingHeld(k)'
    BY DEF NoneLost
  <2>1. \A j \in Slots : run[j].pc \notin AtContact
    BY <1>3 DEF AtContact
  <2>2. LooseHeld(k) /\ PendingHeld(k)
    BY <1>3 DEF MailHeld, NoneLost
  <2>3. ~(CampaignExists /\ loose[k] > 0) /\ ~(link[k].state = "pending" /\ ~link[k].queued)
    BY <2>1, <2>2 DEF LooseHeld, PendingHeld, AtContact
  <2> QED BY <1>1, <2>3 DEF LooseHeld, PendingHeld
<1> QED BY <1>4, <1>5, <1>6 DEF MailHeld

\* Nothing of it changes.
LEMMA HeldStays ==
  ASSUME MailHeld, run' = run, UNCHANGED mailVars, CampaignExists' = CampaignExists,
         suffered \subseteq suffered'
  PROVE  MailHeld'
<1>1. link' = link /\ loose' = loose /\ sends' = sends
  BY DEF mailVars
<1>2. (NoStall' => NoStall) /\ (Fine' => Fine)
  BY DEF NoStall, Fine
<1>3. \A i : Current(i)' = Current(i)
  BY DEF Current
<1>4. PageUnmailed'
  BY <1>1, <1>2, <1>3 DEF MailHeld, PageUnmailed, PageOf
<1>5. FailedUnqueued'
  BY <1>1, <1>2, Zenon DEF MailHeld, FailedUnqueued
<1>6. NoneLost'
  BY <1>1, <1>2, <1>3 DEF MailHeld, NoneLost, LooseHeld, PendingHeld
<1> QED BY <1>4, <1>5, <1>6 DEF MailHeld

LEMMA DeleteHeld ==
  ASSUME ServiceInv, NEW r \in CampaignRequests, DeleteCampaign(r)
  PROVE  MailHeld'
<1>1. \A k \in Contacts : link'[k].state = "none" /\ ~link'[k].queued
  BY DEF DeleteCampaign, NoMail
<1>2. ~CampaignExists' /\ run' = run
  BY DeleteCampaignCounts DEF ServiceInv
<1>3. PageUnmailed'
  <2> SUFFICES ASSUME NEW i \in Slots  PROVE PageOf(i)'
    BY DEF PageUnmailed
  <2>1. run[i].todo \subseteq Contacts /\ run'[i] = run[i]
    BY <1>2 DEF ServiceInv, RunTypes, BatchRuns
  <2>2. run[i].pc \in AtContact => Current(i) \in Contacts
    BY CurrentIsToDo DEF ServiceInv, JobHeld, AtOne
  <2>3. Current(i)' = Current(i)
    BY <1>2 DEF Current
  <2> QED BY <1>1, <2>1, <2>2, <2>3 DEF PageOf, AtContact
<1>4. FailedUnqueued'
  BY <1>1 DEF FailedUnqueued
<1>5. NoneLost'
  BY <1>1, <1>2 DEF NoneLost, LooseHeld, PendingHeld
<1> QED BY <1>3, <1>4, <1>5 DEF MailHeld

LEMMA HeldAtContact ==
  ASSUME ServiceInv, MailHeld, NEW i \in Slots, OtherRunsStay(i), run[i].pc # "idle",
         suffered \subseteq suffered', NoStall' => PageOf(i)', FailedUnqueued',
         Fine' => \A k \in Contacts : LooseHeld(k)' /\ PendingHeld(k)'
  PROVE  MailHeld'
<1>1. PageUnmailed'
  <2> SUFFICES ASSUME NoStall', NEW j \in Slots, j # i
               PROVE  PageOf(j)'
    BY DEF PageUnmailed
  <2>1. run'[j].pc = "idle"
    BY AloneNow DEF ServiceInv, OtherRunsStay, NoStall
  <2> QED BY <2>1 DEF PageOf
<1> QED BY <1>1 DEF MailHeld, NoneLost

\* What is loose or without a job is what the one run is at.
LEMMA HeldByOne ==
  ASSUME ServiceInv, MailHeld, Fine, NEW i \in Slots, run[i].pc # "idle", NEW k \in Contacts
  PROVE  /\ CampaignExists /\ loose[k] > 0
              => loose[k] = 1 /\ run[i].pc = "linking" /\ k = Current(i)
         /\ link[k].state = "pending" /\ ~link[k].queued
              => run[i].pc \in {"queueing", "recording"} /\ k = Current(i)
<1>1. \A j \in Slots : j # i => run[j].pc = "idle"
  BY AloneNow, FineHasNoStall DEF ServiceInv
<1>2. LooseHeld(k) /\ PendingHeld(k)
  BY DEF MailHeld, NoneLost
<1>3. CampaignExists /\ loose[k] > 0 => loose[k] = 1 /\ run[i].pc = "linking" /\ k = Current(i)
  BY <1>1, <1>2 DEF LooseHeld
<1>4. link[k].state = "pending" /\ ~link[k].queued
        => run[i].pc \in {"queueing", "recording"} /\ k = Current(i)
  BY <1>1, <1>2 DEF PendingHeld
<1> QED BY <1>3, <1>4

\* A step that leaves the mails alone and keeps what the run is at.
LEMMA HeldMailsStay ==
  ASSUME ServiceInv, MailHeld, NEW i \in Slots, OtherRunsStay(i), run[i].pc # "idle",
         UNCHANGED mailVars, CampaignExists' = CampaignExists, suffered \subseteq suffered',
         NoStall' => PageOf(i)',
         Fine' => /\ run[i].pc # "linking"
                  /\ run[i].pc \in {"queueing", "recording"}
                       => run'[i].pc \in {"queueing", "recording"} /\ Current(i)' = Current(i)
  PROVE  MailHeld'
<1>1. link' = link /\ loose' = loose
  BY DEF mailVars
<1>2. FailedUnqueued'
  <2>1. NoStall' => NoStall
    BY DEF NoStall
  <2> QED BY <1>1, <2>1, Zenon DEF MailHeld, FailedUnqueued
<1>3. ASSUME Fine', NEW k \in Contacts  PROVE LooseHeld(k)' /\ PendingHeld(k)'
  <2>1. Fine
    BY <1>3 DEF Fine
  <2>2. ~(CampaignExists /\ loose[k] > 0)
    BY <1>3, <2>1, HeldByOne
  <2>3. link[k].state = "pending" /\ ~link[k].queued
          => run'[i].pc \in {"queueing", "recording"} /\ k = Current(i)'
    BY <1>3, <2>1, HeldByOne
  <2> QED BY <1>1, <2>2, <2>3 DEF LooseHeld, PendingHeld
<1> QED BY <1>2, <1>3, HeldAtContact

LEMMA CheckExistingHeld ==
  ASSUME ServiceInv, MailHeld, NEW i \in Slots, CheckExisting(i)
  PROVE  MailHeld'
<1>1. /\ Shifts(i, "next", { k \in run[i].todo : link[k].state = "none" })
      /\ run[i].pc = "checking" /\ UNCHANGED << mailVars, suffered, campaign >>
  BY ShiftsByChecking DEF CheckExisting, ServiceInv
<1>2. PageOf(i)'
  BY <1>1 DEF PageOf, Shifts, mailVars
<1>3. CampaignExists' = CampaignExists
  BY <1>1 DEF CampaignExists
<1> QED BY <1>1, <1>2, <1>3, HeldMailsStay DEF Shifts

LEMMA ContactThrowsHeld ==
  ASSUME ServiceInv, MailHeld, NEW i \in Slots, NEW f \in {"render", "db", "redis"},
         ContactThrows(i, f)
  PROVE  MailHeld'
<1>1. /\ Shifts(i, "recording", run[i].todo) /\ run[i].todo # {} /\ run[i].pc # "idle"
      /\ UNCHANGED << mailVars, campaign >> /\ suffered' = suffered \cup {f}
      /\ run[i].pc \in {"next", "linking", "queueing"} /\ (run[i].pc = "linking" => f = "db")
  BY MovesOf DEF ContactThrows, Suffer, ServiceInv, JobHeld, AtOne, AtContact
<1>2. Current(i)' = Current(i) /\ Current(i) \in run[i].todo
  BY <1>1, CurrentIsToDo DEF Shifts, Current, ServiceInv
<1>3. ASSUME NoStall'  PROVE PageOf(i)'
  <2>1. NoStall
    BY <1>1, <1>3 DEF NoStall
  <2>2. /\ \A k \in run[i].todo : k # Current(i) => link[k].state = "none"
        /\ link[Current(i)].state \in {"none", "pending"} /\ ~link[Current(i)].queued
    BY <1>1, <1>2, <2>1, PageToDo
  <2>3. link' = link
    BY <1>1 DEF mailVars
  <2> QED BY <1>1, <1>2, <2>2, <2>3 DEF PageOf, Shifts
<1>4. CampaignExists' = CampaignExists
  BY <1>1 DEF CampaignExists
<1>5. Fine' => run[i].pc # "linking"
  BY <1>1 DEF Fine
<1> QED BY <1>1, <1>2, <1>3, <1>4, <1>5, HeldMailsStay DEF Shifts

LEMMA RecordThrowsHeld ==
  ASSUME ServiceInv, MailHeld, NEW i \in Slots, RecordThrows(i)
  PROVE  MailHeld'
<1>1. /\ Shifts(i, "next", run[i].todo \ {Current(i)}) /\ run[i].pc = "recording"
      /\ UNCHANGED << mailVars, campaign >> /\ suffered' = suffered \cup {"db"}
  BY MovesOf DEF RecordThrows, Suffer, ServiceInv
<1>2. ASSUME NoStall'  PROVE PageOf(i)'
  <2>1. NoStall /\ run[i].todo # {}
    BY <1>1, <1>2 DEF NoStall, ServiceInv, JobHeld, AtOne, AtContact
  <2>2. \A k \in run[i].todo : k # Current(i) => link[k].state = "none"
    BY <1>1, <2>1, PageToDo
  <2>3. link' = link
    BY <1>1 DEF mailVars
  <2> QED BY <1>1, <2>2, <2>3 DEF PageOf, Shifts
<1>3. CampaignExists' = CampaignExists /\ ~Fine'
  BY <1>1 DEF CampaignExists, Fine
<1> QED BY <1>1, <1>2, <1>3, HeldMailsStay DEF Shifts

LEMMA CreateEmailHeld ==
  ASSUME ServiceInv, MailHeld, NEW i \in Slots, CreateEmail(i)
  PROVE  MailHeld'
<1>1. /\ Shifts(i, "linking", run[i].todo) /\ run[i].pc = "next" /\ run[i].todo # {}
      /\ UNCHANGED << link, campaign, suffered >>
      /\ loose' = [loose EXCEPT ![Current(i)] = @ + 1]
  BY MovesOf DEF CreateEmail, ServiceInv
<1>2. PICK k0 \in Contacts : k0 = Current(i) /\ k0 = Current(i)'
  BY <1>1, CurrentIsToDo DEF Shifts, Current, ServiceInv
<1>3. ASSUME NoStall'  PROVE PageOf(i)'
  <2>1. \A k \in run[i].todo : link[k].state = "none"
    BY <1>1, <1>3, PageToDo DEF NoStall
  <2> QED BY <1>1, <2>1 DEF PageOf, Shifts
<1>4. FailedUnqueued'
  <2>1. NoStall' => NoStall
    BY <1>1 DEF NoStall
  <2> QED BY <1>1, <2>1, Zenon DEF MailHeld, FailedUnqueued
<1>5. ASSUME Fine', NEW k \in Contacts  PROVE LooseHeld(k)' /\ PendingHeld(k)'
  <2>1. Fine /\ CampaignExists' = CampaignExists
    BY <1>1, <1>5 DEF Fine, CampaignExists
  <2>2. ~(CampaignExists /\ loose[k] > 0) /\ ~(link[k].state = "pending" /\ ~link[k].queued)
    BY <1>1, <2>1, HeldByOne
  <2>3. loose \in [Contacts -> Nat]
    BY DEF ServiceInv, MailCounts, MailTypes
  <2>4. loose'[k] = IF k = k0 THEN loose[k] + 1 ELSE loose[k]
    BY <1>1, <1>2, <2>3
  <2>5. CampaignExists /\ loose'[k] > 0 => loose'[k] = 1 /\ k = k0
    BY <2>2, <2>3, <2>4
  <2>6. run'[i].pc = "linking"
    BY <1>1 DEF Shifts
  <2>7. LooseHeld(k)'
    BY <1>2, <2>1, <2>5, <2>6 DEF LooseHeld
  <2>8. PendingHeld(k)'
    BY <1>1, <2>2 DEF PendingHeld
  <2> QED BY <2>7, <2>8
<1> QED BY <1>1, <1>3, <1>4, <1>5, HeldAtContact DEF Shifts

LEMMA LinkEmailHeld ==
  ASSUME ServiceInv, MailHeld, NEW i \in Slots, LinkEmail(i)
  PROVE  MailHeld'
<1>1. PICK k0 \in Contacts :
           /\ k0 = Current(i) /\ k0 \in run[i].todo /\ run[i].pc = "linking"
           /\ UNCHANGED << campaign, bookVars, request, tick, job, sends, held, skipping,
                           suffered >>
           /\ \/ LinksNone(i, k0)
              \/ LinksAs(i, k0, "suppressed") /\ Shifts(i, "next", run[i].todo \ {k0})
              \/ LinksAs(i, k0, "pending") /\ Shifts(i, "queueing", run[i].todo)
  BY LinkEmailCases DEF ServiceInv, JobHeld
<1>2. /\ CampaignExists' = CampaignExists /\ (NoStall' <=> NoStall) /\ (Fine' <=> Fine)
  BY <1>1 DEF CampaignExists, NoStall, Fine
<1>3. NoStall => \A k \in run[i].todo : link[k].state = "none" /\ ~link[k].queued
  BY <1>1, PageToDo
<1>4. run[i].todo \subseteq Contacts
  BY DEF ServiceInv, RunTypes, BatchRuns
<1>5. CASE LinksNone(i, k0)
  <2>1. ~NoStall
    BY <1>1, <1>3, <1>5 DEF LinksNone
  <2>2. OtherRunsStay(i)
    BY <1>5 DEF LinksNone, Shifts
  <2>3. ~NoStall' /\ ~Fine'
    BY <1>2, <2>1, FineHasNoStall
  <2> QED BY <1>1, <2>2, <2>3, HeldAtContact DEF FailedUnqueued
<1>6. ASSUME NEW s \in {"suppressed", "pending"}, LinksAs(i, k0, s), OtherRunsStay(i),
             NoStall' => PageOf(i)',
             s = "pending" => run'[i].pc = "queueing" /\ Current(i)' = k0
      PROVE  MailHeld'
  <2>1. /\ link'[k0].state = s /\ ~link'[k0].queued /\ loose'[k0] = loose[k0] - 1
        /\ \A k \in Contacts :
              k # k0 => link'[k] = link[k] /\ loose'[k] = loose[k] /\ sends'[k] = sends[k]
    BY <1>1, <1>6, LinkedAs DEF ServiceInv
  <2>2. FailedUnqueued'
    <3> SUFFICES ASSUME NoStall', NEW k \in Contacts, link'[k].state = "failed"
                 PROVE  ~link'[k].queued
      BY DEF FailedUnqueued
    <3>1. link'[k] = link[k]
      BY <1>6, <2>1
    <3> QED BY <1>2, <3>1, Zenon DEF MailHeld, FailedUnqueued
  <2>3. ASSUME Fine', NEW k \in Contacts  PROVE LooseHeld(k)' /\ PendingHeld(k)'
    <3>1. /\ CampaignExists /\ loose[k] > 0 => loose[k] = 1 /\ k = k0
          /\ ~(link[k].state = "pending" /\ ~link[k].queued)
      BY <1>1, <1>2, <2>3, HeldByOne
    <3>2. CASE k = k0
      <4>1. loose[k] \in Nat
        BY DEF ServiceInv, MailCounts, MailTypes
      <4>2. LooseHeld(k)'
        BY <1>2, <2>1, <3>1, <3>2, <4>1 DEF LooseHeld
      <4>3. PendingHeld(k)'
        BY <1>6, <2>1, <3>2 DEF PendingHeld
      <4> QED BY <4>2, <4>3
    <3>3. CASE k # k0
      BY <1>2, <2>1, <3>1, <3>3 DEF LooseHeld, PendingHeld
    <3> QED BY <3>2, <3>3
  <2> QED BY <1>1, <1>6, <2>2, <2>3, HeldAtContact
<1>7. CASE LinksAs(i, k0, "suppressed") /\ Shifts(i, "next", run[i].todo \ {k0})
  <2>1. \A k \in Contacts : k # k0 => link'[k] = link[k]
    BY <1>1, <1>7, LinkedAs DEF ServiceInv
  <2>2. NoStall' => PageOf(i)'
    BY <1>2, <1>3, <1>4, <1>7, <2>1 DEF PageOf, Shifts
  <2> QED BY <1>6, <1>7, <2>2 DEF Shifts
<1>8. CASE LinksAs(i, k0, "pending") /\ Shifts(i, "queueing", run[i].todo)
  <2>1. /\ \A k \in Contacts : k # k0 => link'[k] = link[k]
        /\ link'[k0].state = "pending" /\ ~link'[k0].queued
    BY <1>1, <1>8, LinkedAs DEF ServiceInv
  <2>2. run'[i].pc = "queueing" /\ Current(i)' = k0 /\ run'[i].todo = run[i].todo
    BY <1>1, <1>8 DEF Shifts, Current
  <2>3. NoStall' => PageOf(i)'
    BY <1>2, <1>3, <1>4, <2>1, <2>2 DEF PageOf
  <2> QED BY <1>6, <1>8, <2>2, <2>3 DEF Shifts
<1> QED BY <1>1, <1>5, <1>7, <1>8

LEMMA QueueEmailHeld ==
  ASSUME ServiceInv, MailHeld, NEW i \in Slots, QueueEmail(i)
  PROVE  MailHeld'
<1>1. PICK k0 \in Contacts : k0 = Current(i) /\ k0 \in run[i].todo
  BY CurrentIsToDo DEF QueueEmail, ServiceInv, JobHeld, AtOne, AtContact
<1>2. /\ Shifts(i, "next", run[i].todo \ {k0}) /\ run[i].pc = "queueing"
      /\ UNCHANGED << loose, campaign, suffered >>
      /\ link' = [link EXCEPT ![k0].queued = link[k0].state # "none"]
  BY <1>1, MovesOf DEF QueueEmail, ServiceInv
<1>3. link \in [Contacts -> Links] /\ link[k0] \in Links /\ run[i].todo \subseteq Contacts
  BY DEF ServiceInv, MailCounts, MailTypes, RunTypes, BatchRuns
<1>4. /\ link'[k0].state = link[k0].state /\ (link'[k0].queued <=> link[k0].state # "none")
      /\ \A k \in Contacts : k # k0 => link'[k] = link[k]
  <2>1. PICK b \in BOOLEAN : b = (link[k0].state # "none")
    OBVIOUS
  <2>2. PICK e : e = [link[k0] EXCEPT !.queued = b]
    OBVIOUS
  <2>3. e.state = link[k0].state /\ e.queued = b
    BY <1>3, <2>2 DEF Links
  <2>4. link' = [link EXCEPT ![k0] = e]
    BY <1>2, <1>3, <2>1, <2>2
  <2>5. link'[k0] = e /\ \A k \in Contacts : k # k0 => link'[k] = link[k]
    BY <1>3, <2>4
  <2> QED BY <2>1, <2>3, <2>5
<1>5. CampaignExists' = CampaignExists /\ (NoStall' <=> NoStall) /\ (Fine' <=> Fine)
  BY <1>2 DEF CampaignExists, NoStall, Fine
<1>6. NoStall => /\ \A k \in run[i].todo : k # k0 => link[k].state = "none"
                 /\ link[k0].state \in {"none", "pending"}
  BY <1>1, <1>2, PageToDo
<1>7. NoStall' => PageOf(i)'
  BY <1>2, <1>3, <1>4, <1>5, <1>6 DEF PageOf, Shifts
<1>8. FailedUnqueued'
  <2> SUFFICES ASSUME NoStall', NEW k \in Contacts, link'[k].state = "failed"
               PROVE  ~link'[k].queued
    BY DEF FailedUnqueued
  <2>1. k # k0
    BY <1>4, <1>5, <1>6
  <2>2. link'[k] = link[k]
    BY <1>4, <2>1
  <2> QED BY <1>5, <2>2, Zenon DEF MailHeld, FailedUnqueued
<1>9. ASSUME Fine', NEW k \in Contacts  PROVE LooseHeld(k)' /\ PendingHeld(k)'
  <2>1. ~(CampaignExists /\ loose[k] > 0)
    BY <1>2, <1>5, <1>9, HeldByOne
  <2>2. ~(link'[k].state = "pending" /\ ~link'[k].queued)
    <3>1. CASE k = k0
      BY <1>4, <3>1
    <3>2. CASE k # k0
      BY <1>1, <1>2, <1>4, <1>5, <1>9, <3>2, HeldByOne
    <3> QED BY <3>1, <3>2
  <2> QED BY <1>2, <1>5, <2>1, <2>2 DEF LooseHeld, PendingHeld
<1> QED BY <1>2, <1>7, <1>8, <1>9, HeldAtContact DEF Shifts

LEMMA RecordFailureHeld ==
  ASSUME ServiceInv, MailHeld, NEW i \in Slots, RecordFailure(i)
  PROVE  MailHeld'
<1>1. PICK k0 \in Contacts : k0 = Current(i) /\ k0 \in run[i].todo
  BY CurrentIsToDo DEF RecordFailure, ServiceInv, JobHeld, AtOne, AtContact
<1>2. /\ Shifts(i, "next", run[i].todo \ {k0}) /\ run[i].pc = "recording"
      /\ UNCHANGED << campaign, suffered >>
      /\ link' = [link EXCEPT ![k0].state = "failed"]
      /\ loose' = [loose EXCEPT ![k0] = IF link[k0].state = "none" /\ @ > 0 THEN @ - 1 ELSE @]
  BY <1>1, MovesOf DEF RecordFailure, ServiceInv
<1>3. /\ link \in [Contacts -> Links] /\ link[k0] \in Links /\ run[i].todo \subseteq Contacts
      /\ loose \in [Contacts -> Nat]
  BY DEF ServiceInv, MailCounts, MailTypes, RunTypes, BatchRuns
<1>4. /\ link'[k0].state = "failed" /\ link'[k0].queued = link[k0].queued
      /\ \A k \in Contacts : k # k0 => link'[k] = link[k]
  <2>1. PICK e : e = [link[k0] EXCEPT !.state = "failed"]
    OBVIOUS
  <2>2. e.state = "failed" /\ e.queued = link[k0].queued
    BY <1>3, <2>1 DEF Links
  <2>3. link' = [link EXCEPT ![k0] = e]
    BY <1>2, <1>3, <2>1
  <2> QED BY <1>3, <2>2, <2>3
<1>5. CampaignExists' = CampaignExists /\ (NoStall' <=> NoStall) /\ (Fine' <=> Fine)
  BY <1>2 DEF CampaignExists, NoStall, Fine
<1>6. NoStall => /\ \A k \in run[i].todo : k # k0 => link[k].state = "none"
                 /\ ~link[k0].queued
  BY <1>1, <1>2, PageToDo
<1>7. NoStall' => PageOf(i)'
  BY <1>2, <1>3, <1>4, <1>5, <1>6 DEF PageOf, Shifts
<1>8. FailedUnqueued'
  <2> SUFFICES ASSUME NoStall', NEW k \in Contacts, link'[k].state = "failed"
               PROVE  ~link'[k].queued
    BY DEF FailedUnqueued
  <2>1. CASE k = k0
    BY <1>4, <1>5, <1>6, <2>1
  <2>2. CASE k # k0
    <3>1. link'[k] = link[k]
      BY <1>4, <2>2
    <3> QED BY <1>5, <3>1, Zenon DEF MailHeld, FailedUnqueued
  <2> QED BY <2>1, <2>2
<1>9. ASSUME Fine', NEW k \in Contacts  PROVE LooseHeld(k)' /\ PendingHeld(k)'
  <2>1. ~(CampaignExists /\ loose[k] > 0)
    BY <1>2, <1>5, <1>9, HeldByOne
  <2>2. loose[k] \in Nat /\ loose'[k] \in {loose[k], loose[k] - 1}
    BY <1>2, <1>3
  <2>3. ~(CampaignExists' /\ loose'[k] > 0)
    BY <1>5, <2>1, <2>2
  <2>4. ~(link'[k].state = "pending" /\ ~link'[k].queued)
    <3>1. CASE k = k0
      BY <1>4, <3>1
    <3>2. CASE k # k0
      BY <1>1, <1>2, <1>4, <1>5, <1>9, <3>2, HeldByOne
    <3> QED BY <3>1, <3>2
  <2> QED BY <2>3, <2>4 DEF LooseHeld, PendingHeld
<1> QED BY <1>2, <1>7, <1>8, <1>9, HeldAtContact DEF Shifts

LEMMA StepCounts ==
  ASSUME ServiceInv, NEW i \in Slots,
         BatchStep(i) \/ (\E f \in {"stall", "crash"} : Stall(i, f))
  PROVE  MailCounts'
<1>1. CampaignExists' = CampaignExists /\ (StepsWithMail(i) \/ UNCHANGED mailVars)
  BY StepRows DEF ServiceInv
<1>2. ASSUME OtherRunsStay(i), run'[i].pc \notin {"linking", "queueing"}, UNCHANGED mailVars
      PROVE  MailCounts'
  BY <1>1, <1>2, FewerRuns DEF ServiceInv
<1>3. CASE CreateEmail(i)
  BY <1>3, CreateEmailCounts DEF ServiceInv
<1>4. CASE LinkEmail(i)
  BY <1>4, LinkEmailCounts DEF ServiceInv, JobHeld
<1>5. CASE QueueEmail(i)
  BY <1>5, QueueEmailCounts DEF ServiceInv, JobHeld
<1>6. CASE RecordFailure(i)
  BY <1>6, RecordFailureCounts DEF ServiceInv, JobHeld
<1>7. CASE StartBatch(i)
  <2>1. BeginsBatch(i) /\ UNCHANGED mailVars
    BY <1>7, BeginsByStart DEF StartBatch, ServiceInv
  <2> QED BY <1>2, <2>1 DEF BeginsBatch
<1>8. CASE MarkRunning(i)
  <2>1. Shifts(i, "finding", run[i].todo) /\ UNCHANGED mailVars
    BY <1>8, MovesOf DEF MarkRunning, ServiceInv
  <2> QED BY <1>2, <2>1 DEF Shifts
<1>9. CASE FindContacts(i)
  <2>1. FindsPage(i) /\ UNCHANGED mailVars
    BY <1>9, PageByFind DEF FindContacts, ServiceInv
  <2> QED BY <1>2, <2>1 DEF FindsPage
<1>10. CASE MarkSent(i) \/ DomainMissing(i) \/ AdvanceCursor(i) \/ BatchThrows(i)
  <2>1. Shifts(i, "leaving", run[i].todo)
    BY <1>10, MovesOf DEF ServiceInv
  <2>2. UNCHANGED mailVars
    BY <1>10 DEF MarkSent, DomainMissing, AdvanceCursor, BatchThrows
  <2> QED BY <1>2, <2>1, <2>2 DEF Shifts
<1>11. CASE CheckExisting(i)
  <2>1. Shifts(i, "next", { k \in run[i].todo : link[k].state = "none" }) /\ UNCHANGED mailVars
    BY <1>11, ShiftsByChecking DEF CheckExisting, ServiceInv
  <2> QED BY <1>2, <2>1 DEF Shifts
<1>12. CASE RecordThrows(i)
  <2>1. Shifts(i, "next", run[i].todo \ {Current(i)}) /\ UNCHANGED mailVars
    BY <1>12, MovesOf DEF RecordThrows, ServiceInv
  <2> QED BY <1>2, <2>1 DEF Shifts
<1>13. CASE EndContacts(i)
  <2>1. Shifts(i, "advancing", run[i].todo) /\ UNCHANGED mailVars
    BY <1>13, MovesOf DEF EndContacts, ServiceInv
  <2> QED BY <1>2, <2>1 DEF Shifts
<1>14. CASE \E f \in {"render", "db", "redis"} : ContactThrows(i, f)
  <2>1. Shifts(i, "recording", run[i].todo) /\ UNCHANGED mailVars
    BY <1>14, MovesOf DEF ContactThrows, ServiceInv
  <2> QED BY <1>2, <2>1 DEF Shifts
<1>15. CASE FinishBatch(i) \/ Stall(i, "crash")
  <2>1. Stops(i) /\ UNCHANGED mailVars
    BY <1>15, MovesOf DEF FinishBatch, Stall, ServiceInv
  <2> QED BY <1>2, <2>1 DEF Stops, Stopped
<1>16. CASE Stall(i, "stall")
  <2>1. run' = run /\ UNCHANGED mailVars
    BY <1>16, MovesOf DEF Stall, ServiceInv
  <2> QED BY <1>1, <2>1, CountsStay DEF ServiceInv
<1> QED BY <1>3, <1>4, <1>5, <1>6, <1>7, <1>8, <1>9, <1>10, <1>11, <1>12, <1>13, <1>14,
           <1>15, <1>16 DEF BatchStep

LEMMA StepHeld ==
  ASSUME ServiceInv, MailHeld, NEW i \in Slots,
         BatchStep(i) \/ (\E f \in {"stall", "crash"} : Stall(i, f))
  PROVE  MailHeld'
<1>1. CampaignExists' = CampaignExists /\ suffered \subseteq suffered'
  BY StepRows DEF ServiceInv
<1>2. ASSUME OtherRunsStay(i), run[i].pc # "idle",
             run'[i].pc \notin {"next", "linking", "queueing", "recording"}, UNCHANGED mailVars,
             run[i].pc \in AtContact => ~Fine'
      PROVE  MailHeld'
  <2>1. NoStall' => \A j \in Slots : j # i => run[j].pc = "idle"
    BY <1>1, <1>2, AloneNow DEF ServiceInv, NoStall
  <2> QED BY <1>1, <1>2, <2>1, HeldByOthers
<1>3. CASE CreateEmail(i)
  BY <1>3, CreateEmailHeld
<1>4. CASE LinkEmail(i)
  BY <1>4, LinkEmailHeld
<1>5. CASE QueueEmail(i)
  BY <1>5, QueueEmailHeld
<1>6. CASE RecordFailure(i)
  BY <1>6, RecordFailureHeld
<1>7. CASE StartBatch(i)
  <2>1. BeginsBatch(i) /\ UNCHANGED mailVars /\ run[i].pc = "idle" /\ job.state = "waiting"
        /\ suffered' = suffered
    BY <1>7, BeginsByStart DEF StartBatch, ServiceInv
  <2>2. NoStall' => \A j \in Slots : j # i => run[j].pc = "idle"
    BY <2>1, SlotTypes DEF ServiceInv, JobHeld, ActiveHasOwner, OneRun, NoStall
  <2> QED BY <1>1, <2>1, <2>2, HeldByOthers DEF BeginsBatch, AtContact
<1>8. CASE MarkRunning(i)
  <2>1. Shifts(i, "finding", run[i].todo) /\ UNCHANGED mailVars /\ run[i].pc = "marking"
    BY <1>8, MovesOf DEF MarkRunning, ServiceInv
  <2> QED BY <1>2, <2>1 DEF Shifts, AtContact
<1>9. CASE FindContacts(i)
  <2>1. FindsPage(i) /\ UNCHANGED mailVars /\ run[i].pc = "finding"
    BY <1>9, PageByFind DEF FindContacts, ServiceInv
  <2> QED BY <1>2, <2>1 DEF FindsPage, AtContact
<1>10. CASE MarkSent(i) \/ DomainMissing(i) \/ AdvanceCursor(i) \/ BatchThrows(i)
  <2>1. Shifts(i, "leaving", run[i].todo)
    BY <1>10, MovesOf DEF ServiceInv
  <2>2. UNCHANGED mailVars /\ run[i].pc \notin AtContact /\ run[i].pc # "idle"
    BY <1>10 DEF MarkSent, DomainMissing, AdvanceCursor, BatchThrows, AtContact
  <2> QED BY <1>2, <2>1, <2>2 DEF Shifts
<1>11. CASE CheckExisting(i)
  BY <1>11, CheckExistingHeld
<1>12. CASE RecordThrows(i)
  BY <1>12, RecordThrowsHeld
<1>13. CASE EndContacts(i)
  <2>1. Shifts(i, "advancing", run[i].todo) /\ UNCHANGED mailVars /\ run[i].pc = "next"
    BY <1>13, MovesOf DEF EndContacts, ServiceInv
  <2> QED BY <1>2, <2>1 DEF Shifts, AtContact
<1>14. CASE \E f \in {"render", "db", "redis"} : ContactThrows(i, f)
  BY <1>14, ContactThrowsHeld
<1>15. CASE FinishBatch(i)
  <2>1. Stops(i) /\ UNCHANGED mailVars /\ run[i].pc = "leaving"
    BY <1>15, MovesOf DEF FinishBatch, ServiceInv
  <2> QED BY <1>2, <2>1 DEF Stops, Stopped, AtContact
<1>16. CASE Stall(i, "crash")
  <2>1. Stops(i) /\ UNCHANGED mailVars /\ ~Fine' /\ job.owner = i
    BY <1>16, MovesOf DEF Stall, ServiceInv, Suffer, Fine
  <2>2. NoStall' => \A j \in Slots : j # i => run[j].pc = "idle"
    BY <1>1, <2>1 DEF ServiceInv, JobHeld, OneRun, NoStall
  <2> QED BY <1>1, <2>1, <2>2, HeldByOthers DEF Stops, Stopped
<1>17. CASE Stall(i, "stall")
  <2>1. run' = run /\ UNCHANGED mailVars
    BY <1>17, MovesOf DEF Stall, ServiceInv
  <2> QED BY <1>1, <2>1, HeldStays
<1> QED BY <1>3, <1>4, <1>5, <1>6, <1>7, <1>8, <1>9, <1>10, <1>11, <1>12, <1>13, <1>14,
           <1>15, <1>16, <1>17 DEF BatchStep

LEMMA CountTypesKept ==
  ASSUME RowTypes, RunTypes, CountTypes, CampaignNext
  PROVE  CountTypes'
<1>1. /\ edits \in 0 .. MaxDisturbances /\ held \in [runs : 0 .. MaxStalled + 1, mails : Nat]
      /\ MaxDisturbances \in Nat /\ MaxStalled \in Nat
  BY BatchAssumption DEF CountTypes
<1>2. CASE \E r \in CampaignRequests : Request(r)
  <2>1. PICK r \in CampaignRequests : Request(r)
    BY <1>2
  <2>2. edits' = edits
    BY <2>1, RequestRows
  <2>3. CASE PauseCampaign(r)
    <3>1. Cardinality(UnderWay) \in 0 .. MaxStalled + 1
      <4>1. UnderWay \subseteq Slots
        BY DEF UnderWay
      <4>2. Cardinality(UnderWay) \in Nat /\ Cardinality(UnderWay) <= MaxStalled + 1
        BY <4>1, SlotTypes, FS_Subset, FS_CardinalityType
      <4> QED BY <1>1, <4>2
    <3> QED BY <1>1, <2>2, <2>3, <3>1 DEF PauseCampaign, CountTypes
  <2>4. CASE ~PauseCampaign(r)
    BY <1>1, <2>1, <2>2, <2>4 DEF Request, ReadForSchedule, WriteSchedule, ResumeCampaign,
       DeleteCampaign, CountTypes
  <2> QED BY <2>3, <2>4
<1>3. CASE OutsideSteps
  <2>1. held' = held
    BY <1>3 DEF OutsideSteps, ScheduledTimePasses, SchedulerTick, QueueBatch, EditContact
  <2>2. edits' \in 0 .. MaxDisturbances
    <3>1. CASE \E k \in Contacts : EditContact(k)
      <4>1. edits + Cardinality(suffered) < MaxDisturbances /\ edits' = edits + 1
        BY <3>1 DEF EditContact
      <4>2. IsFiniteSet(CampaignFaults)
        <5>1. CampaignFaults = {"stall"} \cup {"crash"} \cup {"db"} \cup {"render"} \cup {"redis"}
                               \cup {"domain"}
          BY DEF CampaignFaults
        <5> QED BY <5>1, FS_Singleton, FS_Union
      <4>3. Cardinality(suffered) \in Nat
        BY <4>2, FS_Subset, FS_CardinalityType DEF RowTypes
      <4> QED BY <1>1, <4>1, <4>3
    <3>2. CASE ScheduledTimePasses \/ SchedulerTick \/ QueueBatch
      BY <1>1, <3>2 DEF ScheduledTimePasses, SchedulerTick, QueueBatch, bookVars
    <3> QED BY <1>3, <3>1, <3>2 DEF OutsideSteps
  <2> QED BY <1>1, <2>1, <2>2 DEF CountTypes
<1>4. ASSUME NEW i \in Slots, BatchStep(i) \/ (\E f \in {"stall", "crash"} : Stall(i, f))
      PROVE  CountTypes'
  <2>1. edits' = edits
    BY <1>4, StepRows
  <2>2. CASE QueueEmail(i)
    BY <1>1, <2>1, <2>2 DEF QueueEmail, CountTypes
  <2>3. CASE ~QueueEmail(i)
    <3>1. held' = held
      BY <1>4, <2>3 DEF BatchStep, StartBatch, MarkRunning, FindContacts, MarkSent, DomainMissing,
         CheckExisting, CreateEmail, LinkEmail, RecordFailure, RecordThrows, EndContacts,
         AdvanceCursor, BatchThrows, FinishBatch, ContactThrows, Stall
    <3> QED BY <1>1, <2>1, <3>1, SMTT(30) DEF CountTypes
  <2> QED BY <2>2, <2>3
<1> QED BY <1>2, <1>3, <1>4 DEF CampaignNext, OutsideSteps

(***************************************************************************)
(* Why nobody is skipped: a contact subscribed all along that is behind    *)
(* the cursor, of the campaign or of a run, has its mail, and one on the   *)
(* page of a run has it or is still to do.                                 *)
(***************************************************************************)
SteadySubscribed == \A k \in steady : contacts[k] = "subscribed"
OnPage == {"checking", "next", "linking", "queueing", "recording"}
ReachedBy(i, k) ==
  /\ k <= run[i].cursor => Reached(k)
  /\ run[i].pc = "finishing" => Reached(k)
  /\ run[i].pc \in OnPage /\ k <= run[i].last => Reached(k) \/ k \in run[i].todo
  /\ run[i].pc = "advancing" /\ k <= run[i].last => Reached(k)
Followed == CampaignExists /\ ~skipping /\ "db" \notin suffered
CursorsReached ==
  Followed => \A k \in steady :
    /\ campaign.status = "SENT" \/ k <= campaign.cursor => Reached(k)
    /\ \A i \in Slots : ReachedBy(i, k)
NoneSkipped == SteadySubscribed /\ CursorsReached

\* A mail that is there stays, but for a deletion.
LEMMA ReachedStays ==
  ASSUME ServiceInv, NEW i \in Slots,
         BatchStep(i) \/ (\E f \in {"stall", "crash"} : Stall(i, f)), NEW k \in Contacts, Reached(k)
  PROVE  Reached(k)'
<1>1. StepsWithMail(i) \/ UNCHANGED mailVars
  BY StepRows DEF ServiceInv
<1>2. link \in [Contacts -> Links] /\ link[k] \in Links
  BY DEF ServiceInv, MailCounts, MailTypes
<1>3. CASE UNCHANGED mailVars
  BY <1>3 DEF Reached, mailVars
<1>4. CASE CreateEmail(i)
  BY <1>4 DEF CreateEmail, Reached
<1>5. CASE LinkEmail(i)
  <2>1. PICK k0 \in Contacts :
           LinksNone(i, k0) \/ \E s \in {"pending", "suppressed"} : LinksAs(i, k0, s)
    BY <1>5, LinkEmailCases DEF ServiceInv, JobHeld
  <2>2. CASE LinksNone(i, k0)
    BY <2>2 DEF LinksNone, Reached
  <2>3. CASE \E s \in {"pending", "suppressed"} : LinksAs(i, k0, s)
    BY <1>2, <2>3 DEF LinksAs, Reached, Links
  <2> QED BY <2>1, <2>2, <2>3
<1>6. CASE QueueEmail(i)
  <2>1. PICK k0 : k0 = Current(i)
    OBVIOUS
  <2>2. PICK b \in BOOLEAN : b = (link[k0].state # "none")
    OBVIOUS
  <2>3. link' = [link EXCEPT ![k0].queued = b]
    BY <1>6, <2>1, <2>2 DEF QueueEmail
  <2>4. link'[k].state = link[k].state
    BY <1>2, <2>3 DEF Links
  <2> QED BY <2>4 DEF Reached
<1>7. CASE RecordFailure(i)
  <2>1. PICK k0 : k0 = Current(i)
    OBVIOUS
  <2>2. link' = [link EXCEPT ![k0].state = "failed"]
    BY <1>7, <2>1 DEF RecordFailure
  <2>3. link'[k].state \in {link[k].state, "failed"}
    BY <1>2, <2>2 DEF Links
  <2> QED BY <2>3 DEF Reached
<1> QED BY <1>1, <1>3, <1>4, <1>5, <1>6, <1>7 DEF StepsWithMail

\* What a run's page leaves out is behind its cursor.
LEMMA PageLeavesOut ==
  ASSUME ServiceInv, NoneSkipped, NEW i \in Slots, FindContacts(i), Followed', NEW k \in steady
  PROVE  ReachedBy(i, k)'
<1>1. FindsPage(i) /\ run[i].pc = "finding" /\ UNCHANGED << mailVars, campaign, suffered, contacts >>
  BY PageByFind DEF FindContacts, ServiceInv, bookVars
<1>2. /\ ~skipping /\ (run[i].cursor = 0 \/ contacts[run[i].cursor] = "subscribed")
  BY DEF FindContacts, Followed
<1>3. Followed
  BY <1>1, <1>2 DEF Followed, CampaignExists
<1>4. k \in Contacts /\ k \in Subscribed /\ ReachedBy(i, k)
  BY <1>3 DEF NoneSkipped, SteadySubscribed, CursorsReached, ServiceInv, RowTypes, Subscribed
<1>5. PICK c \in Contacts \cup {0} : c = run[i].cursor
  BY DEF ServiceInv, RunTypes, BatchRuns
<1>6. k <= c \/ k \in Behind(c)
  <2>1. k \in Nat /\ c \in Nat
    BY <1>4, ContactsAssumption
  <2>2. CASE c = 0
    BY <1>4, <2>2 DEF Behind
  <2>3. CASE c # 0 /\ k > c
    <3>1. c \in Subscribed /\ contacts[c] # "deleted"
      BY <1>2, <1>5, <2>3 DEF Subscribed
    <3>2. k >= c /\ c >= c /\ c < k
      BY <2>1, <2>3
    <3> QED BY <1>4, <2>3, <3>1, <3>2 DEF Behind
  <2> QED BY <2>1, <2>2, <2>3
<1>7. Reached(k)' <=> Reached(k)
  BY <1>1 DEF Reached, mailVars
<1>8. k <= c => Reached(k)
  BY <1>4, <1>5 DEF ReachedBy
<1> DEFINE fetched == FirstOf(BatchSize, Behind(c))
<1>9. /\ run'[i].pc = IF fetched = {} THEN "finishing" ELSE "checking"
      /\ run'[i].todo = fetched /\ run'[i].cursor = c
      /\ run'[i].last = IF fetched = {} THEN 0 ELSE Max(fetched)
  BY <1>1, <1>5 DEF FindsPage
<1>10. /\ fetched \subseteq Behind(c) /\ (Behind(c) # {} => fetched # {})
       /\ \A x \in Behind(c), y \in fetched : x <= y => x \in fetched
       /\ fetched # {} => Max(fetched) \in fetched
  <2>1. Behind(c) \subseteq Contacts
    BY BehindTypes
  <2>2. fetched \subseteq Behind(c) /\ (Behind(c) # {} => fetched # {})
        /\ \A x \in Behind(c), y \in fetched : x <= y => x \in fetched
    BY <2>1, OfPage
  <2>3. fetched \subseteq Nat /\ IsFiniteSet(fetched)
    BY <2>1, <2>2, ContactsAssumption, FS_Subset
  <2>4. fetched # {} => Max(fetched) \in fetched
    BY <2>3, LastId
  <2> QED BY <2>2, <2>4
<1> HIDE DEF fetched
<1>11. CASE fetched = {}
  <2>1. Reached(k)
    BY <1>6, <1>8, <1>10, <1>11
  <2> QED BY <1>7, <2>1 DEF ReachedBy
<1>12. CASE fetched # {}
  <2>1. k <= Max(fetched) => Reached(k) \/ k \in fetched
    BY <1>6, <1>8, <1>10, <1>12
  <2> QED BY <1>7, <1>8, <1>9, <1>12, <2>1 DEF ReachedBy
<1> QED BY <1>11, <1>12, SMTT(30)

\* What run i still has to do it does, or has done for it.
LEMMA PageReached ==
  ASSUME ServiceInv, NoneSkipped, NEW i \in Slots,
         BatchStep(i) \/ (\E f \in {"stall", "crash"} : Stall(i, f)),
         Followed', NEW k \in steady
  PROVE  ReachedBy(i, k)'
<1>1. /\ CampaignExists' = CampaignExists /\ suffered \subseteq suffered'
      /\ k \in Contacts /\ (Reached(k) => Reached(k)')
  BY StepRows, ReachedStays DEF ServiceInv, RowTypes
<1>2. CASE FindContacts(i)
  BY <1>2, PageLeavesOut
<1>3. ASSUME ~FindContacts(i)  PROVE Followed
  <2>1. skipping' = skipping
    BY <1>3 DEF BatchStep, StartBatch, MarkRunning, MarkSent, DomainMissing,
       CheckExisting, CreateEmail, LinkEmail, QueueEmail, RecordFailure, RecordThrows, EndContacts,
       AdvanceCursor, BatchThrows, FinishBatch, ContactThrows, Stall
  <2> QED BY <1>1, <2>1 DEF Followed
<1>4. ASSUME ~FindContacts(i)
      PROVE  ReachedBy(i, k) /\ (k <= campaign.cursor => Reached(k))
  BY <1>3, <1>4 DEF NoneSkipped, CursorsReached
<1>5. ASSUME NEW p, NEW S, Shifts(i, p, S), ~FindContacts(i),
             p = "finishing" => run[i].pc = "finishing",
             p \in OnPage => run[i].pc \in OnPage /\ (k \in run[i].todo => Reached(k)' \/ k \in S),
             p = "advancing" => run[i].pc \in OnPage /\ run[i].todo = {}
      PROVE  ReachedBy(i, k)'
  BY <1>1, <1>4, <1>5 DEF ReachedBy, Shifts
<1>6. CASE StartBatch(i)
  <2>1. BeginsBatch(i) /\ ~FindContacts(i)
    BY <1>6, BeginsByStart DEF StartBatch, FindContacts, ServiceInv
  <2> QED BY <1>1, <1>4, <2>1 DEF BeginsBatch, ReachedBy, OnPage
<1>7. CASE FinishBatch(i) \/ Stall(i, "crash")
  <2>1. Stops(i)
    BY <1>7, MovesOf DEF ServiceInv
  <2>2. ~(k <= 0)
    BY <1>1, ContactsAssumption
  <2> QED BY <2>1, <2>2 DEF Stops, Stopped, ReachedBy, OnPage
<1>8. CASE Stall(i, "stall")
  <2>1. run' = run
    BY <1>8, MovesOf DEF ServiceInv
  <2>2. CASE FindContacts(i)
    BY <2>2, <1>2
  <2>3. CASE ~FindContacts(i)
    BY <1>1, <1>4, <2>1, <2>3 DEF ReachedBy
  <2> QED BY <2>2, <2>3
<1>9. CASE MarkRunning(i)
  <2>1. Shifts(i, "finding", run[i].todo) /\ ~FindContacts(i)
    BY <1>9, MovesOf DEF MarkRunning, FindContacts, ServiceInv
  <2> QED BY <1>5, <2>1 DEF OnPage
<1>10. CASE MarkSent(i) \/ DomainMissing(i) \/ AdvanceCursor(i) \/ BatchThrows(i)
  <2>1. Shifts(i, "leaving", run[i].todo)
    BY <1>10, MovesOf DEF ServiceInv
  <2>2. CASE FindContacts(i)
    BY <2>2, <1>2
  <2>3. CASE ~FindContacts(i)
    BY <1>5, <2>1, <2>3 DEF OnPage
  <2> QED BY <2>2, <2>3
<1>11. CASE CheckExisting(i)
  <2>1. Shifts(i, "next", { j \in run[i].todo : link[j].state = "none" }) /\ run[i].pc = "checking"
    BY <1>11, ShiftsByChecking DEF CheckExisting, ServiceInv
  <2>2. ~FindContacts(i)
    BY <2>1 DEF FindContacts
  <2>3. k \in run[i].todo => Reached(k)' \/ k \in { j \in run[i].todo : link[j].state = "none" }
    BY <1>1 DEF Reached
  <2> QED BY <1>5, <2>1, <2>2, <2>3 DEF OnPage
<1>12. CASE CreateEmail(i)
  <2>1. Shifts(i, "linking", run[i].todo) /\ run[i].pc = "next" /\ ~FindContacts(i)
    BY <1>12, MovesOf DEF CreateEmail, FindContacts, ServiceInv
  <2> QED BY <1>5, <2>1 DEF OnPage
<1>13. CASE LinkEmail(i)
  <2>1. PICK k0 \in Contacts :
           /\ k0 = Current(i) /\ k0 \in run[i].todo /\ run[i].pc = "linking"
           /\ UNCHANGED << campaign, bookVars, request, tick, job, sends, held, skipping,
                           suffered >>
           /\ \/ LinksNone(i, k0)
              \/ LinksAs(i, k0, "suppressed") /\ Shifts(i, "next", run[i].todo \ {k0})
              \/ LinksAs(i, k0, "pending") /\ Shifts(i, "queueing", run[i].todo)
    BY <1>13, LinkEmailCases DEF ServiceInv, JobHeld
  <2>2. ~FindContacts(i)
    BY <2>1 DEF FindContacts
  <2>3. CASE LinksNone(i, k0)
    BY <1>5, <2>1, <2>2, <2>3 DEF LinksNone, OnPage
  <2>4. CASE LinksAs(i, k0, "suppressed") /\ Shifts(i, "next", run[i].todo \ {k0})
    <3>1. Reached(k0)'
      BY <2>1, <2>4, LinkedAs DEF ServiceInv, Reached
    <3> QED BY <1>5, <2>1, <2>2, <2>4, <3>1 DEF OnPage
  <2>5. CASE LinksAs(i, k0, "pending") /\ Shifts(i, "queueing", run[i].todo)
    BY <1>5, <2>1, <2>2, <2>5 DEF OnPage
  <2> QED BY <2>1, <2>3, <2>4, <2>5
<1>14. CASE QueueEmail(i) \/ RecordFailure(i)
  <2>1. /\ Shifts(i, "next", run[i].todo \ {Current(i)}) /\ run[i].pc \in {"queueing", "recording"}
        /\ run[i].todo # {}
    BY <1>14, MovesOf DEF QueueEmail, RecordFailure, ServiceInv, JobHeld, AtOne, AtContact
  <2>2. ~FindContacts(i)
    BY <2>1 DEF FindContacts
  <2>3. PICK k0 \in Contacts : k0 = Current(i)
    BY <2>1, CurrentIsToDo DEF ServiceInv
  <2>4. Reached(k0)'
    <3>1. CASE QueueEmail(i)
      <4>1. i \in RunsAt(k0, "queueing")
        BY <2>3, <3>1 DEF QueueEmail, RunsAt
      <4>2. PICK n \in Nat : n = Cardinality(RunsAt(k0, "queueing"))
        BY RunsAtFinite
      <4>3. n # 0
        BY <4>1, <4>2, RunsAtFinite, FS_EmptySet
      <4>4. sends[k0] \in Nat /\ sends[k0] + n + ToBeLinked(k0) <= 1
        BY <1>1, <4>2 DEF ServiceInv, MailCounts, MailsPerLink, MailTypes, Followed
      <4>5. ToBeLinked(k0) = 0
        BY <4>2, <4>3, <4>4, Tallies
      <4>6. Reached(k0)
        BY <4>5 DEF ToBeLinked, Reached
      <4> QED BY <4>6, ReachedStays
    <3>2. CASE RecordFailure(i)
      <4>1. link' = [link EXCEPT ![k0].state = "failed"]
        BY <2>3, <3>2 DEF RecordFailure
      <4>2. link'[k0].state = "failed"
        BY <4>1 DEF ServiceInv, MailCounts, MailTypes, Links
      <4> QED BY <4>2 DEF Reached
    <3> QED BY <1>14, <3>1, <3>2
  <2> QED BY <1>5, <2>1, <2>2, <2>3, <2>4 DEF OnPage
<1>15. CASE RecordThrows(i)
  BY <1>15 DEF RecordThrows, Suffer, Followed
<1>16. CASE EndContacts(i)
  <2>1. Shifts(i, "advancing", run[i].todo) /\ run[i].pc = "next" /\ run[i].todo = {}
    BY <1>16, MovesOf DEF EndContacts, ServiceInv
  <2> QED BY <1>5, <2>1 DEF OnPage, FindContacts
<1>17. CASE \E f \in {"render", "db", "redis"} : ContactThrows(i, f)
  <2>1. Shifts(i, "recording", run[i].todo) /\ run[i].pc \in {"next", "linking", "queueing"}
    BY <1>17, MovesOf DEF ContactThrows, ServiceInv
  <2> QED BY <1>5, <2>1 DEF OnPage, FindContacts
<1> QED BY <1>2, <1>6, <1>7, <1>8, <1>9, <1>10, <1>11, <1>12, <1>13, <1>14, <1>15, <1>16,
           <1>17 DEF BatchStep

LEMMA NoneSkippedByStep ==
  ASSUME ServiceInv, NoneSkipped, NEW i \in Slots,
         BatchStep(i) \/ (\E f \in {"stall", "crash"} : Stall(i, f))
  PROVE  NoneSkipped'
<1>1. /\ CampaignExists' = CampaignExists /\ suffered \subseteq suffered'
      /\ UNCHANGED << contacts, steady >>
      /\ campaign'.cursor # campaign.cursor
              => AdvanceCursor(i) /\ campaign'.cursor = run[i].last
      /\ campaign'.status = "SENT" => campaign.status = "SENT" \/ MarkSent(i)
  BY StepRows DEF ServiceInv
<1>2. SteadySubscribed'
  BY <1>1 DEF NoneSkipped, SteadySubscribed
<1>3. skipping => skipping'
  <2>1. FindContacts(i) => (skipping => skipping')
    BY DEF FindContacts
  <2>2. ~FindContacts(i) => skipping' = skipping
    BY DEF BatchStep, StartBatch, MarkRunning, MarkSent, DomainMissing,
       CheckExisting, CreateEmail, LinkEmail, QueueEmail, RecordFailure, RecordThrows, EndContacts,
       AdvanceCursor, BatchThrows, FinishBatch, ContactThrows, Stall
  <2> QED BY <2>1, <2>2
<1>4. ASSUME Followed', NEW k \in steady
      PROVE  /\ campaign'.status = "SENT" \/ k <= campaign'.cursor => Reached(k)'
             /\ \A j \in Slots : ReachedBy(j, k)'
  <2>1. Followed
    BY <1>1, <1>3, <1>4 DEF Followed
  <2>2. /\ campaign.status = "SENT" \/ k <= campaign.cursor => Reached(k)
        /\ \A j \in Slots : ReachedBy(j, k)
    BY <2>1 DEF NoneSkipped, CursorsReached
  <2>3. k \in Contacts /\ (Reached(k) => Reached(k)')
    BY ReachedStays DEF ServiceInv, RowTypes
  <2>4. campaign'.status = "SENT" => Reached(k)'
    BY <1>1, <2>2, <2>3 DEF MarkSent, ReachedBy
  <2>5. k <= campaign'.cursor => Reached(k)'
    BY <1>1, <2>2, <2>3 DEF AdvanceCursor, ReachedBy
  <2>6. \A j \in Slots : j # i => run'[j] = run[j]
    <3>1. CASE StartBatch(i)
      BY <3>1, BeginsByStart DEF ServiceInv, BeginsBatch, OtherRunsStay
    <3>2. CASE FindContacts(i)
      BY <3>2, PageByFind DEF ServiceInv, FindsPage, OtherRunsStay
    <3>3. CASE CheckExisting(i)
      BY <3>3, ShiftsByChecking DEF ServiceInv, Shifts, OtherRunsStay
    <3>4. CASE LinkEmail(i)
      BY <3>4, LinkEmailCases DEF ServiceInv, JobHeld, LinksNone, Shifts, OtherRunsStay
    <3>5. CASE FinishBatch(i) \/ Stall(i, "crash") \/ Stall(i, "stall")
      BY <3>5, MovesOf DEF ServiceInv, Stops, OtherRunsStay
    <3>6. CASE MarkSent(i) \/ DomainMissing(i) \/ AdvanceCursor(i) \/ BatchThrows(i)
      BY <3>6, MovesOf DEF ServiceInv, Shifts, OtherRunsStay
    <3>7. CASE QueueEmail(i) \/ RecordFailure(i) \/ RecordThrows(i) \/ CreateEmail(i)
      BY <3>7, MovesOf DEF ServiceInv, Shifts, OtherRunsStay
    <3>8. CASE MarkRunning(i) \/ EndContacts(i)
               \/ \E f \in {"render", "db", "redis"} : ContactThrows(i, f)
      BY <3>8, MovesOf DEF ServiceInv, Shifts, OtherRunsStay
    <3> QED BY <3>1, <3>2, <3>3, <3>4, <3>5, <3>6, <3>7, <3>8 DEF BatchStep
  <2>7. ASSUME NEW j \in Slots, j # i  PROVE ReachedBy(j, k)'
    BY <2>2, <2>3, <2>6, <2>7 DEF ReachedBy
  <2>8. ReachedBy(i, k)'
    BY <1>4, PageReached
  <2> QED BY <2>4, <2>5, <2>7, <2>8
<1> QED BY <1>1, <1>2, <1>4 DEF NoneSkipped, CursorsReached

LEMMA NoneSkippedByRequest ==
  ASSUME ServiceInv, NoneSkipped, NEW r \in CampaignRequests, Request(r)
  PROVE  NoneSkipped'
<1>1. /\ run' = run /\ suffered' = suffered
      /\ contacts' = contacts /\ steady' = steady /\ skipping' = skipping
      /\ DeleteCampaign(r) \/ (UNCHANGED mailVars /\ CampaignExists' = CampaignExists
                               /\ (CampaignExists =>
                                     /\ campaign'.cursor \in {campaign.cursor, 0}
                                     /\ campaign'.status # "SENT" \/ campaign' = campaign))
  BY RequestRows DEF ServiceInv
<1>2. SteadySubscribed'
  BY <1>1 DEF NoneSkipped, SteadySubscribed
<1>3. CASE DeleteCampaign(r)
  <2>1. ~Followed'
    BY <1>3, DeleteCampaignCounts DEF ServiceInv, Followed
  <2> QED BY <1>2, <2>1 DEF NoneSkipped, CursorsReached
<1>4. CASE ~DeleteCampaign(r)
  <2>1. ASSUME Followed', NEW k \in steady
        PROVE  /\ campaign'.status = "SENT" \/ k <= campaign'.cursor => Reached(k)'
               /\ \A j \in Slots : ReachedBy(j, k)'
    <3>1. Followed /\ CampaignExists
      BY <1>1, <1>4, <2>1 DEF Followed
    <3>2. /\ campaign.status = "SENT" \/ k <= campaign.cursor => Reached(k)
          /\ \A j \in Slots : ReachedBy(j, k)
      BY <3>1 DEF NoneSkipped, CursorsReached
    <3>3. Reached(k)' <=> Reached(k)
      BY <1>1, <1>4 DEF Reached, mailVars
    <3>4. ~(k <= 0)
      BY ContactsAssumption DEF ServiceInv, RowTypes
    <3>5. \A j \in Slots : ReachedBy(j, k)'
      BY <1>1, <3>2, <3>3 DEF ReachedBy
    <3> QED BY <1>1, <1>4, <3>1, <3>2, <3>3, <3>4, <3>5
  <2> QED BY <1>1, <1>2, <2>1 DEF NoneSkipped, CursorsReached
<1> QED BY <1>3, <1>4

LEMMA NoneSkippedOutside ==
  ASSUME ServiceInv, NoneSkipped, OutsideSteps
  PROVE  NoneSkipped'
<1>1. /\ run' = run /\ suffered' = suffered /\ skipping' = skipping
      /\ UNCHANGED mailVars /\ CampaignExists' = CampaignExists
      /\ campaign'.cursor = campaign.cursor /\ campaign'.status = campaign.status
      /\ steady' \subseteq steady /\ \A k \in steady' : contacts'[k] = contacts[k]
  BY OutsideRows DEF ServiceInv
<1>2. SteadySubscribed'
  BY <1>1 DEF NoneSkipped, SteadySubscribed
<1>3. Followed' => Followed
  BY <1>1 DEF Followed
<1>4. \A k : (Reached(k)' <=> Reached(k)) /\ \A j : ReachedBy(j, k)' <=> ReachedBy(j, k)
  BY <1>1 DEF Reached, ReachedBy, mailVars
<1> QED BY <1>1, <1>2, <1>3, <1>4 DEF NoneSkipped, CursorsReached

-----------------------------------------------------------------------------
(***************************************************************************)
(* All of it together.                                                     *)
(***************************************************************************)
CampaignInv == ServiceInv /\ MailHeld /\ NoneSkipped

LEMMA CampaignInvInit == CampaignInit => CampaignInv
<1> SUFFICES ASSUME CampaignInit  PROVE CampaignInv
  OBVIOUS
<1>1. RunTypes /\ \A i \in Slots : run[i] = Stopped
  BY StoppedTypes DEF CampaignInit, RunTypes
<1>2. RowTypes
  <2>1. campaign \in Campaigns
    BY DEF CampaignInit, Campaigns, CampaignStatus
  <2>2. contacts \in [Contacts -> ContactStates] /\ steady \subseteq Contacts
    BY ContactsAssumption DEF CampaignInit, ContactStates
  <2>3. request \in [CampaignRequests -> CampaignRequestTypes]
    BY DEF CampaignInit, CampaignRequestTypes
  <2>4. job \in BatchJobs
    BY BatchAssumption DEF CampaignInit, NoBatch, BatchJobs
  <2> QED BY <2>1, <2>2, <2>3, <2>4 DEF CampaignInit, RowTypes
<1>3. CountTypes
  BY BatchAssumption DEF CampaignInit, CountTypes
<1>4. MailTypes
  BY DEF CampaignInit, MailTypes, NoMail, Links
<1>5. ASSUME NEW k \in Contacts
      PROVE  /\ link[k].state = "none" /\ ~link[k].queued /\ loose[k] = 0 /\ sends[k] = 0
             /\ ToBeLinked(k) = 1 /\ Unqueued(k) = 0
  BY DEF CampaignInit, NoMail, ToBeLinked, Unqueued
<1>6. \A k, s : s # "idle" => Cardinality(RunsAt(k, s)) = 0
  BY <1>1, FS_EmptySet DEF RunsAt, Stopped
<1>7. CampaignExists
  BY DEF CampaignInit, CampaignExists
<1>8. MailCounts
  BY <1>4, <1>5, <1>6, <1>7 DEF MailCounts, MailsPerLink, EmailsAreLoose, NoneIsQueued
<1>9. JobHeld
  <2>1. job.owner = 0 /\ job.state = "none"
    BY DEF CampaignInit, NoBatch
  <2> QED BY <1>1, <2>1, SlotTypes DEF JobHeld, ActiveHasOwner, OneRun, AtOne, Stopped, AtContact
<1>10. MailHeld
  BY <1>1, <1>5 DEF MailHeld, PageUnmailed, PageOf, FailedUnqueued, NoneLost, LooseHeld, PendingHeld,
     Stopped
<1>11. NoneSkipped
  <2>1. SteadySubscribed
    BY ContactsAssumption DEF CampaignInit, SteadySubscribed
  <2>2. campaign.cursor = 0 /\ campaign.status = "DRAFT" /\ \A k \in steady : ~(k <= 0)
    BY ContactsAssumption DEF CampaignInit
  <2> QED BY <1>1, <2>1, <2>2 DEF NoneSkipped, CursorsReached, ReachedBy, Stopped, OnPage
<1> QED BY <1>1, <1>2, <1>3, <1>8, <1>9, <1>10, <1>11 DEF CampaignInv, ServiceInv

LEMMA CampaignInvNext == CampaignInv /\ [CampaignNext]_campaignVars => CampaignInv'
<1> SUFFICES ASSUME CampaignInv, [CampaignNext]_campaignVars  PROVE CampaignInv'
  OBVIOUS
<1>1. ServiceInv /\ MailHeld /\ NoneSkipped
  BY DEF CampaignInv
<1>2. CampaignNext => CountTypes'
  BY <1>1, CountTypesKept DEF ServiceInv
<1>3. CASE \E r \in CampaignRequests : Request(r)
  <2>1. PICK r \in CampaignRequests : Request(r)
    BY <1>3
  <2>2. /\ RowTypes' /\ run' = run /\ job' = job /\ suffered' = suffered
        /\ DeleteCampaign(r) \/ (UNCHANGED mailVars /\ CampaignExists' = CampaignExists)
    BY <1>1, <2>1, RequestRows DEF ServiceInv
  <2>3. RunTypes' /\ JobHeld'
    BY <1>1, <2>2 DEF ServiceInv, RunTypes, JobHeld, ActiveHasOwner, OneRun, AtOne, NoStall
  <2>4. MailCounts' /\ MailHeld'
    BY <1>1, <2>1, <2>2, DeleteCampaignCounts, DeleteHeld, CountsStay, HeldStays DEF ServiceInv
  <2>5. NoneSkipped'
    BY <1>1, <2>1, NoneSkippedByRequest
  <2>6. CountTypes'
    BY <1>2, <1>3 DEF CampaignNext
  <2> QED BY <2>2, <2>3, <2>4, <2>5, <2>6 DEF CampaignInv, ServiceInv
<1>4. CASE OutsideSteps
  <2>1. /\ RowTypes' /\ run' = run /\ suffered' = suffered
        /\ UNCHANGED mailVars /\ CampaignExists' = CampaignExists
        /\ job'.owner = job.owner /\ (job'.state = "active" <=> job.state = "active")
    BY <1>1, <1>4, OutsideRows DEF ServiceInv
  <2>2. RunTypes' /\ JobHeld'
    BY <1>1, <2>1 DEF ServiceInv, RunTypes, JobHeld, ActiveHasOwner, OneRun, AtOne, NoStall
  <2>3. MailCounts' /\ MailHeld'
    BY <1>1, <2>1, CountsStay, HeldStays DEF ServiceInv
  <2>4. NoneSkipped'
    BY <1>1, <1>4, NoneSkippedOutside
  <2>5. CountTypes'
    BY <1>2, <1>4 DEF CampaignNext, OutsideSteps
  <2> QED BY <2>1, <2>2, <2>3, <2>4, <2>5 DEF CampaignInv, ServiceInv
<1>5. ASSUME NEW i \in Slots, BatchStep(i) \/ (\E f \in {"stall", "crash"} : Stall(i, f))
      PROVE  CampaignInv'
  <2>1. JobHeld' /\ job' \in BatchJobs /\ RunTypes'
    BY <1>1, <1>5, StepJob DEF ServiceInv
  <2>2. /\ campaign' \in Campaigns /\ suffered' \subseteq CampaignFaults
        /\ UNCHANGED << contacts, edits, steady, request, tick >> /\ skipping' \in BOOLEAN
    BY <1>1, <1>5, StepRows DEF ServiceInv
  <2>3. RowTypes'
    BY <1>1, <2>1, <2>2 DEF ServiceInv, RowTypes
  <2>4. MailCounts' /\ MailHeld' /\ NoneSkipped'
    BY <1>1, <1>5, StepCounts, StepHeld, NoneSkippedByStep
  <2>5. CountTypes'
    BY <1>2, <1>5 DEF CampaignNext
  <2> QED BY <2>1, <2>3, <2>4, <2>5 DEF CampaignInv, ServiceInv
<1>6. CASE UNCHANGED campaignVars
  <2>1. UNCHANGED mailVars /\ run' = run /\ CampaignExists' = CampaignExists
        /\ UNCHANGED << campaign, contacts, edits, steady, request, tick, job, held, skipping,
                        suffered >>
    BY <1>6 DEF campaignVars, bookVars, CampaignExists
  <2>2. MailCounts' /\ MailHeld'
    BY <1>1, <2>1, CountsStay, HeldStays DEF ServiceInv
  <2>3. RunTypes' /\ JobHeld' /\ RowTypes' /\ CountTypes'
    BY <1>1, <2>1 DEF ServiceInv, RunTypes, JobHeld, ActiveHasOwner, OneRun, AtOne, NoStall, RowTypes,
       CountTypes
  <2>4. NoneSkipped'
    BY <1>1, <2>1 DEF NoneSkipped, SteadySubscribed, CursorsReached, Followed, Reached, ReachedBy,
       mailVars
  <2> QED BY <2>2, <2>3, <2>4 DEF CampaignInv, ServiceInv
<1> QED BY <1>3, <1>4, <1>5, <1>6 DEF CampaignNext, OutsideSteps

LEMMA CampaignInvServes == CampaignInv => ContactsAreServed
<1> SUFFICES ASSUME CampaignInv  PROVE ContactsAreServed
  OBVIOUS
<1>1. ServiceInv /\ MailHeld /\ NoneSkipped
  BY DEF CampaignInv
<1>2. BatchTypeOK
  BY <1>1 DEF ServiceInv, RunTypes, RowTypes, CountTypes, MailCounts, MailTypes, JobHeld, AtOne,
     AtContact, BatchTypeOK, BatchRuns, Campaigns, BatchJobs, Links, CampaignRequestTypes
<1>3. OneMailPerContact
  <2> SUFFICES ASSUME NEW k \in Contacts  PROVE sends[k] <= IF CampaignExists THEN 1 ELSE 2
    BY DEF OneMailPerContact
  <2>1. PICK n \in Nat : n = Cardinality(RunsAt(k, "queueing"))
    BY RunsAtFinite
  <2>2. sends[k] \in Nat /\ sends[k] + n + ToBeLinked(k) <= IF CampaignExists THEN 1 ELSE 2
    BY <1>1, <2>1 DEF ServiceInv, MailCounts, MailsPerLink, MailTypes
  <2> QED BY <2>2, Tallies
<1>4. NobodySkipped
  BY <1>1 DEF NobodySkipped, NoneSkipped, CursorsReached, Followed, CampaignExists
<1>5. FailedContactIsUnsent
  <2> SUFFICES ASSUME NEW k \in Contacts, link[k].state = "failed", link[k].queued, NoStall
               PROVE  FALSE
    BY DEF FailedContactIsUnsent, NoStall
  <2> QED BY <1>1, Zenon DEF MailHeld, FailedUnqueued
<1>6. PendingMailHasJob
  <2> SUFFICES ASSUME NEW k \in Contacts, Fine,
                      (link[k].state = "pending" /\ ~link[k].queued)
                      \/ (loose[k] > 0 /\ CampaignExists)
               PROVE  \E i \in Slots : /\ run[i].pc \in {"linking", "queueing", "recording"}
                                       /\ k = Current(i)
    BY DEF PendingMailHasJob, Fine
  <2>1. LooseHeld(k) /\ PendingHeld(k)
    BY <1>1 DEF MailHeld, NoneLost
  <2> QED BY <2>1 DEF LooseHeld, PendingHeld
<1> QED BY <1>2, <1>3, <1>4, <1>5, <1>6 DEF ContactsAreServed

(***************************************************************************)
(* Why a pause holds: the runs that are under way while the campaign shows *)
(* PAUSED were so at the pause, and what each of them has left to mail is  *)
(* at most a page.  To add up what the runs have left, it is numbered      *)
(* within each run.                                                        *)
(***************************************************************************)
ToMail(r) ==
  IF r.pc \in {"marking", "finding"} THEN BatchSize
  ELSE IF r.pc \in OnPage THEN Cardinality(r.todo) ELSE 0
Owing == { t \in UnderWay \X (1 .. BatchSize) : t[2] <= ToMail(run[t[1]]) }

PagesAreSized == \A i \in Slots : run[i].pc \in OnPage => Cardinality(run[i].todo) <= BatchSize
MailsWithin ==
  campaign.status = "PAUSED" =>
    /\ Cardinality(UnderWay) <= held.runs
    /\ held.mails + Cardinality(Owing) <= BatchSize * held.runs
PauseInv == PagesAreSized /\ MailsWithin

LEMMA PageIsSized ==
  ASSUME NEW S, S \subseteq Contacts
  PROVE  Cardinality(FirstOf(BatchSize, S)) <= BatchSize
<1>1. IsFiniteSet(S) /\ S \subseteq Nat
  BY ContactsAssumption, FS_Subset
<1>2. PICK P : P = FirstOf(BatchSize, S)
  OBVIOUS
<1>3. P \subseteq S /\ IsFiniteSet(P)
  BY <1>1, <1>2, FS_Subset DEF FirstOf
<1>4. CASE P = {}
  BY <1>2, <1>4, FS_EmptySet, BatchAssumption
<1>5. CASE P # {}
  <2>1. PICK m \in P : \A k \in P : k <= m
    BY <1>1, <1>3, <1>5, LastId
  <2>2. IsFiniteSet({ j \in S : j <= m }) /\ P \subseteq { j \in S : j <= m }
    BY <1>1, <1>3, <2>1, FS_Subset
  <2>3. /\ Cardinality(P) <= Cardinality({ j \in S : j <= m })
        /\ Cardinality(P) \in Nat /\ Cardinality({ j \in S : j <= m }) \in Nat
    BY <1>3, <2>2, FS_Subset, FS_CardinalityType
  <2>4. Cardinality({ j \in S : j <= m }) <= BatchSize
    BY <1>2, <2>1 DEF FirstOf
  <2> QED BY <1>2, <2>3, <2>4, BatchAssumption
<1> QED BY <1>4, <1>5

LEMMA ToDoCounts ==
  ASSUME NEW S, S \subseteq Contacts
  PROVE  /\ IsFiniteSet(S) /\ Cardinality(S) \in Nat
         /\ \A T \in SUBSET S : Cardinality(T) \in Nat /\ Cardinality(T) <= Cardinality(S)
         /\ \A k \in S : Cardinality(S \ {k}) = Cardinality(S) - 1
<1>1. IsFiniteSet(S)
  BY ContactsAssumption, FS_Subset
<1> QED BY <1>1, FS_Subset, FS_CardinalityType, FS_RemoveElement

LEMMA LeftTypes ==
  ASSUME RunTypes, NEW i \in Slots
  PROVE  ToMail(run[i]) \in Nat
<1>1. run[i].todo \subseteq Contacts
  BY DEF RunTypes, BatchRuns
<1> QED BY <1>1, ToDoCounts, BatchAssumption DEF ToMail

OwingIsCounted ==
  /\ IsFiniteSet(UnderWay) /\ Cardinality(UnderWay) \in Nat
  /\ IsFiniteSet(Owing) /\ Cardinality(Owing) \in Nat
  /\ Cardinality(Owing) <= BatchSize * Cardinality(UnderWay)

LEMMA OwingCounts == OwingIsCounted
<1>1. IsFiniteSet(UnderWay) /\ Cardinality(UnderWay) \in Nat
  BY SlotTypes, FS_Subset, FS_CardinalityType DEF UnderWay
<1>2. IsFiniteSet(1 .. BatchSize) /\ Cardinality(1 .. BatchSize) = BatchSize
  <2>1. PICK n \in Nat \ {0} : n = BatchSize
    BY BatchAssumption
  <2>2. 1 \in Int /\ n \in Int
    BY <2>1
  <2>3. IsFiniteSet(1 .. n) /\ Cardinality(1 .. n) = IF 1 > n THEN 0 ELSE n - 1 + 1
    BY <2>2, FS_Interval, Zenon
  <2> QED BY <2>1, <2>3
<1>3. /\ IsFiniteSet(UnderWay \X (1 .. BatchSize))
      /\ Cardinality(UnderWay \X (1 .. BatchSize)) = Cardinality(UnderWay) * BatchSize
  BY <1>1, <1>2, FS_Product
<1>4. Owing \subseteq UnderWay \X (1 .. BatchSize)
  BY DEF Owing
<1>5. /\ IsFiniteSet(Owing) /\ Cardinality(Owing) \in Nat
      /\ Cardinality(Owing) <= Cardinality(UnderWay \X (1 .. BatchSize))
  BY <1>3, <1>4, FS_Subset, FS_CardinalityType
<1>6. Cardinality(UnderWay) * BatchSize = BatchSize * Cardinality(UnderWay)
  BY <1>1, BatchAssumption
<1> QED BY <1>1, <1>3, <1>5, <1>6 DEF OwingIsCounted

LEMMA OwingThen == OwingIsCounted'
BY OwingCounts, PTL

\* A run that was under way goes on, with no more left to mail than before.
LEMMA OwesNoMore ==
  ASSUME RunTypes, NEW i \in Slots, OtherRunsStay(i),
         run'[i].pc \notin {"idle", "leaving"} => i \in UnderWay,
         run'[i].pc \notin {"idle", "leaving"} => ToMail(run'[i]) <= ToMail(run[i])
  PROVE  UnderWay' \subseteq UnderWay /\ Owing' \subseteq Owing
<1>1. \A j \in Slots : j # i => run'[j] = run[j]
  BY DEF OtherRunsStay
<1>2. UnderWay' \subseteq UnderWay
  BY <1>1 DEF UnderWay
<1>3. Owing' \subseteq Owing
  <2> SUFFICES ASSUME NEW t \in Owing'  PROVE t \in Owing
    OBVIOUS
  <2>1. PICK j \in UnderWay', n \in 1 .. BatchSize : t = << j, n >>
    BY DEF Owing
  <2>2. n <= ToMail(run'[j])
    BY <2>1 DEF Owing, ToMail
  <2>3. j \in UnderWay /\ j \in Slots
    BY <1>2, <2>1 DEF UnderWay
  <2>4. ToMail(run'[j]) <= ToMail(run[j]) /\ ToMail(run'[j]) \in Nat /\ ToMail(run[j]) \in Nat
    <3>1. ToMail(run'[j]) \in Nat
      <4>1. run'[j].todo \subseteq Contacts
        BY <2>3 DEF OtherRunsStay, BatchRuns
      <4> QED BY <4>1, ToDoCounts, BatchAssumption DEF ToMail
    <3>2. ToMail(run[j]) \in Nat
      BY <2>3, LeftTypes
    <3>3. CASE j = i
      BY <2>1, <3>1, <3>2, <3>3 DEF UnderWay
    <3>4. CASE j # i
      BY <1>1, <2>3, <3>1, <3>2, <3>4
    <3> QED BY <3>3, <3>4
  <2>5. n <= ToMail(run[j])
    BY <2>1, <2>2, <2>4, BatchAssumption
  <2> QED BY <2>1, <2>3, <2>5 DEF Owing
<1> QED BY <1>2, <1>3

\* The bound, for numbers of runs and mails.
LEMMA WithinStays ==
  ASSUME CountTypes, MailsWithin, UnderWay' \subseteq UnderWay, Owing' \subseteq Owing,
         campaign'.status = "PAUSED" => campaign.status = "PAUSED",
         \/ held' = held
         \/ /\ held'.runs = held.runs /\ held'.mails = held.mails + 1
            /\ Owing' # Owing
  PROVE  MailsWithin'
<1> SUFFICES ASSUME campaign'.status = "PAUSED"
             PROVE  /\ Cardinality(UnderWay') <= held'.runs
                    /\ held'.mails + Cardinality(Owing') <= BatchSize * held'.runs
  BY DEF MailsWithin, Owing, ToMail, UnderWay
<1>1. /\ held.runs \in Nat /\ held.mails \in Nat
      /\ Cardinality(UnderWay) <= held.runs
      /\ held.mails + Cardinality(Owing) <= BatchSize * held.runs
  BY BatchAssumption DEF CountTypes, MailsWithin
<1>2. /\ Cardinality(UnderWay') <= Cardinality(UnderWay)
      /\ Cardinality(Owing') <= Cardinality(Owing)
      /\ Owing' # Owing => Cardinality(Owing') # Cardinality(Owing)
  BY OwingCounts, FS_Subset DEF OwingIsCounted
<1>3. PICK n \in Nat : n = BatchSize * held.runs
  BY <1>1, BatchAssumption
<1>4. held'.runs = held.runs
  OBVIOUS
<1> QED BY <1>1, <1>2, <1>3, <1>4, OwingCounts, OwingThen DEF OwingIsCounted

LEMMA PausedByRequest ==
  ASSUME ServiceInv, PauseInv, NEW r \in CampaignRequests, Request(r)
  PROVE  PauseInv'
<1>1. run' = run /\ UnderWay' = UnderWay /\ Owing' = Owing
  BY RequestRows DEF ServiceInv, UnderWay, Owing, ToMail
<1>2. PagesAreSized'
  BY <1>1 DEF PauseInv, PagesAreSized
<1>3. CASE PauseCampaign(r)
  <2>1. held'.runs = Cardinality(UnderWay) /\ held'.mails = 0
    BY <1>3 DEF PauseCampaign
  <2>2. PICK n \in Nat : n = BatchSize * Cardinality(UnderWay)
    BY OwingCounts, BatchAssumption DEF OwingIsCounted
  <2>3. MailsWithin'
    BY <1>1, <2>1, <2>2, OwingCounts DEF OwingIsCounted, MailsWithin
  <2> QED BY <1>2, <2>3 DEF PauseInv
<1>4. CASE ~PauseCampaign(r)
  <2>1. campaign'.status = "PAUSED" => campaign.status = "PAUSED"
    <3>1. campaign \in Campaigns
      BY DEF ServiceInv, RowTypes
    <3>2. CASE WriteSchedule(r)
      BY <3>2 DEF WriteSchedule
    <3>3. CASE ResumeCampaign(r)
      <4>1. PICK s \in {"RUNNING", "SCHEDULED"} : campaign' = [campaign EXCEPT !.status = s]
        BY <3>3 DEF ResumeCampaign, SetStatus
      <4> QED BY <3>1, <4>1 DEF Campaigns
    <3>4. CASE DeleteCampaign(r)
      BY <3>1, <3>4 DEF DeleteCampaign, Campaigns
    <3>5. CASE ReadForSchedule(r)
      BY <3>5 DEF ReadForSchedule
    <3> QED BY <1>4, <3>2, <3>3, <3>4, <3>5 DEF Request
  <2>2. held' = held
    BY <1>4 DEF Request, ReadForSchedule, WriteSchedule, ResumeCampaign, DeleteCampaign
  <2> QED BY <1>1, <1>2, <2>1, <2>2, WithinStays DEF PauseInv, ServiceInv
<1> QED BY <1>3, <1>4

\* A step of run i that leaves it less to do, or takes it to no contact at all.
LEMMA PausedByShift ==
  ASSUME ServiceInv, PauseInv, NEW i \in Slots, NEW s \in BatchPCs, NEW S \in SUBSET run[i].todo,
         Shifts(i, s, S), s \notin {"idle", "marking", "finding"},
         run[i].pc \in OnPage \/ s \notin OnPage,
         s = "leaving" \/ i \in UnderWay,
         held' = held, campaign'.status = "PAUSED" => campaign.status = "PAUSED"
  PROVE  PauseInv'
<1>1. run'[i].pc = s /\ run'[i].todo = S /\ OtherRunsStay(i) /\ run[i].todo \subseteq Contacts
  BY DEF Shifts, ServiceInv, RunTypes, BatchRuns
<1>2. /\ Cardinality(S) \in Nat /\ Cardinality(run[i].todo) \in Nat
      /\ Cardinality(S) <= Cardinality(run[i].todo)
  BY <1>1, ToDoCounts
<1>3. PagesAreSized'
  BY <1>1, <1>2, BatchAssumption DEF PauseInv, PagesAreSized, OtherRunsStay
<1>4. s # "leaving" => ToMail(run'[i]) <= ToMail(run[i])
  <2>1. CASE s \in OnPage
    BY <1>1, <1>2, <2>1 DEF ToMail, OnPage
  <2>2. CASE s \notin OnPage
    BY <1>1, <2>2, LeftTypes DEF ToMail, ServiceInv
  <2> QED BY <2>1, <2>2
<1>5. UnderWay' \subseteq UnderWay /\ Owing' \subseteq Owing
  BY <1>1, <1>4, OwesNoMore DEF ServiceInv
<1> QED BY <1>3, <1>5, WithinStays DEF PauseInv, ServiceInv

LEMMA PausedByStart ==
  ASSUME ServiceInv, PauseInv, NEW i \in Slots, StartBatch(i)
  PROVE  PauseInv'
<1>1. BeginsBatch(i) /\ UNCHANGED << campaign, held >> /\ run[i].pc = "idle"
  BY BeginsByStart DEF StartBatch, ServiceInv
<1>2. PagesAreSized'
  BY <1>1 DEF BeginsBatch, OtherRunsStay, PauseInv, PagesAreSized, OnPage
<1>3. CASE campaign.status = "PAUSED"
  <2>1. run'[i].pc = "leaving"
    BY <1>3 DEF StartBatch, ServiceInv, RunTypes, CampaignExists, Stopped, BatchRuns
  <2>2. UnderWay' \subseteq UnderWay /\ Owing' \subseteq Owing
    BY <1>1, <2>1, OwesNoMore DEF BeginsBatch, ServiceInv
  <2> QED BY <1>1, <1>2, <2>2, WithinStays DEF PauseInv, ServiceInv
<1>4. CASE campaign.status # "PAUSED"
  BY <1>1, <1>2, <1>4 DEF PauseInv, MailsWithin
<1> QED BY <1>3, <1>4

LEMMA PausedByFind ==
  ASSUME ServiceInv, PauseInv, NEW i \in Slots, FindContacts(i)
  PROVE  PauseInv'
<1>1. FindsPage(i) /\ UNCHANGED << campaign, held >> /\ run[i].pc = "finding"
  BY PageByFind DEF FindContacts, ServiceInv
<1>2. PICK P : P = FirstOf(BatchSize, Behind(run[i].cursor))
  OBVIOUS
<1>3. Cardinality(P) <= BatchSize
  BY <1>2, BehindTypes, PageIsSized
<1>4. OtherRunsStay(i) /\ run'[i].todo = P /\ run'[i].pc \in {"finishing", "checking"}
  BY <1>1, <1>2 DEF FindsPage
<1>5. PagesAreSized'
  BY <1>3, <1>4 DEF PauseInv, PagesAreSized, OtherRunsStay
<1>6. i \in UnderWay /\ ToMail(run[i]) = BatchSize /\ ToMail(run'[i]) <= BatchSize
  BY <1>1, <1>3, <1>4, BatchAssumption DEF UnderWay, ToMail, OnPage
<1>7. UnderWay' \subseteq UnderWay /\ Owing' \subseteq Owing
  BY <1>4, <1>6, OwesNoMore DEF ServiceInv
<1> QED BY <1>1, <1>5, <1>7, WithinStays, SMTT(30) DEF PauseInv, ServiceInv

LEMMA PausedByQueue ==
  ASSUME ServiceInv, PauseInv, NEW i \in Slots, QueueEmail(i)
  PROVE  PauseInv'
<1>1. PICK k : k = Current(i)
  OBVIOUS
<1>2. /\ run[i].pc = "queueing" /\ campaign' = campaign /\ k \in run[i].todo
      /\ Shifts(i, "next", run[i].todo \ {k})
      /\ run[i].todo \subseteq Contacts
      /\ held' = IF campaign.status = "PAUSED" THEN [held EXCEPT !.mails = @ + 1] ELSE held
  BY <1>1, MovesOf, CurrentIsToDo DEF QueueEmail, ServiceInv, JobHeld, AtOne, AtContact, RunTypes, BatchRuns
<1>3. PICK n \in Nat : n = Cardinality(run[i].todo)
  BY <1>2, ToDoCounts
<1>4. /\ Cardinality(run[i].todo \ {k}) = n - 1 /\ n >= 1
  <2>1. Cardinality(run[i].todo \ {k}) = n - 1 /\ Cardinality(run[i].todo \ {k}) \in Nat
    BY <1>2, <1>3, ToDoCounts
  <2> QED BY <2>1
<1>5. n <= BatchSize
  BY <1>2, <1>3 DEF PauseInv, PagesAreSized, OnPage
<1>6. OtherRunsStay(i) /\ run'[i].pc = "next" /\ run'[i].todo = run[i].todo \ {k}
  BY <1>2 DEF Shifts
<1>7. PagesAreSized'
  <2>1. Cardinality(run'[i].todo) <= BatchSize
    <3>1. Cardinality(run'[i].todo) = n - 1
      BY <1>4, <1>6
    <3> QED BY <1>5, <3>1, BatchAssumption
  <2> QED BY <1>6, <2>1 DEF PauseInv, PagesAreSized, OtherRunsStay
<1>8. ToMail(run[i]) = n /\ ToMail(run'[i]) = n - 1 /\ i \in UnderWay
  BY <1>2, <1>3, <1>4, <1>6 DEF ToMail, OnPage, UnderWay
<1>9. UnderWay' \subseteq UnderWay /\ Owing' \subseteq Owing
  BY <1>6, <1>8, OwesNoMore DEF ServiceInv
<1>10. Owing' # Owing
  <2>1. << i, n >> \in Owing
    BY <1>4, <1>5, <1>8, BatchAssumption DEF Owing
  <2>2. ~ (n <= n - 1)
    OBVIOUS
  <2>3. << i, n >> \notin Owing'
    BY <1>8, <2>2 DEF Owing, ToMail
  <2> QED BY <2>1, <2>3
<1>11. held' = held \/ (held'.runs = held.runs /\ held'.mails = held.mails + 1)
  BY <1>2 DEF ServiceInv, CountTypes
<1> QED BY <1>2, <1>7, <1>9, <1>10, <1>11, WithinStays DEF PauseInv, ServiceInv

LEMMA PausedByStep ==
  ASSUME ServiceInv, PauseInv, NEW i \in Slots,
         BatchStep(i) \/ (\E f \in {"stall", "crash"} : Stall(i, f))
  PROVE  /\ PauseInv'
         /\ campaign.status = "PAUSED" /\ campaign'.status # "PAUSED" => i \in UnderWay
<1>1. campaign \in Campaigns /\ run[i] \in BatchRuns
  BY DEF ServiceInv, RowTypes, RunTypes
<1>2. CASE StartBatch(i)
  BY <1>2, PausedByStart DEF StartBatch
<1>3. CASE FindContacts(i)
  BY <1>3, PausedByFind DEF FindContacts
<1>4. CASE QueueEmail(i)
  BY <1>4, PausedByQueue DEF QueueEmail
<1>5. CASE MarkRunning(i)
  <2>1. /\ Shifts(i, "finding", run[i].todo) /\ run[i].pc = "marking" /\ held' = held
        /\ campaign'.status = "RUNNING"
    BY <1>1, <1>5, MovesOf DEF MarkRunning, ServiceInv, Campaigns
  <2>2. i \in UnderWay /\ ToMail(run[i]) = BatchSize /\ ToMail(run'[i]) = BatchSize
    BY <2>1 DEF UnderWay, Shifts, ToMail
  <2>3. PagesAreSized'
    BY <2>1 DEF Shifts, OtherRunsStay, PauseInv, PagesAreSized, OnPage
  <2> QED BY <2>1, <2>2, <2>3 DEF PauseInv, MailsWithin
<1>6. CASE MarkSent(i) \/ DomainMissing(i) \/ AdvanceCursor(i) \/ BatchThrows(i)
  <2>1. Shifts(i, "leaving", run[i].todo) /\ held' = held
    BY <1>6, MovesOf DEF ServiceInv, MarkSent, DomainMissing, AdvanceCursor, BatchThrows
  <2>2. i \in UnderWay
    BY <1>6 DEF MarkSent, DomainMissing, AdvanceCursor, BatchThrows, UnderWay
  <2>3. campaign'.status = "PAUSED" => campaign.status = "PAUSED"
    BY <1>1, <1>6 DEF MarkSent, DomainMissing, AdvanceCursor, BatchThrows, Campaigns
  <2> QED BY <2>1, <2>2, <2>3, PausedByShift DEF BatchPCs, OnPage
<1>7. CASE CheckExisting(i)
  <2>1. /\ Shifts(i, "next", { k \in run[i].todo : link[k].state = "none" })
        /\ UNCHANGED << campaign, held >> /\ run[i].pc = "checking"
    BY <1>7, ShiftsByChecking DEF CheckExisting, ServiceInv
  <2> QED BY <2>1, PausedByShift DEF BatchPCs, OnPage, UnderWay
<1>8. CASE LinkEmail(i)
  <2>1. PICK s \in BatchPCs, S \in SUBSET run[i].todo : s \in OnPage /\ Shifts(i, s, S)
    BY <1>8, LinkEmailCases, MovesOf
    DEF ServiceInv, JobHeld, LinksNone, OnPage, BatchPCs
  <2>2. UNCHANGED << campaign, held >> /\ run[i].pc = "linking"
    BY <1>8 DEF LinkEmail
  <2> QED BY <2>1, <2>2, PausedByShift DEF OnPage, UnderWay
<1>9. CASE RecordFailure(i) \/ RecordThrows(i)
  <2>1. /\ Shifts(i, "next", run[i].todo \ {Current(i)})
        /\ UNCHANGED << campaign, held >> /\ run[i].pc = "recording"
    BY <1>9, MovesOf DEF RecordFailure, RecordThrows, ServiceInv
  <2> QED BY <2>1, PausedByShift DEF BatchPCs, OnPage, UnderWay
<1>10. CASE CreateEmail(i)
  <2>1. /\ Shifts(i, "linking", run[i].todo) /\ UNCHANGED << campaign, held >> /\ run[i].pc = "next"
    BY <1>10, MovesOf DEF CreateEmail, ServiceInv
  <2> QED BY <2>1, PausedByShift DEF BatchPCs, OnPage, UnderWay
<1>11. CASE EndContacts(i)
  <2>1. /\ Shifts(i, "advancing", run[i].todo) /\ UNCHANGED << campaign, held >>
        /\ run[i].pc = "next"
    BY <1>11, MovesOf DEF EndContacts, ServiceInv
  <2> QED BY <2>1, PausedByShift DEF BatchPCs, OnPage, UnderWay
<1>12. CASE \E f \in {"render", "db", "redis"} : ContactThrows(i, f)
  <2>1. /\ Shifts(i, "recording", run[i].todo) /\ UNCHANGED << campaign, held >>
        /\ run[i].pc \in {"next", "linking", "queueing"}
    BY <1>12, MovesOf DEF ContactThrows, ServiceInv
  <2> QED BY <2>1, PausedByShift DEF BatchPCs, OnPage, UnderWay
<1>13. CASE FinishBatch(i) \/ Stall(i, "crash")
  <2>1. Stops(i) /\ UNCHANGED << campaign, held >>
    BY <1>13, MovesOf DEF FinishBatch, Stall, ServiceInv
  <2>2. UnderWay' \subseteq UnderWay /\ Owing' \subseteq Owing
    BY <2>1, OwesNoMore DEF Stops, Stopped, ServiceInv
  <2>3. PagesAreSized'
    BY <2>1 DEF Stops, Stopped, OtherRunsStay, PauseInv, PagesAreSized, OnPage
  <2> QED BY <2>1, <2>2, <2>3, WithinStays DEF PauseInv, ServiceInv
<1>14. CASE Stall(i, "stall")
  <2>1. run' = run /\ UNCHANGED << campaign, held >>
    BY <1>14, MovesOf DEF Stall, ServiceInv
  <2> QED BY <2>1 DEF PauseInv, PagesAreSized, MailsWithin, UnderWay, Owing, ToMail
<1> QED BY <1>2, <1>3, <1>4, <1>5, <1>6, <1>7, <1>8, <1>9, <1>10, <1>11, <1>12, <1>13, <1>14
        DEF BatchStep

LEMMA PauseInvInit == CampaignInit => PauseInv
<1> SUFFICES ASSUME CampaignInit  PROVE PauseInv
  OBVIOUS
<1>1. campaign.status # "PAUSED" /\ \A i \in Slots : run[i].pc = "idle"
  BY DEF CampaignInit, Stopped
<1> QED BY <1>1 DEF PauseInv, PagesAreSized, MailsWithin, OnPage

LEMMA PauseInvNext ==
  CampaignInv /\ PauseInv /\ [CampaignNext]_campaignVars => PauseInv' /\ PauseOverwritten
<1> SUFFICES ASSUME CampaignInv, PauseInv, [CampaignNext]_campaignVars
             PROVE  PauseInv' /\ PauseOverwritten
  OBVIOUS
<1>1. ServiceInv
  BY DEF CampaignInv
<1>2. CASE \E r \in CampaignRequests : Request(r)
  <2>1. PICK r \in CampaignRequests : Request(r)
    BY <1>2
  <2>2. request'[r].pc # request[r].pc
    <3>1. request[r] \in CampaignRequestTypes /\ request \in [CampaignRequests -> CampaignRequestTypes]
      BY <1>1 DEF ServiceInv, RowTypes
    <3> QED BY <2>1, <3>1 DEF Request, ReadForSchedule, WriteSchedule, PauseCampaign,
          ResumeCampaign, DeleteCampaign, SetStatus, CampaignRequestTypes
  <2> QED BY <1>1, <2>1, <2>2, PausedByRequest DEF PauseOverwritten
<1>3. CASE OutsideSteps
  <2>1. run' = run /\ campaign'.status = campaign.status /\ held' = held
    BY <1>1, <1>3, OutsideRows DEF ServiceInv, OutsideSteps, ScheduledTimePasses, SchedulerTick,
       QueueBatch, EditContact
  <2> QED BY <2>1 DEF PauseOverwritten, PauseInv, PagesAreSized, MailsWithin, UnderWay, Owing, ToMail
<1>4. CASE UNCHANGED campaignVars
  BY <1>4 DEF campaignVars, PauseOverwritten, PauseInv, PagesAreSized, MailsWithin, UnderWay, Owing,
     ToMail
<1>5. ASSUME NEW i \in Slots, BatchStep(i) \/ (\E f \in {"stall", "crash"} : Stall(i, f))
      PROVE  PauseInv' /\ PauseOverwritten
  <2>1. /\ PauseInv'
        /\ campaign.status = "PAUSED" /\ campaign'.status # "PAUSED" => i \in UnderWay
    BY <1>1, <1>5, PausedByStep
  <2>2. ASSUME i \in UnderWay, campaign.status = "PAUSED"  PROVE held.runs > 0
    <3>1. Cardinality(UnderWay) # 0
      BY <2>2, OwingCounts, FS_EmptySet DEF OwingIsCounted
    <3>2. held.runs \in Nat /\ Cardinality(UnderWay) <= held.runs
      BY <1>1, <2>2 DEF ServiceInv, CountTypes, PauseInv, MailsWithin
    <3> QED BY <3>1, <3>2, OwingCounts DEF OwingIsCounted
  <2> QED BY <2>1, <2>2 DEF PauseOverwritten
<1> QED BY <1>2, <1>3, <1>4, <1>5 DEF CampaignNext, OutsideSteps

LEMMA PauseInvSays == CampaignInv /\ PauseInv => PausedMails
<1> SUFFICES ASSUME CampaignInv, PauseInv, campaign.status = "PAUSED"
             PROVE  held.mails <= BatchSize * held.runs
  BY DEF PausedMails
<1>1. held.mails \in Nat /\ held.runs \in Nat
  BY DEF CampaignInv, ServiceInv, CountTypes
<1>2. PICK n \in Nat : n = BatchSize * held.runs
  BY <1>1, BatchAssumption
<1>3. held.mails + Cardinality(Owing) <= n /\ Cardinality(Owing) \in Nat
  BY <1>2, OwingCounts DEF OwingIsCounted, PauseInv, MailsWithin
<1> QED BY <1>1, <1>2, <1>3

-----------------------------------------------------------------------------
(***************************************************************************)
(* The catalogue of plans.  An entry lives for TTL from readings that the  *)
(* lookup which set it took then, as long as none took more than a tick;   *)
(* and as long as no entry was dropped under a lookup, lookups are about   *)
(* what is due now, so that what they set after a drop is from after it.   *)
(***************************************************************************)
PlanValues ==
  [of : PlanKeys \cup {"none"}, active : BOOLEAN, way : {"id", "key"},
   read : Nat, made : Nat, time : Nat]
PlanEntries == [value : PlanValues, left : 0 .. TTL]
PlanDues == [row : Nat, plan : Nat, direct : Nat]
PlanLookups ==
  [pc : Reading \cup {"idle", "answered"}, key : PlanKeys, value : PlanValues, due : PlanDues]
PlanEdits ==
  [pc : {"idle", "counted", "keys", "dropKeys", "teams", "dropTeams"}, free : BOOLEAN,
   found : SUBSET CacheKeys, at : Nat, between : BOOLEAN]
PlanUpserts == [pc : {"idle", "drop"}, at : Nat]

CacheTypes == cached \in [CacheKeys -> PlanEntries]
LookupTypes == lookup \in [Lookups -> PlanLookups]
WriterTypes ==
  /\ edit \in PlanEdits /\ upsert \in PlanUpserts /\ due \in PlanDues
  /\ ticks \in Nat /\ writes \in Nat

\* What is remembered of a write was written.
MarksAreWrites ==
  /\ edit.at <= writes /\ upsert.at <= writes
  /\ due.row <= writes /\ due.plan <= writes /\ due.direct <= writes

\* An entry is as old as the time it has left says, one that is set again as
\* the reading it is made from.
FreshLookup(e) ==
  /\ e.pc \in {"plan", "key", "byKey", "storeKey"} => e.value.time = ticks
  /\ e.pc = "store" => ticks - e.value.time <= TTL - 1
FreshEntry(c) ==
  Hit(c) => ticks - cached[c].value.time
              <= IF c \in PlanKeys THEN TTL - cached[c].left ELSE TTL - 1 + TTL - cached[c].left
Fresh == ~slow => (\A l \in Lookups : FreshLookup(lookup[l])) /\ (\A c \in CacheKeys : FreshEntry(c))

\* What is kept of a key is of that way.
KeyedWay ==
  /\ \A k \in PlanKeys : Hit(k) => cached[k].value.way = "key"
  /\ \A l \in Lookups : lookup[l].pc = "storeKey" => lookup[l].value.way = "key"

Shows(v, d) ==
  /\ v.read >= d.row /\ v.made >= d.plan
  /\ v.way = "id" /\ v.of # "none" => v.made >= d.direct
ShownBy(e) ==
  /\ e.pc = "answered" => Shows(e.value, e.due)
  /\ e.pc \in Reading => e.due = due
  /\ e.pc \in Reading \ {"row"} => e.value.read >= due.row
  /\ e.pc = "storeKey" => e.value.made >= due.plan
  /\ e.pc = "store" => Shows(e.value, due)
  /\ e.pc = "storeKey" /\ edit.pc \in {"dropKeys", "teams", "dropTeams"}
       => e.value.made >= edit.at
  /\ e.pc = "store" /\ edit.pc \in {"teams", "dropTeams"} => e.value.made >= edit.at
ShownFor(k) ==
  Hit(k) =>
    /\ cached[k].value.made >= due.plan
    /\ edit.pc = "dropKeys" => k \in edit.found \/ cached[k].value.made >= edit.at
    /\ edit.pc \in {"teams", "dropTeams"} => cached[k].value.made >= edit.at
ShownHolder ==
  Hit("holder") =>
    /\ Shows(cached["holder"].value, due)
    /\ edit.pc = "dropTeams" /\ holder = "team"
         => "holder" \in edit.found \/ cached["holder"].value.made >= edit.at
Shown ==
  ~outrun =>
    (\A l \in Lookups : ShownBy(lookup[l])) /\ (\A k \in PlanKeys : ShownFor(k)) /\ ShownHolder

\* Who has the plan when it is deleted got it since the count.
CountHolds ==
  ~bereft /\ (edit.pc = "counted" /\ edit.free /\ ~edit.between => ~assigned)

CatalogueInv ==
  /\ CacheTypes /\ LookupTypes /\ WriterTypes
  /\ MarksAreWrites /\ Fresh /\ KeyedWay /\ Shown /\ CountHolds

LEMMA NoTypes ==
  /\ NoValue \in PlanValues /\ NoEntry \in PlanEntries /\ NothingDue \in PlanDues
  /\ NoLookup \in PlanLookups /\ NoEdit \in PlanEdits /\ NoUpsert \in PlanUpserts
BY CatalogueAssumption DEF NoValue, NoEntry, NothingDue, NoLookup, NoEdit, NoUpsert, PlanValues,
   PlanEntries, PlanDues, PlanLookups, PlanEdits, PlanUpserts, PlanKeys, CacheKeys

LEMMA CatalogueInvInit == CatalogueInit => CatalogueInv
<1> SUFFICES ASSUME CatalogueInit  PROVE CatalogueInv
  OBVIOUS
<1>1. CacheTypes /\ \A c \in CacheKeys : ~Hit(c)
  BY NoTypes DEF CatalogueInit, CacheTypes, Hit, NoEntry
<1>2. LookupTypes /\ \A l \in Lookups : lookup[l].pc = "idle"
  BY NoTypes DEF CatalogueInit, LookupTypes, NoLookup
<1>3. WriterTypes /\ edit.pc = "idle" /\ edit.at = 0 /\ upsert.at = 0
  BY NoTypes DEF CatalogueInit, WriterTypes, NoEdit, NoUpsert
<1>4. MarksAreWrites
  BY <1>3 DEF CatalogueInit, MarksAreWrites, NothingDue
<1>5. Fresh /\ KeyedWay /\ Shown
  BY <1>1, <1>2 DEF Fresh, FreshLookup, FreshEntry, KeyedWay, Shown, ShownBy, ShownFor, ShownHolder,
     Reading, CacheKeys
<1>6. CountHolds
  BY <1>3 DEF CatalogueInit, CountHolds
<1> QED BY <1>1, <1>2, <1>3, <1>4, <1>5, <1>6 DEF CatalogueInv

LEMMA CatalogueInvSays == CatalogueInv => CatalogueHolds
<1> SUFFICES ASSUME CatalogueInv  PROVE CatalogueHolds
  OBVIOUS
<1>1. EntriesAreRecent
  <2> SUFFICES ASSUME ~slow, NEW c \in CacheKeys, Hit(c)
               PROVE  ticks - cached[c].value.time
                        <= IF c \in PlanKeys THEN TTL - 1 ELSE 2 * (TTL - 1)
    BY DEF EntriesAreRecent
  <2>1. FreshEntry(c)
    BY DEF CatalogueInv, Fresh
  <2>2. cached[c] \in PlanEntries /\ cached[c].value \in PlanValues
    BY DEF CatalogueInv, CacheTypes, PlanEntries
  <2>3. /\ cached[c].left \in Nat /\ cached[c].left > 0 /\ cached[c].value.time \in Nat
        /\ ticks \in Nat /\ TTL \in Nat
    BY <2>2, CatalogueAssumption DEF CatalogueInv, WriterTypes, PlanEntries, PlanValues, Hit
  <2> QED BY <2>1, <2>3 DEF FreshEntry
<1>2. EditsAreSeen
  BY DEF CatalogueInv, Shown, ShownBy, Shows, EditsAreSeen
<1>3. NobodyIsBereft
  BY DEF CatalogueInv, CountHolds, NobodyIsBereft
<1> QED BY <1>1, <1>2, <1>3 DEF CatalogueHolds

\* A lookup goes on and leaves the caches alone.
LEMMA LookupGoes ==
  ASSUME CatalogueInv, NEW l \in Lookups, NEW f \in PlanLookups, Goes(l, f),
         LookupStep(l), cached' = cached,
         ~slow => FreshLookup(f), f.pc = "storeKey" => f.value.way = "key", ~outrun => ShownBy(f)
  PROVE  CatalogueInv'
<1>1. LookupTypes' /\ lookup'[l] = f /\ \A m \in Lookups : m # l => lookup'[m] = lookup[m]
  BY DEF CatalogueInv, LookupTypes, Goes
<1>2. UNCHANGED << cached, edit, upsert, due, ticks, writes, slow, outrun, bereft, assigned, holder >>
  BY DEF LookupStep, rowVars, holderVars
<1>3. CacheTypes' /\ WriterTypes' /\ MarksAreWrites' /\ CountHolds'
  BY <1>2 DEF CatalogueInv, CacheTypes, WriterTypes, MarksAreWrites, CountHolds
<1>4. Fresh'
  BY <1>1, <1>2 DEF CatalogueInv, Fresh, FreshLookup, FreshEntry, Hit
<1>5. KeyedWay'
  BY <1>1, <1>2 DEF CatalogueInv, KeyedWay, Hit
<1>6. Shown'
  BY <1>1, <1>2 DEF CatalogueInv, Shown, ShownBy, ShownFor, ShownHolder, Shows, Hit
<1> QED BY <1>1, <1>3, <1>4, <1>5, <1>6 DEF CatalogueInv

LEMMA GetCachedKept ==
  ASSUME CatalogueInv, NEW l \in Lookups, GetCached(l)
  PROVE  CatalogueInv'
<1>1. CASE Hit("holder")
  <2>1. PICK f : f = [NoLookup EXCEPT !.due = due, !.pc = "answered", !.value = cached["holder"].value]
    OBVIOUS
  <2>2. due \in PlanDues /\ cached["holder"].value \in PlanValues
    BY DEF CatalogueInv, WriterTypes, CacheTypes, CacheKeys, PlanEntries
  <2>3. /\ f \in PlanLookups /\ f.pc = "answered" /\ f.due = due
        /\ f.value = cached["holder"].value
    BY <2>1, <2>2, NoTypes DEF PlanLookups
  <2>4. Goes(l, f) /\ LookupStep(l) /\ cached' = cached
    BY <1>1, <2>1 DEF GetCached, Goes, NoLookup
  <2>5. ~outrun => ShownBy(f)
    BY <1>1, <2>3 DEF CatalogueInv, Shown, ShownHolder, ShownBy, Reading
  <2> QED BY <2>3, <2>4, <2>5, LookupGoes DEF FreshLookup
<1>2. CASE ~Hit("holder")
  <2>1. PICK f : f = [NoLookup EXCEPT !.due = due, !.pc = "row"]
    OBVIOUS
  <2>2. due \in PlanDues
    BY DEF CatalogueInv, WriterTypes
  <2>3. f \in PlanLookups /\ f.pc = "row" /\ f.due = due
    BY <2>1, <2>2, NoTypes DEF PlanLookups, Reading
  <2>4. Goes(l, f) /\ LookupStep(l) /\ cached' = cached
    BY <1>2, <2>1 DEF GetCached, Goes, NoLookup
  <2>5. ShownBy(f)
    BY <2>3 DEF ShownBy
  <2> QED BY <2>3, <2>4, <2>5, LookupGoes DEF FreshLookup
<1> QED BY <1>1, <1>2

LEMMA ReadHolderKept ==
  ASSUME CatalogueInv, NEW l \in Lookups, ReadHolder(l)
  PROVE  CatalogueInv'
<1>1. lookup[l] \in PlanLookups /\ ticks \in Nat /\ writes \in Nat
  BY DEF CatalogueInv, LookupTypes, WriterTypes
<1>2. PICK p \in {"plan", "key"}, k \in PlanKeys :
        Goes(l, [lookup[l] EXCEPT !.pc = p, !.key = k,
                   !.value = [NoValue EXCEPT !.read = writes, !.time = ticks]])
  BY DEF ReadHolder, PlanKeys
<1>3. PICK v : v = [NoValue EXCEPT !.read = writes, !.time = ticks]
  OBVIOUS
<1>4. v \in PlanValues /\ v.read = writes /\ v.time = ticks
  BY <1>1, <1>3, NoTypes DEF PlanValues
<1>5. PICK f : f = [lookup[l] EXCEPT !.pc = p, !.key = k, !.value = v]
  OBVIOUS
<1>6. f \in PlanLookups /\ f.pc = p /\ f.value = v /\ f.due = lookup[l].due
  BY <1>1, <1>4, <1>5 DEF PlanLookups, Reading
<1>7. Goes(l, f) /\ LookupStep(l) /\ cached' = cached /\ lookup[l].pc = "row"
  BY <1>2, <1>3, <1>5 DEF ReadHolder
<1>8. due \in PlanDues /\ due.row \in Nat /\ due.row <= writes
  BY DEF CatalogueInv, WriterTypes, PlanDues, MarksAreWrites
<1>9. ~outrun => ShownBy(f)
  <2>1. ~outrun => lookup[l].due = due
    BY <1>7 DEF CatalogueInv, Shown, ShownBy, Reading
  <2> QED BY <1>1, <1>4, <1>6, <1>8, <2>1 DEF ShownBy
<1> QED BY <1>4, <1>6, <1>7, <1>9, LookupGoes DEF FreshLookup

LEMMA ReadPlanKept ==
  ASSUME CatalogueInv, NEW l \in Lookups, ReadPlan(l)
  PROVE  CatalogueInv'
<1>1. /\ lookup[l] \in PlanLookups /\ lookup[l].value \in PlanValues
      /\ ticks \in Nat /\ writes \in Nat /\ TTL \in Nat \ {0}
  BY CatalogueAssumption DEF CatalogueInv, LookupTypes, WriterTypes, PlanLookups
<1>2. LookupStep(l) /\ cached' = cached /\ lookup[l].pc = "plan"
  BY DEF ReadPlan
<1>3. /\ ~slow => lookup[l].value.time = ticks
      /\ ~outrun => lookup[l].due = due /\ lookup[l].value.read >= due.row
  BY <1>2 DEF CatalogueInv, Fresh, FreshLookup, Shown, ShownBy, Reading
<1>4. /\ due \in PlanDues /\ edit \in PlanEdits
      /\ due.plan \in Nat /\ due.plan <= writes /\ due.direct \in Nat /\ due.direct <= writes
      /\ edit.at \in Nat /\ edit.at <= writes
  BY DEF CatalogueInv, WriterTypes, PlanDues, PlanEdits, MarksAreWrites
<1>5. CASE offer["orbita"] = "active"
  <2>1. PICK v : v = [lookup[l].value EXCEPT !.of = "orbita", !.active = TRUE, !.made = writes]
    OBVIOUS
  <2>2. /\ v \in PlanValues /\ v.made = writes /\ v.read = lookup[l].value.read
        /\ v.time = lookup[l].value.time
    BY <1>1, <2>1 DEF PlanValues, PlanKeys
  <2>3. PICK f : f = [lookup[l] EXCEPT !.pc = "store", !.value = v]
    OBVIOUS
  <2>4. f \in PlanLookups /\ f.pc = "store" /\ f.value = v /\ f.due = lookup[l].due
    BY <1>1, <2>2, <2>3 DEF PlanLookups, Reading
  <2>5. Goes(l, f)
    BY <1>1, <1>5, <2>1, <2>3 DEF ReadPlan, Goes, PlanLookups
  <2>6. ~outrun => ShownBy(f)
    BY <1>1, <1>3, <1>4, <2>2, <2>4 DEF ShownBy, Shows
  <2>7. ~slow => FreshLookup(f)
    BY <1>1, <1>3, <2>2, <2>4 DEF FreshLookup
  <2> QED BY <1>2, <2>4, <2>5, <2>6, <2>7, LookupGoes
<1>6. CASE offer["orbita"] # "active"
  <2>1. PICK f : f = [lookup[l] EXCEPT !.pc = "key"]
    OBVIOUS
  <2>2. /\ f \in PlanLookups /\ f.pc = "key" /\ f.value = lookup[l].value
        /\ f.due = lookup[l].due
    BY <1>1, <2>1 DEF PlanLookups, Reading
  <2>3. Goes(l, f)
    BY <1>6, <2>1 DEF ReadPlan, Goes
  <2>4. ~outrun => ShownBy(f)
    BY <1>3, <2>2 DEF ShownBy
  <2> QED BY <1>2, <1>3, <2>2, <2>3, <2>4, LookupGoes DEF FreshLookup
<1> QED BY <1>5, <1>6

LEMMA GetCachedKeyKept ==
  ASSUME CatalogueInv, NEW l \in Lookups, GetCachedKey(l)
  PROVE  CatalogueInv'
<1>1. PICK k \in PlanKeys : k = lookup[l].key
  BY DEF CatalogueInv, LookupTypes, PlanLookups
<1>2. PICK own \in PlanValues : own = lookup[l].value
  BY DEF CatalogueInv, LookupTypes, PlanLookups
<1>3. PICK old \in PlanValues : old = cached[k].value
  BY DEF CatalogueInv, CacheTypes, PlanEntries, CacheKeys
<1>4. LookupStep(l) /\ cached' = cached /\ lookup[l].pc = "key" /\ lookup[l] \in PlanLookups
  BY DEF GetCachedKey, CatalogueInv, LookupTypes
<1>5. /\ ~slow => own.time = ticks
      /\ ~outrun => lookup[l].due = due /\ own.read >= due.row
  BY <1>2, <1>4 DEF CatalogueInv, Fresh, FreshLookup, Shown, ShownBy, Reading
<1>6. ticks \in Nat /\ TTL \in Nat \ {0} /\ cached[k].left \in Nat
  BY CatalogueAssumption DEF CatalogueInv, WriterTypes, CacheTypes, PlanEntries, CacheKeys
<1>7. CASE Hit(k)
  <2>1. PICK v : v = [old EXCEPT !.read = own.read,
                                 !.time = IF own.time < @ THEN own.time ELSE @]
    OBVIOUS
  <2>2. /\ v \in PlanValues /\ v.read = own.read /\ v.made = old.made /\ v.way = old.way
        /\ v.of = old.of
        /\ v.time = old.time \/ v.time = own.time
    BY <1>2, <1>3, <2>1 DEF PlanValues
  <2>3. PICK f : f = [lookup[l] EXCEPT !.pc = "store", !.value = v]
    OBVIOUS
  <2>4. f \in PlanLookups /\ f.pc = "store" /\ f.value = v /\ f.due = lookup[l].due
    BY <1>4, <2>2, <2>3 DEF PlanLookups, Reading
  <2>5. Goes(l, f)
    BY <1>1, <1>2, <1>3, <1>7, <2>1, <2>3 DEF GetCachedKey, Goes
  <2>6. ~slow => FreshLookup(f)
    <3>1. ~slow => ticks - old.time <= TTL - 1
      <4>1. ~slow => ticks - old.time <= TTL - cached[k].left
        BY <1>3, <1>7 DEF CatalogueInv, Fresh, FreshEntry, CacheKeys
      <4> QED BY <1>6, <1>7, <4>1 DEF Hit, PlanValues
    <3> QED BY <1>5, <1>6, <2>2, <2>4, <3>1 DEF FreshLookup
  <2>7. ~outrun => ShownBy(f)
    <3>1. old.way = "key"
      BY <1>3, <1>7 DEF CatalogueInv, KeyedWay
    <3>2. ~outrun => old.made >= due.plan
                     /\ (edit.pc \in {"teams", "dropTeams"} => old.made >= edit.at)
      BY <1>3, <1>7 DEF CatalogueInv, Shown, ShownFor
    <3> QED BY <1>5, <2>2, <2>4, <3>1, <3>2 DEF ShownBy, Shows
  <2> QED BY <1>4, <2>4, <2>5, <2>6, <2>7, LookupGoes
<1>8. CASE ~Hit(k)
  <2>1. PICK f : f = [lookup[l] EXCEPT !.pc = "byKey"]
    OBVIOUS
  <2>2. /\ f \in PlanLookups /\ f.pc = "byKey" /\ f.value = lookup[l].value
        /\ f.due = lookup[l].due
    BY <1>4, <2>1 DEF PlanLookups, Reading
  <2>3. Goes(l, f)
    BY <1>1, <1>8, <2>1 DEF GetCachedKey, Goes
  <2>4. ~outrun => ShownBy(f)
    BY <1>2, <1>5, <2>2 DEF ShownBy
  <2> QED BY <1>2, <1>4, <1>5, <2>2, <2>3, <2>4, LookupGoes DEF FreshLookup
<1> QED BY <1>7, <1>8

LEMMA ReadByKeyKept ==
  ASSUME CatalogueInv, NEW l \in Lookups, ReadByKey(l)
  PROVE  CatalogueInv'
<1>1. /\ lookup[l] \in PlanLookups /\ lookup[l].value \in PlanValues
      /\ lookup[l].key \in PlanKeys /\ ticks \in Nat /\ writes \in Nat
  BY DEF CatalogueInv, LookupTypes, WriterTypes, PlanLookups
<1>2. LookupStep(l) /\ cached' = cached /\ lookup[l].pc = "byKey"
  BY DEF ReadByKey
<1>3. /\ ~slow => lookup[l].value.time = ticks
      /\ ~outrun => lookup[l].due = due /\ lookup[l].value.read >= due.row
  BY <1>2 DEF CatalogueInv, Fresh, FreshLookup, Shown, ShownBy, Reading
<1>4. /\ due.plan \in Nat /\ due.plan <= writes /\ edit.at \in Nat /\ edit.at <= writes
  BY DEF CatalogueInv, WriterTypes, PlanDues, PlanEdits, MarksAreWrites
<1>5. PICK o \in PlanKeys \cup {"none"} : o = IF offer[lookup[l].key] = "gone" THEN "none" ELSE lookup[l].key
  BY <1>1
<1>6. PICK b \in BOOLEAN : b = (offer[lookup[l].key] = "active")
  OBVIOUS
<1>7. PICK v : v = [lookup[l].value EXCEPT !.of = o, !.active = b, !.way = "key", !.made = writes]
  OBVIOUS
<1>8. /\ v \in PlanValues /\ v.made = writes /\ v.read = lookup[l].value.read /\ v.way = "key"
      /\ v.time = lookup[l].value.time
  BY <1>1, <1>5, <1>6, <1>7 DEF PlanValues
<1>9. PICK f : f = [lookup[l] EXCEPT !.pc = "storeKey", !.value = v]
  OBVIOUS
<1>10. f \in PlanLookups /\ f.pc = "storeKey" /\ f.value = v /\ f.due = lookup[l].due
  BY <1>1, <1>8, <1>9 DEF PlanLookups, Reading
<1>11. Goes(l, f)
  BY <1>1, <1>5, <1>6, <1>7, <1>9 DEF ReadByKey, Goes, PlanLookups
<1>12. ~outrun => ShownBy(f)
  BY <1>1, <1>3, <1>4, <1>8, <1>10 DEF ShownBy
<1>13. ~slow => FreshLookup(f)
  BY <1>3, <1>8, <1>10 DEF FreshLookup
<1> QED BY <1>2, <1>8, <1>10, <1>11, <1>12, <1>13, LookupGoes

\* A lookup sets an entry to what it has found.
LEMMA StoredKept ==
  ASSUME CatalogueInv, NEW l \in Lookups, NEW c \in CacheKeys, NEW f \in PlanLookups,
         Goes(l, f), Stored(c, lookup[l].value), LookupStep(l),
         f.pc # "storeKey", ~slow => FreshLookup(f), ~outrun => ShownBy(f),
         ~slow => ticks - lookup[l].value.time
                    <= IF c \in PlanKeys THEN 0 ELSE TTL - 1,
         c \in PlanKeys => lookup[l].value.way = "key",
         ~outrun => IF c \in PlanKeys
                    THEN /\ lookup[l].value.made >= due.plan
                         /\ edit.pc \in {"dropKeys", "teams", "dropTeams"}
                              => lookup[l].value.made >= edit.at
                    ELSE /\ Shows(lookup[l].value, due)
                         /\ edit.pc = "dropTeams" => lookup[l].value.made >= edit.at
  PROVE  CatalogueInv'
<1>1. LookupTypes' /\ lookup'[l] = f /\ \A m \in Lookups : m # l => lookup'[m] = lookup[m]
  BY DEF CatalogueInv, LookupTypes, Goes
<1>2. UNCHANGED << edit, upsert, due, ticks, writes, slow, outrun, bereft, assigned, holder >>
  BY DEF LookupStep, rowVars, holderVars
<1>3. lookup[l].value \in PlanValues /\ TTL \in Nat \ {0} /\ ticks \in Nat
  BY CatalogueAssumption DEF CatalogueInv, LookupTypes, PlanLookups, WriterTypes
<1>4. /\ cached' \in [CacheKeys -> PlanEntries]
      /\ cached'[c].value = lookup[l].value /\ cached'[c].left = TTL
      /\ \A d \in CacheKeys : d # c => cached'[d] = cached[d]
  <2>1. PICK e : e = [value |-> lookup[l].value, left |-> TTL]
    OBVIOUS
  <2>2. e \in PlanEntries /\ e.value = lookup[l].value /\ e.left = TTL
    BY <1>3, <2>1 DEF PlanEntries
  <2>3. cached' = [cached EXCEPT ![c] = e]
    BY <2>1 DEF Stored
  <2> QED BY <2>2, <2>3 DEF CatalogueInv, CacheTypes
<1>5. CacheTypes' /\ WriterTypes' /\ MarksAreWrites' /\ CountHolds'
  BY <1>2, <1>4 DEF CatalogueInv, CacheTypes, WriterTypes, MarksAreWrites, CountHolds
<1>6. Fresh'
  <2>1. ~slow => \A d \in CacheKeys : FreshEntry(d)'
    <3> SUFFICES ASSUME ~slow, NEW d \in CacheKeys  PROVE FreshEntry(d)'
      OBVIOUS
    <3>1. CASE d = c
      BY <1>2, <1>3, <1>4, <3>1 DEF FreshEntry, PlanValues
    <3>2. CASE d # c
      BY <1>2, <1>4, <3>2 DEF CatalogueInv, Fresh, FreshEntry, Hit
    <3> QED BY <3>1, <3>2
  <2>2. ~slow => \A m \in Lookups : FreshLookup(lookup[m])'
    BY <1>1, <1>2 DEF CatalogueInv, Fresh, FreshLookup
  <2> QED BY <1>2, <2>1, <2>2 DEF Fresh
<1>7. KeyedWay'
  BY <1>1, <1>4 DEF CatalogueInv, KeyedWay, Hit, CacheKeys
<1>8. Shown'
  <2> SUFFICES ASSUME ~outrun  PROVE (\A m \in Lookups : ShownBy(lookup[m])') /\ (\A k \in PlanKeys : ShownFor(k)') /\ ShownHolder'
    BY <1>2 DEF Shown
  <2>1. \A m \in Lookups : ShownBy(lookup[m])'
    BY <1>1, <1>2 DEF CatalogueInv, Shown, ShownBy, Shows
  <2>2. \A k \in PlanKeys : ShownFor(k)'
    BY <1>2, <1>4 DEF CatalogueInv, Shown, ShownFor, Hit, CacheKeys
  <2>3. ShownHolder'
    BY <1>2, <1>4 DEF CatalogueInv, Shown, ShownHolder, Shows, Hit, CacheKeys, PlanKeys
  <2> QED BY <2>1, <2>2, <2>3
<1> QED BY <1>1, <1>5, <1>6, <1>7, <1>8 DEF CatalogueInv

LEMMA StoreKeyKept ==
  ASSUME CatalogueInv, NEW l \in Lookups, StoreKey(l)
  PROVE  CatalogueInv'
<1>1. PICK k \in PlanKeys : k = lookup[l].key
  BY DEF CatalogueInv, LookupTypes, PlanLookups
<1>2. PICK v \in PlanValues : v = lookup[l].value
  BY DEF CatalogueInv, LookupTypes, PlanLookups
<1>3. lookup[l].pc = "storeKey" /\ lookup[l] \in PlanLookups /\ LookupStep(l) /\ Stored(k, v)
  BY <1>1, <1>2 DEF StoreKey, CatalogueInv, LookupTypes
<1>4. PICK f : f = [lookup[l] EXCEPT !.pc = "store"]
  OBVIOUS
<1>5. /\ f \in PlanLookups /\ f.pc = "store" /\ f.value = v /\ f.due = lookup[l].due
      /\ Goes(l, f)
  BY <1>2, <1>3, <1>4 DEF StoreKey, PlanLookups, Reading, Goes
<1>6. ~slow => v.time = ticks
  BY <1>2, <1>3 DEF CatalogueInv, Fresh, FreshLookup
<1>7. v.way = "key"
  BY <1>2, <1>3 DEF CatalogueInv, KeyedWay
<1>8. ~outrun => /\ lookup[l].due = due /\ v.read >= due.row /\ v.made >= due.plan
                 /\ edit.pc \in {"dropKeys", "teams", "dropTeams"} => v.made >= edit.at
  BY <1>2, <1>3 DEF CatalogueInv, Shown, ShownBy, Reading
<1>9. ~slow => ticks - v.time = 0 /\ ticks - v.time <= TTL - 1
  BY <1>6, CatalogueAssumption DEF CatalogueInv, WriterTypes
<1>10. ~outrun => ShownBy(f)
  BY <1>5, <1>7, <1>8 DEF ShownBy, Shows
<1>11. ~slow => FreshLookup(f)
  BY <1>5, <1>9 DEF FreshLookup
<1> QED BY <1>1, <1>2, <1>3, <1>5, <1>7, <1>8, <1>9, <1>10, <1>11, StoredKept DEF CacheKeys

LEMMA StoreHolderKept ==
  ASSUME CatalogueInv, NEW l \in Lookups, StoreHolder(l)
  PROVE  CatalogueInv'
<1>1. PICK v \in PlanValues : v = lookup[l].value
  BY DEF CatalogueInv, LookupTypes, PlanLookups
<1>2. lookup[l].pc = "store" /\ lookup[l] \in PlanLookups /\ LookupStep(l) /\ Stored("holder", v)
  BY <1>1 DEF StoreHolder, CatalogueInv, LookupTypes
<1>3. PICK f : f = [lookup[l] EXCEPT !.pc = "answered"]
  OBVIOUS
<1>4. /\ f \in PlanLookups /\ f.pc = "answered" /\ f.value = v /\ f.due = lookup[l].due
      /\ Goes(l, f)
  BY <1>1, <1>2, <1>3 DEF StoreHolder, PlanLookups, Reading, Goes
<1>5. ~slow => ticks - v.time <= TTL - 1
  BY <1>1, <1>2 DEF CatalogueInv, Fresh, FreshLookup
<1>6. ~outrun => /\ lookup[l].due = due /\ Shows(v, due)
                 /\ edit.pc \in {"teams", "dropTeams"} => v.made >= edit.at
  BY <1>1, <1>2 DEF CatalogueInv, Shown, ShownBy, Reading
<1>7. ~outrun => ShownBy(f)
  BY <1>4, <1>6 DEF ShownBy, Reading
<1>8. FreshLookup(f)
  BY <1>4 DEF FreshLookup
<1>9. "holder" \in CacheKeys /\ "holder" \notin PlanKeys
  BY DEF CacheKeys, PlanKeys
<1> QED BY <1>1, <1>2, <1>4, <1>5, <1>6, <1>7, <1>8, <1>9, StoredKept

\* A writer leaves the caches and the lookups alone, and has not come to its
\* own drops or goes on with them as they were.
LEMMA WriterKept ==
  ASSUME CatalogueInv, UNCHANGED << cached, lookup, holder, due, ticks, slow, outrun >>,
         edit' \in PlanEdits, upsert' \in PlanUpserts, writes' \in Nat,
         writes <= writes', edit'.at <= writes', upsert'.at <= writes',
         \/ edit'.pc \in {"idle", "counted", "keys"}
         \/ edit'.pc = edit.pc /\ edit'.at = edit.at /\ edit'.found = edit.found,
         CountHolds'
  PROVE  CatalogueInv'
<1>1. CacheTypes' /\ LookupTypes' /\ WriterTypes'
  BY DEF CatalogueInv, CacheTypes, LookupTypes, WriterTypes
<1>2. due \in PlanDues /\ due.row \in Nat /\ due.plan \in Nat /\ due.direct \in Nat /\ writes \in Nat
  BY DEF CatalogueInv, WriterTypes, PlanDues
<1>3. MarksAreWrites'
  BY <1>2 DEF CatalogueInv, MarksAreWrites
<1>4. Fresh'
  BY DEF CatalogueInv, Fresh, FreshLookup, FreshEntry, Hit
<1>5. KeyedWay'
  BY DEF CatalogueInv, KeyedWay, Hit
<1>6. Shown'
  <2> SUFFICES ASSUME ~outrun
               PROVE  /\ (\A m \in Lookups : ShownBy(lookup[m])')
                      /\ (\A k \in PlanKeys : ShownFor(k)') /\ ShownHolder'
    BY DEF Shown
  <2>1. \A m \in Lookups : ShownBy(lookup[m])'
    BY DEF CatalogueInv, Shown, ShownBy, Shows
  <2>2. \A k \in PlanKeys : ShownFor(k)'
    BY DEF CatalogueInv, Shown, ShownFor, Hit
  <2>3. ShownHolder'
    BY DEF CatalogueInv, Shown, ShownHolder, Shows, Hit
  <2> QED BY <2>1, <2>2, <2>3
<1> QED BY <1>1, <1>3, <1>4, <1>5, <1>6 DEF CatalogueInv

\* An operation on the dashboard, or of the admin API, as it begins.
LEMMA WriterStarts ==
  ASSUME NEW p \in {"counted", "keys"}, NEW n \in Nat, NEW b \in BOOLEAN
  PROVE  /\ [NoEdit EXCEPT !.pc = p, !.at = n] \in PlanEdits
         /\ [NoEdit EXCEPT !.pc = p, !.at = n].pc = p
         /\ [NoEdit EXCEPT !.pc = p, !.at = n].at = n
         /\ [NoEdit EXCEPT !.pc = p, !.free = b] \in PlanEdits
         /\ [NoEdit EXCEPT !.pc = p, !.free = b].pc = p
         /\ [NoEdit EXCEPT !.pc = p, !.free = b].at = 0
         /\ [NoEdit EXCEPT !.pc = p, !.free = b].free = b
         /\ [pc |-> "drop", at |-> n] \in PlanUpserts
         /\ NoEdit \in PlanEdits /\ NoEdit.pc = "idle" /\ NoEdit.at = 0
         /\ NoUpsert \in PlanUpserts /\ NoUpsert.at = 0
BY DEF NoEdit, PlanEdits, PlanUpserts, NoUpsert

LEMMA WriterFacts ==
  ASSUME CatalogueInv
  PROVE  /\ writes \in Nat /\ ticks \in Nat /\ edit \in PlanEdits /\ upsert \in PlanUpserts
         /\ due \in PlanDues /\ edit.at \in Nat /\ upsert.at \in Nat
         /\ due.row \in Nat /\ due.plan \in Nat /\ due.direct \in Nat
         /\ edit.at <= writes /\ upsert.at <= writes
         /\ due.row <= writes /\ due.plan <= writes /\ due.direct <= writes
         /\ ~bereft /\ (edit.pc = "counted" /\ edit.free /\ ~edit.between => ~assigned)
BY DEF CatalogueInv, WriterTypes, MarksAreWrites, PlanEdits, PlanUpserts, PlanDues, CountHolds

LEMMA EditPlanKept == CatalogueInv /\ EditPlan => CatalogueInv'
<1> SUFFICES ASSUME CatalogueInv, EditPlan  PROVE CatalogueInv'
  OBVIOUS
<1>1. writes' = writes + 1 /\ writes' \in Nat
  BY WriterFacts DEF EditPlan, Change
<1>2. edit' \in PlanEdits /\ edit'.pc = "keys" /\ edit'.at = writes'
  BY <1>1, WriterStarts DEF EditPlan
<1>3. CountHolds'
  BY <1>2, WriterFacts DEF EditPlan, CountHolds
<1> QED BY <1>1, <1>2, <1>3, WriterFacts, WriterKept DEF EditPlan, holderVars

LEMMA CountReferencesKept == CatalogueInv /\ CountReferences => CatalogueInv'
<1> SUFFICES ASSUME CatalogueInv, CountReferences  PROVE CatalogueInv'
  OBVIOUS
<1>1. PICK b \in BOOLEAN : b = Unreferenced
  BY DEF Unreferenced
<1>2. edit' = [NoEdit EXCEPT !.pc = "counted", !.free = b]
  BY <1>1 DEF CountReferences
<1>3. edit' \in PlanEdits /\ edit'.pc = "counted" /\ edit'.at = 0 /\ edit'.free = b
  BY <1>2, WriterStarts
<1>4. CountHolds'
  BY <1>1, <1>3, WriterFacts DEF CountReferences, CountHolds, Unreferenced, rowVars, holderVars
<1> QED BY <1>3, <1>4, WriterFacts, WriterKept DEF CountReferences, rowVars, holderVars

LEMMA DeleteOrRetireKept == CatalogueInv /\ DeleteOrRetire => CatalogueInv'
<1> SUFFICES ASSUME CatalogueInv, DeleteOrRetire  PROVE CatalogueInv'
  OBVIOUS
<1>1. writes' = writes + 1 /\ writes' \in Nat
  BY WriterFacts DEF DeleteOrRetire, Change
<1>2. edit' \in PlanEdits /\ edit'.pc \in {"idle", "keys"} /\ edit'.at \in {0, writes'}
  <2>1. edit' = NoEdit \/ edit' = [NoEdit EXCEPT !.pc = "keys", !.at = writes']
    BY DEF DeleteOrRetire
  <2>2. NoEdit \in PlanEdits /\ NoEdit.pc = "idle" /\ NoEdit.at = 0
    BY DEF NoEdit, PlanEdits
  <2>3. PICK e : e = [NoEdit EXCEPT !.pc = "keys", !.at = writes']
    OBVIOUS
  <2>4. e \in PlanEdits /\ e.pc = "keys" /\ e.at = writes'
    BY <1>1, <2>2, <2>3 DEF PlanEdits
  <2> QED BY <2>1, <2>2, <2>3, <2>4
<1>3. ~bereft'
  BY WriterFacts DEF DeleteOrRetire
<1>4. CountHolds'
  BY <1>2, <1>3 DEF CountHolds
<1> QED BY <1>1, <1>2, <1>4, WriterFacts, WriterKept DEF DeleteOrRetire

LEMMA EditDiesKept == CatalogueInv /\ EditDies => CatalogueInv'
<1> SUFFICES ASSUME CatalogueInv, EditDies  PROVE CatalogueInv'
  OBVIOUS
<1>1. edit' \in PlanEdits /\ edit'.pc = "idle" /\ edit'.at = 0
  BY WriterStarts DEF EditDies
<1>2. CountHolds'
  BY <1>1, WriterFacts DEF EditDies, CountHolds, rowVars
<1> QED BY <1>1, <1>2, WriterFacts, WriterKept DEF EditDies, rowVars, holderVars

LEMMA ApiUpsertKept == CatalogueInv /\ ApiUpsert => CatalogueInv'
<1> SUFFICES ASSUME CatalogueInv, ApiUpsert  PROVE CatalogueInv'
  OBVIOUS
<1>1. writes' = writes + 1 /\ writes' \in Nat
  BY WriterFacts DEF ApiUpsert, Change
<1>2. upsert' = [pc |-> "drop", at |-> writes'] \/ upsert' = NoUpsert
  BY DEF ApiUpsert
<1>3. upsert' \in PlanUpserts /\ upsert'.at \in {0, writes'}
  BY <1>1, <1>2 DEF NoUpsert, PlanUpserts
<1>4. CountHolds'
  BY WriterFacts DEF ApiUpsert, CountHolds, holderVars
<1> QED BY <1>1, <1>3, <1>4, WriterFacts, WriterKept DEF ApiUpsert, holderVars

LEMMA ApiRetireKept == CatalogueInv /\ ApiRetire => CatalogueInv'
<1> SUFFICES ASSUME CatalogueInv, ApiRetire  PROVE CatalogueInv'
  OBVIOUS
<1>1. writes' = writes + 1 /\ writes' \in Nat
  BY WriterFacts DEF ApiRetire, Change
<1>2. CountHolds'
  BY WriterFacts DEF ApiRetire, CountHolds, holderVars
<1> QED BY <1>1, <1>2, WriterFacts, WriterKept DEF ApiRetire, holderVars

LEMMA RequestActivationKept == CatalogueInv /\ RequestActivation => CatalogueInv'
<1> SUFFICES ASSUME CatalogueInv, RequestActivation  PROVE CatalogueInv'
  OBVIOUS
<1>1. CountHolds'
  BY WriterFacts DEF RequestActivation, CountHolds
<1> QED BY <1>1, WriterFacts, WriterKept DEF RequestActivation

LEMMA AssignKept == CatalogueInv /\ Assign => CatalogueInv'
<1> SUFFICES ASSUME CatalogueInv, Assign  PROVE CatalogueInv'
  OBVIOUS
<1>1. writes' = writes + 1 /\ writes' \in Nat
  BY WriterFacts DEF Assign, Change
<1>2. PICK b \in BOOLEAN : b = (edit.pc = "counted")
  OBVIOUS
<1>3. edit' = [edit EXCEPT !.between = b]
  BY <1>2 DEF Assign
<1>4. /\ edit' \in PlanEdits /\ edit'.pc = edit.pc /\ edit'.at = edit.at
      /\ edit'.found = edit.found /\ edit'.between = b
  BY <1>3, WriterFacts DEF PlanEdits
<1>5. CountHolds'
  BY <1>2, <1>4, WriterFacts DEF Assign, CountHolds
<1> QED BY <1>1, <1>4, <1>5, WriterFacts, WriterKept DEF Assign

\* The dashboard lists the entries it is to drop: those a lookup would serve.
LEMMA FindEntriesKept == CatalogueInv /\ FindEntries => CatalogueInv'
<1> SUFFICES ASSUME CatalogueInv, FindEntries  PROVE CatalogueInv'
  OBVIOUS
<1>1. UNCHANGED << cached, lookup, holder, due, ticks, slow, writes, upsert, bereft, assigned >>
  BY DEF FindEntries, rowVars, holderVars
<1>2. PICK p \in {"dropKeys", "dropTeams"}, F \in SUBSET CacheKeys :
        /\ edit' = [edit EXCEPT !.pc = p, !.found = F]
        /\ p = "dropKeys" => edit.pc = "keys" /\ F = { c \in PlanKeys : Hit(c) }
        /\ p = "dropTeams" => /\ edit.pc = "teams"
                              /\ F = { c \in {"holder"} : holder = "team" /\ Hit(c) }
  <2>1. { c \in PlanKeys : Hit(c) } \in SUBSET CacheKeys
    BY DEF CacheKeys
  <2>2. { c \in {"holder"} : holder = "team" /\ Hit(c) } \in SUBSET CacheKeys
    BY DEF CacheKeys
  <2> QED BY <2>1, <2>2 DEF FindEntries, FindCached
<1>3. /\ edit' \in PlanEdits /\ edit'.pc = p /\ edit'.found = F /\ edit'.at = edit.at
  BY <1>2, WriterFacts DEF PlanEdits
<1>4. ~outrun' => ~outrun /\ \A m \in Lookups : lookup[m].pc \notin Reading
  BY DEF FindEntries
<1>5. CacheTypes' /\ LookupTypes' /\ WriterTypes' /\ MarksAreWrites' /\ CountHolds'
  BY <1>1, <1>3, WriterFacts
  DEF CatalogueInv, CacheTypes, LookupTypes, WriterTypes, MarksAreWrites, CountHolds
<1>6. Fresh'
  BY <1>1 DEF CatalogueInv, Fresh, FreshLookup, FreshEntry, Hit
<1>7. KeyedWay'
  BY <1>1 DEF CatalogueInv, KeyedWay, Hit
<1>8. Shown'
  <2> SUFFICES ASSUME ~outrun'
               PROVE  /\ (\A m \in Lookups : ShownBy(lookup[m])')
                      /\ (\A k \in PlanKeys : ShownFor(k)') /\ ShownHolder'
    BY DEF Shown
  <2>1. \A m \in Lookups : ShownBy(lookup[m])'
    BY <1>1, <1>4 DEF CatalogueInv, Shown, ShownBy, Shows, Reading
  <2>2. \A k \in PlanKeys : ShownFor(k)'
    BY <1>1, <1>2, <1>3, <1>4 DEF CatalogueInv, Shown, ShownFor, Hit
  <2>3. ShownHolder'
    BY <1>1, <1>2, <1>3, <1>4 DEF CatalogueInv, Shown, ShownHolder, Shows, Hit
  <2> QED BY <2>1, <2>2, <2>3
<1> QED BY <1>5, <1>6, <1>7, <1>8 DEF CatalogueInv

\* Entries are dropped; as long as no lookup was under way, those that stay
\* are as recent as whoever drops them asks for.
LEMMA DropKept ==
  ASSUME CatalogueInv, NEW C, Drop(C),
         UNCHANGED << lookup, holder, ticks, writes, slow, bereft, assigned >>,
         due' \in PlanDues, edit' \in PlanEdits, upsert' \in PlanUpserts,
         MarksAreWrites', CountHolds',
         ~outrun => (\A k \in PlanKeys \ C : ShownFor(k)'),
         ~outrun /\ "holder" \notin C => ShownHolder'
  PROVE  CatalogueInv'
<1>1. \A c \in CacheKeys : cached'[c] = IF c \in C THEN NoEntry ELSE cached[c]
  BY DEF Drop
<1>2. \A c \in CacheKeys : Hit(c)' => c \notin C /\ Hit(c) /\ cached'[c] = cached[c]
  BY <1>1 DEF Hit, NoEntry
<1>3. ~outrun' => ~outrun /\ \A m \in Lookups : lookup[m].pc \notin Reading
  BY DEF Drop
<1>4. CacheTypes'
  BY NoTypes DEF Drop, CatalogueInv, CacheTypes
<1>5. LookupTypes' /\ WriterTypes'
  BY DEF CatalogueInv, LookupTypes, WriterTypes
<1>6. Fresh'
  BY <1>2 DEF CatalogueInv, Fresh, FreshLookup, FreshEntry
<1>7. KeyedWay'
  BY <1>2 DEF CatalogueInv, KeyedWay, CacheKeys
<1>8. Shown'
  <2> SUFFICES ASSUME ~outrun'
               PROVE  /\ (\A m \in Lookups : ShownBy(lookup[m])')
                      /\ (\A k \in PlanKeys : ShownFor(k)') /\ ShownHolder'
    BY DEF Shown
  <2>1. \A m \in Lookups : ShownBy(lookup[m])'
    BY <1>3 DEF CatalogueInv, Shown, ShownBy, Shows, Reading
  <2>2. \A k \in PlanKeys : ShownFor(k)'
    <3> SUFFICES ASSUME NEW k \in PlanKeys  PROVE ShownFor(k)'
      OBVIOUS
    <3>1. CASE k \in C
      BY <1>2, <3>1 DEF ShownFor, CacheKeys
    <3>2. CASE k \notin C
      BY <1>3, <3>2
    <3> QED BY <3>1, <3>2
  <2>3. ShownHolder'
    BY <1>2, <1>3 DEF ShownHolder, CacheKeys
  <2> QED BY <2>1, <2>2, <2>3
<1> QED BY <1>4, <1>5, <1>6, <1>7, <1>8 DEF CatalogueInv

LEMMA DropEntriesKept == CatalogueInv /\ DropEntries => CatalogueInv'
<1> SUFFICES ASSUME CatalogueInv, DropEntries  PROVE CatalogueInv'
  OBVIOUS
<1>1. UNCHANGED << lookup, holder, ticks, writes, slow, upsert, bereft, assigned >>
  BY DEF DropEntries, rowVars, holderVars
<1>2. Drop(edit.found)
  BY DEF DropEntries, DropFound
<1>3. \A c \in CacheKeys : c \notin edit.found => cached'[c] = cached[c]
  BY <1>2 DEF Drop
<1>4. CASE edit.pc = "dropKeys" /\ edit' = [edit EXCEPT !.pc = "teams"] /\ due' = due
  <2>1. edit' \in PlanEdits /\ edit'.pc = "teams" /\ edit'.at = edit.at
    BY <1>4, WriterFacts DEF PlanEdits
  <2>2. MarksAreWrites' /\ CountHolds'
    BY <1>1, <1>4, <2>1, WriterFacts DEF MarksAreWrites, CountHolds
  <2>3. ~outrun => (\A k \in PlanKeys \ edit.found : ShownFor(k)')
    BY <1>3, <1>4, <2>1 DEF CatalogueInv, Shown, ShownFor, Hit, CacheKeys
  <2>4. ~outrun /\ "holder" \notin edit.found => ShownHolder'
    BY <1>3, <1>4, <2>1 DEF CatalogueInv, Shown, ShownHolder, Shows, Hit, CacheKeys
  <2> QED BY <1>1, <1>2, <1>4, <2>1, <2>2, <2>3, <2>4, WriterFacts, DropKept
<1>5. CASE /\ edit.pc = "dropTeams" /\ edit' = NoEdit
           /\ due' = IF holder = "team" THEN [due EXCEPT !.plan = edit.at] ELSE due
  <2>1. edit' \in PlanEdits /\ edit'.pc = "idle" /\ edit'.at = 0
    BY <1>5, WriterStarts
  <2>2. /\ due' \in PlanDues /\ due'.row = due.row /\ due'.direct = due.direct
        /\ due'.plan = IF holder = "team" THEN edit.at ELSE due.plan
    BY <1>5, WriterFacts DEF PlanDues
  <2>3. MarksAreWrites' /\ CountHolds'
    BY <1>1, <2>1, <2>2, WriterFacts DEF MarksAreWrites, CountHolds
  <2>4. ~outrun => (\A k \in PlanKeys \ edit.found : ShownFor(k)')
    BY <1>3, <1>5, <2>1, <2>2 DEF CatalogueInv, Shown, ShownFor, Hit, CacheKeys
  <2>5. ~outrun /\ "holder" \notin edit.found => ShownHolder'
    BY <1>3, <1>5, <2>1, <2>2 DEF CatalogueInv, Shown, ShownHolder, Shows, Hit, CacheKeys
  <2> QED BY <1>1, <1>2, <1>5, <2>1, <2>2, <2>3, <2>4, <2>5, WriterFacts, DropKept
<1> QED BY <1>4, <1>5 DEF DropEntries, DropFound

LEMMA ApiDropKept == CatalogueInv /\ ApiDrop => CatalogueInv'
<1> SUFFICES ASSUME CatalogueInv, ApiDrop  PROVE CatalogueInv'
  OBVIOUS
<1>1. UNCHANGED << lookup, holder, edit, ticks, writes, slow, bereft, assigned >>
  BY DEF ApiDrop, rowVars, holderVars
<1>2. upsert' \in PlanUpserts /\ upsert'.at = 0
  BY WriterStarts DEF ApiDrop
<1>3. CASE Drop({"holder"}) /\ due' = [due EXCEPT !.direct = upsert.at]
  <2>1. /\ due' \in PlanDues /\ due'.row = due.row /\ due'.plan = due.plan
        /\ due'.direct = upsert.at
    BY <1>3, WriterFacts DEF PlanDues
  <2>2. MarksAreWrites' /\ CountHolds'
    BY <1>1, <1>2, <2>1, WriterFacts DEF MarksAreWrites, CountHolds
  <2>3. ~outrun => (\A k \in PlanKeys \ {"holder"} : ShownFor(k)')
    BY <1>1, <1>3, <2>1 DEF Drop, CatalogueInv, Shown, ShownFor, Hit, CacheKeys
  <2> QED BY <1>1, <1>2, <1>3, <2>1, <2>2, <2>3, WriterFacts, DropKept
<1>4. CASE UNCHANGED << cached, outrun, due >>
  <2>1. CountHolds'
    BY <1>1, WriterFacts DEF CountHolds
  <2> QED BY <1>1, <1>2, <1>4, <2>1, WriterFacts, WriterKept
<1> QED BY <1>3, <1>4 DEF ApiDrop

LEMMA DropHolderKept == CatalogueInv /\ DropHolder => CatalogueInv'
<1> SUFFICES ASSUME CatalogueInv, DropHolder  PROVE CatalogueInv'
  OBVIOUS
<1>1. UNCHANGED << lookup, holder, edit, upsert, ticks, writes, slow, bereft, assigned >>
  BY DEF DropHolder, rowVars, holderVars
<1>2. Drop({"holder"}) /\ due' = [due EXCEPT !.row = writes]
  BY DEF DropHolder
<1>3. /\ due' \in PlanDues /\ due'.row = writes /\ due'.plan = due.plan
      /\ due'.direct = due.direct
  BY <1>2, WriterFacts DEF PlanDues
<1>4. MarksAreWrites' /\ CountHolds'
  BY <1>1, <1>3, WriterFacts DEF MarksAreWrites, CountHolds
<1>5. ~outrun => (\A k \in PlanKeys \ {"holder"} : ShownFor(k)')
  BY <1>1, <1>2, <1>3 DEF Drop, CatalogueInv, Shown, ShownFor, Hit, CacheKeys
<1> QED BY <1>1, <1>2, <1>3, <1>4, <1>5, WriterFacts, DropKept

LEMMA TickKept == CatalogueInv /\ Tick => CatalogueInv'
<1> SUFFICES ASSUME CatalogueInv, Tick  PROVE CatalogueInv'
  OBVIOUS
<1>1. /\ UNCHANGED << lookup, holder, edit, upsert, due, writes, outrun, bereft, assigned >>
      /\ ticks' = ticks + 1 /\ ticks' \in Nat
  BY WriterFacts DEF Tick, rowVars, holderVars
<1>2. ~slow' => ~slow /\ \A m \in Lookups : lookup[m].pc \notin Reading
  BY DEF Tick
<1>3. /\ CacheTypes'
      /\ \A c \in CacheKeys : Hit(c)' => /\ Hit(c) /\ cached'[c].value = cached[c].value
                                         /\ cached'[c].left = cached[c].left - 1
  <2> SUFFICES ASSUME NEW c \in CacheKeys
               PROVE  /\ Expired(cached[c]) \in PlanEntries
                      /\ Expired(cached[c]).left > 0
                           => /\ Hit(c) /\ Expired(cached[c]).value = cached[c].value
                              /\ Expired(cached[c]).left = cached[c].left - 1
    BY DEF Tick, CacheTypes, Hit
  <2>1. cached[c] \in PlanEntries /\ TTL \in Nat
    BY CatalogueAssumption DEF CatalogueInv, CacheTypes
  <2>2. CASE cached[c].left <= 1
    BY <2>2, NoTypes DEF Expired, NoEntry
  <2>3. CASE ~(cached[c].left <= 1)
    BY <2>1, <2>3 DEF Expired, PlanEntries, Hit
  <2> QED BY <2>2, <2>3
<1>4. LookupTypes' /\ WriterTypes' /\ MarksAreWrites' /\ CountHolds'
  BY <1>1, WriterFacts DEF CatalogueInv, LookupTypes, WriterTypes, MarksAreWrites, CountHolds
<1>5. Fresh'
  <2> SUFFICES ASSUME ~slow'
               PROVE  (\A m \in Lookups : FreshLookup(lookup[m])') /\ (\A c \in CacheKeys : FreshEntry(c)')
    BY DEF Fresh
  <2>1. \A m \in Lookups : FreshLookup(lookup[m])'
    BY <1>1, <1>2 DEF FreshLookup, Reading
  <2>2. ASSUME NEW c \in CacheKeys, Hit(c)'
        PROVE  FreshEntry(c)'
    <3>1. FreshEntry(c)
      BY <1>2 DEF CatalogueInv, Fresh
    <3>2. /\ cached[c].left \in Nat /\ cached[c].value.time \in Nat /\ TTL \in Nat /\ ticks \in Nat
      BY CatalogueAssumption, WriterFacts DEF CatalogueInv, CacheTypes, PlanEntries, PlanValues
    <3> QED BY <1>1, <1>3, <2>2, <3>1, <3>2 DEF FreshEntry
  <2> QED BY <2>1, <2>2 DEF FreshEntry
<1>6. KeyedWay'
  BY <1>1, <1>3 DEF CatalogueInv, KeyedWay, CacheKeys
<1>7. Shown'
  <2> SUFFICES ASSUME ~outrun
               PROVE  /\ (\A m \in Lookups : ShownBy(lookup[m])')
                      /\ (\A k \in PlanKeys : ShownFor(k)') /\ ShownHolder'
    BY <1>1 DEF Shown
  <2>1. \A m \in Lookups : ShownBy(lookup[m])'
    BY <1>1 DEF CatalogueInv, Shown, ShownBy, Shows
  <2>2. \A k \in PlanKeys : ShownFor(k)'
    BY <1>1, <1>3 DEF CatalogueInv, Shown, ShownFor, CacheKeys
  <2>3. ShownHolder'
    BY <1>1, <1>3 DEF CatalogueInv, Shown, ShownHolder, Shows, CacheKeys
  <2> QED BY <2>1, <2>2, <2>3
<1> QED BY <1>3, <1>4, <1>5, <1>6, <1>7 DEF CatalogueInv

LEMMA CatalogueInvNext == CatalogueInv /\ [CatalogueNext]_catalogueVars => CatalogueInv'
<1> SUFFICES ASSUME CatalogueInv, [CatalogueNext]_catalogueVars  PROVE CatalogueInv'
  OBVIOUS
<1>1. CASE \E l \in Lookups : LookUp(l)
  BY <1>1, GetCachedKept, ReadHolderKept, ReadPlanKept, GetCachedKeyKept, ReadByKeyKept,
     StoreKeyKept, StoreHolderKept DEF LookUp
<1>2. CASE UNCHANGED catalogueVars
  <2>1. CountHolds'
    BY <1>2, WriterFacts DEF catalogueVars, rowVars, holderVars, CountHolds
  <2> QED BY <1>2, <2>1, WriterFacts, WriterKept DEF catalogueVars, rowVars, holderVars
<1> QED BY <1>1, <1>2, EditPlanKept, CountReferencesKept, DeleteOrRetireKept, FindEntriesKept,
           DropEntriesKept, EditDiesKept, ApiUpsertKept, ApiRetireKept, ApiDropKept,
           RequestActivationKept, AssignKept, DropHolderKept, TickKept DEF CatalogueNext

-----------------------------------------------------------------------------
(* The two together. *)

\* Whatever plans there are and however long entries are kept, no entry is
\* served on readings as old as two TTLs unless a lookup took its time; unless
\* an entry was dropped under a lookup, an answer shows the assignments and the
\* edits whose drops came before it; and a deletion takes the plan from nobody
\* who had it when it was counted.
THEOREM PlansAreAlwaysShown == CatalogueSpec => []CatalogueHolds
<1>1. CatalogueInit => CatalogueInv
  BY CatalogueInvInit
<1>2. CatalogueInv /\ [CatalogueNext]_catalogueVars => CatalogueInv'
  BY CatalogueInvNext
<1>3. CatalogueInv => CatalogueHolds
  BY CatalogueInvSays
<1> QED BY <1>1, <1>2, <1>3, PTL DEF CatalogueSpec

\* However many contacts, slots, requests and disturbances there are, a campaign
\* mails no contact twice unless it is deleted under a batch, passes none over
\* who was subscribed all along, and what a contact's link and email say of its
\* mail is so; and the catalogue keeps its promises beside it.
THEOREM ServiceAlwaysHolds == ServiceSpec => []ServiceHolds
<1> DEFINE Both == CampaignInv /\ CatalogueInv
<1>1. ServiceInit => Both
  BY CampaignInvInit, CatalogueInvInit DEF ServiceInit
<1>2. Both /\ [ServiceNext]_<< campaignVars, catalogueVars >> => Both'
  <2> SUFFICES ASSUME Both, [ServiceNext]_<< campaignVars, catalogueVars >>  PROVE Both'
    OBVIOUS
  <2>1. [CampaignNext]_campaignVars /\ [CatalogueNext]_catalogueVars
    BY DEF ServiceNext, NoLookUp, NoCampaign
  <2> QED BY <2>1, CampaignInvNext, CatalogueInvNext
<1>3. Both => ServiceHolds
  BY CampaignInvServes, CatalogueInvSays DEF ServiceHolds
<1> HIDE DEF Both
<1> QED BY <1>1, <1>2, <1>3, PTL DEF ServiceSpec

\* For pages of any size and any number of slots: while a campaign shows PAUSED
\* it has mailed no more since than a page for each batch that was under way at
\* the pause, and only such a batch takes the pause back.
THEOREM PauseAlwaysHolds == ServiceSpec => PauseHolds
<1> DEFINE Both == CampaignInv /\ PauseInv
<1>1. ServiceInit => Both
  BY CampaignInvInit, PauseInvInit DEF ServiceInit
<1>2. Both /\ [ServiceNext]_<< campaignVars, catalogueVars >> => Both' /\ PauseOverwritten
  <2> SUFFICES ASSUME Both, [ServiceNext]_<< campaignVars, catalogueVars >>
               PROVE  Both' /\ PauseOverwritten
    OBVIOUS
  <2>1. [CampaignNext]_campaignVars
    BY DEF ServiceNext, NoLookUp, NoCampaign
  <2> QED BY <2>1, CampaignInvNext, PauseInvNext
<1>3. Both => PausedMails
  BY PauseInvSays
<1> HIDE DEF Both
<1> QED BY <1>1, <1>2, <1>3, PTL DEF ServiceSpec, PauseHolds

-----------------------------------------------------------------------------
(***************************************************************************)
(* What is mailed is what was written.  The inductive invariant adds what  *)
(* each call knows: a save the content that was shown when it was typed    *)
(* and the domain it has read, a schedule the row it has read, until       *)
(* another update crosses it; and where the last change is.                *)
(***************************************************************************)

Contents == Documents \cup {NoContent}
RowHtmls == { draft.html : draft \in Drafts } \cup {{}} \cup { Rendered(content) : content \in Documents }
RowRecords ==
  [status : {"DRAFT", "SCHEDULED"}, content : Contents, html : RowHtmls, from : Senders, domain : Senders]
SaveRecords ==
  [pc : {"none", "asked", "read", "written", "over"}, kind : {"content", "from", "other"}, doc : Contents,
   from : Senders \cup {"none"}, domain : Senders \cup {"none"}, nr : 0 .. MaxEdits]
ScheduleRecords ==
  [pc : {"none", "read", "prepared", "checked", "over"}, row : RowRecords, html : RowHtmls]
EditTyped ==
  /\ what \in {"campaign", "api", "copy", "template"} /\ row \in RowRecords
  /\ page \in [open : BOOLEAN, shown : Contents, timer : BOOLEAN, dot : BOOLEAN]
  /\ page.timer => page.open /\ page.shown \in Documents
  /\ save \in [Saves -> SaveRecords] /\ schedule \in ScheduleRecords
  /\ typed \in 0 .. MaxEdits /\ failures \in 0 .. MaxFailures /\ saved \in 0 .. MaxEdits
  /\ dropped \subseteq {"left", "failed", "reordered"} /\ crossed \subseteq {"saves", "schedule"}
  /\ renamed \in BOOLEAN

Asking(s) == save[s].pc \in {"asked", "read"}
\* A save has the content the page showed when it was the last one typed, and
\* the domain the row has until another update crosses it.
SaveKnows(s) ==
  /\ save[s].pc # "none" => save[s].nr <= typed
  /\ Asking(s) => save[s].from \in Senders
  /\ save[s].pc = "read" =>
       save[s].domain \in Senders /\ ("saves" \notin crossed => save[s].domain = row.domain)
  /\ Asking(s) /\ save[s].kind = "content" =>
       save[s].doc \in Documents /\ (save[s].nr = typed => save[s].doc = page.shown)
\* The last change is still to be saved, is on its way, or is what the row has.
LastChangeIsKept ==
  page.timer \/ dropped # {} \/ (saved = typed /\ row.content = page.shown)
    \/ \E s \in Saves : Asking(s) /\ save[s].kind = "content" /\ save[s].nr = typed
\* What the schedule has read is the row until an update crosses it.
ScheduleKnows ==
  /\ what = "template" => schedule.pc = "none"
  /\ schedule.pc \in {"read", "prepared", "checked"} /\ "schedule" \notin crossed => schedule.row = row
  /\ schedule.pc \in {"prepared", "checked"} /\ "schedule" \notin crossed =>
       /\ row.html = schedule.html
       /\ schedule.row.content # NoContent => schedule.html = Rendered(schedule.row.content)
  /\ schedule.pc = "checked" => HasPlaceholder(schedule.row.content, schedule.html)
\* What is scheduled, and mailed, has passed the check.
ScheduledHasPassed ==
  row.status = "SCHEDULED" =>
    /\ HasPlaceholder(passed.content, passed.html)
    /\ passed.content # NoContent /\ "schedule" \notin crossed => passed.html = Rendered(passed.content)
MailIsOfRow ==
  mail # NoLetter =>
    /\ row.status = "SCHEDULED" /\ mail.pieces = Personal(mail.content, mail.html)
EditInv ==
  /\ EditTyped /\ \A s \in Saves : SaveKnows(s)
  /\ LastChangeIsKept /\ ScheduleKnows /\ ScheduledHasPassed /\ MailIsOfRow
  /\ DomainIsOfFrom /\ HtmlIsOfContent

USE DocumentsAssumption, EditsAssumption, DraftsAssumption

LEMMA EditStart == EditInit => EditInv
<1> SUFFICES ASSUME EditInit PROVE EditInv
  OBVIOUS
<1>1. PICK f \in Senders, draft \in Drafts \cup {NoDraft} :
        /\ what \notin {"api", "copy"} => draft = NoDraft
        /\ row = [status |-> "DRAFT", content |-> draft.content, html |-> draft.html,
                  from |-> f, domain |-> f]
  BY DEF EditInit
<1>0. /\ draft.content \in Contents /\ draft.html \in RowHtmls
      /\ draft = NoDraft => draft.content = NoContent
  BY DEF NoDraft, Contents, RowHtmls
<1>2. row \in RowRecords /\ row.status = "DRAFT" /\ row.from = row.domain
  BY <1>0, <1>1 DEF RowRecords
<1>3. /\ page \in [open : BOOLEAN, shown : Contents, timer : BOOLEAN, dot : BOOLEAN]
      /\ page.timer = FALSE /\ page.shown = row.content
  <2>1. row.content \in Contents
    BY <1>2 DEF RowRecords
  <2> QED BY <2>1 DEF EditInit
<1>4. save \in [Saves -> SaveRecords] /\ \A s \in Saves : save[s].pc = "none"
  BY DEF EditInit, NoSave, SaveRecords, Contents
<1>5. schedule \in ScheduleRecords /\ schedule.pc = "none"
  BY <1>2 DEF EditInit, NoSchedule, ScheduleRecords, RowHtmls
<1>6. EditTyped
  <2>1. /\ what \in {"campaign", "api", "copy", "template"} /\ dropped = {} /\ crossed = {} /\ renamed = FALSE
        /\ typed = 0 /\ failures = 0 /\ saved = 0
    BY DEF EditInit
  <2>2. typed \in 0 .. MaxEdits /\ failures \in 0 .. MaxFailures /\ saved \in 0 .. MaxEdits
    BY <2>1
  <2>3. dropped \subseteq {"left", "failed", "reordered"} /\ crossed \subseteq {"saves", "schedule"}
    BY <2>1
  <2>4. page.timer => page.open /\ page.shown \in Documents
    BY <1>3
  <2>5. what \in {"campaign", "api", "copy", "template"} /\ renamed \in BOOLEAN
    BY <2>1
  <2> QED BY <1>2, <1>3, <1>4, <1>5, <2>2, <2>3, <2>4, <2>5 DEF EditTyped
<1>7. \A s \in Saves : SaveKnows(s)
  BY <1>4 DEF SaveKnows, Asking
<1>8. LastChangeIsKept
  BY <1>3 DEF EditInit, LastChangeIsKept
<1>9. ScheduleKnows
  BY <1>5 DEF ScheduleKnows
<1>10. ScheduledHasPassed /\ MailIsOfRow
  BY <1>2 DEF EditInit, ScheduledHasPassed, MailIsOfRow
<1>11. DomainIsOfFrom
  BY <1>2 DEF EditInit, DomainIsOfFrom, NoLetter
<1>12. HtmlIsOfContent
  <2>1. saved = 0
    BY DEF EditInit
  <2> QED BY <1>0, <1>1, <1>2, <2>1 DEF HtmlIsOfContent
<1> QED BY <1>6, <1>7, <1>8, <1>9, <1>10, <1>11, <1>12 DEF EditInv

\* A step that leaves the row and what is mailed alone.
LEMMA RowRests ==
  ASSUME EditInv, UNCHANGED << what, row, mail, saved, crossed, renamed, passed >>
  PROVE  /\ ScheduledHasPassed' /\ MailIsOfRow' /\ DomainIsOfFrom' /\ HtmlIsOfContent'
         /\ schedule' = schedule => ScheduleKnows'
<1>1. ScheduledHasPassed'
  BY DEF EditInv, ScheduledHasPassed
<1>2. MailIsOfRow'
  BY DEF EditInv, MailIsOfRow
<1>3. DomainIsOfFrom' /\ HtmlIsOfContent'
  BY DEF EditInv, DomainIsOfFrom, HtmlIsOfContent
<1>4. schedule' = schedule => ScheduleKnows'
  BY DEF EditInv, ScheduleKnows
<1> QED BY <1>1, <1>2, <1>3, <1>4

LEMMA SavesRest ==
  ASSUME EditInv, UNCHANGED << save, typed >>, row'.domain = row.domain, page'.shown = page.shown,
         crossed' = crossed
  PROVE  \A s \in Saves : SaveKnows(s)'
BY DEF EditInv, SaveKnows, Asking

\* One save moves.
LEMMA SaveMoves ==
  ASSUME EditInv, NEW s \in Saves, NEW r \in SaveRecords, save' = [save EXCEPT ![s] = r],
         row'.domain = row.domain, UNCHANGED << page, typed, crossed >>,
         r.pc # "none" => r.nr <= typed,
         r.pc \in {"asked", "read"} => r.from \in Senders,
         r.pc = "read" => r.domain \in Senders /\ ("saves" \notin crossed => r.domain = row.domain),
         r.pc \in {"asked", "read"} /\ r.kind = "content" =>
           r.doc \in Documents /\ (r.nr = typed => r.doc = page.shown)
  PROVE  save' \in [Saves -> SaveRecords] /\ \A z \in Saves : SaveKnows(z)'
<1>1. save' \in [Saves -> SaveRecords] /\ save'[s] = r /\ \A z \in Saves \ {s} : save'[z] = save[z]
  BY DEF EditInv, EditTyped
<1>2. SaveKnows(s)'
  BY <1>1 DEF SaveKnows, Asking
<1>3. ASSUME NEW z \in Saves \ {s} PROVE SaveKnows(z)'
  <2>1. SaveKnows(z)
    BY DEF EditInv
  <2> QED BY <1>1, <2>1 DEF SaveKnows, Asking
<1> QED BY <1>1, <1>2, <1>3

LEMMA TypeKeeps ==
  ASSUME EditInv, NEW doc \in EditorDocuments, Type(doc) PROVE EditInv'
<1>1. /\ page.open /\ typed < MaxEdits /\ typed' = typed + 1
      /\ page' = [page EXCEPT !.shown = doc, !.timer = TRUE, !.dot = TRUE]
      /\ UNCHANGED << what, row, save, schedule, mail, failures, saved, dropped, crossed,
                      renamed, passed >>
  BY DEF Type
<1>2. /\ page' \in [open : BOOLEAN, shown : Contents, timer : BOOLEAN, dot : BOOLEAN]
      /\ page'.open /\ page'.timer /\ page'.shown = doc /\ doc \in Documents
  BY <1>1 DEF EditInv, EditTyped, Contents
<1>3. typed' \in 0 .. MaxEdits
  BY <1>1 DEF EditInv, EditTyped
<1>4. EditTyped'
  BY <1>1, <1>2, <1>3 DEF EditInv, EditTyped
<1>5. ASSUME NEW s \in Saves PROVE SaveKnows(s)'
  <2>1. SaveKnows(s) /\ save[s].nr \in Nat /\ typed \in Nat
    BY DEF EditInv, EditTyped, SaveRecords
  <2>2. save[s].pc # "none" => save[s].nr <= typed' /\ save[s].nr # typed'
    BY <1>1, <2>1 DEF SaveKnows
  <2> QED BY <1>1, <2>1, <2>2 DEF SaveKnows, Asking
<1>6. LastChangeIsKept'
  BY <1>2 DEF LastChangeIsKept
<1> QED BY <1>1, <1>4, <1>5, <1>6, RowRests DEF EditInv

LEMMA AskKeeps ==
  ASSUME EditInv, NEW s \in Saves, SaveContent(s) \/ SaveField(s) PROVE EditInv'
<1>1. PICK kind \in {"content", "from", "other"}, f \in Senders :
        /\ Ask(s, kind, f)
        /\ \/ kind = "content" /\ page.timer /\ page' = [page EXCEPT !.timer = FALSE]
           \/ kind # "content" /\ page' = page
        /\ UNCHANGED << what, row, schedule, mail, typed, failures, saved, dropped, crossed,
                        renamed, passed >>
  BY DEF SaveContent, SaveField, EditInv, EditTyped, RowRecords
<1>2. PICK r : r = [pc |-> "asked", kind |-> kind, doc |-> page.shown, from |-> f,
                    domain |-> "none", nr |-> typed]
  OBVIOUS
<1>3. r \in SaveRecords
  BY <1>2 DEF SaveRecords, EditInv, EditTyped
<1>4. save' = [save EXCEPT ![s] = r] /\ save[s].pc = "none"
  BY <1>1, <1>2 DEF Ask
<1>5. save' \in [Saves -> SaveRecords] /\ save'[s] = r /\ \A z \in Saves \ {s} : save'[z] = save[z]
  BY <1>3, <1>4 DEF EditInv, EditTyped
<1>6. /\ page' \in [open : BOOLEAN, shown : Contents, timer : BOOLEAN, dot : BOOLEAN]
      /\ page'.shown = page.shown /\ page'.open = page.open /\ (page'.timer => page.timer)
      /\ (kind # "content" => page'.timer = page.timer)
  BY <1>1 DEF EditInv, EditTyped
<1>7. EditTyped'
  BY <1>1, <1>5, <1>6 DEF EditInv, EditTyped
<1>8. ASSUME NEW z \in Saves PROVE SaveKnows(z)'
  <2>1. CASE z = s
    <3>1. kind = "content" => page.shown \in Documents
      BY <1>1 DEF EditInv, EditTyped
    <3>2. typed \in Nat
      BY DEF EditInv, EditTyped
    <3>3. /\ save'[z].pc = "asked" /\ save'[z].kind = kind /\ save'[z].doc = page.shown
          /\ save'[z].from = f /\ save'[z].nr = typed
      BY <1>2, <1>5, <2>1
    <3> QED BY <1>1, <1>6, <3>1, <3>2, <3>3 DEF SaveKnows, Asking
  <2>2. CASE z # s
    <3>1. SaveKnows(z) /\ save'[z] = save[z]
      BY <1>5, <2>2 DEF EditInv
    <3> QED BY <1>1, <1>6, <3>1 DEF SaveKnows, Asking
  <2> QED BY <2>1, <2>2
<1>9. LastChangeIsKept'
  <2>1. CASE kind = "content"
    <3>1. save'[s].pc = "asked" /\ save'[s].kind = "content" /\ save'[s].nr = typed'
      BY <1>1, <1>2, <1>5, <2>1
    <3> QED BY <3>1 DEF LastChangeIsKept, Asking
  <2>2. CASE kind # "content"
    <3>1. ASSUME NEW z \in Saves, Asking(z) PROVE save'[z] = save[z]
      BY <1>4, <1>5, <3>1 DEF Asking
    <3> QED BY <1>1, <1>6, <2>2, <3>1 DEF EditInv, LastChangeIsKept, Asking
  <2> QED BY <2>1, <2>2
<1> QED BY <1>1, <1>7, <1>8, <1>9, RowRests DEF EditInv

LEMMA LeaveKeeps ==
  ASSUME EditInv, LeavePage \/ ScheduleReturns PROVE EditInv'
<1>1. /\ page' = [page EXCEPT !.open = FALSE, !.timer = FALSE]
      /\ dropped' = dropped \cup IF page.timer THEN {"left"} ELSE {}
      /\ UNCHANGED << what, row, save, mail, typed, failures, saved, crossed, renamed, passed >>
  BY DEF LeavePage, ScheduleReturns, Leaving
<1>2. /\ page' \in [open : BOOLEAN, shown : Contents, timer : BOOLEAN, dot : BOOLEAN]
      /\ page'.shown = page.shown /\ ~page'.timer
  BY <1>1 DEF EditInv, EditTyped
<1>3. schedule' = schedule \/ (schedule' = NoSchedule(row) /\ what # "template")
  BY DEF LeavePage, ScheduleReturns, EditInv, ScheduleKnows
<1>4. NoSchedule(row) \in ScheduleRecords /\ NoSchedule(row).pc = "none"
  BY DEF NoSchedule, ScheduleRecords, EditInv, EditTyped, RowHtmls
<1>5. dropped' \subseteq {"left", "failed", "reordered"}
  BY <1>1 DEF EditInv, EditTyped
<1>6. EditTyped'
  BY <1>1, <1>2, <1>3, <1>4, <1>5 DEF EditInv, EditTyped
<1>7. LastChangeIsKept'
  <2>1. CASE page.timer
    BY <1>1, <2>1 DEF LastChangeIsKept
  <2>2. CASE ~page.timer
    BY <1>1, <1>2, <2>2 DEF LastChangeIsKept, EditInv, Asking
  <2> QED BY <2>1, <2>2
<1>8. ScheduleKnows'
  <2>1. CASE schedule' = schedule
    BY <1>1, <2>1, RowRests
  <2>2. CASE schedule'.pc = "none"
    BY <2>2 DEF ScheduleKnows
  <2> QED BY <1>3, <1>4, <2>1, <2>2
<1>9. \A s \in Saves : SaveKnows(s)'
  BY <1>1, <1>2, SavesRest
<1> QED BY <1>1, <1>6, <1>7, <1>8, <1>9, RowRests DEF EditInv

LEMMA ReadSaveKeeps ==
  ASSUME EditInv, NEW s \in Saves, ReadSave(s) PROVE EditInv'
<1>1. /\ save[s].pc = "asked"
      /\ save' = [save EXCEPT ![s].pc = "read", ![s].domain = row.domain]
      /\ UNCHANGED << what, row, page, schedule, mail, typed, failures, saved, dropped, crossed,
                      renamed, passed >>
  BY DEF ReadSave
<1>2. PICK r : r = [save[s] EXCEPT !.pc = "read", !.domain = row.domain]
  OBVIOUS
<1>3. save[s] \in SaveRecords /\ row.domain \in Senders
  BY DEF EditInv, EditTyped, RowRecords
<1>4. /\ r \in SaveRecords /\ r.pc = "read" /\ r.domain = row.domain /\ r.nr = save[s].nr
      /\ r.kind = save[s].kind /\ r.doc = save[s].doc /\ r.from = save[s].from
  BY <1>2, <1>3 DEF SaveRecords
<1>5. save' = [save EXCEPT ![s] = r]
  BY <1>1, <1>2
<1>6. SaveKnows(s)
  BY DEF EditInv
<1>7. save' \in [Saves -> SaveRecords] /\ \A z \in Saves : SaveKnows(z)'
  <2>1. /\ r.nr <= typed /\ r.from \in Senders
        /\ r.kind = "content" => r.doc \in Documents /\ (r.nr = typed => r.doc = page.shown)
    BY <1>1, <1>4, <1>6 DEF SaveKnows, Asking
  <2>2. row'.domain = row.domain /\ page' = page /\ typed' = typed /\ crossed' = crossed
    BY <1>1
  <2> QED BY <1>3, <1>4, <1>5, <2>1, <2>2, SaveMoves
<1>8. EditTyped'
  BY <1>1, <1>7 DEF EditInv, EditTyped
<1>9. LastChangeIsKept'
  <2>1. \A z \in Saves :
          /\ Asking(z) => Asking(z)'
          /\ save'[z].kind = save[z].kind /\ save'[z].nr = save[z].nr
    <3>1. save'[s] = r /\ \A z \in Saves \ {s} : save'[z] = save[z]
      BY <1>5 DEF EditInv, EditTyped
    <3> QED BY <1>4, <3>1 DEF Asking
  <2> QED BY <1>1, <2>1 DEF EditInv, LastChangeIsKept
<1> QED BY <1>1, <1>7, <1>8, <1>9, RowRests DEF EditInv

LEMMA SaveEndsKeeps ==
  ASSUME EditInv, NEW s \in Saves, SaveReturns(s) \/ SaveFails(s) PROVE EditInv'
<1>1. /\ save' = [save EXCEPT ![s].pc = "over"]
      /\ \/ /\ save[s].pc = "written" /\ page' = [page EXCEPT !.dot = FALSE]
            /\ UNCHANGED << failures, dropped >>
         \/ /\ page' = page /\ failures < MaxFailures /\ failures' = failures + 1
            /\ dropped' = dropped \cup IF save[s].kind = "content" THEN {"failed"} ELSE {}
      /\ UNCHANGED << what, row, schedule, mail, typed, saved, crossed, renamed, passed >>
  BY DEF SaveReturns, SaveFails
<1>2. PICK r : r = [save[s] EXCEPT !.pc = "over"]
  OBVIOUS
<1>3. save[s] \in SaveRecords
  BY DEF EditInv, EditTyped
<1>4. r \in SaveRecords /\ r.pc = "over" /\ r.nr = save[s].nr
  BY <1>2, <1>3 DEF SaveRecords
<1>5. save' = [save EXCEPT ![s] = r] /\ save[s].pc # "none"
  BY <1>1, <1>2 DEF SaveReturns, SaveFails
<1>6. save' \in [Saves -> SaveRecords] /\ save'[s] = r /\ \A z \in Saves \ {s} : save'[z] = save[z]
  BY <1>4, <1>5 DEF EditInv, EditTyped
<1>7. /\ page' \in [open : BOOLEAN, shown : Contents, timer : BOOLEAN, dot : BOOLEAN]
      /\ page'.shown = page.shown /\ page'.timer = page.timer /\ page'.open = page.open
  BY <1>1 DEF EditInv, EditTyped
<1>8. failures' \in 0 .. MaxFailures /\ dropped' \subseteq {"left", "failed", "reordered"}
  BY <1>1 DEF EditInv, EditTyped
<1>9. EditTyped'
  BY <1>1, <1>6, <1>7, <1>8 DEF EditInv, EditTyped
<1>10. ASSUME NEW z \in Saves PROVE SaveKnows(z)'
  <2>1. SaveKnows(z)
    BY DEF EditInv
  <2>2. CASE z = s
    BY <1>1, <1>4, <1>5, <1>6, <2>1, <2>2 DEF SaveKnows, Asking
  <2>3. CASE z # s
    BY <1>1, <1>6, <1>7, <2>1, <2>3 DEF SaveKnows, Asking
  <2> QED BY <2>2, <2>3
<1>11. LastChangeIsKept'
  <2>1. CASE save[s].pc = "written" \/ save[s].kind # "content"
    <3>1. ASSUME NEW z \in Saves, Asking(z), save[z].kind = "content" PROVE save'[z] = save[z]
      BY <1>6, <2>1, <3>1 DEF Asking
    <3>2. dropped # {} => dropped' # {}
      BY <1>1
    <3> QED BY <1>1, <1>7, <3>1, <3>2 DEF EditInv, LastChangeIsKept, Asking
  <2>2. CASE save[s].pc # "written" /\ save[s].kind = "content"
    BY <1>1, <2>2 DEF LastChangeIsKept
  <2> QED BY <2>1, <2>2
<1> QED BY <1>1, <1>9, <1>10, <1>11, RowRests DEF EditInv

LEMMA WriteSaveKeeps ==
  ASSUME EditInv, NEW s \in Saves, WriteSave(s) PROVE EditInv'
<1> DEFINE u == save[s]
           content == u.kind = "content"
<1>1. /\ u.pc = "read"
      /\ row' = IF what = "template" THEN PatchedTemplate(u) ELSE Patched(u)
      /\ save' = [save EXCEPT ![s].pc = "written"]
      /\ saved' = IF content THEN u.nr ELSE saved
      /\ dropped' = dropped \cup IF content /\ u.nr < saved THEN {"reordered"} ELSE {}
      /\ renamed' <=> ~content /\ (renamed \/ what = "template")
      /\ renamed' \in BOOLEAN
      /\ crossed' = crossed
            \cup (IF \E z \in Saves \ {s} : save[z].pc = "read" THEN {"saves"} ELSE {})
            \cup (IF schedule.pc \in {"read", "prepared", "checked"} THEN {"schedule"} ELSE {})
      /\ UNCHANGED << what, page, schedule, mail, typed, failures, passed >>
  BY DEF WriteSave
<1>2. /\ u \in SaveRecords /\ SaveKnows(s) /\ row \in RowRecords
  BY DEF EditInv, EditTyped
<1>3. /\ u.from \in Senders /\ u.domain \in Senders /\ ("saves" \notin crossed => u.domain = row.domain)
      /\ u.nr <= typed /\ u.nr \in 0 .. MaxEdits /\ u.kind \in {"content", "from", "other"}
      /\ content => u.doc \in Documents /\ (u.nr = typed => u.doc = page.shown)
  BY <1>1, <1>2 DEF SaveKnows, Asking, SaveRecords
<1>4. PICK h : h = Rendered(u.doc)
  OBVIOUS
<1> HIDE DEF u
\* What the update writes.
<1>5. /\ row' \in RowRecords /\ row'.status = row.status
      /\ row'.content = IF content THEN u.doc ELSE row.content
      /\ row'.html = IF content THEN h ELSE IF what = "template" THEN {} ELSE row.html
      /\ what = "template" => row'.from = row.from /\ row'.domain = row.domain
      /\ what # "template" =>
           IF u.kind = "from" THEN row'.from = u.from /\ row'.domain = u.from
                              ELSE row'.from = row.from /\ row'.domain = u.domain
  <2>1. h \in RowHtmls \/ ~content
    BY <1>3, <1>4 DEF RowHtmls
  <2>2. {} \in RowHtmls /\ (content => u.doc \in Contents)
    BY <1>3 DEF RowHtmls, Contents
  <2>3. CASE what = "template" /\ content
    <3>1. row' = [row EXCEPT !.content = u.doc, !.html = h]
      BY <1>1, <1>4, <2>3 DEF PatchedTemplate
    <3> QED BY <1>2, <2>1, <2>2, <2>3, <3>1 DEF RowRecords
  <2>4. CASE what = "template" /\ ~content
    <3>1. row' = [row EXCEPT !.html = {}]
      BY <1>1, <2>4 DEF PatchedTemplate
    <3> QED BY <1>2, <2>2, <2>4, <3>1 DEF RowRecords
  <2>5. CASE what # "template" /\ content
    <3>1. row' = [row EXCEPT !.content = u.doc, !.html = h, !.domain = u.domain]
      BY <1>1, <1>4, <2>5 DEF Patched
    <3> QED BY <1>2, <1>3, <2>1, <2>2, <2>5, <3>1 DEF RowRecords
  <2>6. CASE what # "template" /\ u.kind = "from"
    <3>1. row' = [row EXCEPT !.from = u.from, !.domain = u.from]
      BY <1>1, <2>6 DEF Patched
    <3> QED BY <1>2, <1>3, <2>6, <3>1 DEF RowRecords
  <2>7. CASE what # "template" /\ u.kind = "other"
    <3>1. row' = [row EXCEPT !.domain = u.domain]
      BY <1>1, <2>7 DEF Patched
    <3> QED BY <1>2, <1>3, <2>7, <3>1 DEF RowRecords
  <2> QED BY <1>3, <2>3, <2>4, <2>5, <2>6, <2>7
<1>6. PICK r : r = [u EXCEPT !.pc = "written"]
  OBVIOUS
<1>7. r \in SaveRecords /\ r.pc = "written" /\ r.nr = u.nr
  BY <1>2, <1>6 DEF SaveRecords
<1>8. save' \in [Saves -> SaveRecords] /\ save'[s] = r /\ \A z \in Saves \ {s} : save'[z] = save[z]
  <2>1. save' = [save EXCEPT ![s] = r]
    BY <1>1, <1>6 DEF u
  <2> QED BY <1>7, <2>1 DEF EditInv, EditTyped
<1>9. EditTyped'
  <2>1. saved' \in 0 .. MaxEdits /\ dropped' \subseteq {"left", "failed", "reordered"}
    BY <1>1, <1>3 DEF EditInv, EditTyped
  <2>2. crossed' \subseteq {"saves", "schedule"}
    BY <1>1 DEF EditInv, EditTyped
  <2>3. /\ what' = what /\ page' = page /\ schedule' = schedule /\ typed' = typed /\ failures' = failures
        /\ renamed' \in BOOLEAN
    BY <1>1
  <2> QED BY <1>5, <1>8, <2>1, <2>2, <2>3 DEF EditInv, EditTyped
<1>10. "saves" \notin crossed' =>
         "saves" \notin crossed /\ \A z \in Saves \ {s} : save[z].pc # "read"
  BY <1>1
<1>11. ASSUME NEW z \in Saves PROVE SaveKnows(z)'
  <2>1. SaveKnows(z)
    BY DEF EditInv
  <2>2. page' = page /\ typed' = typed
    BY <1>1
  <2>3. CASE z = s
    BY <1>3, <1>7, <1>8, <2>2, <2>3 DEF SaveKnows, Asking
  <2>4. CASE z # s
    BY <1>8, <1>10, <2>1, <2>2, <2>4 DEF SaveKnows, Asking
  <2> QED BY <2>3, <2>4
<1>12. LastChangeIsKept'
  <2>1. \A z \in Saves \ {s} : save'[z] = save[z]
    BY <1>8
  <2>2. dropped # {} => dropped' # {}
    BY <1>1
  <2>3. CASE ~content
    <3>1. row'.content = row.content /\ saved' = saved /\ page' = page /\ typed' = typed
      BY <1>1, <1>5, <2>3
    <3>2. \A z \in Saves : save[z].kind = "content" => z # s
      BY <2>3 DEF u
    <3> QED BY <2>1, <2>2, <3>1, <3>2 DEF EditInv, LastChangeIsKept, Asking
  <2>4. CASE content /\ u.nr = typed
    BY <1>1, <1>3, <1>5, <2>4 DEF LastChangeIsKept
  <2>5. CASE content /\ u.nr # typed
    <3>1. CASE u.nr < saved
      BY <1>1, <2>5, <3>1 DEF LastChangeIsKept
    <3>2. CASE saved <= u.nr
      <4>1. saved # typed
        <5>1. saved \in Nat /\ typed \in Nat /\ u.nr \in Nat
          BY <1>3 DEF EditInv, EditTyped
        <5> QED BY <1>3, <2>5, <3>2, <5>1
      <4>2. page.timer \/ dropped # {}
              \/ \E z \in Saves : Asking(z) /\ save[z].kind = "content" /\ save[z].nr = typed
        BY <4>1 DEF EditInv, LastChangeIsKept
      <4>3. \A z \in Saves : save[z].nr = typed => z # s
        BY <2>5 DEF u
      <4>4. page' = page /\ typed' = typed
        BY <1>1
      <4> QED BY <2>1, <2>2, <4>2, <4>3, <4>4 DEF LastChangeIsKept, Asking
    <3>3. u.nr \in Nat /\ saved \in Nat
      BY <1>3 DEF EditInv, EditTyped
    <3> QED BY <3>1, <3>2, <3>3
  <2> QED BY <2>3, <2>4, <2>5
<1>13. ScheduleKnows'
  <2>1. schedule.pc \in {"read", "prepared", "checked"} => "schedule" \in crossed'
    BY <1>1
  <2>2. schedule' = schedule /\ what' = what
    BY <1>1
  <2>3. ScheduleKnows
    BY DEF EditInv
  <2> QED BY <2>1, <2>2, <2>3 DEF ScheduleKnows
<1>14. ScheduledHasPassed' /\ MailIsOfRow'
  <2>1. mail' = mail /\ passed' = passed /\ row'.status = row.status /\ ("schedule" \in crossed => "schedule" \in crossed')
    BY <1>1, <1>5
  <2> QED BY <2>1 DEF EditInv, ScheduledHasPassed, MailIsOfRow
<1>15. DomainIsOfFrom'
  <2>1. mail' = mail
    BY <1>1
  <2> QED BY <1>3, <1>5, <1>10, <2>1 DEF EditInv, DomainIsOfFrom
<1>16. HtmlIsOfContent'
  <2> SUFFICES ASSUME row'.content # NoContent,
                      what' \in {"api", "copy"} /\ saved' = 0 => row'.status = "SCHEDULED"
               PROVE  row'.html = Rendered(row'.content) \/ "schedule" \in crossed' \/ (renamed' /\ row'.html = {})
    BY DEF HtmlIsOfContent
  <2>1. what' = what /\ ("schedule" \in crossed => "schedule" \in crossed')
    BY <1>1
  <2>2. CASE content
    BY <1>4, <1>5, <2>2
  <2>3. CASE ~content /\ what = "template"
    BY <1>1, <1>5, <2>3
  <2>4. CASE ~content /\ what # "template"
    <3>1. row'.content = row.content /\ row'.html = row.html /\ row'.status = row.status
          /\ saved' = saved /\ (renamed => renamed')
      BY <1>1, <1>5, <2>4
    <3> QED BY <2>1, <3>1 DEF EditInv, HtmlIsOfContent
  <2> QED BY <2>2, <2>3, <2>4
<1> QED BY <1>9, <1>11, <1>12, <1>13, <1>14, <1>15, <1>16 DEF EditInv

\* A step of the schedule that leaves the saves and the page alone.
LEMMA PageRests ==
  ASSUME EditInv, UNCHANGED << page, save, typed, saved, dropped, crossed >>,
         row'.domain = row.domain, row'.content = row.content
  PROVE  LastChangeIsKept' /\ \A s \in Saves : SaveKnows(s)'
<1>1. \A s \in Saves : SaveKnows(s)'
  BY SavesRest
<1>2. LastChangeIsKept'
  BY DEF EditInv, LastChangeIsKept, Asking
<1> QED BY <1>1, <1>2

LEMMA ReadToScheduleKeeps == ASSUME EditInv, ReadToSchedule PROVE EditInv'
<1>1. /\ schedule.pc = "none" /\ what # "template"
      /\ schedule' = [pc |-> "read", row |-> row, html |-> {}]
      /\ UNCHANGED << what, row, page, save, mail, typed, failures, saved, dropped, crossed,
                      renamed, passed >>
  BY DEF ReadToSchedule
<1>2. schedule' \in ScheduleRecords
  BY <1>1 DEF ScheduleRecords, EditInv, EditTyped, RowHtmls
<1>3. EditTyped'
  BY <1>1, <1>2 DEF EditInv, EditTyped
<1>4. ScheduleKnows'
  BY <1>1 DEF ScheduleKnows
<1> QED BY <1>1, <1>3, <1>4, PageRests, RowRests DEF EditInv

LEMMA RefuseKeeps ==
  ASSUME EditInv, what # "template", schedule' = NoSchedule(row),
         UNCHANGED << what, row, page, save, mail, typed, failures, saved, dropped, crossed, renamed, passed >>
  PROVE  EditInv'
<1>1. schedule' \in ScheduleRecords /\ schedule'.pc = "none"
  BY DEF NoSchedule, ScheduleRecords, EditInv, EditTyped, RowHtmls
<1>2. EditTyped'
  BY <1>1 DEF EditInv, EditTyped
<1>3. ScheduleKnows'
  BY <1>1 DEF ScheduleKnows
<1> QED BY <1>2, <1>3, PageRests, RowRests DEF EditInv

LEMMA PrepareHtmlKeeps == ASSUME EditInv, PrepareHtml PROVE EditInv'
<1> DEFINE known == schedule.row
<1>1. PICK html : html = IF known.content # NoContent THEN Rendered(known.content) ELSE known.html
  OBVIOUS
<1>2. /\ schedule.pc = "read" /\ what # "template"
      /\ UNCHANGED << what, page, save, mail, typed, failures, saved, dropped, crossed, renamed, passed >>
  BY DEF PrepareHtml, EditInv, ScheduleKnows
<1>3. \/ schedule' = NoSchedule(row) /\ row' = row
      \/ /\ html # {}
         /\ row' = IF html = known.html THEN row ELSE [row EXCEPT !.html = html]
         /\ schedule' = [pc |-> "prepared", html |-> html,
                         row |-> IF html = known.html THEN known ELSE row']
  BY <1>1 DEF PrepareHtml, Refuse
<1>4. CASE schedule' = NoSchedule(row) /\ row' = row
  BY <1>2, <1>4, RefuseKeeps
<1>5. CASE /\ html # {}
           /\ row' = IF html = known.html THEN row ELSE [row EXCEPT !.html = html]
           /\ schedule' = [pc |-> "prepared", html |-> html,
                           row |-> IF html = known.html THEN known ELSE row']
  <2>1. row \in RowRecords /\ known \in RowRecords
    BY DEF EditInv, EditTyped, ScheduleRecords
  <2>2. html \in RowHtmls
    BY <1>1, <2>1 DEF RowRecords, RowHtmls, Contents
  <2>3. /\ row' \in RowRecords /\ row'.status = row.status /\ row'.content = row.content
        /\ row'.from = row.from /\ row'.domain = row.domain
        /\ row'.html = IF html = known.html THEN row.html ELSE html
    BY <1>5, <2>1, <2>2 DEF RowRecords
  <2>4. /\ schedule' \in ScheduleRecords /\ schedule'.pc = "prepared" /\ schedule'.html = html
        /\ schedule'.row = IF html = known.html THEN known ELSE row'
    BY <1>5, <2>1, <2>2, <2>3 DEF ScheduleRecords
  <2>5. EditTyped'
    BY <1>2, <2>3, <2>4 DEF EditInv, EditTyped
  <2>6. "schedule" \notin crossed => known = row
    BY <1>2 DEF EditInv, ScheduleKnows
  <2>7. ScheduleKnows'
    BY <1>1, <1>2, <1>5, <2>3, <2>4, <2>6 DEF ScheduleKnows
  <2>8. ScheduledHasPassed' /\ MailIsOfRow'
    BY <1>2, <2>3 DEF EditInv, ScheduledHasPassed, MailIsOfRow
  <2>9. DomainIsOfFrom'
    BY <1>2, <2>3 DEF EditInv, DomainIsOfFrom
  <2>10. HtmlIsOfContent'
    BY <1>1, <1>2, <2>3, <2>6 DEF EditInv, HtmlIsOfContent
  <2> QED BY <1>2, <2>3, <2>5, <2>7, <2>8, <2>9, <2>10, PageRests DEF EditInv
<1> QED BY <1>3, <1>4, <1>5

LEMMA CheckPlaceholderKeeps == ASSUME EditInv, CheckPlaceholder PROVE EditInv'
<1>1. /\ schedule.pc = "prepared" /\ what # "template" /\ row' = row
      /\ UNCHANGED << what, page, save, mail, typed, failures, saved, dropped, crossed, renamed, passed >>
  BY DEF CheckPlaceholder, Refuse, EditInv, ScheduleKnows
<1>2. CASE HasPlaceholder(schedule.row.content, schedule.html)
  <2>1. schedule' = [schedule EXCEPT !.pc = "checked"]
    BY <1>2 DEF CheckPlaceholder
  <2>2. /\ schedule' \in ScheduleRecords /\ schedule'.pc = "checked"
        /\ schedule'.row = schedule.row /\ schedule'.html = schedule.html
    BY <2>1 DEF EditInv, EditTyped, ScheduleRecords
  <2>3. EditTyped'
    BY <1>1, <2>2 DEF EditInv, EditTyped
  <2>4. ScheduleKnows'
    BY <1>1, <1>2, <2>2 DEF EditInv, ScheduleKnows
  <2> QED BY <1>1, <2>3, <2>4, PageRests, RowRests DEF EditInv
<1>3. CASE ~HasPlaceholder(schedule.row.content, schedule.html)
  <2>1. schedule' = NoSchedule(row)
    BY <1>3 DEF CheckPlaceholder, Refuse
  <2> QED BY <1>1, <2>1, RefuseKeeps
<1> QED BY <1>2, <1>3

LEMMA WriteScheduledKeeps == ASSUME EditInv, WriteScheduled PROVE EditInv'
<1>1. /\ schedule.pc = "checked" /\ what # "template"
      /\ row' = [row EXCEPT !.status = "SCHEDULED"]
      /\ schedule' = [schedule EXCEPT !.pc = "over"]
      /\ passed' = [content |-> schedule.row.content, html |-> schedule.html]
      /\ UNCHANGED << what, page, save, mail, typed, failures, saved, dropped, crossed, renamed >>
  BY DEF WriteScheduled, EditInv, ScheduleKnows
<1>2. /\ row' \in RowRecords /\ row'.status = "SCHEDULED" /\ row'.content = row.content
      /\ row'.html = row.html /\ row'.from = row.from /\ row'.domain = row.domain
  BY <1>1 DEF EditInv, EditTyped, RowRecords
<1>3. schedule' \in ScheduleRecords /\ schedule'.pc = "over"
  BY <1>1 DEF EditInv, EditTyped, ScheduleRecords
<1>4. EditTyped'
  BY <1>1, <1>2, <1>3 DEF EditInv, EditTyped
<1>5. ScheduleKnows'
  BY <1>1, <1>3 DEF ScheduleKnows
<1>6. /\ HasPlaceholder(schedule.row.content, schedule.html)
      /\ "schedule" \notin crossed =>
           /\ schedule.row = row /\ row.html = schedule.html
           /\ schedule.row.content # NoContent => schedule.html = Rendered(schedule.row.content)
  BY <1>1 DEF EditInv, ScheduleKnows
<1>7. ScheduledHasPassed'
  <2>1. passed'.content = schedule.row.content /\ passed'.html = schedule.html
    BY <1>1
  <2> QED BY <1>1, <1>6, <2>1 DEF ScheduledHasPassed
<1>8. MailIsOfRow' /\ DomainIsOfFrom'
  BY <1>1, <1>2 DEF EditInv, MailIsOfRow, DomainIsOfFrom
<1>9. HtmlIsOfContent'
  BY <1>1, <1>2, <1>6 DEF HtmlIsOfContent
<1> QED BY <1>1, <1>2, <1>4, <1>5, <1>7, <1>8, <1>9, PageRests DEF EditInv

LEMMA MailContactKeeps == ASSUME EditInv, MailContact PROVE EditInv'
<1>1. /\ row.status = "SCHEDULED"
      /\ mail' = [content |-> row.content, html |-> row.html, from |-> row.from,
                  domain |-> row.domain, pieces |-> Personal(row.content, row.html)]
      /\ UNCHANGED << what, row, page, save, schedule, typed, failures, saved, dropped, crossed,
                      renamed, passed >>
  BY DEF MailContact
<1>2. EditTyped'
  BY <1>1 DEF EditInv, EditTyped
<1>3. MailIsOfRow'
  BY <1>1 DEF MailIsOfRow
<1>4. DomainIsOfFrom'
  BY <1>1 DEF EditInv, DomainIsOfFrom
<1>5. ScheduleKnows' /\ ScheduledHasPassed' /\ HtmlIsOfContent'
  BY <1>1 DEF EditInv, ScheduleKnows, ScheduledHasPassed, HtmlIsOfContent
<1> QED BY <1>1, <1>2, <1>3, <1>4, <1>5, PageRests DEF EditInv

LEMMA EditKept == EditInv /\ [EditNext]_editVars => EditInv'
<1> SUFFICES ASSUME EditInv, [EditNext]_editVars PROVE EditInv'
  OBVIOUS
<1>1. CASE UNCHANGED editVars
  <2>1. UNCHANGED << what, row, page, save, schedule, mail, typed, failures, saved, dropped, crossed,
                     renamed, passed >>
    BY <1>1 DEF editVars
  <2>2. EditTyped'
    BY <2>1 DEF EditInv, EditTyped
  <2> QED BY <2>1, <2>2, PageRests, RowRests DEF EditInv
<1>2. CASE EditNext
  BY <1>2, TypeKeeps, LeaveKeeps, AskKeeps, ReadSaveKeeps, WriteSaveKeeps, SaveEndsKeeps,
     ReadToScheduleKeeps, PrepareHtmlKeeps, CheckPlaceholderKeeps, WriteScheduledKeeps,
     MailContactKeeps DEF EditNext
<1> QED BY <1>1, <1>2

\* A placeholder that is printed becomes the address, or is one that is copied.
LEMMA PrintedPlaceholder ==
  ASSUME NEW content, NEW piece \in Pieces(content, FALSE), piece[2] \in Tokens
  PROVE  \E p \in Pieces(content, TRUE) :
           p[2] \in {"url", "spaced"} \/ (p[2] = "token" /\ p[1] # "href")
<1>1. PICK node \in RenderedNodes(content) : piece \in NodePieces(node, FALSE)
  BY DEF Pieces
<1>2. SUFFICES \E p \in NodePieces(node, TRUE) :
                 p[2] \in {"url", "spaced"} \/ (p[2] = "token" /\ p[1] # "href")
  BY DEF Pieces
<1>3. CASE node.type \in {"text", "button"}
  <2>1. /\ piece = << "text", node.value >> \/ piece = << "href", Href(node.link, FALSE) >>
        /\ << "text", node.value >> \in NodePieces(node, TRUE)
        /\ piece = << "href", Href(node.link, FALSE) >> /\ piece # << "text", node.value >> =>
             << "href", Href(node.link, TRUE) >> \in NodePieces(node, TRUE)
    BY <1>1, <1>3 DEF NodePieces, TextPieces, ButtonPieces
  <2>2. CASE piece = << "text", node.value >>
    BY <2>1, <2>2 DEF Tokens
  <2>3. CASE piece = << "href", Href(node.link, FALSE) >> /\ piece # << "text", node.value >>
    <3>1. node.link \in Tokens
      BY <2>3 DEF Href
    <3>2. Href(node.link, TRUE) \in {"url", "spaced"}
      BY <3>1 DEF Href, Tokens
    <3> QED BY <2>1, <2>3, <3>2
  <2> QED BY <2>1, <2>2, <2>3
<1>4. CASE node.type = "variable"
  <2>1. /\ piece = << "text", Variable(node.value, node.link, FALSE) >>
        /\ << "text", Variable(node.value, node.link, TRUE) >> \in NodePieces(node, TRUE)
    BY <1>1, <1>4 DEF NodePieces
  <2>2. Variable(node.value, node.link, FALSE) \in Tokens
    BY <2>1
  <2>3. Variable(node.value, node.link, TRUE) \in {"url", "spaced", "token"}
    <3>1. CASE node.value = "name"
      BY <3>1 DEF Variable
    <3>2. CASE node.value # "name"
      BY <2>2, <3>2 DEF Variable, Tokens
    <3> QED BY <3>1, <3>2
  <2> QED BY <2>1, <2>3
<1>6. CASE node.type = "image"
  BY <1>1, <1>6 DEF NodePieces, ImagePieces, Tokens
<1>7. CASE node.type = "logo"
  BY <1>1, <1>7 DEF NodePieces, LogoPieces, Tokens
<1>8. CASE node.type = "codeBlock"
  BY <1>1, <1>8 DEF NodePieces, CodePieces, Tokens
<1>9. node.type \in {"text", "variable", "button", "image", "logo", "codeBlock"}
  BY <1>1 DEF NodePieces
<1> QED BY <1>3, <1>4, <1>6, <1>7, <1>8, <1>9

LEMMA EditAgrees == EditInv => EditingHolds
<1> SUFFICES ASSUME EditInv PROVE EditingHolds
  OBVIOUS
<1>1. EditTypeOK
  BY DEF EditInv, EditTyped, EditTypeOK, RowRecords, SaveRecords, ScheduleRecords, Contents
<1>2. MailCanBeLeft
  <2> SUFFICES ASSUME mail # NoLetter, "schedule" \notin crossed, mail.content = passed.content,
                      mail.content = NoContent => mail.html = passed.html
               PROVE  \/ mail.content # NoContent /\ OnlyHidden(mail.content)
                      \/ \E piece \in mail.pieces :
                           \/ piece[2] = "url"
                           \/ /\ mail.content # NoContent
                              /\ piece[2] = "spaced" \/ (piece[2] = "token" /\ piece[1] # "href")
    BY DEF MailCanBeLeft
  <2>1. /\ HasPlaceholder(mail.content, passed.html) /\ mail.pieces = Personal(mail.content, mail.html)
        /\ mail.content # NoContent => passed.html = Rendered(mail.content)
    BY DEF EditInv, MailIsOfRow, ScheduledHasPassed
  <2>2. CASE mail.content = NoContent
    <3>1. PICK piece \in mail.html : piece[2] \in Tokens
      BY <2>1, <2>2 DEF HasPlaceholder
    <3>2. << piece[1], "url" >> \in mail.pieces
      BY <2>1, <2>2, <3>1 DEF Personal
    <3> QED BY <3>2
  <2>3. CASE mail.content # NoContent
    <3>1. Pieces(mail.content, TRUE) \subseteq mail.pieces
      BY <2>1, <2>3 DEF Personal
    <3>2. CASE \E piece \in Pieces(mail.content, FALSE) : piece[2] \in Tokens
      <4>1. PICK p \in Pieces(mail.content, TRUE) :
              p[2] \in {"url", "spaced"} \/ (p[2] = "token" /\ p[1] # "href")
        BY <3>2, PrintedPlaceholder
      <4> QED BY <2>3, <3>1, <4>1
    <3>3. CASE \A piece \in Pieces(mail.content, FALSE) : piece[2] \notin Tokens
      <4>1. \A piece \in passed.html : piece[2] \notin Tokens
        <5>1. passed.html = {<< "page", "words" >>} \cup Pieces(mail.content, FALSE)
          BY <2>1, <2>3 DEF Rendered
        <5>2. << "page", "words" >>[2] \notin Tokens
          BY DEF Tokens
        <5> QED BY <3>3, <5>1, <5>2
      <4>2. Strings(mail.content) \cap Tokens # {}
        BY <2>1, <4>1 DEF HasPlaceholder
      <4> QED BY <2>3, <3>3, <4>2 DEF OnlyHidden
    <3> QED BY <3>2, <3>3
  <2> QED BY <2>2, <2>3
<1>3. EditIsKept
  BY DEF EditInv, EditIsKept, LastChangeIsKept, Asking
<1> QED BY <1>1, <1>2, <1>3 DEF EditingHolds, EditInv

\* Of a campaign or a template that calls of the page, a schedule and the
\* batch work on, the domain is the from address's, the html its content's,
\* what was typed last is kept, and what passed the placeholder check can be
\* left: campaign.ts:120, campaign-service.ts:84 and the editor pages.
THEOREM EditingAlwaysHolds == EditSpec => []EditingHolds
<1>1. EditSpec => []EditInv
  BY EditStart, EditKept, PTL DEF EditSpec
<1> QED BY <1>1, EditAgrees, PTL

\* Both hold in the instance that TLC checks, where contacts and words take
\* their steps beside each other.
THEOREM WordsAlwaysHold == WordsSpec => [](PendingIsAsked /\ EditingHolds)
<1> DEFINE Both == ContactInv /\ EditInv
<1>1. WordsInit => Both
  BY ContactInvInit, EditStart DEF WordsInit
<1>2. Both /\ [WordsNext]_<< vars, editVars >> => Both'
  <2> SUFFICES ASSUME Both, [WordsNext]_<< vars, editVars >> PROVE Both'
    OBVIOUS
  <2>1. [ContactNext]_vars /\ [EditNext]_editVars
    BY DEF WordsNext, NoWordsStep, NoContactStep
  <2> QED BY <2>1, ContactInvNext, EditKept
<1>3. Both => PendingIsAsked /\ EditingHolds
  BY EditAgrees DEF ContactInv
<1> HIDE DEF Both
<1> QED BY <1>1, <1>2, <1>3, PTL DEF WordsSpec
=============================================================================
