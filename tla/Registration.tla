---------------------------- MODULE Registration ----------------------------
(***************************************************************************)
(* How a user of the installation comes to be: a login asks                *)
(* canRegisterSelfHostedUser, NextAuth looks for the user and, without     *)
(* one, calls the adapter's createUser, whose transaction an advisory lock *)
(* serialises, and then the createUser event, which marks who has to wait. *)
(* An administrator takes users off the waiting list and puts them back.   *)
(*                                                                         *)
(* A person has one account and one address, or none; invitations come     *)
(* and go as TeamMembership has it.  A login is one request of a person.   *)
(* asked, early, owedMails and overlapped are history.                     *)
(***************************************************************************)
EXTENDS Integers, FiniteSets

CONSTANTS
  People,
  Addressless, \* people whose provider tells no address
  Logins,
  Who,         \* Who[l]: the person of login l
  Releases,    \* requests of the administrator
  MaxInvitings,\* bound: invitations made
  MaxCuts      \* bound: logins cut off

ASSUME WhoAssumption == Who \in [Logins -> People] /\ Addressless \subseteq People
ASSUME CutsAssumption == MaxInvitings \in Nat /\ MaxCuts \in Nat

VARIABLES
  cloud,    \* NEXT_PUBLIC_IS_CLOUD
  users,    \* the people who have a row
  waiting,  \* those whose row has isWaitlisted
  inviting, \* the people whose address has an invitation
  invitings,
  login,    \* login[l]: how far it has come
  invited,  \* invited[l]: what its last look for an invitation found
  holder,   \* the logins whose transaction has the advisory lock
  release,  \* release[a]: [pc, who, to, was]
  cuts,
  asked,    \* asked[l]: there was an invitation for its person since l came
  early,    \* people registered without an invitation since their login came
  unmarked, \* users whose event has not marked them, or was cut off
  owedMails,\* times a user left the list, less the acceptances mailed
  overlapped

regVars == << cloud, users, waiting, inviting, invitings, login, invited, holder,
              release, cuts, asked, early, unmarked, owedMails, overlapped >>
invitationVars == << inviting, invitings >>
listVars == << release, owedMails, overlapped >>

NoRelease == [pc |-> "none", who |-> "none", to |-> FALSE, was |-> FALSE]
LoginSteps == { "new", "empty", "invite", "adapter", "lock", "first", "check", "insert",
                "event", "mark", "in", "refused" }

RegTypeOK ==
  /\ cloud \in BOOLEAN /\ users \subseteq People /\ waiting \subseteq users
  /\ inviting \subseteq People \ Addressless /\ invitings \in 0 .. MaxInvitings
  /\ login \in [Logins -> LoginSteps] /\ invited \in [Logins -> BOOLEAN]
  /\ holder \subseteq Logins /\ cuts \in 0 .. MaxCuts
  /\ release \in [Releases -> [pc : {"none", "write", "mail", "over"}, who : People \cup {"none"},
                               to : BOOLEAN, was : BOOLEAN]]
  /\ asked \in [Logins -> BOOLEAN] /\ early \subseteq users /\ unmarked \subseteq users
  /\ owedMails \in Int /\ overlapped \in BOOLEAN

RegInit ==
  /\ cloud \in BOOLEAN /\ users = {} /\ waiting = {}
  /\ inviting = {} /\ invitings = 0
  /\ login = [l \in Logins |-> "new"] /\ invited = [l \in Logins |-> FALSE]
  /\ holder = {} /\ release = [a \in Releases |-> NoRelease]
  /\ cuts = 0 /\ asked = [l \in Logins |-> FALSE]
  /\ early = {} /\ unmarked = {} /\ owedMails = 0 /\ overlapped = FALSE

Come(l, step) == login' = [login EXCEPT ![l] = step]
Found(l) == invited' = [invited EXCEPT ![l] = Who[l] \in inviting]

-----------------------------------------------------------------------------
\* canRegisterSelfHostedUser: the account's or the address's user, ...
SignIn(l) ==
  /\ login[l] = "new"
  /\ Come(l, IF cloud \/ Who[l] \in users THEN "adapter" ELSE "empty")
  /\ asked' = [asked EXCEPT ![l] = Who[l] \in inviting]
  /\ UNCHANGED << cloud, users, waiting, invitationVars, invited, holder, cuts, early,
                  unmarked, listVars >>

\* ... then any user at all, ...
CheckEmpty(l) ==
  /\ login[l] = "empty"
  /\ Come(l, IF users = {} THEN "adapter"
             ELSE IF Who[l] \in Addressless THEN "refused" ELSE "invite")
  /\ UNCHANGED << cloud, users, waiting, invitationVars, invited, holder, cuts, asked,
                  early, unmarked, listVars >>

\* ... then an invitation.
CheckInvite(l) ==
  /\ login[l] = "invite"
  /\ Come(l, IF Who[l] \in inviting THEN "adapter" ELSE "refused")
  /\ UNCHANGED << cloud, users, waiting, invitationVars, invited, holder, cuts, asked,
                  early, unmarked, listVars >>

\* NextAuth finds the user, or has the adapter create one.
FindUser(l) ==
  /\ login[l] = "adapter"
  /\ Come(l, IF Who[l] \in users THEN "in" ELSE IF cloud THEN "insert" ELSE "lock")
  /\ UNCHANGED << cloud, users, waiting, invitationVars, invited, holder, cuts, asked,
                  early, unmarked, listVars >>

-----------------------------------------------------------------------------
\* createUser.

\* Mutant of TakeLock: the transaction alone.
TakeLockNot(l) ==
  /\ login[l] = "lock"
  /\ Come(l, "first") /\ holder' = holder \cup {l}
  /\ UNCHANGED << cloud, users, waiting, invitationVars, invited, cuts, asked, early,
                  unmarked, listVars >>

\* pg_advisory_xact_lock, until the transaction ends.
TakeLock(l) ==
  /\ login[l] = "lock" /\ holder = {}
  /\ Come(l, "first") /\ holder' = {l}
  /\ UNCHANGED << cloud, users, waiting, invitationVars, invited, cuts, asked, early,
                  unmarked, listVars >>

Refuse(l) == Come(l, "refused") /\ holder' = holder \ {l}

FindFirstUser(l) ==
  /\ login[l] = "first"
  /\ IF users = {} THEN Come(l, "insert") /\ UNCHANGED holder
     ELSE IF Who[l] \in Addressless THEN Refuse(l)
     ELSE Come(l, "check") /\ UNCHANGED holder
  /\ UNCHANGED << cloud, users, waiting, invitationVars, invited, cuts, asked, early,
                  unmarked, listVars >>

FindInvite(l) ==
  /\ login[l] = "check"
  /\ IF Who[l] \in inviting THEN Come(l, "insert") /\ UNCHANGED holder ELSE Refuse(l)
  /\ UNCHANGED << cloud, users, waiting, invitationVars, invited, cuts, asked, early,
                  unmarked, listVars >>

\* Account and address are unique: a second row of a person is refused.
InsertUser(l) ==
  /\ login[l] = "insert"
  /\ holder' = holder \ {l}
  /\ IF Who[l] \in users THEN Come(l, "refused") /\ UNCHANGED << users, early, unmarked >>
     ELSE /\ users' = users \cup {Who[l]} /\ unmarked' = unmarked \cup {Who[l]}
          /\ early' = IF asked[l] THEN early ELSE early \cup {Who[l]}
          /\ Come(l, "event")
  /\ UNCHANGED << cloud, waiting, invitationVars, invited, cuts, asked, listVars >>

-----------------------------------------------------------------------------
\* The createUser event: invitations are looked for once more ...
FindInvites(l) ==
  /\ login[l] = "event"
  /\ Found(l) /\ Come(l, "mark")
  /\ UNCHANGED << cloud, users, waiting, invitationVars, holder, cuts, asked, early,
                  unmarked, listVars >>

\* Mutant of MarkUser: whoever has none waits only while he is the only user.
MarkUserFirst(l) ==
  /\ login[l] = "mark"
  /\ waiting' = IF cloud /\ ~invited[l] /\ users = {Who[l]} THEN waiting \cup {Who[l]} ELSE waiting
  /\ unmarked' = unmarked \ {Who[l]}
  /\ Come(l, "in")
  /\ UNCHANGED << cloud, users, invitationVars, invited, holder, cuts, asked, early,
                  listVars >>

\* ... and in the cloud who has none waits.
MarkUser(l) ==
  /\ login[l] = "mark"
  /\ waiting' = IF cloud /\ ~invited[l] THEN waiting \cup {Who[l]} ELSE waiting
  /\ unmarked' = unmarked \ {Who[l]}
  /\ Come(l, "in")
  /\ UNCHANGED << cloud, users, invitationVars, invited, holder, cuts, asked, early,
                  listVars >>

\* The process dies: the transaction is rolled back, and its lock is free.
CutOff(l) ==
  /\ login[l] \notin {"new", "in", "refused"}
  /\ cuts < MaxCuts /\ cuts' = cuts + 1
  /\ Refuse(l)
  /\ UNCHANGED << cloud, users, waiting, invitationVars, invited, asked, early, unmarked,
                  listVars >>

-----------------------------------------------------------------------------
\* Invitations, of TeamMembership.
InvitationMade ==
  /\ invitings < MaxInvitings /\ invitings' = invitings + 1
  /\ \E p \in People \ (Addressless \cup inviting) :
       /\ inviting' = inviting \cup {p}
       /\ asked' = [l \in Logins |->
                     asked[l] \/ (Who[l] = p /\ login[l] \notin {"new", "in", "refused"})]
  /\ UNCHANGED << cloud, users, waiting, login, invited, holder, cuts, early, unmarked,
                  listVars >>

InvitationGone ==
  /\ \E p \in inviting : inviting' = inviting \ {p}
  /\ UNCHANGED << cloud, users, waiting, invitings, login, invited, holder, cuts, asked,
                  early, unmarked, listVars >>

-----------------------------------------------------------------------------
\* updateUserWaitlist: the row is read, ...
ReadWaiting(a) ==
  /\ release[a].pc = "none"
  /\ \E p \in users, to \in BOOLEAN :
       release' = [release EXCEPT ![a] = [pc |-> "write", who |-> p, to |-> to,
                                          was |-> p \in waiting]]
  /\ overlapped' = (overlapped \/ unmarked # {}
                      \/ \E b \in Releases : release[b].pc = "write")
  /\ UNCHANGED << cloud, users, waiting, invitationVars, login, invited, holder, cuts,
                  asked, early, unmarked, owedMails >>

\* Mutant of Accepted: every user let in is mailed.
AcceptedAlways(r) == ~r.to /\ r.who \notin Addressless

\* Whether the user is let in by this request, from what it read, and can be told.
Accepted(r) == r.was /\ ~r.to /\ r.who \notin Addressless

\* ... written, ...
WriteWaiting(a) ==
  LET r == release[a] IN
  /\ r.pc = "write"
  /\ waiting' = IF r.to THEN waiting \cup {r.who} ELSE waiting \ {r.who}
  /\ owedMails' = owedMails + (IF r.who \in waiting \ (waiting' \cup Addressless) THEN 1 ELSE 0)
  /\ release' = [release EXCEPT ![a].pc = IF Accepted(r) THEN "mail" ELSE "over"]
  /\ UNCHANGED << cloud, users, invitationVars, login, invited, holder, cuts, asked,
                  early, unmarked, overlapped >>

\* ... and the user told.
MailAcceptance(a) ==
  /\ release[a].pc = "mail"
  /\ owedMails' = owedMails - 1
  /\ release' = [release EXCEPT ![a].pc = "over"]
  /\ UNCHANGED << cloud, users, waiting, invitationVars, login, invited, holder, cuts,
                  asked, early, unmarked, overlapped >>

LoginStep(l) ==
  \/ SignIn(l) \/ CheckEmpty(l) \/ CheckInvite(l) \/ FindUser(l)
  \/ TakeLock(l) \/ FindFirstUser(l) \/ FindInvite(l) \/ InsertUser(l)
  \/ FindInvites(l) \/ MarkUser(l) \/ CutOff(l)

RegNext ==
  \/ \E l \in Logins : LoginStep(l)
  \/ InvitationMade \/ InvitationGone
  \/ \E a \in Releases : ReadWaiting(a) \/ WriteWaiting(a) \/ MailAcceptance(a)

RegSpec == RegInit /\ [][RegNext]_regVars

-----------------------------------------------------------------------------
(* Properties. *)

\* A self-hosted installation has one user whom no invitation let in, the
\* first, however many log in at once: the look at the empty table and the
\* insertion are one under the lock.
OneUninvited == cloud \/ Cardinality(early) <= 1

\* In the cloud who does not wait had an invitation while logging in, or was
\* taken off the list; but for a login cut off before its event had marked it.
WaitsOrWasInvited ==
  \A p \in users : cloud =>
    \/ p \in waiting \cup unmarked
    \/ \E l \in Logins : Who[l] = p /\ asked[l]
    \/ \E a \in Releases : release[a].who = p

\* A user taken off the list is told once: what is owed is what a request is
\* about to send, unless requests, or one and the event, overlapped.
AcceptanceIsMailed ==
  overlapped \/ owedMails = Cardinality({ a \in Releases : release[a].pc = "mail" })

RegistrationHolds == OneUninvited /\ WaitsOrWasInvited /\ AcceptanceIsMailed
=============================================================================
