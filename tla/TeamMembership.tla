--------------------------- MODULE TeamMembership ---------------------------
(***************************************************************************)
(* Who belongs to which team, as what, and which domains a CLIENT holds:   *)
(* TeamService, the invitation router and the client operations of         *)
(* ClientService.  A request is a chain of single database calls with no   *)
(* transaction around them; each of its steps below is one call, or a run  *)
(* of reads with nothing written between them.                             *)
(*                                                                         *)
(* A domain belongs to Home[d] for good.  Invitations name domains of      *)
(* their own team, as the dashboard offers them.  The last four variables  *)
(* are history, which the code does not keep: the requests begun, whom an  *)
(* invitation let in, who was a member of what, and which of TeamFaults    *)
(* there have been.                                                        *)
(***************************************************************************)
EXTENDS Naturals, FiniteSets, Sequences, Functions

CONSTANTS
  Users, Teams, Domains,
  Requests,    \* requests that can be under way at once
  Home,        \* the team of a domain
  Start,       \* Start[t][u]: the roles the run begins with
  Seats,       \* PricingPlan.maxTeamMembers
  MaxInvites,  \* bound on the invitations ever made
  MaxRequests, \* bound on the requests ever begun
  TeamFaults,  \* what may happen: requests overlap, one is cut off by its process dying
  MaxFaults    \* bound on how many of them happen

Roles == { "ADMIN", "MEMBER", "CLIENT" }
Steps == { "readInvitee", "insertInvite", "deleteInvite", "insertMember", "grant",
           "consume", "findMember", "countAdmins", "writeRole", "clear",
           "deleteMember", "writeDomains" }

ASSUME TeamAssumption ==
  /\ Home \in [Domains -> Teams]
  /\ Start \in [Teams -> [Users -> Roles \cup {"none"}]]
  /\ \A t \in Teams : (\E u \in Users : Start[t][u] # "none")
                        => \E u \in Users : Start[t][u] = "ADMIN"
  /\ Seats \in Nat /\ MaxInvites \in Nat /\ MaxRequests \in Nat
  /\ TeamFaults \subseteq {"overlap", "dies"} /\ MaxFaults \in Nat

ASSUME StartAssumption ==
  \A u \in Users, t, v \in Teams : Start[t][u] # "none" /\ Start[v][u] # "none" => t = v

VARIABLES
  made,    \* the teams there are
  role,    \* role[t][u]: the TeamUser row, "none" without one
  access,  \* <<u, d>>: the ClientDomainAccess rows
  invites, \* the TeamInvite rows
  request, \* what each request holds between two of its calls
  tally,
  joined,  \* joined[i]: the users invitation i let in, one after the other
  former,  \* <<u, t, how>>: was removed from t, or had the role in it changed
  suffered

teamVars == << made, role, access, invites, request, tally, joined, former, suffered >>
memberRows == << made, role, access, invites, joined, former >>

InviteIds == 1..MaxInvites
Invites == [id : InviteIds, team : Teams, user : Users, role : Roles, doms : SUBSET Domains]

\* A request about user u of team t: the role to give ("none": take away), the
\* domains to grant, the invitation accepted (0: none), and u's role as read.
Job(pc, t, u, to, doms, inv) ==
  [pc |-> pc, team |-> t, user |-> u, to |-> to, doms |-> doms, inv |-> inv, was |-> "none"]
Jobs == [pc : Steps, team : Teams, user : Users, to : Roles \cup {"none"},
         doms : SUBSET Domains, inv : InviteIds \cup {0}, was : Roles \cup {"none"}]
Founding(u) == [pc |-> "insertTeam", user |-> u]
Idle == [pc |-> "idle"]
Pending(r) == request[r].pc # "idle"

DomainsOf(t) == { d \in Domains : Home[d] = t }
TeamsOf(u) == { t \in Teams : role[t][u] # "none" }
Admins(t) == { u \in Users : role[t][u] = "ADMIN" }

TeamTypeOK ==
  /\ made \subseteq Teams
  /\ role \in [Teams -> [Users -> Roles \cup {"none"}]]
  /\ \A t \in Teams, u \in Users : role[t][u] # "none" => t \in made
  /\ access \subseteq Users \X Domains
  /\ invites \subseteq Invites
  /\ request \in [Requests -> Jobs \cup { Founding(u) : u \in Users } \cup {Idle}]
  /\ tally \in 0..MaxRequests
  /\ joined \in [InviteIds -> Seq(Users)]
  /\ former \subseteq Users \X Teams \X {"removed", "changed"}
  /\ suffered \subseteq TeamFaults

TeamInit ==
  /\ made = { t \in Teams : \E u \in Users : Start[t][u] # "none" }
  /\ role = Start
  /\ access = {} /\ invites = {}
  /\ request = [r \in Requests |-> Idle]
  /\ tally = 0
  /\ joined = [i \in InviteIds |-> << >>]
  /\ former = {} /\ suffered = {}

Suffer(k) ==
  /\ k \in TeamFaults /\ Cardinality(suffered \cup {k}) <= MaxFaults
  /\ suffered' = suffered \cup {k}

Begin(r, job) ==
  /\ tally < MaxRequests /\ tally' = tally + 1
  /\ ~Pending(r)
  /\ IF \E q \in Requests : Pending(q) THEN Suffer("overlap") ELSE UNCHANGED suffered
  /\ request' = [request EXCEPT ![r] = job]
  /\ UNCHANGED memberRows
At(r, step) == request[r].pc = step
Move(r, step) == request' = [request EXCEPT ![r].pc = step] /\ UNCHANGED << tally, suffered >>
End(r) == request' = [request EXCEPT ![r] = Idle] /\ UNCHANGED << tally, suffered >>
Then(r, p, step) == IF p THEN Move(r, step) ELSE End(r)

-----------------------------------------------------------------------------
\* createTeam, of the dashboard and of the admin API: only for who has none.
CreateTeam(r) ==
  \E u \in Users : TeamsOf(u) = {} /\ Begin(r, Founding(u))

\* Mutant of InsertTeam: the member's row without the team's.
InsertTeamUserOnly(r) ==
  /\ At(r, "insertTeam")
  /\ \E t \in Teams \ made : role' = [role EXCEPT ![t][request[r].user] = "ADMIN"]
  /\ End(r)
  /\ UNCHANGED << made, access, invites, joined, former >>

InsertTeam(r) ==
  /\ At(r, "insertTeam")
  /\ \E t \in Teams \ made :
       /\ made' = made \cup {t}
       /\ role' = [role EXCEPT ![t][request[r].user] = "ADMIN"]
  /\ End(r)
  /\ UNCHANGED << access, invites, joined, former >>

-----------------------------------------------------------------------------
\* createTeamInvite, by an admin of the team: a seat must be free and the
\* invited in no team; one invitation per team and address.
Invite(r) ==
  \E t \in Teams, u \in Users, to \in Roles :
    /\ Admins(t) # {}
    /\ \E doms \in SUBSET DomainsOf(t) :
         /\ to # "CLIENT" => doms = {}
         /\ Begin(r, Job("readInvitee", t, u, to, doms, 0))

ReadInvitee(r) ==
  LET j == request[r] IN
  /\ At(r, "readInvitee")
  /\ Then(r, /\ Cardinality({ u \in Users : role[j.team][u] # "none" }) < Seats
             /\ TeamsOf(j.user) = {},
          "insertInvite")
  /\ UNCHANGED memberRows

\* The row of the invitation, under an id never used; joined stays << >> for it.
InsertInvite(r) ==
  LET j == request[r] IN
  /\ At(r, "insertInvite")
  /\ IF \E i \in invites : i.team = j.team /\ i.user = j.user
     THEN UNCHANGED invites
     ELSE \E n \in InviteIds :
            /\ joined[n] = << >> /\ \A i \in invites : i.id # n
            /\ \A q \in Requests : Pending(q) /\ q # r /\ ~At(q, "insertTeam") => request[q].inv # n
            /\ invites' = invites \cup
                 {[id |-> n, team |-> j.team, user |-> j.user, role |-> j.to, doms |-> j.doms]}
  /\ End(r)
  /\ UNCHANGED << made, role, access, joined, former >>

\* deleteTeamInvite: finds the row by its id, deletes it by team and address.
Uninvite(r) ==
  \E i \in invites :
    /\ Admins(i.team) # {}
    /\ Begin(r, Job("deleteInvite", i.team, i.user, "none", {}, 0))

DeleteInvite(r) ==
  LET j == request[r] IN
  /\ At(r, "deleteInvite")
  /\ invites' = { i \in invites : ~(i.team = j.team /\ i.user = j.user) }
  /\ End(r)
  /\ UNCHANGED << made, role, access, joined, former >>

-----------------------------------------------------------------------------
\* acceptTeamInvite, by whoever opens the link; and createClient, which makes
\* a user of no other team a CLIENT, or grants more to one who is.
Accept(r) ==
  \E i \in invites, u \in Users :
    Begin(r, Job("insertMember", i.team, u, i.role, i.doms, i.id))

\* Mutant of CreateClient: memberships of other teams are not looked for.
CreateClientAnywhere(r) ==
  \E t \in made, u \in Users :
    /\ role[t][u] \in {"none", "CLIENT"}
    /\ \E doms \in SUBSET DomainsOf(t) :
         Begin(r,
               Job(IF role[t][u] = "none" THEN "insertMember" ELSE "grant", t, u, "CLIENT", doms, 0))

CreateClient(r) ==
  \E t \in made, u \in Users :
    /\ TeamsOf(u) \subseteq {t} /\ role[t][u] \in {"none", "CLIENT"}
    /\ \E doms \in SUBSET DomainsOf(t) :
         Begin(r,
               Job(IF role[t][u] = "none" THEN "insertMember" ELSE "grant", t, u, "CLIENT", doms, 0))

\* The TeamUser row is unique: inserting a second one ends the request.
InsertMember(r) ==
  LET j == request[r] IN
  /\ At(r, "insertMember")
  /\ IF role[j.team][j.user] # "none"
     THEN End(r) /\ UNCHANGED << role, joined >>
     ELSE /\ role' = [role EXCEPT ![j.team][j.user] = j.to]
          /\ joined' = IF j.inv = 0 THEN joined ELSE [joined EXCEPT ![j.inv] = Append(@, j.user)]
          /\ IF j.to = "CLIENT" /\ j.doms # {} THEN Move(r, "grant") ELSE Then(r, j.inv # 0, "consume")
  /\ UNCHANGED << made, access, invites, former >>

GrantDomains(r) ==
  LET j == request[r] IN
  /\ At(r, "grant")
  /\ access' = access \cup {j.user} \X j.doms
  /\ Then(r, j.inv # 0, "consume")
  /\ UNCHANGED << made, role, invites, joined, former >>

\* Mutant of ConsumeInvite: the invitation stays.
ConsumeNothing(r) == At(r, "consume") /\ End(r) /\ UNCHANGED memberRows

ConsumeInvite(r) ==
  /\ At(r, "consume")
  /\ invites' = { i \in invites : i.id # request[r].inv }
  /\ End(r)
  /\ UNCHANGED << made, role, access, joined, former >>

-----------------------------------------------------------------------------
\* updateTeamUserRole, by an admin; deleteTeamUser, by an admin or oneself.
SetRole(r) ==
  \E t \in Teams, u \in Users, to \in Roles :
    /\ Admins(t) # {}
    /\ \E doms \in SUBSET DomainsOf(t) :
         /\ to # "CLIENT" => doms = {}
         /\ Begin(r, Job("findMember", t, u, to, doms, 0))

Remove(r) ==
  \E t \in Teams, u \in Users :
    /\ Admins(t) # {} \/ role[t][u] # "none"
    /\ Begin(r, Job("findMember", t, u, "none", {}, 0))

FindMember(r) ==
  LET j == request[r]
      was == role[j.team][j.user] IN
  /\ At(r, "findMember")
  /\ request' = [request EXCEPT ![r] =
                   IF was = "none" THEN Idle ELSE [j EXCEPT !.pc = "countAdmins", !.was = was]]
  /\ UNCHANGED << memberRows, tally, suffered >>

\* Mutant of CountAdmins: the count stops nobody.
CountAdminsOnly(r) ==
  /\ At(r, "countAdmins")
  /\ Move(r, IF request[r].to = "none" THEN "deleteMember" ELSE "writeRole")
  /\ UNCHANGED memberRows

\* The last admin of a team stays one.
CountAdmins(r) ==
  LET j == request[r] IN
  /\ At(r, "countAdmins")
  /\ IF Cardinality(Admins(j.team)) = 1 /\ j.was = "ADMIN" THEN End(r)
     ELSE Move(r, IF j.to = "none" THEN "deleteMember" ELSE "writeRole")
  /\ UNCHANGED memberRows

\* Mutant of WriteRole: only a new CLIENT's domains are cleared.
WriteRoleOnly(r) ==
  LET j == request[r] IN
  /\ At(r, "writeRole")
  /\ IF role[j.team][j.user] = "none" THEN End(r) /\ UNCHANGED << role, former >>
     ELSE /\ role' = [role EXCEPT ![j.team][j.user] = j.to]
          /\ former' = former \cup { <<j.user, j.team, "changed">> }
          /\ Then(r, j.to = "CLIENT", "clear")
  /\ UNCHANGED << made, access, invites, joined >>

\* Updating a row that is gone ends the request.
WriteRole(r) ==
  LET j == request[r] IN
  /\ At(r, "writeRole")
  /\ IF role[j.team][j.user] = "none" THEN End(r) /\ UNCHANGED << role, former >>
     ELSE /\ role' = [role EXCEPT ![j.team][j.user] = j.to]
          /\ former' = former \cup { <<j.user, j.team, "changed">> }
          /\ Move(r, "clear")
  /\ UNCHANGED << made, access, invites, joined >>

ClearDomains(r) ==
  LET j == request[r] IN
  /\ At(r, "clear")
  /\ access' = access \ ({j.user} \X DomainsOf(j.team))
  /\ Then(r, j.doms # {}, "grant")
  /\ UNCHANGED << made, role, invites, joined, former >>

DeleteMember(r) ==
  LET j == request[r] IN
  /\ At(r, "deleteMember")
  /\ role' = [role EXCEPT ![j.team][j.user] = "none"]
  /\ former' = former \cup { <<j.user, j.team, "removed">> }
  /\ End(r)
  /\ UNCHANGED << made, access, invites, joined >>

-----------------------------------------------------------------------------
\* ClientService.setDomains: grants ("CLIENT") or revokes ("none").
SetDomains(r) ==
  \E t \in made, u \in Users, to \in {"CLIENT", "none"} :
    /\ role[t][u] = "CLIENT"
    /\ \E doms \in SUBSET DomainsOf(t) :
         Begin(r, Job("writeDomains", t, u, to, doms, 0))

WriteDomains(r) ==
  LET j == request[r] IN
  /\ At(r, "writeDomains")
  /\ access' = IF j.to = "CLIENT" THEN access \cup {j.user} \X j.doms
                                  ELSE access \ ({j.user} \X j.doms)
  /\ End(r)
  /\ UNCHANGED << made, role, invites, joined, former >>

\* The process that serves the request dies.
Die(r) ==
  /\ Pending(r) /\ request' = [request EXCEPT ![r] = Idle]
  /\ Suffer("dies")
  /\ UNCHANGED << memberRows, tally >>

NewRequest(r) ==
  /\ ~Pending(r) /\ tally < MaxRequests
  /\ \/ CreateTeam(r) \/ Invite(r) \/ Uninvite(r) \/ Accept(r) \/ CreateClient(r)
     \/ SetRole(r) \/ Remove(r) \/ SetDomains(r)
TeamStep(r) ==
  \/ NewRequest(r)
  \/ InsertTeam(r) \/ ReadInvitee(r) \/ InsertInvite(r) \/ DeleteInvite(r)
  \/ InsertMember(r) \/ GrantDomains(r) \/ ConsumeInvite(r)
  \/ FindMember(r) \/ CountAdmins(r) \/ WriteRole(r) \/ ClearDomains(r) \/ DeleteMember(r)
  \/ WriteDomains(r) \/ Die(r)
TeamNext == \E r \in Requests : TeamStep(r)
TeamSpec == TeamInit /\ [][TeamNext]_teamVars

-----------------------------------------------------------------------------
(* A team has an admin as long as requests do not overlap: each of         *)
(* updateTeamUserRole and deleteTeamUser counts the admins before it takes *)
(* one away, and dying between the two is harmless.                        *)
TeamHasAdmin == "overlap" \in suffered \/ \A t \in made : Admins(t) # {}

(* Domains are held by the CLIENTs of their team, between requests: the     *)
(* limits of an email sent from a domain are those of whoever holds it.    *)
(* deleteTeamUser leaves the rows of whom it removes, and                  *)
(* updateTeamUserRole clears them after it has written the role.           *)
AccessHeldByClients ==
  (\A r \in Requests : ~Pending(r)) =>
    \A a \in access :
      LET u == a[1]
          t == Home[a[2]] IN
      \/ role[t][u] = "CLIENT"
      \/ <<u, t, "removed">> \in former
      \/ <<u, t, "changed">> \in former /\ suffered # {}

(* A user is in one team at most: createTeam, createTeamInvite and         *)
(* createClient all refuse who is in another.  acceptTeamInvite does not   *)
(* look, nor does anything hold while two requests overlap.                *)
OneTeamPerUser ==
  "overlap" \in suffered \/
    \A u \in Users :
      Cardinality(TeamsOf(u)) > 1 => \E i \in InviteIds : u \in Range(joined[i])

(* An invitation lets in one member: acceptTeamInvite consumes it, and a    *)
(* member who was taken out does not come back by it, unless it was cut    *)
(* off before consuming it or two accepted it at once.                     *)
InvitationUsedOnce == suffered = {} => \A i \in InviteIds : Len(joined[i]) <= 1

(* Memberships are those that were granted: one team each, one member for   *)
(* an invitation, domains for CLIENTs.                                     *)
MembershipIsInOrder ==
  TeamTypeOK /\ OneTeamPerUser /\ InvitationUsedOnce /\ AccessHeldByClients
=============================================================================
