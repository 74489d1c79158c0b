----------------------- MODULE TeamMembership_proofs -----------------------
(***************************************************************************)
(* A team keeps an admin as long as requests do not overlap, for every set *)
(* of users, teams and domains, and wherever requests are cut off; and     *)
(* memberships are in order: one team each, one member for an invitation,  *)
(* domains for CLIENTs.  Then how people come in (Registration) and what a *)
(* team may have (TeamResources), each for itself, and of MCTeamMembership *)
(* only that the instance it runs takes the steps of one of the three.     *)
(***************************************************************************)
EXTENDS MCTeamMembership, FiniteSetTheorems, TLAPS

Founders == { Founding(u) : u \in Users }

(***************************************************************************)
(* What the admins' being there rests on while no requests have            *)
(* overlapped: one request is under way, it has the member's role as it    *)
(* is, and once it may write there is another admin.  Whatever happens, a  *)
(* request is about a team there is and an invitation for a role.          *)
(***************************************************************************)
Quiet == "overlap" \notin suffered

Alone == \A q, r \in Requests : Pending(q) /\ Pending(r) => q = r

RoleGiven(r) == request[r].pc \in {"readInvitee", "insertInvite"} => request[r].to \in Roles

AsRead(r) ==
  request[r].pc = "countAdmins" =>
    request[r].was = role[request[r].team][request[r].user] /\ request[r].was # "none"

AnotherAdmin(r) ==
  request[r].pc \in {"writeRole", "deleteMember"} =>
    \E a \in Users \ {request[r].user} : role[request[r].team][a] = "ADMIN"

TeamMade(r) == request[r].pc \notin {"idle", "insertTeam"} => request[r].team \in made

Kept(r) == TeamMade(r) /\ RoleGiven(r) /\ (Quiet => AsRead(r) /\ AnotherAdmin(r))

InvitingMade == \A i \in invites : i.team \in made

TeamInv ==
  /\ TeamTypeOK /\ (Quiet => Alone) /\ TeamHasAdmin /\ InvitingMade
  /\ \A r \in Requests : Kept(r)

USE TeamAssumption

LEMMA BeginTypes ==
  ASSUME TeamTypeOK, NEW r \in Requests, NEW job \in Jobs \cup Founders, Begin(r, job)
  PROVE  TeamTypeOK'
<1>1. suffered' \subseteq TeamFaults
  BY DEF TeamTypeOK, Begin, Suffer
<1>2. request' \in [Requests -> Jobs \cup Founders \cup {Idle}] /\ tally' \in 0..MaxRequests
  BY DEF TeamTypeOK, Begin, Founders
<1> QED
  BY <1>1, <1>2 DEF TeamTypeOK, Begin, memberRows, Founders

LEMMA EndTypes ==
  ASSUME TeamTypeOK, NEW r \in Requests, End(r)
  PROVE  /\ request' \in [Requests -> Jobs \cup Founders \cup {Idle}]
         /\ tally' \in 0..MaxRequests /\ suffered' \subseteq TeamFaults
  BY DEF TeamTypeOK, End, Founders

LEMMA MoveTypes ==
  ASSUME TeamTypeOK, NEW r \in Requests, NEW step \in Steps, request[r] \in Jobs, Move(r, step)
  PROVE  /\ request' \in [Requests -> Jobs \cup Founders \cup {Idle}]
         /\ tally' \in 0..MaxRequests /\ suffered' \subseteq TeamFaults
<1>1. [request[r] EXCEPT !.pc = step] \in Jobs
  BY DEF Jobs
<1> QED
  BY <1>1 DEF TeamTypeOK, Move, Founders

LEMMA JobTypes ==
  ASSUME NEW pc \in Steps, NEW t \in Teams, NEW u \in Users, NEW to \in Roles \cup {"none"},
         NEW doms \in SUBSET Domains, NEW inv \in InviteIds \cup {0}
  PROVE  Job(pc, t, u, to, doms, inv) \in Jobs
  BY DEF Job, Jobs, Roles

LEMMA RoleTypes ==
  ASSUME TeamTypeOK, NEW t \in Teams, NEW u \in Users, NEW to \in Roles \cup {"none"}
  PROVE  [role EXCEPT ![t][u] = to] \in [Teams -> [Users -> Roles \cup {"none"}]]
<1> DEFINE R == Roles \cup {"none"}
<1>1. role \in [Teams -> [Users -> R]] /\ to \in R
  BY DEF TeamTypeOK
<1>2. SUFFICES [role EXCEPT ![t][u] = to] \in [Teams -> [Users -> R]]
  OBVIOUS
<1> HIDE DEF R
<1> QED
  BY <1>1

LEMMA AtJob ==
  ASSUME TeamTypeOK, NEW r \in Requests, request[r].pc \notin {"idle", "insertTeam"}
  PROVE  /\ request[r] \in Jobs
         /\ request[r].team \in Teams /\ request[r].user \in Users
         /\ request[r].to \in Roles \cup {"none"}
<1>1. request[r] \in Jobs
  BY DEF TeamTypeOK, Founding, Idle
<1> QED
  BY <1>1 DEF Jobs

LEMMA TypeStep ==
  ASSUME TeamTypeOK, NEW r \in Requests, RoleGiven(r), TeamMade(r), TeamStep(r)
  PROVE  TeamTypeOK'
<1> USE DEF At, Then, TeamsOf
<1>1. CASE CreateTeam(r)
  BY <1>1, BeginTypes DEF CreateTeam, Founders
<1>2. CASE InsertTeam(r)
  <2>1. request[r].user \in Users
    BY <1>2 DEF InsertTeam, TeamTypeOK, Founding, Idle, Jobs, Steps
  <2> QED
    BY <1>2, <2>1, EndTypes DEF InsertTeam, TeamTypeOK, Roles, Founders
<1>3. CASE Invite(r)
  BY <1>3, BeginTypes, JobTypes DEF Invite, DomainsOf, Steps
<1>4. CASE ReadInvitee(r)
  <2>1. request[r] \in Jobs
    BY <1>4, AtJob DEF ReadInvitee
  <2> QED
    BY <1>4, <2>1, EndTypes, MoveTypes DEF ReadInvitee, TeamTypeOK, memberRows, Steps, Founders
<1>5. CASE InsertInvite(r)
  <2>1. request[r] \in Jobs /\ request[r].to \in Roles
    BY <1>5, AtJob DEF InsertInvite, RoleGiven
  <2>2. \A n \in InviteIds :
          [id |-> n, team |-> request[r].team, user |-> request[r].user,
           role |-> request[r].to, doms |-> request[r].doms] \in Invites
    BY <2>1 DEF Jobs, Invites
  <2>3. invites' \subseteq Invites
    BY <1>5, <2>2 DEF InsertInvite, TeamTypeOK
  <2> QED
    BY <1>5, <2>3, EndTypes DEF InsertInvite, TeamTypeOK, Founders
<1>6. CASE Uninvite(r)
  BY <1>6, BeginTypes, JobTypes DEF Uninvite, TeamTypeOK, Invites, Steps
<1>7. CASE DeleteInvite(r)
  BY <1>7, EndTypes DEF DeleteInvite, TeamTypeOK, Founders
<1>8. CASE Accept(r)
  BY <1>8, BeginTypes, JobTypes DEF Accept, TeamTypeOK, Invites, Steps
<1>9. CASE CreateClient(r)
  BY <1>9, BeginTypes, JobTypes DEF CreateClient, TeamTypeOK, DomainsOf, Steps, Roles
<1>10. CASE InsertMember(r)
  <2>1. request[r] \in Jobs
    BY <1>10, AtJob DEF InsertMember
  <2>2. /\ request' \in [Requests -> Jobs \cup Founders \cup {Idle}]
        /\ tally' \in 0..MaxRequests /\ suffered' \subseteq TeamFaults
    BY <1>10, <2>1, EndTypes, MoveTypes DEF InsertMember, Steps
  <2>3. role' \in [Teams -> [Users -> Roles \cup {"none"}]]
    <3>1. role' = role \/ role' = [role EXCEPT ![request[r].team][request[r].user] = request[r].to]
      BY <1>10 DEF InsertMember
    <3>2. request[r].team \in Teams /\ request[r].user \in Users /\ request[r].to \in Roles \cup {"none"}
      BY <1>10, AtJob DEF InsertMember
    <3>3. [role EXCEPT ![request[r].team][request[r].user] = request[r].to]
            \in [Teams -> [Users -> Roles \cup {"none"}]]
      BY <3>2, RoleTypes
    <3> QED
      BY <3>1, <3>3 DEF TeamTypeOK
  <2>4. joined' \in [InviteIds -> Seq(Users)]
    <3>1. CASE joined' = joined
      BY <3>1 DEF TeamTypeOK
    <3>2. CASE joined' # joined
      <4>1. /\ request[r].inv \in InviteIds /\ request[r].user \in Users
            /\ joined' = [joined EXCEPT ![request[r].inv] = Append(@, request[r].user)]
        BY <1>10, <2>1, <3>2 DEF InsertMember, Jobs
      <4>2. Append(joined[request[r].inv], request[r].user) \in Seq(Users)
        BY <4>1 DEF TeamTypeOK
      <4> QED
        BY <4>1, <4>2 DEF TeamTypeOK
    <3> QED
      BY <3>1, <3>2
  <2>5. \A t \in Teams, u \in Users : role'[t][u] # "none" => t \in made'
    BY <1>10, <2>1, ZenonT(60) DEF InsertMember, TeamTypeOK, TeamMade, Jobs
  <2> QED
    BY <1>10, <2>2, <2>3, <2>4, <2>5 DEF InsertMember, TeamTypeOK, Founders
<1>11. CASE GrantDomains(r)
  <2>1. request[r] \in Jobs
    BY <1>11, AtJob DEF GrantDomains
  <2>2. access' \subseteq Users \X Domains
    BY <1>11, <2>1 DEF GrantDomains, TeamTypeOK, Jobs
  <2> QED
    BY <1>11, <2>1, <2>2, EndTypes, MoveTypes DEF GrantDomains, TeamTypeOK, Steps, Founders
<1>12. CASE ConsumeInvite(r)
  BY <1>12, EndTypes DEF ConsumeInvite, TeamTypeOK, Founders
<1>13. CASE SetRole(r)
  BY <1>13, BeginTypes, JobTypes DEF SetRole, DomainsOf, Steps
<1>14. CASE Remove(r)
  BY <1>14, BeginTypes, JobTypes DEF Remove, Steps
<1>15. CASE FindMember(r)
  <2>1. request[r] \in Jobs
    BY <1>15, AtJob DEF FindMember
  <2>2. \A w \in Roles \cup {"none"} : [request[r] EXCEPT !.pc = "countAdmins", !.was = w] \in Jobs
    BY <2>1 DEF Jobs, Steps
  <2>3. role[request[r].team][request[r].user] \in Roles \cup {"none"}
    BY <2>1 DEF Jobs, TeamTypeOK
  <2> QED
    BY <1>15, <2>2, <2>3, ZenonT(60) DEF FindMember, TeamTypeOK, memberRows, Founders
<1>16. CASE CountAdmins(r)
  <2>1. request[r] \in Jobs
    BY <1>16, AtJob DEF CountAdmins
  <2> QED
    BY <1>16, <2>1, EndTypes, MoveTypes DEF CountAdmins, TeamTypeOK, memberRows, Steps, Founders
<1>17. CASE WriteRole(r)
  <2>1. request[r] \in Jobs
    BY <1>17, AtJob DEF WriteRole
  <2>2. /\ request' \in [Requests -> Jobs \cup Founders \cup {Idle}]
        /\ tally' \in 0..MaxRequests /\ suffered' \subseteq TeamFaults
    BY <1>17, <2>1, EndTypes, MoveTypes DEF WriteRole, Steps
  <2>3. role' \in [Teams -> [Users -> Roles \cup {"none"}]]
    <3>1. role' = role \/ role' = [role EXCEPT ![request[r].team][request[r].user] = request[r].to]
      BY <1>17 DEF WriteRole
    <3>2. request[r].team \in Teams /\ request[r].user \in Users /\ request[r].to \in Roles \cup {"none"}
      BY <1>17, AtJob DEF WriteRole
    <3>3. [role EXCEPT ![request[r].team][request[r].user] = request[r].to]
            \in [Teams -> [Users -> Roles \cup {"none"}]]
      BY <3>2, RoleTypes
    <3> QED
      BY <3>1, <3>3 DEF TeamTypeOK
  <2>4. \A t \in Teams, u \in Users : role'[t][u] # "none" => t \in made'
    BY <1>17, <2>1, ZenonT(60) DEF WriteRole, TeamTypeOK, Jobs
  <2>5. former' \subseteq Users \X Teams \X {"removed", "changed"}
    BY <1>17, <2>1 DEF WriteRole, TeamTypeOK, Jobs
  <2> QED
    BY <1>17, <2>2, <2>3, <2>4, <2>5 DEF WriteRole, TeamTypeOK, Founders
<1>18. CASE ClearDomains(r)
  <2>1. request[r] \in Jobs
    BY <1>18, AtJob DEF ClearDomains
  <2> QED
    BY <1>18, <2>1, EndTypes, MoveTypes DEF ClearDomains, TeamTypeOK, Steps, Founders
<1>19. CASE DeleteMember(r)
  <2>1. request[r] \in Jobs
    BY <1>19, AtJob DEF DeleteMember
  <2>2. former' \subseteq Users \X Teams \X {"removed", "changed"}
    BY <1>19, <2>1 DEF DeleteMember, TeamTypeOK, Jobs
  <2> QED
    BY <1>19, <2>1, <2>2, EndTypes DEF DeleteMember, TeamTypeOK, Jobs, Founders
<1>20. CASE SetDomains(r)
  BY <1>20, BeginTypes, JobTypes DEF SetDomains, TeamTypeOK, DomainsOf, Steps, Roles
<1>21. CASE WriteDomains(r)
  <2>1. request[r] \in Jobs
    BY <1>21, AtJob DEF WriteDomains
  <2> QED
    BY <1>21, <2>1, EndTypes DEF WriteDomains, TeamTypeOK, Jobs, Founders
<1>22. CASE Die(r)
  BY <1>22 DEF Die, Suffer, TeamTypeOK, memberRows, Founders
<1> QED
  BY <1>1, <1>2, <1>3, <1>4, <1>5, <1>6, <1>7, <1>8, <1>9, <1>10, <1>11, <1>12, <1>13,
     <1>14, <1>15, <1>16, <1>17, <1>18, <1>19, <1>20, <1>21, <1>22 DEF TeamStep, NewRequest

(***************************************************************************)
(* A step leaves the other requests as they are; while none has overlapped *)
(* another, no other is under way after it.                                *)
(***************************************************************************)
LEMMA StepsApart ==
  ASSUME TeamTypeOK, NEW r \in Requests, TeamStep(r)
  PROVE  /\ \A q \in Requests \ {r} : request'[q] = request[q]
         /\ Quiet' => Quiet
<1>1. request' = [request EXCEPT ![r] = request'[r]]
  BY ZenonT(60)
     DEF TeamStep, NewRequest, TeamTypeOK, CreateTeam, InsertTeam, Invite, ReadInvitee, InsertInvite, Uninvite,
     DeleteInvite, Accept, CreateClient, InsertMember, GrantDomains, ConsumeInvite, SetRole,
     Remove, FindMember, CountAdmins, WriteRole, ClearDomains, DeleteMember, SetDomains,
     WriteDomains, Die, Begin, Move, End, Then
<1>2. suffered \subseteq suffered'
  BY ZenonT(60)
     DEF TeamStep, NewRequest, CreateTeam, InsertTeam, Invite, ReadInvitee, InsertInvite, Uninvite,
     DeleteInvite, Accept, CreateClient, InsertMember, GrantDomains, ConsumeInvite, SetRole,
     Remove, FindMember, CountAdmins, WriteRole, ClearDomains, DeleteMember, SetDomains,
     WriteDomains, Die, Begin, Move, End, Then, Suffer
<1> QED
  BY <1>1, <1>2 DEF TeamTypeOK, Quiet

LEMMA StepsAlone ==
  ASSUME TeamTypeOK, Quiet => Alone, NEW r \in Requests, TeamStep(r), Quiet'
  PROVE  \A q \in Requests \ {r} : ~Pending(q)
<1>1. CASE Pending(r)
  BY <1>1, StepsApart DEF Alone
<1>2. CASE ~Pending(r)
  <2>1. PICK job : Begin(r, job)
    BY <1>2, ZenonT(60)
       DEF TeamStep, NewRequest, CreateTeam, InsertTeam, Invite, ReadInvitee, InsertInvite, Uninvite,
     DeleteInvite, Accept, CreateClient, InsertMember, GrantDomains, ConsumeInvite, SetRole,
     Remove, FindMember, CountAdmins, WriteRole, ClearDomains, DeleteMember, SetDomains,
     WriteDomains, Die, At, Pending
  <2> QED
    BY <2>1 DEF Begin, Suffer, Quiet
<1> QED
  BY <1>1, <1>2

(***************************************************************************)
(* The admins of the teams there are, and what the request that steps      *)
(* holds after its step.                                                   *)
(***************************************************************************)
LEMMA OthersRemain ==
  ASSUME TeamTypeOK, TeamHasAdmin, Quiet, NEW t \in made, NEW u \in Users,
         ~(Cardinality(Admins(t)) = 1 /\ role[t][u] = "ADMIN")
  PROVE  \E a \in Users \ {u} : role[t][a] = "ADMIN"
<1>1. PICK b \in Users : role[t][b] = "ADMIN"
  BY DEF TeamHasAdmin, Admins, Quiet
<1>2. SUFFICES ASSUME \A a \in Users \ {u} : role[t][a] # "ADMIN" PROVE FALSE
  OBVIOUS
<1>3. Admins(t) = {u}
  BY <1>1, <1>2 DEF Admins
<1>4. Cardinality(Admins(t)) = 1
  BY <1>3, FS_Singleton
<1> QED
  BY <1>1, <1>2, <1>4

LEMMA AdminStep ==
  ASSUME TeamInv, NEW r \in Requests, TeamStep(r)
  PROVE  TeamHasAdmin'
<1> USE DEF TeamInv, Admins
<1> SUFFICES ASSUME Quiet' PROVE \A t \in made' : \E a \in Users : role'[t][a] = "ADMIN"
  BY DEF TeamHasAdmin, Quiet
<1>0. Quiet /\ \A t \in made : \E a \in Users : role[t][a] = "ADMIN"
  BY StepsApart DEF TeamHasAdmin, Quiet
<1>1. CASE UNCHANGED << made, role >>
  BY <1>0, <1>1
<1>2. CASE InsertTeam(r)
  <2>1. request[r].user \in Users
    BY <1>2 DEF InsertTeam, At, TeamTypeOK, Founding, Idle, Jobs, Steps
  <2>2. PICK t \in Teams \ made :
          made' = made \cup {t} /\ role' = [role EXCEPT ![t][request[r].user] = "ADMIN"]
    BY <1>2 DEF InsertTeam
  <2>3. role'[t][request[r].user] = "ADMIN"
    BY <2>1, <2>2 DEF TeamTypeOK
  <2>4. \A v \in made : role'[v] = role[v]
    BY <2>2 DEF TeamTypeOK
  <2> QED
    BY <1>0, <2>1, <2>2, <2>3, <2>4
<1>3. CASE InsertMember(r)
  <2>1. request[r] \in Jobs
    BY <1>3, AtJob DEF InsertMember, At
  <2> QED
    BY <1>0, <1>3, <2>1 DEF InsertMember, TeamTypeOK, Jobs
<1>4. CASE WriteRole(r)
  <2>1. request[r] \in Jobs
    BY <1>4, AtJob DEF WriteRole, At
  <2>2. \E a \in Users \ {request[r].user} : role[request[r].team][a] = "ADMIN"
    BY <1>0, <1>4 DEF WriteRole, At, Kept, AnotherAdmin
  <2>3. \/ role' = role
        \/ role' = [role EXCEPT ![request[r].team][request[r].user] = request[r].to]
    BY <1>4 DEF WriteRole
  <2>4. made' = made
    BY <1>4 DEF WriteRole
  <2>5. CASE role' = role
    BY <1>0, <2>4, <2>5
  <2>6. CASE role' = [role EXCEPT ![request[r].team][request[r].user] = request[r].to]
    <3>1. \A t \in Teams, a \in Users :
            ~(t = request[r].team /\ a = request[r].user) => role'[t][a] = role[t][a]
      BY <2>6 DEF TeamTypeOK
    <3>2. PICK b \in Users \ {request[r].user} : role[request[r].team][b] = "ADMIN"
      BY <2>2
    <3>3. role'[request[r].team][b] = "ADMIN"
      BY <2>1, <3>1, <3>2, AtJob, <1>4 DEF WriteRole, At
    <3>4. \A t \in made \ {request[r].team} : role'[t] = role[t]
      BY <2>6 DEF TeamTypeOK
    <3>5. ASSUME NEW t \in made PROVE \E a \in Users : role'[t][a] = "ADMIN"
      BY <1>0, <3>2, <3>3, <3>4
    <3> QED
      BY <2>4, <3>5
  <2> QED
    BY <2>3, <2>5, <2>6
<1>5. CASE DeleteMember(r)
  <2>1. request[r] \in Jobs
    BY <1>5, AtJob DEF DeleteMember, At
  <2>2. \E a \in Users \ {request[r].user} : role[request[r].team][a] = "ADMIN"
    BY <1>0, <1>5 DEF DeleteMember, At, Kept, AnotherAdmin
  <2> QED
    BY <1>0, <1>5, <2>1, <2>2 DEF DeleteMember, TeamTypeOK, Jobs
<1> QED
  BY <1>1, <1>2, <1>3, <1>4, <1>5, ZenonT(60)
     DEF TeamStep, NewRequest, CreateTeam, Invite, ReadInvitee, InsertInvite,
     Uninvite, DeleteInvite, Accept, CreateClient, GrantDomains, ConsumeInvite, SetRole, Remove,
     FindMember, CountAdmins, ClearDomains, SetDomains, WriteDomains, Die, Begin, memberRows

LEMMA InvitingStep ==
  ASSUME TeamInv, NEW r \in Requests, TeamStep(r)
  PROVE  InvitingMade'
<1> USE DEF TeamInv, InvitingMade
<1>1. CASE invites' \subseteq invites /\ made \subseteq made'
  BY <1>1
<1>2. CASE InsertInvite(r)
  BY <1>2 DEF InsertInvite, At, Kept, TeamMade
<1> QED
  BY <1>1, <1>2, ZenonT(60)
     DEF TeamStep, NewRequest, CreateTeam, InsertTeam, Invite, ReadInvitee, Uninvite, DeleteInvite,
     Accept, CreateClient, InsertMember, GrantDomains, ConsumeInvite, SetRole, Remove, FindMember,
     CountAdmins, WriteRole, ClearDomains, DeleteMember, SetDomains, WriteDomains, Die, Begin,
     memberRows

LEMMA KeptStep ==
  ASSUME TeamInv, NEW r \in Requests, TeamStep(r)
  PROVE  Kept(r)'
<1> USE DEF TeamInv, TeamTypeOK, Kept, TeamMade, RoleGiven, AsRead, AnotherAdmin
<1>0. Quiet' => Quiet
  BY StepsApart
<1>1. CASE request'[r] = Idle
  BY <1>1 DEF Idle
<1>2. ASSUME NEW u \in Users, Begin(r, Founding(u)) PROVE Kept(r)'
  BY <1>2 DEF Begin, Founding
<1>3. ASSUME NEW job, Begin(r, job), job.team \in made,
             job.pc \in {"readInvitee", "insertInvite"} => job.to \in Roles,
             job.pc \notin {"countAdmins", "writeRole", "deleteMember"}
      PROVE  Kept(r)'
  <2>1. request'[r] = job /\ made' = made
    BY <1>3 DEF Begin, memberRows
  <2> QED
    BY <1>3, <2>1
<1>4. ASSUME NEW step \in Steps \ {"countAdmins", "writeRole", "deleteMember"},
             request[r] \in Jobs, Move(r, step), request[r].team \in made', 
             step \in {"readInvitee", "insertInvite"} => request[r].to \in Roles
      PROVE  Kept(r)'
  BY <1>4 DEF Move
<1>5. CASE InsertTeam(r) \/ InsertInvite(r) \/ DeleteInvite(r) \/ ConsumeInvite(r)
           \/ DeleteMember(r) \/ WriteDomains(r) \/ Die(r)
  BY <1>5, <1>1 DEF InsertTeam, InsertInvite, DeleteInvite, ConsumeInvite, DeleteMember,
     WriteDomains, Die, End
<1>6. CASE CreateTeam(r)
  BY <1>6, <1>2 DEF CreateTeam
<1>7. CASE Invite(r)
  BY <1>7, <1>3 DEF Invite, Job, Admins
<1>8. CASE Uninvite(r)
  BY <1>8, <1>3 DEF Uninvite, Job, InvitingMade
<1>9. CASE Accept(r)
  BY <1>9, <1>3 DEF Accept, Job, InvitingMade
<1>10. CASE CreateClient(r)
  BY <1>10, <1>3 DEF CreateClient, Job
<1>11. CASE SetRole(r)
  BY <1>11, <1>3 DEF SetRole, Job, Admins
<1>12. CASE Remove(r)
  BY <1>12, <1>3, ZenonT(60) DEF Remove, Job, Admins
<1>13. CASE SetDomains(r)
  BY <1>13, <1>3 DEF SetDomains, Job
<1>14. CASE ReadInvitee(r)
  <2>1. \/ request'[r] = Idle
        \/ Move(r, "insertInvite") /\ made' = made
    BY <1>14 DEF ReadInvitee, Then, End, memberRows
  <2> QED
    BY <1>14, <1>1, <1>4, <2>1, AtJob DEF ReadInvitee, At, Steps
<1>15. CASE InsertMember(r) \/ GrantDomains(r) \/ ClearDomains(r)
  <2>1. \/ request'[r] = Idle
        \/ \E step \in {"grant", "consume"} : Move(r, step) /\ made' = made
    BY <1>15 DEF InsertMember, GrantDomains, ClearDomains, Then, End
  <2> QED
    BY <1>15, <1>1, <1>4, <2>1, AtJob, ZenonT(60)
       DEF InsertMember, GrantDomains, ClearDomains, At, Steps
<1>16. CASE WriteRole(r)
  <2>1. \/ request'[r] = Idle
        \/ Move(r, "clear") /\ made' = made
    BY <1>16 DEF WriteRole, Then, End
  <2> QED
    BY <1>16, <1>1, <1>4, <2>1, AtJob DEF WriteRole, At, Steps
<1>17. CASE FindMember(r)
  <2> DEFINE was == role[request[r].team][request[r].user]
  <2>1. CASE was = "none"
    BY <1>17, <1>1, <2>1 DEF FindMember
  <2>2. CASE was # "none"
    <3>1. request'[r] = [request[r] EXCEPT !.pc = "countAdmins", !.was = was]
      BY <1>17, <2>2 DEF FindMember
    <3>2. request[r] \in Jobs
      BY <1>17, AtJob DEF FindMember, At
    <3>3. request'[r].pc = "countAdmins" /\ request'[r].was = was
          /\ request'[r].team = request[r].team /\ request'[r].user = request[r].user
      BY <3>1, <3>2 DEF Jobs
    <3>4. role' = role /\ made' = made
      BY <1>17 DEF FindMember, memberRows
    <3>5. request[r].team \in made
      BY <1>17 DEF FindMember, At
    <3> QED
      BY <2>2, <3>3, <3>4, <3>5
  <2> QED
    BY <2>1, <2>2
<1>18. CASE CountAdmins(r)
  <2> DEFINE t == request[r].team
             u == request[r].user
  <2>1. /\ request[r] \in Jobs /\ t \in made /\ u \in Users
        /\ Quiet => request[r].was = role[t][u]
    BY <1>18, AtJob DEF CountAdmins, At
  <2>2. CASE Cardinality(Admins(t)) = 1 /\ request[r].was = "ADMIN"
    BY <1>18, <1>1, <2>2 DEF CountAdmins, End
  <2>3. CASE ~(Cardinality(Admins(t)) = 1 /\ request[r].was = "ADMIN")
    <3>1. PICK step \in {"deleteMember", "writeRole"} : Move(r, step)
      BY <1>18, <2>3 DEF CountAdmins
    <3>2. request'[r].pc = step /\ request'[r].team = t /\ request'[r].user = u
      BY <2>1, <3>1 DEF Move, Jobs
    <3>3. Quiet => \E a \in Users \ {u} : role[t][a] = "ADMIN"
      BY <2>1, <2>3, OthersRemain
    <3>4. role' = role /\ made' = made
      BY <1>18 DEF CountAdmins, memberRows
    <3> QED
      BY <1>0, <2>1, <3>2, <3>3, <3>4
  <2> QED
    BY <2>2, <2>3
<1> QED
  BY <1>5, <1>6, <1>7, <1>8, <1>9, <1>10, <1>11, <1>12, <1>13, <1>14, <1>15, <1>16, <1>17,
     <1>18, ZenonT(60) DEF TeamStep, NewRequest

LEMMA TeamInvInit == TeamInit => TeamInv
<1> SUFFICES ASSUME TeamInit PROVE TeamInv
  OBVIOUS
<1>1. TeamTypeOK
  BY DEF TeamInit, TeamTypeOK
<1>2. TeamHasAdmin
  BY DEF TeamInit, TeamHasAdmin, Admins
<1> QED
  BY <1>1, <1>2 DEF TeamInit, TeamInv, Alone, Pending, InvitingMade, Kept, TeamMade, RoleGiven,
     AsRead, AnotherAdmin, Idle

LEMMA TeamInvNext == TeamInv /\ [TeamNext]_teamVars => TeamInv'
<1> SUFFICES ASSUME TeamInv, [TeamNext]_teamVars PROVE TeamInv'
  OBVIOUS
<1>1. CASE UNCHANGED teamVars
  BY <1>1 DEF teamVars, TeamInv, TeamTypeOK, Alone, Pending, TeamHasAdmin, Admins, InvitingMade,
     Kept, TeamMade, RoleGiven, AsRead, AnotherAdmin, Quiet
<1>2. ASSUME NEW r \in Requests, TeamStep(r) PROVE TeamInv'
  <2>1. TeamTypeOK' /\ TeamHasAdmin' /\ InvitingMade' /\ Kept(r)'
    BY <1>2, TypeStep, AdminStep, InvitingStep, KeptStep DEF TeamInv, Kept
  <2>2. /\ \A q \in Requests \ {r} : request'[q] = request[q]
        /\ Quiet' => \A q \in Requests \ {r} : ~Pending(q)
    BY <1>2, StepsApart, StepsAlone DEF TeamInv
  <2>3. (Quiet => Alone)'
    BY <2>2 DEF Alone, Pending
  <2>4. made \subseteq made'
    BY <1>2, ZenonT(60)
       DEF TeamStep, NewRequest, CreateTeam, InsertTeam, Invite, ReadInvitee, InsertInvite, Uninvite,
       DeleteInvite, Accept, CreateClient, InsertMember, GrantDomains, ConsumeInvite, SetRole,
       Remove, FindMember, CountAdmins, WriteRole, ClearDomains, DeleteMember, SetDomains,
       WriteDomains, Die, Begin, memberRows
  <2>5. \A q \in Requests \ {r} : Kept(q)'
    BY <2>2, <2>4 DEF TeamInv, Pending, Kept, TeamMade, RoleGiven, AsRead, AnotherAdmin
  <2> QED
    BY <2>1, <2>3, <2>5 DEF TeamInv
<1> QED
  BY <1>1, <1>2 DEF TeamNext

(***************************************************************************)
(* The rows have their types, and updateTeamUserRole and deleteTeamUser    *)
(* leave every team an admin as long as no two requests have overlapped.   *)
(***************************************************************************)
THEOREM TeamKeepsAdmin == TeamSpec => [](TeamTypeOK /\ TeamHasAdmin)
<1>1. TeamInv => TeamTypeOK /\ TeamHasAdmin
  BY DEF TeamInv
<1> QED
  BY <1>1, TeamInvInit, TeamInvNext, PTL DEF TeamSpec

-----------------------------------------------------------------------------
(***************************************************************************)
(* What one team for each user rests on while no requests have overlapped: *)
(* whoever founds a team or becomes a client is in none when the row is    *)
(* inserted, and who comes by an invitation is remembered.                 *)
(***************************************************************************)
Single(u) == \A t, v \in TeamsOf(u) : t = v
LetIn(u) == \E i \in InviteIds : u \in Range(joined[i])

Teamless(r) ==
  Quiet /\ \/ request[r].pc = "insertTeam"
           \/ request[r].pc = "insertMember" /\ request[r].inv = 0
    => TeamsOf(request[r].user) = {}

OneTeam ==
  /\ Quiet => \A u \in Users : Single(u) \/ LetIn(u)
  /\ \A r \in Requests : Teamless(r)

(***************************************************************************)
(* What the one use of an invitation rests on while nothing has happened:  *)
(* one that is there has let nobody in, unless the request that it let in  *)
(* is about to consume it.                                                 *)
(***************************************************************************)
Consuming(i) ==
  \E r \in Requests : request[r].pc \in {"grant", "consume"} /\ request[r].inv = i

OneUse ==
  suffered = {} =>
    /\ InvitationUsedOnce
    /\ \A i \in invites : joined[i.id] = << >> \/ Consuming(i.id)
    /\ \A r \in Requests :
         request[r].pc = "insertMember" /\ request[r].inv # 0 => joined[request[r].inv] = << >>

(***************************************************************************)
(* What access rests on, whatever happens: who holds a domain is a CLIENT  *)
(* of its team, or was removed or changed, and the request that changed    *)
(* the role goes on to clear the domains unless it was disturbed.  A       *)
(* request is about domains of its team, and about none but for a CLIENT.  *)
(***************************************************************************)
Held(u, t) ==
  \/ role[t][u] = "CLIENT"
  \/ <<u, t, "removed">> \in former
  \/ <<u, t, "changed">> \in former /\ suffered # {}

Clearing(u, t) ==
  \E r \in Requests : request[r].pc = "clear" /\ request[r].user = u /\ request[r].team = t

DomainsMeant(r) ==
  request[r].pc \notin {"idle", "insertTeam"} =>
    /\ request[r].doms \subseteq DomainsOf(request[r].team)
    /\ request[r].pc \in {"findMember", "countAdmins", "writeRole", "clear"}
         => request[r].to = "CLIENT" \/ request[r].doms = {}

MayHold(r) ==
  (\/ request[r].pc = "grant"
   \/ request[r].pc \in {"writeDomains", "clear"} /\ request[r].to = "CLIENT")
    => Held(request[r].user, request[r].team)

RoleWritten(r) ==
  request[r].pc = "clear" => <<request[r].user, request[r].team, "changed">> \in former

Granted(r) == DomainsMeant(r) /\ MayHold(r) /\ RoleWritten(r)

AccessKept ==
  /\ \A i \in invites : i.doms \subseteq DomainsOf(i.team)
  /\ \A a \in access : Held(a[1], Home[a[2]]) \/ Clearing(a[1], Home[a[2]])
  /\ \A r \in Requests : Granted(r)

OrderInv == TeamInv /\ OneTeam /\ OneUse /\ AccessKept


(***************************************************************************)
(* What a step changes.                                                    *)
(***************************************************************************)
LEMMA HistoryGrows ==
  ASSUME NEW r \in Requests, TeamStep(r)
  PROVE  former \subseteq former' /\ suffered \subseteq suffered'
  BY ZenonT(60)
     DEF TeamStep, NewRequest, CreateTeam, InsertTeam, Invite, ReadInvitee, InsertInvite, Uninvite,
     DeleteInvite, Accept, CreateClient, InsertMember, GrantDomains, ConsumeInvite, SetRole,
     Remove, FindMember, CountAdmins, WriteRole, ClearDomains, DeleteMember, SetDomains,
     WriteDomains, Die, Begin, Move, End, Then, Suffer, memberRows

LEMMA WhoChanges ==
  ASSUME NEW r \in Requests, TeamStep(r)
  PROVE  /\ \/ role' = role
            \/ InsertTeam(r) \/ InsertMember(r) \/ WriteRole(r) \/ DeleteMember(r)
         /\ joined' = joined \/ InsertMember(r)
         /\ invites' \subseteq invites \/ InsertInvite(r)
         /\ access' \subseteq access \/ GrantDomains(r) \/ WriteDomains(r)
  BY ZenonT(60)
     DEF TeamStep, NewRequest, CreateTeam, InsertTeam, Invite, ReadInvitee, InsertInvite, Uninvite,
     DeleteInvite, Accept, CreateClient, InsertMember, GrantDomains, ConsumeInvite, SetRole,
     Remove, FindMember, CountAdmins, WriteRole, ClearDomains, DeleteMember, SetDomains,
     WriteDomains, Die, Begin, memberRows

LEMMA OthersIdle ==
  ASSUME TeamInv, NEW r \in Requests, TeamStep(r), NEW q \in Requests \ {r},
         Quiet' \/ suffered' = {}
  PROVE  request'[q] = request[q] /\ request[q].pc = "idle"
<1>1. Quiet'
  BY DEF Quiet
<1> QED
  BY <1>1, StepsApart, StepsAlone DEF TeamInv, Pending

LEMMA JobFields ==
  \A pc, t, u, to, doms, inv :
    /\ Job(pc, t, u, to, doms, inv).pc = pc
    /\ Job(pc, t, u, to, doms, inv).team = t /\ Job(pc, t, u, to, doms, inv).user = u
    /\ Job(pc, t, u, to, doms, inv).to = to /\ Job(pc, t, u, to, doms, inv).doms = doms
    /\ Job(pc, t, u, to, doms, inv).inv = inv
  BY DEF Job

\* A request that goes on.
LEMMA GoesOn ==
  ASSUME TeamTypeOK, NEW r \in Requests, TeamStep(r), Pending(r), request'[r] # Idle
  PROVE  /\ request[r] \in Jobs
         /\ request'[r].pc \in {"insertInvite", "countAdmins", "deleteMember", "writeRole",
                                "clear", "grant", "consume"}
         /\ request'[r].team = request[r].team /\ request'[r].user = request[r].user
         /\ request'[r].to = request[r].to /\ request'[r].doms = request[r].doms
         /\ request'[r].inv = request[r].inv
<1>1. ASSUME NEW step, request[r] \in Jobs, Move(r, step)
      PROVE  /\ request'[r].pc = step
             /\ request'[r].team = request[r].team /\ request'[r].user = request[r].user
             /\ request'[r].to = request[r].to /\ request'[r].doms = request[r].doms
             /\ request'[r].inv = request[r].inv
  BY <1>1 DEF Move, TeamTypeOK, Jobs
<1>2. End(r) => request'[r] = Idle
  BY DEF End, TeamTypeOK
<1>3. CASE ReadInvitee(r) \/ InsertMember(r) \/ GrantDomains(r) \/ CountAdmins(r)
           \/ WriteRole(r) \/ ClearDomains(r)
  <2>1. request[r] \in Jobs
    BY <1>3, AtJob, ZenonT(60) DEF ReadInvitee, InsertMember, GrantDomains, CountAdmins, WriteRole,
       ClearDomains, At
  <2>2. PICK step \in {"insertInvite", "countAdmins", "deleteMember", "writeRole", "clear",
                       "grant", "consume"} : Move(r, step)
    BY <1>2, <1>3, ZenonT(60) DEF ReadInvitee, InsertMember, GrantDomains, CountAdmins, WriteRole,
       ClearDomains, Then
  <2> QED
    BY <1>1, <2>1, <2>2
<1>4. CASE FindMember(r)
  <2>1. request[r] \in Jobs
    BY <1>4, AtJob DEF FindMember, At
  <2>2. request'[r] = [request[r] EXCEPT !.pc = "countAdmins",
                                         !.was = role[request[r].team][request[r].user]]
    BY <1>4 DEF FindMember, TeamTypeOK
  <2> QED
    BY <2>1, <2>2 DEF Jobs
<1>5. CASE InsertTeam(r) \/ InsertInvite(r) \/ DeleteInvite(r) \/ ConsumeInvite(r)
           \/ DeleteMember(r) \/ WriteDomains(r) \/ Die(r)
  BY <1>2, <1>5 DEF InsertTeam, InsertInvite, DeleteInvite, ConsumeInvite, DeleteMember,
     WriteDomains, Die, TeamTypeOK
<1>6. ~NewRequest(r)
  BY DEF NewRequest
<1> QED
  BY <1>3, <1>4, <1>5, <1>6 DEF TeamStep

\* A request that begins.
LEMMA Begins ==
  ASSUME NEW r \in Requests, TeamStep(r), ~Pending(r)
  PROVE  /\ NewRequest(r)
         /\ role' = role /\ access' = access /\ invites' = invites /\ joined' = joined
         /\ former' = former
<1>1. NewRequest(r)
  BY ZenonT(60) DEF TeamStep, InsertTeam, ReadInvitee, InsertInvite, DeleteInvite, InsertMember,
     GrantDomains, ConsumeInvite, FindMember, CountAdmins, WriteRole, ClearDomains,
     DeleteMember, WriteDomains, Die, At, Pending
<1> QED
  BY <1>1, ZenonT(60)
     DEF NewRequest, CreateTeam, Invite, Uninvite, Accept, CreateClient, SetRole, Remove,
     SetDomains, Begin, memberRows

\* The row of one member after a step.
LEMMA RoleAfter ==
  ASSUME TeamTypeOK, NEW r \in Requests, TeamStep(r), NEW t \in Teams, NEW u \in Users,
         role'[t][u] # role[t][u]
  PROVE  /\ request[r].user = u
         /\ \/ /\ request[r].pc = "insertTeam" /\ InsertTeam(r)
               /\ t \notin made /\ role[t][u] = "none"
            \/ /\ request[r] \in Jobs /\ request[r].team = t
               /\ \/ /\ request[r].pc = "insertMember" /\ InsertMember(r)
                     /\ role[t][u] = "none" /\ role'[t][u] = request[r].to
                  \/ /\ request[r].pc = "writeRole" /\ WriteRole(r)
                     /\ role[t][u] # "none" /\ role'[t][u] = request[r].to
                  \/ /\ request[r].pc = "deleteMember" /\ DeleteMember(r)
                     /\ role'[t][u] = "none"
<1>1. CASE InsertTeam(r)
  <2>1. PICK v \in Teams \ made : role' = [role EXCEPT ![v][request[r].user] = "ADMIN"]
    BY <1>1 DEF InsertTeam
  <2>2. v = t /\ request[r].user = u
    BY <2>1 DEF TeamTypeOK
  <2> QED
    BY <1>1, <2>1, <2>2 DEF TeamTypeOK, InsertTeam, At
<1>2. CASE InsertMember(r) \/ WriteRole(r) \/ DeleteMember(r)
  <2> DEFINE v == request[r].team
             w == request[r].user
  <2>1. request[r] \in Jobs /\ v \in Teams /\ w \in Users
    BY <1>2, AtJob, ZenonT(60) DEF InsertMember, WriteRole, DeleteMember, At
  <2>2. ASSUME NEW to, role' = [role EXCEPT ![v][w] = to]
        PROVE  v = t /\ w = u /\ role'[t][u] = to
    BY <2>1, <2>2 DEF TeamTypeOK
  <2> QED
    BY <1>2, <2>1, <2>2, ZenonT(60) DEF InsertMember, WriteRole, DeleteMember, At
<1> QED
  BY <1>1, <1>2, WhoChanges

-----------------------------------------------------------------------------
(***************************************************************************)
(* One team each.                                                          *)
(***************************************************************************)
LEMMA LetInStays ==
  ASSUME TeamTypeOK, NEW r \in Requests, TeamStep(r), NEW u, LetIn(u)
  PROVE  LetIn(u)'
<1>1. PICK i \in InviteIds : u \in Range(joined[i])
  BY DEF LetIn
<1>2. CASE joined'[i] = joined[i]
  BY <1>1, <1>2 DEF LetIn
<1>3. CASE joined'[i] # joined[i]
  <2>1. InsertMember(r) /\ request[r] \in Jobs
    BY <1>3, WhoChanges, AtJob DEF InsertMember, At
  <2>2. joined'[i] = Append(joined[i], request[r].user) /\ joined[i] \in Seq(Users)
    BY <1>3, <2>1 DEF InsertMember, TeamTypeOK, Jobs
  <2>3. PICK n \in DOMAIN joined[i] : joined[i][n] = u
    BY <1>1 DEF Range
  <2>4. n \in DOMAIN joined'[i] /\ joined'[i][n] = u
    BY <2>2, <2>3
  <2> QED
    BY <1>1, <2>4 DEF LetIn, Range
<1> QED
  BY <1>2, <1>3

LEMMA OneTeamStep ==
  ASSUME TeamInv, OneTeam, NEW r \in Requests, TeamStep(r)
  PROVE  OneTeam'
<1> USE DEF TeamInv
<1>0. Quiet' => Quiet
  BY StepsApart
<1>1. ASSUME Quiet', NEW u \in Users PROVE (Single(u) \/ LetIn(u))'
  <2>1. CASE LetIn(u)
    BY <2>1, LetInStays
  <2>2. CASE Single(u) /\ \A t \in Teams : role[t][u] = "none" => role'[t][u] = "none"
    BY <2>2 DEF Single, TeamsOf
  <2>3. ASSUME Single(u), NEW t \in Teams, role[t][u] = "none", role'[t][u] # "none"
        PROVE  (Single(u) \/ LetIn(u))'
    <3>1. /\ request[r].user = u
          /\ \/ request[r].pc = "insertTeam" /\ InsertTeam(r)
             \/ /\ request[r].pc = "insertMember" /\ InsertMember(r)
                /\ request[r] \in Jobs /\ request[r].team = t
      BY <2>3, RoleAfter
    <3>3. CASE TeamsOf(u) = {}
      <4>1. \A v \in Teams : role'[v][u] # "none" => v = t
        <5>1. SUFFICES ASSUME NEW v \in Teams, role'[v][u] # "none" PROVE v = t
          OBVIOUS
        <5>2. role[v][u] = "none"
          BY <3>3 DEF TeamsOf
        <5>3. CASE request[r].pc = "insertMember"
          BY <3>1, <5>1, <5>2, <5>3, RoleAfter
        <5>4. CASE InsertTeam(r)
          <6>1. PICK w \in Teams \ made : role' = [role EXCEPT ![w][request[r].user] = "ADMIN"]
            BY <5>4 DEF InsertTeam
          <6> QED
            BY <2>3, <5>1, <5>2, <6>1 DEF TeamTypeOK
        <5> QED
          BY <3>1, <5>3, <5>4
      <4> QED
        BY <4>1 DEF Single, TeamsOf
    <3>4. CASE TeamsOf(u) # {}
      <4>1. InsertMember(r) /\ request[r].inv # 0 /\ request[r] \in Jobs
        BY <1>0, <1>1, <3>1, <3>4 DEF OneTeam, Teamless
      <4> DEFINE i == request[r].inv
      <4>2. /\ i \in InviteIds /\ joined[i] \in Seq(Users)
            /\ joined' = [joined EXCEPT ![i] = Append(@, u)]
        BY <2>3, <3>1, <4>1 DEF InsertMember, Jobs, TeamTypeOK, InviteIds
      <4>3. joined'[i] = Append(joined[i], u)
        BY <4>2 DEF TeamTypeOK
      <4>4. Len(joined[i]) + 1 \in DOMAIN joined'[i] /\ joined'[i][Len(joined[i]) + 1] = u
        BY <4>2, <4>3
      <4> QED
        BY <4>2, <4>4 DEF LetIn, Range
    <3> QED
      BY <3>3, <3>4
  <2> QED
    BY <1>0, <1>1, <2>1, <2>2, <2>3 DEF OneTeam
<1>2. Teamless(r)'
  <2>1. SUFFICES ASSUME Quiet', request'[r].pc \in {"insertTeam", "insertMember"},
                        request'[r].pc = "insertMember" => request'[r].inv = 0
                 PROVE  TeamsOf(request[r].user)' = {}
    BY DEF Teamless
  <2>2. CASE ~Pending(r)
    <3>1. NewRequest(r) /\ role' = role
      BY <2>2, Begins
    <3>2. ASSUME NEW job, Begin(r, job) PROVE request'[r] = job
      BY <3>2 DEF Begin, TeamTypeOK
    <3>3. ~Accept(r)
      <4>1. SUFFICES ASSUME Accept(r) PROVE FALSE
        OBVIOUS
      <4>2. PICK i \in invites, u \in Users :
              request'[r] = Job("insertMember", i.team, u, i.role, i.doms, i.id)
        BY <3>2, <4>1 DEF Accept
      <4> QED
        BY <2>1, <4>2 DEF Job, TeamTypeOK, Invites, InviteIds
    <3>7. ~(Invite(r) \/ Uninvite(r) \/ SetRole(r) \/ Remove(r) \/ SetDomains(r))
      BY <2>1, <3>2, JobFields DEF Invite, Uninvite, SetRole, Remove, SetDomains
    <3>4. CASE CreateTeam(r)
      BY <3>1, <3>2, <3>4 DEF CreateTeam, Founding, TeamsOf
    <3>5. CASE CreateClient(r)
      BY <2>1, <3>1, <3>2, <3>5 DEF CreateClient, Job, TeamsOf
    <3> QED
      BY <3>1, <3>3, <3>4, <3>5, <3>7 DEF NewRequest
  <2>3. CASE Pending(r)
    BY <2>1, <2>3, GoesOn DEF Idle
  <2> QED
    BY <2>2, <2>3
<1>3. \A q \in Requests \ {r} : Teamless(q)'
  BY OthersIdle DEF Teamless
<1> QED
  BY <1>1, <1>2, <1>3 DEF OneTeam

-----------------------------------------------------------------------------
(***************************************************************************)
(* An invitation lets in one member.                                       *)
(***************************************************************************)
LEMMA OneUseStep ==
  ASSUME TeamInv, OneUse, NEW r \in Requests, TeamStep(r)
  PROVE  OneUse'
<1> USE DEF TeamInv
<1> SUFFICES ASSUME suffered' = {} PROVE OneUse'
  BY DEF OneUse
<1>0. /\ InvitationUsedOnce /\ suffered = {}
      /\ \A i \in invites : i.id \in InviteIds /\ (joined[i.id] = << >> \/ Consuming(i.id))
      /\ \A q \in Requests :
           request[q].pc = "insertMember" /\ request[q].inv # 0 => joined[request[q].inv] = << >>
  BY HistoryGrows DEF OneUse, TeamTypeOK, Invites
<1>1. \A q \in Requests \ {r} : request'[q] = request[q] /\ request[q].pc = "idle"
  BY OthersIdle
\* Another request consumes nothing.
<1>2. \A i \in invites :
        joined[i.id] = << >> \/ (request[r].pc \in {"grant", "consume"} /\ request[r].inv = i.id)
  <2>1. SUFFICES ASSUME NEW i \in invites, Consuming(i.id)
                 PROVE  request[r].pc \in {"grant", "consume"} /\ request[r].inv = i.id
    BY <1>0
  <2>2. PICK q \in Requests : request[q].pc \in {"grant", "consume"} /\ request[q].inv = i.id
    BY <2>1 DEF Consuming
  <2> QED
    BY <1>1, <2>2
<1>3. SUFFICES /\ \A i \in InviteIds : Len(joined'[i]) <= 1
               /\ \A i \in invites' : joined'[i.id] = << >> \/ Consuming(i.id)'
               /\ request'[r].pc = "insertMember" /\ request'[r].inv # 0
                    => joined'[request'[r].inv] = << >>
  BY <1>1 DEF OneUse, InvitationUsedOnce
<1>4. CASE ~Pending(r)
  <2>1. NewRequest(r) /\ invites' = invites /\ joined' = joined
    BY <1>4, Begins
  <2>2. \A i \in invites : joined[i.id] = << >>
    BY <1>2, <1>4 DEF Pending
  <2>3. ASSUME request'[r].pc = "insertMember" /\ request'[r].inv # 0
        PROVE  joined'[request'[r].inv] = << >>
    <3>1. ASSUME NEW job, Begin(r, job) PROVE request'[r] = job
      BY <3>1 DEF Begin, TeamTypeOK
    <3>2. CASE Accept(r)
      <4>1. PICK i \in invites, u \in Users :
              request'[r] = Job("insertMember", i.team, u, i.role, i.doms, i.id)
        BY <3>1, <3>2 DEF Accept
      <4> QED
        BY <2>1, <2>2, <4>1 DEF Job
    <3>3. ~(Invite(r) \/ Uninvite(r))
      BY <2>3, <3>1, JobFields DEF Invite, Uninvite
    <3>6. ~CreateTeam(r)
      <4>1. \A u : Founding(u).pc = "insertTeam"
        BY DEF Founding
      <4> QED
        BY <2>3, <3>1, <4>1 DEF CreateTeam
    <3>4. ~CreateClient(r)
      BY <2>3, <3>1, JobFields DEF CreateClient
    <3>5. ~(SetRole(r) \/ Remove(r) \/ SetDomains(r))
      BY <2>3, <3>1, JobFields DEF SetRole, Remove, SetDomains
    <3> QED
      BY <2>1, <3>2, <3>3, <3>4, <3>5, <3>6 DEF NewRequest
  <2> QED
    BY <1>0, <2>1, <2>2, <2>3 DEF InvitationUsedOnce
<1>5. CASE InsertMember(r)
  <2> DEFINE n == request[r].inv
  <2>1. request[r] \in Jobs /\ request[r].pc = "insertMember" /\ invites' = invites /\ Pending(r)
    BY <1>5, AtJob DEF InsertMember, At, Pending
  <2>2. \A i \in invites : joined[i.id] = << >>
    BY <1>2, <2>1
  <2>3. request'[r].pc # "insertMember"
    BY <2>1, GoesOn DEF Idle
  <2>4. CASE joined' = joined
    BY <1>0, <2>1, <2>2, <2>3, <2>4 DEF InvitationUsedOnce
  <2>5. CASE joined' # joined
    <3>1. /\ n \in InviteIds /\ request[r].user \in Users
          /\ joined' = [joined EXCEPT ![n] = Append(@, request[r].user)]
      BY <1>5, <2>1, <2>5 DEF InsertMember, Jobs
    <3>2. joined[n] = << >> /\ n # 0
      BY <1>0, <2>1, <3>1 DEF InviteIds
    <3>3. \A i \in InviteIds : Len(joined'[i]) <= 1
      BY <1>0, <3>1, <3>2 DEF TeamTypeOK, InvitationUsedOnce
    <3>4. request'[r].pc \in {"grant", "consume"}
      BY <1>5, <2>1, <2>5, <3>2 DEF InsertMember, Then, Move, TeamTypeOK, Jobs
    <3>5. request'[r].inv = n
      BY <2>1, <3>4, GoesOn DEF Idle
    <3>6. \A i \in InviteIds : joined'[i] = joined[i] \/ i = n
      BY <3>1 DEF TeamTypeOK
    <3> QED
      BY <1>0, <2>1, <2>2, <2>3, <3>3, <3>4, <3>5, <3>6 DEF Consuming
  <2> QED
    BY <2>4, <2>5
<1>6. CASE Pending(r) /\ ~InsertMember(r)
  <2>1. joined' = joined /\ request'[r].pc # "insertMember"
    BY <1>6, WhoChanges, GoesOn DEF Idle
  <2>2. ASSUME NEW i \in invites', joined[i.id] # << >>, i \in invites
        PROVE  Consuming(i.id)'
    <3>1. request[r].pc \in {"grant", "consume"} /\ request[r].inv = i.id /\ i.id # 0
      BY <1>0, <1>2, <2>2 DEF InviteIds
    <3>2. CASE GrantDomains(r)
      <4>1. request'[r].pc = "consume"
        <5>1. request[r] \in Jobs /\ Move(r, "consume")
          BY <3>1, <3>2, AtJob DEF GrantDomains, Then
        <5> QED
          BY <5>1 DEF Move, TeamTypeOK, Jobs
      <4> QED
        BY <1>6, <3>1, <4>1, GoesOn DEF Consuming, Idle
    <3>3. CASE ConsumeInvite(r)
      BY <2>2, <3>1, <3>3 DEF ConsumeInvite
    <3>4. GrantDomains(r) \/ ConsumeInvite(r)
      <4>1. ~Die(r)
        BY DEF Die, Suffer
      <4> QED
        BY <1>6, <3>1, <4>1, ZenonT(60)
           DEF TeamStep, NewRequest, InsertTeam, ReadInvitee, InsertInvite,
           DeleteInvite, InsertMember, FindMember, CountAdmins, WriteRole, ClearDomains,
           DeleteMember, WriteDomains, At
    <3> QED
      BY <3>2, <3>3, <3>4
  <2>3. ASSUME NEW i \in invites', i \notin invites
        PROVE  joined[i.id] = << >>
    BY <2>3, WhoChanges DEF InsertInvite
  <2> QED
    BY <1>0, <2>1, <2>2, <2>3 DEF InvitationUsedOnce
<1> QED
  BY <1>4, <1>5, <1>6

-----------------------------------------------------------------------------
(***************************************************************************)
(* Domains are held by CLIENTs.                                            *)
(***************************************************************************)
LEMMA HeldStays ==
  ASSUME TeamInv, NEW r \in Requests, TeamStep(r), NEW u \in Users, NEW t \in Teams, Held(u, t)
  PROVE  \/ Held(u, t)'
         \/ /\ suffered' = {} /\ WriteRole(r)
            /\ request[r].user = u /\ request[r].team = t
<1> USE DEF TeamInv
<1>1. former \subseteq former' /\ suffered \subseteq suffered'
  BY HistoryGrows
<1>2. CASE <<u, t, "removed">> \in former \/ (<<u, t, "changed">> \in former /\ suffered # {})
  BY <1>1, <1>2 DEF Held
<1>3. CASE role[t][u] = "CLIENT" /\ role'[t][u] # "CLIENT"
  <2>1. /\ request[r].user = u /\ request[r].team = t
        /\ WriteRole(r) \/ DeleteMember(r)
    BY <1>3, RoleAfter
  <2>2. CASE DeleteMember(r)
    BY <2>1, <2>2 DEF DeleteMember, Held
  <2>3. CASE WriteRole(r)
    BY <1>3, <2>1, <2>3 DEF WriteRole, Held
  <2> QED
    BY <2>1, <2>2, <2>3
<1> QED
  BY <1>2, <1>3 DEF Held

LEMMA GrantedStep ==
  ASSUME TeamInv, AccessKept, NEW r \in Requests, TeamStep(r)
  PROVE  \A q \in Requests : Granted(q)'
<1> USE DEF TeamInv
<1>0. /\ \A q \in Requests : Granted(q)
      /\ \A i \in invites : i \in Invites /\ i.doms \subseteq DomainsOf(i.team)
  BY DEF AccessKept, TeamTypeOK
<1>1. ASSUME NEW q \in Requests \ {r} PROVE Granted(q)'
  <2>1. request'[q] = request[q]
    BY StepsApart
  <2>2. DomainsMeant(q)' /\ RoleWritten(q)'
    BY <1>0, <2>1, HistoryGrows DEF Granted, DomainsMeant, RoleWritten
  <2>3. SUFFICES ASSUME request[q].pc \in {"grant", "writeDomains", "clear"},
                        Held(request[q].user, request[q].team)
                 PROVE  Held(request[q].user, request[q].team)'
    BY <1>0, <2>1, <2>2 DEF Granted, MayHold
  <2>4. request[q].user \in Users /\ request[q].team \in Teams
    BY <2>3, AtJob
  <2>5. suffered' # {}
    BY <2>3, OthersIdle
  <2> QED
    BY <2>1, <2>3, <2>4, <2>5, HeldStays DEF Held
<1>2. SUFFICES Granted(r)'
  BY <1>1
<1>3. CASE ~Pending(r)
  <2>1. NewRequest(r) /\ role' = role /\ former' = former
    BY <1>3, Begins
  <2>2. ASSUME NEW job, Begin(r, job) PROVE request'[r] = job
    BY <2>2 DEF Begin, TeamTypeOK
  <2> DEFINE Fine(j) ==
        /\ j.doms \subseteq DomainsOf(j.team)
        /\ j.pc # "clear"
        /\ j.pc = "findMember" => j.to = "CLIENT" \/ j.doms = {}
        /\ j.pc \notin {"countAdmins", "writeRole"}
        /\ j.pc = "grant" \/ (j.pc = "writeDomains" /\ j.to = "CLIENT")
             => role[j.team][j.user] = "CLIENT"
  <2>3. ASSUME Fine(request'[r]) PROVE Granted(r)'
    BY <2>1, <2>3 DEF Granted, DomainsMeant, MayHold, RoleWritten, Held, DomainsOf
  <2>4. CASE CreateTeam(r)
    BY <2>2, <2>4 DEF CreateTeam, Founding, Granted, DomainsMeant, MayHold, RoleWritten, Held, DomainsOf
  <2>5. CASE Invite(r) \/ Uninvite(r)
    BY <2>2, <2>3, <2>5, JobFields DEF Invite, Uninvite
  <2>6. CASE Accept(r)
    BY <1>0, <2>2, <2>3, <2>6, JobFields DEF Accept
  <2>7. CASE CreateClient(r)
    BY <2>2, <2>3, <2>7, JobFields DEF CreateClient
  <2>8. CASE SetRole(r) \/ Remove(r)
    BY <2>2, <2>3, <2>8, JobFields DEF SetRole, Remove
  <2>9. CASE SetDomains(r)
    BY <2>2, <2>3, <2>9, JobFields DEF SetDomains
  <2> QED
    BY <2>1, <2>4, <2>5, <2>6, <2>7, <2>8, <2>9 DEF NewRequest
<1>4. CASE Pending(r) /\ request'[r] = Idle
  BY <1>4 DEF Idle, Granted, DomainsMeant, MayHold, RoleWritten, Held, DomainsOf
<1>5. CASE Pending(r) /\ request'[r] # Idle
  <2> DEFINE u == request[r].user
             t == request[r].team
  <2>1. /\ request[r] \in Jobs
        /\ request'[r].pc \in {"insertInvite", "countAdmins", "deleteMember", "writeRole",
                               "clear", "grant", "consume"}
        /\ request'[r].team = t /\ request'[r].user = u
        /\ request'[r].to = request[r].to /\ request'[r].doms = request[r].doms
    BY <1>5, GoesOn
  <2>2. u \in Users /\ t \in Teams /\ request[r].pc \notin {"idle", "insertTeam"}
    BY <2>1 DEF Jobs, Steps
  <2>3. request[r].doms \subseteq DomainsOf(t)
    BY <1>0, <2>2 DEF Granted, DomainsMeant
  <2>4. CASE request'[r].pc \in {"insertInvite", "deleteMember", "consume"}
    BY <2>1, <2>3, <2>4 DEF Granted, DomainsMeant, MayHold, RoleWritten, DomainsOf, Held
  <2>5. CASE FindMember(r) \/ CountAdmins(r)
    <3>1. request[r].pc \in {"findMember", "countAdmins"}
      BY <2>5 DEF FindMember, CountAdmins, At
    <3>2. request'[r].pc \notin {"clear", "grant"}
      <4>1. CASE FindMember(r)
        BY <1>5, <2>1, <4>1 DEF FindMember, TeamTypeOK, Jobs
      <4>2. CASE CountAdmins(r)
        BY <1>5, <2>1, <4>2 DEF CountAdmins, Move, End, TeamTypeOK, Jobs
      <4> QED
        BY <2>5, <4>1, <4>2
    <3> QED
      BY <1>0, <2>1, <2>3, <3>1, <3>2 DEF Granted, DomainsMeant, MayHold, RoleWritten, DomainsOf, Held
  <2>6. CASE WriteRole(r)
    <3>1. /\ request[r].pc = "writeRole" /\ request'[r].pc = "clear"
          /\ role' = [role EXCEPT ![t][u] = request[r].to]
          /\ <<u, t, "changed">> \in former'
      BY <1>5, <2>1, <2>6 DEF WriteRole, Move, End, TeamTypeOK, Jobs, At
    <3>2. role'[t][u] = request[r].to
      BY <2>2, <3>1 DEF TeamTypeOK
    <3> QED
      BY <1>0, <2>1, <2>3, <3>1, <3>2 DEF Granted, DomainsMeant, MayHold, RoleWritten, DomainsOf, Held
  <2>7. CASE ClearDomains(r)
    <3>1. /\ request[r].pc = "clear" /\ request'[r].pc = "grant" /\ request[r].doms # {}
          /\ role' = role /\ former' = former
      BY <1>5, <2>1, <2>7 DEF ClearDomains, Then, Move, End, TeamTypeOK, Jobs, At
    <3>2. Held(u, t)
      BY <1>0, <3>1 DEF Granted, DomainsMeant, MayHold
    <3> QED
      BY <2>1, <2>3, <3>1, <3>2, HistoryGrows DEF Granted, DomainsMeant, MayHold, RoleWritten, DomainsOf, Held
  <2>8. CASE InsertMember(r) /\ request'[r].pc = "grant"
    <3>1. role'[t][u] = "CLIENT"
      <4>1. role' = [role EXCEPT ![t][u] = request[r].to] /\ request[r].to = "CLIENT"
        BY <1>5, <2>1, <2>8, SMTT(30) DEF InsertMember, Then, Move, End, TeamTypeOK, Jobs
      <4> QED
        BY <2>2, <4>1 DEF TeamTypeOK
    <3> QED
      BY <2>1, <2>3, <2>8, <3>1 DEF Granted, DomainsMeant, MayHold, RoleWritten, DomainsOf, Held
  <2>9. CASE ~(FindMember(r) \/ CountAdmins(r) \/ WriteRole(r) \/ ClearDomains(r))
    <3>1. request'[r].pc \in {"insertInvite", "deleteMember", "consume"}
          \/ (InsertMember(r) /\ request'[r].pc = "grant")
      BY <1>5, <2>1, <2>9, Z3T(30) DEF TeamStep, NewRequest, InsertTeam, ReadInvitee, InsertInvite,
         DeleteInvite, InsertMember, GrantDomains, ConsumeInvite, DeleteMember, WriteDomains,
         Die, Then, Move, End, TeamTypeOK, Jobs
    <3> QED
      BY <2>4, <2>8, <3>1
  <2> QED
    BY <2>5, <2>6, <2>7, <2>9
<1> QED
  BY <1>3, <1>4, <1>5

LEMMA AccessStep ==
  ASSUME TeamInv, AccessKept, NEW r \in Requests, TeamStep(r)
  PROVE  AccessKept'
<1> USE DEF TeamInv
<1>1. \A q \in Requests : Granted(q)'
  BY GrantedStep
<1>2. \A i \in invites' : i.doms \subseteq DomainsOf(i.team)
  <2>1. ASSUME NEW i \in invites', i \notin invites PROVE i.doms \subseteq DomainsOf(i.team)
    <3>1. InsertInvite(r)
      BY <2>1, WhoChanges
    <3>2. request[r].doms \subseteq DomainsOf(request[r].team)
      BY <3>1 DEF InsertInvite, At, AccessKept, Granted, DomainsMeant
    <3>3. i.doms = request[r].doms /\ i.team = request[r].team
      BY <2>1, <3>1 DEF InsertInvite
    <3> QED
      BY <3>2, <3>3
  <2> QED
    BY <2>1 DEF AccessKept
<1>3. ASSUME NEW a \in access'
      PROVE  Held(a[1], Home[a[2]])' \/ Clearing(a[1], Home[a[2]])'
  <2> DEFINE u == a[1]
             t == Home[a[2]]
  <2>0. /\ u \in Users /\ a[2] \in Domains /\ t \in Teams /\ a = <<u, a[2]>>
    <3>1. TeamTypeOK'
      BY TypeStep DEF Kept
    <3> QED
      BY <1>3, <3>1 DEF TeamTypeOK, TeamAssumption
  <2>1. CASE Held(u, t)
    <3>1. SUFFICES ASSUME ~Held(u, t)' PROVE Clearing(u, t)'
      OBVIOUS
    <3>2. WriteRole(r) /\ request[r].user = u /\ request[r].team = t
      BY <2>0, <2>1, <3>1, HeldStays
    <3>3. request'[r] # Idle
      <4>1. role'[t][u] # role[t][u]
        BY <2>1, <3>1, HistoryGrows DEF Held
      <4>2. Move(r, "clear") /\ request[r] \in Jobs
        BY <3>2, <4>1, AtJob DEF WriteRole, At
      <4> QED
        BY <4>2 DEF Move, TeamTypeOK, Jobs, Idle
    <3>4. request'[r].pc = "clear" /\ request'[r].user = u /\ request'[r].team = t
      BY <3>2, <3>3, GoesOn DEF WriteRole, At, Pending, Move, End, TeamTypeOK, Jobs
    <3> QED
      BY <3>4 DEF Clearing
  <2>2. CASE a \in access /\ Clearing(u, t)
    <3>1. PICK q \in Requests :
            request[q].pc = "clear" /\ request[q].user = u /\ request[q].team = t
      BY <2>2 DEF Clearing
    <3>2. CASE q # r
      BY <3>1, <3>2, StepsApart DEF Clearing
    <3>3. CASE q = r
      <4>1. ClearDomains(r) \/ Die(r)
        BY <3>1, <3>3, ZenonT(60) DEF TeamStep, NewRequest, InsertTeam, ReadInvitee, InsertInvite,
           DeleteInvite, InsertMember, GrantDomains, ConsumeInvite, FindMember, CountAdmins,
           WriteRole, DeleteMember, WriteDomains, At, Pending
      <4>2. ~ClearDomains(r)
        BY <2>0, <3>1, <3>3 DEF ClearDomains, DomainsOf
      <4>3. <<u, t, "changed">> \in former
        BY <3>1, <3>3 DEF AccessKept, Granted, RoleWritten
      <4>4. suffered' # {}
        BY <4>1, <4>2 DEF Die, Suffer
      <4> QED
        BY <4>3, <4>4, HistoryGrows DEF Held
    <3> QED
      BY <3>2, <3>3
  <2>3. CASE a \notin access
    <3>1. \/ GrantDomains(r) /\ request[r].pc = "grant"
          \/ WriteDomains(r) /\ request[r].pc = "writeDomains"
      BY <2>3, WhoChanges DEF GrantDomains, WriteDomains, At
    <3>2. /\ u = request[r].user /\ a[2] \in request[r].doms
          /\ request[r].pc = "grant" \/ request[r].to = "CLIENT"
          /\ role' = role
      BY <2>3, <3>1 DEF GrantDomains, WriteDomains
    <3>3. Held(request[r].user, request[r].team) /\ request[r].doms \subseteq DomainsOf(request[r].team)
      BY <3>1, <3>2 DEF AccessKept, Granted, MayHold, DomainsMeant
    <3>4. t = request[r].team
      BY <3>2, <3>3 DEF DomainsOf
    <3> QED
      BY <3>2, <3>3, <3>4, HistoryGrows DEF Held
  <2> QED
    BY <2>1, <2>2, <2>3 DEF AccessKept
<1> QED
  BY <1>1, <1>2, <1>3 DEF AccessKept, DomainsOf

-----------------------------------------------------------------------------
LEMMA OrderInit == TeamInit => OrderInv
<1> SUFFICES ASSUME TeamInit PROVE OrderInv
  OBVIOUS
<1>1. TeamInv
  BY TeamInvInit
<1>2. OneTeam
  BY StartAssumption DEF TeamInit, OneTeam, Single, TeamsOf, Teamless, Idle
<1>3. OneUse
  BY DEF TeamInit, OneUse, InvitationUsedOnce, Idle
<1>4. AccessKept
  BY DEF TeamInit, AccessKept, Granted, DomainsMeant, MayHold, RoleWritten, Idle
<1> QED
  BY <1>1, <1>2, <1>3, <1>4 DEF OrderInv

LEMMA OrderNext == OrderInv /\ [TeamNext]_teamVars => OrderInv'
<1> SUFFICES ASSUME OrderInv, [TeamNext]_teamVars PROVE OrderInv'
  OBVIOUS
<1>1. TeamInv'
  BY TeamInvNext DEF OrderInv
<1>2. CASE UNCHANGED teamVars
  <2>1. OneTeam'
    BY <1>2 DEF teamVars, OrderInv, OneTeam, Quiet, Single, TeamsOf, LetIn, Teamless
  <2>2. OneUse'
    BY <1>2 DEF teamVars, OrderInv, OneUse, InvitationUsedOnce, Consuming
  <2>3. AccessKept'
    BY <1>2 DEF teamVars, OrderInv, AccessKept, Granted, DomainsMeant, MayHold, RoleWritten,
       Held, Clearing
  <2> QED
    BY <1>1, <2>1, <2>2, <2>3 DEF OrderInv
<1>3. ASSUME NEW r \in Requests, TeamStep(r) PROVE OrderInv'
  BY <1>1, <1>3, OneTeamStep, OneUseStep, AccessStep DEF OrderInv
<1> QED
  BY <1>2, <1>3 DEF TeamNext

LEMMA OrderImplied == OrderInv => MembershipIsInOrder
<1> SUFFICES ASSUME OrderInv PROVE MembershipIsInOrder
  OBVIOUS
<1>1. TeamTypeOK /\ InvitationUsedOnce
  BY DEF OrderInv, TeamInv, OneUse, InvitationUsedOnce
<1>2. OneTeamPerUser
  <2>1. SUFFICES ASSUME Quiet, NEW u \in Users, Cardinality(TeamsOf(u)) > 1 PROVE LetIn(u)
    BY DEF OneTeamPerUser, Quiet, LetIn
  <2>2. SUFFICES ASSUME Single(u) PROVE FALSE
    BY <2>1 DEF OrderInv, OneTeam
  <2>3. CASE TeamsOf(u) = {}
    BY <2>1, <2>3, FS_EmptySet
  <2>4. CASE TeamsOf(u) # {}
    <3>1. PICK t : t \in TeamsOf(u)
      BY <2>4
    <3>2. \A v \in TeamsOf(u) : v = t
      BY <2>2, <3>1 DEF Single, TeamsOf
    <3>3. TeamsOf(u) = {t}
      BY <3>1, <3>2
    <3>4. Cardinality({t}) = 1
      BY FS_Singleton
    <3> QED
      BY <2>1, <3>3, <3>4
  <2> QED
    BY <2>3, <2>4
<1>3. AccessHeldByClients
  BY DEF OrderInv, AccessKept, AccessHeldByClients, Held, Clearing, Pending
<1> QED
  BY <1>1, <1>2, <1>3 DEF MembershipIsInOrder

(***************************************************************************)
(* Whatever users, teams and domains there are and wherever requests are   *)
(* cut off: a user is in one team unless an invitation let him into        *)
(* another, an invitation lets in one member, and who holds a domain when  *)
(* nothing is under way is a CLIENT of its team or was one that            *)
(* deleteTeamUser, or a disturbed updateTeamUserRole, left the rows of.    *)
(***************************************************************************)
THEOREM MembershipAlwaysInOrder == TeamSpec => []MembershipIsInOrder
  BY OrderInit, OrderNext, OrderImplied, PTL DEF TeamSpec
-----------------------------------------------------------------------------
HIDE TeamAssumption

(***************************************************************************)
(* How people come in.  Off the cloud a login is between its look at the   *)
(* users and its insertion only with the lock, and finds the table empty   *)
(* or an invitation; a user is let in by one login, which marks him; and   *)
(* an administrator's request that no other overlapped has read the row as *)
(* it is.                                                                  *)
(***************************************************************************)
\* The logins that may insert a row off the cloud.
Locking == {"first", "check", "insert"}

UnderLock ==
  ~cloud =>
    /\ \A l, m \in holder : l = m
    /\ \A l \in Logins : login[l] \in Locking => l \in holder
    /\ \A l \in Logins : login[l] = "insert" => asked[l] \/ users = {}
    /\ \A p, q \in early : p = q

AskedIfInvited ==
  \A l \in Logins :
    /\ login[l] \notin {"new", "in", "refused"} /\ Who[l] \in inviting => asked[l]
    /\ login[l] = "mark" /\ invited[l] => asked[l]
    /\ login[l] = "new" => ~asked[l]

MarkedByOne ==
  /\ \A l \in Logins : login[l] \in {"event", "mark"} => Who[l] \in unmarked
  /\ \A l, m \in Logins :
       /\ login[l] \in {"event", "mark"} /\ login[m] \in {"event", "mark"}
       /\ Who[l] = Who[m]
       => l = m

Inside(p) ==
  \/ p \in waiting \cup unmarked
  \/ \E l \in Logins : Who[l] = p /\ asked[l]
  \/ \E a \in Releases : release[a].pc # "none" /\ release[a].who = p

Mailing == { a \in Releases : release[a].pc = "mail" }

OwedAsMailing ==
  /\ \A a \in Releases : release[a].pc = "write" => release[a].who \in users
  /\ IsFiniteSet(Mailing)
  /\ ~overlapped =>
       /\ owedMails = Cardinality(Mailing)
       /\ \A a, b \in Releases : release[a].pc = "write" /\ release[b].pc = "write" => a = b
       /\ \A a \in Releases :
            release[a].pc = "write" =>
              /\ release[a].was = (release[a].who \in waiting)
              /\ release[a].who \notin unmarked

RegistrationInv ==
  /\ RegTypeOK /\ UnderLock /\ AskedIfInvited /\ MarkedByOne
  /\ \A p \in users : cloud => Inside(p)
  /\ OwedAsMailing

LEMMA RegistrationInvInit == RegInit => RegistrationInv
<1> SUFFICES ASSUME RegInit PROVE RegistrationInv
  OBVIOUS
<1>1. RegTypeOK
  <2>1. release \in [Releases -> [pc : {"none", "write", "mail", "over"}, who : People \cup {"none"},
                                 to : BOOLEAN, was : BOOLEAN]]
    BY DEF RegInit, NoRelease
  <2>2. /\ login \in [Logins -> LoginSteps] /\ invited \in [Logins -> BOOLEAN]
        /\ asked \in [Logins -> BOOLEAN]
    BY DEF RegInit, LoginSteps
  <2>3. invitings \in 0 .. MaxInvitings /\ cuts \in 0 .. MaxCuts
    BY CutsAssumption DEF RegInit
  <2>4. /\ users = {} /\ waiting = {} /\ inviting = {} /\ holder = {} /\ early = {}
        /\ unmarked = {} /\ owedMails \in Int
    BY DEF RegInit
  <2>5. cloud \in BOOLEAN /\ overlapped \in BOOLEAN
    BY Zenon DEF RegInit
  <2> QED
    BY <2>1, <2>2, <2>3, <2>4, <2>5 DEF RegTypeOK
<1>2. UnderLock /\ AskedIfInvited /\ MarkedByOne /\ \A p \in users : cloud => Inside(p)
  BY DEF RegInit, UnderLock, AskedIfInvited, MarkedByOne, Locking
<1>3. Mailing = {} /\ \A a \in Releases : release[a].pc # "write"
  BY DEF RegInit, Mailing, NoRelease
<1>4. OwedAsMailing
  BY <1>3, FS_EmptySet DEF RegInit, OwedAsMailing
<1> QED
  BY <1>1, <1>2, <1>4 DEF RegistrationInv

\* The steps of a login that change neither the users nor what is on the list.
LookStep(l) == SignIn(l) \/ CheckEmpty(l) \/ CheckInvite(l) \/ FindUser(l)
                 \/ TakeLock(l) \/ FindFirstUser(l) \/ FindInvite(l) \/ FindInvites(l) \/ CutOff(l)

LEMMA LookMoves ==
  ASSUME RegTypeOK, NEW l \in Logins, LookStep(l)
  PROVE  /\ UNCHANGED << cloud, users, waiting, invitationVars, early, unmarked, listVars >>
         /\ \E step \in LoginSteps : Come(l, step)
         /\ \A m \in Logins : m # l => /\ login'[m] = login[m] /\ asked'[m] = asked[m]
                                       /\ invited'[m] = invited[m]
         /\ holder' \subseteq Logins /\ cuts' \in 0 .. MaxCuts
         /\ asked' \in [Logins -> BOOLEAN] /\ invited' \in [Logins -> BOOLEAN]
         /\ login[l] # "new" => asked' = asked
         /\ login[l] # "event" => invited' = invited
<1> USE DEF RegTypeOK, LoginSteps, Come, listVars, invitationVars
<1>1. CASE SignIn(l)
  <2>1. PICK step \in LoginSteps : step = IF cloud \/ Who[l] \in users THEN "adapter" ELSE "empty"
    OBVIOUS
  <2>2. Come(l, step)
    BY <1>1, <2>1 DEF SignIn
  <2>3. /\ \A m \in Logins : m # l => login'[m] = login[m] /\ asked'[m] = asked[m]
        /\ asked' \in [Logins -> BOOLEAN] /\ login[l] = "new"
    BY <1>1, <2>2 DEF SignIn
  <2> QED
    BY <1>1, <2>2, <2>3 DEF SignIn
<1>2. CASE CheckEmpty(l) \/ CheckInvite(l)
  BY <1>2 DEF CheckEmpty, CheckInvite
<1>3. CASE FindUser(l) \/ TakeLock(l) \/ FindFirstUser(l)
  BY <1>3 DEF FindUser, TakeLock, FindFirstUser, Refuse
<1>4. CASE FindInvite(l)
  BY <1>4 DEF FindInvite, Refuse
<1>5. CASE FindInvites(l)
  BY <1>5 DEF FindInvites, Found
<1>6. CASE CutOff(l)
  BY <1>6, CutsAssumption DEF CutOff, Refuse
<1> QED
  BY <1>1, <1>2, <1>3, <1>4, <1>5, <1>6 DEF LookStep

LEMMA LookKept ==
  ASSUME RegistrationInv, NEW l \in Logins, LookStep(l)
  PROVE  RegistrationInv'
<1> USE DEF RegistrationInv
<1>1. /\ UNCHANGED << cloud, users, waiting, invitationVars, early, unmarked, listVars >>
      /\ \E step \in LoginSteps : Come(l, step)
      /\ \A m \in Logins : m # l => /\ login'[m] = login[m] /\ asked'[m] = asked[m]
                                    /\ invited'[m] = invited[m]
      /\ holder' \subseteq Logins /\ cuts' \in 0 .. MaxCuts
      /\ asked' \in [Logins -> BOOLEAN] /\ invited' \in [Logins -> BOOLEAN]
      /\ login[l] # "new" => asked' = asked
      /\ login[l] # "event" => invited' = invited
  BY LookMoves
<1>2. RegTypeOK'
  BY <1>1 DEF RegTypeOK, Come, listVars, invitationVars
<1>3. \A m \in Logins : asked[m] => asked'[m]
  <2>1. login[l] = "new" => ~asked[l]
    BY DEF AskedIfInvited
  <2> QED
    BY <1>1, <2>1
<1>4. \A p \in users' : cloud' => Inside(p)'
  BY <1>1, <1>3 DEF Inside, listVars
<1>5. OwedAsMailing'
  BY <1>1 DEF OwedAsMailing, Mailing, listVars
<1>6. MarkedByOne'
  <2>1. login'[l] \in {"event", "mark"} => login[l] \in {"event", "mark"}
    BY DEF LookStep, SignIn, CheckEmpty, CheckInvite, FindUser, TakeLock, FindFirstUser, FindInvite,
           FindInvites, CutOff, Refuse, Come, RegTypeOK
  <2> QED
    BY <1>1, <2>1 DEF MarkedByOne
<1>7. AskedIfInvited'
  <2> SUFFICES /\ login'[l] \notin {"new", "in", "refused"} /\ Who[l] \in inviting' => asked'[l]
               /\ login'[l] = "mark" /\ invited'[l] => asked'[l]
               /\ login'[l] = "new" => ~asked'[l]
    BY <1>1 DEF AskedIfInvited, invitationVars
  <2>1. CASE SignIn(l)
    BY <2>1 DEF SignIn, Come, RegTypeOK, invitationVars
  <2>2. CASE FindInvites(l)
    <3>1. login[l] = "event" /\ login'[l] = "mark" /\ invited'[l] = (Who[l] \in inviting)
      BY <2>2 DEF FindInvites, Found, Come, RegTypeOK
    <3> QED
      BY <1>1, <3>1 DEF AskedIfInvited, invitationVars
  <2>3. CASE ~SignIn(l) /\ ~FindInvites(l)
    <3>1. /\ login[l] \notin {"new", "in", "refused"} /\ login'[l] \notin {"new", "mark"}
          /\ asked' = asked
      BY <1>1, <2>3 DEF LookStep, CheckEmpty, CheckInvite, FindUser, TakeLock, FindFirstUser,
             FindInvite, CutOff, Refuse, Come, RegTypeOK
    <3> QED
      BY <1>1, <3>1 DEF AskedIfInvited, invitationVars
  <2> QED
    BY <2>1, <2>2, <2>3
<1>8. UnderLock'
  <2> SUFFICES ASSUME ~cloud PROVE UnderLock'
    BY <1>1 DEF UnderLock
  <2>1. CASE TakeLock(l)
    <3>1. holder = {} /\ holder' = {l} /\ login'[l] = "first"
      BY <2>1 DEF TakeLock, Come, RegTypeOK
    <3> QED
      BY <1>1, <3>1 DEF UnderLock, Locking
  <2>2. CASE FindFirstUser(l) \/ FindInvite(l)
    <3>1. login[l] \in Locking /\ l \in holder
      BY <2>2 DEF FindFirstUser, FindInvite, UnderLock, Locking
    <3>2. \A m \in Logins : login'[m] \in Locking => m = l
      BY <1>1, <3>1 DEF UnderLock
    <3>3. login'[l] \in Locking => holder' = holder
      BY <2>2 DEF FindFirstUser, FindInvite, Refuse, Come, RegTypeOK, Locking
    <3>4. holder' \subseteq holder
      BY <2>2 DEF FindFirstUser, FindInvite, Refuse
    <3>5. login'[l] = "insert" => users = {} \/ asked'[l]
      <4>1. login'[l] = "insert" => users = {} \/ Who[l] \in inviting
        BY <2>2 DEF FindFirstUser, FindInvite, Refuse, Come, RegTypeOK
      <4>2. login[l] \notin {"new", "in", "refused"}
        BY <3>1 DEF Locking
      <4> QED
        BY <1>3, <4>1, <4>2 DEF AskedIfInvited
    <3> QED
      BY <1>1, <3>1, <3>2, <3>3, <3>4, <3>5 DEF UnderLock, Locking
  <2>3. CASE CutOff(l)
    <3>1. login'[l] = "refused" /\ holder' = holder \ {l}
      BY <2>3 DEF CutOff, Refuse, Come, RegTypeOK
    <3> QED
      BY <1>1, <1>3, <3>1 DEF UnderLock, Locking
  <2>4. CASE ~TakeLock(l) /\ ~FindFirstUser(l) /\ ~FindInvite(l) /\ ~CutOff(l)
    <3>1. login'[l] \notin Locking /\ holder' = holder
      BY <2>4 DEF LookStep, SignIn, CheckEmpty, CheckInvite, FindUser, FindInvites, Come, RegTypeOK,
             Locking
    <3> QED
      BY <1>1, <1>3, <3>1 DEF UnderLock, Locking
  <2> QED
    BY <2>1, <2>2, <2>3, <2>4
<1> QED
  BY <1>2, <1>4, <1>5, <1>6, <1>7, <1>8

LEMMA InsertKept ==
  ASSUME RegistrationInv, NEW l \in Logins, InsertUser(l)
  PROVE  RegistrationInv'
<1> USE DEF RegistrationInv
<1>1. /\ login[l] = "insert" /\ holder' = holder \ {l}
      /\ UNCHANGED << cloud, waiting, invitationVars, invited, cuts, asked, listVars >>
  BY DEF InsertUser
<1>2. CASE Who[l] \in users
  <2>1. Come(l, "refused") /\ UNCHANGED << users, early, unmarked >>
    BY <1>2 DEF InsertUser
  <2>2. RegTypeOK'
    BY <1>1, <2>1 DEF RegTypeOK, Come, LoginSteps, listVars, invitationVars
  <2>3. \A m \in Logins : (m = l /\ login'[m] = "refused") \/ (m # l /\ login'[m] = login[m])
    BY <2>1 DEF Come, RegTypeOK
  <2>4. UnderLock'
    BY <1>1, <2>1, <2>3 DEF UnderLock, Locking
  <2>5. AskedIfInvited' /\ MarkedByOne'
    BY <1>1, <2>1, <2>3 DEF AskedIfInvited, MarkedByOne, invitationVars
  <2>6. OwedAsMailing' /\ \A p \in users' : cloud' => Inside(p)'
    BY <1>1, <2>1 DEF OwedAsMailing, Mailing, Inside, listVars
  <2> QED
    BY <2>2, <2>4, <2>5, <2>6
<1>3. CASE Who[l] \notin users
  <2>1. /\ users' = users \cup {Who[l]} /\ unmarked' = unmarked \cup {Who[l]}
        /\ early' = (IF asked[l] THEN early ELSE early \cup {Who[l]})
        /\ Come(l, "event") /\ Who[l] \in People
    BY <1>3, WhoAssumption DEF InsertUser
  <2>2. RegTypeOK'
    BY <1>1, <2>1 DEF RegTypeOK, Come, LoginSteps, listVars, invitationVars
  <2>3. \A m \in Logins : (m = l /\ login'[m] = "event") \/ (m # l /\ login'[m] = login[m])
    BY <2>1 DEF Come, RegTypeOK
  <2>4. UnderLock'
    <3> SUFFICES ASSUME ~cloud PROVE UnderLock'
      BY <1>1 DEF UnderLock
    <3>1. l \in holder /\ holder' = {}
      BY <1>1 DEF UnderLock, Locking
    <3>2. \A m \in Logins : login'[m] \notin Locking
      BY <1>1, <2>3, <3>1 DEF UnderLock, Locking
    <3>3. asked[l] \/ early = {}
      BY <1>1 DEF UnderLock, RegTypeOK
    <3>4. \A p, q \in early' : p = q
      BY <2>1, <3>3 DEF UnderLock
    <3> QED
      BY <3>1, <3>2, <3>4 DEF UnderLock, Locking
  <2>5. AskedIfInvited'
    BY <1>1, <2>3 DEF AskedIfInvited, invitationVars
  <2>6. MarkedByOne'
    <3>1. \A m \in Logins : login[m] \in {"event", "mark"} => Who[m] # Who[l]
      BY <1>3 DEF MarkedByOne, RegTypeOK
    <3> QED
      BY <2>1, <2>3, <3>1 DEF MarkedByOne
  <2>7. \A p \in users' : cloud' => Inside(p)'
    BY <1>1, <2>1 DEF Inside, listVars
  <2>8. OwedAsMailing'
    BY <1>1, <1>3, <2>1 DEF OwedAsMailing, Mailing, listVars
  <2> QED
    BY <2>2, <2>4, <2>5, <2>6, <2>7, <2>8
<1> QED
  BY <1>2, <1>3

LEMMA MarkKept ==
  ASSUME RegistrationInv, NEW l \in Logins, MarkUser(l)
  PROVE  RegistrationInv'
<1> USE DEF RegistrationInv
<1>1. /\ login[l] = "mark" /\ unmarked' = unmarked \ {Who[l]} /\ Come(l, "in")
      /\ waiting' = (IF cloud /\ ~invited[l] THEN waiting \cup {Who[l]} ELSE waiting)
      /\ UNCHANGED << cloud, users, invitationVars, invited, holder, cuts, asked, early, listVars >>
  BY DEF MarkUser
<1>2. Who[l] \in unmarked /\ Who[l] \in users
  BY <1>1 DEF MarkedByOne, RegTypeOK
<1>3. \A m \in Logins : (m = l /\ login'[m] = "in") \/ (m # l /\ login'[m] = login[m])
  BY <1>1 DEF Come, RegTypeOK
<1>4. RegTypeOK'
  BY <1>1, <1>2 DEF RegTypeOK, Come, LoginSteps, listVars, invitationVars
<1>5. UnderLock'
  BY <1>1, <1>3 DEF UnderLock, Locking
<1>6. AskedIfInvited'
  BY <1>1, <1>3 DEF AskedIfInvited, invitationVars
<1>7. MarkedByOne'
  <2>1. \A m \in Logins : m # l /\ login[m] \in {"event", "mark"} => Who[m] # Who[l]
    BY <1>1 DEF MarkedByOne
  <2> QED
    BY <1>1, <1>3, <2>1 DEF MarkedByOne
<1>8. \A p \in users' : cloud' => Inside(p)'
  <2> SUFFICES ASSUME NEW p \in users, cloud PROVE Inside(p)'
    BY <1>1
  <2>1. CASE p = Who[l]
    <3>1. invited[l] => asked[l]
      BY <1>1 DEF AskedIfInvited
    <3> QED
      BY <1>1, <2>1, <3>1 DEF Inside
  <2>2. CASE p # Who[l]
    BY <1>1, <2>2 DEF Inside, listVars
  <2> QED
    BY <2>1, <2>2
<1>9. OwedAsMailing'
  BY <1>1, <1>2 DEF OwedAsMailing, Mailing, listVars
<1> QED
  BY <1>4, <1>5, <1>6, <1>7, <1>8, <1>9

LEMMA InvitationsKept ==
  ASSUME RegistrationInv, InvitationMade \/ InvitationGone
  PROVE  RegistrationInv'
<1> USE DEF RegistrationInv
<1>1. UNCHANGED << cloud, users, waiting, login, invited, holder, cuts, early, unmarked, listVars >>
  BY DEF InvitationMade, InvitationGone
<1>2. /\ inviting' \subseteq People \ Addressless /\ invitings' \in 0 .. MaxInvitings
      /\ asked' \in [Logins -> BOOLEAN]
  <2>1. CASE InvitationMade
    <3>1. invitings' \in 0 .. MaxInvitings
      BY <2>1, CutsAssumption DEF InvitationMade, RegTypeOK
    <3>2. inviting' \subseteq People \ Addressless /\ asked' \in [Logins -> BOOLEAN]
      BY <2>1 DEF InvitationMade, RegTypeOK
    <3> QED
      BY <3>1, <3>2
  <2>2. CASE InvitationGone
    BY <2>2 DEF InvitationGone, RegTypeOK
  <2> QED
    BY <2>1, <2>2
<1>3. /\ \A l \in Logins : asked[l] => asked'[l]
      /\ \A l \in Logins :
           asked'[l] => asked[l] \/ login[l] \notin {"new", "in", "refused"}
      /\ \A l \in Logins :
           login[l] \notin {"new", "in", "refused"} /\ Who[l] \in inviting' \ inviting => asked'[l]
  BY DEF InvitationMade, InvitationGone, RegTypeOK
<1>4. RegTypeOK'
  BY <1>1, <1>2 DEF RegTypeOK, listVars
<1>5. UnderLock'
  BY <1>1, <1>3 DEF UnderLock
<1>6. AskedIfInvited'
  BY <1>1, <1>3 DEF AskedIfInvited
<1>7. MarkedByOne' /\ OwedAsMailing'
  BY <1>1 DEF MarkedByOne, OwedAsMailing, Mailing, listVars
<1>8. \A p \in users' : cloud' => Inside(p)'
  BY <1>1, <1>3 DEF Inside, listVars
<1> QED
  BY <1>4, <1>5, <1>6, <1>7, <1>8

LEMMA ReleaseKept ==
  ASSUME RegistrationInv, NEW a \in Releases, ReadWaiting(a) \/ WriteWaiting(a) \/ MailAcceptance(a)
  PROVE  RegistrationInv'
<1> USE DEF RegistrationInv
<1>1. UNCHANGED << cloud, users, invitationVars, login, invited, holder, cuts, asked, early, unmarked >>
  BY DEF ReadWaiting, WriteWaiting, MailAcceptance
<1>2. UnderLock' /\ AskedIfInvited' /\ MarkedByOne'
  BY <1>1 DEF UnderLock, AskedIfInvited, MarkedByOne, invitationVars
<1>3. release[a] \in [pc : {"none", "write", "mail", "over"}, who : People \cup {"none"},
                      to : BOOLEAN, was : BOOLEAN]
  BY DEF RegTypeOK
<1>4. CASE ReadWaiting(a)
  <2>1. PICK p \in users, to \in BOOLEAN :
          release' = [release EXCEPT ![a] = [pc |-> "write", who |-> p, to |-> to,
                                             was |-> p \in waiting]]
    BY <1>4 DEF ReadWaiting
  <2>2. /\ release[a].pc = "none" /\ waiting' = waiting /\ owedMails' = owedMails
        /\ overlapped' = (overlapped \/ unmarked # {}
                            \/ \E b \in Releases : release[b].pc = "write")
    BY <1>4 DEF ReadWaiting
  <2>3. RegTypeOK'
    BY <1>1, <2>1, <2>2 DEF RegTypeOK, invitationVars
  <2>4. /\ release'[a].pc = "write" /\ release'[a].who = p
        /\ release'[a].was = (p \in waiting)
        /\ \A b \in Releases : b # a => release'[b] = release[b]
    BY <2>1 DEF RegTypeOK
  <2>5. Mailing' = Mailing
    BY <2>2, <2>4 DEF Mailing
  <2>6. OwedAsMailing'
    BY <1>1, <2>2, <2>4, <2>5 DEF OwedAsMailing
  <2>7. \A q \in users' : cloud' => Inside(q)'
    BY <1>1, <2>2, <2>4 DEF Inside
  <2> QED
    BY <1>2, <2>3, <2>6, <2>7
<1>5. CASE WriteWaiting(a)
  <2> DEFINE r == release[a]
  <2>1. /\ r.pc = "write"
        /\ waiting' = (IF r.to THEN waiting \cup {r.who} ELSE waiting \ {r.who})
        /\ owedMails' = owedMails + (IF r.who \in waiting \ (waiting' \cup Addressless) THEN 1 ELSE 0)
        /\ release' = [release EXCEPT ![a].pc = IF Accepted(r) THEN "mail" ELSE "over"]
        /\ overlapped' = overlapped
    BY <1>5 DEF WriteWaiting
  <2>2. r.who \in users
    BY <2>1 DEF OwedAsMailing
  <2>3. /\ release' \in [Releases -> [pc : {"none", "write", "mail", "over"}, who : People \cup {"none"},
                                      to : BOOLEAN, was : BOOLEAN]]
        /\ release'[a].pc = (IF Accepted(r) THEN "mail" ELSE "over") /\ release'[a].who = r.who
        /\ \A b \in Releases : b # a => release'[b] = release[b]
    BY <1>3, <2>1 DEF RegTypeOK
  <2>4. waiting' \subseteq users /\ owedMails' \in Int
    BY <2>1, <2>2 DEF RegTypeOK
  <2>5. RegTypeOK'
    BY <1>1, <2>1, <2>3, <2>4 DEF RegTypeOK, invitationVars
  <2>6. \A q \in users' : cloud' => Inside(q)'
    <3> SUFFICES ASSUME NEW q \in users, cloud PROVE Inside(q)'
      BY <1>1
    <3>1. CASE q = r.who
      BY <2>3, <3>1 DEF Inside
    <3>2. CASE q # r.who
      BY <1>1, <2>1, <2>3, <3>2 DEF Inside
    <3> QED
      BY <3>1, <3>2
  <2>7. Mailing' = (IF Accepted(r) THEN Mailing \cup {a} ELSE Mailing) /\ a \notin Mailing
    BY <2>1, <2>3 DEF Mailing
  <2>8. /\ IsFiniteSet(Mailing')
        /\ Cardinality(Mailing') = Cardinality(Mailing) + (IF Accepted(r) THEN 1 ELSE 0)
        /\ Cardinality(Mailing) \in Nat
    BY <2>7, FS_AddElement, FS_CardinalityType DEF OwedAsMailing
  <2>9. ASSUME ~overlapped PROVE owedMails' = Cardinality(Mailing')
    <3>1. r.was = (r.who \in waiting) /\ owedMails = Cardinality(Mailing)
      BY <2>1, <2>9 DEF OwedAsMailing
    <3>2. (r.who \in waiting \ (waiting' \cup Addressless)) = Accepted(r)
      BY <1>3, <2>1, <3>1 DEF Accepted
    <3> QED
      BY <2>1, <2>8, <3>1, <3>2
  <2>10. OwedAsMailing'
    <3>1. \A b \in Releases : release'[b].pc = "write" => b # a /\ release[b].pc = "write"
      BY <2>3
    <3>2. ~overlapped => \A b \in Releases : release'[b].pc # "write"
      BY <2>1, <3>1 DEF OwedAsMailing
    <3> QED
      BY <1>1, <2>1, <2>3, <2>8, <2>9, <3>1, <3>2 DEF OwedAsMailing
  <2> QED
    BY <1>2, <2>5, <2>6, <2>10
<1>6. CASE MailAcceptance(a)
  <2>1. /\ release[a].pc = "mail" /\ owedMails' = owedMails - 1
        /\ release' = [release EXCEPT ![a].pc = "over"]
        /\ waiting' = waiting /\ overlapped' = overlapped
    BY <1>6 DEF MailAcceptance
  <2>2. /\ release' \in [Releases -> [pc : {"none", "write", "mail", "over"}, who : People \cup {"none"},
                                      to : BOOLEAN, was : BOOLEAN]]
        /\ release'[a].pc = "over" /\ release'[a].who = release[a].who
        /\ \A b \in Releases : b # a => release'[b] = release[b]
    BY <1>3, <2>1 DEF RegTypeOK
  <2>3. RegTypeOK'
    BY <1>1, <2>1, <2>2 DEF RegTypeOK, invitationVars
  <2>4. \A q \in users' : cloud' => Inside(q)'
    BY <1>1, <2>1, <2>2 DEF Inside
  <2>5. Mailing' = Mailing \ {a} /\ a \in Mailing
    BY <2>1, <2>2 DEF Mailing
  <2>6. /\ IsFiniteSet(Mailing') /\ Cardinality(Mailing') = Cardinality(Mailing) - 1
    BY <2>5, FS_RemoveElement DEF OwedAsMailing
  <2>7. OwedAsMailing'
    BY <1>1, <2>1, <2>2, <2>6 DEF OwedAsMailing
  <2> QED
    BY <1>2, <2>3, <2>4, <2>7
<1> QED
  BY <1>4, <1>5, <1>6

LEMMA RegistrationInvNext == RegistrationInv /\ [RegNext]_regVars => RegistrationInv'
<1> SUFFICES ASSUME RegistrationInv, [RegNext]_regVars PROVE RegistrationInv'
  OBVIOUS
<1>1. ASSUME NEW l \in Logins, LoginStep(l) PROVE RegistrationInv'
  BY <1>1, LookKept, InsertKept, MarkKept DEF LoginStep, LookStep
<1>2. CASE InvitationMade \/ InvitationGone
  BY <1>2, InvitationsKept
<1>3. CASE \E a \in Releases : ReadWaiting(a) \/ WriteWaiting(a) \/ MailAcceptance(a)
  BY <1>3, ReleaseKept
<1>4. CASE UNCHANGED regVars
  <2> USE <1>4 DEF regVars, invitationVars, listVars
  <2>1. RegTypeOK' /\ UnderLock' /\ AskedIfInvited' /\ MarkedByOne'
    BY DEF RegistrationInv, RegTypeOK, UnderLock, AskedIfInvited, MarkedByOne
  <2>2. OwedAsMailing' /\ \A p \in users' : cloud' => Inside(p)'
    BY DEF RegistrationInv, OwedAsMailing, Mailing, Inside
  <2> QED
    BY <2>1, <2>2 DEF RegistrationInv
<1> QED
  BY <1>1, <1>2, <1>3, <1>4 DEF RegNext

LEMMA RegistrationImplied == RegistrationInv => RegTypeOK /\ RegistrationHolds
<1> SUFFICES ASSUME RegistrationInv PROVE RegTypeOK /\ RegistrationHolds
  OBVIOUS
<1>1. OneUninvited
  <2> SUFFICES ASSUME ~cloud PROVE Cardinality(early) <= 1
    BY DEF OneUninvited
  <2>1. CASE early = {}
    BY <2>1, FS_EmptySet
  <2>2. ASSUME NEW p \in early PROVE Cardinality(early) <= 1
    <3>1. early = {p}
      BY DEF RegistrationInv, UnderLock
    <3> QED
      BY <3>1, FS_Singleton
  <2> QED
    BY <2>1, <2>2
<1>2. WaitsOrWasInvited
  BY DEF RegistrationInv, Inside, WaitsOrWasInvited
<1>3. AcceptanceIsMailed
  BY DEF RegistrationInv, OwedAsMailing, Mailing, AcceptanceIsMailed
<1> QED
  BY <1>1, <1>2, <1>3 DEF RegistrationInv, RegistrationHolds

\* However many people log in at once and wherever their logins are cut off:
\* one user of a self-hosted installation had no invitation, in the cloud who
\* had none waits or was let in, and who was is told once.
THEOREM RegistrationAlwaysHolds == RegSpec => [](RegTypeOK /\ RegistrationHolds)
BY RegistrationInvInit, RegistrationInvNext, RegistrationImplied, PTL DEF RegSpec

-----------------------------------------------------------------------------
(***************************************************************************)
(* What a team has.  A kind whose limit can be relied on has one creation  *)
(* under way at most, and one that has counted finds room for its row;     *)
(* while updates of a row do not cross, one is under way and what it has   *)
(* read is what is there.                                                  *)
(***************************************************************************)
ResourceShape ==
  /\ creation \in [Creations -> [pc : { "new", "counted", "granting", "over" },
                                 kind : ResourceKinds]]
  /\ hookUpdate \in [HookUpdates -> [pc : { "new", "read", "over" }, names : SUBSET HookFields,
                                     read : [HookFields -> HookUpdates \cup {"made"}]]]
  /\ book \in [enabled : BOOLEAN, content : { "none", "default", "own" },
               by : { "made", "own", "empty" }]
  /\ bookUpdate \in [BookUpdates -> [pc : { "new", "write", "over" },
                                     enabled : { "unset", "on", "off" },
                                     content : { "unset", "empty", "own", "other" },
                                     found : BOOLEAN]]

Counted(k) == { c \in Creations : creation[c].pc \in {"counted", "granting"} /\ creation[c].kind = k }

Limited(k) == (isCloud \/ k = "clientDomain") /\ limit[k] # Unlimited

GrantsClient ==
  \A c \in Creations : creation[c].pc = "granting" => creation[c].kind = "clientDomain"

RoomIsKept ==
  \A k \in ResourceKinds \ exceedable :
    /\ \A c, d \in Counted(k) : c = d
    /\ Limited(k) /\ Counted(k) # {} => rows[k] < limit[k]
    /\ Limited(k) => rows[k] = 0 \/ rows[k] <= limit[k]

HookAsRead ==
  "hook" \notin unsure =>
    /\ hookRow = meant
    /\ \A u, z \in HookUpdates : hookUpdate[u].pc = "read" /\ hookUpdate[z].pc = "read" => u = z
    /\ \A u \in HookUpdates : hookUpdate[u].pc = "read" => hookUpdate[u].read = hookRow

\* Whether the book has a content is known to an update that enables it; a
\* book that has one keeps one.
BookAsRead ==
  /\ book.enabled => book.content # "none"
  /\ \A u \in BookUpdates :
       bookUpdate[u].pc = "write" =>
         /\ bookUpdate[u].content # "other"
         /\ bookUpdate[u].found /\ bookUpdate[u].enabled = "on" => book.content # "none"
  /\ "book" \notin unsure =>
       /\ book.by = "own" => book.content = "own"
       /\ \A u, z \in BookUpdates : bookUpdate[u].pc = "write" /\ bookUpdate[z].pc = "write" => u = z
       /\ \A u \in BookUpdates :
            bookUpdate[u].pc = "write" /\ ~bookUpdate[u].found => book.content = "none"

ResourcesInv == ResourcesTypeOK /\ ResourceShape /\ GrantsClient /\ RoomIsKept /\ HookAsRead /\ BookAsRead

LEMMA ResourcesInvInit == ResourcesInit => ResourcesInv
<1> SUFFICES ASSUME ResourcesInit PROVE ResourcesInv
  OBVIOUS
<1>1. book \in [enabled : BOOLEAN, content : { "none", "default", "own" },
                by : { "made", "own", "empty" }]
  <2>1. CASE book = [enabled |-> TRUE, content |-> "default", by |-> "made"]
    BY <2>1
  <2>2. CASE book = [enabled |-> FALSE, content |-> "none", by |-> "made"]
    BY <2>2
  <2> QED
    BY <2>1, <2>2 DEF ResourcesInit
<1>2. ResourceShape
  <2>1. creation \in [Creations -> [pc : { "new", "counted", "granting", "over" },
                                   kind : ResourceKinds]]
    BY DEF ResourcesInit, NoCreation, ResourceKinds
  <2>2. hookUpdate \in [HookUpdates -> [pc : { "new", "read", "over" }, names : SUBSET HookFields,
                                       read : [HookFields -> HookUpdates \cup {"made"}]]]
    BY DEF ResourcesInit, NoHookUpdate
  <2>3. bookUpdate \in [BookUpdates -> [pc : { "new", "write", "over" },
                                       enabled : { "unset", "on", "off" },
                                       content : { "unset", "empty", "own", "other" },
                                       found : BOOLEAN]]
    BY DEF ResourcesInit, NoBookUpdate
  <2> QED
    BY <1>1, <2>1, <2>2, <2>3 DEF ResourceShape
<1>5. ResourcesTypeOK
  <2>1. limit \in [ResourceKinds -> Limits] /\ rows \in [ResourceKinds -> Nat]
    BY DEF ResourcesInit
  <2>2. hookRow \in [HookFields -> HookUpdates \cup {"made"}] /\ meant = hookRow
    BY DEF ResourcesInit
  <2>3. changes \in 0 .. MaxChanges /\ isCloud \in BOOLEAN /\ unsure = {} /\ exceedable = {}
    BY LimitsAssumption DEF ResourcesInit
  <2> QED
    BY <1>1, <1>2, <2>1, <2>2, <2>3 DEF ResourcesTypeOK, ResourceShape
<1>3. GrantsClient /\ RoomIsKept
  BY DEF ResourcesInit, GrantsClient, RoomIsKept, Counted, NoCreation
<1>4. HookAsRead /\ BookAsRead
  BY DEF ResourcesInit, HookAsRead, BookAsRead, NoHookUpdate, NoBookUpdate
<1> QED
  BY <1>2, <1>3, <1>4, <1>5 DEF ResourcesInv

\* A creation's step.
LEMMA CreationKept ==
  ASSUME ResourcesInv, NEW c \in Creations, CountRows(c) \/ InsertRow(c) \/ GrantCreator(c)
  PROVE  ResourcesInv'
<1> USE DEF ResourcesInv
<1>1. creation[c] \in [pc : { "new", "counted", "granting", "over" }, kind : ResourceKinds]
  BY DEF ResourceShape
<1>2. UNCHANGED << isCloud, limit, changes, hookVars, bookVars, unsure >>
  BY DEF CountRows, InsertRow, GrantCreator
<1>3. HookAsRead' /\ BookAsRead'
  BY <1>2 DEF HookAsRead, BookAsRead, hookVars, bookVars
<1>4. /\ ResourceShape'
      /\ rows' \in [ResourceKinds -> Nat]
      /\ exceedable \subseteq exceedable' /\ exceedable' \subseteq ResourceKinds
  <2>1. CASE CountRows(c)
    BY <1>1, <2>1 DEF CountRows, ResourceShape, ResourcesTypeOK, hookVars, bookVars
  <2>2. CASE InsertRow(c)
    BY <1>1, <2>2, SMTT(30)
       DEF InsertRow, ResourceShape, ResourcesTypeOK, hookVars, bookVars, ResourceKinds
  <2>3. CASE GrantCreator(c)
    BY <1>1, <2>3 DEF GrantCreator, ResourceShape, ResourcesTypeOK, hookVars, bookVars, ResourceKinds
  <2> QED
    BY <2>1, <2>2, <2>3
<1>5. ResourcesTypeOK'
  <2>1. \A d \in Creations : creation'[d].pc \in { "new", "counted", "granting", "over" }
    BY <1>4 DEF ResourceShape
  <2> QED
    BY <1>2, <1>4, <2>1 DEF ResourcesTypeOK, hookVars, bookVars
<1>6. RoomIsKept'
  <2> SUFFICES ASSUME NEW k \in ResourceKinds, k \notin exceedable'
               PROVE  /\ \A a, b \in Counted(k)' : a = b
                      /\ Limited(k)' /\ Counted(k)' # {} => rows'[k] < limit'[k]
                      /\ Limited(k)' => rows'[k] = 0 \/ rows'[k] <= limit'[k]
    BY DEF RoomIsKept
  <2>1. k \notin exceedable /\ Limited(k)' = Limited(k) /\ limit' = limit
    BY <1>2, <1>4 DEF Limited
  <2>2. /\ \A a, b \in Counted(k) : a = b
        /\ Limited(k) /\ Counted(k) # {} => rows[k] < limit[k]
        /\ Limited(k) => rows[k] = 0 \/ rows[k] <= limit[k]
        /\ rows[k] \in Nat /\ limit[k] \in Int
    BY <2>1, LimitsAssumption DEF RoomIsKept, ResourcesTypeOK
  <2>3. CASE CountRows(c)
    <3>1. PICK j \in ResourceKinds :
            /\ creation' = [creation EXCEPT ![c] =
                 [pc |-> IF LimitReached(j) THEN "over" ELSE "counted", kind |-> j]]
            /\ exceedable' = exceedable \cup
                 IF \E d \in Creations : creation[d].pc \in {"counted", "granting"} /\ creation[d].kind = j
                 THEN {j} ELSE {}
            /\ creation[c].pc = "new" /\ rows' = rows
      BY <2>3 DEF CountRows
    <3>2. CASE j = k /\ ~LimitReached(k)
      <4>1. Counted(k) = {}
        BY <3>1, <3>2 DEF Counted
      <4>2. Counted(k)' \subseteq {c}
        BY <4>1, <3>1, <1>1 DEF Counted, ResourceShape
      <4>3. Limited(k) => rows[k] < limit[k]
        BY <3>2, <2>2 DEF LimitReached, IsLimitExceeded, Limited
      <4> QED
        BY <4>2, <4>3, <3>1, <2>1, <2>2
    <3>3. CASE ~(j = k /\ ~LimitReached(k))
      <4>1. Counted(k)' \subseteq Counted(k)
        BY <3>1, <3>3, <1>1 DEF Counted, ResourceShape
      <4> QED
        BY <4>1, <3>1, <2>1, <2>2
    <3> QED
      BY <3>2, <3>3
  <2>4. CASE InsertRow(c)
    <3>1. Counted(k)' \subseteq Counted(k)
      BY <2>4, <1>1 DEF InsertRow, Counted, ResourceShape
    <3>2. CASE creation[c].kind = k
      <4>1. c \in Counted(k)
        BY <2>4, <3>2 DEF InsertRow, Counted
      <4>2. CASE k = "clientDomain"
        <5>1. rows'[k] = rows[k]
          BY <2>4, <3>2, <4>2 DEF InsertRow, ResourcesTypeOK, ResourceKinds
        <5> QED
          BY <5>1, <3>1, <2>1, <2>2
      <4>3. CASE k # "clientDomain"
        <5>1. rows'[k] = rows[k] + 1
          BY <2>4, <3>2, <4>3 DEF InsertRow, ResourcesTypeOK
        <5>2. creation'[c].pc = "over"
          BY <2>4, <3>2, <4>3, <1>1 DEF InsertRow, ResourceShape
        <5>3. Counted(k)' = {}
          BY <5>2, <4>1, <3>1, <2>2 DEF Counted
        <5> QED
          BY <5>1, <5>3, <4>1, <2>1, <2>2
      <4> QED
        BY <4>2, <4>3
    <3>3. CASE creation[c].kind # k
      <4>1. rows'[k] = rows[k]
        BY <2>4, <3>3, <1>1 DEF InsertRow, ResourcesTypeOK
      <4> QED
        BY <4>1, <3>1, <2>1, <2>2
    <3> QED
      BY <3>2, <3>3
  <2>5. CASE GrantCreator(c)
    <3>1. Counted(k)' \subseteq Counted(k) \ {c}
      BY <2>5, <1>1 DEF GrantCreator, Counted, ResourceShape
    <3>2. CASE k = "clientDomain"
      <4>1. creation[c].kind = "clientDomain"
        BY <2>5 DEF GrantCreator, GrantsClient
      <4>2. c \in Counted(k) /\ rows'[k] = rows[k] + 1
        BY <2>5, <3>2, <4>1 DEF GrantCreator, Counted, ResourcesTypeOK
      <4> QED
        BY <4>2, <3>1, <2>1, <2>2
    <3>3. CASE k # "clientDomain"
      <4>1. rows'[k] = rows[k]
        BY <2>5, <3>3 DEF GrantCreator, ResourcesTypeOK
      <4> QED
        BY <4>1, <3>1, <2>1, <2>2
    <3> QED
      BY <3>2, <3>3
  <2> QED
    BY <2>3, <2>4, <2>5
<1>7. GrantsClient'
  <2>1. CASE CountRows(c)
    BY <1>1, <2>1 DEF CountRows, GrantsClient, ResourceShape
  <2>2. CASE InsertRow(c)
    BY <1>1, <2>2 DEF InsertRow, GrantsClient, ResourceShape
  <2>3. CASE GrantCreator(c)
    BY <1>1, <2>3 DEF GrantCreator, GrantsClient, ResourceShape
  <2> QED
    BY <2>1, <2>2, <2>3
<1> QED
  BY <1>3, <1>4, <1>5, <1>6, <1>7

\* The plan becomes another, or a row goes.
LEMMA ChangeKept ==
  ASSUME ResourcesInv, NEW k \in ResourceKinds,
         DeleteRow(k) \/ \E n \in Limits : ChangePlan(k, n)
  PROVE  ResourcesInv'
<1> USE DEF ResourcesInv
<1>1. UNCHANGED << isCloud, creation, hookVars, bookVars, unsure >>
  BY DEF DeleteRow, ChangePlan
<1>2. HookAsRead' /\ BookAsRead' /\ ResourceShape' /\ GrantsClient'
  BY <1>1 DEF HookAsRead, BookAsRead, ResourceShape, GrantsClient, hookVars, bookVars
<1>3. ResourcesTypeOK'
  <2>1. limit' \in [ResourceKinds -> Limits] /\ rows' \in [ResourceKinds -> Nat]
        /\ changes' \in 0 .. MaxChanges /\ exceedable' \subseteq ResourceKinds
    BY LimitsAssumption DEF DeleteRow, ChangePlan, ResourcesTypeOK
  <2> QED
    BY <1>1, <2>1 DEF ResourcesTypeOK, hookVars, bookVars
<1>4. RoomIsKept'
  <2> SUFFICES ASSUME NEW j \in ResourceKinds, j \notin exceedable'
               PROVE  /\ \A a, b \in Counted(j)' : a = b
                      /\ Limited(j)' /\ Counted(j)' # {} => rows'[j] < limit'[j]
                      /\ Limited(j)' => rows'[j] = 0 \/ rows'[j] <= limit'[j]
    BY DEF RoomIsKept
  <2>1. Counted(j)' = Counted(j)
    BY <1>1 DEF Counted
  <2>2. /\ rows[j] \in Nat /\ limit[j] \in Int /\ rows'[j] \in Nat /\ rows'[j] <= rows[j]
        /\ j \notin exceedable
    <3>1. /\ rows[j] \in Nat /\ limit[j] \in Int /\ rows \in [ResourceKinds -> Nat]
          /\ j \notin exceedable
      BY LimitsAssumption DEF DeleteRow, ChangePlan, ResourcesTypeOK
    <3>2. rows'[j] = rows[j] \/ (rows[j] > 0 /\ rows'[j] = rows[j] - 1)
      BY <3>1 DEF DeleteRow, ChangePlan
    <3> QED
      BY <3>1, <3>2
  <2>3. limit'[j] = limit[j] \/ limit'[j] = Unlimited
        \/ (limit[j] # Unlimited /\ limit'[j] >= limit[j] /\ limit'[j] \in Int)
    <3>1. CASE DeleteRow(k)
      BY <3>1 DEF DeleteRow
    <3>2. ASSUME NEW n \in Limits, ChangePlan(k, n)
          PROVE  \/ limit'[j] = limit[j] \/ limit'[j] = Unlimited
                 \/ (limit[j] # Unlimited /\ limit'[j] >= limit[j] /\ limit'[j] \in Int)
      <4>1. limit' = [limit EXCEPT ![k] = n] /\ n \in Int /\ limit[j] \in Int
            /\ limit \in [ResourceKinds -> Limits]
        BY <3>2, LimitsAssumption DEF ChangePlan, ResourcesTypeOK
      <4>2. j = k => n = Unlimited \/ (limit[k] # Unlimited /\ n >= limit[k])
        BY <3>2, <4>1 DEF ChangePlan
      <4> QED
        BY <4>1, <4>2
    <3> QED
      BY <3>1, <3>2
  <2>4. /\ \A a, b \in Counted(j) : a = b
        /\ Limited(j) /\ Counted(j) # {} => rows[j] < limit[j]
        /\ Limited(j) => rows[j] = 0 \/ rows[j] <= limit[j]
    BY <2>2 DEF RoomIsKept
  <2>5. Limited(j)' => Limited(j) /\ limit'[j] >= limit[j] /\ limit'[j] \in Int
    BY <1>1, <2>2, <2>3 DEF Limited
  <2> QED
    BY <2>1, <2>2, <2>4, <2>5
<1> QED
  BY <1>2, <1>3, <1>4

\* A step of updateWebhook.
LEMMA HookKept ==
  ASSUME ResourcesInv, NEW u \in HookUpdates,
         WriteHook(u) \/ \E names \in SUBSET HookFields : ReadHook(u, names)
  PROVE  ResourcesInv'
<1> USE DEF ResourcesInv
<1>1. UNCHANGED << countedVars, bookVars >>
  BY DEF WriteHook, ReadHook
<1>2. GrantsClient' /\ RoomIsKept'
  BY <1>1 DEF GrantsClient, RoomIsKept, Counted, Limited, countedVars
<1>3. unsure \subseteq unsure' /\ unsure' \subseteq unsure \cup {"hook"}
  BY DEF WriteHook, ReadHook
<1>4. BookAsRead'
  BY <1>1, <1>3 DEF BookAsRead, bookVars
<1>5. hookUpdate[u] \in [pc : { "new", "read", "over" }, names : SUBSET HookFields,
                        read : [HookFields -> HookUpdates \cup {"made"}]]
  BY DEF ResourceShape
<1>6. CASE WriteHook(u)
  <2>1. hookRow' \in [HookFields -> HookUpdates \cup {"made"}]
        /\ meant' \in [HookFields -> HookUpdates \cup {"made"}]
    BY <1>5, <1>6 DEF WriteHook, Fields, ResourcesTypeOK
  <2>2. hookUpdate' \in [HookUpdates -> [pc : { "new", "read", "over" }, names : SUBSET HookFields,
                                        read : [HookFields -> HookUpdates \cup {"made"}]]]
    BY <1>5, <1>6 DEF WriteHook, ResourceShape
  <2>3. ResourceShape' /\ ResourcesTypeOK'
    BY <1>1, <1>3, <2>1, <2>2 DEF ResourceShape, ResourcesTypeOK, countedVars, bookVars
  <2>4. HookAsRead'
    <3> SUFFICES ASSUME "hook" \notin unsure' PROVE HookAsRead'
      BY DEF HookAsRead
    <3>1. hookRow = meant /\ hookUpdate[u].read = hookRow
      BY <1>3, <1>6 DEF HookAsRead, WriteHook
    <3>2. hookRow' = meant'
      BY <1>6, <3>1 DEF WriteHook, Fields
    <3>3. \A z \in HookUpdates : hookUpdate'[z].pc # "read"
      BY <1>3, <1>5, <1>6 DEF HookAsRead, WriteHook, ResourceShape
    <3> QED
      BY <3>2, <3>3 DEF HookAsRead
  <2> QED
    BY <1>2, <1>4, <2>3, <2>4
<1>7. ASSUME NEW names \in SUBSET HookFields, ReadHook(u, names) PROVE ResourcesInv'
  <2>1. hookUpdate' \in [HookUpdates -> [pc : { "new", "read", "over" }, names : SUBSET HookFields,
                                        read : [HookFields -> HookUpdates \cup {"made"}]]]
    BY <1>5, <1>7, SMTT(30) DEF ReadHook, ResourceShape, ResourcesTypeOK
  <2>2. hookRow' = hookRow /\ meant' = meant
    BY <1>7 DEF ReadHook
  <2>3. ResourceShape' /\ ResourcesTypeOK'
    BY <1>1, <1>3, <2>1, <2>2 DEF ResourceShape, ResourcesTypeOK, countedVars, bookVars
  <2>4. HookAsRead'
    <3> SUFFICES ASSUME "hook" \notin unsure' PROVE HookAsRead'
      BY DEF HookAsRead
    <3>1. \A z \in HookUpdates : hookUpdate[z].pc # "read"
      BY <1>7 DEF ReadHook
    <3>2. \A z \in HookUpdates : z # u => hookUpdate'[z] = hookUpdate[z]
      BY <1>7 DEF ReadHook, ResourceShape
    <3>3. hookUpdate'[u].pc = "read" => hookUpdate'[u].read = hookRow
      BY <1>5, <1>7 DEF ReadHook, ResourceShape
    <3> QED
      BY <1>3, <2>2, <3>1, <3>2, <3>3 DEF HookAsRead
  <2> QED
    BY <1>2, <1>4, <2>3, <2>4
<1> QED
  BY <1>6, <1>7

\* A step of updateContactBook.
LEMMA BookKept ==
  ASSUME ResourcesInv, NEW u \in BookUpdates,
         \/ WriteBook(u)
         \/ \E enabled \in { "unset", "on", "off" }, content \in { "unset", "empty", "own", "other" } :
              ReadBook(u, enabled, content)
  PROVE  ResourcesInv'
<1> USE DEF ResourcesInv
<1>1. UNCHANGED << countedVars, hookVars >>
  BY DEF WriteBook, ReadBook
<1>2. GrantsClient' /\ RoomIsKept'
  BY <1>1 DEF GrantsClient, RoomIsKept, Counted, Limited, countedVars
<1>3. unsure \subseteq unsure' /\ unsure' \subseteq unsure \cup {"book"}
  BY DEF WriteBook, ReadBook
<1>4. HookAsRead'
  BY <1>1, <1>3 DEF HookAsRead, hookVars
<1>5. bookUpdate[u] \in [pc : { "new", "write", "over" }, enabled : { "unset", "on", "off" },
                        content : { "unset", "empty", "own", "other" }, found : BOOLEAN]
  BY DEF ResourceShape
<1>6. CASE WriteBook(u)
  <2>1. Content(bookUpdate[u]) \in { "none", "default", "own" }
        /\ (book.content # "none" => Content(bookUpdate[u]) # "none")
    BY <1>5 DEF Content, ResourceShape
  <2>2. /\ book'.enabled = (IF bookUpdate[u].enabled = "unset" THEN book.enabled
                            ELSE bookUpdate[u].enabled = "on")
        /\ book'.content = Content(bookUpdate[u])
        /\ book'.by = (IF bookUpdate[u].content \in {"own", "empty"} THEN bookUpdate[u].content
                       ELSE book.by)
        /\ book' \in [enabled : BOOLEAN, content : { "none", "default", "own" },
                      by : { "made", "own", "empty" }]
    BY <1>5, <1>6, <2>1 DEF WriteBook, ResourceShape
  <2>3. /\ bookUpdate' = [bookUpdate EXCEPT ![u].pc = "over"]
        /\ bookUpdate[u].pc = "write" /\ unsure' = unsure
    BY <1>6 DEF WriteBook
  <2>4. ResourceShape' /\ ResourcesTypeOK'
    <3>1. bookUpdate' \in [BookUpdates -> [pc : { "new", "write", "over" },
                                          enabled : { "unset", "on", "off" },
                                          content : { "unset", "empty", "own", "other" },
                                          found : BOOLEAN]]
      BY <1>5, <2>3 DEF ResourceShape
    <3> QED
      BY <1>1, <1>3, <2>2, <3>1 DEF ResourceShape, ResourcesTypeOK, countedVars, hookVars
  <2>5. \A z \in BookUpdates : bookUpdate'[z].pc = "write" => z # u /\ bookUpdate'[z] = bookUpdate[z]
    BY <1>5, <2>3 DEF ResourceShape
  <2>6. book'.enabled => book'.content # "none"
    BY <1>5, <2>1, <2>2, <2>3 DEF BookAsRead, Content
  <2>7. \A z \in BookUpdates :
          bookUpdate'[z].pc = "write" =>
            /\ bookUpdate'[z].content # "other"
            /\ bookUpdate'[z].found /\ bookUpdate'[z].enabled = "on" => book'.content # "none"
    BY <2>1, <2>2, <2>5 DEF BookAsRead
  <2>8. ASSUME "book" \notin unsure'
        PROVE  /\ book'.by = "own" => book'.content = "own"
               /\ \A z \in BookUpdates : bookUpdate'[z].pc # "write"
    <3>1. book.by = "own" => book.content = "own"
      BY <1>3, <2>8 DEF BookAsRead
    <3>2. ~bookUpdate[u].found => book.content = "none"
      BY <1>3, <2>3, <2>8 DEF BookAsRead
    <3>3. bookUpdate[u].content # "other"
      BY <2>3 DEF BookAsRead
    <3>4. book'.by = "own" => book'.content = "own"
      BY <1>5, <2>2, <3>1, <3>2, <3>3 DEF Content
    <3>5. \A z \in BookUpdates : bookUpdate'[z].pc # "write"
      BY <1>3, <2>3, <2>5, <2>8 DEF BookAsRead
    <3> QED
      BY <3>4, <3>5
  <2> QED
    BY <1>2, <1>4, <2>4, <2>6, <2>7, <2>8 DEF BookAsRead
<1>7. ASSUME NEW enabled \in { "unset", "on", "off" }, NEW content \in { "unset", "empty", "own", "other" },
             ReadBook(u, enabled, content)
      PROVE  ResourcesInv'
  <2>1. bookUpdate' = [bookUpdate EXCEPT ![u] =
          [pc |-> IF content = "other" THEN "over" ELSE "write", enabled |-> enabled,
           content |-> content, found |-> enabled # "on" \/ book.content # "none"]]
    BY <1>7 DEF ReadBook
  <2>2. book' = book /\ bookUpdate[u].pc = "new"
    BY <1>7 DEF ReadBook
  <2>3. ResourceShape' /\ ResourcesTypeOK'
    <3>1. bookUpdate' \in [BookUpdates -> [pc : { "new", "write", "over" },
                                          enabled : { "unset", "on", "off" },
                                          content : { "unset", "empty", "own", "other" },
                                          found : BOOLEAN]]
      BY <2>1 DEF ResourceShape
    <3> QED
      BY <1>1, <1>3, <2>2, <3>1 DEF ResourceShape, ResourcesTypeOK, countedVars, hookVars
  <2>4. /\ \A z \in BookUpdates : z # u => bookUpdate'[z] = bookUpdate[z]
        /\ bookUpdate'[u].pc = "write" => bookUpdate'[u].content # "other"
        /\ bookUpdate'[u].found = (bookUpdate'[u].enabled # "on" \/ book.content # "none")
    BY <2>1 DEF ResourceShape
  <2>5. "book" \notin unsure' => \A z \in BookUpdates : bookUpdate[z].pc # "write"
    BY <1>7 DEF ReadBook
  <2>6. BookAsRead'
    <3>1. \A z \in BookUpdates :
            bookUpdate'[z].pc = "write" =>
              /\ bookUpdate'[z].content # "other"
              /\ bookUpdate'[z].found /\ bookUpdate'[z].enabled = "on" => book'.content # "none"
      BY <2>2, <2>4 DEF BookAsRead
    <3>2. ASSUME "book" \notin unsure'
          PROVE  /\ book'.by = "own" => book'.content = "own"
                 /\ \A z \in BookUpdates : bookUpdate'[z].pc = "write" => z = u
                 /\ ~bookUpdate'[u].found => book'.content = "none"
      BY <1>3, <2>2, <2>4, <2>5, <3>2 DEF BookAsRead
    <3>3. book'.enabled => book'.content # "none"
      BY <2>2 DEF BookAsRead
    <3> QED
      BY <3>1, <3>2, <3>3 DEF BookAsRead
  <2> QED
    BY <1>2, <1>4, <2>3, <2>6
<1> QED
  BY <1>6, <1>7

LEMMA ResourcesInvNext == ResourcesInv /\ [ResourcesNext]_resourceVars => ResourcesInv'
<1> SUFFICES ASSUME ResourcesInv, [ResourcesNext]_resourceVars PROVE ResourcesInv'
  OBVIOUS
<1>1. CASE CreationStep
  BY <1>1, CreationKept, ChangeKept DEF CreationStep
<1>2. CASE HookUpdateStep
  BY <1>2, HookKept DEF HookUpdateStep
<1>3. CASE BookUpdateStep
  BY <1>3, BookKept DEF BookUpdateStep
<1>4. CASE UNCHANGED resourceVars
  BY <1>4 DEF resourceVars, ResourcesInv, ResourcesTypeOK, ResourceShape, GrantsClient, RoomIsKept,
              Counted, Limited, HookAsRead, BookAsRead
<1> QED
  BY <1>1, <1>2, <1>3, <1>4 DEF ResourcesNext

LEMMA ResourcesImplied == ResourcesInv => ResourcesHold
<1> SUFFICES ASSUME ResourcesInv PROVE ResourcesHold
  OBVIOUS
<1>1. WithinLimit
  BY DEF ResourcesInv, RoomIsKept, WithinLimit, Limited
<1>2. FieldsAreMeant
  BY DEF ResourcesInv, HookAsRead, FieldsAreMeant
<1>3. OptInHasContent
  BY DEF ResourcesInv, BookAsRead, OptInHasContent
<1> QED
  BY <1>1, <1>2, <1>3 DEF ResourcesInv, ResourcesHold

\* What a team has keeps to its limits and to what was asked of it, whatever
\* the plan becomes and however many requests run at once.
THEOREM ResourcesAlwaysHold == ResourcesSpec => []ResourcesHold
BY ResourcesInvInit, ResourcesInvNext, ResourcesImplied, PTL DEF ResourcesSpec

-----------------------------------------------------------------------------
\* The three share no state: a step of the instance is one of one of them.
LEMMA SetUpSteps ==
  [SetUpNext]_<< teamVars, regVars, resourceVars >> =>
    [TeamNext]_teamVars /\ [RegNext]_regVars /\ [ResourcesNext]_resourceVars
<1> SUFFICES ASSUME [SetUpNext]_<< teamVars, regVars, resourceVars >>
             PROVE  [TeamNext]_teamVars /\ [RegNext]_regVars /\ [ResourcesNext]_resourceVars
  OBVIOUS
<1>1. NoTeamStep => UNCHANGED teamVars
  BY DEF NoTeamStep
<1>2. NoLogin => UNCHANGED regVars
  BY DEF NoLogin
<1>3. NoResourceStep => UNCHANGED resourceVars
  BY DEF NoResourceStep, NothingCreated, HookAsMade, BookAsMade, resourceVars, countedVars, hookVars,
         bookVars
<1>4. ResourceStep => ResourcesNext
  BY DEF ResourceStep, ResourcesNext
<1> QED
  BY <1>1, <1>2, <1>3, <1>4 DEF SetUpNext

\* How people come in, and what a team may have, in the instance that is run
\* as in every other.
THEOREM SetUpAlwaysHolds == SetUpSpec => []SetUpHolds
<1>1. SetUpInit => RegistrationInv /\ ResourcesInv
  BY RegistrationInvInit, ResourcesInvInit DEF SetUpInit
<1>2. RegistrationInv /\ ResourcesInv /\ [SetUpNext]_<< teamVars, regVars, resourceVars >>
      => RegistrationInv' /\ ResourcesInv'
  BY SetUpSteps, RegistrationInvNext, ResourcesInvNext
<1>3. RegistrationInv /\ ResourcesInv => SetUpHolds
  BY RegistrationImplied, ResourcesImplied DEF SetUpHolds
<1> QED
  BY <1>1, <1>2, <1>3, PTL DEF SetUpSpec
=============================================================================
