------------------------- MODULE MCTeamMembership --------------------------
(* An instance of TeamMembership: one team of two admins to begin with, a  *)
(* second that may be founded.  Beside it one of Registration, three       *)
(* logins of two people of whom one has no address, and one of             *)
(* TeamResources.  They share no state and a behaviour follows one of      *)
(* them, of the last only its creations, its webhook or its book.          *)
EXTENDS TeamMembership, Registration, TeamResources, TLC

CONSTANTS t1, u1, u2, h1, h2, l1

HomeT1 == [d \in Domains |-> t1]
TwoAdmins == [t \in Teams |-> [u \in Users |-> IF t = t1 /\ u \in {u1, u2} THEN "ADMIN" ELSE "none"]]
RequestSymmetry == Permutations(Requests)

SomeLimits == { Unlimited, 0, 1 }

WhoLogsIn == [l \in Logins |-> IF l = l1 THEN h1 ELSE h2]

NoTeamStep == tally = 0 /\ UNCHANGED teamVars
NoLogin == ~cloud /\ login = [l \in Logins |-> "new"] /\ invitings = 0 /\ UNCHANGED regVars

NothingCreated ==
  /\ isCloud /\ changes = 0 /\ creation = [c \in Creations |-> NoCreation]
  /\ \A k \in ResourceKinds : limit[k] = Unlimited
  /\ UNCHANGED countedVars
HookAsMade == hookUpdate = [u \in HookUpdates |-> NoHookUpdate] /\ UNCHANGED hookVars
BookAsMade ==
  bookUpdate = [u \in BookUpdates |-> NoBookUpdate] /\ ~book.enabled /\ UNCHANGED bookVars
ResourceStep ==
  \/ CreationStep /\ HookAsMade /\ BookAsMade
  \/ HookUpdateStep /\ NothingCreated /\ BookAsMade
  \/ BookUpdateStep /\ NothingCreated /\ HookAsMade
NoResourceStep == NothingCreated /\ HookAsMade /\ BookAsMade /\ UNCHANGED unsure

SetUpInit == TeamInit /\ RegInit /\ ResourcesInit
SetUpNext ==
  \/ NoLogin /\ NoResourceStep /\ TeamNext
  \/ NoTeamStep /\ NoResourceStep /\ RegNext
  \/ NoTeamStep /\ NoLogin /\ ResourceStep
SetUpSpec == SetUpInit /\ [][SetUpNext]_<< teamVars, regVars, resourceVars >>

\* How people come in, and what a team may have.
SetUpHolds == RegistrationHolds /\ ResourcesHold
============================================================================
