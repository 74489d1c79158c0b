--------------------------- MODULE PlanCatalogue ---------------------------
(***************************************************************************)
(* The catalogue of plans and PlanService's caches of it.  A team's plan,  *)
(* and a CLIENT's, is resolved from its own row and the plan's and kept    *)
(* for TTL; where it falls back to a plan's key, that lookup has a cache   *)
(* of its own.  The dashboard edits, retires and deletes plans and then    *)
(* drops the caches, except those of CLIENTs; the admin API drops only     *)
(* those of the teams a plan was assigned to.                              *)
(*                                                                         *)
(* Two plans: "free", and "orbita", which teams marked BASIC fall back to   *)
(* and which may be deleted; the team is active.                           *)
(* writes counts the writes; the fields read, made and time of a value,   *)
(* due, outrun, slow and between are history.                           *)
(***************************************************************************)
EXTENDS Naturals

CONSTANTS
  Lookups,     \* requests that look up a plan, one after another each
  TTL,         \* ticks an entry of a cache lives for
  FirstOffers, \* the catalogues there may be at the start
  MaxEvents    \* bound: writes to the catalogue, to teams and to CLIENTs, and ticks

PlanKeys == {"free", "orbita"}
CacheKeys == PlanKeys \cup {"holder"}
Offers == [PlanKeys -> {"active", "retired", "gone"}]
ASSUME CatalogueAssumption == FirstOffers \subseteq Offers /\ TTL \in Nat \ {0} /\ MaxEvents \in Nat

VARIABLES
  offer,     \* offer[k]: the row of plan k: there, active, or gone
  holder,    \* who is looked at, for good: a team or a CLIENT
  assigned,  \* its pricingPlanId is orbita
  basic,     \* it is a team and its legacy plan is BASIC
  activated, \* an activation request names orbita
  cached,    \* cached[c]: [value, left], left ticks before it expires, 0: no entry
  lookup,    \* lookup[l]: [pc, key, value, due]
  edit,      \* the dashboard's operation: [pc, free, found, at, between]
  upsert,    \* the admin API's: [pc, at]
  owed,      \* it was assigned the plan and its entry is still to be dropped
  ticks, writes,
  due,       \* the writes an answer begun now must show
  outrun, \* an entry was dropped while a lookup of it was under way
  slow,      \* a lookup took more than a tick
  bereft     \* a team lost the plan to its deletion, not having got it since the count

holderVars == << holder, assigned, basic, activated >>
rowVars == << offer, holderVars, writes, bereft >>
catalogueVars == << rowVars, cached, lookup, edit, upsert, owed, ticks, due, outrun, slow >>

\* read: writes when the holder was read; made: when the plan was; way: by
\* the holder's pricingPlanId or by a key; time: of the older reading.
NoValue == [of |-> "none", active |-> FALSE, way |-> "id", read |-> 0, made |-> 0, time |-> 0]
NoEntry == [value |-> NoValue, left |-> 0]
NothingDue == [row |-> 0, plan |-> 0, direct |-> 0]
NoLookup == [pc |-> "idle", key |-> "free", value |-> NoValue, due |-> NothingDue]
NoEdit == [pc |-> "idle", free |-> FALSE, found |-> {}, at |-> 0, between |-> FALSE]
NoUpsert == [pc |-> "idle", at |-> 0]
Reading == {"row", "plan", "key", "byKey", "storeKey", "store"}

CatalogueTypeOK ==
  /\ offer \in Offers
  /\ holder \in {"team", "client"}
  /\ assigned \in BOOLEAN /\ basic \in BOOLEAN /\ activated \in BOOLEAN
  /\ \A c \in CacheKeys : cached[c].left \in 0 .. TTL
  /\ \A l \in Lookups : lookup[l].pc \in Reading \cup {"idle", "answered"}
  /\ edit.pc \in {"idle", "counted", "keys", "dropKeys", "teams", "dropTeams"}
  /\ upsert.pc \in {"idle", "drop"} /\ owed \in BOOLEAN
  /\ ticks + writes \in 0 .. MaxEvents

CatalogueInit ==
  /\ offer \in FirstOffers
  /\ holder \in {"team", "client"}
  /\ assigned \in BOOLEAN /\ basic \in BOOLEAN /\ activated \in BOOLEAN
  /\ basic => holder = "team"
  /\ assigned \/ activated => offer["orbita"] # "gone"
  /\ assigned => IF holder = "team" THEN basic ELSE activated
  /\ cached = [c \in CacheKeys |-> NoEntry] /\ lookup = [l \in Lookups |-> NoLookup]
  /\ edit = NoEdit /\ upsert = NoUpsert /\ owed = FALSE
  /\ ticks = 0 /\ writes = 0 /\ due = NothingDue
  /\ outrun = FALSE /\ slow = FALSE /\ bereft = FALSE

Change == ticks + writes < MaxEvents /\ writes' = writes + 1

-----------------------------------------------------------------------------
(* Lookups: getPlanForTeam and getPlanForUser. *)

LookupStep(l) == UNCHANGED << rowVars, edit, upsert, owed, ticks, due, outrun, slow >>
Goes(l, f) == lookup' = [lookup EXCEPT ![l] = f]

\* withCache: an entry that has not expired is the answer.
Hit(c) == cached[c].left > 0
GetCached(l) ==
  /\ lookup[l].pc \in {"idle", "answered"}
  /\ LET start == [NoLookup EXCEPT !.due = due] IN
     Goes(l, IF Hit("holder")
             THEN [start EXCEPT !.pc = "answered", !.value = cached["holder"].value]
             ELSE [start EXCEPT !.pc = "row"])
  /\ UNCHANGED cached /\ LookupStep(l)

\* The holder's row: its plan, or the key it falls back to.
ReadHolder(l) ==
  /\ lookup[l].pc = "row"
  /\ Goes(l, [lookup[l] EXCEPT
       !.pc = IF assigned THEN "plan" ELSE "key",
       !.key = IF basic THEN "orbita" ELSE "free",
       !.value = [NoValue EXCEPT !.read = writes, !.time = ticks]])
  /\ UNCHANGED cached /\ LookupStep(l)

\* A plan that is not active counts as none.
ReadPlan(l) ==
  /\ lookup[l].pc = "plan"
  /\ Goes(l, IF offer["orbita"] = "active"
             THEN [lookup[l] EXCEPT !.pc = "store", !.value =
                     [@ EXCEPT !.of = "orbita", !.active = TRUE, !.made = writes]]
             ELSE [lookup[l] EXCEPT !.pc = "key"])
  /\ UNCHANGED cached /\ LookupStep(l)

\* getPlanByKey, which does not ask whether the plan is active.
GetCachedKey(l) ==
  LET k == lookup[l].key
      old == cached[k].value
      own == lookup[l].value IN
  /\ lookup[l].pc = "key"
  /\ Goes(l, IF Hit(k)
             THEN [lookup[l] EXCEPT !.pc = "store", !.value =
                     [old EXCEPT !.read = own.read,
                                 !.time = IF own.time < @ THEN own.time ELSE @]]
             ELSE [lookup[l] EXCEPT !.pc = "byKey"])
  /\ UNCHANGED cached /\ LookupStep(l)

ReadByKey(l) ==
  LET k == lookup[l].key IN
  /\ lookup[l].pc = "byKey"
  /\ Goes(l, [lookup[l] EXCEPT !.pc = "storeKey", !.value =
       [@ EXCEPT !.of = IF offer[k] = "gone" THEN "none" ELSE k, !.active = offer[k] = "active",
                 !.way = "key", !.made = writes]])
  /\ UNCHANGED cached /\ LookupStep(l)

\* A set that fails is passed over: that nothing is kept is as if it had expired.
Stored(c, v) == cached' = [cached EXCEPT ![c] = [value |-> v, left |-> TTL]]

StoreKey(l) ==
  /\ lookup[l].pc = "storeKey"
  /\ Stored(lookup[l].key, lookup[l].value)
  /\ Goes(l, [lookup[l] EXCEPT !.pc = "store"])
  /\ LookupStep(l)

StoreHolder(l) ==
  /\ lookup[l].pc = "store"
  /\ Stored("holder", lookup[l].value)
  /\ Goes(l, [lookup[l] EXCEPT !.pc = "answered"])
  /\ LookupStep(l)

LookUp(l) ==
  \/ GetCached(l) \/ ReadHolder(l) \/ ReadPlan(l) \/ GetCachedKey(l)
  \/ ReadByKey(l) \/ StoreKey(l) \/ StoreHolder(l)

-----------------------------------------------------------------------------
(* The catalogue's writers. *)

Drop(C) ==
  /\ cached' = [c \in CacheKeys |-> IF c \in C THEN NoEntry ELSE cached[c]]
  /\ outrun' = (outrun \/ \E l \in Lookups : lookup[l].pc \in Reading)

\* create and update: a plan comes, or writes, and may be retired or not.
EditPlan ==
  /\ edit.pc = "idle" /\ Change
  /\ \E k \in PlanKeys, o \in {"active", "retired"} : offer' = [offer EXCEPT ![k] = o]
  /\ edit' = [NoEdit EXCEPT !.pc = "keys", !.at = writes']
  /\ UNCHANGED << holderVars, bereft, cached, lookup, upsert, owed, ticks, due, outrun, slow >>

\* Mutant of Unreferenced: teams are not counted.
UnreferencedByClients == ~ (assigned /\ holder = "client") /\ ~ activated

\* delete: whatever points at the plan is counted first.
Unreferenced == ~ assigned /\ ~ activated

CountReferences ==
  /\ edit.pc = "idle" /\ offer["orbita"] # "gone" /\ ticks + writes < MaxEvents
  /\ edit' = [NoEdit EXCEPT !.pc = "counted", !.free = Unreferenced]
  /\ UNCHANGED << rowVars, cached, lookup, upsert, owed, ticks, due, outrun, slow >>

\* A plan nothing points at is deleted: teams that do by now lose it, and an
\* activation that does keeps it.  One that was pointed at is retired.
DeleteOrRetire ==
  /\ edit.pc = "counted" /\ Change
  /\ IF edit.free /\ activated
     THEN edit' = NoEdit /\ UNCHANGED << offer, assigned, bereft >>
     ELSE /\ edit' = [NoEdit EXCEPT !.pc = "keys", !.at = writes']
          /\ offer' = [offer EXCEPT !["orbita"] = IF edit.free THEN "gone" ELSE "retired"]
          /\ assigned' = (assigned /\ ~ edit.free)
          /\ bereft' = (bereft \/ (edit.free /\ assigned /\ ~ edit.between))
  /\ UNCHANGED << holder, basic, activated, cached, lookup, upsert, owed, ticks, due,
                  outrun, slow >>

\* invalidate: KEYS and then DEL, of the plans' keys and then of the teams.
FindCached ==
  \/ /\ edit.pc = "keys"
     /\ edit' = [edit EXCEPT !.pc = "dropKeys", !.found = { c \in PlanKeys : Hit(c) }]
  \/ /\ edit.pc = "teams"
     /\ edit' = [edit EXCEPT !.pc = "dropTeams", !.found = { c \in {"holder"} : holder = "team" /\ Hit(c) }]
FindEntries ==
  /\ FindCached
  /\ outrun' = (outrun \/ \E l \in Lookups : lookup[l].pc \in Reading)
  /\ UNCHANGED << rowVars, cached, lookup, upsert, owed, ticks, due, slow >>

\* Mutant of DropFound: the teams' entries go first.
DropTeamsFirst ==
  \/ /\ edit.pc = "dropKeys" /\ Drop({ c \in {"holder"} : holder = "team" })
     /\ edit' = [edit EXCEPT !.pc = "teams"] /\ UNCHANGED due
  \/ /\ edit.pc = "dropTeams" /\ Drop(PlanKeys)
     /\ edit' = NoEdit /\ due' = IF holder = "team" THEN [due EXCEPT !.plan = edit.at] ELSE due

DropFound ==
  \/ /\ edit.pc = "dropKeys" /\ Drop(edit.found)
     /\ edit' = [edit EXCEPT !.pc = "teams"] /\ UNCHANGED due
  \/ /\ edit.pc = "dropTeams" /\ Drop(edit.found)
     /\ edit' = NoEdit /\ due' = IF holder = "team" THEN [due EXCEPT !.plan = edit.at] ELSE due
DropEntries ==
  /\ DropFound
  /\ UNCHANGED << rowVars, lookup, upsert, owed, ticks, slow >>

\* The request dies before it has dropped what it would.
EditDies ==
  /\ edit.pc # "idle" /\ edit' = NoEdit
  /\ UNCHANGED << rowVars, cached, lookup, upsert, owed, ticks, due, outrun, slow >>

\* The admin API's PUT and DELETE of a plan: the PUT drops the entries of the
\* teams it is assigned to.
ApiUpsert ==
  /\ upsert.pc = "idle" /\ Change
  /\ \E k \in PlanKeys, o \in {"active", "retired"} :
       /\ offer' = [offer EXCEPT ![k] = o]
       /\ upsert' = IF k = "orbita" THEN [pc |-> "drop", at |-> writes'] ELSE NoUpsert
  /\ UNCHANGED << holderVars, bereft, cached, lookup, edit, owed, ticks, due, outrun, slow >>
ApiDrop ==
  /\ upsert.pc = "drop" /\ upsert' = NoUpsert
  /\ IF assigned /\ holder = "team"
     THEN Drop({"holder"}) /\ due' = [due EXCEPT !.direct = upsert.at]
     ELSE UNCHANGED << cached, outrun, due >>
  /\ UNCHANGED << rowVars, lookup, edit, owed, ticks, slow >>
ApiRetire ==
  /\ Change
  /\ \E k \in PlanKeys : offer[k] # "gone" /\ offer' = [offer EXCEPT ![k] = "retired"]
  /\ UNCHANGED << holderVars, bereft, cached, lookup, edit, upsert, owed, ticks, due,
                  outrun, slow >>

-----------------------------------------------------------------------------
\* A CLIENT asks for the plan.
RequestActivation ==
  /\ ~ activated /\ offer["orbita"] = "active" /\ activated' = TRUE
  /\ UNCHANGED << offer, holder, assigned, basic, writes, bereft, cached, lookup, edit,
                  upsert, owed, ticks, due, outrun, slow >>

\* Assigned to a team by an operator, or to a CLIENT with an approval; the
\* holder's entry is dropped afterwards.
Assign ==
  /\ offer["orbita"] # "gone" /\ (holder = "client" => activated)
  /\ ~ owed /\ owed' = TRUE /\ Change
  /\ assigned' = TRUE /\ basic' = (holder = "team")
  /\ edit' = [edit EXCEPT !.between = edit.pc = "counted"]
  /\ UNCHANGED << offer, holder, activated, bereft, cached, lookup, upsert, ticks, due,
                  outrun, slow >>
DropHolder ==
  /\ owed /\ owed' = FALSE
  /\ Drop({"holder"}) /\ due' = [due EXCEPT !.row = writes]
  /\ UNCHANGED << rowVars, lookup, edit, upsert, ticks, slow >>

\* Mutant of Expired: entries without a TTL.
NotExpired(e) == e
Expired(e) == IF e.left <= 1 THEN NoEntry ELSE [e EXCEPT !.left = @ - 1]

Tick ==
  /\ ticks + writes < MaxEvents /\ ticks' = ticks + 1
  /\ cached' = [c \in CacheKeys |-> Expired(cached[c])]
  /\ slow' = (slow \/ \E l \in Lookups : lookup[l].pc \in Reading)
  /\ UNCHANGED << rowVars, lookup, edit, upsert, owed, due, outrun >>

CatalogueNext ==
  \/ \E l \in Lookups : LookUp(l)
  \/ EditPlan \/ CountReferences \/ DeleteOrRetire \/ FindEntries \/ DropEntries \/ EditDies
  \/ ApiUpsert \/ ApiRetire \/ ApiDrop \/ RequestActivation
  \/ Assign \/ DropHolder
  \/ Tick
CatalogueSpec == CatalogueInit /\ [][CatalogueNext]_catalogueVars

-----------------------------------------------------------------------------
(* Properties. *)

\* No entry is served on readings as old as two TTLs, although an entry may be
\* made from another that is about to expire, unless a lookup took its time.
EntriesAreRecent ==
  ~ slow => \A c \in CacheKeys :
    Hit(c) => ticks - cached[c].value.time <= IF c \in PlanKeys THEN TTL - 1 ELSE 2 * (TTL - 1)

\* Unless an entry was dropped while a lookup was about to set it, an answer
\* begun after an assignment's drop shows the assignment; a team's, begun after
\* the dashboard's, the edit; and after the API's, the edit of its own plan, but
\* not of one it falls back to.
EditsAreSeen ==
  ~ outrun => \A l \in Lookups : lookup[l].pc = "answered" =>
    LET v == lookup[l].value  d == lookup[l].due IN
    /\ v.read >= d.row /\ v.made >= d.plan
    /\ v.way = "id" /\ v.of # "none" => v.made >= d.direct

\* A deletion takes the plan from nobody who had it when it was counted.
NobodyIsBereft == ~ bereft

CatalogueHolds == EntriesAreRecent /\ EditsAreSeen /\ NobodyIsBereft
=============================================================================
