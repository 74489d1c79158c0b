--------------------------- MODULE TeamResources ---------------------------
(***************************************************************************)
(* What a team may have a limited number of: domains, contact books and    *)
(* webhooks.  Each creation counts the rows in one call and inserts its    *)
(* own in a later one.  And what updates make of one webhook and of one    *)
(* contact book: updateWebhook reads the row and writes all of its fields  *)
(* back, updateContactBook fills in what a book without double opt-in has  *)
(* not yet.                                                                *)
(*                                                                         *)
(* A field is known by the update that wrote it.  meant, unsure and        *)
(* exceedable are history.                                                 *)
(***************************************************************************)
EXTENDS Integers, FiniteSets

CONSTANTS
  Limits,      \* the limits a plan may have
  Creations,   \* requests to create one of them
  HookUpdates, \* calls of updateWebhook
  BookUpdates, \* calls of updateContactBook
  MaxChanges   \* bound: plans changed and rows deleted

ASSUME LimitsAssumption == Limits \subseteq Int /\ MaxChanges \in Nat

\* A client's domains are counted by the access rows he has.
ResourceKinds == { "domain", "clientDomain", "book", "webhook" }
HookFields == { "url", "domainIds", "secret" }  \* eventTypes and description are as url
Unlimited == -1

VARIABLES
  isCloud,
  limit,    \* limit[k]: the plan's, of the team or of the client
  rows,     \* rows[k]: how many there are
  creation, \* creation[c]: [pc, kind]
  changes,
  hookRow,  \* hookRow[f]: the update that wrote field f, or "made"
  hookUpdate, \* hookUpdate[u]: [pc, names, read]
  book,     \* [enabled, content, by]
  bookUpdate, \* bookUpdate[u]: [pc, enabled, content, found]
  meant,    \* meant[f]: the last update that named field f
  unsure,   \* updates of one row crossed: {"hook", "book"}
  exceedable \* kinds whose creations crossed, or whose limit was lowered

resourceVars == << isCloud, limit, rows, creation, changes, hookRow, hookUpdate, book,
                   bookUpdate, meant, unsure, exceedable >>
countedVars == << isCloud, limit, rows, creation, changes, exceedable >>
hookVars == << hookRow, hookUpdate, meant >>
bookVars == << book, bookUpdate >>

NoCreation == [pc |-> "new", kind |-> "book"]
NoHookUpdate == [pc |-> "new", names |-> {}, read |-> [f \in HookFields |-> "made"]]
NoBookUpdate == [pc |-> "new", enabled |-> "unset", content |-> "unset", found |-> TRUE]

ResourcesTypeOK ==
  /\ isCloud \in BOOLEAN /\ limit \in [ResourceKinds -> Limits]
  /\ rows \in [ResourceKinds -> Nat] /\ changes \in 0 .. MaxChanges
  /\ \A c \in Creations : creation[c].pc \in { "new", "counted", "granting", "over" }
  /\ hookRow \in [HookFields -> HookUpdates \cup {"made"}]
  /\ \A u \in HookUpdates : hookUpdate[u].pc \in { "new", "read", "over" }
  /\ book.enabled \in BOOLEAN /\ book.content \in { "none", "default", "own" }
  /\ \A u \in BookUpdates : bookUpdate[u].pc \in { "new", "write", "over" }
  /\ meant \in [HookFields -> HookUpdates \cup {"made"}]
  /\ unsure \subseteq { "hook", "book" } /\ exceedable \subseteq ResourceKinds

\* createContactBook enables double opt-in with the default content; a book
\* from before has neither.
ResourcesInit ==
  /\ isCloud \in BOOLEAN /\ \E n \in Limits : limit = [k \in ResourceKinds |-> n]
  /\ rows = [k \in ResourceKinds |-> 0]
  /\ creation = [c \in Creations |-> NoCreation] /\ changes = 0
  /\ hookRow = [f \in HookFields |-> "made"] /\ meant = hookRow
  /\ hookUpdate = [u \in HookUpdates |-> NoHookUpdate]
  /\ book \in { [enabled |-> TRUE, content |-> "default", by |-> "made"],
                [enabled |-> FALSE, content |-> "none", by |-> "made"] }
  /\ bookUpdate = [u \in BookUpdates |-> NoBookUpdate]
  /\ unsure = {} /\ exceedable = {}

-----------------------------------------------------------------------------
(* Creations. *)

\* Mutant of IsLimitExceeded: one more than the limit.
IsLimitExceededLate(current, most) == most # Unlimited /\ current > most

IsLimitExceeded(current, most) == most # Unlimited /\ current >= most

\* Off the cloud only a client is limited.
LimitReached(k) ==
  /\ isCloud \/ k = "clientDomain"
  /\ IsLimitExceeded(rows[k], limit[k])

CountRows(c) ==
  /\ creation[c].pc = "new"
  /\ \E k \in ResourceKinds :
       /\ creation' = [creation EXCEPT ![c] =
            [pc |-> IF LimitReached(k) THEN "over" ELSE "counted", kind |-> k]]
       /\ exceedable' = exceedable \cup
            IF \E d \in Creations : creation[d].pc \in {"counted", "granting"} /\ creation[d].kind = k
            THEN {k} ELSE {}
  /\ UNCHANGED << isCloud, limit, rows, changes, hookVars, bookVars, unsure >>

\* A client's domain is one of the team's, whose limit nobody asked, before
\* the row is there that gives the client access to it; or the process dies.
InsertRow(c) ==
  /\ creation[c].pc = "counted"
  /\ LET k == creation[c].kind
         j == IF k = "clientDomain" THEN "domain" ELSE k IN
     /\ rows' = [rows EXCEPT ![j] = @ + 1]
     /\ exceedable' = IF j = k THEN exceedable ELSE exceedable \cup {j}
     /\ \E next \in IF j = k THEN {"over"} ELSE {"granting", "over"} :
          creation' = [creation EXCEPT ![c].pc = next]
  /\ UNCHANGED << isCloud, limit, changes, hookVars, bookVars, unsure >>

GrantCreator(c) ==
  /\ creation[c].pc = "granting"
  /\ rows' = [rows EXCEPT !["clientDomain"] = @ + 1]
  /\ creation' = [creation EXCEPT ![c].pc = "over"]
  /\ UNCHANGED << isCloud, limit, changes, hookVars, bookVars, unsure, exceedable >>

\* The plan is another one; contact books, webhooks and domains are deleted.
ChangePlan(k, n) ==
  /\ changes < MaxChanges /\ n # limit[k]
  /\ limit' = [limit EXCEPT ![k] = n]
  /\ exceedable' = IF n # Unlimited /\ (limit[k] = Unlimited \/ n < limit[k])
                   THEN exceedable \cup {k} ELSE exceedable
  /\ changes' = changes + 1
  /\ UNCHANGED << isCloud, rows, creation, hookVars, bookVars, unsure >>

DeleteRow(k) ==
  /\ changes < MaxChanges /\ k \in {"book", "webhook"} /\ rows[k] > 0
  /\ rows' = [rows EXCEPT ![k] = @ - 1]
  /\ changes' = changes + 1
  /\ UNCHANGED << isCloud, limit, creation, hookVars, bookVars, unsure, exceedable >>

-----------------------------------------------------------------------------
(* updateWebhook. *)

\* The row is read, and the domains named are looked for; one that is missing
\* ends the call.
ReadHook(u, names) ==
  /\ hookUpdate[u].pc = "new"
  /\ \/ hookUpdate' = [hookUpdate EXCEPT ![u] = [pc |-> "read", names |-> names, read |-> hookRow]]
     \/ /\ "domainIds" \in names
        /\ hookUpdate' = [hookUpdate EXCEPT ![u].pc = "over"]
  /\ unsure' = unsure \cup IF \E z \in HookUpdates : hookUpdate[z].pc = "read" THEN {"hook"} ELSE {}
  /\ UNCHANGED << countedVars, hookRow, meant, bookVars >>

\* Mutant of Fields: what is not named is reset.
FieldsReset(u) == [f \in HookFields |-> IF f \in hookUpdate[u].names THEN u ELSE "made"]

\* params.url ?? webhook.url, and so on for each of them.
Fields(u) == [f \in HookFields |-> IF f \in hookUpdate[u].names THEN u ELSE hookUpdate[u].read[f]]

WriteHook(u) ==
  /\ hookUpdate[u].pc = "read"
  /\ hookRow' = Fields(u)
  /\ meant' = [f \in HookFields |-> IF f \in hookUpdate[u].names THEN u ELSE meant[f]]
  /\ hookUpdate' = [hookUpdate EXCEPT ![u].pc = "over"]
  /\ UNCHANGED << countedVars, bookVars, unsure >>

-----------------------------------------------------------------------------
(* updateContactBook. *)

\* A content without the placeholder ends the call, an empty one is the
\* default; enabling reads whether the book has one.  Name, subject and the
\* address it is mailed from are left out; the subject goes as the content.
ReadBook(u, enabled, content) ==
  /\ bookUpdate[u].pc = "new"
  /\ bookUpdate' = [bookUpdate EXCEPT ![u] =
       [pc |-> IF content = "other" THEN "over" ELSE "write", enabled |-> enabled,
        content |-> content, found |-> enabled # "on" \/ book.content # "none"]]
  /\ unsure' = unsure \cup IF \E z \in BookUpdates : bookUpdate[z].pc = "write" THEN {"book"} ELSE {}
  /\ UNCHANGED << countedVars, hookVars, book >>

\* Mutant of Content: a book that is enabled is taken to have a content.
ContentUnfilled(b) ==
  CASE b.content = "empty" -> "default"
    [] b.content = "own" -> "own"
    [] OTHER -> book.content

Content(b) ==
  CASE b.content = "empty" \/ (b.content = "unset" /\ ~b.found) -> "default"
    [] b.content = "own" -> "own"
    [] OTHER -> book.content

WriteBook(u) ==
  /\ bookUpdate[u].pc = "write"
  /\ LET b == bookUpdate[u] IN
       book' = [enabled |-> IF b.enabled = "unset" THEN book.enabled ELSE b.enabled = "on",
                content |-> Content(b),
                by |-> IF b.content \in {"own", "empty"} THEN b.content ELSE book.by]
  /\ bookUpdate' = [bookUpdate EXCEPT ![u].pc = "over"]
  /\ UNCHANGED << countedVars, hookVars, unsure >>

CreationStep ==
  \/ \E c \in Creations : CountRows(c) \/ InsertRow(c) \/ GrantCreator(c)
  \/ \E k \in ResourceKinds : DeleteRow(k) \/ (\E n \in Limits : ChangePlan(k, n))
HookUpdateStep ==
  \E u \in HookUpdates : WriteHook(u) \/ (\E names \in SUBSET HookFields : ReadHook(u, names))
BookUpdateStep ==
  \E u \in BookUpdates :
    \/ WriteBook(u)
    \/ \E enabled \in { "unset", "on", "off" }, content \in { "unset", "empty", "own", "other" } :
         ReadBook(u, enabled, content)
ResourcesNext == CreationStep \/ HookUpdateStep \/ BookUpdateStep

ResourcesSpec == ResourcesInit /\ [][ResourcesNext]_resourceVars

-----------------------------------------------------------------------------
(* Properties. *)

\* A team has no more of a kind than its plan allows, and none where the plan
\* has a negative number, which the admin API takes, unless two creations
\* crossed, the limit was lowered, or a client's domain, which only the
\* client's own limit counts, was added to the team's.
WithinLimit ==
  \A k \in ResourceKinds :
    (isCloud \/ k = "clientDomain") /\ limit[k] # Unlimited
    => rows[k] = 0 \/ rows[k] <= limit[k] \/ k \in exceedable

\* A webhook's field, its secret above all, is what the last update that named
\* it made it, unless updates crossed: each writes back the fields it has read.
FieldsAreMeant == "hook" \notin unsure => hookRow = meant

\* Double opt-in that is enabled has a content to mail, and a content of the
\* book's own gives way to the default only if an update says so, or two of
\* them crossed.
OptInHasContent ==
  /\ book.enabled => book.content # "none"
  /\ book.by = "own" /\ "book" \notin unsure => book.content = "own"

ResourcesHold == ResourcesTypeOK /\ WithinLimit /\ FieldsAreMeant /\ OptInHasContent
=============================================================================
