--------------------------- MODULE ContentEditing ---------------------------
(***************************************************************************)
(* What a mail says: a campaign's or a template's content on its way from  *)
(* the editor page, which saves a second after the last change, through    *)
(* updateCampaign, which renders it, and scheduleCampaign, which renders   *)
(* and checks it again, to the mail the batch makes of it for a contact.   *)
(*                                                                         *)
(* A document is a tree of nodes; of their strings only what the           *)
(* unsubscribe placeholder needs is kept: "token" is                       *)
(* {{unsend_unsubscribe_url}}, "spaced" the same with blanks inside the    *)
(* braces, "name" the name without braces, "default" a variable printed    *)
(* with its fallback, "url" the contact's own address.  Order and layout   *)
(* are left out: an html is the set of its pieces.                         *)
(* saved, dropped, crossed, renamed and passed are history.                *)
(***************************************************************************)
EXTENDS Naturals, FiniteSets

CONSTANTS
  Documents,       \* what a content column may hold
  EditorDocuments, \* those the editor can make
  Drafts,          \* what API requests give: [content, html]
  Duplicated,      \* bound: the drafts of these that are duplicated
  Senders,         \* a from address, and the domain it is of
  Saves,           \* calls of updateCampaign or updateTemplate
  MaxDepth,        \* bound: levels of nodes below a document's root
  MaxEdits,        \* bound: changes typed
  MaxFailures      \* bound: saves that fail

ASSUME DocumentsAssumption == EditorDocuments \subseteq Documents
ASSUME EditsAssumption == MaxDepth \in Nat /\ MaxEdits \in Nat /\ MaxFailures \in Nat

VARIABLES
  what,     \* "campaign", "api" (one made by the API), "copy" (of such a one) or "template"
  row,      \* [status, content, html, from, domain]
  page,     \* [open, shown, timer, dot]: dot is isSaving, the yellow one
  save,     \* save[s]: [pc, kind, to, domain, nr]
  schedule, \* the scheduleCampaign under way: [pc, row, html]
  mail,     \* the last mail made: [content, html, from, domain, pieces]
  typed, failures,
  saved,     \* nr of the save whose content the row has
  dropped,     \* a change dropped or overwritten: {"left", "failed", "reordered"}
  crossed,  \* "saves" or "schedule": what an update of the row has crossed
  renamed,  \* the template's name or subject was saved after its content
  passed    \* [content, html] as the last schedule has checked them

editVars == << what, row, page, save, schedule, mail, typed, failures,
               saved, dropped, crossed, renamed, passed >>

-----------------------------------------------------------------------------
(* The renderer. *)

TextBlocks == { "unsubscribeFooter", "paragraph", "heading", "blockquote" }
ListBlocks == { "orderedList", "bulletList", "listItem" }
Blocks == { "doc" } \cup TextBlocks \cup ListBlocks
Blanks == { "horizontalRule", "spacer", "hardBreak" }
Leaves == Blanks \cup { "text", "variable", "button", "image", "logo", "codeBlock" }

\* value: its text, alt or id; link: its mark's href, url, externalLink or fallback.
Node(type, value, link, content) ==
  [type |-> type, value |-> value, link |-> link, content |-> content]
NoContent == Node("none", "words", "none", {})

Tokens == { "token", "spaced" }  \* what the placeholder's regular expression finds

\* Mutant of Href: only the texts are replaced.
HrefAsIs(link, replace) == link

\* The hrefs of links and buttons are looked up as they stand.
Href(link, replace) == IF replace /\ link \in {"token", "name"} THEN "url" ELSE link

Variable(id, fallback, replace) ==
  CASE replace /\ id = "name" -> "url"
    [] replace /\ id # "name" /\ fallback # "none" -> fallback
    [] ~replace /\ fallback # "none" -> "default"
    [] OTHER -> IF id = "name" THEN "token" ELSE id

\* Of the marks only a link changes what the text says.
TextPieces(node, replace) ==
  { << "text", node.value >> }
  \cup IF node.link = "none" THEN {} ELSE { << "href", Href(node.link, replace) >> }
ButtonPieces(node, replace) ==
  { << "text", node.value >>, << "href", Href(node.link, replace) >> }
LogoPieces(node) == { << "text", node.value >> }
\* The link around an image is copied.
ImagePieces(node) ==
  { << "text", node.value >> } \cup IF node.link = "none" THEN {} ELSE { << "around", node.link >> }
CodePieces(node) == { << "text", child.value >> : child \in node.content }

\* The nodes of a tree that are come to by opening some of them, level by level.
Opened(root, Opens(_)) ==
  LET seen[n \in Nat] ==
        IF n = 0 THEN {root}
        ELSE UNION { {node} \cup IF Opens(node) THEN node.content ELSE {} : node \in seen[n - 1] }
  IN seen[MaxDepth]
Nodes(root) == Opened(root, LAMBDA node : TRUE)
RenderedNodes(root) == Opened(root, LAMBDA node : node.type \in Blocks)

ASSUME DepthAssumption ==
  \A doc \in Documents : \A node \in Nodes(doc) : node.content \subseteq Nodes(doc)

\* A node or mark type the renderer has no method for throws.
Renderable(content) == \A node \in RenderedNodes(content) : node.type \in Blocks \cup Leaves

\* All strings of the content, as its JSON has them.
Strings(content) == UNION { { node.value, node.link } : node \in Nodes(content) }

NodePieces(node, replace) ==
  CASE node.type = "text" -> TextPieces(node, replace)
    [] node.type = "variable" -> { << "text", Variable(node.value, node.link, replace) >> }
    [] node.type = "button" -> ButtonPieces(node, replace)
    [] node.type = "image" -> ImagePieces(node)
    [] node.type = "logo" -> LogoPieces(node)
    [] node.type = "codeBlock" -> CodePieces(node)
    [] OTHER -> {}
Pieces(content, replace) == UNION { NodePieces(node, replace) : node \in RenderedNodes(content) }

\* The page around it is never empty.
Rendered(content) == { << "page", "words" >> } \cup Pieces(content, FALSE)

HasPlaceholder(content, html) ==
  \/ content # NoContent /\ Strings(content) \cap Tokens # {}
  \/ \E piece \in html : piece[2] \in Tokens

\* renderCampaignHtmlForContact
Personal(content, html) ==
  IF content # NoContent
    THEN { << "page", "words" >> } \cup Pieces(content, TRUE)
    ELSE { << piece[1], IF piece[2] \in Tokens THEN "url" ELSE piece[2] >> : piece \in html }

-----------------------------------------------------------------------------
NoSave == [pc |-> "none", kind |-> "other", doc |-> NoContent, from |-> "none",
           domain |-> "none", nr |-> 0]
NoLetter == [content |-> NoContent, html |-> {}, from |-> "none", domain |-> "none",
           pieces |-> {}]
NoDraft == [content |-> NoContent, html |-> {}]
NoSchedule(r) == [pc |-> "none", row |-> r, html |-> {}]

ASSUME DraftsAssumption ==
  Duplicated \subseteq Drafts /\ \A draft \in Drafts : draft.content \in Documents \cup {NoContent}

EditTypeOK ==
  /\ what \in { "campaign", "api", "copy", "template" }
  /\ row.status \in { "DRAFT", "SCHEDULED" }
  /\ row.content \in Documents \cup {NoContent}
  /\ row.from \in Senders /\ row.domain \in Senders
  /\ page.open \in BOOLEAN /\ page.timer \in BOOLEAN /\ page.dot \in BOOLEAN
  /\ page.timer => page.open
  /\ \A s \in Saves : save[s].pc \in { "none", "asked", "read", "written", "over" }
  /\ schedule.pc \in { "none", "read", "prepared", "checked", "over" }
  /\ typed \in 0 .. MaxEdits /\ failures \in 0 .. MaxFailures /\ saved \in 0 .. MaxEdits
  /\ dropped \subseteq { "left", "failed", "reordered" }
  /\ crossed \subseteq { "saves", "schedule" }

\* createCampaign and createTemplate begin empty; createCampaignFromApi takes a
\* content, an html or both, with the placeholder in one of them.  A duplicate
\* of such a campaign has the same and can be edited.
EditInit ==
  /\ what \in { "campaign", "api", "copy", "template" }
  /\ \E f \in Senders, draft \in Drafts \cup {NoDraft} :
       /\ CASE what = "api" -> draft \in Drafts
            [] what = "copy" -> draft \in Duplicated
            [] OTHER -> draft = NoDraft
       /\ what \in { "api", "copy" } => HasPlaceholder(draft.content, draft.html)
       /\ row = [status |-> "DRAFT", content |-> draft.content, html |-> draft.html,
                 from |-> f, domain |-> f]
  /\ page = [open |-> what # "api", shown |-> row.content, timer |-> FALSE, dot |-> FALSE]
  /\ save = [s \in Saves |-> NoSave] /\ schedule = NoSchedule(row) /\ mail = NoLetter
  /\ typed = 0 /\ failures = 0 /\ saved = 0 /\ dropped = {} /\ crossed = {}
  /\ renamed = FALSE /\ passed = [content |-> NoContent, html |-> {}]

\* Mutant of Type: a change during the second that is counted counts no new one.
TypeLeading(doc) ==
  /\ page.open /\ typed < MaxEdits /\ doc # page.shown
  /\ page' = [page EXCEPT !.shown = doc, !.timer = ~page.dot, !.dot = TRUE]
  /\ typed' = typed + 1
  /\ UNCHANGED << what, row, save, schedule, mail, failures, saved, dropped, crossed,
                  renamed, passed >>

\* onUpdate of the editor
Type(doc) ==
  /\ page.open /\ typed < MaxEdits /\ doc # page.shown
  /\ page' = [page EXCEPT !.shown = doc, !.timer = TRUE, !.dot = TRUE]
  /\ typed' = typed + 1
  /\ UNCHANGED << what, row, save, schedule, mail, failures, saved, dropped, crossed,
                  renamed, passed >>

\* A save asks; calls of one page are not kept in order.
Ask(s, kind, f) ==
  /\ save[s].pc = "none"
  /\ save' = [save EXCEPT ![s] =
       [pc |-> "asked", kind |-> kind, doc |-> page.shown, from |-> f,
        domain |-> "none", nr |-> typed]]

\* The debounced callback, a second after the last change.
SaveContent(s) ==
  /\ page.timer /\ Ask(s, "content", row.from)
  /\ page' = [page EXCEPT !.timer = FALSE]
  /\ UNCHANGED << what, row, schedule, mail, typed, failures, saved, dropped, crossed,
                  renamed, passed >>

\* onBlur of the from field, which a template has not, and of the others.
SaveField(s) ==
  /\ page.open
  /\ \E f \in Senders :
       \/ f # row.from /\ what # "template" /\ Ask(s, "from", f)
       \/ f = row.from /\ Ask(s, "other", f)
  /\ UNCHANGED << what, row, page, schedule, mail, typed, failures, saved, dropped, crossed,
                  renamed, passed >>

\* Leaving unmounts the page, and its timer with it.
Leaving == page' = [page EXCEPT !.open = FALSE, !.timer = FALSE]
LeavePage ==
  /\ page.open /\ Leaving
  /\ dropped' = dropped \cup IF page.timer THEN {"left"} ELSE {}
  /\ UNCHANGED << what, row, save, schedule, mail, typed, failures, saved, crossed,
                  renamed, passed >>

\* campaignProcedure reads the campaign, ...
ReadSave(s) ==
  /\ save[s].pc = "asked"
  /\ save' = [save EXCEPT ![s].pc = "read", ![s].domain = row.domain]
  /\ UNCHANGED << what, row, page, schedule, mail, typed, failures, saved, dropped, crossed,
                  renamed, passed >>

\* Mutant of Patched: the html is left to be rendered by the schedule.
PatchedUnrendered(u) ==
  CASE u.kind = "content" -> [row EXCEPT !.content = u.doc, !.domain = u.domain]
    [] u.kind = "from" -> [row EXCEPT !.from = u.from, !.domain = u.from]
    [] u.kind = "other" -> [row EXCEPT !.domain = u.domain]

\* Mutant of Patched: the domain stays the one the campaign was made with.
PatchedFromAlone(u) ==
  CASE u.kind = "content" -> [row EXCEPT !.content = u.doc, !.html = Rendered(u.doc)]
    [] u.kind = "from" -> [row EXCEPT !.from = u.from]
    [] u.kind = "other" -> row

Patched(u) ==
  CASE u.kind = "content" -> [row EXCEPT !.content = u.doc, !.html = Rendered(u.doc), !.domain = u.domain]
    [] u.kind = "from" -> [row EXCEPT !.from = u.from, !.domain = u.from]
    [] u.kind = "other" -> [row EXCEPT !.domain = u.domain]

\* updateTemplate writes an html in any case, null without a content.
PatchedTemplate(u) ==
  IF u.kind = "content" THEN [row EXCEPT !.content = u.doc, !.html = Rendered(u.doc)]
                        ELSE [row EXCEPT !.html = {}]

\* ... and the update writes what it was given, and the domain it knows.
WriteSave(s) ==
  /\ save[s].pc = "read"
  /\ row' = IF what = "template" THEN PatchedTemplate(save[s]) ELSE Patched(save[s])
  /\ save' = [save EXCEPT ![s].pc = "written"]
  /\ LET content == save[s].kind = "content" IN
     /\ saved' = IF content THEN save[s].nr ELSE saved
     /\ dropped' = dropped \cup IF content /\ save[s].nr < saved THEN {"reordered"} ELSE {}
     /\ renamed' = (~content /\ (renamed \/ what = "template"))
  /\ crossed' = crossed
       \cup (IF \E z \in Saves \ {s} : save[z].pc = "read" THEN {"saves"} ELSE {})
       \cup (IF schedule.pc \in {"read", "prepared", "checked"} THEN {"schedule"} ELSE {})
  /\ UNCHANGED << what, page, schedule, mail, typed, failures, passed >>

\* onSuccess turns the dot green, whatever else is still to be saved.
SaveReturns(s) ==
  /\ save[s].pc = "written"
  /\ save' = [save EXCEPT ![s].pc = "over"]
  /\ page' = [page EXCEPT !.dot = FALSE]
  /\ UNCHANGED << what, row, schedule, mail, typed, failures, saved, dropped, crossed,
                  renamed, passed >>

\* The call fails before it has written, its domain is not verified, or the
\* campaign is gone: the page puts a field back, not the content.
SaveFails(s) ==
  /\ save[s].pc \in {"asked", "read"} /\ failures < MaxFailures
  /\ save' = [save EXCEPT ![s].pc = "over"]
  /\ failures' = failures + 1
  /\ dropped' = dropped \cup IF save[s].kind = "content" THEN {"failed"} ELSE {}
  /\ UNCHANGED << what, row, page, schedule, mail, typed, saved, crossed, renamed, passed >>

-----------------------------------------------------------------------------
ReadToSchedule ==
  /\ schedule.pc = "none" /\ what # "template"
  /\ schedule' = [pc |-> "read", row |-> row, html |-> {}]
  /\ UNCHANGED << what, row, page, save, mail, typed, failures, saved, dropped, crossed,
                  renamed, passed >>

Refuse == schedule' = NoSchedule(row) /\ UNCHANGED row

\* prepareCampaignHtml: an html that differs is stored, and the row it comes
\* back with is the one the schedule goes on with.
PrepareHtml ==
  /\ schedule.pc = "read"
  /\ LET known == schedule.row
         html == IF known.content # NoContent THEN Rendered(known.content) ELSE known.html
     IN IF html = {} \/ (known.content # NoContent /\ ~Renderable(known.content)) THEN Refuse
        ELSE /\ row' = IF html = known.html THEN row ELSE [row EXCEPT !.html = html]
             /\ schedule' = [pc |-> "prepared", html |-> html,
                             row |-> IF html = known.html THEN known ELSE row']
  /\ UNCHANGED << what, page, save, mail, typed, failures, saved, dropped, crossed,
                  renamed, passed >>

\* Mutant of CheckPlaceholder: whatever has an html goes out.
CheckNothing ==
  /\ schedule.pc = "prepared"
  /\ schedule' = [schedule EXCEPT !.pc = "checked"]
  /\ UNCHANGED << what, row, page, save, mail, typed, failures, saved, dropped, crossed,
                  renamed, passed >>

CheckPlaceholder ==
  /\ schedule.pc = "prepared"
  /\ IF HasPlaceholder(schedule.row.content, schedule.html)
       THEN schedule' = [schedule EXCEPT !.pc = "checked"] /\ UNCHANGED row
       ELSE Refuse
  /\ UNCHANGED << what, page, save, mail, typed, failures, saved, dropped, crossed,
                  renamed, passed >>

WriteScheduled ==
  /\ schedule.pc = "checked"
  /\ row' = [row EXCEPT !.status = "SCHEDULED"]
  /\ schedule' = [schedule EXCEPT !.pc = "over"]
  /\ passed' = [content |-> schedule.row.content, html |-> schedule.html]
  /\ UNCHANGED << what, page, save, mail, typed, failures, saved, dropped, crossed, renamed >>

\* onScheduled leaves the page.
ScheduleReturns ==
  /\ schedule.pc = "over"
  /\ schedule' = NoSchedule(row)
  /\ Leaving
  /\ dropped' = dropped \cup IF page.timer THEN {"left"} ELSE {}
  /\ UNCHANGED << what, row, save, mail, typed, failures, saved, crossed, renamed, passed >>

\* The batch makes a mail of the campaign it has read.
MailContact ==
  /\ row.status = "SCHEDULED"
  /\ row.content # NoContent => Renderable(row.content)
  /\ mail' = [content |-> row.content, html |-> row.html, from |-> row.from,
              domain |-> row.domain, pieces |-> Personal(row.content, row.html)]
  /\ mail' # mail
  /\ UNCHANGED << what, row, page, save, schedule, typed, failures, saved, dropped, crossed,
                  renamed, passed >>

EditNext ==
  \/ \E doc \in EditorDocuments : Type(doc)
  \/ LeavePage
  \/ \E s \in Saves : SaveContent(s) \/ SaveField(s) \/ ReadSave(s) \/ WriteSave(s)
                      \/ SaveReturns(s) \/ SaveFails(s)
  \/ ReadToSchedule \/ PrepareHtml \/ CheckPlaceholder \/ WriteScheduled \/ ScheduleReturns
  \/ MailContact

EditSpec == EditInit /\ [][EditNext]_editVars

-----------------------------------------------------------------------------
(* Properties. *)

\* A campaign goes out from the domain of its from address, unless an update
\* of another field crossed the one that changed the address and wrote the
\* domain it had read before.
DomainIsOfFrom ==
  "saves" \notin crossed =>
    row.from = row.domain /\ mail.from = mail.domain

\* The html of a campaign is what its content renders to, once it is scheduled
\* or not the one an API request gave with it, unless an update crossed a
\* schedule, which writes the html of what it has read; a template's is gone
\* after its name or subject was saved.
HtmlIsOfContent ==
  /\ row.content # NoContent
  /\ what \in { "api", "copy" } /\ saved = 0 => row.status = "SCHEDULED"
  =>
    \/ row.html = Rendered(row.content)
    \/ "schedule" \in crossed
    \/ renamed /\ row.html = {}

\* A string that no node prints: an attribute, or the name of a variable whose
\* fallback is printed.
OnlyHidden(content) ==
  /\ Strings(content) \cap Tokens # {}
  /\ \A piece \in Pieces(content, FALSE) : piece[2] \notin Tokens

\* What passed the check can be left: the mail has the contact's address, or
\* the placeholder is one that is copied and never replaced: typed as text,
\* around an image or with blanks, in a campaign that has a content; or it is
\* one that is not printed at all.
MailCanBeLeft ==
  /\ mail # NoLetter /\ "schedule" \notin crossed
  /\ mail.content = passed.content /\ (mail.content = NoContent => mail.html = passed.html)
  => \/ mail.content # NoContent /\ OnlyHidden(mail.content)
     \/ \E piece \in mail.pieces :
          \/ piece[2] = "url"
          \/ /\ mail.content # NoContent
             /\ piece[2] = "spaced" \/ (piece[2] = "token" /\ piece[1] # "href")

\* Once nothing is left to be saved, the row has what the page showed last,
\* unless the page was left within the second, a save failed, or two of them
\* arrived in the other order.
EditIsKept ==
  /\ ~page.timer
  /\ \A s \in Saves : save[s].kind = "content" => save[s].pc \notin {"asked", "read"}
  => row.content = page.shown \/ dropped # {}

\* What was written, and by whom, is what is mailed.
EditingHolds ==
  EditTypeOK /\ DomainIsOfFrom /\ HtmlIsOfContent /\ MailCanBeLeft /\ EditIsKept
=============================================================================
