----------------------- MODULE MCContactSubscription -----------------------
(* Instances of ContactSubscription: a book with double opt-in and one      *)
(* without; processes, calls and senders are interchangeable.  Beside them  *)
(* an instance of ContentEditing, with one document for each way a          *)
(* placeholder may be written.  The two share no state and a behaviour      *)
(* follows one of them.                                                     *)
EXTENDS ContactSubscription, ContentEditing, TLC

Doc(node) == Node("doc", "words", "none", {node})
In(block, node) == Doc(Node(block, "words", "none", {node}))
Text(value, link) == Node("text", value, link, {})

Plain == In("paragraph", Text("words", "none"))
FooterLink == In("unsubscribeFooter", Text("words", "token"))
TypedOut == In("heading", Text("token", "none"))
Listed == In("bulletList", Node("listItem", "words", "none", {Node("variable", "name", "none", {})}))
Defaulted == In("blockquote", Node("variable", "name", "words", {}))
OnButton == Doc(Node("button", "words", "name", {}))
OnImage == Doc(Node("image", "words", "token", {}))
AsCode == Doc(Node("codeBlock", "words", "none", {Text("token", "none")}))
Spaced == In("paragraph", Text("words", "spaced"))
Ruled == Doc(Node("horizontalRule", "words", "none", {}))
Unprinted == In("paragraph", Node("variable", "token", "words", {}))
Unknown == Doc(Node("video", "token", "none", {}))

AllDocuments == { Plain, FooterLink, TypedOut, Listed, Defaulted, OnButton, OnImage, AsCode,
                  Spaced, Ruled, Unprinted, Unknown }
EditorMakes == { Plain, FooterLink, TypedOut }
\* An API request gives a content, an html or both.
GivenHtmls == { { << "page", "words" >> },
                { << "page", "words" >>, << "href", "spaced" >> },
                { << "page", "words" >>, << "text", "token" >> } }
GivenDrafts ==
  { [content |-> c, html |-> h] : c \in AllDocuments \cup {NoContent}, h \in GivenHtmls \cup {{}} }
CopiedDrafts == { [content |-> FooterLink, html |-> { << "page", "words" >> }] }
Symmetry == Permutations(Procs) \cup Permutations(Saves) \cup Permutations(Senders)

NoWordsStep ==
  /\ what = "campaign" /\ typed = 0 /\ page.open
  /\ save = [s \in Saves |-> NoSave] /\ schedule = NoSchedule(row) /\ UNCHANGED editVars
NoContactStep ==
  /\ proc = [p \in Procs |-> Idle] /\ lost = 0 /\ made = [b \in Books |-> 0]
  /\ ~overlapped /\ UNCHANGED vars

WordsInit == ContactInit /\ EditInit
WordsNext ==
  \/ NoWordsStep /\ ContactNext
  \/ NoContactStep /\ EditNext
WordsSpec == WordsInit /\ [][WordsNext]_<< vars, editVars >>
============================================================================
