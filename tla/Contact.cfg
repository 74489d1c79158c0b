CONSTANTS
  Books = {confirmed, open}
  DoubleOptIn = {confirmed}
  Procs = {p1, p2}
  BounceReasons = {"BOUNCED"}
  MaxIds = 2
  MaxLost = 1
  Documents <- AllDocuments
  EditorDocuments <- EditorMakes
  Drafts <- GivenDrafts
  Duplicated <- CopiedDrafts
  Senders = {d1, d2}
  Saves = {s1, s2}
  MaxDepth = 3
  MaxEdits = 2
  MaxFailures = 1
SYMMETRY Symmetry
SPECIFICATION WordsSpec
INVARIANTS PendingIsAsked EditingHolds
PROPERTY SubscribedByConsent
CHECK_DEADLOCK FALSE
