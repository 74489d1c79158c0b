------------------------------ MODULE BulkSend ------------------------------
(***************************************************************************)
(* POST /v1/emails/batch: sendBulkEmails creates the rows of a batch one   *)
(* after the other, first those whose recipients are all suppressed, then  *)
(* the others grouped by sender, and adds all jobs at the end, in groups   *)
(* by region.  There is no transaction: whatever throws on the way leaves  *)
(* the rows that were made.  The caller may send the batch again after an  *)
(* error, or after no answer.                                              *)
(*                                                                         *)
(* The emails of a batch are numbered as they come.  faults, misread,      *)
(* skipped, ungrouped and cut are history.                                 *)
(***************************************************************************)
EXTENDS Naturals, FiniteSets, Sequences

CONSTANTS
  Size,      \* emails of a batch
  Batches,   \* the batches asked for: [1 .. Size -> BatchEmails]
  Senders,   \* senders, each of a domain of its own
  Region,    \* Region[f]: the region of the domain of f
  MaxAttempts, \* bound: times the batch is sent
  MaxBatchFaults  \* bound: calls that fail, processes that die, domains that change

Entries == 1 .. Size
Attempts == 1 .. MaxAttempts

\* What an email says: words, nothing that counts as text or html, or a
\* template whose content does not parse; listed: all its recipients are.
BatchEmails == [from : Senders, says : {"words", "nothing", "torn"}, listed : BOOLEAN]

ASSUME BatchAssumption ==
  /\ Size \in Nat \ {0} /\ Batches \subseteq [Entries -> BatchEmails]
  /\ DOMAIN Region = Senders
  /\ MaxAttempts \in Nat /\ MaxBatchFaults \in Nat

VARIABLES
  batch,
  verified,  \* the senders whose domain is verified
  attempt,   \* attempt[a]: [pc, held, todo], its suppressed emails and those still to be made
  row,       \* row[a][i]: latestStatus of the row attempt a made of email i
  told,      \* <<a, i>>: rows that have an event of their status
  queued,    \* <<a, i>>: rows that have a job
  answer,    \* answer[a]: the emails of the ids answered, in order
  faults,
  misread,   \* <<a, i>>: the list could not be read
  skipped,   \* <<a, i>>: the row could not be made
  ungrouped, \* <<a, i>>: the job's group could not be added
  cut        \* <<a, i>>: the row was there when a template could not be read, or not marked

batchVars == << batch, verified, attempt, row, told, queued, answer, faults,
                misread, skipped, ungrouped, cut >>
batchHistory == << misread, skipped, ungrouped, cut >>

NoAttempt == [pc |-> "new", held |-> {}, todo |-> {}]
AttemptSteps ==
  { "new", "held", "event", "rows", "queue", "failing", "answered", "error", "dead" }

BatchTypeOK ==
  /\ batch \in Batches /\ verified \subseteq Senders
  /\ attempt \in [Attempts -> [pc : AttemptSteps, held : SUBSET Entries, todo : SUBSET Entries]]
  /\ answer \in [Attempts -> Seq(Entries)]
  /\ row \in [Attempts -> [Entries -> {"none", "SUPPRESSED", "QUEUED", "FAILED"}]]
  /\ told \cup queued \cup misread \cup skipped \cup ungrouped \cup cut
       \subseteq Attempts \X Entries
  /\ faults \in 0 .. MaxBatchFaults

BatchInit ==
  /\ batch \in Batches /\ verified \in SUBSET Senders
  /\ attempt = [a \in Attempts |-> NoAttempt]
  /\ row = [a \in Attempts |-> [i \in Entries |-> "none"]]
  /\ told = {} /\ queued = {} /\ answer = [a \in Attempts |-> << >>]
  /\ faults = 0 /\ misread = {} /\ skipped = {} /\ ungrouped = {} /\ cut = {}

Fault == faults < MaxBatchFaults /\ faults' = faults + 1
At(a, step) == attempt[a].pc = step
BatchGoes(a, step) == attempt' = [attempt EXCEPT ![a].pc = step]
Throws(a) == BatchGoes(a, "error") /\ UNCHANGED << row, told, queued, answer, batchHistory >>
Made(a) == { i \in Entries : row[a][i] # "none" }
Unsent(a) == { i \in Entries : row[a][i] = "QUEUED" }

\* The entries of S one after the other: SetToSortSeq, without the SortSeq of
\* module TLC that no proof can look into.
Sorted(S, before(_, _)) ==
  CHOOSE q \in [1 .. Cardinality(S) -> S] :
    \A m, n \in 1 .. Cardinality(S) : m < n => before(q[m], q[n])
InOrder(S) == Sorted(S, <)
Earliest(S) == CHOOSE i \in S : \A j \in S : i <= j

-----------------------------------------------------------------------------
\* Every email's recipients are looked up in the suppression list, which
\* counts as empty if it cannot be read.
CheckSuppressed(a) ==
  /\ At(a, "new") /\ \A b \in Attempts : b < a => attempt[b].pc \in {"error", "dead"}
  /\ \E lost \in SUBSET { i \in Entries : batch[i].listed } :
       LET held == { i \in Entries : batch[i].listed } \ lost IN
       /\ IF lost = {} THEN UNCHANGED faults ELSE Fault
       /\ misread' = misread \cup {a} \X lost
       /\ attempt' = [attempt EXCEPT ![a] =
                        [pc |-> "held", held |-> held, todo |-> held]]
  /\ UNCHANGED << batch, verified, row, told, queued, answer, skipped, ungrouped, cut >>

\* The next suppressed email: its sender and its template are looked at as if
\* it were sent, and its row is made.
CreateSuppressed(a) ==
  LET i == Earliest(attempt[a].todo) IN
  /\ At(a, "held") /\ attempt[a].todo # {}
  /\ \/ /\ batch[i].from \in verified /\ batch[i].says # "torn"
        /\ row' = [row EXCEPT ![a][i] = "SUPPRESSED"]
        /\ BatchGoes(a, "event") /\ UNCHANGED << told, queued, answer, batchHistory, faults >>
     \/ /\ batch[i].from \notin verified \/ batch[i].says = "torn"
        /\ Throws(a) /\ UNCHANGED faults
     \/ Fault /\ Throws(a)
  /\ UNCHANGED << batch, verified >>

EventOfSuppressed(a) ==
  LET i == Earliest(attempt[a].todo) IN
  /\ At(a, "event")
  /\ \/ /\ told' = told \cup { << a, i >> }
        /\ attempt' = [attempt EXCEPT ![a].pc = "held", ![a].todo = @ \ {i}]
        /\ UNCHANGED << row, queued, answer, batchHistory, faults >>
     \/ Fault /\ Throws(a)
  /\ UNCHANGED << batch, verified >>

\* With nobody to send to the request is done.
AnswerSuppressed(a) ==
  /\ At(a, "held") /\ attempt[a].todo = {} /\ attempt[a].held = Entries
  /\ answer' = [answer EXCEPT ![a] = InOrder(Entries)]
  /\ BatchGoes(a, "answered")
  /\ UNCHANGED << batch, verified, row, told, queued, faults, batchHistory >>

-----------------------------------------------------------------------------
\* The others, grouped by sender in the order the senders come up.
FirstOfSender(a, i) ==
  Earliest({j \in Entries \ attempt[a].held : batch[j].from = batch[i].from})
GroupedBefore(a, i, j) ==
  \/ FirstOfSender(a, i) < FirstOfSender(a, j)
  \/ FirstOfSender(a, i) = FirstOfSender(a, j) /\ i < j
NextGrouped(a) ==
  CHOOSE i \in attempt[a].todo : \A j \in attempt[a].todo \ {i} : GroupedBefore(a, i, j)

\* Each sender's domain is read before any of their rows is made.
ValidateDomains(a) ==
  LET free == Entries \ attempt[a].held IN
  /\ At(a, "held") /\ attempt[a].todo = {} /\ free # {}
  /\ IF \A i \in free : batch[i].from \in verified
     THEN /\ attempt' = [attempt EXCEPT ![a].pc = "rows", ![a].todo = free]
          /\ UNCHANGED << row, told, queued, answer, batchHistory >>
     ELSE Throws(a)
  /\ UNCHANGED << batch, verified, faults >>

\* Mutant of CreateBatchRow: each job is added as soon as its row is there.
CreateRowAndJob(a) ==
  LET i == NextGrouped(a) IN
  /\ At(a, "rows") /\ attempt[a].todo # {}
  /\ IF batch[i].says # "words" THEN Throws(a)
     ELSE /\ row' = [row EXCEPT ![a][i] = "QUEUED"]
          /\ queued' = queued \cup { << a, i >> }
          /\ attempt' = [attempt EXCEPT ![a].todo = @ \ {i}]
          /\ UNCHANGED << told, answer, batchHistory >>
  /\ UNCHANGED << batch, verified, faults >>

\* An email without words ends the request, as does a template that cannot be
\* read; a row that cannot be made does not.
CreateBatchRow(a) ==
  LET i == NextGrouped(a)
      next == attempt' = [attempt EXCEPT ![a].todo = @ \ {i}] IN
  /\ At(a, "rows") /\ attempt[a].todo # {}
  /\ IF batch[i].says # "words" THEN BatchGoes(a, "error") /\ UNCHANGED << row, faults, skipped, cut >>
     ELSE \/ /\ row' = [row EXCEPT ![a][i] = "QUEUED"]
             /\ next /\ UNCHANGED << faults, skipped, cut >>
          \/ /\ Fault /\ skipped' = skipped \cup { << a, i >> }
             /\ next /\ UNCHANGED << row, cut >>
          \/ /\ Fault /\ cut' = cut \cup {a} \X Unsent(a)
             /\ BatchGoes(a, "error") /\ UNCHANGED << row, skipped >>
  /\ UNCHANGED << batch, verified, told, queued, answer, misread, ungrouped >>

\* All rows are there, or none could be made.
EndRows(a) ==
  /\ At(a, "rows") /\ attempt[a].todo = {}
  /\ BatchGoes(a, IF Unsent(a) # {} THEN "queue" ELSE "error")
  /\ UNCHANGED << batch, verified, row, told, queued, answer, faults, batchHistory >>

-----------------------------------------------------------------------------
\* Mutant of AnswerBatch: the ids in the order the rows were made.
AnswerAsMade(a) ==
  answer' = [answer EXCEPT ![a] =
    InOrder(attempt[a].held) \o Sorted(Unsent(a), LAMBDA i, j : GroupedBefore(a, i, j))]

\* The ids of all rows, in the order of the request.
AnswerBatch(a) == answer' = [answer EXCEPT ![a] = InOrder(Made(a))]

\* queueBulk: a region's group that cannot be added is passed over.
QueueGroups(a) ==
  /\ At(a, "queue")
  /\ \E out \in SUBSET { Region[batch[i].from] : i \in Unsent(a) } :
       LET lost == { i \in Unsent(a) : Region[batch[i].from] \in out } IN
       /\ IF out = {} THEN UNCHANGED faults ELSE Fault
       /\ queued' = queued \cup {a} \X (Unsent(a) \ lost)
       /\ ungrouped' = ungrouped \cup {a} \X lost
  /\ AnswerBatch(a) /\ BatchGoes(a, "answered")
  /\ UNCHANGED << batch, verified, row, told, misread, skipped, cut >>

\* It throws only before it adds anything: when the queues of this process
\* cannot be set up.
QueueBulkFails(a) ==
  /\ At(a, "queue") /\ Fault
  /\ BatchGoes(a, "failing")
  /\ UNCHANGED << batch, verified, row, told, queued, answer, batchHistory >>

\* Then all rows made become FAILED, all at once and each by itself.
MarkFailed(a) ==
  /\ At(a, "failing")
  /\ \E done \in SUBSET Unsent(a) :
       /\ IF done = Unsent(a) THEN UNCHANGED faults ELSE Fault
       /\ cut' = cut \cup {a} \X (Unsent(a) \ done)
       /\ row' = [row EXCEPT ![a] = [i \in Entries |-> IF i \in done THEN "FAILED" ELSE @[i]]]
       /\ told' = told \cup {a} \X done
  /\ BatchGoes(a, "error")
  /\ UNCHANGED << batch, verified, queued, answer, misread, skipped, ungrouped >>

-----------------------------------------------------------------------------
\* The process dies, its last jobs perhaps added.
BatchDies(a) ==
  /\ attempt[a].pc \notin {"new", "answered", "error", "dead"} /\ Fault
  /\ \E jobs \in SUBSET Unsent(a) :
       /\ jobs # {} => At(a, "queue")
       /\ queued' = queued \cup {a} \X jobs
  /\ BatchGoes(a, "dead")
  /\ UNCHANGED << batch, verified, row, told, answer, batchHistory >>

\* A domain is verified, or no longer.
DomainChanges ==
  /\ Fault
  /\ \E f \in Senders : verified' = IF f \in verified THEN verified \ {f} ELSE verified \cup {f}
  /\ UNCHANGED << batch, attempt, row, told, queued, answer, batchHistory >>

BatchStep(a) ==
  \/ CheckSuppressed(a) \/ CreateSuppressed(a) \/ EventOfSuppressed(a) \/ AnswerSuppressed(a)
  \/ ValidateDomains(a) \/ CreateBatchRow(a) \/ EndRows(a)
  \/ QueueGroups(a) \/ QueueBulkFails(a) \/ MarkFailed(a) \/ BatchDies(a)

BatchNext == DomainChanges \/ \E a \in Attempts : BatchStep(a)
BatchSpec == BatchInit /\ [][BatchNext]_batchVars

-----------------------------------------------------------------------------
(* Properties. *)

\* A batch that was answered with an error has mailed nobody, so that sending
\* it again does not mail anyone twice: two jobs for one email take an attempt
\* that died.
ErrorsSendNothing ==
  /\ \A a \in Attempts : At(a, "error") => queued \cap ({a} \X Entries) = {}
  /\ \A a, b \in Attempts, i \in Entries :
       a < b /\ { << a, i >>, << b, i >> } \subseteq queued => At(a, "dead")

\* The ids answered are those of the batch's emails in their order; what is
\* missing could not be made, and what is there is on its way, or shown as
\* suppressed, unless the jobs of its region could not be added.
AnswerIsOfBatch ==
  \A a \in Attempts : At(a, "answered") =>
    /\ \A m, n \in DOMAIN answer[a] : m < n => answer[a][m] < answer[a][n]
    /\ \A i \in Entries :
         IF \E n \in DOMAIN answer[a] : answer[a][n] = i
         THEN CASE row[a][i] = "QUEUED" -> (<< a, i >> \in queued) # (<< a, i >> \in ungrouped)
                [] row[a][i] = "SUPPRESSED" -> batch[i].listed /\ << a, i >> \in told
                [] OTHER -> FALSE
         ELSE << a, i >> \in skipped

\* Rows are left QUEUED without a job, for good, by an answered request whose
\* group was lost, by one that died, and by an error only if another email of
\* the batch had nothing to say, or a call failed that the rows were cut off by.
RowsLeftAreExplained ==
  \A a \in Attempts, i \in Entries :
    row[a][i] = "QUEUED" /\ << a, i >> \notin queued =>
      \/ attempt[a].pc \in {"rows", "queue", "failing", "dead"}
      \/ << a, i >> \in ungrouped
      \/ << a, i >> \in cut
      \/ At(a, "error") /\ \E j \in Entries \ attempt[a].held : batch[j].says # "words"

BatchHolds == BatchTypeOK /\ ErrorsSendNothing /\ AnswerIsOfBatch /\ RowsLeftAreExplained
=============================================================================
