--------------------------- MODULE SuppressionList ---------------------------
(***************************************************************************)
(* SuppressionService for one team and one address: the row of the team's  *)
(* list, the lists SES keeps by itself in each region the team sends from, *)
(* the reports by which SES has an address listed, and the requests of the *)
(* dashboard that list it or take it off again.                            *)
(*                                                                         *)
(* A removal asks the regions first and deletes the row after, whatever    *)
(* became of it in between.  SES is external: a hard bounce or a complaint *)
(* puts the address on the region's list before the report arrives.        *)
(* reported, overtaken and failed are history.                             *)
(***************************************************************************)
EXTENDS Naturals, FiniteSets

CONSTANTS
  Regions,     \* the regions of the team's domains
  MaxReports,  \* bound: hard bounces and complaints
  MaxRequests, \* bound: requests of the dashboard
  MaxLosses    \* bound: calls of SES or the database that fail

ASSUME SuppressionBounds ==
  MaxReports \in Nat /\ MaxRequests \in Nat /\ MaxLosses \in Nat

VARIABLES
  listed,    \* the row's reason, "no" without a row
  held,      \* the regions on whose own list SES has the address
  reports,   \* [made, coming]: reports made and the reasons still to be recorded
  removal,   \* [pc, left]: a removal, and the regions it has still to ask
  upload,    \* [pc, new]: an upload, and whether it found no row
  requests,  \* requests made so far
  losses,    \* calls that failed so far
  reported,  \* a report was recorded and no removal has begun since
  overtaken, \* a report was recorded, or made, while a removal was under way
  failed     \* a report's row, or a region's removal, was lost

suppressionVars ==
  << listed, held, reports, removal, upload, requests, losses,
     reported, overtaken, failed >>

Reasons == { "HARD_BOUNCE", "COMPLAINT", "MANUAL" }
Reported == Reasons \ {"MANUAL"}
NoRemoval == [pc |-> "idle", left |-> {}]
NoUpload == [pc |-> "idle", new |-> FALSE]

SuppressionInit ==
  /\ listed = "no" /\ held = {}
  /\ reports = [made |-> 0, coming |-> {}]
  /\ removal = NoRemoval /\ upload = NoUpload
  /\ requests = 0 /\ losses = 0
  /\ reported = FALSE /\ overtaken = FALSE /\ failed = FALSE

SuppressionTypeOK ==
  /\ listed \in Reasons \cup {"no"} /\ held \subseteq Regions
  /\ reports \in [made : 0 .. MaxReports, coming : SUBSET Reported]
  /\ removal \in [pc : {"idle", "asking", "deleting"}, left : SUBSET Regions]
  /\ upload \in [pc : {"idle", "creating"}, new : BOOLEAN]
  /\ requests \in 0 .. MaxRequests /\ losses \in 0 .. MaxLosses
  /\ reported \in BOOLEAN /\ overtaken \in BOOLEAN /\ failed \in BOOLEAN

Removing == removal.pc # "idle"
Request == requests < MaxRequests /\ requests' = requests + 1
Loses == losses < MaxLosses /\ losses' = losses + 1

-----------------------------------------------------------------------------
\* SES's own list, and its report to the hook.
SesReports ==
  /\ reports.made < MaxReports
  /\ \E region \in Regions, why \in Reported :
       /\ held' = held \cup {region}
       /\ reports' = [made |-> reports.made + 1, coming |-> reports.coming \cup {why}]
  /\ overtaken' = (overtaken \/ Removing)
  /\ UNCHANGED << listed, removal, upload, requests, losses, reported, failed >>

\* addSuppression for a report: an upsert, the last reason stays.
RecordReport ==
  /\ \E why \in reports.coming :
       /\ listed' = why
       /\ reports' = [reports EXCEPT !.coming = @ \ {why}]
  /\ reported' = TRUE
  /\ overtaken' = (overtaken \/ Removing)
  /\ UNCHANGED << held, removal, upload, requests, losses, failed >>

\* The hook logs an upsert that fails, and goes on.
RecordFails ==
  /\ \E why \in reports.coming : reports' = [reports EXCEPT !.coming = @ \ {why}]
  /\ failed' = TRUE
  /\ Loses
  /\ UNCHANGED << listed, held, removal, upload, requests, reported, overtaken >>

AddSuppression ==
  /\ Request
  /\ listed' = "MANUAL"
  /\ UNCHANGED << held, reports, removal, upload, losses, reported, overtaken, failed >>

-----------------------------------------------------------------------------
\* removeSuppression: the regions of the team's domains are read ...
BeginRemoval ==
  /\ removal.pc = "idle" /\ Request
  /\ removal' = [pc |-> "asking", left |-> Regions]
  /\ reported' = FALSE
  /\ overtaken' = (overtaken \/ reports.coming # {})
  /\ UNCHANGED << listed, held, reports, upload, losses, failed >>

\* ... and asked all at once, each to answer on its own, ...
AskRegion ==
  /\ removal.pc = "asking"
  /\ \E region \in removal.left :
       /\ removal' = [removal EXCEPT !.left = @ \ {region}]
       /\ \/ held' = held \ {region} /\ UNCHANGED << losses, failed >>
          \/ Loses /\ failed' = TRUE /\ UNCHANGED held
  /\ UNCHANGED << listed, reports, upload, requests, reported, overtaken >>

\* Mutant of RegionsAnswered: the regions are not awaited.
RegionsAnsweredUnawaited ==
  /\ removal.pc = "asking" /\ removal.left # {}
  /\ removal' = [removal EXCEPT !.pc = "deleting"]
  /\ UNCHANGED << listed, held, reports, upload, requests, losses,
                  reported, overtaken, failed >>

\* ... and only when all have answered, one way or the other, ...
RegionsAnswered ==
  /\ removal.pc = "asking" /\ removal.left = {}
  /\ removal' = [removal EXCEPT !.pc = "deleting"]
  /\ UNCHANGED << listed, held, reports, upload, requests, losses,
                  reported, overtaken, failed >>

\* ... is the row deleted; that there is none is no error.
DeleteRow ==
  /\ removal.pc = "deleting"
  /\ \/ listed' = "no" /\ UNCHANGED losses
     \/ Loses /\ UNCHANGED listed
  /\ removal' = NoRemoval
  /\ UNCHANGED << held, reports, upload, requests, reported, overtaken, failed >>

-----------------------------------------------------------------------------
\* addMultipleSuppressions: the addresses that have a row are read ...
ReadListed ==
  /\ upload.pc = "idle" /\ Request
  /\ upload' = [pc |-> "creating", new |-> listed = "no"]
  /\ UNCHANGED << listed, held, reports, removal, losses, reported, overtaken, failed >>

\* Mutant of CreateMany: the rows there are replaced.
CreateManyReplacing ==
  /\ upload.pc = "creating"
  /\ listed' = IF upload.new THEN "MANUAL" ELSE "no"
  /\ upload' = NoUpload
  /\ UNCHANGED << held, reports, removal, requests, losses, reported, overtaken, failed >>

\* ... and the others created, which the unique index refuses where a row has
\* come in between: the whole batch is then left out.
CreateMany ==
  /\ upload.pc = "creating"
  /\ listed' = IF upload.new /\ listed = "no" THEN "MANUAL" ELSE listed
  /\ upload' = NoUpload
  /\ UNCHANGED << held, reports, removal, requests, losses, reported, overtaken, failed >>

SuppressionNext ==
  \/ SesReports \/ RecordReport \/ RecordFails \/ AddSuppression
  \/ BeginRemoval \/ AskRegion \/ RegionsAnswered \/ DeleteRow
  \/ ReadListed \/ CreateMany

SuppressionSpec == SuppressionInit /\ [][SuppressionNext]_suppressionVars

-----------------------------------------------------------------------------
(* Properties. *)

\* An address reported to the team stays on its list until somebody asks for
\* its removal: only a removal that was under way when the report came takes
\* it off again.
ReportStays == reported => listed # "no" \/ overtaken

\* An address that is not on the team's list is on none of SES's either, so
\* that what the team sends there is delivered, once the reports have arrived:
\* unless a call failed or a report crossed a removal.
OffListIsDeliverable ==
  listed = "no" => held = {} \/ reports.coming # {} \/ overtaken \/ failed

SuppressionHolds == ReportStays /\ OffListIsDeliverable
=============================================================================
