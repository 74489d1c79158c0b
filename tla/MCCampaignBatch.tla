-------------------------- MODULE MCCampaignBatch --------------------------
(* The instances of CampaignBatch that TLC checks; the contacts' ids are    *)
(* 1 .. N.  In one of them an instance of PlanCatalogue is checked beside   *)
(* it, until an entry is dropped under a lookup.  They share no state and a *)
(* behaviour follows one of the two.                                        *)
EXTENDS CampaignBatch, PlanCatalogue

AllActive == { [k \in PlanKeys |-> "active"] }

NoCampaign ==
  /\ campaign.status = "DRAFT" /\ campaign.due /\ edits = 0
  /\ \A r \in CampaignRequests : request[r].pc = "new"
  /\ UNCHANGED campaignVars
NoLookUp ==
  /\ holder = "team" /\ ~ basic /\ ~ activated /\ writes = 0 /\ ticks = 0 /\ edit = NoEdit
  /\ lookup = [l \in Lookups |-> NoLookup]
  /\ UNCHANGED catalogueVars

ServiceInit == CampaignInit /\ CatalogueInit
ServiceNext ==
  \/ NoLookUp /\ CampaignNext
  \/ NoCampaign /\ ~ outrun /\ CatalogueNext
ServiceSpec ==
  ServiceInit /\ [][ServiceNext]_<< campaignVars, catalogueVars >> /\ CampaignFairness

\* The campaign alone.
CampaignAlone ==
  ServiceInit /\ [][NoLookUp /\ CampaignNext]_<< campaignVars, catalogueVars >>

-----------------------------------------------------------------------------
(* A property. *)

\* A campaign's contacts are served once, and a plan is as the catalogue has it
\* (CampaignBatch and PlanCatalogue state the parts).
ServiceHolds == ContactsAreServed /\ CatalogueHolds
============================================================================
