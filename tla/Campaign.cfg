CONSTANTS
  Contacts = {1, 2, 3}
  FirstContacts = {1, 2}
  Suppressed = {2}
  BatchSize = 2
  MaxStalled = 1
  CampaignRequests = {r1, r2}
  MaxDisturbances = 1
  Lookups = {l1}
  TTL = 2
  FirstOffers <- AllActive
  MaxEvents = 2
SPECIFICATION ServiceSpec
INVARIANT ServiceHolds
PROPERTIES PauseHolds CampaignEnds
CHECK_DEADLOCK FALSE
