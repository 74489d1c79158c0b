CONSTANTS
  Contacts = {1, 2, 3}
  FirstContacts = {1, 2, 3}
  Suppressed = {}
  BatchSize = 1
  MaxStalled = 0
  CampaignRequests = {r1}
  MaxDisturbances = 1
  Lookups = {l1}
  TTL = 2
  FirstOffers <- AllActive
  MaxEvents = 0
SPECIFICATION CampaignAlone
INVARIANT OnlyCursorRowSkipped
CHECK_DEADLOCK FALSE
