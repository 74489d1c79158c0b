CONSTANTS
  Emails = {e1}
  CampaignEmails = {e1}
  Requests = {r1, r2}
  Times = {1}
  MaxStalled = 1
  MaxFaults = 1
  Notifications = {n1}
  HookEvents = {"SENT", "COMPLAINED"}
  Faults = {"stall", "db","crash","ses","redis","config","hook"}
SPECIFICATION DeliveryFairSpec
INVARIANTS TypeOK NoDuplicateSend UnsentStaysUnsent  ReportsAgree
PROPERTIES StatusOnlyAdvances EveryEmailSettles ImplementsOutcome
CHECK_DEADLOCK FALSE
