CONSTANTS
  Emails = {e1}
  CampaignEmails = {e1}
  Notifications = {n1, n2}
  HookEvents = {"CLICKED", "BOUNCED", "COMPLAINED", "DELIVERY_DELAYED"}
  MaxStalled = 1
  Faults = {"hook"}
  MaxFaults = 1
  f1 = f1  f2 = f2  r1 = r1  r2 = r2
  Size = 3
  Senders = {f1, f2}
  Region <- RegionOfSender
  Batches <- BatchesFew
  MaxAttempts = 2
  MaxBatchFaults = 2
SPECIFICATION MailSpec
INVARIANT MailIsAccountedFor
PROPERTY NotificationTakesEffect
CHECK_DEADLOCK FALSE
