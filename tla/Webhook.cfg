CONSTANTS
  Calls = {c1, c2}
  MaxAttempts = 2
  Threshold = 2
  MaxStalled = 1
  StatusRequests = {r1}
  MaxDisturbances = 1
  Addresses = {p1, p2}
  MaxLost = 1
  MaxRenewals = 2
  Skews <- SomeSkews
  Tolerances <- SomeTolerances
  MaxTime = 2
  MaxTries = 2
  MaxRotations = 1
SPECIFICATION ConnectionsSpec
INVARIANTS CallIsAsShown PostsAreGuarded ConnectionsHold
PROPERTIES AutoDisableDeserved EveryCallSettles
CHECK_DEADLOCK FALSE
