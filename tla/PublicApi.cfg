CONSTANTS
  Requests = {r1, r2}
  Keyless = {k1}
  Bodies = {b1, b2}
  IdemFaults = {"crash", "redis", "slow", "expiry", "throws"}
  Regions = {e1}
  MaxReports = 2
  MaxRequests = 2
  MaxLosses = 1
  Limit = 2
  MaxMishaps = 1
  MaxApiTroubles = 2
  c1 = c1  p1 = p1  p2 = p2  e1 = e1  e2 = e2
  Processes = {p1, p2}
  SesRegionNames = {e1, e2}
  Creations = {c1, c2}
  Places <- PlacesFew
  MaxTroubles = 1
SYMMETRY ApiSymmetry
SPECIFICATION PlatformSpec
CONSTRAINT FewTroubles
INVARIANTS GatesHold RegionsAreWhole AnswersOwnBody SequentialRetriesSendOnce OneOperationAtATime
CHECK_DEADLOCK FALSE
