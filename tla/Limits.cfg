CONSTANTS
  Workers = {w1}
  Plans <- TeamPlans
  FirstPlans <- TeamPlans
  TeamRows <- AnyRow
  FirstUsage <- NearLimit
  MaxSent = 7
  MaxUnreported = 1
  MaxOps = 1
SPECIFICATION LimitFairSpec
PROPERTIES  LimitsTakeEffect
CHECK_DEADLOCK FALSE
