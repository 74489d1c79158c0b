CONSTANTS
  Tasks = {k1, k2}
  SesStates <- SesFew
  MaxRows = 2
  MaxChanges = 2
  MaxRequests = 3
  DomainFaults = {"overlap", "dies", "mail"}
  MaxFaults = 1
SPECIFICATION DomainFairSpec
INVARIANT RowMatchesSes
PROPERTIES ToldOnce VerificationGetsThrough
CHECK_DEADLOCK FALSE
