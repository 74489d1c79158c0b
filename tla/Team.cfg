CONSTANTS
  t1 = t1
  u1 = u1
  u2 = u2
  Home <- HomeT1
  Users = {u1, u2, u3}
  Teams = {t1, t2}
  Domains = {d1}
  Requests = {r1, r2}
  Start <- TwoAdmins
  Seats = 3
  MaxInvites = 1
  MaxRequests = 4
  TeamFaults = {"overlap", "dies"}
  MaxFaults = 1
  h1 = h1  h2 = h2  l1 = l1
  People = {h1, h2}
  Addressless = {h1}
  Logins = {l1, l2, l3}
  Who <- WhoLogsIn
  Releases = {a1, a2}
  MaxInvitings = 1
  MaxCuts = 1
  Limits <- SomeLimits
  Creations = {c1, c2}
  HookUpdates = {w1, w2}
  BookUpdates = {v1, v2}
  MaxChanges = 1
SPECIFICATION SetUpSpec
SYMMETRY RequestSymmetry
INVARIANTS TeamHasAdmin MembershipIsInOrder SetUpHolds
CHECK_DEADLOCK FALSE
