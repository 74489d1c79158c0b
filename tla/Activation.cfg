CONSTANTS
  u1 = u1
  tA = tA
  c1 = c1
  c2 = c2
  Users = {u1}
  Teams = {tA}
  Plans = {free, basic}
  NoUser = NoUser
  NoPlan = NoPlan
  FreePlan = free
  Priced = {basic}
  Members <- InOneTeam
  Callers = {c1, c2}
  Ops <- AllAndPayments
  Lengths = {2}
  ReminderDays = 2
  FinalDays = 1
  DefaultDays = 2
  MaxRequests = 2
  MaxInvoices = 2
  MaxIssued = 1
  MaxDay = 2
  MaxDisturbances = 1
SPECIFICATION ActivationSpec
INVARIANTS  PeriodsAreRegular
PROPERTY NothingTakenBack
CHECK_DEADLOCK FALSE
