\* Two checkouts, two webhooks at a time and one fault; or three callers with
\* three attempts who race for a year's first three invoices.
CONSTANTS
  r1 = r1
  r2 = r2
  p1 = p1
  p2 = p2
  MaxCustomers = 2
  Checkouts <- MCCheckouts
  Handlers = {h1, h2}
  Plans <- MCPlans
  Wanted <- MCWanted
  MaxSubs = 2
  MaxChanges = 2
  MaxFaults = 1
  None = None
  Callers = {c1, c2, c3}
  Attempts = 3
  MaxInvoices = 3
SPECIFICATION BillingSpec
INVARIANTS PaymentIsKnown NumbersHold
PROPERTY TeamFollowsStripe
CHECK_DEADLOCK FALSE
