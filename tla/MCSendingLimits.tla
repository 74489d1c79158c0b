--------------------------- MODULE MCSendingLimits ---------------------------
(* An instance of SendingLimits whose usage is one mail below the limits of  *)
(* its free plan, which are just large enough for a warning below them.      *)
EXTENDS SendingLimits

Plan(free, day, month) == [free |-> free, day |-> day, month |-> month]
Row(blocked, cap) == [blocked |-> blocked, cap |-> cap]

TeamPlans == { Plan(TRUE, 6, 7), Plan(FALSE, Unlimited, Unlimited) }
AnyRow == { Row(FALSE, 0), Row(TRUE, 0), Row(FALSE, 6) }
NearLimit == [day |-> 5, month |-> 6]
=============================================================================
