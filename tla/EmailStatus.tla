---------------------------- MODULE EmailStatus ----------------------------
(***************************************************************************)
(* The latestStatus of an email and the order Postgres puts on it.         *)
(*                                                                         *)
(* The column is a Postgres enum, so "new > latestStatus" in the SES hook  *)
(* compares positions in the type as the migrations built it, and that is  *)
(* not the order in which prisma/schema.prisma lists the values: the       *)
(* migration 20250425130849 fixes the first thirteen positions and         *)
(* 20250726222912 adds SUPPRESSED at the end.                              *)
(***************************************************************************)
EXTENDS Integers

StatusRank ==
  [ SCHEDULED |-> 1, CANCELLED |-> 2, RENDERING_FAILURE |-> 3, QUEUED |-> 4,
    SENT |-> 5, REJECTED |-> 6, DELIVERY_DELAYED |-> 7, DELIVERED |-> 8,
    BOUNCED |-> 9, OPENED |-> 10, CLICKED |-> 11, COMPLAINED |-> 12,
    FAILED |-> 13, SUPPRESSED |-> 14 ]

EmailStatuses == DOMAIN StatusRank

Rank(s) == StatusRank[s]

\* The statuses an SES notification can carry: one per eventType.
HookStatuses ==
  { "SENT", "DELIVERED", "BOUNCED", "COMPLAINED", "REJECTED", "OPENED",
    "CLICKED", "RENDERING_FAILURE", "DELIVERY_DELAYED" }

EngagementStatuses == { "OPENED", "CLICKED" }

\* The statuses dailyEmailUsage has a column for.
UsageStatuses ==
  { "SENT", "DELIVERED", "BOUNCED", "COMPLAINED", "OPENED", "CLICKED" }

\* The CASE of the hook's UPDATE: what latestStatus becomes when `new` arrives.
Advance(cur, new) ==
  IF Rank(new) > Rank(cur) \/ cur = "SCHEDULED" THEN new ELSE cur
=============================================================================
