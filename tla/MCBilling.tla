------------------------------ MODULE MCBilling ------------------------------
(* The instance of Billing that TLC checks: two checkouts, of different    *)
(* plans, and three callers that draw numbers.                             *)
EXTENDS Billing, TLC

CONSTANTS r1, r2, p1, p2

MCCheckouts == {r1, r2}
MCPlans == {p1, p2}
MCWanted == r1 :> p1 @@ r2 :> p2
=============================================================================
