-------------------------- MODULE MCPlanActivation --------------------------
(* Instances of PlanActivation: one client of one team, periods of two days *)
(* for the thirty of the code; one caller who does everything and one who   *)
(* registers payments, so that any operation may overlap an activation.      *)
EXTENDS PlanActivation

CONSTANTS u1, tA, c1, c2

InOneTeam == {<<tA, u1>>}
AllAndPayments == [c \in Callers |-> IF c = c1 THEN OpNames \ {"pay"} ELSE {"pay"}]
============================================================================
