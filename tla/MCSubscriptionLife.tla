------------------------- MODULE MCSubscriptionLife -------------------------
(* Instance of SubscriptionLife for TLC.                                   *)
EXTENDS SubscriptionLife

CONSTANTS day, pair \* a plan of one day and one of two

MCPlanDays == [x \in Plan |-> IF x = day THEN 1 ELSE 2]
MCCredit == [x \in Plan |-> 1]
MCFirstPlan == [x \in Coupon |-> day]
=============================================================================
