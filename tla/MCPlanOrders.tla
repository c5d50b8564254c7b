---------------------------- MODULE MCPlanOrders ----------------------------
(* The seeded catalogue in units of a discount, Starter being the plan that is no
   longer seeded but may be sold again. *)
EXTENDS PlanOrders

CONSTANTS starter, pro, professional

MCPrice == [p \in Plans |-> CASE p = starter      -> 1
                              [] p = pro          -> 2
                              [] p = professional -> 5]
MCCovers == {<<p, q>> \in Plans \X Plans : MCPrice[p] < MCPrice[q]}
=============================================================================
