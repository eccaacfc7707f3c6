---------------------------- MODULE MCPlanningRequests ----------------------------
(* Instances of PlanningRequests for TLC. *)
EXTENDS PlanningRequests, TLC

Symmetric == Permutations(Drafts) \cup Permutations(Deliveries) \cup Permutations(Keys)

=============================================================================
