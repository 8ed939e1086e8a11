-------------------------- MODULE MCPlanPublishing --------------------------
(* An instance of PlanPublishing for TLC. *)
EXTENDS PlanPublishing, TLC

CONSTANTS anna, ben, user, left, right

Interchangeable == Permutations(Admins) \union Permutations(Tabs)
=============================================================================
