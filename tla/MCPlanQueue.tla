----------------------------- MODULE MCPlanQueue -----------------------------
(* Instances of PlanQueue for TLC.                                         *)
EXTENDS PlanQueue, TLC

Symmetry == Permutations(Planner) \cup Permutations(Input \ Unreadable)
=============================================================================
