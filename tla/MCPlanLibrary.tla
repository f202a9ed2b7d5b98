---------------------------- MODULE MCPlanLibrary ----------------------------
(* Small instances of PlanLibrary. *)
EXTENDS PlanLibrary, TLC

Symmetric == Permutations(Sessions) \cup Permutations(Findings)
=============================================================================
