------------------------- MODULE MCPlanCacheWriter -------------------------
(* Small instances of PlanCacheWriter for TLC. *)
EXTENDS PlanCacheWriter, TLC

MCSession == Owner \X {"pass"}

Symmetry == Permutations(Owner)
=============================================================================
