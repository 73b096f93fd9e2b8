--------------------------- MODULE MCCompiledPlan ---------------------------
(* Instances of CompiledPlan for TLC. *)
EXTENDS CompiledPlan, TLC

CONSTANTS t1, t2, author

Symmetry == Permutations({t1, t2})
=============================================================================
