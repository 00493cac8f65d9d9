----------------------------- MODULE MCCostCache -----------------------------
(* Small instances of CostCache and of its refinement for TLC.  *)
EXTENDS CostCacheRefinement, TLC

\* Requests and keys are interchangeable in every property of the run.
Symmetry == Permutations(Requests) \cup Permutations(Keys)
=============================================================================
