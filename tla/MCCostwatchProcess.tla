-------------------------- MODULE MCCostwatchProcess --------------------------
(* CostwatchProcess for TLC, with the clocks of main.go and deployment.yaml.   *)
EXTENDS CostwatchProcess, TLC

Symmetry == Permutations(Requests)
=============================================================================
