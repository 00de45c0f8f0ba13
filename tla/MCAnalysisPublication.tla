------------------------- MODULE MCAnalysisPublication -------------------------
(* Instances of AnalysisPublication for TLC. *)
EXTENDS AnalysisPublication, TLC

Symmetry == Permutations(Run)
================================================================================
