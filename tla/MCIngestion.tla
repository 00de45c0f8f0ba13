------------------------------ MODULE MCIngestion ------------------------------
(* Instances of Ingestion for TLC. *)
EXTENDS Ingestion, TLC

Symmetry == Permutations(Run) \cup Permutations(Symbol)
================================================================================
