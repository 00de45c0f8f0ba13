--------------------------- MODULE MCScheduledRuns ----------------------------
(* Instances of ScheduledRuns for TLC. *)
EXTENDS ScheduledRuns, TLC

Symmetry == Permutations(Run)
================================================================================
