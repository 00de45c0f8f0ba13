------------------------------- MODULE MCBackup --------------------------------
(* Instances of Backup for TLC. *)
EXTENDS Backup, TLC

Symmetry == Permutations(Proc)
================================================================================
