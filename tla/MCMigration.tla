------------------------------ MODULE MCMigration ------------------------------
(* An instance of Migration for TLC: two commands open a database at once.     *)
EXTENDS Migration
================================================================================
