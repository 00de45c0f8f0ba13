------------------------------ MODULE BackupVault ------------------------------
(* What the backups of a database promise whoever may need one: nothing a      *)
(* receipt was given for is ever lost to an older state, and with a receipt    *)
(* its copy is what is found.  Names, rollbacks, failures and crashes do not    *)
(* show.                                                                       *)
EXTENDS Integers

VARIABLES
  source,    \* version of the database being copied
  receipts,  \* versions that a backup reported as saved
  found      \* versions that may be found, now or after a power loss

vaultVars == <<source, receipts, found>>

Nothing == 0

\* No older than anything there is a receipt for.
Sufficient(version) == version <= source /\ \A r \in receipts : r <= version

VaultInit == source = 1 /\ receipts = {} /\ found = {Nothing}

SourceAdvances ==
  /\ source' = source + 1
  /\ UNCHANGED <<receipts, found>>

\* A backup ends well.
Receipt ==
  /\ \E version \in 1..source :
       /\ Sufficient(version)
       /\ receipts' = receipts \cup {version}
       /\ found' = {version}
  /\ UNCHANGED source

\* A backup is under way, fails or is cut off; a receipt stays covered.
Disturbance ==
  /\ found' # {} /\ \A version \in found' : version \in Nat /\ Sufficient(version)
  /\ UNCHANGED <<source, receipts>>

VaultNext == SourceAdvances \/ Receipt \/ Disturbance

VaultSpec == VaultInit /\ [][VaultNext]_vaultVars
================================================================================
