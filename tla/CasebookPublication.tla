--------------------------- MODULE CasebookPublication ---------------------------
(* publish_casebook and _publish_snapshot of casebook.py, step by step: a new  *)
(* casebook replaces the output under a lock of that output, and is then kept  *)
(* once more in a snapshot directory that is never written again.  What a      *)
(* casebook says is the set of boundaries it has evidence of, read from the    *)
(* evidence ledger (AnalysisPublication models the reading).  The names that   *)
(* matter live in directories of their own: each output in one, all snapshots  *)
(* in one.                                                                     *)
EXTENDS EvidenceLedger

CONSTANTS
  Process,  \* commands, each of which publishes at most one casebook
  Output    \* paths of the casebook

ASSUME HourAssumption == Boundary \subseteq Nat \ {0}

VARIABLES
  output,           \* what each output path holds
  outputOnDisk,     \* what a power loss can leave there
  snapshots,        \* the casebook kept in the snapshot directory of a boundary
  snapshotsOnDisk,  \* what a power loss can leave there
  pc,
  target,           \* argument --output
  asked,            \* argument --snapshot-output, named after a boundary
  built,            \* the casebook the command has built
  old               \* old_payload, what was at the output before

fileVars == <<output, outputOnDisk, snapshots, snapshotsOnDisk>>
commandVars == <<target, asked, built, old>>

NoSnapshot == 0
NoFile == {NoSnapshot}    \* no boundary is 0, so this is no casebook
Casebook == SUBSET Boundary

\* The command holds the lock of its output from its first step to its last.
Publishing == {"build", "replace", "sync", "reread", "recover", "sync_recovery",
               "check_snapshot", "rename_snapshot", "sync_snapshot"}

GoTo(p, label) == pc' = [pc EXCEPT ![p] = label]

\* Variant: the lock file is opened and never locked.
OutputLockFree_Always(o) == TRUE

OutputLockFree(o) == \A p \in Process : ~ (pc[p] \in Publishing /\ target[p] = o)

Published == {b \in Boundary : ledger[b].state = "evidence"}

--------------------------------------------------------------------------------
\* Non-blocking: an overlapping publication of the same output gives up.
LockOutput(p) ==
  /\ pc[p] = "lock_output"
  /\ GoTo(p, IF OutputLockFree(target[p]) THEN "build" ELSE "failed")
  /\ UNCHANGED <<fileVars, commandVars>>

\* build_casebook, the bytes that are at the output now, and the temporary file
\* with the new ones, written and synced under a name of its own.
Build(p) ==
  /\ pc[p] = "build"
  /\ built' = [built EXCEPT ![p] = Published]
  /\ old' = [old EXCEPT ![p] = output[target[p]]]
  /\ GoTo(p, "replace")
  /\ UNCHANGED <<fileVars, target, asked>>

\* The output is another file at once, on disk with the next sync.
PutOutput(o, content) ==
  /\ output' = [output EXCEPT ![o] = content]
  /\ outputOnDisk' = [outputOnDisk EXCEPT ![o] = @ \cup {content}]

SyncedOutput(o) == outputOnDisk' = [outputOnDisk EXCEPT ![o] = {output[o]}]

Replace(p) ==
  /\ pc[p] = "replace"
  /\ PutOutput(target[p], built[p])
  /\ GoTo(p, "sync")
  /\ UNCHANGED <<snapshots, snapshotsOnDisk, commandVars>>

\* fsync of the parent directory.
SyncOutput(p) ==
  /\ pc[p] = "sync"
  /\ SyncedOutput(target[p])
  /\ GoTo(p, "reread")
  /\ UNCHANGED <<output, snapshots, snapshotsOnDisk, commandVars>>

\* The output is reopened and has to hold the bytes that were written.
Reread(p) ==
  /\ pc[p] = "reread"
  /\ GoTo(p, IF output[target[p]] # built[p] THEN "failed"
             ELSE IF asked[p] = NoSnapshot THEN "done" ELSE "check_snapshot")
  /\ UNCHANGED <<fileVars, commandVars>>

\* The except block: the old bytes again, or no output when there was none.
Recover(p) ==
  /\ pc[p] = "recover"
  /\ PutOutput(target[p], old[p])
  /\ GoTo(p, "sync_recovery")
  /\ UNCHANGED <<snapshots, snapshotsOnDisk, commandVars>>

SyncRecovery(p) ==
  /\ pc[p] = "sync_recovery"
  /\ SyncedOutput(target[p])
  /\ GoTo(p, "failed")
  /\ UNCHANGED <<output, snapshots, snapshotsOnDisk, commandVars>>

\* Variant: a snapshot that differs is removed and written again.
CheckSnapshot_Rewrites(p) ==
  LET found == snapshots[asked[p]]
  IN /\ pc[p] = "check_snapshot"
     /\ IF found = built[p]
        THEN GoTo(p, "done") /\ UNCHANGED fileVars
        ELSE /\ snapshots' = [snapshots EXCEPT ![asked[p]] = NoFile]
             /\ snapshotsOnDisk' = [snapshotsOnDisk EXCEPT ![asked[p]] = @ \cup {NoFile}]
             /\ GoTo(p, "rename_snapshot")
             /\ UNCHANGED <<output, outputOnDisk>>
     /\ UNCHANGED commandVars

\* A snapshot that exists has to hold the same bytes; it is left as it is.
CheckSnapshot(p) ==
  LET found == snapshots[asked[p]]
  IN /\ pc[p] = "check_snapshot"
     /\ GoTo(p, IF found = NoFile THEN "rename_snapshot"
                ELSE IF found = built[p] THEN "done" ELSE "failed")
     /\ UNCHANGED <<fileVars, commandVars>>

\* The three files are synced under a temporary name; the rename fails when the
\* snapshot has appeared meanwhile, since a directory that is not empty stays.
RenameSnapshot(p) ==
  LET b == asked[p]
  IN /\ pc[p] = "rename_snapshot"
     /\ IF snapshots[b] = NoFile
        THEN /\ snapshots' = [snapshots EXCEPT ![b] = built[p]]
             /\ snapshotsOnDisk' = [snapshotsOnDisk EXCEPT ![b] = @ \cup {built[p]}]
             /\ GoTo(p, "sync_snapshot")
        ELSE GoTo(p, "failed") /\ UNCHANGED <<snapshots, snapshotsOnDisk>>
     /\ UNCHANGED <<output, outputOnDisk, commandVars>>

SyncSnapshot(p) ==
  /\ pc[p] = "sync_snapshot"
  /\ snapshotsOnDisk' = [b \in Boundary |-> {snapshots[b]}]
  /\ GoTo(p, "done")
  /\ UNCHANGED <<output, outputOnDisk, snapshots, commandVars>>

PublishStep(p) ==
  \/ LockOutput(p) \/ Build(p) \/ Replace(p) \/ SyncOutput(p) \/ Reread(p)
  \/ Recover(p) \/ SyncRecovery(p) \/ CheckSnapshot(p) \/ RenameSnapshot(p) \/ SyncSnapshot(p)

\* Any call raises.  From the replace to the sync of the output the except block
\* recovers; anywhere else, in the recovery too, the exception leaves.
PublicationRaises(p) ==
  /\ pc[p] \in Publishing
  /\ GoTo(p, IF pc[p] \in {"replace", "sync"} THEN "recover" ELSE "failed")
  /\ UNCHANGED <<fileVars, commandVars>>

\* What a power loss does to the two directories.
LoseUnsynced ==
  /\ \E found \in [Output -> Casebook \cup {NoFile}] :
       /\ \A o \in Output : found[o] \in outputOnDisk[o]
       /\ output' = found
       /\ outputOnDisk' = [o \in Output |-> {found[o]}]
  /\ \E found \in [Boundary -> Casebook \cup {NoFile}] :
       /\ \A b \in Boundary : found[b] \in snapshotsOnDisk[b]
       /\ snapshots' = found
       /\ snapshotsOnDisk' = [b \in Boundary |-> {found[b]}]

FilesInit ==
  /\ output = [o \in Output |-> NoFile]
  /\ outputOnDisk = [o \in Output |-> {NoFile}]
  /\ snapshots = [b \in Boundary |-> NoFile]
  /\ snapshotsOnDisk = [b \in Boundary |-> {NoFile}]
================================================================================
