-------------------------------- MODULE Backup ---------------------------------
(* backup_database of backup.py: copies of the market database to one target   *)
(* path, made by any number of invocations.  Two names in the target directory *)
(* matter, the target and its rollback; the content of each is the version of  *)
(* the source it is a copy of.  A process can die at any step, any call can    *)
(* raise, and a power loss undoes directory changes that no fsync followed.    *)
EXTENDS Integers

CONSTANTS
  Proc,       \* invocations, each one backup of the same target
  MaxSource   \* bound: versions the source goes through

ASSUME SourceAssumption == MaxSource \in Nat \ {0}

VARIABLES
  source,   \* version of the database being copied
  dir,      \* what the names target and rollback hold
  onDisk,   \* the directory states a power loss can leave
  pc,
  copy,     \* version an invocation has in its temporary file
  synced,   \* whether the temporary file was synced
  had       \* its local variable had_target

vars == <<source, dir, onDisk, pc, copy, synced, had>>

None == 0        \* no such name
Torn == -1       \* a file whose data did not reach the disk
Content == {None, Torn} \cup 1..MaxSource
Directory == [target : Content, rollback : Content]

\* An invocation holds the lock of the target from its first step to its last.
Locked == {"check", "copy", "verify", "sync_copy", "set_aside", "install",
           "sync_directory", "drop_rollback", "recover", "sync_recovery"}
Stopped == {"done", "refused", "failed", "crashed"}

\* Variant: the lock file is opened and never locked.
LockFree_Always == TRUE

LockFree == \A p \in Proc : pc[p] \notin Locked

--------------------------------------------------------------------------------
GoTo(p, label) == pc' = [pc EXCEPT ![p] = label]

\* A directory operation takes effect at once; until the next fsync a power loss
\* may or may not have kept it.
Perform(Op(_)) ==
  /\ dir' = Op(dir)
  /\ onDisk' = onDisk \cup {Op(d) : d \in onDisk}

SyncDirectory == onDisk' = {dir} /\ UNCHANGED dir
SameDirectory == UNCHANGED <<dir, onDisk>>
KeepLocals == UNCHANGED <<copy, synced, had>>

SourceCommits ==
  /\ source < MaxSource
  /\ source' = source + 1
  /\ UNCHANGED <<dir, onDisk, pc, copy, synced, had>>

\* _target_lock: non-blocking, an overlapping invocation gives up.
Lock(p) ==
  /\ pc[p] = "idle"
  /\ GoTo(p, IF LockFree THEN "check" ELSE "refused")
  /\ UNCHANGED source /\ SameDirectory /\ KeepLocals

\* A rollback left behind is never overwritten.
CheckRollback(p) ==
  /\ pc[p] = "check"
  /\ GoTo(p, IF dir.rollback = None THEN "copy" ELSE "failed")
  /\ UNCHANGED source /\ SameDirectory /\ KeepLocals

\* src.backup(dst): a consistent copy of the source as it is when it ends.
CopySource(p) ==
  /\ pc[p] = "copy"
  /\ copy' = [copy EXCEPT ![p] = source]
  /\ GoTo(p, "verify")
  /\ UNCHANGED <<source, synced, had>> /\ SameDirectory

\* Variant: the copy is taken for safe once it is verified.
Verify_SkipsSync(p) ==
  /\ pc[p] = "verify"
  /\ \E sound \in BOOLEAN : GoTo(p, IF sound THEN "set_aside" ELSE "failed")
  /\ UNCHANGED source /\ SameDirectory /\ KeepLocals

\* PRAGMA integrity_check of the copy, then its checksum.
Verify(p) ==
  /\ pc[p] = "verify"
  /\ \E sound \in BOOLEAN : GoTo(p, IF sound THEN "sync_copy" ELSE "failed")
  /\ UNCHANGED source /\ SameDirectory /\ KeepLocals

SyncCopy(p) ==
  /\ pc[p] = "sync_copy"
  /\ synced' = [synced EXCEPT ![p] = TRUE]
  /\ GoTo(p, "set_aside")
  /\ UNCHANGED <<source, copy, had>> /\ SameDirectory

\* os.replace(target, rollback) when there is a target.
SetAside(p) ==
  LET Move(d) == [target |-> None, rollback |-> dir.target]
  IN /\ pc[p] = "set_aside"
     /\ had' = [had EXCEPT ![p] = dir.target # None]
     /\ IF dir.target # None THEN Perform(Move) ELSE SameDirectory
     /\ GoTo(p, "install")
     /\ UNCHANGED <<source, copy, synced>>

\* os.replace(temporary, target).  Data that was not synced may be torn.
Install(p) ==
  LET kept == IF synced[p] THEN {copy[p]} ELSE {copy[p], Torn}
  IN /\ pc[p] = "install"
     /\ dir' = [dir EXCEPT !.target = copy[p]]
     /\ onDisk' = onDisk \cup {[d EXCEPT !.target = c] : d \in onDisk, c \in kept}
     /\ GoTo(p, "sync_directory")
     /\ UNCHANGED source /\ KeepLocals

\* Variant: the directory is left for the system to write.
SyncInstall_Later(p) ==
  /\ pc[p] = "sync_directory"
  /\ GoTo(p, "drop_rollback")
  /\ UNCHANGED source /\ SameDirectory /\ KeepLocals

SyncInstall(p) ==
  /\ pc[p] = "sync_directory"
  /\ SyncDirectory
  /\ GoTo(p, "drop_rollback")
  /\ UNCHANGED source /\ KeepLocals

\* rollback.unlink(missing_ok=True); the receipt is returned.
DropRollback(p) ==
  LET Unlink(d) == [d EXCEPT !.rollback = None]
  IN /\ pc[p] = "drop_rollback"
     /\ Perform(Unlink)
     /\ GoTo(p, "done")
     /\ UNCHANGED source /\ KeepLocals

\* Variant: a failed attempt always removes what is at the target.
Recover_RemovesTarget(p) ==
  LET Remove(d) == [target |-> None, rollback |-> None]
  IN /\ pc[p] = "recover"
     /\ Perform(Remove)
     /\ GoTo(p, "sync_recovery")
     /\ UNCHANGED source /\ KeepLocals

\* The except block: put the old target back, or remove the new one.
Recover(p) ==
  LET Restore(d) == [target |-> dir.rollback, rollback |-> None]
      Remove(d) == [d EXCEPT !.target = None]
  IN /\ pc[p] = "recover"
     /\ IF had[p] THEN Perform(Restore) ELSE Perform(Remove)
     /\ GoTo(p, "sync_recovery")
     /\ UNCHANGED source /\ KeepLocals

SyncRecovery(p) ==
  /\ pc[p] = "sync_recovery"
  /\ SyncDirectory
  /\ GoTo(p, "failed")
  /\ UNCHANGED source /\ KeepLocals

\* Any call raises.  Between set-aside and the directory sync the except block
\* recovers; anywhere else, in the recovery too, the exception leaves.
CallRaises(p) ==
  /\ pc[p] \in Locked
  /\ GoTo(p, IF pc[p] \in {"install", "sync_directory"} THEN "recover" ELSE "failed")
  /\ UNCHANGED source /\ SameDirectory /\ KeepLocals

Crash(p) ==
  /\ pc[p] \in Locked
  /\ GoTo(p, "crashed")
  /\ UNCHANGED source /\ SameDirectory /\ KeepLocals

PowerLoss ==
  /\ \E d \in onDisk : dir' = d /\ onDisk' = {d}
  /\ pc' = [p \in Proc |-> IF pc[p] \in Locked THEN "crashed" ELSE pc[p]]
  /\ UNCHANGED source /\ KeepLocals

Exhausted ==
  /\ \A p \in Proc : pc[p] \in Stopped
  /\ UNCHANGED vars

Advance(p) ==
  \/ CheckRollback(p) \/ CopySource(p) \/ Verify(p) \/ SyncCopy(p) \/ SetAside(p)
  \/ Install(p) \/ SyncInstall(p) \/ DropRollback(p) \/ Recover(p) \/ SyncRecovery(p)

Init ==
  /\ source = 1
  /\ dir = [target |-> None, rollback |-> None]
  /\ onDisk = {dir}
  /\ pc = [p \in Proc |-> "idle"]
  /\ copy = [p \in Proc |-> None]
  /\ synced = [p \in Proc |-> FALSE]
  /\ had = [p \in Proc |-> FALSE]

Next ==
  \/ SourceCommits
  \/ \E p \in Proc : Lock(p) \/ Advance(p) \/ CallRaises(p) \/ Crash(p)
  \/ PowerLoss
  \/ Exhausted

Spec == Init /\ [][Next]_vars

--------------------------------------------------------------------------------
(* Properties *)

\* Names hold versions the source has reached, and what the directory shows is
\* one of the states a power loss can leave.
TypeOK ==
  /\ source \in 1..MaxSource
  /\ dir \in Directory
  /\ onDisk \in SUBSET Directory /\ dir \in onDisk
  /\ pc \in [Proc -> {"idle"} \cup Locked \cup Stopped]
  /\ copy \in [Proc -> Content \ {Torn}]
  /\ synced \in [Proc -> BOOLEAN]
  /\ had \in [Proc -> BOOLEAN]

\* What a backup that reported success has saved stays saved, at the target or
\* at the rollback of a later attempt, through failures, crashes and power loss.
SuccessfulBackupSurvives ==
  \A p \in Proc : pc[p] = "done" =>
    \A d \in onDisk : d.target >= copy[p] \/ d.rollback >= copy[p]

\* The receipt's checksum describes the file at the target ("an overlapping
\* invocation fails closed instead of publishing a stale manifest").
ReceiptMatchesTarget ==
  [][\A p \in Proc : pc[p] # "done" /\ pc'[p] = "done" => dir'.target = copy[p]]_vars

\* The file at either name is never torn, not even after a power loss.
NeverTorn == \A d \in onDisk : d.target # Torn /\ d.rollback # Torn

\* From the check of a left-over rollback to the set-aside that would replace
\* it nothing puts one there: the old copy it holds is never overwritten.
RollbackNeverOverwritten ==
  \A p \in Proc :
    pc[p] \in {"copy", "verify", "sync_copy", "set_aside"} => dir.rollback = None

\* What the receipts are for, and what an operator finds in each directory that a
\* power loss can leave: the newer of the two files.
Receipts == {copy[p] : p \in {q \in Proc : pc[q] = "done"}}
Newer(d) == IF d.target >= d.rollback THEN d.target ELSE d.rollback

Vault == INSTANCE BackupVault WITH receipts <- Receipts, found <- {Newer(d) : d \in onDisk}

\* Backups that overlap, fail, die or lose power show nothing of it: a receipt is
\* for the newest copy there is, which nothing older ever takes the place of.
ImplementsVault == Vault!VaultSpec
================================================================================
