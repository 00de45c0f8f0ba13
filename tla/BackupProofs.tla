----------------------------- MODULE BackupProofs ------------------------------
(* Theorems about Backup, for every number of invocations and every version of *)
(* the source: what one backup has reported as saved is never lost, and every  *)
(* name holds a whole copy at every point a failure or a power loss can come.  *)
EXTENDS Backup, TLAPS

Copied == {"verify", "sync_copy", "set_aside", "install", "sync_directory", "drop_rollback"}
Replacing == {"install", "sync_directory", "recover"}

\* One invocation at a time holds the lock.
OneHolder == \A p, q \in Proc : pc[p] \in Locked /\ pc[q] \in Locked => p = q

\* A copy is of a version the source has had, and is synced before it is used.
CopiesAreSound ==
  \A p \in Proc :
    /\ copy[p] <= source
    /\ pc[p] \in Copied \cup {"done"} => copy[p] >= 1
    /\ pc[p] \in {"set_aside", "install"} => synced[p]

\* What is saved was saved before the invocation now running had its copy.
NewerThanSaved ==
  \A p, q \in Proc : pc[p] = "done" /\ pc[q] \in Copied => copy[p] <= copy[q]

\* Between the set-aside and the end of the recovery the old target, if there was
\* one, is at the rollback and as new as anything that was saved.
OldCopyIsKept ==
  \A p, q \in Proc : pc[q] \in Replacing /\ pc[p] = "done" =>
    had[q] /\ dir.rollback >= copy[p]

\* Once the directory is synced the new copy is all that can be found.
NewCopyIsInstalled ==
  \A q \in Proc :
    /\ pc[q] \in {"sync_directory", "drop_rollback"} => dir.target = copy[q]
    /\ pc[q] = "drop_rollback" => \A d \in onDisk : d.target = copy[q]

Inv ==
  /\ TypeOK /\ OneHolder /\ CopiesAreSound /\ RollbackNeverOverwritten
  /\ NewerThanSaved /\ OldCopyIsKept /\ NewCopyIsInstalled
  /\ NeverTorn /\ SuccessfulBackupSurvives

Label == {"idle"} \cup Locked \cup Stopped

USE DEF None, Torn

--------------------------------------------------------------------------------
(* Steps that leave the directory alone *)

\* An invocation moves on without touching anything else than its own locals.
Quiet(p, label) ==
  /\ GoTo(p, label)
  /\ UNCHANGED source /\ SameDirectory /\ KeepLocals

LEMMA InitInv == Init => Inv
  BY SourceAssumption DEF Init, Inv, TypeOK, Directory, Content, OneHolder, CopiesAreSound,
     RollbackNeverOverwritten, NewerThanSaved, OldCopyIsKept, NewCopyIsInstalled, NeverTorn,
     SuccessfulBackupSurvives, Locked, Stopped, Copied, Replacing

\* The steps that end an invocation without success, the sync of a recovery among
\* them: they take possibilities away from the directory and add none.
LEMMA StopInv ==
  ASSUME Inv, NEW p \in Proc, NEW label \in {"refused", "failed", "crashed"},
         GoTo(p, label), UNCHANGED source, KeepLocals,
         dir' = dir, onDisk' \subseteq onDisk, dir \in onDisk'
  PROVE  Inv'
<1>1. /\ pc' = [pc EXCEPT ![p] = label]
      /\ UNCHANGED <<source, dir, copy, synced, had>>
  BY DEF GoTo, KeepLocals
<1>2. pc \in [Proc -> Label]
  BY DEF Inv, TypeOK, Label
<1>3. \A q \in Proc : pc'[q] = pc[q] \/ pc'[q] \in {"refused", "failed", "crashed"}
  BY <1>1, <1>2
<1>4. TypeOK'
  BY <1>1, <1>2 DEF Inv, TypeOK, Label, Stopped
<1>5. OneHolder'
  BY <1>3 DEF Inv, OneHolder, Locked
<1>6. CopiesAreSound'
  BY <1>1, <1>3 DEF Inv, CopiesAreSound, Copied
<1>7. RollbackNeverOverwritten'
  BY <1>1, <1>3 DEF Inv, RollbackNeverOverwritten
<1>8. NewerThanSaved'
  BY <1>1, <1>3 DEF Inv, NewerThanSaved, Copied
<1>9. OldCopyIsKept'
  BY <1>1, <1>3 DEF Inv, OldCopyIsKept, Replacing
<1>10. NewCopyIsInstalled'
  BY <1>1, <1>3 DEF Inv, NewCopyIsInstalled
<1>11. NeverTorn' /\ SuccessfulBackupSurvives'
  BY <1>1, <1>3 DEF Inv, NeverTorn, SuccessfulBackupSurvives
<1> QED BY <1>4, <1>5, <1>6, <1>7, <1>8, <1>9, <1>10, <1>11 DEF Inv

LEMMA QuietStop ==
  ASSUME Inv, NEW p \in Proc, NEW label \in {"refused", "failed", "crashed"}, Quiet(p, label)
  PROVE  Inv'
<1>1. dir' = dir /\ onDisk' = onDisk /\ dir \in onDisk
  BY DEF Quiet, SameDirectory, Inv, TypeOK
<1> QED BY <1>1, StopInv DEF Quiet

--------------------------------------------------------------------------------
(* Steps of the invocation that holds the lock *)

\* What a step of the holder has to establish: the others have ended or not begun.
HolderStep(p, label, c, s, h) ==
  /\ p \in Proc /\ pc[p] \in Locked
  /\ label \in Locked /\ pc' = [pc EXCEPT ![p] = label]
  /\ source' = source
  /\ dir' \in Directory /\ onDisk' \in SUBSET Directory /\ dir' \in onDisk'
  /\ c \in Content \ {Torn} /\ copy' = [copy EXCEPT ![p] = c]
  /\ s \in BOOLEAN /\ synced' = [synced EXCEPT ![p] = s]
  /\ h \in BOOLEAN /\ had' = [had EXCEPT ![p] = h]
  /\ c <= source
  /\ label \in Copied => c >= 1 /\ \A q \in Proc : pc[q] = "done" => copy[q] <= c
  /\ label \in {"set_aside", "install"} => s
  /\ label \in {"copy", "verify", "sync_copy", "set_aside"} => dir'.rollback = None
  /\ label \in Replacing => \A q \in Proc : pc[q] = "done" => h /\ dir'.rollback >= copy[q]
  /\ label \in {"sync_directory", "drop_rollback"} => dir'.target = c
  /\ label = "drop_rollback" => \A d \in onDisk' : d.target = c
  /\ \A d \in onDisk' : d.target # Torn /\ d.rollback # Torn
  /\ \A q \in Proc : pc[q] = "done" =>
       \A d \in onDisk' : d.target >= copy[q] \/ d.rollback >= copy[q]

LEMMA HolderInv ==
  ASSUME Inv, NEW p, NEW label, NEW c, NEW s, NEW h, HolderStep(p, label, c, s, h)
  PROVE  Inv'
<1> USE DEF HolderStep
<1>1. \A q \in Proc : q # p => pc[q] \notin Locked
  BY DEF Inv, OneHolder
<1>2. /\ pc \in [Proc -> Label]
      /\ copy \in [Proc -> Content \ {Torn}]
      /\ synced \in [Proc -> BOOLEAN]
      /\ had \in [Proc -> BOOLEAN]
  BY DEF Inv, TypeOK, Label
<1>3. /\ \A q \in Proc : pc'[q] = IF q = p THEN label ELSE pc[q]
      /\ \A q \in Proc : copy'[q] = IF q = p THEN c ELSE copy[q]
      /\ \A q \in Proc : synced'[q] = IF q = p THEN s ELSE synced[q]
      /\ \A q \in Proc : had'[q] = IF q = p THEN h ELSE had[q]
  BY <1>2
<1>4. "done" \notin Locked /\ Copied \subseteq Locked /\ Replacing \subseteq Locked
  BY DEF Locked, Copied, Replacing
<1>5. TypeOK'
  BY <1>2 DEF Inv, TypeOK, Label
<1>6. OneHolder'
  BY <1>1, <1>3 DEF OneHolder
<1>7. CopiesAreSound'
  BY <1>3, <1>4 DEF Inv, CopiesAreSound
<1>8. RollbackNeverOverwritten'
  BY <1>1, <1>3 DEF RollbackNeverOverwritten, Locked
<1>9. NewerThanSaved'
  BY <1>1, <1>3, <1>4 DEF NewerThanSaved
<1>10. OldCopyIsKept'
  BY <1>1, <1>3, <1>4 DEF OldCopyIsKept
<1>11. NewCopyIsInstalled'
  BY <1>1, <1>3 DEF NewCopyIsInstalled, Locked
<1>12. NeverTorn' /\ SuccessfulBackupSurvives'
  BY <1>3, <1>4 DEF NeverTorn, SuccessfulBackupSurvives
<1> QED BY <1>5, <1>6, <1>7, <1>8, <1>9, <1>10, <1>11, <1>12 DEF Inv

\* What the steps have in common: everything is typed, an unchanged local is its
\* own update, and what a saved copy needs to be is at least 1.
LEMMA Known ==
  ASSUME Inv, NEW p \in Proc
  PROVE  /\ source \in Nat /\ source >= 1 /\ source \in Content \ {Torn}
         /\ Content \subseteq Int
         /\ \A d \in onDisk : d \in Directory /\ d.target \in Content /\ d.rollback \in Content
         /\ dir \in onDisk /\ onDisk \in SUBSET Directory
         /\ copy[p] \in Content \ {Torn} /\ copy = [copy EXCEPT ![p] = copy[p]]
         /\ synced[p] \in BOOLEAN /\ synced = [synced EXCEPT ![p] = synced[p]]
         /\ had[p] \in BOOLEAN /\ had = [had EXCEPT ![p] = had[p]]
         /\ \A q \in Proc : copy[q] \in Int /\ (pc[q] = "done" => copy[q] >= 1)
         /\ copy[p] <= source
<1>1. source \in 1..MaxSource
  BY DEF Inv, TypeOK
<1>2. /\ source \in Nat /\ source >= 1 /\ source \in Content \ {Torn}
      /\ Content \subseteq Int
  BY <1>1, SourceAssumption DEF Content
<1>3. /\ copy \in [Proc -> Content \ {Torn}]
      /\ synced \in [Proc -> BOOLEAN]
      /\ had \in [Proc -> BOOLEAN]
  BY DEF Inv, TypeOK
<1>4. \A q \in Proc : copy[q] \in Int /\ (pc[q] = "done" => copy[q] >= 1)
  BY <1>2, <1>3 DEF Inv, CopiesAreSound
<1> QED BY <1>2, <1>3, <1>4 DEF Inv, TypeOK, Directory, CopiesAreSound

\* The lock is free, so the invocation that takes it is the only holder.
LEMMA LockInv ==
  ASSUME Inv, NEW p \in Proc, Lock(p)
  PROVE  Inv'
<1>1. CASE ~ LockFree
  BY <1>1, QuietStop DEF Lock, Quiet
<1>2. CASE LockFree
  <2>1. /\ pc' = [pc EXCEPT ![p] = "check"]
        /\ UNCHANGED <<source, dir, onDisk, copy, synced, had>>
    BY <1>2 DEF Lock, GoTo, SameDirectory, KeepLocals
  <2>2. pc \in [Proc -> Label] /\ \A q \in Proc : pc[q] \notin Locked
    BY <1>2 DEF Inv, TypeOK, Label, LockFree
  <2>3. \A q \in Proc : pc'[q] = IF q = p THEN "check" ELSE pc[q]
    BY <2>1, <2>2
  <2>4. TypeOK'
    BY <2>1, <2>2 DEF Inv, TypeOK, Label, Locked
  <2>5. OneHolder' /\ RollbackNeverOverwritten'
    BY <2>1, <2>2, <2>3 DEF Inv, OneHolder, RollbackNeverOverwritten
  <2>6. CopiesAreSound' /\ NewerThanSaved'
    BY <2>1, <2>2, <2>3 DEF Inv, CopiesAreSound, NewerThanSaved, Copied
  <2>7. OldCopyIsKept' /\ NewCopyIsInstalled'
    BY <2>1, <2>2, <2>3 DEF Inv, OldCopyIsKept, NewCopyIsInstalled, Replacing
  <2>8. NeverTorn' /\ SuccessfulBackupSurvives'
    BY <2>1, <2>3 DEF Inv, NeverTorn, SuccessfulBackupSurvives
  <2> QED BY <2>4, <2>5, <2>6, <2>7, <2>8 DEF Inv
<1> QED BY <1>1, <1>2

\* A step of the holder that changes nothing but its place.
LEMMA HolderMoves ==
  ASSUME Inv, NEW p \in Proc, pc[p] \in Locked,
         NEW label \in Locked, Quiet(p, label),
         label \in Copied => pc[p] \in Copied,
         label \in {"set_aside", "install"} => synced[p],
         label \in {"copy", "verify", "sync_copy", "set_aside"} => dir.rollback = None,
         label \in Replacing => pc[p] \in Replacing,
         label \notin {"sync_directory", "drop_rollback"}
  PROVE  Inv'
<1>1. /\ pc' = [pc EXCEPT ![p] = label]
      /\ UNCHANGED <<source, dir, onDisk, copy, synced, had>>
  BY DEF Quiet, GoTo, SameDirectory, KeepLocals
<1>2. label \in Copied => copy[p] >= 1 /\ \A q \in Proc : pc[q] = "done" => copy[q] <= copy[p]
  BY DEF Inv, CopiesAreSound, NewerThanSaved
<1>3. \A q \in Proc : pc[q] = "done" /\ label \in Replacing => had[p] /\ dir.rollback >= copy[q]
  BY DEF Inv, OldCopyIsKept
<1>4. \A d \in onDisk : d.target # Torn /\ d.rollback # Torn
  BY DEF Inv, NeverTorn
<1>5. \A q \in Proc : pc[q] = "done" =>
        \A d \in onDisk : d.target >= copy[q] \/ d.rollback >= copy[q]
  BY DEF Inv, SuccessfulBackupSurvives
<1>6. /\ copy[p] \in Content \ {Torn} /\ copy' = [copy EXCEPT ![p] = copy[p]]
      /\ synced[p] \in BOOLEAN /\ synced' = [synced EXCEPT ![p] = synced[p]]
      /\ had[p] \in BOOLEAN /\ had' = [had EXCEPT ![p] = had[p]]
      /\ copy[p] <= source
  BY <1>1, Known
<1>7. /\ dir' \in Directory /\ onDisk' \in SUBSET Directory /\ dir' \in onDisk'
      /\ dir' = dir /\ onDisk' = onDisk /\ source' = source
      /\ pc' = [pc EXCEPT ![p] = label]
  BY <1>1, Known
<1>8. HolderStep(p, label, copy[p], synced[p], had[p])
  BY <1>2, <1>3, <1>4, <1>5, <1>6, <1>7 DEF HolderStep
<1> QED BY <1>8, HolderInv

LEMMA CheckRollbackInv ==
  ASSUME Inv, NEW p \in Proc, CheckRollback(p)
  PROVE  Inv'
<1>1. CASE dir.rollback = None
  BY <1>1, HolderMoves DEF CheckRollback, Quiet, Locked, Copied, Replacing
<1>2. CASE dir.rollback # None
  BY <1>2, QuietStop DEF CheckRollback, Quiet
<1> QED BY <1>1, <1>2

LEMMA CopySourceInv ==
  ASSUME Inv, NEW p \in Proc, CopySource(p)
  PROVE  Inv'
<1>1. /\ pc[p] = "copy" /\ pc' = [pc EXCEPT ![p] = "verify"]
      /\ copy' = [copy EXCEPT ![p] = source]
      /\ UNCHANGED <<source, dir, onDisk, synced, had>>
  BY DEF CopySource, GoTo, SameDirectory
<1>2. /\ dir' \in Directory /\ onDisk' \in SUBSET Directory /\ dir' \in onDisk'
      /\ dir' = dir /\ onDisk' = onDisk /\ source' = source
      /\ source \in Content \ {Torn} /\ source <= source /\ source >= 1
      /\ synced[p] \in BOOLEAN /\ synced' = [synced EXCEPT ![p] = synced[p]]
      /\ had[p] \in BOOLEAN /\ had' = [had EXCEPT ![p] = had[p]]
  BY <1>1, Known
<1>3. dir.rollback = None
  BY <1>1 DEF Inv, RollbackNeverOverwritten
<1>4. \A q \in Proc : copy[q] <= source
  BY Known
<1>5. /\ \A d \in onDisk : d.target # Torn /\ d.rollback # Torn
      /\ \A q \in Proc : pc[q] = "done" =>
           \A d \in onDisk : d.target >= copy[q] \/ d.rollback >= copy[q]
  BY DEF Inv, NeverTorn, SuccessfulBackupSurvives
<1>6. /\ pc[p] \in Locked /\ "verify" \in Locked
      /\ "verify" \notin Replacing
  BY <1>1 DEF Locked, Replacing
<1>7. HolderStep(p, "verify", source, synced[p], had[p])
  BY <1>1, <1>2, <1>3, <1>4, <1>5, <1>6 DEF HolderStep
<1> QED BY <1>7, HolderInv

LEMMA VerifyInv ==
  ASSUME Inv, NEW p \in Proc, Verify(p)
  PROVE  Inv'
<1>1. pc[p] = "verify" /\ (Quiet(p, "sync_copy") \/ Quiet(p, "failed"))
  BY DEF Verify, Quiet
<1>2. dir.rollback = None
  BY <1>1 DEF Inv, RollbackNeverOverwritten
<1>3. CASE Quiet(p, "sync_copy")
  BY <1>1, <1>2, <1>3, HolderMoves DEF Locked, Copied, Replacing
<1>4. CASE Quiet(p, "failed")
  BY <1>4, QuietStop
<1> QED BY <1>1, <1>3, <1>4

LEMMA SyncCopyInv ==
  ASSUME Inv, NEW p \in Proc, SyncCopy(p)
  PROVE  Inv'
<1>1. /\ pc[p] = "sync_copy" /\ pc' = [pc EXCEPT ![p] = "set_aside"]
      /\ synced' = [synced EXCEPT ![p] = TRUE]
      /\ UNCHANGED <<source, dir, onDisk, copy, had>>
  BY DEF SyncCopy, GoTo, SameDirectory
<1>2. /\ dir' \in Directory /\ onDisk' \in SUBSET Directory /\ dir' \in onDisk'
      /\ dir' = dir /\ onDisk' = onDisk /\ source' = source
      /\ copy[p] \in Content \ {Torn} /\ copy' = [copy EXCEPT ![p] = copy[p]] /\ copy[p] <= source
      /\ had[p] \in BOOLEAN /\ had' = [had EXCEPT ![p] = had[p]]
  BY <1>1, Known
<1>3. dir.rollback = None
  BY <1>1 DEF Inv, RollbackNeverOverwritten
<1>4. copy[p] >= 1 /\ \A q \in Proc : pc[q] = "done" => copy[q] <= copy[p]
  BY <1>1 DEF Inv, CopiesAreSound, NewerThanSaved, Copied
<1>5. /\ \A d \in onDisk : d.target # Torn /\ d.rollback # Torn
      /\ \A q \in Proc : pc[q] = "done" =>
           \A d \in onDisk : d.target >= copy[q] \/ d.rollback >= copy[q]
  BY DEF Inv, NeverTorn, SuccessfulBackupSurvives
<1>6. /\ pc[p] \in Locked /\ "set_aside" \in Locked
      /\ "set_aside" \notin Replacing
  BY <1>1 DEF Locked, Replacing
<1>7. HolderStep(p, "set_aside", copy[p], TRUE, had[p])
  BY <1>1, <1>2, <1>3, <1>4, <1>5, <1>6 DEF HolderStep
<1> QED BY <1>7, HolderInv

\* The old target is the newest there is, and it is what the rollback gets.
LEMMA SetAsideInv ==
  ASSUME Inv, NEW p \in Proc, SetAside(p)
  PROVE  Inv'
<1> DEFINE moved == [target |-> None, rollback |-> dir.target]
<1>1. /\ pc[p] = "set_aside" /\ pc' = [pc EXCEPT ![p] = "install"]
      /\ had' = [had EXCEPT ![p] = dir.target # None]
      /\ UNCHANGED <<source, copy, synced>>
  BY DEF SetAside, GoTo
<1>2. /\ source' = source
      /\ copy[p] \in Content \ {Torn} /\ copy' = [copy EXCEPT ![p] = copy[p]] /\ copy[p] <= source
      /\ synced[p] \in BOOLEAN /\ synced' = [synced EXCEPT ![p] = synced[p]]
  BY <1>1, Known
<1>3. dir.rollback = None /\ synced[p]
  BY <1>1 DEF Inv, RollbackNeverOverwritten, CopiesAreSound
<1>4. copy[p] >= 1 /\ \A q \in Proc : pc[q] = "done" => copy[q] <= copy[p]
  BY <1>1 DEF Inv, CopiesAreSound, NewerThanSaved, Copied
<1>5. /\ \A d \in onDisk : d.target # Torn /\ d.rollback # Torn
      /\ \A q \in Proc : pc[q] = "done" =>
           \A d \in onDisk : d.target >= copy[q] \/ d.rollback >= copy[q]
  BY DEF Inv, NeverTorn, SuccessfulBackupSurvives
<1>6. \A q \in Proc : pc[q] = "done" => dir.target >= copy[q] /\ dir.target # None
  BY <1>3, <1>5, Known
<1>7. /\ pc[p] \in Locked /\ "install" \in Locked
  BY <1>1 DEF Locked
<1>8. CASE dir.target # None
  <2>1. dir' = moved /\ onDisk' = onDisk \cup {moved}
    BY <1>1, <1>8, Known DEF SetAside, Perform
  <2>2. moved \in Directory
    BY Known DEF Directory, Content
  <2>3. dir' \in Directory /\ onDisk' \in SUBSET Directory /\ dir' \in onDisk'
    BY <2>1, <2>2, Known
  <2>4. \A d \in onDisk' : d.target # Torn /\ d.rollback # Torn
    BY <1>5, <2>1, Known
  <2>5. \A q \in Proc : pc[q] = "done" =>
          \A d \in onDisk' : d.target >= copy[q] \/ d.rollback >= copy[q]
    BY <1>5, <1>6, <2>1
  <2>6. \A q \in Proc : pc[q] = "done" => dir.target # None /\ dir'.rollback >= copy[q]
    BY <1>6, <2>1
  <2>7. had' = [had EXCEPT ![p] = TRUE]
    BY <1>1, <1>8
  <2>8. HolderStep(p, "install", copy[p], synced[p], TRUE)
    BY <1>1, <1>2, <1>3, <1>4, <1>7, <2>3, <2>4, <2>5, <2>6, <2>7 DEF HolderStep
  <2> QED BY <2>8, HolderInv
<1>9. CASE dir.target = None
  <2>1. dir' = dir /\ onDisk' = onDisk
    BY <1>9 DEF SetAside, SameDirectory
  <2>2. dir' \in Directory /\ onDisk' \in SUBSET Directory /\ dir' \in onDisk'
    BY <2>1, Known
  <2>3. \A q \in Proc : pc[q] # "done"
    BY <1>6, <1>9
  <2>4. had' = [had EXCEPT ![p] = FALSE]
    BY <1>1, <1>9
  <2>5. HolderStep(p, "install", copy[p], synced[p], FALSE)
    BY <1>1, <1>2, <1>3, <1>4, <1>5, <1>7, <2>1, <2>2, <2>3, <2>4 DEF HolderStep
  <2> QED BY <2>5, HolderInv
<1> QED BY <1>8, <1>9

\* The copy takes the place of the target; it is at least as new as anything saved.
LEMMA InstallInv ==
  ASSUME Inv, NEW p \in Proc, Install(p)
  PROVE  Inv'
<1> DEFINE put(d) == [d EXCEPT !.target = copy[p]]
<1>1. /\ pc[p] = "install" /\ pc' = [pc EXCEPT ![p] = "sync_directory"]
      /\ UNCHANGED <<source, copy, synced, had>>
  BY DEF Install, GoTo, KeepLocals
<1>2. /\ source' = source
      /\ copy[p] \in Content \ {Torn} /\ copy' = [copy EXCEPT ![p] = copy[p]] /\ copy[p] <= source
      /\ synced[p] \in BOOLEAN /\ synced' = [synced EXCEPT ![p] = synced[p]]
      /\ had[p] \in BOOLEAN /\ had' = [had EXCEPT ![p] = had[p]]
  BY <1>1, Known
<1>3. synced[p]
  BY <1>1 DEF Inv, CopiesAreSound
<1>4. copy[p] >= 1 /\ \A q \in Proc : pc[q] = "done" => copy[q] <= copy[p]
  BY <1>1 DEF Inv, CopiesAreSound, NewerThanSaved, Copied
<1>5. \A q \in Proc : pc[q] = "done" => had[p] /\ dir.rollback >= copy[q]
  BY <1>1 DEF Inv, OldCopyIsKept, Replacing
<1>6. \A d \in Directory : /\ put(d) \in Directory
                           /\ put(d).target = copy[p]
                           /\ put(d).rollback = d.rollback
  BY <1>2 DEF Directory
<1>7. dir' = put(dir) /\ onDisk' = onDisk \cup {put(d) : d \in onDisk}
  <2>1. onDisk' = onDisk \cup {[d EXCEPT !.target = c] : d \in onDisk, c \in {copy[p]}}
    BY <1>3 DEF Install
  <2>2. {[d EXCEPT !.target = c] : d \in onDisk, c \in {copy[p]}} = {put(d) : d \in onDisk}
    <3> DEFINE with(d, c) == [d EXCEPT !.target = c]
    <3>1. \A d : with(d, copy[p]) = put(d)
      OBVIOUS
    <3> HIDE DEF with, put
    <3>2. {with(d, c) : d \in onDisk, c \in {copy[p]}} = {put(d) : d \in onDisk}
      BY <3>1
    <3> QED BY <3>2 DEF with
  <2>3. dir' = put(dir)
    BY DEF Install
  <2> QED BY <2>1, <2>2, <2>3
<1>8. dir' \in Directory /\ onDisk' \in SUBSET Directory /\ dir' \in onDisk'
  <2>1. put(dir) \in {put(d) : d \in onDisk}
    BY Known
  <2>2. {put(d) : d \in onDisk} \subseteq Directory
    BY <1>6, Known
  <2> HIDE DEF put
  <2> QED BY <1>6, <1>7, <2>1, <2>2, Known
<1> HIDE DEF put
<1>9. \A d \in onDisk' : d.target # Torn /\ d.rollback # Torn
  <2>1. \A d \in onDisk : d.target # Torn /\ d.rollback # Torn
    BY DEF Inv, NeverTorn
  <2> QED BY <1>2, <1>6, <1>7, <2>1, Known
<1>10. \A q \in Proc : pc[q] = "done" =>
         \A d \in onDisk' : d.target >= copy[q] \/ d.rollback >= copy[q]
  <2>1. \A q \in Proc : pc[q] = "done" =>
          \A d \in onDisk : d.target >= copy[q] \/ d.rollback >= copy[q]
    BY DEF Inv, SuccessfulBackupSurvives
  <2> QED BY <1>4, <1>6, <1>7, <2>1, Known
<1>11. dir'.target = copy[p] /\ dir'.rollback = dir.rollback
  BY <1>6, <1>7, Known
<1>12. pc[p] \in Locked /\ "sync_directory" \in Locked
  BY <1>1 DEF Locked
<1>13. HolderStep(p, "sync_directory", copy[p], synced[p], had[p])
  BY <1>1, <1>2, <1>4, <1>5, <1>8, <1>9, <1>10, <1>11, <1>12 DEF HolderStep
<1> QED BY <1>13, HolderInv

\* Nothing but the new directory can be found any more.
LEMMA SyncInstallInv ==
  ASSUME Inv, NEW p \in Proc, SyncInstall(p)
  PROVE  Inv'
<1>1. /\ pc[p] = "sync_directory" /\ pc' = [pc EXCEPT ![p] = "drop_rollback"]
      /\ UNCHANGED <<source, dir, copy, synced, had>> /\ onDisk' = {dir}
  BY DEF SyncInstall, SyncDirectory, GoTo, KeepLocals
<1>2. /\ dir' \in Directory /\ onDisk' \in SUBSET Directory /\ dir' \in onDisk'
      /\ source' = source
      /\ copy[p] \in Content \ {Torn} /\ copy' = [copy EXCEPT ![p] = copy[p]] /\ copy[p] <= source
      /\ synced[p] \in BOOLEAN /\ synced' = [synced EXCEPT ![p] = synced[p]]
      /\ had[p] \in BOOLEAN /\ had' = [had EXCEPT ![p] = had[p]]
  BY <1>1, Known
<1>3. copy[p] >= 1 /\ \A q \in Proc : pc[q] = "done" => copy[q] <= copy[p]
  BY <1>1 DEF Inv, CopiesAreSound, NewerThanSaved, Copied
<1>4. dir.target = copy[p]
  BY <1>1 DEF Inv, NewCopyIsInstalled
<1>5. /\ \A d \in onDisk' : d.target # Torn /\ d.rollback # Torn
      /\ \A q \in Proc : pc[q] = "done" =>
           \A d \in onDisk' : d.target >= copy[q] \/ d.rollback >= copy[q]
  BY <1>1, Known DEF Inv, NeverTorn, SuccessfulBackupSurvives
<1>6. /\ pc[p] \in Locked /\ "drop_rollback" \in Locked
      /\ "drop_rollback" \notin Replacing
      /\ \A d \in onDisk' : d.target = copy[p]
      /\ dir'.target = copy[p]
  BY <1>1, <1>4 DEF Locked, Replacing
<1>7. HolderStep(p, "drop_rollback", copy[p], synced[p], had[p])
  BY <1>1, <1>2, <1>3, <1>5, <1>6 DEF HolderStep
<1> QED BY <1>7, HolderInv

\* The old target comes back, or, when there was none, nothing has been saved yet.
LEMMA RecoverInv ==
  ASSUME Inv, NEW p \in Proc, Recover(p)
  PROVE  Inv'
<1> DEFINE restored == [target |-> dir.rollback, rollback |-> None]
           removed(d) == [d EXCEPT !.target = None]
<1>1. /\ pc[p] = "recover" /\ pc' = [pc EXCEPT ![p] = "sync_recovery"]
      /\ UNCHANGED <<source, copy, synced, had>>
  BY DEF Recover, GoTo, KeepLocals
<1>2. /\ source' = source
      /\ copy[p] \in Content \ {Torn} /\ copy' = [copy EXCEPT ![p] = copy[p]] /\ copy[p] <= source
      /\ synced[p] \in BOOLEAN /\ synced' = [synced EXCEPT ![p] = synced[p]]
      /\ had[p] \in BOOLEAN /\ had' = [had EXCEPT ![p] = had[p]]
  BY <1>1, Known
<1>3. \A q \in Proc : pc[q] = "done" => had[p] /\ dir.rollback >= copy[q]
  BY <1>1 DEF Inv, OldCopyIsKept, Replacing
<1>4. /\ \A d \in onDisk : d.target # Torn /\ d.rollback # Torn
      /\ \A q \in Proc : pc[q] = "done" =>
           \A d \in onDisk : d.target >= copy[q] \/ d.rollback >= copy[q]
  BY DEF Inv, NeverTorn, SuccessfulBackupSurvives
<1>5. /\ pc[p] \in Locked /\ "sync_recovery" \in Locked
      /\ "sync_recovery" \notin Copied /\ "sync_recovery" \notin Replacing
  BY <1>1 DEF Locked, Copied, Replacing
<1>6. CASE had[p]
  <2>1. dir' = restored /\ onDisk' = onDisk \cup {restored}
    BY <1>1, <1>6, Known DEF Recover, Perform
  <2>2. restored \in Directory
    BY Known DEF Directory, Content
  <2>3. dir' \in Directory /\ onDisk' \in SUBSET Directory /\ dir' \in onDisk'
    BY <2>1, <2>2, Known
  <2>4. \A d \in onDisk' : d.target # Torn /\ d.rollback # Torn
    BY <1>4, <2>1, Known
  <2>5. \A q \in Proc : pc[q] = "done" =>
          \A d \in onDisk' : d.target >= copy[q] \/ d.rollback >= copy[q]
    BY <1>3, <1>4, <2>1
  <2>6. HolderStep(p, "sync_recovery", copy[p], synced[p], had[p])
    BY <1>1, <1>2, <1>5, <2>3, <2>4, <2>5 DEF HolderStep
  <2> QED BY <2>6, HolderInv
<1>7. CASE ~ had[p]
  <2>1. dir' = removed(dir) /\ onDisk' = onDisk \cup {removed(d) : d \in onDisk}
    BY <1>7 DEF Recover, Perform
  <2>2. \A d \in Directory : /\ removed(d) \in Directory
                             /\ removed(d).target = None
                             /\ removed(d).rollback = d.rollback
    BY DEF Directory, Content
  <2>3. removed(dir) \in {removed(d) : d \in onDisk}
    BY Known
  <2> HIDE DEF removed
  <2>4. dir' \in Directory /\ onDisk' \in SUBSET Directory /\ dir' \in onDisk'
    BY <2>1, <2>2, <2>3, Known
  <2>5. \A d \in onDisk' : d.target # Torn /\ d.rollback # Torn
    BY <1>4, <2>1, <2>2, Known
  <2>6. \A q \in Proc : pc[q] # "done"
    BY <1>3, <1>7
  <2>7. HolderStep(p, "sync_recovery", copy[p], synced[p], had[p])
    BY <1>1, <1>2, <1>5, <2>4, <2>5, <2>6 DEF HolderStep
  <2> QED BY <2>7, HolderInv
<1> QED BY <1>6, <1>7

--------------------------------------------------------------------------------
(* The steps that are left *)

\* The receipt: the new copy is all that can be found, whatever the unlink loses.
LEMMA DropRollbackInv ==
  ASSUME Inv, NEW p \in Proc, DropRollback(p)
  PROVE  Inv' /\ dir'.target = copy[p]
<1> DEFINE dropped(d) == [d EXCEPT !.rollback = None]
<1>1. /\ pc[p] = "drop_rollback" /\ pc' = [pc EXCEPT ![p] = "done"]
      /\ UNCHANGED <<source, copy, synced, had>>
      /\ dir' = dropped(dir) /\ onDisk' = onDisk \cup {dropped(d) : d \in onDisk}
  BY DEF DropRollback, Perform, GoTo, KeepLocals
<1>2. pc \in [Proc -> Label]
  BY DEF Inv, TypeOK, Label
<1>3. \A q \in Proc : pc'[q] = IF q = p THEN "done" ELSE pc[q]
  BY <1>1, <1>2
<1>4. \A q \in Proc : q # p => pc[q] \notin Locked
  BY <1>1 DEF Inv, OneHolder, Locked
<1>5. \A d \in Directory : /\ dropped(d) \in Directory
                           /\ dropped(d).target = d.target
                           /\ dropped(d).rollback = None
  BY DEF Directory, Content
<1>6. dropped(dir) \in {dropped(d) : d \in onDisk}
  BY Known
<1>7. copy[p] >= 1 /\ \A q \in Proc : pc[q] = "done" => copy[q] <= copy[p]
  BY <1>1 DEF Inv, CopiesAreSound, NewerThanSaved, Copied
<1>8. dir.target = copy[p] /\ \A d \in onDisk : d.target = copy[p]
  BY <1>1 DEF Inv, NewCopyIsInstalled
<1> HIDE DEF dropped
<1>9. dir' \in Directory /\ onDisk' \in SUBSET Directory /\ dir' \in onDisk'
  BY <1>1, <1>5, <1>6, Known
<1>10. dir'.target = copy[p] /\ \A d \in onDisk' : d.target = copy[p]
  BY <1>1, <1>5, <1>8, Known
<1>11. TypeOK'
  BY <1>1, <1>2, <1>9 DEF Inv, TypeOK, Label, Stopped
<1>12. OneHolder' /\ RollbackNeverOverwritten'
  BY <1>3, <1>4 DEF Inv, OneHolder, RollbackNeverOverwritten, Locked
<1>13. CopiesAreSound'
  BY <1>1, <1>3, <1>7 DEF Inv, CopiesAreSound
<1>14. NewerThanSaved' /\ OldCopyIsKept' /\ NewCopyIsInstalled'
  BY <1>3, <1>4 DEF NewerThanSaved, OldCopyIsKept, NewCopyIsInstalled, Copied, Replacing, Locked
<1>15. NeverTorn'
  BY <1>1, <1>5, Known DEF Inv, NeverTorn
<1>16. SuccessfulBackupSurvives'
  <2>1. \A q \in Proc : pc'[q] = "done" => copy'[q] <= copy[p]
    BY <1>1, <1>3, <1>7, Known
  <2>2. \A d \in onDisk' : d.target \in Int
    BY <1>10, Known
  <2> QED BY <1>1, <1>10, <2>1, <2>2, Known DEF SuccessfulBackupSurvives
<1> QED BY <1>10, <1>11, <1>12, <1>13, <1>14, <1>15, <1>16 DEF Inv

LEMMA SyncRecoveryInv ==
  ASSUME Inv, NEW p \in Proc, SyncRecovery(p)
  PROVE  Inv'
  BY StopInv, Known DEF SyncRecovery, SyncDirectory

LEMMA CallRaisesInv ==
  ASSUME Inv, NEW p \in Proc, CallRaises(p)
  PROVE  Inv'
<1>1. CASE pc[p] \in {"install", "sync_directory"}
  BY <1>1, HolderMoves DEF CallRaises, Quiet, Locked, Copied, Replacing
<1>2. CASE pc[p] \notin {"install", "sync_directory"}
  BY <1>2, QuietStop DEF CallRaises, Quiet
<1> QED BY <1>1, <1>2

\* Whatever a power loss leaves is one of the states that were accounted for.
LEMMA PowerLossInv ==
  ASSUME Inv, PowerLoss
  PROVE  Inv'
<1>1. /\ dir' \in onDisk /\ onDisk' = {dir'}
      /\ UNCHANGED <<source, copy, synced, had>>
      /\ pc' = [p \in Proc |-> IF pc[p] \in Locked THEN "crashed" ELSE pc[p]]
  BY DEF PowerLoss, KeepLocals
<1>2. pc \in [Proc -> Label]
  BY DEF Inv, TypeOK, Label
<1>3. /\ \A q \in Proc : pc'[q] \notin Locked
      /\ \A q \in Proc : pc'[q] = "done" => pc[q] = "done"
  BY <1>1, <1>2 DEF Locked
<1>4. pc' \in [Proc -> Label]
  BY <1>1, <1>2 DEF Label, Stopped
<1>5. TypeOK'
  BY <1>1, <1>4 DEF Inv, TypeOK, Label
<1>6. OneHolder' /\ RollbackNeverOverwritten'
  BY <1>3 DEF OneHolder, RollbackNeverOverwritten, Locked
<1>7. CopiesAreSound'
  BY <1>1, <1>3 DEF Inv, CopiesAreSound, Locked, Copied
<1>8. NewerThanSaved' /\ OldCopyIsKept' /\ NewCopyIsInstalled'
  BY <1>3 DEF NewerThanSaved, OldCopyIsKept, NewCopyIsInstalled, Copied, Replacing, Locked
<1>9. NeverTorn' /\ SuccessfulBackupSurvives'
  BY <1>1, <1>3 DEF Inv, NeverTorn, SuccessfulBackupSurvives
<1> QED BY <1>5, <1>6, <1>7, <1>8, <1>9 DEF Inv

LEMMA SourceCommitsInv ==
  ASSUME Inv, SourceCommits
  PROVE  Inv'
<1>1. /\ source' = source + 1 /\ source < MaxSource
      /\ UNCHANGED <<dir, onDisk, pc, copy, synced, had>>
  BY DEF SourceCommits
<1>2. TypeOK'
  BY <1>1, SourceAssumption DEF Inv, TypeOK
<1>3. \A p \in Proc : copy[p] \in Int /\ copy[p] <= source /\ source \in Nat
  BY Known
<1>4. CopiesAreSound'
  BY <1>1, <1>3 DEF Inv, CopiesAreSound
<1>5. /\ OneHolder' /\ RollbackNeverOverwritten' /\ NewerThanSaved' /\ OldCopyIsKept'
      /\ NewCopyIsInstalled' /\ NeverTorn' /\ SuccessfulBackupSurvives'
  BY <1>1 DEF Inv, OneHolder, RollbackNeverOverwritten, NewerThanSaved, OldCopyIsKept,
     NewCopyIsInstalled, NeverTorn, SuccessfulBackupSurvives
<1> QED BY <1>2, <1>4, <1>5 DEF Inv

LEMMA StutterInv == Inv /\ UNCHANGED vars => Inv'
  BY DEF vars, Inv, TypeOK, OneHolder, CopiesAreSound, RollbackNeverOverwritten, NewerThanSaved,
     OldCopyIsKept, NewCopyIsInstalled, NeverTorn, SuccessfulBackupSurvives

LEMMA NextInv == Inv /\ [Next]_vars => Inv'
<1> SUFFICES ASSUME Inv, [Next]_vars PROVE Inv'
  OBVIOUS
<1>1. ASSUME NEW p \in Proc, Advance(p) PROVE Inv'
  BY <1>1, CheckRollbackInv, CopySourceInv, VerifyInv, SyncCopyInv, SetAsideInv, InstallInv,
     SyncInstallInv, DropRollbackInv, RecoverInv, SyncRecoveryInv DEF Advance
<1>2. ASSUME NEW p \in Proc, Crash(p) PROVE Inv'
  BY <1>2, QuietStop DEF Crash, Quiet
<1>3. CASE Next
  BY <1>1, <1>2, <1>3, LockInv, CallRaisesInv, PowerLossInv, SourceCommitsInv, StutterInv
     DEF Next, Exhausted
<1>4. CASE UNCHANGED vars
  BY <1>4, StutterInv
<1> QED BY <1>3, <1>4

LEMMA SpecInv == Spec => []Inv
  BY InitInv, NextInv, PTL DEF Spec

--------------------------------------------------------------------------------
(* Theorems *)

\* Names hold versions the source has reached, and what is seen can be found.
THEOREM TypeCorrect == Spec => []TypeOK
<1>1. Inv => TypeOK
  BY DEF Inv
<1> QED BY <1>1, SpecInv, PTL

\* A backup that reported success stays, at the target or at the rollback of a later
\* attempt, at whatever call that one fails, dies or loses power.
THEOREM BackupsSurvive == Spec => []SuccessfulBackupSurvives
<1>1. Inv => SuccessfulBackupSurvives
  BY DEF Inv
<1> QED BY <1>1, SpecInv, PTL

\* No name ever holds a copy whose data did not reach the disk.
THEOREM NamesNeverTorn == Spec => []NeverTorn
<1>1. Inv => NeverTorn
  BY DEF Inv
<1> QED BY <1>1, SpecInv, PTL

\* The set-aside never replaces a rollback that holds an older copy.
THEOREM RollbackIsKept == Spec => []RollbackNeverOverwritten
<1>1. Inv => RollbackNeverOverwritten
  BY DEF Inv
<1> QED BY <1>1, SpecInv, PTL

\* The file at the target is the one the receipt describes.
THEOREM ReceiptIsTrue == Spec => ReceiptMatchesTarget
<1> DEFINE Receipt == \A p \in Proc : pc[p] # "done" /\ pc'[p] = "done" => dir'.target = copy[p]
<1>1. Inv /\ [Next]_vars => [Receipt]_vars
  <2> SUFFICES ASSUME Inv, Next, NEW p \in Proc, pc[p] # "done", pc'[p] = "done"
               PROVE  dir'.target = copy[p]
    OBVIOUS
  <2>1. pc \in [Proc -> Label]
    BY DEF Inv, TypeOK, Label
  <2>2. ASSUME NEW q \in Proc, DropRollback(q) PROVE q = p
    BY <2>1, <2>2 DEF DropRollback, GoTo
  <2>3. CASE \E q \in Proc : DropRollback(q)
    BY <2>2, <2>3, DropRollbackInv
  <2>4. ASSUME NEW q \in Proc,
               \/ Lock(q) \/ CheckRollback(q) \/ CopySource(q) \/ Verify(q) \/ SyncCopy(q)
               \/ SetAside(q) \/ Install(q) \/ SyncInstall(q) \/ Recover(q) \/ SyncRecovery(q)
               \/ CallRaises(q) \/ Crash(q)
        PROVE  FALSE
    <3>1. CASE Lock(q) \/ CheckRollback(q) \/ CopySource(q) \/ SyncCopy(q) \/ CallRaises(q) \/ Crash(q)
      BY <2>1, <2>4, <3>1 DEF Lock, CheckRollback, CopySource, SyncCopy, CallRaises, Crash, GoTo
    <3>2. CASE Verify(q)
      BY <2>1, <2>4, <3>2 DEF Verify, GoTo
    <3>3. CASE SetAside(q) \/ Install(q) \/ SyncInstall(q) \/ Recover(q) \/ SyncRecovery(q)
      <4>1. \E label \in {"install", "sync_directory", "drop_rollback", "sync_recovery", "failed"} :
              pc' = [pc EXCEPT ![q] = label]
        <5>1. CASE SetAside(q)
          BY <5>1 DEF SetAside, GoTo
        <5>2. CASE Install(q)
          BY <5>2 DEF Install, GoTo
        <5>3. CASE Recover(q)
          BY <5>3 DEF Recover, GoTo
        <5>4. CASE SyncInstall(q) \/ SyncRecovery(q)
          BY <5>4 DEF SyncInstall, SyncRecovery, GoTo
        <5> QED BY <3>3, <5>1, <5>2, <5>3, <5>4
      <4> QED BY <2>1, <4>1
    <3> QED BY <2>4, <3>1, <3>2, <3>3
  <2>5. CASE PowerLoss \/ SourceCommits \/ Exhausted
    BY <2>1, <2>5 DEF PowerLoss, SourceCommits, Exhausted, vars
  <2> QED BY <2>3, <2>4, <2>5 DEF Next, Advance
<1> QED BY <1>1, SpecInv, PTL DEF Spec, ReceiptMatchesTarget
--------------------------------------------------------------------------------
(* The refinement of BackupVault *)

\* Nothing newer than the source is ever found, and nothing newer than the copy
\* that is about to take its place.
NothingNewer ==
  /\ \A d \in onDisk : d.target <= source /\ d.rollback <= source
  /\ \A q \in Proc : pc[q] \in Copied =>
       \A d \in onDisk : d.target <= copy[q] /\ d.rollback <= copy[q]

\* What a step of the holder adds to the directory is no newer than what was there
\* or than its copy.
LEMMA NothingNewerKept ==
  ASSUME Inv, NothingNewer, Next
  PROVE  NothingNewer'
<1>0. /\ pc \in [Proc -> Label] /\ copy \in [Proc -> Content \ {Torn}]
      /\ source \in Nat /\ source >= 1 /\ MaxSource \in Nat \ {0}
  BY SourceAssumption DEF Inv, TypeOK, Label
<1>1. ASSUME NEW p \in Proc, NEW label \in Label, pc' = [pc EXCEPT ![p] = label], UNCHANGED <<source, copy>>,
             label \in Copied => pc[p] \in Copied,
             \A d \in onDisk' : /\ d.target <= source /\ d.rollback <= source
                                /\ label \in Copied => d.target <= copy[p] /\ d.rollback <= copy[p],
             pc[p] \in Locked \/ onDisk' = onDisk
      PROVE  NothingNewer'
  <2>1. \A q \in Proc \ {p} : pc'[q] = pc[q]
    BY <1>0, <1>1
  <2>2. pc'[p] = label
    BY <1>0, <1>1
  <2>3. \A q \in Proc \ {p} : pc[p] \in Locked => pc[q] \notin Copied
    BY DEF Inv, OneHolder, Locked, Copied
  <2>4. ASSUME NEW q \in Proc, pc'[q] \in Copied, NEW d \in onDisk'
        PROVE  d.target <= copy'[q] /\ d.rollback <= copy'[q]
    <3>1. CASE q = p
      BY <1>1, <2>2, <2>4, <3>1
    <3>2. CASE q # p
      BY <1>1, <2>1, <2>3, <2>4, <3>2 DEF NothingNewer
    <3> QED BY <3>1, <3>2
  <2> QED BY <1>1, <2>4 DEF NothingNewer
<1>2. ASSUME NEW p \in Proc, NEW label \in Label, GoTo(p, label), UNCHANGED source, KeepLocals,
             onDisk' \subseteq onDisk, label \in Copied => pc[p] \in Copied,
             pc[p] \in Locked \/ onDisk' = onDisk
      PROVE  NothingNewer'
  <2>1. pc' = [pc EXCEPT ![p] = label] /\ UNCHANGED <<source, copy>>
    BY <1>2 DEF GoTo, KeepLocals
  <2>2. \A d \in onDisk' : /\ d.target <= source /\ d.rollback <= source
                           /\ label \in Copied => d.target <= copy[p] /\ d.rollback <= copy[p]
    BY <1>2 DEF NothingNewer
  <2> QED BY <1>1, <1>2, <2>1, <2>2
<1>3. ASSUME NEW p \in Proc, CopySource(p) PROVE NothingNewer'
  <2>1. /\ pc[p] = "copy" /\ pc' = [pc EXCEPT ![p] = "verify"]
        /\ copy' = [copy EXCEPT ![p] = source] /\ UNCHANGED <<source, onDisk>>
    BY <1>3 DEF CopySource, GoTo, SameDirectory
  <2>2. \A q \in Proc : pc'[q] \in Copied => q = p /\ copy'[q] = source
    BY <1>0, <2>1 DEF Inv, OneHolder, Locked, Copied
  <2> QED BY <2>1, <2>2 DEF NothingNewer
<1>4. ASSUME NEW p \in Proc, SyncCopy(p) PROVE NothingNewer'
  <2>1. pc' = [pc EXCEPT ![p] = "set_aside"] /\ pc[p] = "sync_copy" /\ UNCHANGED <<source, copy, onDisk>>
    BY <1>4 DEF SyncCopy, GoTo, SameDirectory
  <2> QED BY <1>0, <2>1 DEF NothingNewer, Copied
<1>5. ASSUME NEW p \in Proc, SetAside(p) PROVE NothingNewer'
  <2>1. /\ pc[p] = "set_aside" /\ pc' = [pc EXCEPT ![p] = "install"] /\ UNCHANGED <<source, copy>>
        /\ \A d \in onDisk' : d \in onDisk \/ d = [target |-> None, rollback |-> dir.target]
    BY <1>5 DEF SetAside, GoTo, Perform, SameDirectory
  <2>2. dir \in onDisk /\ copy[p] >= 1 /\ copy[p] \in Int
    BY <2>1, Known DEF Inv, CopiesAreSound, Copied
  <2>3. \A d \in onDisk' : /\ d.target <= source /\ d.rollback <= source
                           /\ d.target <= copy[p] /\ d.rollback <= copy[p]
    BY <1>0, <2>1, <2>2 DEF NothingNewer, Copied
  <2> QED BY <1>1, <2>1, <2>3 DEF Label, Locked, Copied
<1>6. ASSUME NEW p \in Proc, Install(p) PROVE NothingNewer'
  <2>1. pc[p] = "install" /\ pc' = [pc EXCEPT ![p] = "sync_directory"] /\ UNCHANGED <<source, copy>>
    BY <1>6 DEF Install, GoTo, KeepLocals
  <2>2. copy[p] <= source /\ copy[p] \in Int /\ synced[p]
    BY <2>1, Known DEF Inv, CopiesAreSound
  <2>3. onDisk' = onDisk \cup {[d EXCEPT !.target = c] : d \in onDisk, c \in {copy[p]}}
    BY <1>6, <2>2 DEF Install
  <2>4. ASSUME NEW d \in onDisk' PROVE /\ d.target <= source /\ d.rollback <= source
                                       /\ d.target <= copy[p] /\ d.rollback <= copy[p]
    <3>1. CASE d \in onDisk
      BY <2>1, <3>1 DEF NothingNewer, Copied
    <3>2. CASE \E e \in onDisk : d = [e EXCEPT !.target = copy[p]]
      <4>1. PICK e \in onDisk : d = [e EXCEPT !.target = copy[p]]
        BY <3>2
      <4>2. d.target = copy[p] /\ d.rollback = e.rollback
        BY <4>1, Known DEF Directory
      <4> QED BY <2>1, <2>2, <4>2 DEF NothingNewer, Copied
    <3> QED BY <2>3, <3>1, <3>2
  <2> QED BY <1>1, <2>1, <2>4 DEF Label, Locked, Copied
<1>7. ASSUME NEW p \in Proc, DropRollback(p) \/ Recover(p) PROVE NothingNewer'
  <2>1. /\ pc[p] \in Locked /\ UNCHANGED <<source, copy>>
        /\ \E label \in {"done", "sync_recovery"} : pc' = [pc EXCEPT ![p] = label]
    BY <1>7 DEF DropRollback, Recover, GoTo, KeepLocals, Locked
  <2>2. \/ onDisk' = onDisk \cup {[d EXCEPT !.rollback = None] : d \in onDisk}
        \/ onDisk' = onDisk \cup {[d EXCEPT !.target = None] : d \in onDisk}
        \/ \A d \in onDisk' : d \in onDisk \/ d = [target |-> dir.rollback, rollback |-> None]
    BY <1>7 DEF DropRollback, Recover, Perform
  <2>3. ASSUME NEW d \in onDisk' PROVE d.target <= source /\ d.rollback <= source
    <3>1. CASE d \in onDisk
      BY <3>1 DEF NothingNewer
    <3>2. CASE \E e \in onDisk : d = [e EXCEPT !.rollback = None] \/ d = [e EXCEPT !.target = None]
      <4>1. PICK e \in onDisk : d = [e EXCEPT !.rollback = None] \/ d = [e EXCEPT !.target = None]
        BY <3>2
      <4>2. d.target \in {None, e.target} /\ d.rollback \in {None, e.rollback}
        BY <4>1, Known DEF Directory
      <4> QED BY <1>0, <4>2 DEF NothingNewer
    <3>3. CASE d = [target |-> dir.rollback, rollback |-> None]
      BY <1>0, <3>3, Known DEF NothingNewer
    <3> QED BY <2>2, <3>1, <3>2, <3>3
  <2> QED BY <1>1, <2>1, <2>3 DEF Label, Locked, Copied, Stopped
<1>8. ASSUME NEW p \in Proc,
             \/ Lock(p) \/ CheckRollback(p) \/ Verify(p) \/ SyncInstall(p) \/ SyncRecovery(p)
             \/ CallRaises(p) \/ Crash(p)
      PROVE  NothingNewer'
  <2>1. dir \in onDisk
    BY Known
  <2>2. CASE Lock(p) \/ CheckRollback(p) \/ Verify(p) \/ CallRaises(p) \/ Crash(p)
    <3>1. /\ UNCHANGED source /\ KeepLocals /\ onDisk' = onDisk
          /\ \E label \in Label : GoTo(p, label) /\ (label \in Copied => pc[p] \in Copied)
      <4>1. CASE Lock(p)
        BY <4>1 DEF Lock, SameDirectory, Label, Locked, Stopped, Copied
      <4>2. CASE CheckRollback(p)
        BY <4>2 DEF CheckRollback, SameDirectory, Label, Locked, Stopped, Copied
      <4>3. CASE Verify(p)
        BY <4>3 DEF Verify, SameDirectory, Label, Locked, Stopped, Copied
      <4>4. CASE CallRaises(p) \/ Crash(p)
        BY <4>4 DEF CallRaises, Crash, SameDirectory, Label, Locked, Stopped, Copied
      <4> QED BY <2>2, <4>1, <4>2, <4>3, <4>4
    <3> QED BY <1>2, <3>1
  <2>3. CASE SyncInstall(p) \/ SyncRecovery(p)
    <3>1. /\ UNCHANGED source /\ KeepLocals /\ onDisk' \subseteq onDisk /\ pc[p] \in Locked
          /\ \E label \in Label : GoTo(p, label) /\ (label \in Copied => pc[p] \in Copied)
      BY <2>1, <2>3 DEF SyncInstall, SyncRecovery, SyncDirectory, Label, Locked, Stopped, Copied
    <3> QED BY <1>2, <3>1
  <2> QED BY <1>8, <2>2, <2>3
<1>9. CASE PowerLoss
  <2>1. UNCHANGED <<source, copy>> /\ onDisk' \subseteq onDisk /\ \A q \in Proc : pc'[q] \notin Copied
    BY <1>0, <1>9 DEF PowerLoss, KeepLocals, Label, Locked, Stopped, Copied
  <2> QED BY <2>1 DEF NothingNewer
<1>10. CASE SourceCommits
  <2>1. source' = source + 1 /\ UNCHANGED <<copy, onDisk, pc>>
    BY <1>10 DEF SourceCommits
  <2>2. \A d \in onDisk : d.target \in Int /\ d.rollback \in Int
    BY SourceAssumption DEF Inv, TypeOK, Directory, Content
  <2> QED BY <1>0, <2>1, <2>2 DEF NothingNewer
<1>11. CASE Exhausted
  BY <1>11 DEF Exhausted, vars, NothingNewer
<1> QED BY <1>3, <1>4, <1>5, <1>6, <1>7, <1>8, <1>9, <1>10, <1>11 DEF Next, Advance

\* The newer of two files is one of them.
LEMMA NewerOf ==
  ASSUME NEW d, d.target \in Int, d.rollback \in Int
  PROVE  /\ Newer(d) \in {d.target, d.rollback}
         /\ Newer(d) >= d.target /\ Newer(d) >= d.rollback
  BY DEF Newer

\* A backup that ends well is a receipt for the newest copy, which is what is
\* found from then on.
LEMMA DropIsReceipt ==
  ASSUME Inv, Inv', NothingNewer, NEW p \in Proc, DropRollback(p)
  PROVE  Vault!Receipt
<1> DEFINE dropped(d) == [d EXCEPT !.rollback = None]
<1>1. /\ pc[p] = "drop_rollback" /\ pc' = [pc EXCEPT ![p] = "done"]
      /\ UNCHANGED <<source, copy>>
      /\ dir' = dropped(dir) /\ onDisk' = onDisk \cup {dropped(d) : d \in onDisk}
  BY DEF DropRollback, Perform, GoTo, KeepLocals
<1>2. pc \in [Proc -> Label]
  BY DEF Inv, TypeOK, Label
<1>3. /\ copy[p] \in 1..source /\ \A q \in Proc : pc[q] = "done" => copy[q] <= copy[p]
  BY <1>1, Known DEF Inv, CopiesAreSound, NewerThanSaved, Copied
<1>4. Receipts' = Receipts \cup {copy[p]}
  BY <1>1, <1>2 DEF Receipts
<1>5. \A d \in onDisk : Newer(d) = copy[p] /\ Newer(dropped(d)) = copy[p]
  <2> SUFFICES ASSUME NEW d \in onDisk PROVE Newer(d) = copy[p] /\ Newer(dropped(d)) = copy[p]
    OBVIOUS
  <2>1. d.target = copy[p] /\ d.rollback <= copy[p] /\ d.rollback \in Int
    BY <1>1, Known DEF Inv, NewCopyIsInstalled, NothingNewer, Copied
  <2>2. dropped(d).target = d.target /\ dropped(d).rollback = 0
    BY Known DEF Directory
  <2> HIDE DEF dropped
  <2> QED BY <1>3, <2>1, <2>2 DEF Newer
<1>6. {Newer(d) : d \in onDisk}' = {copy[p]}
  <2>1. dir \in onDisk
    BY Known
  <2> HIDE DEF dropped
  <2> QED BY <1>1, <1>5, <2>1
<1>7. Vault!Sufficient(copy[p])
  BY <1>3 DEF Vault!Sufficient, Receipts
<1> QED BY <1>1, <1>3, <1>4, <1>6, <1>7 DEF Vault!Receipt

\* Steps that are no receipt keep every receipt covered.
LEMMA OtherIsDisturbance ==
  ASSUME Inv, Inv', NothingNewer', UNCHANGED source, Receipts' = Receipts
  PROVE  Vault!Disturbance
<1>1. {Newer(d) : d \in onDisk}' # {}
  BY DEF Inv, TypeOK
<1>2. ASSUME NEW d \in onDisk' PROVE Newer(d) \in Nat /\ Vault!Sufficient(Newer(d))
  <2>1. /\ d.target \in Content /\ d.rollback \in Content
        /\ d.target # Torn /\ d.rollback # Torn
    BY <1>2 DEF Inv, TypeOK, Directory, NeverTorn
  <2>2. d.target \in Nat /\ d.rollback \in Nat
    BY <2>1, SourceAssumption DEF Content
  <2>3. d.target <= source /\ d.rollback <= source
    BY <1>2 DEF NothingNewer
  <2>4. \A r \in Receipts : r \in Int /\ (d.target >= r \/ d.rollback >= r)
    <3>1. \A r \in Receipts' : \E q \in Proc : pc'[q] = "done" /\ r = copy'[q]
      BY DEF Receipts
    <3>2. \A q \in Proc : copy'[q] \in Int
      BY SourceAssumption DEF Inv, TypeOK, Content
    <3> QED BY <1>2, <3>1, <3>2 DEF Inv, SuccessfulBackupSurvives
  <2>5. Newer(d) \in {d.target, d.rollback} /\ Newer(d) >= d.target /\ Newer(d) >= d.rollback
    BY <2>2, NewerOf
  <2>6. Newer(d) \in Nat /\ Newer(d) <= source
    BY <2>2, <2>3, <2>5
  <2>7. \A r \in Receipts : r <= Newer(d)
    BY <2>2, <2>4, <2>5, <2>6
  <2> QED BY <2>6, <2>7 DEF Vault!Sufficient
<1> QED BY <1>1, <1>2 DEF Vault!Disturbance

\* No step gives or takes a receipt but the one that ends a backup well.
LEMMA ReceiptsStay ==
  ASSUME Inv, Next, \A p \in Proc : ~ DropRollback(p)
  PROVE  Receipts' = Receipts
<1>1. pc \in [Proc -> Label] /\ copy \in [Proc -> Content \ {Torn}]
  BY DEF Inv, TypeOK, Label
<1>2. \A q \in Proc : (pc'[q] = "done" <=> pc[q] = "done") /\ (pc[q] = "done" => copy'[q] = copy[q])
  <2>1. ASSUME NEW p \in Proc, NEW label \in Label \ {"done"}, pc[p] # "done", GoTo(p, label),
               \A q \in Proc \ {p} : copy'[q] = copy[q]
        PROVE  \A q \in Proc : (pc'[q] = "done" <=> pc[q] = "done")
                               /\ (pc[q] = "done" => copy'[q] = copy[q])
    BY <1>1, <2>1 DEF GoTo
  <2>2. ASSUME NEW p \in Proc, Lock(p) \/ Advance(p) \/ CallRaises(p) \/ Crash(p)
        PROVE  /\ pc[p] # "done" /\ \A q \in Proc \ {p} : copy'[q] = copy[q]
               /\ \E label \in Label \ {"done"} : GoTo(p, label)
    <3>1. CASE Lock(p) \/ CheckRollback(p)
      BY <3>1 DEF Lock, CheckRollback, KeepLocals, Label, Locked, Stopped
    <3>2. CASE CopySource(p)
      BY <1>1, <3>2 DEF CopySource, Label, Locked
    <3>3. CASE Verify(p)
      BY <3>3 DEF Verify, KeepLocals, Label, Locked, Stopped
    <3>4. CASE SyncCopy(p) \/ SetAside(p)
      BY <3>4 DEF SyncCopy, SetAside, Label, Locked
    <3>5. CASE Install(p) \/ SyncInstall(p) \/ Recover(p) \/ SyncRecovery(p)
      <4>1. CASE Install(p)
        BY <4>1 DEF Install, KeepLocals, Label, Locked
      <4>2. CASE Recover(p)
        BY <4>2 DEF Recover, KeepLocals, Label, Locked
      <4>3. CASE SyncInstall(p) \/ SyncRecovery(p)
        BY <4>3 DEF SyncInstall, SyncRecovery, KeepLocals, Label, Locked, Stopped
      <4> QED BY <3>5, <4>1, <4>2, <4>3
    <3>6. CASE CallRaises(p) \/ Crash(p)
      BY <3>6 DEF CallRaises, Crash, KeepLocals, Label, Locked, Stopped
    <3> QED BY <2>2, <3>1, <3>2, <3>3, <3>4, <3>5, <3>6 DEF Advance
  <2>3. CASE PowerLoss
    BY <1>1, <2>3 DEF PowerLoss, KeepLocals, Label, Locked, Stopped
  <2>4. CASE SourceCommits \/ Exhausted
    BY <2>4 DEF SourceCommits, Exhausted, vars
  <2> QED BY <2>1, <2>2, <2>3, <2>4 DEF Next
<1> QED BY <1>2 DEF Receipts

\* Every step of the backups is a step of the vault.
LEMMA VaultStep ==
  ASSUME Inv, NothingNewer, [Next]_vars
  PROVE  [Vault!VaultNext]_(Vault!vaultVars)
<1>1. CASE UNCHANGED vars
  BY <1>1 DEF vars, Vault!vaultVars, Receipts
<1>2. CASE Next
  <2>1. Inv' /\ NothingNewer'
    BY <1>2, NextInv, NothingNewerKept
  <2>2. CASE \E p \in Proc : DropRollback(p)
    BY <2>1, <2>2, DropIsReceipt DEF Vault!VaultNext
  <2>3. CASE SourceCommits
    BY <2>3 DEF SourceCommits, Vault!VaultNext, Vault!SourceAdvances, Receipts
  <2>4. CASE ~ SourceCommits /\ \A p \in Proc : ~ DropRollback(p)
    <3>1. source' = source
      <4>1. ASSUME NEW p \in Proc,
                   \/ Lock(p) \/ CheckRollback(p) \/ CopySource(p) \/ Verify(p) \/ SyncCopy(p)
                   \/ SyncInstall(p) \/ SyncRecovery(p) \/ CallRaises(p) \/ Crash(p)
            PROVE  source' = source
        BY <4>1 DEF Lock, CheckRollback, CopySource, Verify, SyncCopy, SyncInstall, SyncRecovery,
           CallRaises, Crash
      <4>2. ASSUME NEW p \in Proc, SetAside(p) \/ Install(p) \/ Recover(p) PROVE source' = source
        <5>1. CASE SetAside(p)
          BY <5>1 DEF SetAside
        <5>2. CASE Install(p)
          BY <5>2 DEF Install
        <5>3. CASE Recover(p)
          BY <5>3 DEF Recover
        <5> QED BY <4>2, <5>1, <5>2, <5>3
      <4>3. CASE PowerLoss \/ Exhausted
        BY <4>3 DEF PowerLoss, Exhausted, vars
      <4> QED BY <1>2, <2>4, <4>1, <4>2, <4>3 DEF Next, Advance
    <3>2. Receipts' = Receipts
      BY <1>2, <2>4, ReceiptsStay
    <3> QED BY <2>1, <3>1, <3>2, OtherIsDisturbance DEF Vault!VaultNext
  <2> QED BY <2>2, <2>3, <2>4
<1> QED BY <1>1, <1>2

\* Backup implements BackupVault: whatever overlaps, fails, dies or loses power, a
\* receipt is for the newest copy and nothing older ever takes its place.
THEOREM VaultIsImplemented == Spec => ImplementsVault
<1>1. Init => NothingNewer
  BY DEF Init, NothingNewer, Copied
<1>2. Init => Vault!VaultInit
  BY DEF Init, Vault!VaultInit, Vault!Nothing, Receipts, Newer
<1>3. Inv /\ NothingNewer /\ [Next]_vars => (Inv /\ NothingNewer)'
  <2>1. ASSUME NothingNewer, UNCHANGED vars PROVE NothingNewer'
    BY <2>1 DEF vars, NothingNewer
  <2> QED BY <2>1, NextInv, NothingNewerKept
<1>4. Spec => [](Inv /\ NothingNewer)
  BY InitInv, <1>1, <1>3, PTL DEF Spec
<1>5. Inv /\ NothingNewer /\ [Next]_vars => [Vault!VaultNext]_(Vault!vaultVars)
  BY VaultStep
<1> QED BY <1>2, <1>4, <1>5, PTL DEF Spec, ImplementsVault, Vault!VaultSpec
================================================================================
