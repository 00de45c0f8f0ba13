------------------------ MODULE AnalysisPublicationProofs ------------------------
(* Theorems about AnalysisPublication, for any number of invocations, casebook *)
(* builds, datasets and hours.                                                 *)
EXTENDS AnalysisPublication, TLAPS

\* The invocation has pinned a dataset that has a boundary.
Valid(r) == pinned[r] \in Cutoff /\ BoundaryOfRun(r) \in Boundary

\* The claim of the run's boundary is the run's own, and is never another's again.
Owns(r) ==
  /\ Valid(r)
  /\ claims[BoundaryOfRun(r)].run = r
  /\ claims[BoundaryOfRun(r)].dataset = pinned[r]

Complete(r) ==
  /\ files[r] = AllFiles
  /\ manifest[r] = [boundary |-> BoundaryOfRun(r), dataset |-> pinned[r]]

Skipping == {"list", "verify", "skipped"}
Untouched == {"idle", "claim", "refused", "analyze", "mkdir"} \cup Skipping
AfterRename == {"sync_tmp", "sync_day", "reread", "sync_runs", "publish_claim"}
AfterSync == {"rename"} \cup AfterRename
AfterFiles == {"sync_run"} \cup AfterSync

\* An invocation, its directory and the claim it works for.
RunInv(r) ==
  /\ pc[r] \in {"claim"} \cup Skipping => Valid(r)
  /\ pc[r] \in Skipping => claims[BoundaryOfRun(r)].status = "PUBLISHED"
  /\ pc[r] \in Publishing => Owns(r) /\ claims[BoundaryOfRun(r)].status = "CLAIMED"
  /\ pc[r] \in Untouched => onDisk[r] = {"none"} /\ files[r] = 0
  /\ pc[r] = "write" => "public" \notin onDisk[r] /\ files[r] < AllFiles
  /\ pc[r] \in AfterFiles => Complete(r)
  /\ pc[r] \in AfterSync => synced[r]
  /\ pc[r] \in AfterRename => place[r] = "public"
  /\ pc[r] = "publish_claim" => onDisk[r] = {"public"}
  /\ "public" \in onDisk[r] => Complete(r) /\ synced[r] /\ Owns(r)
  /\ place[r] \in onDisk[r]
  /\ pc[r] = "skipped" => claims[BoundaryOfRun(r)].run \in rows[r]

\* A claim, the run that took it and, once published, that run's directory.
ClaimInv(b) ==
  /\ claims[b].status = "NONE" <=> claims[b].run = NoRun
  /\ claims[b].status # "NONE" =>
       /\ claims[b].run \in Run
       /\ BoundaryOfRun(claims[b].run) = b
       /\ pc[claims[b].run] \notin {"idle", "claim"}
  /\ claims[b].status = "PUBLISHED" =>
       /\ pc[claims[b].run] = "published"
       /\ onDisk[claims[b].run] = {"public"}

\* A build lists only runs whose claim is published.
RowInv(p) == \A r \in rows[p] : HasPublishedClaim(r)

Inv ==
  /\ TypeOK
  /\ \A r \in Run : RunInv(r)
  /\ \A b \in Boundary : ClaimInv(b)
  /\ \A p \in Process : RowInv(p)

--------------------------------------------------------------------------------
(* Labels and boundaries *)

\* The labels an invocation can be moved to.
LEMMA LabelsAre ==
  /\ Publishing \subseteq Running /\ Building \subseteq Running
  /\ "none" \in {"none", "tmp", "public"}
  /\ \A l \in {"idle", "claim", "list", "verify", "skipped", "built", "refused", "failed",
               "crashed", "published"} \cup Publishing : l \in {"idle"} \cup Running \cup Stopped
  BY DEF Running, Stopped, Publishing, Building

\* The boundary of a cutoff is an integer, and a Boundary once an hour is complete.
LEMMA BoundaryType ==
  /\ \A c \in Cutoff : BoundaryOf(c) \in Int
  /\ \A c \in Cutoff : BoundaryOf(c) >= 0 => BoundaryOf(c) \in Boundary
  /\ NoCutoff \notin Boundary /\ NoCutoff \notin Cutoff
<1>1. \A c \in Cutoff : c \in Nat
  BY CutoffAssumption
<1>2. \A c \in Nat : (c + 1) \div Hour \in Int
  BY HourAssumption
<1>3. \A c \in Cutoff : BoundaryOf(c) \in Int
  BY <1>1, <1>2, HourAssumption DEF BoundaryOf
<1>4. QED
  BY <1>1, <1>3 DEF Boundary, NoCutoff

\* The first of the three facts about the invariant.
LEMMA InitInv == Init => Inv
<1> SUFFICES ASSUME Init PROVE Inv
  OBVIOUS
<1>1. TypeOK
  BY DEF Init, TypeOK, Unclaimed, NoManifest, NoRun, AllFiles
<1>2. ASSUME NEW r \in Run
      PROVE  RunInv(r)
  BY DEF Init, RunInv, Process, Skipping, Untouched, Publishing, AfterFiles, AfterSync, AfterRename
<1>3. ASSUME NEW b \in Boundary
      PROVE  ClaimInv(b)
  BY DEF Init, ClaimInv, Unclaimed, NoRun
<1>4. ASSUME NEW p \in Process
      PROVE  RowInv(p)
  BY DEF Init, RowInv
<1>5. QED
  BY <1>1, <1>2, <1>3, <1>4 DEF Inv

--------------------------------------------------------------------------------
(* Frames *)

SameDirectory(q) ==
  /\ place'[q] = place[q] /\ onDisk'[q] = onDisk[q] /\ files'[q] = files[q]
  /\ synced'[q] = synced[q] /\ manifest'[q] = manifest[q]

\* A run whose row, label, directory and claim stay keeps its invariant.
LEMMA RunKept ==
  ASSUME NEW q \in Run, RunInv(q), pc'[q] = pc[q], SameDirectory(q),
         UNCHANGED claims, pinned'[q] = pinned[q], rows[q] \subseteq rows'[q]
  PROVE  RunInv(q)'
  BY DEF RunInv, SameDirectory, Valid, Owns, Complete, BoundaryOfRun

\* A claim that is not written keeps its invariant while its run stays ended.
LEMMA ClaimKept ==
  ASSUME NEW b \in Boundary, ClaimInv(b), claims'[b] = claims[b],
         claims[b].status # "NONE" => /\ pc'[claims[b].run] \notin {"idle", "claim"}
                                      /\ pinned'[claims[b].run] = pinned[claims[b].run],
         claims[b].status = "PUBLISHED" =>
           /\ pc'[claims[b].run] = "published"
           /\ onDisk'[claims[b].run] = onDisk[claims[b].run]
  PROVE  ClaimInv(b)'
  BY DEF ClaimInv, BoundaryOfRun

\* Whoever holds a published claim has ended and keeps its directory.
LEMMA PublishedHolder ==
  ASSUME Inv, NEW b \in Boundary, claims[b].status = "PUBLISHED"
  PROVE  LET r == claims[b].run
         IN /\ r \in Run /\ BoundaryOfRun(r) = b
            /\ pc[r] = "published" /\ onDisk[r] = {"public"} /\ place[r] = "public"
            /\ synced[r] /\ Complete(r) /\ Whole(r)
  BY DEF Inv, ClaimInv, RunInv, Whole, Complete

\* What a build has listed stays listed: published claims are never rewritten.
LEMMA RowKept ==
  ASSUME Inv, NEW r \in Run, HasPublishedClaim(r), manifest'[r] = manifest[r],
         \A b \in Boundary : claims[b].status = "PUBLISHED" => claims'[b] = claims[b]
  PROVE  HasPublishedClaim(r)'
  BY DEF HasPublishedClaim

\* A listed run has ended: no step of a running invocation touches it.
LEMMA ListedHasEnded ==
  ASSUME Inv, NEW r \in Run, HasPublishedClaim(r)
  PROVE  pc[r] = "published"
  BY PublishedHolder DEF HasPublishedClaim

\* A step of one invocation that has not ended, on its own directory and builds.
LEMMA StepOfRun ==
  ASSUME Inv, NEW r \in Run, NEW label, pc[r] \notin {"idle", "published"},
         label \notin {"idle", "claim"}, pc' = [pc EXCEPT ![r] = label],
         UNCHANGED <<claims, pinned>>,
         \A q \in Run : q # r => SameDirectory(q),
         \A p \in Process : /\ rows[p] \subseteq rows'[p]
                            /\ \A s \in rows'[p] : s \in rows[p] \/ HasPublishedClaim(s),
         TypeOK', RunInv(r)'
  PROVE  Inv'
<1>1. pc \in [Process -> {"idle"} \cup Running \cup Stopped] /\ Run \subseteq Process
  BY DEF Inv, TypeOK, Process
<1>2. /\ pc'[r] = label
      /\ \A q \in Run : q # r => pc'[q] = pc[q]
  BY <1>1
<1>3. ASSUME NEW q \in Run
      PROVE  RunInv(q)'
  BY <1>1, <1>2, RunKept DEF Inv
<1>4. ASSUME NEW b \in Boundary
      PROVE  ClaimInv(b)'
  <2>1. ClaimInv(b)
    BY DEF Inv
  <2>2. claims[b].status # "NONE" => /\ claims[b].run \in Run
                                     /\ pc'[claims[b].run] \notin {"idle", "claim"}
    BY <1>2, <2>1 DEF ClaimInv
  <2>3. claims[b].status = "PUBLISHED" => /\ claims[b].run # r
                                          /\ pc'[claims[b].run] = "published"
                                          /\ onDisk'[claims[b].run] = onDisk[claims[b].run]
    BY <1>2, PublishedHolder DEF SameDirectory
  <2>4. QED
    BY <2>1, <2>2, <2>3, ClaimKept
<1>5. ASSUME NEW p \in Process
      PROVE  RowInv(p)'
  <2>1. SUFFICES ASSUME NEW s \in rows'[p]
                 PROVE  HasPublishedClaim(s)'
    BY DEF RowInv
  <2>2. s \in Run
    BY DEF TypeOK
  <2>3. HasPublishedClaim(s)
    BY DEF Inv, RowInv
  <2>4. s # r
    BY <2>2, <2>3, ListedHasEnded
  <2>5. QED
    BY <2>2, <2>3, <2>4, RowKept DEF SameDirectory
<1>6. QED
  BY <1>3, <1>4, <1>5 DEF Inv

\* A step of a build by another command touches no invocation.
LEMMA StepOfReader ==
  ASSUME Inv, NEW c \in Reader, NEW label, pc' = [pc EXCEPT ![c] = label],
         UNCHANGED <<claims, pinned, dirVars>>,
         \A p \in Process : /\ rows[p] \subseteq rows'[p]
                            /\ \A s \in rows'[p] : s \in rows[p] \/ HasPublishedClaim(s),
         TypeOK'
  PROVE  Inv'
<1>1. pc \in [Process -> {"idle"} \cup Running \cup Stopped] /\ Run \subseteq Process
  BY DEF Inv, TypeOK, Process
<1>2. \A q \in Run : pc'[q] = pc[q] /\ SameDirectory(q)
  BY <1>1, ProcessAssumption DEF SameDirectory, dirVars
<1>3. ASSUME NEW q \in Run
      PROVE  RunInv(q)'
  BY <1>1, <1>2, RunKept DEF Inv
<1>4. ASSUME NEW b \in Boundary
      PROVE  ClaimInv(b)'
  <2>1. ClaimInv(b)
    BY DEF Inv
  <2>2. claims[b].status # "NONE" => /\ pc'[claims[b].run] = pc[claims[b].run]
                                     /\ onDisk'[claims[b].run] = onDisk[claims[b].run]
    BY <1>2, <2>1 DEF ClaimInv, SameDirectory
  <2>3. QED
    BY <2>1, <2>2, ClaimKept DEF ClaimInv
<1>5. ASSUME NEW p \in Process
      PROVE  RowInv(p)'
  <2>1. SUFFICES ASSUME NEW s \in rows'[p]
                 PROVE  HasPublishedClaim(s)'
    BY DEF RowInv
  <2>2. s \in Run
    BY DEF TypeOK
  <2>3. HasPublishedClaim(s)
    BY DEF Inv, RowInv
  <2>4. QED
    BY <1>2, <2>2, <2>3, RowKept DEF SameDirectory
<1>6. QED
  BY <1>3, <1>4, <1>5 DEF Inv

--------------------------------------------------------------------------------
(* The steps of an invocation *)

\* A step that changes labels only.
LEMMA GoToTyped ==
  ASSUME TypeOK, NEW p \in Process, NEW label \in {"idle"} \cup Running \cup Stopped,
         GoTo(p, label), UNCHANGED <<latest, claims, pinned, dirVars, buildVars>>
  PROVE  TypeOK'
<1>1. pc' \in [Process -> {"idle"} \cup Running \cup Stopped]
  BY DEF TypeOK, GoTo
<1>2. QED
  BY <1>1 DEF TypeOK, dirVars, buildVars

\* What an invocation's directory and label can be.
LEMMA RunTypes ==
  ASSUME TypeOK, NEW r \in Run
  PROVE  /\ r \in Process
         /\ pc \in [Process -> {"idle"} \cup Running \cup Stopped]
         /\ pinned[r] \in Cutoff \cup {NoCutoff}
         /\ place \in [Run -> {"none", "tmp", "public"}]
         /\ onDisk \in [Run -> SUBSET {"none", "tmp", "public"}]
         /\ files \in [Run -> 0..AllFiles] /\ files[r] \in Int
         /\ synced \in [Run -> BOOLEAN]
         /\ manifest \in [Run -> [boundary : Boundary \cup {NoCutoff},
                                  dataset : Cutoff \cup {NoCutoff}]]
  BY DEF TypeOK, Process, AllFiles

\* From mkdir to the last sync, except the writing of the files.
LEMMA PublishingSteps ==
  ASSUME Inv, NEW r \in Run,
         \/ Analyze(r) \/ MakeDirectory(r) \/ SyncRunDirectory(r) \/ Rename(r)
         \/ SyncTmp(r) \/ SyncDay(r) \/ SyncRuns(r)
  PROVE  Inv'
<1> USE RunTypes DEF Inv
<1>t. TypeOK /\ RunInv(r)
  OBVIOUS
<1>1. CASE Analyze(r)
  <2>1. TypeOK'
    BY <1>1 DEF Analyze, TypeOK, GoTo, Running, Publishing, buildVars, dirVars
  <2>2. RunInv(r)'
    BY <1>1, <1>t DEF Analyze, RunInv, GoTo, Skipping, Untouched, Publishing, AfterFiles, AfterSync,
       AfterRename, Complete, Owns, Valid, BoundaryOfRun, dirVars, buildVars
  <2>3. QED
    BY <1>1, <2>1, <2>2, StepOfRun DEF Analyze, GoTo, SameDirectory, dirVars, buildVars
<1>2. CASE MakeDirectory(r)
  <2>1. TypeOK'
    BY <1>2 DEF MakeDirectory, TypeOK, GoTo, Running, Publishing, buildVars, dirVars
  <2>2. RunInv(r)'
    BY <1>2, <1>t DEF MakeDirectory, AllFiles, RunInv, GoTo, Skipping, Untouched, Publishing, AfterFiles, AfterSync,
       AfterRename, Complete, Owns, Valid, BoundaryOfRun, dirVars, buildVars
  <2>3. QED
    BY <1>2, <2>1, <2>2, StepOfRun DEF MakeDirectory, GoTo, SameDirectory, dirVars, buildVars
<1>3. CASE SyncRunDirectory(r)
  <2>1. TypeOK'
    BY <1>3 DEF SyncRunDirectory, TypeOK, GoTo, Running, Publishing, buildVars, dirVars
  <2>2. RunInv(r)'
    BY <1>3, <1>t DEF SyncRunDirectory, RunInv, GoTo, Skipping, Untouched, Publishing, AfterFiles, AfterSync,
       AfterRename, Complete, Owns, Valid, BoundaryOfRun, dirVars, buildVars
  <2>3. QED
    BY <1>3, <2>1, <2>2, StepOfRun DEF SyncRunDirectory, GoTo, SameDirectory, dirVars, buildVars
<1>4. CASE Rename(r)
  <2>1. TypeOK'
    BY <1>4 DEF Rename, TypeOK, GoTo, Running, Publishing, buildVars, dirVars
  <2>2. RunInv(r)'
    BY <1>4, <1>t DEF Rename, RunInv, GoTo, Skipping, Untouched, Publishing, AfterFiles, AfterSync,
       AfterRename, Complete, Owns, Valid, BoundaryOfRun, dirVars, buildVars
  <2>3. QED
    BY <1>4, <2>1, <2>2, StepOfRun DEF Rename, GoTo, SameDirectory, dirVars, buildVars
<1>5. CASE SyncTmp(r)
  <2>1. TypeOK'
    BY <1>5 DEF SyncTmp, TypeOK, GoTo, Running, Publishing, buildVars, dirVars
  <2>2. RunInv(r)'
    BY <1>5, <1>t DEF SyncTmp, RunInv, GoTo, Skipping, Untouched, Publishing, AfterFiles, AfterSync,
       AfterRename, Complete, Owns, Valid, BoundaryOfRun, dirVars, buildVars
  <2>3. QED
    BY <1>5, <2>1, <2>2, StepOfRun DEF SyncTmp, GoTo, SameDirectory, dirVars, buildVars
<1>6. CASE SyncDay(r)
  <2>1. TypeOK'
    BY <1>6 DEF SyncDay, TypeOK, GoTo, Running, Publishing, buildVars, dirVars
  <2>2. RunInv(r)'
    BY <1>6, <1>t DEF SyncDay, RunInv, GoTo, Skipping, Untouched, Publishing, AfterFiles, AfterSync,
       AfterRename, Complete, Owns, Valid, BoundaryOfRun, dirVars, buildVars
  <2>3. QED
    BY <1>6, <2>1, <2>2, StepOfRun DEF SyncDay, GoTo, SameDirectory, dirVars, buildVars
<1>7. CASE SyncRuns(r)
  <2>1. TypeOK'
    BY <1>7 DEF SyncRuns, TypeOK, GoTo, Running, Publishing, buildVars, dirVars
  <2>2. RunInv(r)'
    BY <1>7, <1>t DEF SyncRuns, RunInv, GoTo, Skipping, Untouched, Publishing, AfterFiles, AfterSync,
       AfterRename, Complete, Owns, Valid, BoundaryOfRun, dirVars, buildVars
  <2>3. QED
    BY <1>7, <2>1, <2>2, StepOfRun DEF SyncRuns, GoTo, SameDirectory, dirVars, buildVars
<1>8. QED
  BY <1>1, <1>2, <1>3, <1>4, <1>5, <1>6, <1>7

\* The manifest names the dataset pinned at the start, not the latest one.
LEMMA WriteStep ==
  ASSUME Inv, NEW r \in Run, WriteFile(r)
  PROVE  Inv'
<1> USE RunTypes DEF Inv
<1> DEFINE identity == [boundary |-> BoundaryOfRun(r), dataset |-> pinned[r]]
           label == IF files[r] + 1 = AllFiles THEN "sync_run" ELSE "write"
<1>1. /\ TypeOK /\ RunInv(r) /\ pc[r] = "write" /\ files[r] < AllFiles /\ files[r] \in 0..AllFiles
      /\ Owns(r) /\ claims[BoundaryOfRun(r)].status = "CLAIMED" /\ "public" \notin onDisk[r]
  BY DEF WriteFile, RunInv, Publishing
<1>2. identity \in [boundary : Boundary \cup {NoCutoff}, dataset : Cutoff \cup {NoCutoff}]
  BY <1>1 DEF Owns, Valid
<1>3. /\ pc' = [pc EXCEPT ![r] = label] /\ files' = [files EXCEPT ![r] = files[r] + 1]
      /\ manifest' = [manifest EXCEPT ![r] = IF files[r] + 1 = AllFiles THEN identity
                                                                       ELSE manifest[r]]
      /\ UNCHANGED <<latest, claims, pinned, place, onDisk, synced, buildVars>>
  BY <1>1 DEF WriteFile, GoTo
<1>4. files[r] + 1 \in 0..AllFiles /\ AllFiles \in Nat
  BY <1>1 DEF AllFiles
<1>5. /\ files'[r] = files[r] + 1 /\ place'[r] = place[r] /\ onDisk'[r] = onDisk[r]
      /\ pc'[r] = label /\ (label = "sync_run" => manifest'[r] = identity)
  BY <1>3
<1>6. TypeOK'
  <2> HIDE DEF identity
  <2>1. files' \in [Run -> 0..AllFiles]
    BY <1>3, <1>4
  <2>2. manifest' \in [Run -> [boundary : Boundary \cup {NoCutoff},
                               dataset : Cutoff \cup {NoCutoff}]]
    BY <1>2, <1>3
  <2>3. pc' \in [Process -> {"idle"} \cup Running \cup Stopped]
    BY <1>3, LabelsAre DEF Publishing
  <2>4. QED
    BY <1>1, <1>3, <2>1, <2>2, <2>3 DEF TypeOK, buildVars
<1>7. RunInv(r)'
  <2>1. /\ label = "sync_run" => files'[r] = AllFiles /\ manifest'[r] = identity
        /\ label = "write" => files'[r] < AllFiles
        /\ label \in {"sync_run", "write"}
    <3> HIDE DEF identity
    <3>1. label = "sync_run" => files[r] + 1 = AllFiles
      OBVIOUS
    <3>2. label = "write" => files[r] + 1 # AllFiles
      OBVIOUS
    <3>3. label \in {"sync_run", "write"}
      OBVIOUS
    <3> HIDE DEF label
    <3>4. files[r] + 1 # AllFiles => files[r] + 1 < AllFiles
      BY <1>1, <1>4
    <3>5. QED
      BY <1>5, <3>1, <3>2, <3>3, <3>4
  <2>2. Owns(r)' /\ claims'[BoundaryOfRun(r)'].status = "CLAIMED"
    BY <1>1, <1>3 DEF Owns, Valid, BoundaryOfRun
  <2>3. place'[r] \in onDisk'[r] /\ "public" \notin onDisk'[r]
    BY <1>1, <1>5 DEF RunInv
  <2>4. identity = [boundary |-> BoundaryOfRun(r)', dataset |-> pinned'[r]]
    BY <1>3 DEF BoundaryOfRun
  <2> HIDE DEF identity, label
  <2>5. QED
    BY <1>5, <2>1, <2>2, <2>3, <2>4 DEF RunInv, Skipping, Untouched, Publishing, AfterFiles,
       AfterSync, AfterRename, Complete
<1>8. QED
  BY <1>1, <1>3, <1>6, <1>7, StepOfRun DEF SameDirectory, buildVars

\* A step that only moves an invocation's label, to a label that asks nothing new.
LEMMA LabelStep ==
  ASSUME Inv, NEW r \in Run, NEW label, GoTo(r, label),
         UNCHANGED <<latest, claims, pinned, dirVars, buildVars>>,
         pc[r] \notin {"idle", "published"},
         \/ label \in {"failed", "crashed"}
         \/ label = "sync_runs" /\ pc[r] = "reread"
         \/ label = "refused" /\ pc[r] = "claim"
         \/ /\ label = "list" /\ pc[r] = "claim"
            /\ claims[BoundaryOfRun(r)].status = "PUBLISHED"
         \/ /\ label = "skipped" /\ pc[r] = "verify"
            /\ claims[BoundaryOfRun(r)].run \in rows[r]
  PROVE  Inv'
<1> USE RunTypes DEF Inv
<1>1. TypeOK /\ RunInv(r) /\ pc'[r] = label
  BY DEF GoTo
<1>2. label \in {"idle"} \cup Running \cup Stopped
  BY LabelsAre DEF Publishing
<1>3. TypeOK'
  BY <1>1, <1>2, GoToTyped
<1>4. RunInv(r)'
  BY <1>1 DEF RunInv, GoTo, Skipping, Untouched, Publishing, AfterFiles, AfterSync,
     AfterRename, Complete, Owns, Valid, BoundaryOfRun, dirVars, buildVars
<1>5. QED
  BY <1>3, <1>4, StepOfRun DEF GoTo, SameDirectory, dirVars, buildVars

\* Opening and verifying runs: only published ones become rows.
LEMMA BuildStep ==
  ASSUME Inv, NEW p \in Process, AdvanceBuild(p)
  PROVE  Inv'
<1> USE DEF Inv
<1>1. CASE ListRuns(p)
  <2>1. /\ pc[p] = "list" /\ pc' = [pc EXCEPT ![p] = "verify"]
        /\ UNCHANGED <<latest, claims, pinned, dirVars, rows>>
        /\ toVerify' = [toVerify EXCEPT ![p] = {r \in Run : place[r] = "public"}]
    BY <1>1 DEF ListRuns, GoTo
  <2>2. TypeOK'
    BY <2>1, LabelsAre DEF TypeOK, dirVars
  <2>3. CASE p \in Run
    <3>1. RunInv(p)'
      BY <2>1, <2>3, RunTypes DEF RunInv, GoTo, Skipping, Untouched, Publishing, AfterFiles, AfterSync,
     AfterRename, Complete, Owns, Valid, BoundaryOfRun, dirVars, buildVars
    <3>2. QED
      BY <2>1, <2>2, <2>3, <3>1, StepOfRun DEF SameDirectory, dirVars
  <2>4. CASE p \in Reader
    BY <2>1, <2>2, <2>4, StepOfReader
  <2>5. QED
    BY <2>3, <2>4 DEF Process
<1>2. CASE VerifyRun(p)
  <2>1. PICK r \in toVerify[p] :
          IF files[r] = AllFiles /\ HasPublishedClaim(r)
          THEN /\ rows' = [rows EXCEPT ![p] = rows[p] \cup {r}]
               /\ toVerify' = [toVerify EXCEPT ![p] = toVerify[p] \ {r}]
               /\ UNCHANGED pc
          ELSE GoTo(p, "failed") /\ UNCHANGED buildVars
    BY <1>2 DEF VerifyRun
  <2>2. r \in Run /\ TypeOK /\ pc[p] = "verify" /\ UNCHANGED <<latest, claims, pinned, dirVars>>
    BY <1>2 DEF VerifyRun, TypeOK
  <2>3. CASE ~ (files[r] = AllFiles /\ HasPublishedClaim(r))
    <3>1. GoTo(p, "failed") /\ UNCHANGED <<latest, claims, pinned, dirVars, buildVars>>
      BY <2>1, <2>2, <2>3
    <3>2. CASE p \in Run
      BY <2>2, <3>1, <3>2, LabelStep
    <3>3. CASE p \in Reader
      BY <2>2, <3>1, <3>3, StepOfReader, GoToTyped, LabelsAre DEF GoTo, buildVars
    <3>4. QED
      BY <3>2, <3>3 DEF Process
  <2>4. CASE files[r] = AllFiles /\ HasPublishedClaim(r)
    <3>1. /\ rows' = [rows EXCEPT ![p] = rows[p] \cup {r}]
          /\ toVerify' = [toVerify EXCEPT ![p] = toVerify[p] \ {r}]
          /\ pc' = pc /\ pc' = [pc EXCEPT ![p] = "verify"]
      BY <2>1, <2>2, <2>4 DEF TypeOK
    <3>2. TypeOK'
      BY <2>2, <3>1 DEF TypeOK, dirVars
    <3>3. \A q \in Process : /\ rows[q] \subseteq rows'[q]
                             /\ \A s \in rows'[q] : s \in rows[q] \/ HasPublishedClaim(s)
      BY <2>2, <2>4, <3>1 DEF TypeOK
    <3>4. CASE p \in Run
      <4>1. RunInv(p)'
        BY <2>2, <3>1, <3>4, RunTypes DEF RunInv, GoTo, Skipping, Untouched, Publishing, AfterFiles, AfterSync,
     AfterRename, Complete, Owns, Valid, BoundaryOfRun, dirVars, buildVars
      <4>2. QED
        BY <2>2, <3>1, <3>2, <3>3, <3>4, <4>1, StepOfRun DEF SameDirectory, dirVars
    <3>5. CASE p \in Reader
      BY <2>2, <3>1, <3>2, <3>3, <3>5, StepOfReader
    <3>6. QED
      BY <3>4, <3>5 DEF Process
  <2>5. QED
    BY <2>3, <2>4
<1>3. QED
  BY <1>1, <1>2 DEF AdvanceBuild

--------------------------------------------------------------------------------
(* The steps that write claims, and those of the surroundings *)

\* As RunKept, for a step that writes a claim the run neither owns nor relies on.
LEMMA RunKeptByClaim ==
  ASSUME NEW q \in Run, RunInv(q), pc'[q] = pc[q],
         UNCHANGED <<pinned, dirVars, rows>>,
         Owns(q) \/ claims[BoundaryOfRun(q)].status = "PUBLISHED"
           => claims'[BoundaryOfRun(q)] = claims[BoundaryOfRun(q)]
  PROVE  RunInv(q)'
<1>1. BoundaryOfRun(q)' = BoundaryOfRun(q) /\ Valid(q)' = Valid(q)
  BY DEF BoundaryOfRun, Valid
<1>2. Owns(q) => Owns(q)' /\ claims'[BoundaryOfRun(q)] = claims[BoundaryOfRun(q)]
  BY <1>1 DEF Owns
<1>3. Complete(q) => Complete(q)'
  BY <1>1 DEF Complete, dirVars
<1>4. /\ pc'[q] \in {"claim"} \cup Skipping => Valid(q)'
      /\ pc'[q] \in Publishing => Owns(q)' /\ claims'[BoundaryOfRun(q)'].status = "CLAIMED"
  BY <1>1, <1>2 DEF RunInv, Valid, dirVars
<1>5. /\ pc'[q] \in Skipping => claims'[BoundaryOfRun(q)'].status = "PUBLISHED"
      /\ pc'[q] = "skipped" => claims'[BoundaryOfRun(q)'].run \in rows'[q]
  BY <1>1 DEF RunInv, Skipping
<1>6. /\ pc'[q] \in Untouched => onDisk'[q] = {"none"} /\ files'[q] = 0
      /\ pc'[q] = "write" => "public" \notin onDisk'[q] /\ files'[q] < AllFiles
      /\ pc'[q] \in AfterFiles => Complete(q)'
      /\ pc'[q] \in AfterSync => synced'[q]
      /\ pc'[q] \in AfterRename => place'[q] = "public"
      /\ pc'[q] = "publish_claim" => onDisk'[q] = {"public"}
      /\ "public" \in onDisk'[q] => Complete(q)' /\ synced'[q] /\ Owns(q)'
      /\ place'[q] \in onDisk'[q]
  BY <1>2, <1>3 DEF RunInv, dirVars
<1>7. QED
  BY <1>4, <1>5, <1>6 DEF RunInv

\* The INSERT of a claim, or the answer that there is one.
LEMMA ClaimStep ==
  ASSUME Inv, NEW r \in Run, ClaimBoundary(r)
  PROVE  Inv'
<1> USE DEF Inv
<1>1. /\ pc[r] = "claim" /\ UNCHANGED <<latest, pinned, dirVars, buildVars>>
      /\ Valid(r) /\ onDisk[r] = {"none"} /\ files[r] = 0 /\ place[r] = "none"
      /\ pc \in [Process -> {"idle"} \cup Running \cup Stopped] /\ r \in Process
  BY RunTypes DEF ClaimBoundary, RunInv, Untouched
<1>2. CASE claims[BoundaryOfRun(r)].status # "NONE"
  BY <1>1, <1>2, LabelStep DEF ClaimBoundary
<1>3. CASE claims[BoundaryOfRun(r)].status = "NONE"
  <2> DEFINE row == [status |-> "CLAIMED", run |-> r, dataset |-> pinned[r]]
             b == BoundaryOfRun(r)
  <2>1. /\ pc' = [pc EXCEPT ![r] = "analyze"] /\ claims' = [claims EXCEPT ![b] = row]
        /\ b \in Boundary /\ claims[b].run = NoRun
    BY <1>1, <1>3 DEF ClaimBoundary, GoTo, ClaimInv, Valid
  <2>2. /\ claims'[b] = row /\ \A c \in Boundary : c # b => claims'[c] = claims[c]
        /\ claims' \in [Boundary -> [status : {"NONE", "CLAIMED", "PUBLISHED"},
                                     run : Run \cup {NoRun}, dataset : Cutoff \cup {NoCutoff}]]
    BY <1>1, <2>1 DEF TypeOK, Valid
  <2>3. pc'[r] = "analyze" /\ \A q \in Run : q # r => pc'[q] = pc[q]
    BY <1>1, <2>1
  <2>4. TypeOK'
    BY <1>1, <2>1, <2>2, LabelsAre DEF TypeOK, Publishing, dirVars, buildVars
  <2>5. RunInv(r)'
    <3>1. BoundaryOfRun(r)' = b /\ pinned'[r] = pinned[r]
      BY <1>1 DEF BoundaryOfRun
    <3>2. Owns(r)' /\ claims'[BoundaryOfRun(r)'].status = "CLAIMED"
      BY <1>1, <2>2, <3>1 DEF Owns, Valid
    <3>3. onDisk'[r] = {"none"} /\ files'[r] = 0 /\ place'[r] = "none"
      BY <1>1 DEF dirVars
    <3>4. QED
      BY <2>3, <3>2, <3>3 DEF RunInv, Skipping, Untouched, Publishing, AfterFiles, AfterSync,
         AfterRename
  <2>6. ASSUME NEW q \in Run, q # r
        PROVE  RunInv(q)'
    <3>1. Owns(q) => BoundaryOfRun(q) \in Boundary /\ BoundaryOfRun(q) # b
      BY <2>1, ProcessAssumption DEF Owns, Valid, NoRun
    <3>2. claims[BoundaryOfRun(q)].status = "PUBLISHED" => BoundaryOfRun(q) # b
      BY <1>3
    <3>3. BoundaryOfRun(q) # b => claims'[BoundaryOfRun(q)] = claims[BoundaryOfRun(q)]
      BY <2>1 DEF TypeOK
    <3>4. QED
      BY <1>1, <2>3, <2>6, <3>1, <3>2, <3>3, RunKeptByClaim DEF buildVars
  <2>7. ASSUME NEW c \in Boundary, c # b
        PROVE  ClaimInv(c)'
    <3>1. ClaimInv(c) /\ claims'[c] = claims[c]
      BY <2>2, <2>7
    <3>2. claims[c].status # "NONE" => claims[c].run \in Run /\ claims[c].run # r
      BY <1>1, <3>1 DEF ClaimInv
    <3>3. QED
      BY <1>1, <2>3, <3>1, <3>2, ClaimKept DEF ClaimInv, dirVars
  <2>8. ASSUME NEW c \in Boundary, c = b
        PROVE  ClaimInv(c)'
    <3>1. BoundaryOfRun(r)' = b
      BY <1>1 DEF BoundaryOfRun
    <3>2. claims'[c] = row
      BY <2>2, <2>8
    <3> HIDE DEF b
    <3>3. QED
      BY <2>3, <2>8, <3>1, <3>2, ProcessAssumption DEF ClaimInv, NoRun
  <2>9. ASSUME NEW p \in Process
        PROVE  RowInv(p)'
    <3>1. SUFFICES ASSUME NEW s \in rows[p]
                   PROVE  HasPublishedClaim(s)'
      BY <1>1 DEF RowInv, buildVars
    <3>2. s \in Run /\ HasPublishedClaim(s)
      BY DEF TypeOK, RowInv
    <3>3. \A c \in Boundary : claims[c].status = "PUBLISHED" => claims'[c] = claims[c]
      BY <1>3, <2>2
    <3>4. QED
      BY <1>1, <3>2, <3>3, RowKept DEF dirVars
  <2>10. QED
    BY <2>4, <2>5, <2>6, <2>7, <2>8, <2>9
<1>4. QED
  BY <1>2, <1>3

\* The UPDATE of the run's own CLAIMED row.
LEMMA PublishStep ==
  ASSUME Inv, NEW r \in Run, PublishClaim(r)
  PROVE  Inv'
<1> USE DEF Inv
<1> DEFINE b == BoundaryOfRun(r)
           accepted == /\ Whole(r)
                       /\ manifest[r].boundary = b
                       /\ claims[b].run = r /\ claims[b].status = "CLAIMED"
<1>1. /\ pc[r] = "publish_claim" /\ UNCHANGED <<latest, pinned, dirVars, buildVars>>
      /\ Owns(r) /\ claims[b].status = "CLAIMED" /\ onDisk[r] = {"public"} /\ place[r] = "public"
      /\ Complete(r) /\ synced[r]
      /\ pc \in [Process -> {"idle"} \cup Running \cup Stopped] /\ r \in Process
  BY RunTypes DEF PublishClaim, RunInv, Publishing, AfterFiles, AfterSync, AfterRename
<1>2. CASE ~ accepted
  BY <1>1, <1>2, LabelStep DEF PublishClaim
<1>3. CASE accepted
  <2>1. /\ pc' = [pc EXCEPT ![r] = "published"]
        /\ claims' = [claims EXCEPT ![b].status = "PUBLISHED"]
        /\ b \in Boundary /\ claims[b].run = r /\ claims[b].dataset = pinned[r]
    BY <1>1, <1>3 DEF PublishClaim, GoTo, Owns, Valid
  <2>2. /\ claims'[b].status = "PUBLISHED" /\ claims'[b].run = r
        /\ claims'[b].dataset = pinned[r]
        /\ \A c \in Boundary : c # b => claims'[c] = claims[c]
        /\ claims' \in [Boundary -> [status : {"NONE", "CLAIMED", "PUBLISHED"},
                                     run : Run \cup {NoRun}, dataset : Cutoff \cup {NoCutoff}]]
    <3> HIDE DEF b
    <3>1. QED
      BY <2>1 DEF TypeOK
  <2>3. pc'[r] = "published" /\ \A q \in Run : q # r => pc'[q] = pc[q]
    BY <1>1, <2>1
  <2>4. TypeOK'
    BY <1>1, <2>1, <2>2, LabelsAre DEF TypeOK, dirVars, buildVars
  <2>5. RunInv(r)'
    <3>1. BoundaryOfRun(r)' = b /\ pinned'[r] = pinned[r]
      BY <1>1 DEF BoundaryOfRun
    <3>2. Owns(r)'
      BY <1>1, <2>2, <3>1 DEF Owns, Valid
    <3>3. Complete(r)' /\ synced'[r] /\ onDisk'[r] = {"public"} /\ place'[r] = "public"
      BY <1>1, <3>1 DEF Complete, dirVars
    <3>4. QED
      BY <2>3, <3>2, <3>3 DEF RunInv, Skipping, Untouched, Publishing, AfterFiles, AfterSync,
         AfterRename
  <2>6. ASSUME NEW q \in Run, q # r
        PROVE  RunInv(q)'
    <3>1. Owns(q) => BoundaryOfRun(q) # b
      BY <2>1, <2>6 DEF Owns
    <3>2. claims[BoundaryOfRun(q)].status = "PUBLISHED" => BoundaryOfRun(q) # b
      BY <1>1
    <3>3. BoundaryOfRun(q) # b => claims'[BoundaryOfRun(q)] = claims[BoundaryOfRun(q)]
      BY <2>1 DEF TypeOK
    <3>4. QED
      BY <1>1, <2>3, <2>6, <3>1, <3>2, <3>3, RunKeptByClaim DEF buildVars
  <2>7. ASSUME NEW c \in Boundary, c # b
        PROVE  ClaimInv(c)'
    <3>1. ClaimInv(c) /\ claims'[c] = claims[c]
      BY <2>2, <2>7
    <3>2. claims[c].status # "NONE" => claims[c].run \in Run /\ claims[c].run # r
      BY <3>1, <2>7 DEF ClaimInv
    <3>3. QED
      BY <1>1, <2>3, <3>1, <3>2, ClaimKept DEF ClaimInv, dirVars
  <2>8. ASSUME NEW c \in Boundary, c = b
        PROVE  ClaimInv(c)'
    <3>1. BoundaryOfRun(r)' = b
      BY <1>1 DEF BoundaryOfRun
    <3>2. claims'[c].status = "PUBLISHED" /\ claims'[c].run = r
      BY <2>2, <2>8
    <3>3. onDisk'[r] = {"public"}
      BY <1>1 DEF dirVars
    <3> HIDE DEF b
    <3>4. QED
      BY <2>3, <2>8, <3>1, <3>2, <3>3, ProcessAssumption DEF ClaimInv, NoRun
  <2>9. ASSUME NEW p \in Process
        PROVE  RowInv(p)'
    <3>1. SUFFICES ASSUME NEW s \in rows[p]
                   PROVE  HasPublishedClaim(s)'
      BY <1>1 DEF RowInv, buildVars
    <3>2. s \in Run /\ HasPublishedClaim(s)
      BY DEF TypeOK, RowInv
    <3>3. \A c \in Boundary : claims[c].status = "PUBLISHED" => claims'[c] = claims[c]
      BY <1>1, <2>2
    <3>4. QED
      BY <1>1, <3>2, <3>3, RowKept DEF dirVars
  <2>10. QED
    BY <2>4, <2>5, <2>6, <2>7, <2>8, <2>9
<1>4. QED
  BY <1>2, <1>3

\* Pinning gives an invocation that holds nothing yet a dataset with a boundary.
LEMMA PinStep ==
  ASSUME Inv, NEW r \in Run, Pin(r)
  PROVE  Inv'
<1> USE DEF Inv
<1>1. PICK label, c :
        /\ pc[r] = "idle" /\ pc' = [pc EXCEPT ![r] = label] /\ pinned' = [pinned EXCEPT ![r] = c]
        /\ UNCHANGED <<latest, claims, dirVars, buildVars>>
        /\ \/ label = "failed" /\ c = pinned[r]
           \/ label = "claim" /\ c \in Cutoff /\ BoundaryOf(c) \in Boundary
  <2>1. pinned = [pinned EXCEPT ![r] = pinned[r]]
    BY DEF TypeOK
  <2>2. latest # NoCutoff => latest \in Cutoff
    BY DEF TypeOK
  <2>3. CASE latest = NoCutoff \/ BoundaryOf(latest) < 0
    BY <2>1, <2>3 DEF Pin, GoTo
  <2>4. CASE ~ (latest = NoCutoff \/ BoundaryOf(latest) < 0)
    <3>1. latest \in Cutoff /\ BoundaryOf(latest) \in Boundary
      BY <2>2, <2>4, BoundaryType
    <3>2. QED
      BY <2>4, <3>1 DEF Pin, GoTo
  <2>5. QED
    BY <2>3, <2>4
<1>2. /\ pc \in [Process -> {"idle"} \cup Running \cup Stopped] /\ Run \subseteq Process
      /\ pinned \in [Run -> Cutoff \cup {NoCutoff}]
  BY DEF TypeOK, Process
<1>3. pc'[r] = label /\ pinned'[r] = c
      /\ \A q \in Run : q # r => pc'[q] = pc[q] /\ pinned'[q] = pinned[q]
  BY <1>1, <1>2
<1>4. TypeOK'
  <2>1. label \in {"idle"} \cup Running \cup Stopped /\ c \in Cutoff \cup {NoCutoff}
    BY <1>1, <1>2, LabelsAre
  <2>2. QED
    BY <1>1, <1>2, <2>1 DEF TypeOK, dirVars, buildVars
<1>5. RunInv(r)'
  <2>1. /\ onDisk'[r] = {"none"} /\ files'[r] = 0 /\ place'[r] = "none"
    BY <1>1 DEF RunInv, Untouched, dirVars
  <2>2. label = "claim" => Valid(r)'
    BY <1>1, <1>3 DEF Valid, BoundaryOfRun
  <2>3. QED
    BY <1>1, <1>3, <2>1, <2>2 DEF RunInv, Skipping, Untouched, Publishing, AfterFiles, AfterSync,
       AfterRename
<1>6. ASSUME NEW q \in Run, q # r
      PROVE  RunInv(q)'
  BY <1>1, <1>3, <1>6, RunKept DEF SameDirectory, dirVars, buildVars
<1>7. ASSUME NEW b \in Boundary
      PROVE  ClaimInv(b)'
  <2>1. claims[b].status # "NONE" => claims[b].run \in Run /\ claims[b].run # r
    BY <1>1 DEF ClaimInv
  <2>2. QED
    BY <1>1, <1>3, <2>1, ClaimKept DEF ClaimInv, dirVars
<1>8. ASSUME NEW p \in Process
      PROVE  RowInv(p)'
  BY <1>1 DEF RowInv, HasPublishedClaim, dirVars, buildVars
<1>9. QED
  BY <1>4, <1>5, <1>6, <1>7, <1>8

\* Power loss takes nothing of a published run, and gives nothing to another.
LEMMA PowerLossStep ==
  ASSUME Inv, PowerLoss
  PROVE  Inv'
<1> USE DEF Inv
<1>1. /\ pc' = [p \in Process |-> IF pc[p] \in Running THEN "crashed" ELSE pc[p]]
      /\ UNCHANGED <<latest, claims, pinned, synced, manifest, buildVars>>
  BY DEF PowerLoss
<1>2. PICK found \in [Run -> {"none", "tmp", "public"}] :
        /\ \A r \in Run : found[r] \in onDisk[r]
        /\ place' = found
        /\ onDisk' = [r \in Run |-> {found[r]}]
  BY DEF PowerLoss
<1>3. PICK left \in [Run -> 0..AllFiles] :
        /\ \A r \in Run : left[r] <= files[r] /\ (synced[r] => left[r] = files[r])
        /\ files' = left
  BY DEF PowerLoss
<1>4. TypeOK'
  <2>1. \A p \in Process : pc'[p] \in {"idle"} \cup Running \cup Stopped
    BY <1>1, LabelsAre DEF TypeOK
  <2>2. pc' \in [Process -> {"idle"} \cup Running \cup Stopped]
    BY <1>1, <2>1
  <2>3. onDisk' \in [Run -> SUBSET {"none", "tmp", "public"}]
    BY <1>2
  <2>4. QED
    BY <1>1, <1>2, <1>3, <2>2, <2>3 DEF TypeOK, buildVars
<1>5. ASSUME NEW q \in Run
      PROVE  RunInv(q)'
  <2>1. /\ place'[q] = found[q] /\ onDisk'[q] = {found[q]} /\ found[q] \in onDisk[q]
        /\ files'[q] = left[q] /\ left[q] <= files[q] /\ (synced[q] => files'[q] = files[q])
        /\ left[q] \in 0..AllFiles /\ q \in Process
    BY <1>2, <1>3 DEF Process
  <2>2. BoundaryOfRun(q)' = BoundaryOfRun(q) /\ Valid(q)' = Valid(q) /\ Owns(q)' = Owns(q)
        /\ claims' = claims /\ manifest' = manifest /\ synced' = synced /\ pinned' = pinned
        /\ rows' = rows
    BY <1>1 DEF BoundaryOfRun, Valid, Owns, buildVars
  <2>3. "public" \in onDisk'[q] => Complete(q)' /\ synced'[q] /\ Owns(q)'
    <3>1. "public" \in onDisk'[q] => Complete(q) /\ synced[q] /\ Owns(q)
      BY <2>1 DEF RunInv
    <3>2. QED
      BY <2>1, <2>2, <3>1 DEF Complete
  <2>4. pc'[q] \notin Running /\ (pc'[q] = pc[q] \/ pc'[q] = "crashed")
    BY <1>1, <2>1 DEF Running, Publishing, Building
  <2>5. pc'[q] \in Untouched => onDisk'[q] = {"none"} /\ files'[q] = 0
    <3>1. pc'[q] \in Untouched => onDisk[q] = {"none"} /\ files[q] = 0
      BY <2>4 DEF RunInv, Untouched, Skipping
    <3>2. QED
      BY <2>1, <3>1 DEF AllFiles
  <2>6. /\ pc'[q] \in Skipping => pc'[q] = "skipped"
        /\ pc'[q] = "skipped" => pc[q] = "skipped"
        /\ pc'[q] \notin Publishing \cup AfterFiles \cup {"claim"}
    BY <2>4 DEF Running, Building, Skipping, Publishing, AfterFiles, AfterSync, AfterRename
  <2>7. QED
    BY <2>1, <2>2, <2>3, <2>5, <2>6 DEF RunInv, Publishing, Skipping, AfterFiles, AfterSync,
       AfterRename
<1>6. ASSUME NEW b \in Boundary
      PROVE  ClaimInv(b)'
  <2>1. claims' = claims /\ pinned' = pinned
    BY <1>1
  <2>2. claims[b].status # "NONE" => /\ claims[b].run \in Run
                                     /\ pc'[claims[b].run] \notin {"idle", "claim"}
    BY <1>1 DEF ClaimInv, Process, Running
  <2>3. claims[b].status = "PUBLISHED" =>
          /\ pc'[claims[b].run] = "published" /\ onDisk'[claims[b].run] = onDisk[claims[b].run]
    BY <1>1, <1>2, PublishedHolder DEF Process, Running, Publishing, Building
  <2>4. QED
    BY <2>1, <2>2, <2>3, ClaimKept
<1>7. ASSUME NEW p \in Process
      PROVE  RowInv(p)'
  BY <1>1 DEF RowInv, HasPublishedClaim, buildVars
<1>8. QED
  BY <1>4, <1>5, <1>6, <1>7

\* Every step of the next-state relation preserves the invariant.
LEMMA InvIsInductive ==
  ASSUME Inv, [Next]_vars
  PROVE  Inv'
<1>1. CASE NewDataset
  <2>1. UNCHANGED <<claims, pc, pinned, dirVars, buildVars>> /\ latest' \in Cutoff
    BY <1>1 DEF NewDataset
  <2>2. QED
    BY <2>1 DEF Inv, TypeOK, RunInv, ClaimInv, RowInv, HasPublishedClaim, Complete, Owns, Valid,
       BoundaryOfRun, dirVars, buildVars
<1>2. ASSUME NEW r \in Run, Reread(r) \/ FinishSkip(r)
      PROVE  Inv'
  <2>1. claims[BoundaryOfRun(r)].run \in RowsOfBoundary(r, BoundaryOfRun(r))
          => claims[BoundaryOfRun(r)].run \in rows[r]
    BY DEF RowsOfBoundary
  <2>2. QED
    BY <1>2, <2>1, LabelStep DEF Reread, FinishSkip
<1>3. ASSUME NEW r \in Run, AdvanceRun(r)
      PROVE  Inv'
  BY <1>2, <1>3, ClaimStep, PublishStep, WriteStep, PublishingSteps DEF AdvanceRun
<1>4. ASSUME NEW p \in Process, CallRaises(p) \/ Crash(p)
      PROVE  Inv'
  <2>1. PICK label \in {"failed", "crashed"} :
          /\ GoTo(p, label) /\ pc[p] \in Running
          /\ UNCHANGED <<latest, claims, pinned, dirVars, buildVars>>
    BY <1>4 DEF CallRaises, Crash
  <2>2. CASE p \in Run
    BY <2>1, <2>2, LabelStep DEF Running, Publishing, Building
  <2>3. CASE p \in Reader
    BY <2>1, <2>3, StepOfReader, GoToTyped, LabelsAre DEF Inv, GoTo, buildVars
  <2>4. QED
    BY <2>2, <2>3 DEF Process
<1>5. ASSUME NEW c \in Reader, StartBuild(c) \/ FinishBuild(c)
      PROVE  Inv'
  <2>1. PICK label \in {"list", "built"} :
          GoTo(c, label) /\ UNCHANGED <<latest, claims, pinned, dirVars, buildVars>>
    BY <1>5 DEF StartBuild, FinishBuild
  <2>2. QED
    BY <2>1, StepOfReader, GoToTyped, LabelsAre DEF Inv, GoTo, buildVars, Process
<1>6. CASE UNCHANGED vars
  BY <1>6 DEF Inv, TypeOK, RunInv, ClaimInv, RowInv, HasPublishedClaim, Complete, Owns, Valid,
     BoundaryOfRun, vars, dirVars, buildVars
<1>7. QED
  BY <1>1, <1>3, <1>4, <1>5, <1>6, PinStep, BuildStep, PowerLossStep DEF Next, Exhausted

\* The inductive invariant the theorems of this module follow from: each
\* invocation owns the claim it works for, each published claim has its directory
\* complete and safe on disk, each build lists published runs only.
THEOREM Invariance == Spec => []Inv
<1>1. Init => Inv
  BY InitInv
<1>2. Inv /\ [Next]_vars => Inv'
  BY InvIsInductive
<1>3. QED
  BY <1>1, <1>2, PTL DEF Spec

--------------------------------------------------------------------------------
(* What the invariant gives the readers *)

\* Claims, directories, manifests and builds keep their shape.
THEOREM TypeCorrect == Spec => []TypeOK
<1>1. Inv => TypeOK
  BY DEF Inv
<1>2. QED
  BY <1>1, Invariance, PTL

\* What is known of a run whose directory is public.
LEMMA PublicRun ==
  ASSUME Inv, NEW r \in Run, place[r] = "public"
  PROVE  /\ synced[r] /\ Owns(r)
         /\ manifest[r].boundary = BoundaryOfRun(r) /\ manifest[r].dataset = pinned[r]
<1>1. Complete(r) /\ synced[r] /\ Owns(r)
  BY DEF Inv, RunInv
<1>2. manifest[r] = [boundary |-> BoundaryOfRun(r), dataset |-> pinned[r]]
  BY <1>1 DEF Complete
<1>3. QED
  BY <1>1, <1>2

\* Two public directories never speak of one boundary, whatever crashed between.
THEOREM OneRunPerBoundary == Spec => []OnePublicRunPerBoundary
<1>1. Inv => OnePublicRunPerBoundary
  <2>1. SUFFICES ASSUME Inv, NEW r \in Run, NEW s \in Run, place[r] = "public",
                        place[s] = "public", manifest[r].boundary = manifest[s].boundary
                 PROVE  r = s
    BY DEF OnePublicRunPerBoundary
  <2>2. BoundaryOfRun(r) = BoundaryOfRun(s)
    BY <2>1, PublicRun
  <2>3. QED
    BY <2>1, <2>2, PublicRun DEF Owns
<1>2. QED
  BY <1>1, Invariance, PTL

\* Published evidence is complete and on disk to stay.
THEOREM EvidenceSurvives == Spec => []PublishedSurvives
<1>1. Inv => PublishedSurvives
  BY PublishedHolder DEF PublishedSurvives
<1>2. QED
  BY <1>1, Invariance, PTL

\* A public artifact, its claim and its boundary speak of the pinned dataset.
THEOREM PinIsKept == Spec => []PinnedThroughout
<1>1. Inv => PinnedThroughout
  <2>1. SUFFICES ASSUME Inv, NEW r \in Run, place[r] = "public"
                 PROVE  /\ manifest[r].boundary = BoundaryOf(manifest[r].dataset)
                        /\ manifest[r].boundary \in Boundary
                        /\ claims[manifest[r].boundary].run = r
                        /\ claims[manifest[r].boundary].dataset = manifest[r].dataset
    BY DEF PinnedThroughout
  <2>2. manifest[r].boundary = BoundaryOfRun(r) /\ manifest[r].dataset = pinned[r]
    BY <2>1, PublicRun
  <2>3. QED
    BY <2>1, <2>2, PublicRun DEF Owns, Valid, BoundaryOfRun
<1>2. QED
  BY <1>1, Invariance, PTL

\* A listed run is whole, public and its boundary's only run.
LEMMA ListedIsEvidence ==
  ASSUME Inv, NEW r \in Run, HasPublishedClaim(r)
  PROVE  /\ Whole(r) /\ place[r] = "public"
         /\ manifest[r].boundary \in Boundary /\ claims[manifest[r].boundary].run = r
  BY PublishedHolder DEF HasPublishedClaim

\* A casebook that is built has published evidence only, one run per boundary.
THEOREM CasebookIsEvidence == Spec => []BuiltFromPublishedOnly
<1>1. Inv => BuiltFromPublishedOnly
  <2>1. SUFFICES ASSUME Inv, NEW p \in Process
                 PROVE  /\ \A r \in rows[p] : Whole(r) /\ HasPublishedClaim(r)
                        /\ \A r, s \in rows[p] :
                             manifest[r].boundary = manifest[s].boundary => r = s
    BY DEF BuiltFromPublishedOnly
  <2>2. \A r \in rows[p] : r \in Run /\ HasPublishedClaim(r)
    BY <2>1 DEF Inv, TypeOK, RowInv
  <2>3. QED
    BY <2>1, <2>2, ListedIsEvidence
<1>2. QED
  BY <1>1, Invariance, PTL

\* SKIPPED_ALREADY_ANALYZED means that another run's evidence is there.
THEOREM SkipIsHonest == Spec => []SkipAddsNothing
<1>1. Inv => SkipAddsNothing
  <2>1. SUFFICES ASSUME Inv, NEW r \in Run, pc[r] = "skipped"
                 PROVE  /\ place[r] = "none"
                        /\ claims[BoundaryOfRun(r)].status = "PUBLISHED"
                        /\ claims[BoundaryOfRun(r)].run \in rows[r] \ {r}
    BY DEF SkipAddsNothing
  <2>2. /\ place[r] = "none" /\ claims[BoundaryOfRun(r)].status = "PUBLISHED"
        /\ BoundaryOfRun(r) \in Boundary /\ claims[BoundaryOfRun(r)].run \in rows[r]
    BY <2>1 DEF Inv, RunInv, Untouched, Skipping, Valid
  <2>3. claims[BoundaryOfRun(r)].run # r
    BY <2>1, <2>2, PublishedHolder
  <2>4. QED
    BY <2>2, <2>3
<1>2. QED
  BY <1>1, Invariance, PTL

--------------------------------------------------------------------------------
(* Refinement *)

\* The ledger this state stands for, as ImplementsLedger maps it.
LedgerNow == [b \in Boundary |-> [state |-> ClaimState(b), run |-> claims[b].run]]

\* How a claim's status reads in the ledger, and that it never reads "broken".
LEMMA LedgerRow ==
  ASSUME Inv, NEW b \in Boundary
  PROVE  /\ claims[b].status = "NONE" => ClaimState(b) = "open" /\ claims[b].run = NoRun
         /\ claims[b].status = "CLAIMED" => ClaimState(b) = "claimed"
         /\ claims[b].status = "PUBLISHED" => ClaimState(b) = "evidence"
         /\ claims[b].status \in {"NONE", "CLAIMED", "PUBLISHED"}
<1>1. claims[b].status = "PUBLISHED" => Whole(claims[b].run)
  BY PublishedHolder
<1>2. claims[b].status = "NONE" => claims[b].run = NoRun
  BY DEF Inv, ClaimInv
<1>3. claims[b].status \in {"NONE", "CLAIMED", "PUBLISHED"}
  BY DEF Inv, TypeOK
<1>4. QED
  BY <1>1, <1>2, <1>3 DEF ClaimState

\* The same after a step.
LEMMA LedgerRowAfter ==
  Inv' =>
    \A b \in Boundary :
      /\ claims'[b].status = "NONE" => ClaimState(b)' = "open" /\ claims'[b].run = NoRun
      /\ claims'[b].status = "CLAIMED" => ClaimState(b)' = "claimed"
      /\ claims'[b].status = "PUBLISHED" => ClaimState(b)' = "evidence"
<1> DEFINE Rows ==
      \A b \in Boundary :
        /\ claims[b].status = "NONE" => ClaimState(b) = "open" /\ claims[b].run = NoRun
        /\ claims[b].status = "CLAIMED" => ClaimState(b) = "claimed"
        /\ claims[b].status = "PUBLISHED" => ClaimState(b) = "evidence"
<1>1. Inv => Rows
  BY LedgerRow
<1> HIDE DEF Rows
<1>2. Inv' => Rows'
  BY <1>1, PTL
<1>3. QED
  BY <1>2 DEF Rows

\* A row of the ledger depends on its claim alone.
LEMMA LedgerRowKept ==
  ASSUME Inv, Inv', NEW b \in Boundary, claims'[b] = claims[b]
  PROVE  ClaimState(b)' = ClaimState(b)
  BY LedgerRow, LedgerRowAfter

\* Without claims every boundary is open.
LEMMA LedgerInitially == Init => Ledger!LedgerInit
  BY DEF Init, Ledger!LedgerInit, Ledger!Open, Ledger!NoRun, Unclaimed, ClaimState, NoRun

\* A claim inserted is a boundary taken, by a run that had taken none.
LEMMA ClaimIsLedgerClaim ==
  ASSUME Inv, Inv', NEW r \in Run, ClaimBoundary(r), claims' # claims
  PROVE  \E b \in Boundary : Ledger!Claim(b, r)
<1> DEFINE b == BoundaryOfRun(r)
           row == [status |-> "CLAIMED", run |-> r, dataset |-> pinned[r]]
<1>1. /\ claims[b].status = "NONE" /\ claims' = [claims EXCEPT ![b] = row] /\ pc[r] = "claim"
      /\ b \in Boundary
  BY DEF ClaimBoundary, Inv, RunInv, Valid
<1>2. /\ claims'[b] = row
      /\ \A c \in Boundary : c # b => claims'[c] = claims[c] /\ ClaimState(c)' = ClaimState(c)
  <2>1. claims'[b] = row /\ \A c \in Boundary : c # b => claims'[c] = claims[c]
    BY <1>1 DEF Inv, TypeOK
  <2> HIDE DEF b
  <2>2. QED
    BY <2>1, LedgerRowKept
<1>3. ClaimState(b) = "open" /\ claims[b].run = NoRun
  BY <1>1, LedgerRow
<1>4. \A c \in Boundary : c = b => ClaimState(c)' = "claimed" /\ claims'[c].run = r
  <2>1. claims'[b].status = "CLAIMED" /\ claims'[b].run = r
    BY <1>2
  <2> HIDE DEF b, row
  <2>2. QED
    BY <2>1, LedgerRowAfter
<1>5. \A c \in Boundary : claims[c].run # r
  BY <1>1, LedgerRow, ProcessAssumption DEF Inv, ClaimInv, NoRun
<1> HIDE DEF b
<1>6. LedgerNow' = [LedgerNow EXCEPT ![b] = [state |-> "claimed", run |-> r]]
  BY <1>1, <1>2, <1>4 DEF LedgerNow
<1>7. LedgerNow[b] = [state |-> "open", run |-> NoRun]
      /\ \A c \in Boundary : LedgerNow[c].run # r
  BY <1>1, <1>3, <1>5 DEF LedgerNow
<1>8. Ledger!Claim(b, r)
  BY <1>6, <1>7 DEF Ledger!Claim, Ledger!Open, Ledger!Taken, Ledger!NoRun, LedgerNow, NoRun
<1>9. QED
  BY <1>1, <1>8

\* A claim updated is evidence published.
LEMMA PublishIsLedgerPublish ==
  ASSUME Inv, Inv', NEW r \in Run, PublishClaim(r), claims' # claims
  PROVE  \E b \in Boundary : Ledger!Publish(b, r)
<1> DEFINE b == BoundaryOfRun(r)
<1>1. /\ claims[b].status = "CLAIMED" /\ claims[b].run = r /\ b \in Boundary
      /\ claims' = [claims EXCEPT ![b].status = "PUBLISHED"]
  BY DEF PublishClaim, Inv, RunInv, Owns, Valid, Publishing
<1> HIDE DEF b
<1>2. /\ claims'[b].status = "PUBLISHED" /\ claims'[b].run = r
      /\ \A c \in Boundary : c # b => claims'[c] = claims[c]
  BY <1>1 DEF Inv, TypeOK
<1>3. /\ ClaimState(b) = "claimed"
      /\ \A c \in Boundary : c # b => ClaimState(c)' = ClaimState(c)
      /\ \A c \in Boundary : c = b => ClaimState(c)' = "evidence" /\ claims'[c].run = r
  BY <1>1, <1>2, LedgerRow, LedgerRowKept, LedgerRowAfter
<1>4. LedgerNow' = [LedgerNow EXCEPT ![b] = [state |-> "evidence", run |-> r]]
  BY <1>1, <1>2, <1>3 DEF LedgerNow
<1>5. LedgerNow[b] = [state |-> "claimed", run |-> r]
  BY <1>1, <1>3 DEF LedgerNow
<1>6. Ledger!Publish(b, r)
  BY <1>4, <1>5 DEF Ledger!Publish, Ledger!Taken, Ledger!Evidence, LedgerNow
<1>7. QED
  BY <1>1, <1>6

\* Only these two steps write claims.
LEMMA OtherStepsKeepClaims ==
  ASSUME [Next]_vars, \A r \in Run : ~ ClaimBoundary(r) /\ ~ PublishClaim(r)
  PROVE  claims' = claims
  BY DEF Next, NewDataset, Pin, AdvanceRun, Analyze, MakeDirectory, WriteFile, SyncRunDirectory,
     Rename, SyncTmp, SyncDay, Reread, SyncRuns, FinishSkip, AdvanceBuild, ListRuns, VerifyRun,
     StartBuild, FinishBuild, CallRaises, Crash, PowerLoss, Exhausted, vars

\* Every step is a step of the ledger or leaves it as it is.
LEMMA LedgerStep ==
  ASSUME Inv, Inv', [Next]_vars
  PROVE  Ledger!LedgerNext \/ UNCHANGED LedgerNow
<1>1. CASE claims' = claims
  BY <1>1, LedgerRowKept DEF LedgerNow
<1>2. CASE claims' # claims
  BY <1>2, OtherStepsKeepClaims, ClaimIsLedgerClaim, PublishIsLedgerPublish DEF Ledger!LedgerNext
<1>3. QED
  BY <1>1, <1>2

\* Claims and run directories implement the evidence ledger: no crash, power
\* loss, retry or clean-up shows to those who read published evidence.
THEOREM LedgerIsImplemented == Spec => ImplementsLedger
<1>1. Init => Ledger!LedgerInit
  BY LedgerInitially
<1>2. Inv /\ Inv' /\ [Next]_vars => [Ledger!LedgerNext]_LedgerNow
  BY LedgerStep
<1>3. QED
  BY <1>1, <1>2, Invariance, PTL DEF Spec, ImplementsLedger, Ledger!LedgerSpec, LedgerNow
================================================================================
