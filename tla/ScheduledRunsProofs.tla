-------------------------- MODULE ScheduledRunsProofs ---------------------------
(* Theorems about ScheduledRuns, for every number of wrappers and operators,   *)
(* hours, outputs and attempts: the casebook keeps what was reported, a        *)
(* snapshot its content, and an analysis the hour it has claimed.              *)
EXTENDS ScheduledRuns, TLAPS

Label == {"idle"} \cup Running \cup Stopped
File == Casebook \cup {NoFile}
LedgerRow == [state : {"open", "claimed", "evidence"}, run : Run \cup {NoRun}]

\* Steps of a publication after build_casebook and after the sync of the output.
Built == Publishing \ {"build"}
OutputSynced == {"reread", "check_snapshot", "rename_snapshot", "sync_snapshot"}

Typed ==
  /\ ledger \in [Boundary -> LedgerRow]
  /\ committed \in Boundary \cup {NoHour}
  /\ pc \in [Process -> Label]
  /\ target \in [Process -> Output]
  /\ asked \in [Process -> Boundary \cup {NoSnapshot}]
  /\ built \in [Process -> Casebook]
  /\ old \in [Process -> File]
  /\ output \in [Output -> File] /\ outputOnDisk \in [Output -> SUBSET File]
  /\ snapshots \in [Boundary -> File] /\ snapshotsOnDisk \in [Boundary -> SUBSET File]
  /\ \A o \in Output : output[o] \in outputOnDisk[o]

\* Who can be where: only ingestions fetch, only analyses claim, and ingestions
\* publish no casebook.
Places ==
  \A p \in Process :
    /\ pc[p] = "fetch" => p \in Ingest
    /\ pc[p] \in {"claim", "publish"} => p \in Run
    /\ pc[p] = "try" => p \in Run \cup Ingest
    /\ pc[p] \in {"lock_output"} \cup Publishing => p \notin Ingest

\* The process lock, and what an analysis does under it.
UnderProcessLock ==
  /\ \A p, q \in Process : pc[p] \in UnderLock /\ pc[q] \in UnderLock => p = q
  /\ \A w \in Run : pc[w] = "publish" => asked[w] \in Boundary /\ asked[w] = committed

\* What a casebook says is published, and the hour a wrapper was answered is in it.
EvidenceFirst ==
  /\ \A p \in Process : built[p] \subseteq Published
  /\ \A w \in Run : pc[w] \in {"lock_output"} \cup Publishing => asked[w] \in Published
  /\ \A w \in Run : pc[w] \in Built \cup {"done"} => asked[w] \in built[w]

\* A content that keeps what was reported for an output.
Keeps(content, o) ==
  \A q \in Process \ Ingest : pc[q] = "done" /\ target[q] = o =>
    content # NoFile /\ built[q] \subseteq content

\* One publication at a time has an output; whatever it may leave there, the new
\* casebook, the old one or both, keeps what was reported.
OutputKept ==
  /\ \A p, q \in Process :
       pc[p] \in Publishing /\ pc[q] \in Publishing /\ target[p] = target[q] => p = q
  /\ \A o \in Output : \A content \in outputOnDisk[o] : Keeps(content, o)
  /\ \A p \in Process :
       /\ pc[p] \in Built => Keeps(built[p], target[p])
       /\ pc[p] \in {"replace", "sync", "recover"} => Keeps(old[p], target[p])
       /\ pc[p] = "sync" => output[target[p]] = built[p]
       /\ pc[p] \in OutputSynced => outputOnDisk[target[p]] = {built[p]}

\* A power loss takes a snapshot or leaves it as it is.
SnapshotKept ==
  /\ \A b \in Boundary : /\ snapshots[b] \in snapshotsOnDisk[b]
                         /\ snapshotsOnDisk[b] \subseteq {snapshots[b], NoFile}
  /\ \A p \in Process : pc[p] \in {"check_snapshot", "rename_snapshot"} => asked[p] \in Boundary

Inv == Typed /\ Places /\ UnderProcessLock /\ EvidenceFirst /\ OutputKept /\ SnapshotKept

--------------------------------------------------------------------------------
(* Files and the ledger *)

\* No boundary is 0, so a casebook is a file.
LEMMA CasebookIsFile == \A c \in Casebook : c # NoFile
  BY HourAssumption DEF Casebook, NoFile, NoSnapshot

\* The evidence grows with every publication and with nothing else.
LEMMA ClaimTakes ==
  ASSUME Typed, NEW b \in Boundary, NEW r \in Run, Claim(b, r)
  PROVE  ledger' \in [Boundary -> LedgerRow] /\ Published' = Published
<1>1. ledger' = [ledger EXCEPT ![b] = Taken(r)] /\ ledger[b] = Open
  BY DEF Claim
<1>2. Taken(r) \in LedgerRow /\ Taken(r).state = "claimed" /\ Open.state = "open"
  BY DEF Taken, LedgerRow, Open
<1>3. \A c \in Boundary : ledger'[c] = IF c = b THEN Taken(r) ELSE ledger[c]
  BY <1>1 DEF Typed
<1> QED BY <1>1, <1>2, <1>3 DEF Typed, Published

LEMMA PublishAdds ==
  ASSUME Typed, NEW b \in Boundary, NEW r \in Run, Publish(b, r)
  PROVE  ledger' \in [Boundary -> LedgerRow] /\ Published' = Published \cup {b}
<1>1. ledger' = [ledger EXCEPT ![b] = Evidence(r)]
  BY DEF Publish
<1>2. Evidence(r) \in LedgerRow /\ Evidence(r).state = "evidence"
  BY DEF Evidence, LedgerRow
<1>3. \A c \in Boundary : ledger'[c] = IF c = b THEN Evidence(r) ELSE ledger[c]
  BY <1>1 DEF Typed
<1> QED BY <1>1, <1>2, <1>3 DEF Typed, Published

LEMMA InitInv == Init => Inv
<1> SUFFICES ASSUME Init PROVE Inv
  OBVIOUS
<1>1. Typed
  BY OutputAssumption, FirstHoursAssumption DEF Init, LedgerInit, FilesInit, Typed, Label, File, Casebook,
     LedgerRow, Open
<1>2. Places /\ UnderProcessLock
  BY ProcessesAssumption DEF Init, Places, UnderProcessLock, UnderLock, Publishing
<1>3. EvidenceFirst
  BY ProcessesAssumption DEF Init, EvidenceFirst, Publishing, Built
<1>4. OutputKept
  BY DEF Init, FilesInit, OutputKept, Keeps, Publishing, Built, OutputSynced
<1>5. SnapshotKept
  BY DEF Init, FilesInit, SnapshotKept
<1> QED BY <1>1, <1>2, <1>3, <1>4, <1>5 DEF Inv

--------------------------------------------------------------------------------
(* Steps that move a command and change nothing else *)

Moves(p, label) ==
  /\ p \in Process
  /\ label \in Label /\ pc' = [pc EXCEPT ![p] = label]
  /\ UNCHANGED <<ledger, committed, fileVars, commandVars>>
  /\ label = "fetch" => p \in Ingest
  /\ label = "claim" => p \in Run
  /\ label = "try" => p \in Run \cup Ingest
  /\ label # "publish" /\ label # "sync"
  /\ label \in UnderLock => ProcessLockFree
  /\ label \in {"lock_output"} \cup Publishing =>
       pc[p] \in {"lock_output"} \cup Publishing
  /\ label \in Publishing => pc[p] \in Publishing \/ OutputLockFree(target[p])
  /\ label \in Built => pc[p] \in Built
  /\ label \in {"replace", "recover"} => pc[p] \in {"replace", "sync", "recover"}
  /\ label \in OutputSynced \cup {"done"} => pc[p] \in OutputSynced
  /\ label \in {"check_snapshot", "rename_snapshot"} => asked[p] \in Boundary

LEMMA MoveInv ==
  ASSUME Inv, NEW p, NEW label, Moves(p, label)
  PROVE  Inv'
<1>1. /\ UNCHANGED <<ledger, committed, target, asked, built, old>>
      /\ UNCHANGED <<output, outputOnDisk, snapshots, snapshotsOnDisk>>
      /\ \A q \in Process : pc'[q] = IF q = p THEN label ELSE pc[q]
      /\ p \in Process
  BY DEF Moves, fileVars, commandVars, Inv, Typed
<1>2. Typed'
  BY <1>1 DEF Moves, Inv, Typed
<1>3. Places'
  BY <1>1 DEF Moves, Inv, Places
<1>4. UnderProcessLock'
  BY <1>1, ProcessesAssumption DEF Moves, Inv, UnderProcessLock, ProcessLockFree, UnderLock
<1>5. Published' = Published
  BY <1>1 DEF Published
<1>6. EvidenceFirst'
  BY <1>1, <1>5, ProcessesAssumption DEF Moves, Inv, EvidenceFirst, OutputSynced, Built, Publishing
<1>7. ASSUME NEW content, NEW o, Keeps(content, o),
             label = "done" /\ target[p] = o => content # NoFile /\ built[p] \subseteq content
      PROVE  Keeps(content, o)'
  BY <1>1, <1>7 DEF Keeps
<1>8. built[p] # NoFile
  BY <1>1, CasebookIsFile DEF Inv, Typed
<1>9. label = "done" => pc[p] \in Publishing /\ outputOnDisk[target[p]] = {built[p]}
  BY <1>1 DEF Moves, Inv, OutputKept, OutputSynced, Publishing
<1>10. OutputKept'
  <2>1. \A q, r \in Process :
          pc'[q] \in Publishing /\ pc'[r] \in Publishing /\ target[q] = target[r] => q = r
    BY <1>1 DEF Moves, Inv, OutputKept, OutputLockFree
  <2>2. ASSUME NEW o \in Output, NEW content \in outputOnDisk[o]
        PROVE  Keeps(content, o)'
    BY <1>7, <1>8, <1>9, <2>2 DEF Inv, OutputKept
  <2>3. ASSUME NEW q \in Process, pc'[q] \in Built
        PROVE  Keeps(built[q], target[q])'
    <3>1. pc[q] \in Built /\ Keeps(built[q], target[q])
      BY <1>1, <2>3 DEF Moves, Inv, OutputKept
    <3>2. label = "done" => target[p] # target[q]
      <4>1. label = "done" => q # p
        BY <1>1, <2>3 DEF Built, Publishing
      <4> QED BY <1>9, <4>1, <3>1, <1>1 DEF Inv, OutputKept, Built
    <3> QED BY <1>1, <1>7, <3>1, <3>2 DEF Keeps
  <2>4. ASSUME NEW q \in Process, pc'[q] \in {"replace", "sync", "recover"}
        PROVE  Keeps(old[q], target[q])'
    <3>1. pc[q] \in {"replace", "sync", "recover"} /\ Keeps(old[q], target[q])
      BY <1>1, <2>4 DEF Moves, Inv, OutputKept
    <3>2. label = "done" => target[p] # target[q]
      <4>1. label = "done" => q # p
        BY <1>1, <2>4
      <4> QED BY <1>9, <4>1, <3>1, <1>1 DEF Inv, OutputKept, Publishing
    <3> QED BY <1>1, <1>7, <3>1, <3>2 DEF Keeps
  <2>5. ASSUME NEW q \in Process
        PROVE  /\ pc'[q] = "sync" => output[target[q]] = built[q]
               /\ pc'[q] \in OutputSynced => outputOnDisk[target[q]] = {built[q]}
    BY <1>1 DEF Moves, Inv, OutputKept
  <2> QED BY <1>1, <2>1, <2>2, <2>3, <2>4, <2>5 DEF OutputKept
<1>11. SnapshotKept'
  BY <1>1 DEF Moves, Inv, SnapshotKept
<1> QED BY <1>2, <1>3, <1>4, <1>6, <1>10, <1>11 DEF Inv

LEMMA StartInv ==
  ASSUME Inv, NEW p \in Process, Start(p)
  PROVE  Inv'
<1>1. Moves(p, "try")
  BY DEF Start, GoTo, Moves, Label, Running, UnderLock, Publishing, Built, OutputSynced
<1> QED BY <1>1, MoveInv

LEMMA TryLockInv ==
  ASSUME Inv, NEW p \in Process, TryLock(p)
  PROVE  Inv'
<1>1. p \in Run \cup Ingest
  BY DEF TryLock, Inv, Places
<1>2. \E label \in {"fetch", "claim", "failed", "try"} : Moves(p, label)
  BY <1>1 DEF TryLock, GoTo, Moves, Label, Running, Stopped, UnderLock, Publishing, Built, OutputSynced
<1> QED BY <1>2, MoveInv

LEMMA LockOutputInv ==
  ASSUME Inv, NEW p \in Process, LockOutput(p), UNCHANGED <<ledger, committed>>
  PROVE  Inv'
<1>1. \E label \in {"build", "failed"} : Moves(p, label)
  BY DEF LockOutput, GoTo, Moves, Label, Running, Stopped, UnderLock, Publishing, Built, OutputSynced
<1> QED BY <1>1, MoveInv

LEMMA RereadInv ==
  ASSUME Inv, NEW p \in Process, Reread(p), UNCHANGED <<ledger, committed>>
  PROVE  Inv'
<1>1. asked[p] # NoSnapshot => asked[p] \in Boundary
  BY DEF Inv, Typed
<1>2. \E label \in {"failed", "done", "check_snapshot"} : Moves(p, label)
  BY <1>1 DEF Reread, GoTo, Moves, Label, Running, Stopped, UnderLock, Publishing, Built, OutputSynced
<1> QED BY <1>2, MoveInv

LEMMA CheckSnapshotInv ==
  ASSUME Inv, NEW p \in Process, CheckSnapshot(p), UNCHANGED <<ledger, committed>>
  PROVE  Inv'
<1>1. asked[p] \in Boundary
  BY DEF CheckSnapshot, Inv, SnapshotKept
<1>2. \E label \in {"failed", "done", "rename_snapshot"} : Moves(p, label)
  BY <1>1 DEF CheckSnapshot, GoTo, Moves, Label, Running, Stopped, UnderLock, Publishing, Built, OutputSynced
<1> QED BY <1>2, MoveInv

LEMMA PublicationRaisesInv ==
  ASSUME Inv, NEW p \in Process, PublicationRaises(p), UNCHANGED <<ledger, committed>>
  PROVE  Inv'
<1>1. \E label \in {"failed", "recover"} : Moves(p, label)
  BY DEF PublicationRaises, GoTo, Moves, Label, Running, Stopped, UnderLock, Publishing, Built, OutputSynced
<1> QED BY <1>1, MoveInv

LEMMA StopInv ==
  ASSUME Inv, NEW p \in Process, CommandFails(p) \/ Crash(p)
  PROVE  Inv'
<1>1. \E label \in {"failed", "crashed"} : Moves(p, label)
  BY DEF CommandFails, Crash, GoTo, Moves, Label, Running, Stopped, UnderLock, Publishing, Built, OutputSynced
<1> QED BY <1>1, MoveInv

--------------------------------------------------------------------------------
(* Ingestions, analyses and casebooks by hand *)

\* As long as nobody new is done, what was reported is what it was.
LEMMA KeepsStays ==
  ASSUME NEW content, NEW o, Keeps(content, o),
         \A q \in Process \ Ingest : pc'[q] = "done" /\ target'[q] = o =>
           pc[q] = "done" /\ target[q] = o /\ built'[q] = built[q]
  PROVE  Keeps(content, o)'
  BY DEF Keeps

\* A step of a command outside its publication that ends nothing but ingestions.
Outside(p, label) ==
  /\ p \in Process
  /\ pc[p] \notin Publishing /\ label \notin Publishing
  /\ label = "done" => p \in Ingest
  /\ label \in Label /\ pc' = [pc EXCEPT ![p] = label]
  /\ UNCHANGED <<fileVars, built, old>>
  /\ target' \in [Process -> Output] /\ asked' \in [Process -> Boundary \cup {NoSnapshot}]
  /\ \A q \in Process : q # p => target'[q] = target[q] /\ asked'[q] = asked[q]

LEMMA OutsideKeeps ==
  ASSUME Inv, NEW p, NEW label, Outside(p, label)
  PROVE  OutputKept' /\ SnapshotKept'
<1>1. /\ UNCHANGED <<built, old, output, outputOnDisk, snapshots, snapshotsOnDisk>>
      /\ p \in Process /\ \A q \in Process : pc'[q] = IF q = p THEN label ELSE pc[q]
  BY DEF Outside, fileVars, Inv, Typed
<1>2. \A q \in Process : pc'[q] \in Publishing =>
        q # p /\ pc[q] = pc'[q] /\ target'[q] = target[q]
  BY <1>1 DEF Outside
<1>3. \A q \in Process \ Ingest : pc'[q] = "done" =>
        pc[q] = "done" /\ target'[q] = target[q] /\ built'[q] = built[q]
  BY <1>1 DEF Outside
<1>4. \A content, o : Keeps(content, o) => Keeps(content, o)'
  BY <1>3, KeepsStays
<1>5. OutputKept'
  <2>1. \A q, r \in Process :
          pc'[q] \in Publishing /\ pc'[r] \in Publishing /\ target'[q] = target'[r] => q = r
    BY <1>2 DEF Inv, OutputKept
  <2>2. \A o \in Output : \A content \in outputOnDisk'[o] : Keeps(content, o)'
    BY <1>1, <1>4 DEF Inv, OutputKept
  <2>3. ASSUME NEW q \in Process
        PROVE  /\ pc'[q] \in Built => Keeps(built[q], target[q])'
               /\ pc'[q] \in {"replace", "sync", "recover"} => Keeps(old[q], target[q])'
    BY <1>1, <1>2, <1>3 DEF Inv, OutputKept, Keeps, Built, Publishing
  <2>4. ASSUME NEW q \in Process
        PROVE  /\ pc'[q] = "sync" => output'[target'[q]] = built'[q]
               /\ pc'[q] \in OutputSynced => outputOnDisk'[target'[q]] = {built'[q]}
    BY <1>1, <1>2 DEF Inv, OutputKept, OutputSynced, Publishing
  <2> QED BY <2>1, <2>2, <2>3, <2>4 DEF OutputKept
<1>6. SnapshotKept'
  <2>1. \A q \in Process : pc'[q] \in {"check_snapshot", "rename_snapshot"} =>
          asked'[q] \in Boundary
    BY <1>1, <1>2 DEF Outside, Inv, SnapshotKept, Publishing
  <2> QED BY <1>1, <2>1 DEF Inv, SnapshotKept
<1> QED BY <1>5, <1>6

LEMMA FinishIngestionInv ==
  ASSUME Inv, NEW p \in Process, FinishIngestion(p)
  PROVE  Inv'
<1>1. /\ pc[p] = "fetch" /\ pc' = [pc EXCEPT ![p] = "done"] /\ p \in Ingest
      /\ committed' \in {committed} \cup Boundary
      /\ UNCHANGED <<ledger, fileVars, target, asked, built, old>>
  BY DEF FinishIngestion, GoTo, commandVars, Inv, Places
<1>2. \A q \in Process : pc'[q] = IF q = p THEN "done" ELSE pc[q]
  BY <1>1 DEF Inv, Typed
<1>3. Outside(p, "done")
  BY <1>1 DEF Outside, Inv, Typed, Label, Stopped, Publishing
<1>4. OutputKept' /\ SnapshotKept'
  BY <1>3, OutsideKeeps
<1>5. Typed'
  BY <1>1, <1>3 DEF Inv, Typed, Outside, fileVars
<1>6. Places'
  BY <1>2, <1>1 DEF Inv, Places, Publishing
<1>7. UnderProcessLock'
  BY <1>1, <1>2, ProcessesAssumption DEF Inv, UnderProcessLock, UnderLock
<1>8. EvidenceFirst'
  BY <1>1, <1>2, ProcessesAssumption DEF Inv, EvidenceFirst, Published, Built, Publishing
<1> QED BY <1>4, <1>5, <1>6, <1>7, <1>8 DEF Inv

LEMMA ClaimHourInv ==
  ASSUME Inv, NEW p \in Process, ClaimHour(p)
  PROVE  Inv'
<1>1. /\ pc[p] = "claim" /\ asked' = [asked EXCEPT ![p] = committed]
      /\ UNCHANGED <<committed, fileVars, target, built, old>>
      /\ p \in Run
  BY DEF ClaimHour, Inv, Places
<1>2. PICK label \in {"publish", "lock_output", "failed"} :
        /\ pc' = [pc EXCEPT ![p] = label]
        /\ label = "publish" => committed \in Boundary /\ Claim(committed, p)
        /\ label = "lock_output" => committed \in Published
        /\ label # "publish" => UNCHANGED ledger
  BY DEF ClaimHour, GoTo, Inv, Typed, NoHour
<1>3. \A q \in Process : /\ pc'[q] = IF q = p THEN label ELSE pc[q]
                         /\ asked'[q] = IF q = p THEN committed ELSE asked[q]
  BY <1>1, <1>2 DEF Inv, Typed
<1>4. ledger' \in [Boundary -> LedgerRow] /\ Published' = Published
  <2>1. CASE label = "publish"
    BY <1>1, <1>2, <2>1, ClaimTakes DEF Inv
  <2>2. CASE label # "publish"
    BY <1>2, <2>2 DEF Inv, Typed, Published
  <2> QED BY <2>1, <2>2
<1>5. Outside(p, label)
  BY <1>1, <1>2 DEF Outside, Inv, Typed, Label, Stopped, Running, UnderLock, Publishing, NoHour, NoSnapshot
<1>6. OutputKept' /\ SnapshotKept'
  BY <1>5, OutsideKeeps
<1>7. Typed'
  BY <1>1, <1>4, <1>5 DEF Inv, Typed, Outside, fileVars
<1>8. Places'
  BY <1>1, <1>3, ProcessesAssumption DEF Inv, Places, Publishing
<1>9. UnderProcessLock'
  BY <1>1, <1>2, <1>3, ProcessesAssumption DEF Inv, UnderProcessLock, UnderLock
<1>10. EvidenceFirst'
  BY <1>1, <1>2, <1>3, <1>4, ProcessesAssumption DEF Inv, EvidenceFirst, Built, Publishing
<1> QED BY <1>6, <1>7, <1>8, <1>9, <1>10 DEF Inv

LEMMA PublishHourInv ==
  ASSUME Inv, NEW p \in Process, PublishHour(p)
  PROVE  Inv'
<1>1. /\ pc[p] = "publish" /\ pc' = [pc EXCEPT ![p] = "lock_output"]
      /\ Publish(asked[p], p)
      /\ UNCHANGED <<committed, fileVars, target, asked, built, old>>
      /\ p \in Run /\ asked[p] \in Boundary
  BY DEF PublishHour, GoTo, commandVars, Inv, Places, UnderProcessLock
<1>2. \A q \in Process : pc'[q] = IF q = p THEN "lock_output" ELSE pc[q]
  BY <1>1 DEF Inv, Typed
<1>3. ledger' \in [Boundary -> LedgerRow] /\ Published' = Published \cup {asked[p]}
  BY <1>1, PublishAdds DEF Inv
<1>4. Outside(p, "lock_output")
  BY <1>1 DEF Outside, Inv, Typed, Label, Running, Publishing
<1>5. OutputKept' /\ SnapshotKept'
  BY <1>4, OutsideKeeps
<1>6. Typed'
  BY <1>1, <1>3, <1>4 DEF Inv, Typed, Outside, fileVars
<1>7. Places'
  BY <1>1, <1>2, ProcessesAssumption DEF Inv, Places, Publishing
<1>8. UnderProcessLock'
  BY <1>1, <1>2, ProcessesAssumption DEF Inv, UnderProcessLock, UnderLock
<1>9. EvidenceFirst'
  BY <1>1, <1>2, <1>3, ProcessesAssumption DEF Inv, EvidenceFirst, Built, Publishing
<1> QED BY <1>5, <1>6, <1>7, <1>8, <1>9 DEF Inv

LEMMA StartCasebookInv ==
  ASSUME Inv, NEW p \in Process, StartCasebook(p)
  PROVE  Inv'
<1>1. /\ p \in Operator /\ p \notin Run /\ p \notin Ingest
      /\ pc[p] = "idle" /\ pc' = [pc EXCEPT ![p] = "lock_output"]
      /\ UNCHANGED <<ledger, committed, fileVars, built, old>>
  BY ProcessesAssumption DEF StartCasebook, GoTo
<1>2. PICK o \in Output, b \in Boundary \cup {NoSnapshot} :
        target' = [target EXCEPT ![p] = o] /\ asked' = [asked EXCEPT ![p] = b]
  BY DEF StartCasebook
<1>3. \A q \in Process : /\ pc'[q] = IF q = p THEN "lock_output" ELSE pc[q]
                         /\ q # p => target'[q] = target[q] /\ asked'[q] = asked[q]
  BY <1>1, <1>2 DEF Inv, Typed
<1>4. Outside(p, "lock_output")
  BY <1>1, <1>2 DEF Outside, Inv, Typed, Label, Running, Publishing
<1>5. OutputKept' /\ SnapshotKept'
  BY <1>4, OutsideKeeps
<1>6. Typed'
  BY <1>1, <1>4 DEF Inv, Typed, Outside, fileVars
<1>7. Places'
  BY <1>1, <1>3 DEF Inv, Places, Publishing
<1>8. UnderProcessLock'
  BY <1>1, <1>3, ProcessesAssumption DEF Inv, UnderProcessLock, UnderLock
<1>9. EvidenceFirst'
  BY <1>1, <1>3, ProcessesAssumption DEF Inv, EvidenceFirst, Published, Built, Publishing
<1> QED BY <1>5, <1>6, <1>7, <1>8, <1>9 DEF Inv

--------------------------------------------------------------------------------
(* Publishing a casebook *)

\* A step of a publication: it writes to its own output, and whatever may now be
\* there keeps what was reported; it is done only when that is its casebook.
Writes(p, label) ==
  /\ p \in Process
  /\ pc[p] \in Publishing /\ pc' = [pc EXCEPT ![p] = label]
  /\ label \in Publishing \cup {"done", "failed"}
  /\ UNCHANGED <<ledger, committed, target, asked>>
  /\ \A q \in Process : q # p => built'[q] = built[q] /\ old'[q] = old[q]
  /\ \A o \in Output : o # target[p] =>
       output'[o] = output[o] /\ outputOnDisk'[o] = outputOnDisk[o]
  /\ \A content \in outputOnDisk'[target[p]] :
       /\ Keeps(content, target[p])
       /\ label = "done" => content = built'[p]
  /\ label \in Built => Keeps(built'[p], target[p])
  /\ label \in {"replace", "sync", "recover"} => Keeps(old'[p], target[p])
  /\ label = "sync" => output'[target[p]] = built'[p]
  /\ label \in OutputSynced => outputOnDisk'[target[p]] = {built'[p]}

LEMMA WriteKeeps ==
  ASSUME Inv, NEW p, NEW label, Writes(p, label), built'[p] \in Casebook
  PROVE  OutputKept'
<1>1. /\ p \in Process /\ target' = target /\ target[p] \in Output
      /\ \A q \in Process : pc'[q] = IF q = p THEN label ELSE pc[q]
  BY DEF Writes, Inv, Typed
<1>2. \A q \in Process : pc'[q] \in Publishing /\ q # p =>
        pc[q] = pc'[q] /\ target[q] # target[p]
  BY <1>1 DEF Writes, Inv, OutputKept
<1>3. pc[p] # "done"
  BY DEF Writes, Publishing
<1>4. built'[p] # NoFile
  BY CasebookIsFile
<1>5. ASSUME NEW content, NEW o, Keeps(content, o),
             label = "done" /\ target[p] = o => content # NoFile /\ built'[p] \subseteq content
      PROVE  Keeps(content, o)'
  BY <1>1, <1>3, <1>5 DEF Keeps, Writes
<1>6. ASSUME NEW q \in Process, NEW r \in Process,
             pc'[q] \in Publishing, pc'[r] \in Publishing, target[q] = target[r]
      PROVE  q = r
  BY <1>1, <1>2, <1>6 DEF Inv, OutputKept
<1>7. ASSUME NEW o \in Output, NEW content \in outputOnDisk'[o]
      PROVE  Keeps(content, o)'
  <2>1. CASE o = target[p]
    BY <1>4, <1>5, <1>7, <2>1 DEF Writes
  <2>2. CASE o # target[p]
    BY <1>5, <1>7, <2>2 DEF Writes, Inv, OutputKept
  <2> QED BY <2>1, <2>2
<1>8. ASSUME NEW q \in Process
      PROVE  /\ pc'[q] \in Built => Keeps(built[q], target[q])'
             /\ pc'[q] \in {"replace", "sync", "recover"} => Keeps(old[q], target[q])'
             /\ pc'[q] = "sync" => output'[target'[q]] = built'[q]
             /\ pc'[q] \in OutputSynced => outputOnDisk'[target'[q]] = {built'[q]}
  <2>1. CASE q = p
    <3>1. label \in Publishing => label # "done"
      BY DEF Publishing
    <3>2. ASSUME NEW content, Keeps(content, target[p]), label \in Publishing
          PROVE  Keeps(content, target[p])'
      BY <1>1, <1>3, <3>1, <3>2 DEF Keeps, Writes
    <3> QED BY <1>1, <2>1, <3>2 DEF Writes, Keeps, Built, Publishing
  <2>2. CASE q # p /\ pc'[q] \in Publishing
    <3>1. pc[q] = pc'[q] /\ target[q] # target[p] /\ target[q] \in Output
      BY <1>2, <2>2 DEF Inv, Typed
    <3>2. built'[q] = built[q] /\ old'[q] = old[q]
          /\ output'[target[q]] = output[target[q]]
          /\ outputOnDisk'[target[q]] = outputOnDisk[target[q]]
      BY <2>2, <3>1 DEF Writes
    <3>3. \A r \in Process \ Ingest : pc'[r] = "done" /\ target'[r] = target'[q] =>
            pc[r] = "done" /\ target[r] = target[q] /\ built'[r] = built[r]
      BY <1>1, <3>1 DEF Writes
    <3>4. (pc[q] \in Built => Keeps(built[q], target[q]))
          /\ (pc[q] \in {"replace", "sync", "recover"} => Keeps(old[q], target[q]))
      BY DEF Inv, OutputKept
    <3>5. (pc[q] \in Built => Keeps(built[q], target[q])')
          /\ (pc[q] \in {"replace", "sync", "recover"} => Keeps(old[q], target[q])')
      BY <3>2, <3>3, <3>4 DEF Keeps
    <3> QED BY <1>1, <3>1, <3>2, <3>5 DEF Inv, OutputKept
  <2> QED BY <2>1, <2>2 DEF Built, OutputSynced, Publishing
<1> QED BY <1>1, <1>6, <1>7, <1>8 DEF OutputKept

\* The rest of the invariant in a publication that builds nothing new.
LEMMA WriteInv ==
  ASSUME Inv, NEW p, NEW label, Writes(p, label), UNCHANGED <<built, old>>,
         output' \in [Output -> File], outputOnDisk' \in [Output -> SUBSET File],
         \A o \in Output : output'[o] \in outputOnDisk'[o],
         snapshots' \in [Boundary -> File], snapshotsOnDisk' \in [Boundary -> SUBSET File],
         label \in Built => pc[p] \in Built,
         label = "done" => pc[p] \in Built,
         SnapshotKept'
  PROVE  Inv'
<1>1. p \in Process /\ \A q \in Process : pc'[q] = IF q = p THEN label ELSE pc[q]
  BY DEF Writes, Inv, Typed
<1>2. built'[p] \in Casebook /\ label \in Label
  BY <1>1 DEF Inv, Typed, Writes, Label, Running, Stopped
<1>3. Typed'
  BY <1>2 DEF Inv, Typed, Writes
<1>4. Places'
  BY <1>1 DEF Inv, Places, Writes, Publishing
<1>5. UnderProcessLock'
  BY <1>1, ProcessesAssumption DEF Inv, UnderProcessLock, UnderLock, Writes, Publishing
<1>6. EvidenceFirst'
  BY <1>1, ProcessesAssumption DEF Inv, EvidenceFirst, Writes, Published, Built
<1>7. OutputKept'
  BY <1>2, WriteKeeps
<1> QED BY <1>3, <1>4, <1>5, <1>6, <1>7 DEF Inv

LEMMA BuildInv ==
  ASSUME Inv, NEW p \in Process, Build(p), UNCHANGED <<ledger, committed>>
  PROVE  Inv'
<1>1. /\ pc[p] = "build" /\ pc' = [pc EXCEPT ![p] = "replace"]
      /\ built' = [built EXCEPT ![p] = Published]
      /\ old' = [old EXCEPT ![p] = output[target[p]]]
      /\ UNCHANGED <<ledger, committed, target, asked>>
      /\ UNCHANGED <<output, outputOnDisk, snapshots, snapshotsOnDisk>>
  BY DEF Build, GoTo, fileVars
<1>2. /\ Published \in Casebook /\ Published' = Published
      /\ target[p] \in Output /\ output[target[p]] \in outputOnDisk[target[p]]
      /\ \A q \in Process : pc'[q] = IF q = p THEN "replace" ELSE pc[q]
      /\ \A q \in Process : built'[q] = IF q = p THEN Published ELSE built[q]
      /\ \A q \in Process : old'[q] = IF q = p THEN output[target[p]] ELSE old[q]
  BY <1>1 DEF Inv, Typed, Published, Casebook
<1>3. Keeps(Published, target[p])
  BY <1>2, CasebookIsFile DEF Inv, EvidenceFirst, Keeps
<1>4. Writes(p, "replace")
  BY <1>1, <1>2, <1>3 DEF Writes, Inv, OutputKept, Publishing, OutputSynced
<1>5. OutputKept'
  BY <1>2, <1>4, WriteKeeps
<1>6. Typed'
  <2>1. output[target[p]] \in File
    BY <1>2 DEF Inv, Typed
  <2> QED BY <1>1, <1>2, <2>1 DEF Inv, Typed, Label, Running, Publishing
<1>7. Places'
  BY <1>1, <1>2 DEF Inv, Places, Publishing
<1>8. UnderProcessLock'
  BY <1>1, <1>2, ProcessesAssumption DEF Inv, UnderProcessLock, UnderLock
<1>9. EvidenceFirst'
  BY <1>1, <1>2, ProcessesAssumption DEF Inv, EvidenceFirst, Built, Publishing
<1>10. SnapshotKept'
  BY <1>1, <1>2 DEF Inv, SnapshotKept
<1> QED BY <1>5, <1>6, <1>7, <1>8, <1>9, <1>10 DEF Inv

LEMMA ReplaceInv ==
  ASSUME Inv, NEW p \in Process, Replace(p), UNCHANGED <<ledger, committed>>
  PROVE  Inv'
<1>1. /\ pc[p] = "replace" /\ pc' = [pc EXCEPT ![p] = "sync"]
      /\ output' = [output EXCEPT ![target[p]] = built[p]]
      /\ outputOnDisk' = [outputOnDisk EXCEPT ![target[p]] = @ \cup {built[p]}]
      /\ UNCHANGED <<ledger, committed, target, asked, built, old, snapshots, snapshotsOnDisk>>
  BY DEF Replace, PutOutput, GoTo, commandVars
<1>2. target[p] \in Output /\ built[p] \in File
  BY DEF Inv, Typed, File
<1>3. /\ \A o \in Output : output'[o] = IF o = target[p] THEN built[p] ELSE output[o]
      /\ \A o \in Output : outputOnDisk'[o] = IF o = target[p] THEN outputOnDisk[o] \cup {built[p]}
                                               ELSE outputOnDisk[o]
      /\ output' \in [Output -> File] /\ outputOnDisk' \in [Output -> SUBSET File]
  BY <1>1, <1>2 DEF Inv, Typed
<1>4. Writes(p, "sync")
  BY <1>1, <1>2, <1>3 DEF Writes, Inv, OutputKept, Publishing, Built, OutputSynced
<1>5. SnapshotKept'
  <2>1. \A q \in Process : pc'[q] = IF q = p THEN "sync" ELSE pc[q]
    BY <1>1 DEF Inv, Typed
  <2> QED BY <1>1, <2>1 DEF Inv, SnapshotKept
<1>6. \A o \in Output : output'[o] \in outputOnDisk'[o]
  BY <1>3 DEF Inv, Typed
<1>7. snapshots' \in [Boundary -> File] /\ snapshotsOnDisk' \in [Boundary -> SUBSET File]
  BY <1>1 DEF Inv, Typed
<1> QED BY <1>1, <1>3, <1>4, <1>5, <1>6, <1>7, WriteInv DEF Built, Publishing

LEMMA RecoverInv ==
  ASSUME Inv, NEW p \in Process, Recover(p), UNCHANGED <<ledger, committed>>
  PROVE  Inv'
<1>1. /\ pc[p] = "recover" /\ pc' = [pc EXCEPT ![p] = "sync_recovery"]
      /\ output' = [output EXCEPT ![target[p]] = old[p]]
      /\ outputOnDisk' = [outputOnDisk EXCEPT ![target[p]] = @ \cup {old[p]}]
      /\ UNCHANGED <<ledger, committed, target, asked, built, old, snapshots, snapshotsOnDisk>>
  BY DEF Recover, PutOutput, GoTo, commandVars
<1>2. target[p] \in Output /\ old[p] \in File
  BY DEF Inv, Typed
<1>3. /\ \A o \in Output : output'[o] = IF o = target[p] THEN old[p] ELSE output[o]
      /\ \A o \in Output : outputOnDisk'[o] = IF o = target[p] THEN outputOnDisk[o] \cup {old[p]}
                                               ELSE outputOnDisk[o]
      /\ output' \in [Output -> File] /\ outputOnDisk' \in [Output -> SUBSET File]
  BY <1>1, <1>2 DEF Inv, Typed
<1>4. Writes(p, "sync_recovery")
  BY <1>1, <1>2, <1>3 DEF Writes, Inv, OutputKept, Publishing, Built, OutputSynced
<1>5. SnapshotKept'
  <2>1. \A q \in Process : pc'[q] = IF q = p THEN "sync_recovery" ELSE pc[q]
    BY <1>1 DEF Inv, Typed
  <2> QED BY <1>1, <2>1 DEF Inv, SnapshotKept
<1>6. \A o \in Output : output'[o] \in outputOnDisk'[o]
  BY <1>3 DEF Inv, Typed
<1>7. snapshots' \in [Boundary -> File] /\ snapshotsOnDisk' \in [Boundary -> SUBSET File]
  BY <1>1 DEF Inv, Typed
<1> QED BY <1>1, <1>3, <1>4, <1>5, <1>6, <1>7, WriteInv DEF Built, Publishing

\* After a sync only what is at the output can be found there.
LEMMA SyncsInv ==
  ASSUME Inv, NEW p \in Process, SyncOutput(p) \/ SyncRecovery(p), UNCHANGED <<ledger, committed>>
  PROVE  Inv'
<1>1. PICK label \in {"reread", "failed"} :
        /\ pc[p] = IF label = "reread" THEN "sync" ELSE "sync_recovery"
        /\ pc' = [pc EXCEPT ![p] = label]
        /\ outputOnDisk' = [outputOnDisk EXCEPT ![target[p]] = {output[target[p]]}]
        /\ UNCHANGED <<ledger, committed, target, asked, built, old, output>>
        /\ UNCHANGED <<snapshots, snapshotsOnDisk>>
  BY DEF SyncOutput, SyncRecovery, SyncedOutput, GoTo, commandVars
<1>2. target[p] \in Output /\ output[target[p]] \in File
      /\ output[target[p]] \in outputOnDisk[target[p]]
  BY DEF Inv, Typed
<1>3. /\ \A o \in Output : outputOnDisk'[o] = IF o = target[p] THEN {output[o]} ELSE outputOnDisk[o]
      /\ outputOnDisk' \in [Output -> SUBSET File]
  BY <1>1, <1>2 DEF Inv, Typed
<1>4. label = "reread" => output[target[p]] = built[p]
  BY <1>1 DEF Inv, OutputKept
<1>5. Writes(p, label)
  BY <1>1, <1>2, <1>3, <1>4 DEF Writes, Inv, OutputKept, Publishing, Built, OutputSynced
<1>6. SnapshotKept'
  <2>1. \A q \in Process : pc'[q] = IF q = p THEN label ELSE pc[q]
    BY <1>1 DEF Inv, Typed
  <2> QED BY <1>1, <2>1 DEF Inv, SnapshotKept
<1>7. \A o \in Output : output'[o] \in outputOnDisk'[o]
  BY <1>1, <1>3 DEF Inv, Typed
<1>8. /\ snapshots' \in [Boundary -> File] /\ snapshotsOnDisk' \in [Boundary -> SUBSET File]
      /\ output' \in [Output -> File]
  BY <1>1 DEF Inv, Typed
<1> QED BY <1>1, <1>3, <1>5, <1>6, <1>7, <1>8, WriteInv DEF Built, Publishing

LEMMA RenameSnapshotInv ==
  ASSUME Inv, NEW p \in Process, RenameSnapshot(p), UNCHANGED <<ledger, committed>>
  PROVE  Inv'
<1>1. PICK label \in {"sync_snapshot", "failed"} :
        /\ pc[p] = "rename_snapshot" /\ pc' = [pc EXCEPT ![p] = label]
        /\ UNCHANGED <<ledger, committed, target, asked, built, old, output, outputOnDisk>>
        /\ label = "sync_snapshot" => 
             /\ snapshots[asked[p]] = NoFile
             /\ snapshots' = [snapshots EXCEPT ![asked[p]] = built[p]]
             /\ snapshotsOnDisk' = [snapshotsOnDisk EXCEPT ![asked[p]] = @ \cup {built[p]}]
        /\ label = "failed" => UNCHANGED <<snapshots, snapshotsOnDisk>>
  BY DEF RenameSnapshot, GoTo, commandVars
<1>2. asked[p] \in Boundary /\ built[p] \in File /\ target[p] \in Output
  BY <1>1 DEF Inv, SnapshotKept, Typed, File
<1>3. outputOnDisk[target[p]] = {built[p]} /\ Keeps(built[p], target[p])
  BY <1>1 DEF Inv, OutputKept, OutputSynced, Built, Publishing
<1>4. Writes(p, label)
  BY <1>1, <1>3 DEF Writes, Publishing
<1>5. /\ snapshots' \in [Boundary -> File] /\ snapshotsOnDisk' \in [Boundary -> SUBSET File]
      /\ \A b \in Boundary : snapshots'[b] \in snapshotsOnDisk'[b]
                            /\ snapshotsOnDisk'[b] \subseteq {snapshots'[b], NoFile}
  <2>1. CASE label = "sync_snapshot"
    <3>1. /\ \A b \in Boundary :
                snapshots'[b] = IF b = asked[p] THEN built[p] ELSE snapshots[b]
          /\ \A b \in Boundary : snapshotsOnDisk'[b] =
                IF b = asked[p] THEN snapshotsOnDisk[b] \cup {built[p]} ELSE snapshotsOnDisk[b]
          /\ snapshots' \in [Boundary -> File] /\ snapshotsOnDisk' \in [Boundary -> SUBSET File]
      BY <1>1, <1>2, <2>1 DEF Inv, Typed
    <3> QED BY <1>1, <1>2, <2>1, <3>1 DEF Inv, SnapshotKept
  <2>2. CASE label = "failed"
    BY <1>1, <2>2 DEF Inv, Typed, SnapshotKept
  <2> QED BY <2>1, <2>2
<1>6. SnapshotKept'
  <2>1. \A q \in Process : pc'[q] \in {"check_snapshot", "rename_snapshot"} => pc[q] = pc'[q]
    BY <1>1 DEF Inv, Typed
  <2> QED BY <1>1, <1>5, <2>1 DEF Inv, SnapshotKept
<1>7. /\ output' \in [Output -> File] /\ outputOnDisk' \in [Output -> SUBSET File]
      /\ \A o \in Output : output'[o] \in outputOnDisk'[o]
  BY <1>1 DEF Inv, Typed
<1> QED BY <1>1, <1>4, <1>5, <1>6, <1>7, WriteInv DEF Built, Publishing

LEMMA SyncSnapshotInv ==
  ASSUME Inv, NEW p \in Process, SyncSnapshot(p), UNCHANGED <<ledger, committed>>
  PROVE  Inv'
<1>1. /\ pc[p] = "sync_snapshot" /\ pc' = [pc EXCEPT ![p] = "done"]
      /\ snapshotsOnDisk' = [b \in Boundary |-> {snapshots[b]}]
      /\ UNCHANGED <<ledger, committed, target, asked, built, old>>
      /\ UNCHANGED <<output, outputOnDisk, snapshots>>
  BY DEF SyncSnapshot, GoTo, commandVars
<1>2. outputOnDisk[target[p]] = {built[p]} /\ Keeps(built[p], target[p])
  BY <1>1 DEF Inv, OutputKept, OutputSynced, Built, Publishing
<1>3. Writes(p, "done")
  BY <1>1, <1>2 DEF Writes, Publishing, Built, OutputSynced
<1>4. /\ snapshots' \in [Boundary -> File] /\ snapshotsOnDisk' \in [Boundary -> SUBSET File]
      /\ output' \in [Output -> File] /\ outputOnDisk' \in [Output -> SUBSET File]
      /\ \A o \in Output : output'[o] \in outputOnDisk'[o]
  BY <1>1 DEF Inv, Typed
<1>5. SnapshotKept'
  <2>1. \A q \in Process : pc'[q] \in {"check_snapshot", "rename_snapshot"} => pc[q] = pc'[q]
    BY <1>1 DEF Inv, Typed
  <2> QED BY <1>1, <2>1 DEF Inv, SnapshotKept
<1> QED BY <1>1, <1>3, <1>4, <1>5, WriteInv DEF Built, Publishing

LEMMA PublishStepInv ==
  ASSUME Inv, NEW p \in Process, PublishStep(p), UNCHANGED <<ledger, committed>>
  PROVE  Inv'
<1>1. \/ LockOutput(p) \/ Build(p) \/ Replace(p) \/ SyncOutput(p) \/ Reread(p)
      \/ Recover(p) \/ SyncRecovery(p) \/ CheckSnapshot(p) \/ RenameSnapshot(p) \/ SyncSnapshot(p)
  BY DEF PublishStep
<1> QED BY <1>1, LockOutputInv, BuildInv, ReplaceInv, SyncsInv, RereadInv, RecoverInv,
           CheckSnapshotInv, RenameSnapshotInv, SyncSnapshotInv

\* A power loss leaves at every name something that may be there, and nobody
\* under a lock.
LEMMA PowerLossInv ==
  ASSUME Inv, PowerLoss
  PROVE  Inv'
<1>1. /\ pc' = [p \in Process |-> IF pc[p] \in Running THEN "crashed" ELSE pc[p]]
      /\ UNCHANGED <<ledger, committed, target, asked, built, old>>
  BY DEF PowerLoss, commandVars
<1>2. PICK found \in [Output -> File] :
        /\ \A o \in Output : found[o] \in outputOnDisk[o]
        /\ output' = found
        /\ outputOnDisk' = [o \in Output |-> {found[o]}]
  BY DEF PowerLoss, LoseUnsynced, File
<1>3. PICK kept \in [Boundary -> File] :
        /\ \A b \in Boundary : kept[b] \in snapshotsOnDisk[b]
        /\ snapshots' = kept
        /\ snapshotsOnDisk' = [b \in Boundary |-> {kept[b]}]
  BY DEF PowerLoss, LoseUnsynced, File
<1>4. \A p \in Process :
        pc'[p] \in Label /\ pc'[p] \notin Running /\ (pc'[p] = "done" => pc[p] = "done")
  BY <1>1 DEF Inv, Typed, Label, Running, UnderLock, Publishing, Stopped
<1>5. Typed'
  BY <1>1, <1>2, <1>3, <1>4 DEF Inv, Typed
<1>6. Places' /\ UnderProcessLock'
  BY <1>4, ProcessesAssumption DEF Inv, Places, UnderProcessLock, Running, UnderLock
<1>7. EvidenceFirst'
  BY <1>1, <1>4, ProcessesAssumption DEF Inv, EvidenceFirst, Published, Running, Built
<1>8. \A content, o : Keeps(content, o) => Keeps(content, o)'
  BY <1>1, <1>4, KeepsStays
<1>9. \A o \in Output : \A content \in outputOnDisk'[o] : Keeps(content, o)'
  BY <1>2, <1>8 DEF Inv, OutputKept
<1>10. \A p \in Process : pc'[p] \notin Publishing
  BY <1>4 DEF Running
<1>11. OutputKept'
  BY <1>9, <1>10 DEF OutputKept, Built, OutputSynced, Publishing
<1>12. SnapshotKept'
  BY <1>1, <1>3, <1>10 DEF Inv, SnapshotKept, Publishing
<1> QED BY <1>5, <1>6, <1>7, <1>11, <1>12 DEF Inv

LEMMA NextInv ==
  ASSUME Inv, [Next]_vars
  PROVE  Inv'
<1>1. ASSUME NEW p \in Process,
             Start(p) \/ StartCasebook(p) \/ Work(p) \/ Raises(p) \/ Crash(p)
      PROVE  Inv'
  <2>1. CASE Work(p)
    <3>1. \/ TryLock(p) \/ FinishIngestion(p) \/ ClaimHour(p) \/ PublishHour(p)
          \/ PublishStep(p) /\ UNCHANGED <<ledger, committed>>
      BY <2>1 DEF Work
    <3> QED BY <3>1, TryLockInv, FinishIngestionInv, ClaimHourInv, PublishHourInv, PublishStepInv
  <2>2. CASE Raises(p)
    <3>1. CommandFails(p) \/ (PublicationRaises(p) /\ UNCHANGED <<ledger, committed>>)
      BY <2>2 DEF Raises
    <3> QED BY <3>1, StopInv, PublicationRaisesInv
  <2> QED BY <1>1, <2>1, <2>2, StartInv, StartCasebookInv, StopInv
<1>2. CASE PowerLoss
  BY <1>2, PowerLossInv
<1>3. CASE UNCHANGED vars
  <2>1. UNCHANGED <<ledger, committed, pc, target, asked, built, old>>
        /\ UNCHANGED <<output, outputOnDisk, snapshots, snapshotsOnDisk>>
    BY <1>3 DEF vars, fileVars, commandVars
  <2>2. Typed' /\ Places' /\ UnderProcessLock' /\ EvidenceFirst' /\ SnapshotKept'
    BY <2>1 DEF Inv, Typed, Places, UnderProcessLock, EvidenceFirst, SnapshotKept, Published
  <2>3. OutputKept'
    BY <2>1 DEF Inv, OutputKept, Keeps
  <2> QED BY <2>2, <2>3 DEF Inv
<1> QED BY <1>1, <1>2, <1>3 DEF Next, Exhausted

LEMMA SpecInv == Spec => []Inv
<1>1. Inv /\ [Next]_vars => Inv'
  BY NextInv
<1> QED BY InitInv, <1>1, PTL DEF Spec

--------------------------------------------------------------------------------
(* What readers and operators rely on *)

\* What a command reported as published is in the casebook for good: later
\* publications by anybody, their failures and crashes, and a power loss leave a
\* casebook with at least this evidence (publish_casebook).
THEOREM ReportedSurvives == Spec => []ReportedCasebookSurvives
<1>1. Inv => ReportedCasebookSurvives
  <2> SUFFICES ASSUME Inv, NEW p \in Process \ Ingest, pc[p] = "done",
                      NEW content \in outputOnDisk[target[p]]
               PROVE  content # NoFile /\ built[p] \subseteq content
    BY DEF ReportedCasebookSurvives
  <2>1. Keeps(content, target[p])
    BY DEF Inv, OutputKept, Typed
  <2> QED BY <2>1 DEF Keeps
<1> QED BY SpecInv, <1>1, PTL

\* A wrapper that ends well has published a casebook with the evidence of the
\* hour its analysis answered (scheduled-analysis.sh).
THEOREM ReceiptIsInCasebook == Spec => []ReceiptInCasebook
<1>1. Inv => ReceiptInCasebook
  BY DEF Inv, EvidenceFirst, ReceiptInCasebook
<1> QED BY SpecInv, <1>1, PTL

\* No ingestion commits between an analysis' choice of its hour and the evidence
\* of that hour (ProcessLock).
THEOREM NoIngestionMeanwhile == Spec => []AnalysisSeesNoIngestion
<1>1. Inv => AnalysisSeesNoIngestion
  BY DEF Inv, UnderProcessLock, AnalysisSeesNoIngestion
<1> QED BY SpecInv, <1>1, PTL

\* No step changes what a snapshot holds; a power loss may take one whose
\* directory was never synced, and no other (_publish_snapshot).
THEOREM SnapshotsStay == Spec => SnapshotsAreImmutable
<1> DEFINE Same ==
      \A b \in Boundary :
        /\ snapshots[b] # NoFile => snapshots'[b] \in {snapshots[b], NoFile}
        /\ NoFile \notin snapshotsOnDisk[b] => snapshots'[b] = snapshots[b]
<1>1. ASSUME UNCHANGED snapshots PROVE Same
  BY <1>1
<1>2. ASSUME Inv, NEW p \in Process, RenameSnapshot(p) PROVE Same
  <2>1. asked[p] \in Boundary /\ snapshots[asked[p]] \in snapshotsOnDisk[asked[p]]
    BY <1>2 DEF RenameSnapshot, Inv, SnapshotKept
  <2>2. \/ UNCHANGED snapshots
        \/ snapshots[asked[p]] = NoFile /\ snapshots' = [snapshots EXCEPT ![asked[p]] = built[p]]
    BY <1>2 DEF RenameSnapshot
  <2> QED BY <1>2, <2>1, <2>2 DEF Inv, Typed
<1>3. ASSUME Inv, PowerLoss PROVE Same
  <2>1. PICK kept : (\A b \in Boundary : kept[b] \in snapshotsOnDisk[b]) /\ snapshots' = kept
    BY <1>3 DEF PowerLoss, LoseUnsynced
  <2> QED BY <1>3, <2>1 DEF Inv, SnapshotKept
<1>4. ASSUME Inv, Next PROVE Same
  <2>1. ASSUME NEW p \in Process,
               Start(p) \/ StartCasebook(p) \/ Work(p) \/ Raises(p) \/ Crash(p)
        PROVE  UNCHANGED snapshots \/ RenameSnapshot(p)
    <3>1. CASE Start(p) \/ StartCasebook(p) \/ Raises(p) \/ Crash(p)
      BY <3>1 DEF Start, StartCasebook, Raises, CommandFails, PublicationRaises, Crash, fileVars
    <3>2. CASE TryLock(p) \/ FinishIngestion(p) \/ ClaimHour(p) \/ PublishHour(p)
      BY <3>2 DEF TryLock, FinishIngestion, ClaimHour, PublishHour, fileVars
    <3>3. CASE PublishStep(p)
      BY <3>3 DEF PublishStep, LockOutput, Build, Replace, SyncOutput, Reread, Recover,
                  SyncRecovery, CheckSnapshot, SyncSnapshot, fileVars
    <3> QED BY <2>1, <3>1, <3>2, <3>3 DEF Work
  <2>2. CASE PowerLoss
    BY <1>3, <1>4, <2>2
  <2>3. CASE Exhausted
    BY <1>1, <2>3 DEF Exhausted, vars, fileVars
  <2> QED BY <1>1, <1>2, <1>4, <2>1, <2>2, <2>3 DEF Next
<1>5. Inv /\ [Next]_vars => [Same]_vars
  BY <1>4
<1> QED BY SpecInv, <1>5, PTL DEF Spec, SnapshotsAreImmutable
--------------------------------------------------------------------------------
(* Every command comes to an end: what EveryCommandStops needs besides fairness *)

\* How many steps a command has at most before it stops, by the place it is at;
\* a wrapper that finds the process lock held uses up an attempt.
Stage ==
  [try |-> 10, fetch |-> 10, claim |-> 10, publish |-> 9, lock_output |-> 8,
   build |-> 7, replace |-> 6, sync |-> 5, reread |-> 4, recover |-> 4,
   check_snapshot |-> 3, sync_recovery |-> 3, rename_snapshot |-> 2, sync_snapshot |-> 1]
StepsLeft(p) ==
  IF pc[p] \notin Running THEN 0
  ELSE Stage[pc[p]] + (IF pc[p] = "try" THEN MaxAttempts - attempts[p] ELSE 0)

\* No wrapper is at an attempt it does not have.
AttemptsLeft ==
  /\ attempts \in [Process -> Nat]
  /\ \A p \in Process : pc[p] \in {"idle", "try"} => attempts[p] < MaxAttempts

\* Every step of a running command, a failure too, brings it nearer to its end,
\* and no step of another moves it away from there.
CommandsAdvance ==
  [][\A p \in Process : pc[p] \in Running =>
       IF Work(p) \/ Raises(p) \/ Crash(p) THEN StepsLeft(p)' < StepsLeft(p)
                                          ELSE StepsLeft(p)' <= StepsLeft(p)]_vars

\* An analysis has no row before its claim, and then the row is its own until it
\* is published.
OwnClaim ==
  /\ \A b \in Boundary : ledger[b].state = "open" => ledger[b] = Open
  /\ \A w \in Run : /\ pc[w] \in {"idle", "try", "claim"} => \A b \in Boundary : ledger[b].run # w
                    /\ pc[w] = "publish" => ledger[asked[w]] = Taken(w)

\* The conditions of the two steps that look at the ledger, which are the only ones
\* that others could keep from being met: nobody waits for anybody.
Able(p) ==
  /\ pc[p] = "claim" => \/ /\ committed \in Boundary /\ ledger[committed] = Open
                           /\ \A b \in Boundary : ledger[b].run # p
                        \/ committed \in Published
                        \/ \A b \in Boundary : b = committed => ledger[b].state = "claimed"
  /\ pc[p] = "publish" => asked[p] \in Boundary /\ ledger[asked[p]] = Taken(p)
NobodyWaits == \A p \in Process : pc[p] \in Running => Able(p)

Progressing == AttemptsLeft /\ OwnClaim

\* What a step of the work of a command does to its place and its attempts.
LEMMA WorkMoves ==
  ASSUME Inv, Progressing, NEW p \in Process, pc[p] \in Running, Work(p) \/ Raises(p) \/ Crash(p)
  PROVE  /\ \/ attempts' = attempts /\ (pc[p] # "try" => pc'[p] # "try")
            \/ pc[p] = "try" /\ attempts' = [attempts EXCEPT ![p] = @ + 1]
         /\ pc' = [pc EXCEPT ![p] = pc'[p]]
         /\ StepsLeft(p)' < StepsLeft(p)
<1>0. /\ pc \in [Process -> Label] /\ MaxAttempts \in Nat \ {0}
      /\ attempts \in [Process -> Nat] /\ (pc[p] = "try" => attempts[p] < MaxAttempts)
  BY AttemptsAssumption DEF Inv, Typed, Progressing, AttemptsLeft
<1> DEFINE left(label) == IF label \notin Running THEN 0 ELSE Stage[label]
<1>1. StepsLeft(p) >= left(pc[p]) /\ StepsLeft(p) \in Nat
  BY <1>0 DEF StepsLeft, Stage, Running, UnderLock, Publishing
<1>2. ASSUME UNCHANGED attempts, NEW label \in Label \ {"try"}, pc' = [pc EXCEPT ![p] = label],
             left(label) < left(pc[p])
      PROVE  /\ attempts' = attempts /\ pc'[p] # "try" /\ pc' = [pc EXCEPT ![p] = pc'[p]]
             /\ StepsLeft(p)' < StepsLeft(p)
  <2>1. pc'[p] = label
    BY <1>0, <1>2
  <2>2. StepsLeft(p)' = left(label)
    BY <2>1 DEF StepsLeft, Stage, Running, UnderLock, Publishing
  <2>3. left(label) \in Int /\ left(pc[p]) \in Int
    BY <1>0 DEF Stage, Running, UnderLock, Publishing
  <2> HIDE DEF left
  <2>4. StepsLeft(p)' < StepsLeft(p)
    BY ONLY <1>1, <1>2, <2>2, <2>3
  <2>5. pc' = [pc EXCEPT ![p] = pc'[p]] /\ pc'[p] # "try"
    BY <1>2, <2>1
  <2> QED BY <1>2, <2>4, <2>5
<1>3. CASE TryLock(p)
  <2>1. CASE UNCHANGED attempts
    <3>1. pc[p] = "try" /\ \E label \in {"fetch", "claim"} : pc' = [pc EXCEPT ![p] = label]
      BY <1>0, <1>3, <2>1 DEF TryLock, GoTo
    <3>2. StepsLeft(p) > 10 /\ StepsLeft(p)' = 10 /\ pc' = [pc EXCEPT ![p] = pc'[p]]
      BY <1>0, <3>1 DEF StepsLeft, Stage, Running, UnderLock
    <3> QED BY <2>1, <3>1, <3>2
  <2>2. CASE attempts' = [attempts EXCEPT ![p] = @ + 1]
    <3>1. /\ pc[p] = "try"
          /\ pc' = [pc EXCEPT ![p] = IF attempts[p] + 1 = MaxAttempts THEN "failed" ELSE "try"]
      BY <1>0, <1>3, <2>2 DEF TryLock, GoTo
    <3>2. StepsLeft(p) = 10 + (MaxAttempts - attempts[p])
      BY <3>1 DEF StepsLeft, Stage, Running
    <3>3. StepsLeft(p)' \in {0, 10 + (MaxAttempts - (attempts[p] + 1))} /\ pc' = [pc EXCEPT ![p] = pc'[p]]
      BY <1>0, <2>2, <3>1 DEF StepsLeft, Stage, Running, UnderLock, Publishing
    <3> QED BY <1>0, <2>2, <3>1, <3>2, <3>3
  <2> QED BY <1>3, <2>1, <2>2 DEF TryLock
<1>4. CASE FinishIngestion(p) \/ ClaimHour(p) \/ PublishHour(p)
  <2>1. /\ UNCHANGED attempts
        /\ \/ pc[p] = "fetch" /\ pc' = [pc EXCEPT ![p] = "done"]
           \/ /\ pc[p] = "claim"
              /\ \E label \in {"publish", "lock_output", "failed"} : pc' = [pc EXCEPT ![p] = label]
           \/ pc[p] = "publish" /\ pc' = [pc EXCEPT ![p] = "lock_output"]
    BY <1>4 DEF FinishIngestion, ClaimHour, PublishHour, GoTo
  <2>2. \E label \in Label \ {"try"} : pc' = [pc EXCEPT ![p] = label] /\ left(label) < left(pc[p])
    BY <2>1 DEF Stage, Label, Running, UnderLock, Publishing, Stopped
  <2> QED BY <1>2, <2>1, <2>2
<1>5. CASE PublishStep(p) /\ UNCHANGED attempts
  <2>1. \/ /\ pc[p] = "lock_output"
           /\ \E label \in {"build", "failed"} : pc' = [pc EXCEPT ![p] = label]
        \/ pc[p] = "build" /\ pc' = [pc EXCEPT ![p] = "replace"]
        \/ pc[p] = "replace" /\ pc' = [pc EXCEPT ![p] = "sync"]
        \/ pc[p] = "sync" /\ pc' = [pc EXCEPT ![p] = "reread"]
        \/ /\ pc[p] = "reread"
           /\ \E label \in {"failed", "done", "check_snapshot"} : pc' = [pc EXCEPT ![p] = label]
        \/ pc[p] = "recover" /\ pc' = [pc EXCEPT ![p] = "sync_recovery"]
        \/ pc[p] = "sync_recovery" /\ pc' = [pc EXCEPT ![p] = "failed"]
        \/ /\ pc[p] = "check_snapshot"
           /\ \E label \in {"failed", "done", "rename_snapshot"} : pc' = [pc EXCEPT ![p] = label]
        \/ /\ pc[p] = "rename_snapshot"
           /\ \E label \in {"failed", "sync_snapshot"} : pc' = [pc EXCEPT ![p] = label]
        \/ pc[p] = "sync_snapshot" /\ pc' = [pc EXCEPT ![p] = "done"]
    BY <1>5 DEF PublishStep, LockOutput, Build, Replace, SyncOutput, Reread, Recover, SyncRecovery,
       CheckSnapshot, RenameSnapshot, SyncSnapshot, GoTo
  <2>2. \E label \in Label \ {"try"} : pc' = [pc EXCEPT ![p] = label] /\ left(label) < left(pc[p])
    BY <2>1 DEF Stage, Label, Running, UnderLock, Publishing, Stopped
  <2> QED BY <1>2, <1>5, <2>2
<1>6. CASE Raises(p) \/ Crash(p)
  <2>1. /\ UNCHANGED attempts
        /\ \/ \E label \in {"failed", "crashed"} : pc' = [pc EXCEPT ![p] = label]
           \/ pc[p] \in {"replace", "sync"} /\ pc' = [pc EXCEPT ![p] = "recover"]
    BY <1>6 DEF Raises, CommandFails, PublicationRaises, Crash, GoTo
  <2>2. \E label \in Label \ {"try"} : pc' = [pc EXCEPT ![p] = label] /\ left(label) < left(pc[p])
    BY <2>1 DEF Stage, Label, Running, UnderLock, Publishing, Stopped
  <2> QED BY <1>2, <2>1, <2>2
<1> QED BY <1>3, <1>4, <1>5, <1>6 DEF Work

\* A command that is not running has not tried, or has stopped.
LEMMA InitProgressing == Init => Progressing
<1> SUFFICES ASSUME Init PROVE Progressing
  OBVIOUS
<1>1. AttemptsLeft
  BY AttemptsAssumption DEF Init, AttemptsLeft
<1>2. OwnClaim
  <2>1. \A b \in Boundary : ledger[b] = Open /\ ledger[b].run = NoRun
    BY DEF Init, LedgerInit, Open
  <2> QED BY <2>1, ProcessesAssumption DEF Init, OwnClaim
<1> QED BY <1>1, <1>2 DEF Progressing

\* The ledger changes with claims and publications only.
LEMMA ProgressingStep ==
  ASSUME Inv, Progressing, [Next]_vars
  PROVE  Progressing'
<1>0. /\ pc \in [Process -> Label] /\ attempts \in [Process -> Nat] /\ MaxAttempts \in Nat \ {0}
      /\ ledger \in [Boundary -> LedgerRow] /\ asked \in [Process -> Boundary \cup {NoSnapshot}]
  BY AttemptsAssumption DEF Inv, Typed, Progressing, AttemptsLeft
<1>1. ASSUME NEW p \in Process, Work(p) \/ Raises(p) \/ Crash(p)
      PROVE  Progressing'
  <2>1. pc[p] \in Running
    BY <1>1 DEF Work, TryLock, FinishIngestion, ClaimHour, PublishHour, PublishStep, LockOutput, Build,
       Replace, SyncOutput, Reread, Recover, SyncRecovery, CheckSnapshot, RenameSnapshot, SyncSnapshot,
       Raises, CommandFails, PublicationRaises, Crash, Running, UnderLock, Publishing
  <2>2. /\ pc' = [pc EXCEPT ![p] = pc'[p]]
        /\ \/ attempts' = attempts /\ (pc[p] # "try" => pc'[p] # "try")
           \/ pc[p] = "try" /\ attempts' = [attempts EXCEPT ![p] = @ + 1]
    BY <1>1, <2>1, WorkMoves
  <2>3. pc'[p] # "idle"
    BY <1>1, <2>1 DEF Work, TryLock, FinishIngestion, ClaimHour, PublishHour, PublishStep, LockOutput,
       Build, Replace, SyncOutput, Reread, Recover, SyncRecovery, CheckSnapshot, RenameSnapshot,
       SyncSnapshot, Raises, CommandFails, PublicationRaises, Crash, GoTo, Inv, Typed
  <2>4. ASSUME pc[p] = "try", attempts' # attempts, pc'[p] = "try"
        PROVE  attempts[p] + 1 < MaxAttempts
    <3>1. TryLock(p)
      BY <1>1, <2>4 DEF Work, FinishIngestion, ClaimHour, PublishHour, PublishStep, LockOutput, Build,
         Replace, SyncOutput, Reread, Recover, SyncRecovery, CheckSnapshot, RenameSnapshot, SyncSnapshot,
         Raises, CommandFails, PublicationRaises, Crash
    <3>2. attempts[p] + 1 # MaxAttempts
      BY <1>0, <2>4, <3>1 DEF TryLock, GoTo
    <3>3. attempts[p] < MaxAttempts
      BY <2>4 DEF Progressing, AttemptsLeft
    <3> QED BY <1>0, <3>2, <3>3
  <2>5. AttemptsLeft'
    <3>1. attempts' \in [Process -> Nat]
      BY <1>0, <2>2
    <3>2. ASSUME NEW q \in Process, pc'[q] \in {"idle", "try"} PROVE attempts'[q] < MaxAttempts
      <4>1. CASE q # p
        BY <1>0, <2>2, <3>2, <4>1 DEF Progressing, AttemptsLeft
      <4>2. CASE q = p /\ attempts' = attempts
        BY <2>2, <2>3, <3>2, <4>2 DEF Progressing, AttemptsLeft
      <4>3. CASE q = p /\ attempts' # attempts
        BY <1>0, <2>2, <2>3, <2>4, <3>2, <4>3
      <4> QED BY <4>1, <4>2, <4>3
    <3> QED BY <3>1, <3>2 DEF AttemptsLeft
  <2>6. ASSUME UNCHANGED ledger, pc'[p] # "publish",
               p \in Run => (pc'[p] \in {"idle", "try", "claim"} => pc[p] \in {"idle", "try", "claim"}),
               \A q \in Process \ {p} : asked'[q] = asked[q]
        PROVE  OwnClaim'
    BY <1>0, <2>2, <2>6, ProcessesAssumption DEF Progressing, OwnClaim
  <2>7. ASSUME ClaimHour(p) PROVE OwnClaim'
    <3>1. p \in Run /\ pc[p] = "claim" /\ asked' = [asked EXCEPT ![p] = committed]
      BY <2>7 DEF ClaimHour, Inv, Places
    <3>2. CASE committed # NoHour /\ Claim(committed, p) /\ pc'[p] = "publish"
      <4>1. committed \in Boundary
        BY <3>2 DEF Inv, Typed
      <4>2. \A b \in Boundary : ledger'[b] = IF b = committed THEN Taken(p) ELSE ledger[b]
        BY <1>0, <3>2 DEF Claim
      <4>3. Taken(p).state # "open" /\ Taken(p).run = p
        BY DEF Taken
      <4>4. \A w \in Run \ {p} : pc[w] = "publish" => asked[w] # committed
        <5>1. \A w \in Run : ledger[committed] # Taken(w)
          BY <3>2 DEF Claim, Open, Taken
        <5> QED BY <5>1 DEF Progressing, OwnClaim
      <4>5. \A b \in Boundary : ledger'[b].state = "open" => ledger'[b] = Open
        BY <4>2, <4>3 DEF Progressing, OwnClaim
      <4>6. ASSUME NEW w \in Run, pc'[w] \in {"idle", "try", "claim"}, NEW b \in Boundary
            PROVE  ledger'[b].run # w
        <5>1. w # p /\ pc[w] \in {"idle", "try", "claim"}
          BY <1>0, <2>2, <3>2, <4>6, ProcessesAssumption
        <5> QED BY <4>2, <4>3, <5>1, ProcessesAssumption DEF Progressing, OwnClaim
      <4>7. ASSUME NEW w \in Run, pc'[w] = "publish" PROVE ledger'[asked'[w]] = Taken(w)
        <5>1. CASE w = p
          BY <1>0, <3>1, <4>1, <4>2, <5>1
        <5>2. CASE w # p
          <6>1. pc[w] = "publish" /\ asked'[w] = asked[w] /\ w \in Process
            BY <1>0, <2>2, <3>1, <4>7, <5>2, ProcessesAssumption
          <6>2. asked[w] \in Boundary
            BY <6>1 DEF Inv, UnderProcessLock
          <6> QED BY <4>2, <4>4, <5>2, <6>1, <6>2 DEF Progressing, OwnClaim
        <5> QED BY <5>1, <5>2
      <4> QED BY <4>5, <4>6, <4>7 DEF OwnClaim
    <3>3. CASE UNCHANGED ledger /\ pc'[p] \in {"lock_output", "failed"}
      BY <1>0, <2>6, <3>1, <3>3
    <3> QED BY <1>0, <2>7, <3>2, <3>3 DEF ClaimHour, GoTo
  <2>8. ASSUME PublishHour(p) PROVE OwnClaim'
    <3>1. /\ pc[p] = "publish" /\ pc'[p] = "lock_output" /\ asked' = asked
          /\ Publish(asked[p], p) /\ p \in Run
      BY <1>0, <2>8 DEF PublishHour, GoTo, commandVars, Inv, Places
    <3>2. \A b \in Boundary : ledger'[b] = IF b = asked[p] THEN Evidence(p) ELSE ledger[b]
      BY <1>0, <3>1 DEF Publish
    <3>3. Evidence(p).state # "open" /\ Evidence(p).run = p
      BY DEF Evidence
    <3>4. \A w \in Run \ {p} : pc[w] = "publish" => asked[w] # asked[p]
      <4>1. \A w \in Run \ {p} : ledger[asked[p]] # Taken(w)
        BY <3>1 DEF Publish, Taken
      <4> QED BY <4>1 DEF Progressing, OwnClaim
    <3>5. ASSUME NEW w \in Run, pc'[w] \in {"idle", "try", "claim"}, NEW b \in Boundary
          PROVE  ledger'[b].run # w
      <4>1. w # p /\ pc[w] \in {"idle", "try", "claim"}
        BY <1>0, <2>2, <3>1, <3>5, ProcessesAssumption
      <4> QED BY <3>2, <3>3, <4>1 DEF Progressing, OwnClaim
    <3>6. ASSUME NEW w \in Run, pc'[w] = "publish" PROVE ledger'[asked'[w]] = Taken(w)
      <4>1. w # p /\ pc[w] = "publish"
        BY <1>0, <2>2, <3>1, <3>6, ProcessesAssumption
      <4>2. asked[w] \in Boundary
        BY <4>1 DEF Inv, UnderProcessLock
      <4> QED BY <3>1, <3>2, <3>4, <4>1, <4>2 DEF Progressing, OwnClaim
    <3> QED BY <3>2, <3>3, <3>5, <3>6 DEF Progressing, OwnClaim
  <2>9. ASSUME ~ ClaimHour(p), ~ PublishHour(p) PROVE OwnClaim'
    <3>1. UNCHANGED ledger /\ asked' = asked
      BY <1>1, <2>9 DEF Work, TryLock, FinishIngestion, PublishStep, LockOutput, Build, Replace, SyncOutput,
         Reread, Recover, SyncRecovery, CheckSnapshot, RenameSnapshot, SyncSnapshot, Raises, CommandFails,
         PublicationRaises, Crash, commandVars
    <3>2. pc'[p] # "publish" /\ (pc'[p] \in {"try", "claim"} => pc[p] = "try")
      BY <1>0, <1>1, <2>9 DEF Work, TryLock, FinishIngestion, PublishStep, LockOutput, Build, Replace,
         SyncOutput, Reread, Recover, SyncRecovery, CheckSnapshot, RenameSnapshot, SyncSnapshot, Raises,
         CommandFails, PublicationRaises, Crash, GoTo
    <3> QED BY <2>3, <2>6, <3>1, <3>2
  <2> QED BY <2>5, <2>7, <2>8, <2>9 DEF Progressing
<1>2. ASSUME NEW p \in Process, Start(p) \/ StartCasebook(p)
      PROVE  Progressing'
  <2>1. /\ UNCHANGED <<ledger, attempts>> /\ pc[p] = "idle"
        /\ \E label \in {"try", "lock_output"} : pc' = [pc EXCEPT ![p] = label]
        /\ \A w \in Run : asked'[w] = asked[w]
    BY <1>0, <1>2, ProcessesAssumption DEF Start, StartCasebook, GoTo, commandVars
  <2>2. AttemptsLeft'
    BY <1>0, <2>1 DEF Progressing, AttemptsLeft
  <2>3. OwnClaim'
    BY <1>0, <2>1, ProcessesAssumption DEF Progressing, OwnClaim
  <2> QED BY <2>2, <2>3 DEF Progressing
<1>3. CASE PowerLoss
  <2>1. UNCHANGED <<ledger, attempts, asked>> /\ \A p \in Process : pc'[p] \in {pc[p], "crashed"}
    BY <1>3 DEF PowerLoss, commandVars
  <2> QED BY <2>1, ProcessesAssumption DEF Progressing, AttemptsLeft, OwnClaim
<1>4. CASE UNCHANGED vars
  BY <1>4 DEF vars, commandVars, Progressing, AttemptsLeft, OwnClaim
<1> QED BY <1>1, <1>2, <1>3, <1>4 DEF Next, Exhausted

LEMMA SpecProgressing == Spec => [](Inv /\ Progressing)
<1>1. Inv /\ Progressing /\ [Next]_vars => (Inv /\ Progressing)'
  BY NextInv, ProgressingStep
<1> QED BY InitInv, InitProgressing, <1>1, PTL DEF Spec

\* Every step of a command brings it nearer to its end and none of another moves
\* it away from there: a wrapper takes at most ten steps and its attempts,
\* however many others hold the locks it meets.
THEOREM CommandsAreBounded == Spec => CommandsAdvance
<1>1. ASSUME Inv, Progressing, Next, NEW p \in Process, pc[p] \in Running
      PROVE  IF Work(p) \/ Raises(p) \/ Crash(p) THEN StepsLeft(p)' < StepsLeft(p)
                                                ELSE StepsLeft(p)' <= StepsLeft(p)
  <2>0. /\ pc \in [Process -> Label] /\ attempts \in [Process -> Nat] /\ MaxAttempts \in Nat
        /\ attempts[p] < MaxAttempts \/ pc[p] # "try"
    BY <1>1, AttemptsAssumption DEF Inv, Typed, Progressing, AttemptsLeft
  <2>1. StepsLeft(p) \in Nat
    BY <2>0 DEF StepsLeft, Stage, Running, UnderLock, Publishing
  <2>2. CASE Work(p) \/ Raises(p) \/ Crash(p)
    BY <1>1, <2>2, WorkMoves
  <2>3. ASSUME pc'[p] = pc[p], attempts'[p] = attempts[p] PROVE StepsLeft(p)' <= StepsLeft(p)
    <3>1. StepsLeft(p)' = StepsLeft(p)
      BY <2>3 DEF StepsLeft
    <3> QED BY <2>1, <3>1
  <2>4. ASSUME NEW q \in Process \ {p}, Work(q) \/ Raises(q) \/ Crash(q)
        PROVE  StepsLeft(p)' <= StepsLeft(p)
    <3>1. pc[q] \in Running
      BY <2>4 DEF Work, TryLock, FinishIngestion, ClaimHour, PublishHour, PublishStep, LockOutput, Build,
         Replace, SyncOutput, Reread, Recover, SyncRecovery, CheckSnapshot, RenameSnapshot, SyncSnapshot,
         Raises, CommandFails, PublicationRaises, Crash, Running, UnderLock, Publishing
    <3>2. /\ pc' = [pc EXCEPT ![q] = pc'[q]]
          /\ attempts' = attempts \/ attempts' = [attempts EXCEPT ![q] = @ + 1]
      BY <1>1, <2>4, <3>1, WorkMoves
    <3> QED BY <2>0, <2>3, <3>2
  <2>5. ASSUME NEW q \in Process, Start(q) \/ StartCasebook(q) PROVE StepsLeft(p)' <= StepsLeft(p)
    <3>1. q # p
      BY <1>1, <2>5 DEF Start, StartCasebook, Running, UnderLock, Publishing
    <3> QED BY <2>0, <2>3, <2>5, <3>1 DEF Start, StartCasebook, GoTo
  <2>6. ASSUME PowerLoss PROVE StepsLeft(p)' <= StepsLeft(p)
    <3>1. pc'[p] = "crashed"
      BY <1>1, <2>6 DEF PowerLoss
    <3>2. StepsLeft(p)' = 0
      BY <3>1 DEF StepsLeft, Running, UnderLock, Publishing
    <3> QED BY <2>1, <3>2
  <2>7. ASSUME Exhausted PROVE StepsLeft(p)' <= StepsLeft(p)
    BY <1>1, <2>7 DEF Exhausted, Stopped, Running, UnderLock, Publishing
  <2> QED BY <1>1, <2>2, <2>4, <2>5, <2>6, <2>7 DEF Next
<1>2. Inv /\ Progressing /\ [Next]_vars =>
        [\A p \in Process : pc[p] \in Running =>
           IF Work(p) \/ Raises(p) \/ Crash(p) THEN StepsLeft(p)' < StepsLeft(p)
                                              ELSE StepsLeft(p)' <= StepsLeft(p)]_vars
  BY <1>1
<1> QED BY SpecProgressing, <1>2, PTL DEF Spec, CommandsAdvance

\* No command waits: the step it is at is always possible, whatever others have
\* claimed, published or left behind.
THEOREM EveryStepIsPossible == Spec => []NobodyWaits
<1>1. ASSUME Inv, Progressing, NEW p \in Process, pc[p] \in Running
      PROVE  Able(p)
  <2>1. ASSUME pc[p] = "claim"
        PROVE  \/ /\ committed \in Boundary /\ ledger[committed] = Open
                  /\ \A b \in Boundary : ledger[b].run # p
               \/ committed \in Published
               \/ \A b \in Boundary : b = committed => ledger[b].state = "claimed"
    <3>1. p \in Run /\ \A b \in Boundary : ledger[b].run # p
      BY <1>1, <2>1 DEF Inv, Places, Progressing, OwnClaim
    <3>2. CASE committed \in Boundary
      <4>1. ledger[committed].state \in {"open", "claimed", "evidence"}
        BY <1>1, <3>2 DEF Inv, Typed, LedgerRow
      <4> QED BY <1>1, <3>1, <3>2, <4>1 DEF Progressing, OwnClaim, Published
    <3>3. CASE committed \notin Boundary
      BY <3>3
    <3> QED BY <3>2, <3>3
  <2>2. ASSUME pc[p] = "publish" PROVE asked[p] \in Boundary /\ ledger[asked[p]] = Taken(p)
    BY <1>1, <2>2 DEF Inv, Places, UnderProcessLock, Progressing, OwnClaim
  <2> QED BY <2>1, <2>2 DEF Able
<1>2. Inv /\ Progressing => NobodyWaits
  BY <1>1 DEF NobodyWaits
<1> QED BY SpecProgressing, <1>2, PTL
================================================================================
