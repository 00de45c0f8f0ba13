-------------------------- MODULE CasebookReaderProofs --------------------------
(* Theorems about CasebookReader, for every set of published runs, whatever is *)
(* written over the files or copied, and however often.                        *)
EXTENDS CasebookReader, TLAPS

Reading == {"entries", "config", "decision", "legacy", "claim", "check"}

\* Only runs that were published have claims.
ClaimsArePublished == claims \subseteq {ClaimOf(r.manifest, r.day) : r \in V2Run}

\* What has been read agrees with the manifest read before it, and the claim was
\* there when it was looked up.
ReaderFollows ==
  /\ pc \in Reading => run \in Path
  /\ pc \in {"legacy", "claim", "check"} => decision = manifest.files.decision
  /\ pc = "check" => (manifest.schema = "2" => ClaimMatches)

\* What was accepted is where its manifest says it is.
CasesFollow ==
  \A c \in cases :
    /\ c \in [path : Path, manifest : {c.manifest}, decision : {c.manifest.files.decision}]
    /\ c.path = <<c.manifest.cutoff \div DaySize, c.manifest.run>>
    /\ c.manifest.schema = "2" => ClaimOf(c.manifest, c.path[1]) \in claims

\* The directories are accounted for: read, to be read or being read.
Paths == {c.path : c \in cases}
Unread == todo \cup (IF pc \in Reading THEN {run} ELSE {})
Accounted ==
  /\ pc = "idle" => cases = {} /\ excluded = {}
  /\ pc \in Reading => run \notin todo
  /\ pc = "done" => todo = {}
  /\ pc \in {"next", "done"} \cup Reading =>
       /\ Paths \cup excluded \cup Unread = discovered
       /\ Paths \cap excluded = {}
       /\ (Paths \cup excluded) \cap Unread = {}

Inv == ClaimsArePublished /\ ReaderFollows /\ CasesFollow /\ Accounted

--------------------------------------------------------------------------------
LEMMA InitInv == Init => Inv
  BY DEF Init, Inv, ClaimsArePublished, ReaderFollows, CasesFollow, Accounted, Reading

\* Claims are only added.
LEMMA EnvironmentInv ==
  ASSUME Inv, Environment
  PROVE  Inv'
<1>1. UNCHANGED <<pc, discovered, todo, run, manifest, config, decision, cases, excluded>>
  BY DEF Environment, readVars, resultVars
<1>2. claims \subseteq claims' /\ ClaimsArePublished'
  BY DEF Environment, PublishDirectory, PublishClaim, RewriteFile, CopyDirectory, Damage,
     Inv, ClaimsArePublished
<1>3. ReaderFollows' /\ CasesFollow'
  BY <1>1, <1>2 DEF Inv, ReaderFollows, CasesFollow, ClaimMatches
<1>4. Accounted'
  BY <1>1 DEF Inv, Accounted, Paths, Unread
<1> QED BY <1>2, <1>3, <1>4 DEF Inv

LEMMA OpenRunsInv ==
  ASSUME Inv, OpenRuns
  PROVE  Inv'
<1>1. /\ pc = "idle" /\ pc' = "next" /\ todo' = discovered'
      /\ UNCHANGED <<claims, run, manifest, config, decision, cases, excluded>>
  BY DEF OpenRuns, GoTo, diskVars, readVars, resultVars
<1>2. ClaimsArePublished' /\ ReaderFollows' /\ CasesFollow'
  BY <1>1 DEF Inv, ClaimsArePublished, ReaderFollows, CasesFollow, Reading
<1>3. Accounted'
  BY <1>1 DEF Inv, Accounted, Paths, Unread, Reading
<1> QED BY <1>2, <1>3 DEF Inv

LEMMA ReadManifestInv ==
  ASSUME Inv, NEW path \in Path, ReadManifest(path)
  PROVE  Inv'
<1>1. /\ pc = "next" /\ pc' = "entries" /\ path \in todo
      /\ run' = path /\ todo' = todo \ {path}
      /\ UNCHANGED <<claims, discovered, cases, excluded>>
  BY DEF ReadManifest, GoTo, diskVars, resultVars
<1>2. ClaimsArePublished' /\ ReaderFollows' /\ CasesFollow'
  BY <1>1 DEF Inv, ClaimsArePublished, ReaderFollows, CasesFollow, Reading
<1>3. Accounted'
  BY <1>1 DEF Inv, Accounted, Paths, Unread, Reading
<1> QED BY <1>2, <1>3 DEF Inv

\* The checks of one run: each leaves it to the next, or raises.
LEMMA ChecksInv ==
  ASSUME Inv, CheckEntries \/ ReadConfig \/ ReadDecision \/ CheckClaim
  PROVE  Inv'
<1>1. /\ pc \in Reading /\ pc' \in Reading \cup {"raised"}
      /\ UNCHANGED <<claims, discovered, todo, run, manifest, cases, excluded>>
  BY DEF CheckEntries, ReadConfig, ReadDecision, CheckClaim, GoTo, Reading,
     diskVars, readVars, resultVars
<1>2. ReaderFollows'
  <2>1. pc' \in {"legacy", "claim", "check"} => decision' = manifest'.files.decision
    BY <1>1 DEF Inv, ReaderFollows, CheckEntries, ReadConfig, ReadDecision, CheckClaim, GoTo, readVars
  <2>2. pc' = "check" => (manifest.schema = "2" => ClaimMatches)
    BY <1>1 DEF CheckEntries, ReadConfig, ReadDecision, CheckClaim, GoTo
  <2> QED BY <1>1, <2>1, <2>2 DEF Inv, ReaderFollows, ClaimMatches
<1>3. ClaimsArePublished' /\ CasesFollow'
  BY <1>1 DEF Inv, ClaimsArePublished, CasesFollow
<1>4. Accounted'
  BY <1>1 DEF Inv, Accounted, Paths, Unread, Reading
<1> QED BY <1>2, <1>3, <1>4 DEF Inv

LEMMA ExcludeInv ==
  ASSUME Inv, Exclude
  PROVE  Inv'
<1>1. /\ pc = "legacy" /\ pc' = "next" /\ excluded' = excluded \cup {run}
      /\ UNCHANGED <<claims, discovered, todo, run, manifest, config, decision, cases>>
  BY DEF Exclude, GoTo, diskVars, readVars
<1>2. ClaimsArePublished' /\ ReaderFollows' /\ CasesFollow'
  BY <1>1 DEF Inv, ClaimsArePublished, ReaderFollows, CasesFollow, Reading
<1>3. Accounted'
  BY <1>1 DEF Inv, Accounted, Paths, Unread, Reading
<1> QED BY <1>2, <1>3 DEF Inv

LEMMA CheckRunInv ==
  ASSUME Inv, CheckRun
  PROVE  Inv'
<1> DEFINE accepted == [path |-> run, manifest |-> manifest, decision |-> decision]
<1>1. /\ pc = "check"
      /\ UNCHANGED <<claims, discovered, todo, run, manifest, config, decision, excluded>>
  BY DEF CheckRun, diskVars, readVars
<1>2. CASE pc' = "raised" /\ cases' = cases
  BY <1>1, <1>2 DEF Inv, ClaimsArePublished, ReaderFollows, CasesFollow, Accounted, Reading
<1>3. CASE PlaceMatches /\ pc' = "next" /\ cases' = cases \cup {accepted}
  <2>1. run \in Path /\ run = <<run[1], run[2]>>
    BY <1>1 DEF Inv, ReaderFollows, Reading, Path
  <2>2. run = <<manifest.cutoff \div DaySize, manifest.run>>
    BY <1>3, <2>1 DEF PlaceMatches
  <2>3. decision = manifest.files.decision
    BY <1>1 DEF Inv, ReaderFollows
  <2>4. manifest.schema = "2" => ClaimOf(manifest, run[1]) \in claims
    BY <1>1 DEF Inv, ReaderFollows, ClaimMatches
  <2>5. CasesFollow'
    BY <1>1, <1>3, <2>1, <2>2, <2>3, <2>4 DEF Inv, CasesFollow
  <2>6. ClaimsArePublished' /\ ReaderFollows'
    BY <1>1, <1>3 DEF Inv, ClaimsArePublished, ReaderFollows, Reading
  <2>7. Paths' = Paths \cup {run}
    <3>1. accepted.path = run
      OBVIOUS
    <3>2. Paths' = {c.path : c \in cases \cup {accepted}}
      BY <1>3 DEF Paths
    <3> HIDE DEF accepted
    <3> QED BY <3>1, <3>2 DEF Paths
  <2>8. Accounted'
    BY <1>1, <1>3, <2>7 DEF Inv, Accounted, Unread, Reading
  <2> QED BY <2>5, <2>6, <2>8 DEF Inv
<1> QED BY <1>2, <1>3 DEF CheckRun, GoTo

LEMMA FinishInv ==
  ASSUME Inv, Finish
  PROVE  Inv'
<1>1. /\ pc = "next" /\ pc' = "done" /\ todo = {}
      /\ UNCHANGED <<claims, discovered, todo, run, manifest, config, decision, cases, excluded>>
  BY DEF Finish, GoTo, diskVars, readVars, resultVars
<1>2. ClaimsArePublished' /\ ReaderFollows' /\ CasesFollow'
  BY <1>1 DEF Inv, ClaimsArePublished, ReaderFollows, CasesFollow, Reading
<1>3. Accounted'
  BY <1>1 DEF Inv, Accounted, Paths, Unread, Reading
<1> QED BY <1>2, <1>3 DEF Inv

LEMMA NextInv == Inv /\ [Next]_vars => Inv'
<1> SUFFICES ASSUME Inv, [Next]_vars PROVE Inv'
  OBVIOUS
<1>1. CASE Next
  BY <1>1, EnvironmentInv, OpenRunsInv, ReadManifestInv, ChecksInv, ExcludeInv, CheckRunInv,
     FinishInv DEF Next, Reader
<1>2. CASE UNCHANGED vars
  BY <1>2 DEF vars, diskVars, readVars, resultVars, Inv, ClaimsArePublished, ReaderFollows,
     CasesFollow, Accounted, ClaimMatches, Paths, Unread
<1> QED BY <1>1, <1>2

LEMMA SpecInv == Spec => []Inv
  BY InitInv, NextInv, PTL DEF Spec

--------------------------------------------------------------------------------
(* Without damage the directories are those of the runs, and so is what is read *)

Runs == V1Run \cup V2Run

\* Every directory is that of a run.
Intact ==
  /\ dirs = [path \in Path |-> dirs[path]]
  /\ \A path \in Path : dirs[path] # Missing => \E r \in Runs : PathOf(r) = path /\ dirs[path] = FilesOf(r)

\* The directories that are still to be read, and the one being read, are such.
ReadsRuns ==
  /\ \A path \in todo : path \in Path /\ dirs[path] # Missing
  /\ pc \in Reading =>
       \E r \in Runs :
         /\ PathOf(r) = run /\ dirs[run] = FilesOf(r) /\ manifest = r.manifest
         /\ pc \in {"decision", "legacy", "claim", "check"} => config = manifest.files.config
         /\ pc \in {"legacy", "claim", "check"} => decision = manifest.files.decision
         /\ pc \in {"claim", "check"} => manifest.schema # "none"

Undamaged == damage \in Nat /\ (damage = 0 => Intact /\ ReadsRuns)

LEMMA InitUndamaged == Init => Undamaged
<1> SUFFICES ASSUME Init PROVE Undamaged
  OBVIOUS
<1>1. PICK before \in SUBSET V2Run :
        dirs = [path \in Path |->
                  LET here == {r \in V1Run \cup before : PathOf(r) = path}
                  IN IF here = {} THEN Missing ELSE FilesOf(CHOOSE r \in here : TRUE)]
  BY DEF Init
<1>2. ASSUME NEW path \in Path, dirs[path] # Missing
      PROVE  \E r \in Runs : PathOf(r) = path /\ dirs[path] = FilesOf(r)
  <2> DEFINE here == {r \in V1Run \cup before : PathOf(r) = path}
  <2>1. here # {} /\ dirs[path] = FilesOf(CHOOSE r \in here : TRUE)
    BY <1>1, <1>2
  <2>2. (CHOOSE r \in here : TRUE) \in here
    BY <2>1
  <2> QED BY <2>1, <2>2 DEF Runs
<1>3. Intact
  BY <1>1, <1>2 DEF Intact
<1> QED BY <1>3 DEF Init, Undamaged, ReadsRuns, Reading

\* A run that is published takes a place where nothing was, or its own.
LEMMA EnvironmentUndamaged ==
  ASSUME Undamaged, Environment
  PROVE  Undamaged'
<1>1. UNCHANGED <<pc, todo, run, manifest, config, decision>>
  BY DEF Environment, readVars, resultVars
<1>2. ASSUME NEW r \in V2Run, PublishDirectory(r)
      PROVE  Undamaged'
  <2>1. damage' = damage /\ dirs[PathOf(r)] = Missing /\ dirs' = [dirs EXCEPT ![PathOf(r)] = FilesOf(r)]
    BY <1>2 DEF PublishDirectory
  <2> SUFFICES ASSUME damage = 0 PROVE Intact' /\ ReadsRuns'
    BY <2>1 DEF Undamaged
  <2>2. Intact /\ ReadsRuns
    BY DEF Undamaged
  <2>3. ASSUME NEW path \in Path, dirs[path] # Missing
        PROVE  dirs'[path] = dirs[path] /\ dirs'[path] # Missing
    BY <2>1, <2>2, <2>3 DEF Intact
  <2>4. Intact'
    <3>1. dirs' = [path \in Path |-> dirs'[path]]
      BY <2>1, <2>2 DEF Intact
    <3>2. ASSUME NEW path \in Path, dirs'[path] # Missing
          PROVE  \E q \in Runs : PathOf(q) = path /\ dirs'[path] = FilesOf(q)
      BY <2>1, <2>2, <3>2 DEF Intact, Runs
    <3> QED BY <3>1, <3>2 DEF Intact
  <2>5. ReadsRuns'
    <3>1. \A path \in todo' : path \in Path /\ dirs'[path] # Missing
      BY <1>1, <2>2, <2>3 DEF ReadsRuns
    <3>2. ASSUME pc' \in Reading PROVE dirs'[run'] = dirs[run]
      <4>1. PICK q \in Runs : PathOf(q) = run /\ dirs[run] = FilesOf(q)
        BY <1>1, <2>2, <3>2 DEF ReadsRuns
      <4>2. CASE PathOf(r) = run
        <5>1. r = q
          BY <4>1, <4>2, WrittenAssumption DEF Runs
        <5>2. run \in Path
          BY RunAssumption, <4>1 DEF PathOf, Path, Runs
        <5> QED BY <1>1, <2>1, <2>2, <4>1, <4>2, <5>1, <5>2 DEF Intact
      <4>3. CASE PathOf(r) # run
        <5>1. run \in Path
          BY RunAssumption, <4>1 DEF PathOf, Path, Runs
        <5> QED BY <1>1, <2>1, <2>2, <4>3, <5>1 DEF Intact
      <4> QED BY <4>2, <4>3
    <3> QED BY <1>1, <2>2, <3>1, <3>2 DEF ReadsRuns
  <2> QED BY <2>4, <2>5
<1>3. ASSUME NEW r \in V2Run, PublishClaim(r)
      PROVE  Undamaged'
  BY <1>1, <1>3 DEF PublishClaim, Undamaged, Intact, ReadsRuns
<1>4. CASE Damage
  <2>1. damage' \in Nat /\ damage' # 0
    BY <1>4 DEF Damage, Undamaged
  <2> QED BY <2>1 DEF Undamaged
<1> QED BY <1>2, <1>3, <1>4 DEF Environment, RewriteFile, CopyDirectory

\* The reader finds the files that the manifest names.
LEMMA ReaderUndamaged ==
  ASSUME Undamaged, Reader
  PROVE  Undamaged'
<1>1. damage' = damage /\ dirs' = dirs
  BY DEF Reader, OpenRuns, ReadManifest, CheckEntries, ReadConfig, ReadDecision, Exclude, CheckClaim,
     CheckRun, Finish, diskVars
<1> SUFFICES ASSUME damage = 0 PROVE ReadsRuns'
  BY <1>1 DEF Undamaged, Intact
<1>2. Intact /\ ReadsRuns
  BY DEF Undamaged
<1>3. CASE OpenRuns
  BY <1>1, <1>3 DEF OpenRuns, GoTo, ReadsRuns, Reading
<1>4. ASSUME NEW path \in Path, ReadManifest(path)
      PROVE  ReadsRuns'
  <2>1. /\ pc' = "entries" /\ path \in todo /\ run' = path /\ manifest' = dirs[path].manifest
        /\ todo' = todo \ {path}
    BY <1>4 DEF ReadManifest, GoTo
  <2>2. PICK r \in Runs : PathOf(r) = path /\ dirs[path] = FilesOf(r)
    BY <1>2, <2>1 DEF Intact, ReadsRuns
  <2>3. manifest' = r.manifest
    BY <2>1, <2>2 DEF FilesOf
  <2> QED BY <1>1, <1>2, <2>1, <2>2, <2>3 DEF ReadsRuns
<1>5. CASE CheckEntries \/ ReadConfig \/ ReadDecision \/ CheckClaim
  <2>1. /\ pc \in Reading /\ pc' \in Reading \cup {"raised"} /\ UNCHANGED <<todo, run, manifest>>
        /\ pc' \in {"decision", "legacy", "claim", "check"} => config' = manifest.files.config
        /\ pc' \in {"legacy", "claim", "check"} => decision' = manifest.files.decision
        /\ pc' \in {"claim", "check"} => manifest.schema # "none"
    <3>1. CASE CheckEntries
      BY <3>1 DEF CheckEntries, GoTo, Reading, readVars
    <3>2. CASE ReadConfig
      BY <3>2 DEF ReadConfig, GoTo, Reading
    <3>3. CASE ReadDecision
      BY <1>2, <3>3 DEF ReadDecision, GoTo, Reading, ReadsRuns
    <3>4. CASE CheckClaim
      BY <1>2, <3>4 DEF CheckClaim, GoTo, Reading, ReadsRuns, readVars
    <3> QED BY <1>5, <3>1, <3>2, <3>3, <3>4
  <2> QED BY <1>1, <1>2, <2>1 DEF ReadsRuns
<1>6. CASE Exclude \/ CheckRun \/ Finish
  <2>1. pc' \notin Reading /\ todo' = todo
    BY <1>6 DEF Exclude, CheckRun, Finish, GoTo, Reading
  <2> QED BY <1>1, <1>2, <2>1 DEF ReadsRuns
<1> QED BY <1>3, <1>4, <1>5, <1>6 DEF Reader

LEMMA SpecUndamaged == Spec => []Undamaged
<1>1. ASSUME Undamaged, [Next]_vars PROVE Undamaged'
  <2>1. CASE UNCHANGED vars
    BY <1>1, <2>1 DEF vars, diskVars, readVars, Undamaged, Intact, ReadsRuns
  <2> QED BY <1>1, <2>1, EnvironmentUndamaged, ReaderUndamaged DEF Next
<1> QED BY <1>1, InitUndamaged, PTL DEF Spec

\* The boundary of a cutoff is the end of the last hour that is complete then.
LEMMA BoundaryOfWritten ==
  ASSUME NEW r \in V2Run
  PROVE  r.manifest.boundary = BoundaryOf(r.manifest.cutoff)
<1> DEFINE b == r.manifest.boundary
           c == r.manifest.cutoff
<1>1. HourSize \in Nat \ {0}
  BY SizeAssumption
<1>2. b \in Nat /\ (b + 1) % HourSize = 0 /\ c \in Nat /\ b <= c /\ c < b + HourSize
  BY WrittenAssumption
<1> HIDE DEF b, c
<1>3. PICK k \in Nat : b + 1 = k * HourSize
  BY <1>1, <1>2
<1>4. (c + 1) \div HourSize = k
  <2> DEFINE q == (c + 1) \div HourSize
  <2>1. q \in Nat /\ q * HourSize <= c + 1 /\ c + 1 < q * HourSize + HourSize
    BY <1>1, <1>2
  <2> HIDE DEF q
  <2>2. ~ (k + 1 <= q)
    <3> SUFFICES ASSUME k + 1 <= q PROVE FALSE
      OBVIOUS
    <3>1. k * HourSize + HourSize <= q * HourSize
      BY <1>1, <2>1
    <3> QED BY <1>1, <1>2, <1>3, <2>1, <3>1
  <2>3. ~ (q + 1 <= k)
    <3> SUFFICES ASSUME q + 1 <= k PROVE FALSE
      OBVIOUS
    <3>1. q * HourSize + HourSize <= k * HourSize
      BY <1>1, <2>1
    <3> QED BY <1>1, <1>2, <1>3, <2>1, <3>1
  <2> QED BY <2>1, <2>2, <2>3 DEF q
<1>5. BoundaryOf(c) = b
  <2>1. BoundaryOf(c) = k * HourSize - 1
    BY <1>4 DEF BoundaryOf
  <2> QED BY <1>2, <1>3, <2>1
<1> QED BY <1>5 DEF b, c

--------------------------------------------------------------------------------
(* Theorems *)

LEMMA InvAccepted == Inv => AcceptedIsCommitted
<1> SUFFICES ASSUME Inv, NEW c \in cases, c.manifest.schema = "2"
             PROVE  \E r \in V2Run : /\ PathOf(r) = c.path
                                     /\ c.manifest = r.manifest
                                     /\ c.decision = r.manifest.files.decision
  BY DEF AcceptedIsCommitted
<1>1. PICK r \in V2Run : ClaimOf(c.manifest, c.path[1]) = ClaimOf(r.manifest, r.day)
  BY DEF Inv, CasesFollow, ClaimsArePublished
<1>2. c.manifest = r.manifest /\ c.path[1] = r.day
  BY <1>1 DEF ClaimOf
<1>3. c.path = <<c.path[1], r.name>>
  BY <1>2, PublishedAssumption DEF Inv, CasesFollow
<1>4. c.decision = c.manifest.files.decision
  BY DEF Inv, CasesFollow
<1> QED BY <1>2, <1>3, <1>4 DEF PathOf

\* A row of the casebook is what the claim of its boundary committed to, whatever
\* is written over the files between the reads.
THEOREM AcceptedWasCommitted == Spec => []AcceptedIsCommitted
  BY InvAccepted, SpecInv, PTL

\* A run is counted once: its manifest says where it is, so a copy under another
\* name or day is refused, and a boundary has one run.
THEOREM RunsAreCountedOnce == Spec => []EachRunOnce
<1>1. ASSUME Inv, NEW c \in cases, NEW d \in cases, c.manifest = d.manifest
      PROVE  c = d
  <2>1. c.path = d.path
    BY <1>1 DEF Inv, CasesFollow
  <2>2. c.decision = d.decision
    BY <1>1 DEF Inv, CasesFollow
  <2>3. /\ c = [path |-> c.path, manifest |-> c.manifest, decision |-> c.decision]
        /\ d = [path |-> d.path, manifest |-> d.manifest, decision |-> d.decision]
    BY <1>1 DEF Inv, CasesFollow
  <2> QED BY <1>1, <2>1, <2>2, <2>3
<1>2. ASSUME Inv, NEW c \in cases, NEW d \in cases,
             c.manifest.schema = "2", d.manifest.schema = "2",
             c.manifest.boundary = d.manifest.boundary
      PROVE  c.manifest = d.manifest
  BY <1>2, InvAccepted, PublishedAssumption DEF AcceptedIsCommitted
<1>3. Inv => EachRunOnce
  BY <1>1, <1>2 DEF EachRunOnce
<1> QED BY <1>3, SpecInv, PTL

\* A casebook that is finished accounts for every directory that was discovered.
THEOREM EveryRunIsAccounted == Spec => []NothingIsLeftOut
<1>1. Inv => NothingIsLeftOut
  BY DEF Inv, Accounted, NothingIsLeftOut, Paths, Unread, Reading
<1> QED BY <1>1, SpecInv, PTL

\* What the analyses of either strategy write is accepted, in whatever order they
\* publish while the casebook is built: without damage only a run that has not
\* published its claim yet stops a build.
THEOREM OnlyDamageStopsABuild == Spec => OnlyDamageIsRefused
<1>1. ASSUME Undamaged, Next, pc # "raised", pc' = "raised", damage = 0
      PROVE  pc = "claim" /\ ClaimOf(manifest, run[1]) \notin claims
  <2>1. CheckEntries \/ ReadConfig \/ ReadDecision \/ CheckClaim \/ CheckRun
    BY <1>1 DEF Next, Environment, Reader, OpenRuns, ReadManifest, Exclude, Finish, GoTo
  <2>2. pc \in Reading
    BY <2>1 DEF CheckEntries, ReadConfig, ReadDecision, CheckClaim, CheckRun, Reading
  <2>3. PICK r \in Runs :
          /\ PathOf(r) = run /\ dirs[run] = FilesOf(r) /\ manifest = r.manifest
          /\ pc \in {"decision", "legacy", "claim", "check"} => config = manifest.files.config
          /\ pc \in {"legacy", "claim", "check"} => decision = manifest.files.decision
          /\ pc \in {"claim", "check"} => manifest.schema # "none"
    BY <1>1, <2>2 DEF Undamaged, ReadsRuns
  <2>4. /\ dirs[run].config = manifest.files.config /\ dirs[run].decision = manifest.files.decision
        /\ ~ dirs[run].extra
    BY <2>3 DEF FilesOf
  <2>5. Missing \notin {manifest.files.config, manifest.files.decision}
    BY <2>3, WrittenAssumption DEF Runs
  <2>6. ~ CheckEntries
    BY <1>1, <2>4, <2>5 DEF CheckEntries, GoTo
  <2>7. ~ ReadConfig
    BY <1>1, <2>4 DEF ReadConfig, GoTo
  <2>8. ~ ReadDecision
    BY <1>1, <2>4 DEF ReadDecision, GoTo
  <2>9. ~ CheckRun
    <3> SUFFICES ASSUME CheckRun PROVE FALSE
      OBVIOUS
    <3>1. pc = "check"
      BY DEF CheckRun
    <3>2. /\ manifest.run = r.name /\ manifest.cutoff \div DaySize = r.day
          /\ ContentFits(manifest, config, decision)
      BY <2>3, <3>1, WrittenAssumption DEF Runs
    <3>3. manifest.schema = "2" => manifest.boundary = BoundaryOf(manifest.cutoff)
      BY <2>3, BoundaryOfWritten, WrittenAssumption DEF Runs
    <3>4. run[1] = r.day /\ run[2] = r.name
      BY <2>3 DEF PathOf
    <3> QED BY <1>1, <3>2, <3>3, <3>4 DEF CheckRun, PlaceMatches, GoTo
  <2>10. CASE CheckClaim
    <3>1. pc = "claim" /\ ~ (StrategyContract /\ (manifest.schema = "2" => ClaimMatches))
      BY <1>1, <2>10 DEF CheckClaim, GoTo
    <3>2. StrategyContract
      <4>1. CASE r \in V1Run
        BY <2>3, <3>1, <4>1, WrittenAssumption DEF StrategyContract
      <4>2. CASE r \in V2Run
        <5>1. manifest.schema = "2" /\ manifest.boundary \in Nat
          BY <2>3, <4>2, WrittenAssumption
        <5> QED BY <5>1 DEF StrategyContract
      <4> QED BY <4>1, <4>2 DEF Runs
    <3> QED BY <3>1, <3>2 DEF ClaimMatches
  <2> QED BY <2>1, <2>6, <2>7, <2>8, <2>9, <2>10
<1>2. ASSUME Undamaged, [Next]_vars
      PROVE  [pc # "raised" /\ pc' = "raised" /\ damage = 0 =>
                pc = "claim" /\ ClaimOf(manifest, run[1]) \notin claims]_vars
  BY <1>1, <1>2
<1> QED BY <1>2, SpecUndamaged, PTL DEF Spec, OnlyDamageIsRefused
================================================================================
