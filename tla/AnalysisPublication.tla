-------------------------- MODULE AnalysisPublication --------------------------
(* Orchestrator.analyze_latest, _publish and publish_analysis_claim, step by   *)
(* step against the claims table and the runs directory, with the readers of   *)
(* build_casebook beside them.  A unique claim makes publication atomic across *)
(* callers, so the callers run here without the process lock.  A process can   *)
(* die at any step, any call can raise, and the machine can lose power: then   *)
(* what was never synced may be gone.                                          *)
EXTENDS Integers, FiniteSets

CONSTANTS
  Run,       \* analysis_run_id, one invocation of analyze_latest each
  Reader,    \* builds of the casebook by other commands
  Cutoff,    \* cutoffs the latest committed dataset can have, in minutes
  Hour       \* minutes of one analysis interval, 60 in the code

ASSUME CutoffAssumption == Cutoff \subseteq Nat
ASSUME HourAssumption == Hour \in Nat \ {0}
ASSUME ProcessAssumption == Run \cap Reader = {} /\ "none" \notin Run

VARIABLES
  latest,    \* cutoff of the latest committed dataset
  claims,    \* table analysis_claims, one row per boundary
  pc,        \* where each invocation and each reader is
  pinned,    \* the dataset an invocation analyses, named by its cutoff
  place,     \* where the run's directory is: nowhere, under .tmp, public
  onDisk,    \* the places it can be found at after a power loss
  files,     \* how many of config, decision, manifest it holds
  synced,    \* whether the directory itself was synced
  manifest,  \* the identity written into manifest.json
  toVerify,  \* runs a build has opened and not verified yet
  rows       \* runs a build has verified

dirVars == <<place, onDisk, files, synced, manifest>>
buildVars == <<toVerify, rows>>
vars == <<latest, claims, pc, pinned, dirVars, buildVars>>

NoCutoff == -1
NoRun == "none"
AllFiles == 3

\* The last complete hour at or before a cutoff.
BoundaryOf(cutoff) == ((cutoff + 1) \div Hour) * Hour - 1
Boundary == {b \in {BoundaryOf(c) : c \in Cutoff} : b >= 0}
BoundaryOfRun(r) == BoundaryOf(pinned[r])

Unclaimed == [status |-> "NONE", run |-> NoRun, dataset |-> NoCutoff]
NoManifest == [boundary |-> NoCutoff, dataset |-> NoCutoff]

Publishing == {"analyze", "mkdir", "write", "sync_run", "rename", "sync_tmp",
               "sync_day", "reread", "sync_runs", "publish_claim"}
Building == {"list", "verify"}
Running == {"claim"} \cup Publishing \cup Building
Stopped == {"published", "skipped", "built", "refused", "failed", "crashed"}

Process == Run \cup Reader

--------------------------------------------------------------------------------
GoTo(p, label) == pc' = [pc EXCEPT ![p] = label]

\* A newer dataset is committed; ingestion never lets the cutoff go back.
NewDataset ==
  /\ \E c \in Cutoff : c > latest /\ latest' = c
  /\ UNCHANGED <<claims, pc, pinned, dirVars, buildVars>>

\* latest_committed, the boundary, the dataset's origin run.
Pin(r) ==
  /\ pc[r] = "idle"
  /\ IF latest = NoCutoff \/ BoundaryOf(latest) < 0
     THEN GoTo(r, "failed") /\ UNCHANGED pinned
     ELSE GoTo(r, "claim") /\ pinned' = [pinned EXCEPT ![r] = latest]
  /\ UNCHANGED <<latest, claims, dirVars, buildVars>>

\* Variant: a claim that was not published is taken over by the retry.
ClaimBoundary_TakesOver(r) ==
  LET claim == claims[BoundaryOfRun(r)]
  IN /\ pc[r] = "claim"
     /\ IF claim.status # "PUBLISHED"
        THEN /\ claims' = [claims EXCEPT ![BoundaryOfRun(r)] =
                             [status |-> "CLAIMED", run |-> r, dataset |-> pinned[r]]]
             /\ GoTo(r, "analyze")
        ELSE UNCHANGED claims /\ GoTo(r, "list")
     /\ UNCHANGED <<latest, pinned, dirVars, buildVars>>

\* claim_analysis_boundary: the INSERT, or the row that is already there.
ClaimBoundary(r) ==
  LET claim == claims[BoundaryOfRun(r)]
  IN /\ pc[r] = "claim"
     /\ IF claim.status = "NONE"
        THEN /\ claims' = [claims EXCEPT ![BoundaryOfRun(r)] =
                             [status |-> "CLAIMED", run |-> r, dataset |-> pinned[r]]]
             /\ GoTo(r, "analyze")
        ELSE /\ UNCHANGED claims
             /\ GoTo(r, IF claim.status = "PUBLISHED" THEN "list" ELSE "refused")
     /\ UNCHANGED <<latest, pinned, dirVars, buildVars>>

Analyze(r) ==
  /\ pc[r] = "analyze"
  /\ GoTo(r, "mkdir")
  /\ UNCHANGED <<latest, claims, pinned, dirVars, buildVars>>

\* The run's directory under runs/.tmp.
MakeDirectory(r) ==
  /\ pc[r] = "mkdir"
  /\ place' = [place EXCEPT ![r] = "tmp"]
  /\ onDisk' = [onDisk EXCEPT ![r] = {"none", "tmp"}]
  /\ GoTo(r, "write")
  /\ UNCHANGED <<latest, claims, pinned, files, synced, manifest, buildVars>>

\* Variant: the count of files is tested before it is raised.
WriteFile_OneMore(r) ==
  /\ pc[r] = "write"
  /\ files' = [files EXCEPT ![r] = @ + 1]
  /\ IF files[r] = AllFiles THEN GoTo(r, "sync_run") ELSE UNCHANGED pc
  /\ UNCHANGED <<latest, claims, pinned, place, onDisk, synced, manifest, buildVars>>

\* Variant: the manifest names the dataset that is latest when it is written.
WriteFile_AsksAgain(r) ==
  /\ pc[r] = "write"
  /\ files' = [files EXCEPT ![r] = @ + 1]
  /\ IF files[r] + 1 = AllFiles
     THEN /\ manifest' = [manifest EXCEPT
                            ![r] = [boundary |-> BoundaryOfRun(r), dataset |-> latest]]
          /\ GoTo(r, "sync_run")
     ELSE UNCHANGED <<manifest, pc>>
  /\ UNCHANGED <<latest, claims, pinned, place, onDisk, synced, buildVars>>

\* _write_json_at: each file is new, and synced before the next is opened.
WriteFile(r) ==
  /\ pc[r] = "write"
  /\ files' = [files EXCEPT ![r] = @ + 1]
  /\ IF files[r] + 1 = AllFiles
     THEN /\ manifest' = [manifest EXCEPT
                            ![r] = [boundary |-> BoundaryOfRun(r), dataset |-> pinned[r]]]
          /\ GoTo(r, "sync_run")
     ELSE UNCHANGED <<manifest, pc>>
  /\ UNCHANGED <<latest, claims, pinned, place, onDisk, synced, buildVars>>

SyncRunDirectory(r) ==
  /\ pc[r] = "sync_run"
  /\ synced' = [synced EXCEPT ![r] = TRUE]
  /\ GoTo(r, "rename")
  /\ UNCHANGED <<latest, claims, pinned, place, onDisk, files, manifest, buildVars>>

\* From .tmp to the day directory: public from here on.
Rename(r) ==
  /\ pc[r] = "rename"
  /\ place' = [place EXCEPT ![r] = "public"]
  /\ onDisk' = [onDisk EXCEPT ![r] = {"none", "tmp", "public"}]
  /\ GoTo(r, "sync_tmp")
  /\ UNCHANGED <<latest, claims, pinned, files, synced, manifest, buildVars>>

SyncTmp(r) ==
  /\ pc[r] = "sync_tmp"
  /\ onDisk' = [onDisk EXCEPT ![r] = {"none", "public"}]
  /\ GoTo(r, "sync_day")
  /\ UNCHANGED <<latest, claims, pinned, place, files, synced, manifest, buildVars>>

\* The entry is safe in the day directory, whose own entry is not yet safe.
SyncDay(r) ==
  /\ pc[r] = "sync_day"
  /\ GoTo(r, "reread")
  /\ UNCHANGED <<latest, claims, pinned, dirVars, buildVars>>

Whole(r) == place[r] = "public" /\ files[r] = AllFiles

\* Variant: the claim is published before the day's entry is synced in runs/.
Reread_PublishesEarly(r) ==
  /\ pc[r] = "reread"
  /\ GoTo(r, IF Whole(r) THEN "publish_claim" ELSE "failed")
  /\ UNCHANGED <<latest, claims, pinned, dirVars, buildVars>>

\* The public directory is reopened and compared with what was written.
Reread(r) ==
  /\ pc[r] = "reread"
  /\ GoTo(r, IF Whole(r) THEN "sync_runs" ELSE "failed")
  /\ UNCHANGED <<latest, claims, pinned, dirVars, buildVars>>

SyncRuns(r) ==
  /\ pc[r] = "sync_runs"
  /\ onDisk' = [onDisk EXCEPT ![r] = {"public"}]
  /\ GoTo(r, "publish_claim")
  /\ UNCHANGED <<latest, claims, pinned, place, files, synced, manifest, buildVars>>

\* publish_analysis_claim: verify the artifact again, then UPDATE the CLAIMED
\* row of this boundary and this run; anything else raises.
PublishClaim(r) ==
  LET b == BoundaryOfRun(r)
      accepted == /\ Whole(r)
                  /\ manifest[r].boundary = b
                  /\ claims[b].run = r /\ claims[b].status = "CLAIMED"
  IN /\ pc[r] = "publish_claim"
     /\ claims' = IF accepted THEN [claims EXCEPT ![b].status = "PUBLISHED"] ELSE claims
     /\ GoTo(r, IF accepted THEN "published" ELSE "failed")
     /\ UNCHANGED <<latest, pinned, dirVars, buildVars>>

--------------------------------------------------------------------------------
(* build_casebook, run by the skip path of analyze_latest and by readers       *)

StartBuild(c) ==
  /\ pc[c] = "idle"
  /\ GoTo(c, "list")
  /\ UNCHANGED <<latest, claims, pinned, dirVars, buildVars>>

\* _open_runs: every public run directory is opened before any is verified.
ListRuns(p) ==
  /\ pc[p] = "list"
  /\ toVerify' = [toVerify EXCEPT ![p] = {r \in Run : place[r] = "public"}]
  /\ GoTo(p, "verify")
  /\ UNCHANGED <<latest, claims, pinned, dirVars, rows>>

\* _validate_v2_claim: the manifest's boundary has a PUBLISHED claim of this run.
HasPublishedClaim(r) ==
  \E b \in Boundary : /\ manifest[r].boundary = b
                      /\ claims[b].run = r /\ claims[b].status = "PUBLISHED"

\* Variant: a complete directory is evidence, whatever its claim.
VerifyRun_IgnoresClaim(p) ==
  /\ pc[p] = "verify"
  /\ \E r \in toVerify[p] :
       IF files[r] = AllFiles
       THEN /\ rows' = [rows EXCEPT ![p] = @ \cup {r}]
            /\ toVerify' = [toVerify EXCEPT ![p] = @ \ {r}]
            /\ UNCHANGED pc
       ELSE GoTo(p, "failed") /\ UNCHANGED buildVars
  /\ UNCHANGED <<latest, claims, pinned, dirVars>>

\* One EvidenceError fails the whole build.
VerifyRun(p) ==
  /\ pc[p] = "verify"
  /\ \E r \in toVerify[p] :
       IF files[r] = AllFiles /\ HasPublishedClaim(r)
       THEN /\ rows' = [rows EXCEPT ![p] = @ \cup {r}]
            /\ toVerify' = [toVerify EXCEPT ![p] = @ \ {r}]
            /\ UNCHANGED pc
       ELSE GoTo(p, "failed") /\ UNCHANGED buildVars
  /\ UNCHANGED <<latest, claims, pinned, dirVars>>

RowsOfBoundary(p, b) == {r \in rows[p] : manifest[r].boundary = b}

FinishBuild(c) ==
  /\ pc[c] = "verify"
  /\ toVerify[c] = {}
  /\ GoTo(c, "built")
  /\ UNCHANGED <<latest, claims, pinned, dirVars, buildVars>>

\* _existing_boundary_run: the one row of the boundary must be the claim's run.
FinishSkip(r) ==
  /\ pc[r] = "verify"
  /\ toVerify[r] = {}
  /\ GoTo(r, IF RowsOfBoundary(r, BoundaryOfRun(r)) = {claims[BoundaryOfRun(r)].run}
             THEN "skipped" ELSE "failed")
  /\ UNCHANGED <<latest, claims, pinned, dirVars, buildVars>>

--------------------------------------------------------------------------------
(* Failures *)

\* Any call raises: the analyzer, the file system, SQLite.  analyze_latest
\* answers FAILED and leaves claim and directory as they are.
CallRaises(p) ==
  /\ pc[p] \in Running
  /\ GoTo(p, "failed")
  /\ UNCHANGED <<latest, claims, pinned, dirVars, buildVars>>

Crash(p) ==
  /\ pc[p] \in Running
  /\ GoTo(p, "crashed")
  /\ UNCHANGED <<latest, claims, pinned, dirVars, buildVars>>

\* SQLite transactions survive; a directory is found at one of its places, and
\* without a sync of its own with some of its files only.
PowerLoss ==
  /\ \E p \in Process : pc[p] \in Running
  /\ pc' = [p \in Process |-> IF pc[p] \in Running THEN "crashed" ELSE pc[p]]
  /\ \E found \in [Run -> {"none", "tmp", "public"}] :
       /\ \A r \in Run : found[r] \in onDisk[r]
       /\ place' = found
       /\ onDisk' = [r \in Run |-> {found[r]}]
  /\ \E left \in [Run -> 0..AllFiles] :
       /\ \A r \in Run : left[r] <= files[r] /\ (synced[r] => left[r] = files[r])
       /\ files' = left
  /\ UNCHANGED <<latest, claims, pinned, synced, manifest, buildVars>>

Exhausted ==
  /\ \A p \in Process : pc[p] \in Stopped
  /\ UNCHANGED vars

--------------------------------------------------------------------------------
AdvanceRun(r) ==
  \/ ClaimBoundary(r) \/ Analyze(r) \/ MakeDirectory(r) \/ WriteFile(r)
  \/ SyncRunDirectory(r) \/ Rename(r) \/ SyncTmp(r) \/ SyncDay(r) \/ Reread(r)
  \/ SyncRuns(r) \/ PublishClaim(r) \/ FinishSkip(r)

AdvanceBuild(p) == ListRuns(p) \/ VerifyRun(p)

Init ==
  /\ latest = NoCutoff
  /\ claims = [b \in Boundary |-> Unclaimed]
  /\ pc = [p \in Process |-> "idle"]
  /\ pinned = [r \in Run |-> NoCutoff]
  /\ place = [r \in Run |-> "none"]
  /\ onDisk = [r \in Run |-> {"none"}]
  /\ files = [r \in Run |-> 0]
  /\ synced = [r \in Run |-> FALSE]
  /\ manifest = [r \in Run |-> NoManifest]
  /\ toVerify = [p \in Process |-> {}]
  /\ rows = [p \in Process |-> {}]

Next ==
  \/ NewDataset
  \/ \E r \in Run : Pin(r) \/ AdvanceRun(r)
  \/ \E c \in Reader : StartBuild(c) \/ FinishBuild(c)
  \/ \E p \in Process : AdvanceBuild(p) \/ CallRaises(p) \/ Crash(p)
  \/ PowerLoss
  \/ Exhausted

Spec == Init /\ [][Next]_vars

--------------------------------------------------------------------------------
(* Properties *)

\* Claims name runs and boundaries, a directory holds at most the three files,
\* and every build lists runs of the instance.
TypeOK ==
  /\ latest \in Cutoff \cup {NoCutoff}
  /\ claims \in [Boundary -> [status : {"NONE", "CLAIMED", "PUBLISHED"},
                              run : Run \cup {NoRun}, dataset : Cutoff \cup {NoCutoff}]]
  /\ pc \in [Process -> {"idle"} \cup Running \cup Stopped]
  /\ pinned \in [Run -> Cutoff \cup {NoCutoff}]
  /\ place \in [Run -> {"none", "tmp", "public"}]
  /\ onDisk \in [Run -> SUBSET {"none", "tmp", "public"}]
  /\ files \in [Run -> 0..AllFiles]
  /\ synced \in [Run -> BOOLEAN]
  /\ manifest \in [Run -> [boundary : Boundary \cup {NoCutoff},
                           dataset : Cutoff \cup {NoCutoff}]]
  /\ toVerify \in [Process -> SUBSET Run]
  /\ rows \in [Process -> SUBSET Run]

\* At most one public run directory per hourly boundary, whatever its claim's
\* state: a retry after a crash never publishes a second artifact.
OnePublicRunPerBoundary ==
  \A r, s \in Run :
    /\ place[r] = "public" /\ place[s] = "public"
    /\ manifest[r].boundary = manifest[s].boundary
    => r = s

\* A PUBLISHED claim commits to a complete artifact that not even a power loss
\* can take away.
PublishedSurvives ==
  \A b \in Boundary :
    claims[b].status = "PUBLISHED" =>
      LET r == claims[b].run
      IN Whole(r) /\ synced[r] /\ onDisk[r] = {"public"}

\* "Analysis never queries latest after pinning a dataset version": the public
\* artifact, its claim and its boundary speak of one dataset.
PinnedThroughout ==
  \A r \in Run : place[r] = "public" =>
    /\ manifest[r].boundary = BoundaryOf(manifest[r].dataset)
    /\ manifest[r].boundary \in Boundary
    /\ claims[manifest[r].boundary].run = r
    /\ claims[manifest[r].boundary].dataset = manifest[r].dataset

\* A build that ends well has only PUBLISHED evidence, one run per boundary;
\* directories left by a crash or still being published are never rows.
BuiltFromPublishedOnly ==
  \A p \in Process : pc[p] \in {"built", "skipped"} =>
    /\ \A r \in rows[p] : Whole(r) /\ HasPublishedClaim(r)
    /\ \A r, s \in rows[p] : manifest[r].boundary = manifest[s].boundary => r = s

\* SKIPPED_ALREADY_ANALYZED is answered only for a boundary that has evidence,
\* and adds no directory of its own.
SkipAddsNothing ==
  \A r \in Run : pc[r] = "skipped" =>
    /\ place[r] = "none"
    /\ claims[BoundaryOfRun(r)].status = "PUBLISHED"
    /\ claims[BoundaryOfRun(r)].run \in rows[r] \ {r}

\* "A committed dataset may be analyzed again after an analysis-only failure"
\* (docs/architecture.md:17): no invocation is refused because of a claim on its
\* own dataset whose invocation has already answered FAILED.
FailedAnalysisCanBeRepeated ==
  [][\A r \in Run :
       LET claim == claims[BoundaryOfRun(r)]
       IN pc[r] = "claim" /\ pc'[r] = "refused" /\ claim.dataset = pinned[r]
            => pc[claim.run] # "failed"]_vars

\* What the ledger of the promised evidence is in this state.
ClaimState(b) ==
  LET claim == claims[b]
  IN CASE claim.status = "NONE" -> "open"
       [] claim.status = "CLAIMED" -> "claimed"
       [] claim.status = "PUBLISHED" /\ Whole(claim.run) -> "evidence"
       [] OTHER -> "broken"

Ledger == INSTANCE EvidenceLedger
  WITH ledger <- [b \in Boundary |-> [state |-> ClaimState(b), run |-> claims[b].run]]

\* Claims and artifacts together implement the ledger.
ImplementsLedger == Ledger!LedgerSpec
================================================================================
