----------------------------- MODULE ScheduledRuns -----------------------------
(* The commands of cli.py as scheduled-ingest.sh, scheduled-analysis.sh and an *)
(* operator run them.  Ingestion and analysis work under the process lock of   *)
(* lock.py and the wrappers try a held lock again, a bounded number of times;  *)
(* the casebook is published after the lock is released.  An analysis takes    *)
(* and publishes its boundary with the two steps of the evidence ledger, which *)
(* is what AnalysisPublication implements.                                     *)
EXTENDS CasebookPublication

CONSTANTS
  Ingest,           \* invocations of scheduled-ingest.sh
  Operator,         \* casebook commands by hand
  ScheduledOutput,  \* the output the analysis wrapper publishes to
  MaxAttempts,      \* SMC_ICT_MAX_LOCK_ATTEMPTS, 6 by default
  FirstHours        \* hours that earlier ingestions may have committed

ASSUME ProcessesAssumption ==
  /\ Process = Run \cup Ingest \cup Operator
  /\ Run \cap Ingest = {} /\ Run \cap Operator = {} /\ Ingest \cap Operator = {}
  /\ NoRun \notin Run
ASSUME OutputAssumption == ScheduledOutput \in Output
ASSUME AttemptsAssumption == MaxAttempts \in Nat \ {0}

NoHour == 0

ASSUME FirstHoursAssumption == FirstHours \subseteq Boundary \cup {NoHour}

VARIABLES
  committed,  \* last complete hour of the latest committed dataset
  attempts    \* lock attempts of a wrapper

vars == <<ledger, committed, attempts, pc, fileVars, commandVars>>

UnderLock == {"fetch", "claim", "publish"}
Running == {"try"} \cup UnderLock \cup {"lock_output"} \cup Publishing
Stopped == {"done", "failed", "crashed"}

\* Variant: the handle of the lock is closed before the command runs.
ProcessLockFree_Always == TRUE

\* flock: held by a live process only.
ProcessLockFree == \A p \in Process : pc[p] \notin UnderLock

--------------------------------------------------------------------------------
(* The wrappers *)

Start(w) ==
  /\ w \in Run \cup Ingest
  /\ pc[w] = "idle"
  /\ GoTo(w, "try")
  /\ UNCHANGED <<ledger, committed, attempts, fileVars, commandVars>>

\* ProcessLock is not waited for: SKIPPED_LOCKED sends the wrapper to sleep.
TryLock(w) ==
  /\ pc[w] = "try"
  /\ \/ /\ ProcessLockFree
        /\ GoTo(w, IF w \in Ingest THEN "fetch" ELSE "claim")
        /\ UNCHANGED attempts
     \/ /\ ~ ProcessLockFree
        /\ GoTo(w, IF attempts[w] + 1 = MaxAttempts THEN "failed" ELSE "try")
        /\ attempts' = [attempts EXCEPT ![w] = @ + 1]
  /\ UNCHANGED <<ledger, committed, fileVars, commandVars>>

\* ingest-once ends; what it commits may or may not complete further hours.
FinishIngestion(w) ==
  /\ pc[w] = "fetch"
  /\ \E h \in {committed} \cup {b \in Boundary : b > committed} : committed' = h
  /\ GoTo(w, "done")
  /\ UNCHANGED <<ledger, attempts, fileVars, commandVars>>

\* Variant: any claim of the hour counts as analysed.
ClaimHour_SkipsAny(w) ==
  /\ pc[w] = "claim"
  /\ asked' = [asked EXCEPT ![w] = committed]
  /\ UNCHANGED <<committed, attempts, fileVars, target, built, old>>
  /\ \/ /\ \E b \in Boundary : b = committed /\ Claim(b, w)
        /\ GoTo(w, "publish")
     \/ /\ \E b \in Boundary : b = committed /\ ledger[b] # Open
        /\ GoTo(w, "lock_output")
        /\ UNCHANGED ledger

\* Variant: SKIPPED_ALREADY_ANALYZED sends the wrapper back to sleep.
ClaimHour_RetriesSkipped(w) ==
  /\ pc[w] = "claim"
  /\ asked' = [asked EXCEPT ![w] = committed]
  /\ UNCHANGED <<committed, attempts, fileVars, target, built, old>>
  /\ \/ /\ \E b \in Boundary : b = committed /\ Claim(b, w)
        /\ GoTo(w, "publish")
     \/ /\ committed \in Published
        /\ GoTo(w, "try")
        /\ UNCHANGED ledger

\* analyze-once takes the last complete hour; an hour that has evidence is
\* SKIPPED_ALREADY_ANALYZED, one that is only claimed is FAILED.
ClaimHour(w) ==
  /\ pc[w] = "claim"
  /\ asked' = [asked EXCEPT ![w] = committed]
  /\ UNCHANGED <<committed, attempts, fileVars, target, built, old>>
  /\ \/ /\ committed # NoHour
        /\ Claim(committed, w)
        /\ GoTo(w, "publish")
     \/ /\ committed \in Published
        /\ GoTo(w, "lock_output")
        /\ UNCHANGED ledger
     \/ /\ \A b \in Boundary : b = committed => ledger[b].state = "claimed"
        /\ GoTo(w, "failed")
        /\ UNCHANGED ledger

\* The claim is published, the lock released, the receipt names the boundary.
PublishHour(w) ==
  /\ pc[w] = "publish"
  /\ Publish(asked[w], w)
  /\ GoTo(w, "lock_output")
  /\ UNCHANGED <<committed, attempts, fileVars, commandVars>>

\* smc-ict casebook by hand, with any output and with or without a snapshot.
StartCasebook(p) ==
  /\ p \in Operator
  /\ pc[p] = "idle"
  /\ \E o \in Output : target' = [target EXCEPT ![p] = o]
  /\ \E b \in Boundary \cup {NoSnapshot} : asked' = [asked EXCEPT ![p] = b]
  /\ GoTo(p, "lock_output")
  /\ UNCHANGED <<ledger, committed, attempts, fileVars, built, old>>

Work(p) ==
  \/ TryLock(p) \/ FinishIngestion(p) \/ ClaimHour(p) \/ PublishHour(p)
  \/ PublishStep(p) /\ UNCHANGED <<ledger, committed, attempts>>

--------------------------------------------------------------------------------
(* Failures *)

\* A command fails: an ingestion leaves what was committed, an analysis its
\* claim, and the wrapper exits with 1.
CommandFails(p) ==
  /\ pc[p] \in UnderLock \cup {"lock_output"}
  /\ GoTo(p, "failed")
  /\ UNCHANGED <<ledger, committed, attempts, fileVars, commandVars>>

Raises(p) ==
  \/ CommandFails(p)
  \/ PublicationRaises(p) /\ UNCHANGED <<ledger, committed, attempts>>

Crash(p) ==
  /\ pc[p] \in Running
  /\ GoTo(p, "crashed")
  /\ UNCHANGED <<ledger, committed, attempts, fileVars, commandVars>>

PowerLoss ==
  /\ \E p \in Process : pc[p] \in Running
  /\ pc' = [p \in Process |-> IF pc[p] \in Running THEN "crashed" ELSE pc[p]]
  /\ LoseUnsynced
  /\ UNCHANGED <<ledger, committed, attempts, commandVars>>

Exhausted ==
  /\ \A p \in Process : pc[p] \in Stopped
  /\ UNCHANGED vars

Init ==
  /\ LedgerInit
  /\ FilesInit
  /\ committed \in FirstHours
  /\ attempts = [p \in Process |-> 0]
  /\ pc = [p \in Process |-> "idle"]
  /\ target = [p \in Process |-> ScheduledOutput]
  /\ asked = [p \in Process |-> NoSnapshot]
  /\ built = [p \in Process |-> {}]
  /\ old = [p \in Process |-> NoFile]

Next ==
  \/ \E p \in Process : Start(p) \/ StartCasebook(p) \/ Work(p) \/ Raises(p) \/ Crash(p)
  \/ PowerLoss
  \/ Exhausted

\* Sequential commands: no lock is waited for, and every call has a timeout.
Fairness == \A p \in Process : WF_vars(Work(p))

Spec == Init /\ [][Next]_vars
FairSpec == Spec /\ Fairness

--------------------------------------------------------------------------------
(* Properties *)

\* What a command reported as published stays in the casebook: whoever publishes
\* to the same output later, fails there, dies there or loses power there leaves
\* a casebook with at least this evidence.
ReportedCasebookSurvives ==
  \A p \in Process \ Ingest : pc[p] = "done" =>
    \A content \in outputOnDisk[target[p]] :
      content # NoFile /\ built[p] \subseteq content

\* A wrapper that ends well has put the evidence of the hour its analysis
\* answered into the casebook, also when another run published that hour.
ReceiptInCasebook ==
  \A w \in Run : pc[w] = "done" => asked[w] \in built[w]

\* "analysis cannot overlap ingestion" (README.md:59): when the evidence of an
\* hour is published, that hour is still the last one committed.
AnalysisSeesNoIngestion ==
  \A w \in Run : pc[w] = "publish" => asked[w] = committed

\* A snapshot is never changed, and once a power loss cannot take it, it stays.
SnapshotsAreImmutable ==
  [][\A b \in Boundary :
       /\ snapshots[b] # NoFile => snapshots'[b] \in {snapshots[b], NoFile}
       /\ NoFile \notin snapshotsOnDisk[b] => snapshots'[b] = snapshots[b]]_vars

\* Every wrapper and every command comes to an end, also while others hold the
\* process lock.
EveryCommandStops == \A p \in Process : pc[p] \in Running ~> pc[p] \in Stopped

\* "Point-in-time casebook" with "one new snapshot directory per hourly boundary"
\* (README.md:115-133): the snapshot of an hour knows nothing of a later one.
SnapshotIsPointInTime ==
  \A b \in Boundary : snapshots[b] # NoFile => \A c \in snapshots[b] : c <= b
================================================================================
