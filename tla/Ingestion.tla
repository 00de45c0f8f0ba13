------------------------------- MODULE Ingestion -------------------------------
(* Orchestrator.ingest_once, one invocation per ingestion run, step by step    *)
(* against the market store.  Every repository call is its own transaction, so *)
(* other invocations, a crash or a failing call can come between any two.      *)
(* The process lock is deliberately absent: it guards the command line, while  *)
(* commit_dataset defends the store by itself against a stale base.            *)
EXTENDS MarketStore, FiniteSets

CONSTANTS
  Configured,       \* config.symbols
  ServerCutoff,     \* the cutoffs the exchange clock can answer
  Overlap,          \* config.overlap_bars
  Bootstrap,        \* config.bootstrap_bars
  MaxDefects,       \* bound: minutes by which one fetch can differ from complete
  MaxClock,         \* bound: wall clock
  ClockMayStepBack  \* whether the wall clock can be set back

ASSUME CutoffAssumption == ServerCutoff \subseteq Nat
ASSUME BarsAssumption == Overlap \in Nat \ {0} /\ Bootstrap \in Nat \ {0}
ASSUME ClockAssumption == MaxClock \in Nat /\ ClockMayStepBack \in BOOLEAN

VARIABLES
  pc,     \* where the invocation that owns the run is
  cutoff, \* its local variable "cutoff"
  base,   \* its local variable "base_version"
  batch   \* its local variable "batch"

attemptVars == <<pc, cutoff, base, batch>>
vars == <<storeVars, attemptVars>>

Running == {"cutoff", "store_cutoff", "latest", "complete", "fetch", "commit", "fail"}
Stopped == {"ended", "crashed"}
NoBatch == [s \in {} |-> {}]

\* What fetch_1m can return for start..end: minutes can be missing, and the
\* still open minute end + 1 can be there.  One answer carries one revision,
\* which is enough to tell a re-observed bar from its first observation.
FetchedRows(start, end) ==
  LET asked == start..end
      returned == {M \in SUBSET (start..(end + 1)) :
                     Cardinality((asked \ M) \cup (M \ asked)) <= MaxDefects}
  IN UNION {{[m \in M |-> rev] : rev \in Revision} : M \in returned}

\* Variant: twice the overlap.
FetchStart_TwiceOverlap(r) ==
  IF base[r] = NoVersion THEN cutoff[r] + 1 - Bootstrap
                         ELSE datasets[base[r]].cutoff + 1 - 2 * Overlap

\* The first minute ingest_once asks for.
FetchStart(r) ==
  IF base[r] = NoVersion THEN cutoff[r] + 1 - Bootstrap
                         ELSE datasets[base[r]].cutoff + 1 - Overlap

--------------------------------------------------------------------------------
GoTo(r, label) == pc' = [pc EXCEPT ![r] = label]
KeepLocals == UNCHANGED <<cutoff, base, batch>>

\* The invocation is over: its locals are gone.
Leave(r, label) ==
  /\ GoTo(r, label)
  /\ cutoff' = [cutoff EXCEPT ![r] = NoCutoff]
  /\ base' = [base EXCEPT ![r] = NoVersion]
  /\ batch' = [batch EXCEPT ![r] = NoBatch]

Start(r) ==
  /\ pc[r] = "idle"
  /\ StartIngestion(r)
  /\ GoTo(r, "cutoff")
  /\ KeepLocals

\* client.latest_closed_cutoff(): the server clock, floored to a closed minute.
AskCutoff(r) ==
  /\ pc[r] = "cutoff"
  /\ \E c \in ServerCutoff : cutoff' = [cutoff EXCEPT ![r] = c]
  /\ GoTo(r, "store_cutoff")
  /\ UNCHANGED <<storeVars, base, batch>>

StoreCutoff(r) ==
  /\ pc[r] = "store_cutoff"
  /\ SetIngestionCutoff(r, cutoff[r])
  /\ GoTo(r, "latest")
  /\ KeepLocals

\* latest_committed() and the comparison of its cutoff with the run's own.
ReadLatest(r) ==
  LET latest == LatestVersion
      known == IF latest = NoVersion THEN NoCutoff ELSE datasets[latest].cutoff
  IN /\ pc[r] = "latest"
     /\ base' = [base EXCEPT ![r] = latest]
     /\ GoTo(r, CASE cutoff[r] < known -> "fail"
                  [] cutoff[r] = known -> "complete"
                  [] cutoff[r] > known -> "fetch")
     /\ UNCHANGED <<storeVars, cutoff, batch>>

\* Nothing new is closed: the run ends without a dataset of its own.
CompleteNoop(r) ==
  /\ pc[r] = "complete"
  /\ CompleteIngestion(r)
  /\ Leave(r, "ended")

Fetch(r) ==
  /\ pc[r] = "fetch"
  /\ \E b \in [Configured -> FetchedRows(FetchStart(r), cutoff[r])] :
       batch' = [batch EXCEPT ![r] = b]
  /\ GoTo(r, "commit")
  /\ UNCHANGED <<storeVars, cutoff, base>>

\* Variant: something raises in the try block after the commit.
Commit_ThenRaises(r) ==
  /\ pc[r] = "commit"
  /\ CommitDataset(r, batch[r], cutoff[r], base[r])
  /\ GoTo(r, "fail")
  /\ KeepLocals

Commit(r) ==
  /\ pc[r] = "commit"
  /\ CommitDataset(r, batch[r], cutoff[r], base[r])
  /\ Leave(r, "ended")

\* Variant: the rejected batch is dropped without recording the failure.
RejectCommit_Silent(r) ==
  /\ pc[r] = "commit"
  /\ ~ CommitAccepted(batch[r], cutoff[r], base[r])
  /\ Leave(r, "ended")
  /\ UNCHANGED storeVars

\* ValidationError: the transaction rolls back, the except block is next.
RejectCommit(r) ==
  /\ pc[r] = "commit"
  /\ ~ CommitAccepted(batch[r], cutoff[r], base[r])
  /\ GoTo(r, "fail")
  /\ UNCHANGED storeVars
  /\ KeepLocals

\* Any call of the try block can raise: exchange unreachable after its retries,
\* database busy.  The transaction of the call, if any, has no effect.
CallRaises(r) ==
  /\ pc[r] \in Running \ {"fail"}
  /\ GoTo(r, "fail")
  /\ UNCHANGED storeVars
  /\ KeepLocals

Fail(r) ==
  /\ pc[r] = "fail"
  /\ FailIngestion(r)
  /\ Leave(r, "ended")

\* The process dies, or fail_ingestion itself raises out of ingest_once.
Crash(r) ==
  /\ pc[r] \in Running
  /\ Leave(r, "crashed")
  /\ UNCHANGED storeVars

Tick ==
  /\ clock < MaxClock
  /\ clock' = clock + 1
  /\ UNCHANGED <<datasets, bars, runs, attemptVars>>

StepBack ==
  /\ ClockMayStepBack
  /\ clock > 0
  /\ clock' = clock - 1
  /\ UNCHANGED <<datasets, bars, runs, attemptVars>>

\* Every run identifier of the instance has been used.
Exhausted ==
  /\ \A r \in Run : pc[r] \in Stopped
  /\ UNCHANGED vars

Advance(r) ==
  \/ AskCutoff(r) \/ StoreCutoff(r) \/ ReadLatest(r) \/ CompleteNoop(r) \/ Fetch(r)
  \/ Commit(r) \/ RejectCommit(r) \/ CallRaises(r) \/ Fail(r)

Init ==
  /\ StoreInit
  /\ pc = [r \in Run |-> "idle"]
  /\ cutoff = [r \in Run |-> NoCutoff]
  /\ base = [r \in Run |-> NoVersion]
  /\ batch = [r \in Run |-> NoBatch]

Next ==
  \/ \E r \in Run : Start(r) \/ Advance(r) \/ Crash(r)
  \/ Tick
  \/ StepBack
  \/ Exhausted

Spec == Init /\ [][Next]_vars

--------------------------------------------------------------------------------
(* Properties *)

IsRows(rows) == DOMAIN rows \subseteq Int /\ \A m \in DOMAIN rows : rows[m] \in Revision
IsBatch(b) == DOMAIN b \subseteq Symbol \cup Configured /\ \A s \in DOMAIN b : IsRows(b[s])

\* Every table and every local has the shape the code gives it, and every
\* reference to a dataset names an existing one (REFERENCES datasets).
TypeOK ==
  /\ \A v \in DOMAIN datasets :
       /\ datasets[v].cutoff \in Nat
       /\ datasets[v].committedAt \in Nat
       /\ datasets[v].base \in 0..(v - 1)
       /\ DOMAIN datasets[v].bars = Symbol
       /\ \A s \in Symbol : IsRows(datasets[v].bars[s])
  /\ DOMAIN bars \subseteq Symbol \X Int \X Revision
  /\ \A k \in DOMAIN bars : bars[k] \in DOMAIN datasets
  /\ runs \in [Run -> [status : RunStatus, cutoff : Nat \cup {NoCutoff},
                       dataset : DOMAIN datasets \cup {NoVersion}]]
  /\ clock \in Nat
  /\ pc \in [Run -> {"idle"} \cup Running \cup Stopped]
  /\ cutoff \in [Run -> Nat \cup {NoCutoff}]
  /\ base \in [Run -> DOMAIN datasets \cup {NoVersion}]
  /\ DOMAIN batch = Run /\ \A r \in Run : IsBatch(batch[r])

\* Every committed dataset is gap free and reaches its cutoff for every symbol,
\* and every row of it finds its bar ("Data guarantees" of the README).
DatasetsWhole ==
  \A v \in DOMAIN datasets, s \in Symbol :
    LET rows == datasets[v].bars[s]
    IN /\ Contiguous(DOMAIN rows)
       /\ EndsAt(DOMAIN rows, datasets[v].cutoff)
       /\ \A m \in DOMAIN rows : <<s, m, rows[m]>> \in DOMAIN bars

\* The merged-snapshot check that ends commit_dataset never has the last word:
\* a valid batch that overlaps its base always merges into a gap free dataset.
MergedCheckIsRedundant ==
  \A r \in Run :
    /\ pc[r] = "commit"
    /\ ValidBatch(batch[r], cutoff[r])
    /\ BaseAccepted(batch[r], cutoff[r], base[r])
    => CommitAccepted(batch[r], cutoff[r], base[r])

\* Whatever runs fail, crash or find nothing new, a dataset has exactly one
\* COMMITTED run of its own cutoff: analyze_latest can always name its origin.
OneOrigin == \A v \in DOMAIN datasets : Cardinality(OriginRuns(v)) = 1

\* A run ends COMMITTED or FAILED; only a crash leaves FETCHING behind.
OnlyCrashLeavesFetching ==
  \A r \in Run : pc[r] = "ended" => runs[r].status \in {"COMMITTED", "FAILED"}

\* History a dataset inherits is never lost, and is never rewritten before the
\* overlap that ingest_once asks for again.
HistoryPreserved ==
  \A v \in DOMAIN datasets :
    LET b == datasets[v].base
    IN b # NoVersion =>
         \A s \in Symbol : \A m \in DOMAIN datasets[b].bars[s] :
           /\ m \in DOMAIN datasets[v].bars[s]
           /\ m <= datasets[b].cutoff - Overlap
                => datasets[v].bars[s][m] = datasets[b].bars[s][m]

\* Datasets form one line of growing cutoffs, and the one latest_committed
\* answers is the one committed last: no version is lost or forked.
OneLineage ==
  /\ LatestVersion = Len(datasets)
  /\ \A v \in DOMAIN datasets :
       /\ datasets[v].base = v - 1
       /\ v > 1 => datasets[v - 1].cutoff < datasets[v].cutoff

\* The same start for every symbol, which commit_dataset demands of a base
\* (storage.py:387) and so of every dataset an incremental commit builds on.
StartsAgree == \A v \in DOMAIN datasets : LineageStartsAgree(v)

LatestCutoff == IF LatestVersion = NoVersion THEN NoCutoff ELSE datasets[LatestVersion].cutoff

\* The latest committed cutoff never goes back, whatever the wall clock does and
\* however many invocations race ("cutoff regressed below latest committed").
CutoffNeverRegresses == [][LatestCutoff' >= LatestCutoff]_vars

\* Dataset versions and observed revisions are append-only.
AppendOnly ==
  [][/\ Len(datasets') >= Len(datasets)
     /\ \A v \in DOMAIN datasets : datasets'[v] = datasets[v]
     /\ \A k \in DOMAIN bars : k \in DOMAIN bars' /\ bars'[k] = bars[k]]_vars

\* A COMMITTED run is never relabelled, re-dated or given another dataset.
CommittedIsFinal ==
  [][\A r \in Run : runs[r].status = "COMMITTED" => runs'[r] = runs[r]]_vars
================================================================================
