# Verification of smc-ict-pipeline

The pipeline downloads closed one-minute candles of BTCUSDT and ETHUSDT, commits them as immutable dataset versions in
SQLite, analyses the last complete hour of the latest dataset, publishes the evidence of each hour exactly once, derives a
casebook from the published evidence and makes backups of the database. Every command is a short-lived sequential process;
what is hard is what happens when two of them overlap, when one dies half-way, when the machine loses power, and when a
later command finds what an earlier one left behind. The analysis itself is a pure function, and hard in another way: it searches
its references again every hour, and must neither see the future nor revise what it reported. This directory holds TLA+ models of both,
the TLC configurations that check them on small instances, and TLAPS proofs of the properties that matter most.

All paths below are relative to the repository; `smc_ict/` abbreviates `src/smc_ict/`.

## 1. Inventory

| Component | Code | State it keeps | Operations |
|---|---|---|---|
| Market repository | `smc_ict/storage.py` | SQLite tables `datasets`, `dataset_bars`, `bars`, `ingestion_runs`, `analysis_claims` | `latest_committed`, `committed_ingestion_for_dataset`, `start_ingestion`, `set_ingestion_cutoff`, `commit_dataset`, `complete_ingestion`, `fail_ingestion`, `claim_analysis_boundary`, `publish_analysis_claim`, schema migration |
| Ingestion | `smc_ict/pipeline/orchestrator.py` (`ingest_once`) | locals of one invocation | cutoff, no-op, fetch with overlap, commit, failure path |
| Exchange client | `smc_ict/data/binance.py` | none | `latest_closed_cutoff`, `fetch_1m` (pages, retries) |
| Analysis publication | `orchestrator.py` (`analyze_latest`, `_publish`) | `runs/.tmp/<run>`, `runs/<day>/<run>` | claim, analyse, write, sync, rename, reread, publish the claim, skip |
| Casebook reader | `smc_ict/casebook.py` (`build_casebook`) | open directories | open all runs, verify hashes, contract and claim of each, validate indicators, decide again, rows and exclusions |
| Casebook publication | `casebook.py` (`publish_casebook`, `_publish_snapshot`) | the output file, snapshot directories | lock, replace, recover, snapshot |
| Backup | `smc_ict/backup.py` | target, rollback, lock file | copy, verify, set aside, install, recover |
| Process lock, command line | `smc_ict/lock.py`, `smc_ict/cli.py` | the lock file | non-blocking lock around one command |
| Scheduled wrappers | `scripts/*.sh` | log lines | retry on a held lock, casebook after analysis |
| v2 gates and analyzer | `pipeline/v2_state_machine.py`, `pipeline/v2_analysis.py` | none | nine gates in order, frozen references, search windows, decision |
| Indicators, resampling | `indicators/*.py`, `resample.py` | none | pure functions over closed bars |
| v1 analyzer | `pipeline/analysis.py`, `pipeline/state_machine.py` | none | legacy, its helpers are used by v2 |
| Configuration, data types | `config.py`, `models.py` | none | validation of immutable values |

How they interact. The command line takes the process lock and calls the orchestrator, which is the only writer of the
repository and of `runs/`. Ingestion and analysis share the repository: ingestion appends datasets and analysis pins the one
`latest_committed` answers and finds its origin run through `committed_ingestion_for_dataset`. Analysis, the casebook command
and the skip path of analysis all read `runs/` and the claims; the casebook command does so without the process lock. Backups
read the database while it is being written, under a lock of their own.

What makes each of them correct:

- **Market repository and ingestion.** Every committed dataset is gap free and complete for the whole universe; history is
  inherited, never lost and only rewritten inside the overlap; datasets form one line although the compare-and-swap of
  `commit_dataset` is the only thing that keeps two invocations apart; each dataset has exactly one origin run; no failure
  relabels a committed run.
- **Analysis publication.** Per boundary at most one artifact ever becomes public, and what a PUBLISHED claim commits to is
  complete and on disk for good; all of it speaks of the dataset that was pinned first; retries and left-overs never become
  evidence.
- **Casebook.** Rows come from published evidence only, also while publications run beside the build.
- **Casebook reader.** A row is what its claim committed to, once, whatever is written over the files while they are read; nothing is left
  out silently; and what the analyzer publishes is accepted, although analyzer and reader decide separately.
- **Exchange client.** An answer without a fault is never rejected, a faulty one never reaches an analysis, and every fetch ends.
- **Analyzer and indicators.** No lookahead: a gate that passes was already known at the time it claims. No repainting: a verdict that has
  seen all it waits for is never revised. A report depends on complete hours only.
- **Migration.** The origin of every dataset that has one to find is found, is unique and stays, however many commands open the database at once;
  whatever stops an opener, the next one gets in.
- **Backup.** What one backup reported as saved is never lost by a later one, at whatever point it stops.

`PROJECT.json` lists under `hazards` each place of the code where one of these could go wrong in a way a test would hardly
reach, with the property that would show it.

## 2. Modules

| Module | Models | Extends / instantiates |
|---|---|---|
| `MarketStore` | the tables and repository methods of ingestion; one action per method that writes, since each is one transaction | |
| `Ingestion` | `ingest_once` step by step, any number of invocations | `MarketStore` |
| `EvidenceLedger` | abstract: what the analysis side promises its readers | |
| `AnalysisPublication` | `analyze_latest`, `_publish`, the claims, `build_casebook`, crashes and power loss | `EvidenceLedger` (refinement) |
| `Migration` | `MarketRepository.__init__` on a database of an earlier version, racing openers | |
| `Pagination` | `fetch_1m` page by page, the retries of `_get`, an exchange that misbehaves | |
| `Indicators` | `resample.py` and `indicators/`, as operators on bars | |
| `StrategyAnalysis` | `analyze_symbol_v2` and `decide_v2`, as operators | `Indicators` |
| `EvidenceChecks` | the reader's demands on indicators and decisions, as operators | |
| `RunOnce` | `run_once` for one symbol, again and again while the market goes on | `Pagination`, `StrategyAnalysis`, `EvidenceChecks` |
| `CasebookReader` | `build_casebook` file by file, while files are written again and directories copied | `EvidenceChecks` |
| `BackupVault` | abstract: receipts, and what is found of them | |
| `Backup` | `backup_database`, its lock, recovery and left-over rollback | `BackupVault` (refinement) |
| `CasebookPublication` | `publish_casebook` and the snapshot directories; one action per step | `EvidenceLedger` |
| `ScheduledRuns` | the commands as the wrappers and an operator run them, under the process lock | `CasebookPublication` |
| `MC*` | symmetry sets, market courses and payloads of the instances | the module they are named after |
| `StrategyAnalysisProofs` | theorems about the operators of `Indicators` and `StrategyAnalysis` | |
| `RunOnceProofs` | theorems about `RunOnce` | `StrategyAnalysisProofs` |
| `AnalysisPublicationProofs` | theorems about `AnalysisPublication`, the refinement among them | |
| `IngestionProofs`, `MigrationProofs`, `BackupProofs`, `CasebookReaderProofs`, `ScheduledRunsProofs` | theorems about the module they are named after | |

Definitions whose comment begins with "Variant:" are not part of the model. Each is a definition of the model as a plausible
mistake in the code would have it (a check left out, a step too early); putting it in the place of the right one makes the
property it is listed with fail.

### MarketStore and Ingestion

Time counts whole minutes: minute *m* is the bar with `open_time = 60000 m`, and a cutoff is named by the last minute closed at
it, so the comparisons of open and close times in the code become comparisons of minutes. A dataset is a record of its cutoff,
the wall-clock second of its commit, the base it was committed on and, per symbol, a function from minutes to the content of
the bar; its position in the sequence `datasets` is SQLite's `rowid`. `bars` keeps for each observed content the version that
brought it first, which is what `INSERT OR IGNORE` does. The order of `latest_committed` (`committed_at DESC, rowid DESC`) is
kept as it is, with a wall clock that may stand still between two commits and, when the instance says so, be set back.

`pc[r]` walks through the calls of `ingest_once`. Each repository call is one step (one SQLite transaction), each exchange call
is one step, and between any two of them other invocations, a failing call (`CallRaises`) or a crash can come. `Fetch` returns
for every configured symbol a set of minutes that differs from the requested range in at most `MaxDefects` minutes: missing
ones, or the still open one after the cutoff, with any content, malformed ones included. `Commit` and `RejectCommit` are the two
outcomes of `commit_dataset`, whose checks are `ValidBatch`, `BaseAccepted` and `MergedIsWhole`, in the code's order.

The process lock is left out on purpose. It guards only the command line; `commit_dataset` claims to defend the store by its
own compare-and-swap, and that is what is checked.

### Migration

`Open(o)` is the constructor of one process, from `PRAGMA table_info` on: the added columns (each `ALTER TABLE` commits by itself), the version, which is
read before the transaction, then either the whole migration or, on a migrated database, the index. The two updates are `Cleared` (a run that is not the
least committed run of its dataset and cutoff loses it) and `Adopted` (the least committed run of a cutoff without a dataset gets the only
dataset of that cutoff); the unique index refuses a result with two origins and rolls the transaction back. Initial states are the databases
earlier versions can have left. Once open, an opener records runs as ingestion does. These operators give the same tables as the
SQL on 1 500 random databases.

### Pagination, Indicators, StrategyAnalysis and RunOnce

`RunOnce` is the path of the data: minutes of a market come in by pages, are committed or rejected, and the committed dataset is analysed. The
transactions around these steps are those of `Ingestion` and `AnalysisPublication` and are not repeated. `mood` is what the exchange is like during one
fetch: *lossy* leaves out the first, middle or last minute of a page or answers nothing, *stuck* repeats minutes before the cursor, *open* adds the minute that is
not closed, *down* fails until the retries are used up. `Answer` is one iteration of the loop of `fetch_1m`, with its stop at a short page and its
exception for a page that does not advance.

`Indicators` and `StrategyAnalysis` are pure: each Python function is an operator of about its shape, on sequences of bars. Prices are naturals; fractions
are percentages, compared by cross multiplication, so no rounding enters. What the analyzer's two-step search does is kept in full, since all its
hazards are there: the 1D/4H context is evaluated at the 4H bar of the break or of the touch, the liquidity and the opposing high are the last
pivots confirmed before the touch and the sweep, the windows count hours from there. A gate result has `status`, `reason`, `value`,
`event_time` and `known_at`; time is the last minute of a bar, and `NoTime` is Python's `None`. `AnalyzeSymbol` gives the same gates, reasons, times and decision
as `analyze_symbol_v2` on the courses of the instance.

### EvidenceChecks and CasebookReader

`CasebookReader` takes one build from `_open_runs` to its last row. For each directory it reads the manifest, the names of the entries, the two
files (each read once, hashed, and used from memory), the claim, then checks place, contract and content, in the code's order; the first failed check
raises. A digest is modelled by the payload it is a digest of, so that two are equal exactly when the payloads are. The environment publishes
runs in two steps and, `MaxDamage` times, writes a file again (also a manifest whose digests are brought up to date with the
files beside it) or copies a directory to another name or day, between any two reads. `EvidenceChecks` holds the checks of indicators and decisions,
which `RunOnce` uses too: `AcceptedByReader` compares them with what the analyzer produces.

### AnalysisPublication and EvidenceLedger

One `Run` is one invocation of `analyze_latest` with its fresh run identifier; one `Reader` is one casebook command. `pc` names the
next call. A run's directory has the place it is seen at now (`place`) and the set of places a power loss can leave it at
(`onDisk`): a rename adds a possibility, an fsync of a directory removes those it makes impossible. `files` counts the files
written into it (config, decision, manifest, in this order), each synced before the next is opened; `synced` says whether the
directory's own fsync has happened, without which a power loss can leave any smaller number of files. `BoundaryOf` is the last complete hour of a cutoff, so two
cutoffs can fall into one boundary and one dataset can be analysed again.

`build_casebook` is two steps, as in the code: `ListRuns` opens every public directory first, `VerifyRun` then reads one manifest and
its claim at a time, so publications can come between. The skip path of `analyze_latest` runs the same two steps.

`EvidenceLedger` says what readers may rely on: a boundary goes from open to claimed by one run and from there to evidence of
that run, and never back. `ImplementsLedger` maps a boundary to *evidence* only when its claim is PUBLISHED **and** the directory it names is
public with all its files, to *broken* when only the claim says so; since the ledger has no such state, the refinement fails as
soon as a published claim outlives its files.

### Backup

Two names matter, the target and its rollback; the content of each is the version of the source it is a copy of. `dir` is what
processes see, `onDisk` the set of directory states a power loss can leave. `SetAside`, `Install` and `Recover` are the three places
where `os.replace` or `unlink` changes it. A copy that was installed before it was synced can come out of a power loss `Torn`.

`BackupVault` knows neither names nor failures: a version is reported with a *receipt*, it must be no older than any reported before, and from then on it is what is found; in between, anything may be found that
covers every receipt. The mapping takes the copies of the invocations that ended well for the receipts, and the newer of target and rollback, in each directory a power loss can leave, for what is found. Dropping
the rollback is `Receipt`, a commit of the source `SourceAdvances`, everything else a `Disturbance` or nothing.

### CasebookPublication and ScheduledRuns

These two compose the rest. An analysis is reduced to the two steps of `EvidenceLedger`, which `AnalysisPublication` is proved to
implement: `ClaimHour` conjoins `Claim`, `PublishHour` conjoins `Publish`. What a casebook contains is the set of boundaries the ledger
has evidence of when it is built. `CasebookPublication` follows `publish_casebook`: the lock of the output, the build, the replace and its
sync, the recovery that puts the old bytes back, the reread, then the snapshot. For every output and every snapshot there is what processes see
and the set of contents a power loss can leave; an fsync of the snapshots' parent makes all of them safe at once. `rename` does not replace
a directory that is not empty, so a snapshot that appears after the check makes it fail.

`ScheduledRuns` adds the process lock, held by whoever is in `fetch`, `claim` or `publish` (a dead process holds nothing, as with `flock`), and the
loop of the wrappers: a held lock counts an attempt, the last one ends the run. An ingestion is reduced to the last complete hour it commits, which may
skip hours. Between the end of the analysis and the casebook nothing is held, as in the script. `run-once` is an ingestion and an analysis without the
release in between; it adds no order the two commands do not have.

## 3. Runs

| Run | Question | Instance | States |
|---|---|---|---|
| `ingest_race` | do racing invocations with bad answers and failures leave whole datasets on one line? | 3 invocations, 2 symbols, cutoffs 3–5, overlap 1, bootstrap 2, one defect per fetch | 617 000 |
| `ingest_revisions` | is history kept when bars come back changed and the clock is set back? | 3 invocations, 1 symbol, two contents and a malformed one, overlap 2, clock back | 848 000 |
| `ingest_first_commit` | does a first commit give symbols one start? (no) | 1 invocation, 2 symbols | |
| `publish_safety` | do claims and directories implement the ledger through crashes and power loss? | 3 invocations, 1 reader, two cutoffs of two boundaries of 2 minutes each | 250 000 |
| `publish_retry` | may a failed analysis be repeated, as `docs/architecture.md` says? (no) | 2 invocations, one dataset | |
| `backup_safety` | is what was saved kept, and do backups implement the vault? | 3 invocations, a source of 3 versions, power loss at every step | 38 000 |
| `schedule_safety` | does the casebook keep what was reported, and a snapshot its content? | 2 analyses, 1 ingestion, 1 casebook by hand, 2 hours, 2 outputs, 2 attempts | 880 000 |
| `schedule_liveness` | do ingestion and analysis stay apart, and does every wrapper end although the lock is held again and again? | 2 analyses, 1 ingestion, any hour committed before, weak fairness, no symmetry | 78 000 |
| `snapshot_point_in_time` | does the snapshot of an hour know that hour and earlier ones only? (no) | 2 analyses, 2 ingestions, 2 hours | |
| `run_once` | is only the market analysed, without lookahead, with verdicts that stand and reports the reader accepts? | 58 courses of 64 minutes, hours of 2, 4H of 4 and days of 8 minutes, 8 server cutoffs, pages of 18, 5 moods | 115 000 |
| `casebook_reader` | is a casebook what the claims committed to, each run once and nothing left out, while files change under the reader? | 2 runs of the present strategy, 1 of the former, 2 changes | 683 000 |
| `migration` | are origins unique, real, found and final when openers race and crash? | 2 openers, 3 runs, 2 cutoffs, 2 datasets, 1 crash or time-out, every legacy database of that size | 102 000 |

Why these bounds are enough to show something:

- *Three invocations.* Two are needed for a race; the third commits, publishes or reads what the race left. In the runs with
  two, the question is about one invocation, or about one after another.
- *Cutoffs 3–5 with overlap 1 or 2.* A second commit on top of a first is incremental, a third inherits from an inherited
  dataset, and a later invocation with an earlier cutoff takes the branch "cutoff regressed". Overlap 2 has a minute that is
  fetched again strictly inside it.
- *One defect per fetch.* One minute missing at the start, in the middle or at the end of what was asked, or the open minute
  added: the four shapes the checks tell apart. The theorems hold without the bound.
- *Two boundaries.* Enough for a run of one boundary to be taken for another's. With `Hour = 2` cutoffs 2 and 3 belong to
  boundaries 1 and 3; the repeat on one boundary comes from several invocations pinning one dataset.
- *Two hours, two outputs, two attempts.* One hour published while another's casebook is being built; two commands that do not share an output lock
  and meet at one snapshot; one attempt that fails and one more. In `schedule_safety` the casebook command by hand is the third publisher.
  `schedule_liveness` starts on a store that may already hold hours (`FirstHours`), so that an ingestion can commit while an earlier hour is analysed.
- *Small hours and days.* The analyzer compares bar counts and close times, never lengths of days, so an hour of two minutes is enough for one minute
  of the next hour to be there and one of this hour to be missing. The base course passes all nine gates and then leaves the setup behind;
  the others move one price of one hour of it, from the break on, or fall throughout. Eight cutoffs, one of them inside an hour, show the setup waiting, passing
  and being searched again. A bootstrap of two pages of 18 fills a page exactly.
- *Two changes under the reader.* One change of a file and one of its manifest, which hides the first; or a copy and a change of the copy.
- *Three runs, two cutoffs, two datasets, two openers.* Two runs compete for a dataset and one is recorded later; two datasets of one cutoff have no only one;
  one opener is late with what it read.
- *Three source versions.* One saved, one being saved over it, one the source goes on to while the copy is made.

**Deadlock** is checked in every run but one; an instance that has used up its identifiers takes the step `Exhausted`. `casebook_reader` has one build, and when
it has ended and nothing is left to publish or to change, the system has stopped.

**Symmetry** permutes run, process and symbol identifiers in the safety runs only: no definition tells them apart, and in those runs `CHOOSE` is
used for `LatestVersion` alone, whose witness is unique.

**Fairness.** `analyze_latest`, `build_casebook`, `publish_casebook` and the wrappers are sequential code without a loop that waits for anybody: exchange calls
have a timeout and a bounded number of retries (`binance.py`), SQLite a busy timeout, file locks are non-blocking and the wrappers count their attempts. So a process that
is not killed takes its next step or has its call raise: weak fairness of each process's own next step, and no fairness at all of
crashes, of new datasets, or of starting anything. `EveryCommandStops` rests on it with each process on its own, `IngestionEnds` with the single thread of `run_once`. In `Migration` fairness covers a
little more: an opener that failed is run again, as the scheduler does every hour. That is what "transient" means there: `EventuallyOpen` says that running it
again is enough.

### What the runs that expect a violation show

1. `publish_retry`. `docs/architecture.md:17` says that a committed dataset may be analysed again after an analysis-only failure.
   The code keeps the claim of the failed analysis, and every later invocation on that dataset answers "analysis boundary already
   claimed but not published" (`orchestrator.py:167`). The newer design document asks for what the code does, so the sentence is
   out of date.
2. `ingest_first_commit`. `commit_dataset` demands of a base that all symbols start at the same minute (`storage.py:387-392`), but
   accepts a first commit whose symbols do not. Ingestion then refuses every batch until the database is replaced.
3. `snapshot_point_in_time`. The wrapper builds the casebook after the process lock is released (`scheduled-analysis.sh:50`). If the next hour is published
   in between, the snapshot named after the earlier hour contains the later one's evidence, against "Point-in-time casebook" (`README.md:115-133`).

Two more limits of the code are known; no run is spent on them:

- `latest_committed` orders by the wall clock first (`storage.py:161`). After the clock is set back between two commits the older dataset is
  answered, and the newer version stays unused until a commit stamped later. `CutoffNeverRegresses` still holds, and `DatasetsFormOneLine` has the
  clock as its hypothesis.
- `_publish_snapshot` takes a snapshot that is already there with the same bytes for published, without syncing its parent (`casebook.py:671-688`). When
  the command that renamed it died before its own sync, a power loss can still take it. What holds is `SnapshotsAreImmutable`: no command changes a snapshot,
  and once synced it stays.

## 4. What is proved

TLAPS checks the theorems for every universe, number of invocations, window and set of cutoffs. The assumptions are those named in the
modules: the universe is not empty, cutoffs are natural numbers, overlap, bootstrap and hour are positive, identifiers of runs, readers, ingestions and
operators are disjoint and none of them is the value for "no run", boundaries are positive, a published manifest names its run and its boundary is its own, every minute up to a cutoff of the exchange
clock is in the market, and what `config.py` validates of a strategy. Each assumption is evaluated by TLC on the instance of a passing run. Two theorems have a hypothesis:

- `DatasetsFormOneLine`: the wall clock is never set back. Without it the theorem is false.
- `VerdictsAreFinal`: the overlap is at most a day. `overlap_bars` is not validated (`config.py:54`); the default is 5 minutes. The first minutes of a dataset can only be
  fetched again, and earlier ones with them, while the dataset is shorter than the overlap. With the hypothesis it then has no whole day, so no gate has passed; with a longer
  overlap, minutes that appear at the front could complete an earlier day and change the context.

**Ingestion.** The inductive invariant has three layers.

- `Inv`: tables and locals are typed (`Typed`), the cutoff an invocation uses was set (`Locals`), and a repository that is
  not empty has a latest dataset (`HasLatest`: the order of `latest_committed` is total, so `CHOOSE` finds exactly one). From it
  `CutoffNeverRegresses`: a commit is only accepted on the latest dataset with a cutoff at least as large, and whether the new dataset or
  the old one is answered afterwards, the answer is no smaller.
- `DatasetsWhole` is itself inductive. The step is about intervals: two contiguous sets of minutes that overlap and
  both end at their cutoffs have a contiguous union, and the overlap is what `OverlapsBase` guarantees. The same lemma shows that the last check of
  `commit_dataset` can reject nothing (`MergedCheckIsRedundant`). `RunsFollow` ties a run's row to where its invocation is; with it every
  dataset keeps exactly one origin, a COMMITTED row is never written again, and an invocation that has ended has said how.
- `BaseKnown` says what an invocation holds about its base: it is an existing dataset with a smaller cutoff, and nothing
  in the batch is older than the overlap. That yields `HistoryPreserved`. `Stamped` (time stamps grow with the version) makes the latest dataset
  the last one, and then the compare-and-swap gives one line (`OneLineage`).

**AnalysisPublication.** `Inv` has one part per kind of state: `RunInv` (a publishing invocation owns the CLAIMED row of its boundary; what it has
written, synced and renamed follows its `pc`; a public directory that a power loss could leave is complete), `ClaimInv` (a published claim's run has
ended and its directory can only be found in public), `RowInv` (builds list published runs only). `PowerLoss` is the step that needs all of
them: whatever it takes away, it takes from a run that does not have a PUBLISHED claim. The six state properties of `publish_safety` are consequences,
and `LedgerIsImplemented` proves the refinement: the INSERT of a claim is `Claim`, its UPDATE is `Publish`, everything else stutters.

**Migration.** `Inv` says that a dataset a run names is of the run's own cutoff (true of every legacy database, and never lost) and that an opener which is past a step
finds what the step left. That the origins are unique is not an invariant before the migration; after it, it is kept by the unique index alone, and the proof shows
that a second, late migration changes nothing: on a table of real origins `Cleared` is the identity, and `Adopted` can only give a dataset that some earlier run would then
already have. `LegacyOriginFound` needs that MIN exists, which is well-foundedness of `<` on the naturals.

**Backup.** The invariant orders the copies: whoever holds the lock has a copy at least as new as everything saved (`NewerThanSaved`), and from the set-aside to the end
of the recovery the old target is at the rollback (`OldCopyIsKept`). With `NewCopyIsInstalled`, the rollback is dropped only when nothing else than the new copy can be found at
the target. `SuccessfulBackupSurvives` speaks of what a power loss can leave, so it is inductive only with these three.
`VaultIsImplemented` needs one more, `NothingNewer`: nothing that can be found is newer than the source, nor newer than the copy about to take its place. So an overlapping backup can never put an older copy over a newer one, and when
the rollback goes, the new copy is the newest there is.

**CasebookReader.** The reader holds no lock, so the proof rests on the order of its reads: what was read agrees with the manifest read before it, and the claim, looked up last, commits
to that manifest (`ReaderFollows`). A claim is only ever added, and only a publication adds one. `Accounted` splits the discovered directories into read, unread and the one being read.
`OnlyDamageStopsABuild` is the other direction and needs another invariant, `Undamaged`: as long as nothing was damaged, every directory is that of a run, and so is what has been read of
the one in hand. A publication between two reads does not disturb it, since it takes a place where nothing was (`PublishDirectory`) and no two runs have one place. What the analyses
write is said by `WrittenAssumption`, from the writers' side: a run is stored under the day of its cutoff, its boundary ends the last whole hour. That the reader finds the same boundary is proved
(`BoundaryOfWritten`). That the indicators fit is assumed here, and is what `ReportsAreAccepted` proves of `RunOnce`.

**The analyzer.** The operators of `Indicators` and `StrategyAnalysis` are proved about for every gap free market (minutes *a* to *b*) and every strategy the configuration allows.

- `ResampleIsWholeBars` is the bottom: resampling gives exactly the groups all of whose minutes are there, one after another. So the bars are a *timeline* (consecutive, ends at multiples of the time frame), and the
  bars of the minutes up to a time are the beginning of the bars closed by it. `WholeHoursDecide` follows: days and 4H bars end with whole hours, so what comes after the last of them changes nothing.
- Each search is then compared on two markets that agree up to some bar (`Agree`): a pivot, a touch, a sweep, a displacement, a gap found in one is found in the other once all the bars it needs are shared. What it needs is
  exactly what `known_at` says, except for the reference of the order block (the last broken high), which is why `SettledVerdicts` speaks of the same order block only.
- `InTurn` takes `Then` apart: gate *i* is its candidate when all before it have passed, and UNAVAILABLE otherwise. With it the lemmas about single gates become `NoLookahead` (gates that passed by *k* are the same on the minutes up to
  *k*), `SettledVerdicts`, `TimesFit` and `StoryInOrder`.

The proofs do not unfold how candle bodies are sorted for their median, nor the sum behind the average true range (`Total`): both markets apply the same function to the same bars, and the last gate has no times.

**RunOnce.** `Inv` has five parts: types; `DatasetOK` (the dataset is a gap free range that ends at a cutoff of the exchange clock); `ReportOK` (the report is that of the dataset, and between a commit and its
analysis that of a dataset the new one extends); `FetchOK` (what was asked for, and that nothing before it came unless the fetch raised); `HonestOK` (an honest exchange has answered each minute from the start to the cursor once). The
last two are what makes it inductive: that a commit continues the dataset, and that an honest fetch passes the checks, depends on the pages so far. TLC has checked `Inv` on the instance of `run_once` and on one whose overlap is longer than
its bootstrap. The seven safety properties of `run_once` follow from `Inv` and the theorems about the analyzer; `VerdictsAreFinal` compares the datasets before and after an analysis, which share every minute up to the earlier boundary.
`FetchesAreBounded` is the part of `IngestionEnds` that is not fairness: a step of a fetch that does not end it moves the cursor on, never beyond the end of what was asked for, or uses up a retry.

**ScheduledRuns.** `OutputKept` is the heart: everything a power loss may leave at an output contains what was reported there, and so does what the one publication that owns
the output has built and what it would put back. The built casebook does because evidence only grows and is reported only after it is in the ledger (`EvidenceFirst`); the old one because it was
there. A publication is done only after its sync has made its own casebook the only possible content. `UnderProcessLock` gives `AnalysisSeesNoIngestion`; `SnapshotKept` (a power loss takes a
snapshot or leaves it as it is) gives `SnapshotsAreImmutable`. The run `schedule_liveness` checks `AnalysisSeesNoIngestion` under fairness; the theorem is about the specification without it.

Two more theorems say what `EveryCommandStops` needs besides fairness. `CommandsAreBounded` gives each command a number of steps that its own steps lower and nobody else's raise, a failed attempt at the process
lock included. `EveryStepIsPossible` says that no command waits for another: the only steps whose conditions read shared state are the two of the ledger, and there the hour is open, published or claimed (`OwnClaim`: an
analysis has no row before its claim, and until it has published, that row is its own). They need the attempts and the rows as an invariant besides `Inv` (`Progressing`). From the two, fairness gives
`EveryCommandStops`; that last step, about ENABLED, is TLC's.

Proved though no run lists them: `MergedCheckIsRedundant`, `CommittedIsFinal`, `SkipAddsNothing`, `RollbackNeverOverwritten`, the type invariant of `Backup`, `CommandsAdvance`, `NobodyWaits` and `FetchAdvances`.

**Only model-checked:** the liveness properties `EveryCommandStops`, `IngestionEnds` and `EventuallyOpen`, which are outside what the prover does (for the first two everything but the step from fairness is proved, see above). Every safety invariant, action property and refinement of a passing run
is stated by a theorem.

## 5. Assumptions of the models

- A SQLite transaction is atomic and durable once it returned. The code sets neither `synchronous` nor a journal mode that would weaken this.
- `data_root/runs` itself is on disk. `_publish` syncs the run, `.tmp`, the day and `runs`, but never the directory that holds `runs`; this matters
  only until that entry is written for the first time (listed as a hazard).
- Listing `runs/` is one step. `_open_runs` walks day by day; a directory that appears during the walk may or may not be listed, as it may
  in the model by appearing before or after the step.
- Losing files in a power loss is counted, not named: what matters is whether all three are there.
- A batch holds at most one bar per minute and symbol, and one content per fetch and symbol. Duplicates fail the consecutive check of
  `commit_dataset` like a gap does.
- The unique index on `ingestion_runs.dataset_version` never fires in the model, since a commit always names a version it has just inserted;
  `OneOrigin` shows that nothing else would make it fire.
- In `AnalysisPublication` the latest cutoff only grows, which `NoCutoffRegression` proves of `Ingestion`.
- A casebook build always can succeed in `ScheduledRuns`. In the code one public directory without a PUBLISHED claim makes every build fail until it
  is removed; `AnalysisPublication` has that, and a build that fails is one of the failures here too.
- `run-once`, `ingest-once` and `analyze-once` hold the process lock while they open the repository, and `backup` and `casebook` open the database read-only, so racing openers in `Migration`
  are callers of `Orchestrator` or `MarketRepository` other than the command line. SQLite's busy time-out is one of the ways to `Stop`.
- A legacy database in which a committed run without a dataset sorts before the run that names the only dataset of its cutoff would make the migration fail for ever, since the second update then
  gives one dataset to two runs. No earlier version leaves such a table: without the column no run names a dataset, with it every committed run does.
- An hour whose wrapper gave up or failed before its claim is analysed only when its command runs again before the next ingestion; nothing catches up.
- Windows that are still open are reported as expired, with FAIL, and may pass in a later hour; `VerdictsStand` speaks of verdicts that have waited to the end of their window.
- The strategy is long only, and the short direction of the indicators is left out, as are volumes, reported levels, the wording of results and the precision of `Decimal`. Two
  branches of the analyzer that no input reaches (`poi_known_at is None`, `sweep_index is None`) are left out too.
- The reader takes directories in the order of their names. That a published manifest names its own run and a boundary of its own (`PublishedAssumption`) is what
  `AnalysisPublication` guarantees. `WrittenAssumption` says what `_publish` writes, and of the former strategy what its runs look like on disk: no code of the repository writes them any more.
- Each output has a directory of its own, so one output's sync makes no other safe; the directory that holds the snapshots exists and is on disk.

## 6. What is left

- The composition of `CasebookReader` with `AnalysisPublication` beyond `BuiltFromPublishedOnly`: damage under a build that races real publications with power loss.
- The short direction of the indicators, once the strategy asks for it, and `pipeline/analysis.py`'s own `analyze_symbol`, which only a test calls.

Not modelled, and why:

- `config.py` and `models.py` hold immutable values and their validation; the ranges they enforce are the assumptions of `Indicators`.
- `scripts/daily-summary.py` and the summary counts of the casebook are reports derived from what is modelled.
- The HTTP layer and argument parsing keep no state.
- The arithmetic of `Decimal` (rounding of levels, fees and sizes) has no state and is the business of the unit tests.
