------------------------------ MODULE MarketStore ------------------------------
(* The SQLite market repository of storage.py: datasets, the bars they hold    *)
(* and the ingestion runs that made them.  One action per repository method    *)
(* that writes; each is one SQLite transaction and therefore one step.         *)
(*                                                                             *)
(* Time is counted in whole minutes: minute m is the bar whose open_time is    *)
(* m * 60000 and whose close_time is 59999 later, and a cutoff is named by the *)
(* last minute that is closed at it.  A dataset's version is its rowid, that   *)
(* is, its position in "datasets".  The content of a bar is a Revision: two    *)
(* different contents of one minute are two revisions.                         *)
EXTENDS Integers, Sequences

CONSTANTS
  Symbol,     \* {"BTCUSDT", "ETHUSDT"}, the universe commit_dataset requires
  Revision,   \* the contents a bar can have
  Malformed,  \* the revisions whose prices contradict each other
  Run         \* ingestion run identifiers, each used at most once

ASSUME SymbolAssumption == Symbol # {}
ASSUME MalformedAssumption == Malformed \subseteq Revision

VARIABLES
  datasets,   \* table datasets with its dataset_bars, in rowid order
  bars,       \* table bars: <<symbol, minute, revision>> |-> first version
  runs,       \* table ingestion_runs
  clock       \* CURRENT_TIMESTAMP, one-second resolution wall clock

storeVars == <<datasets, bars, runs, clock>>

NoVersion == 0          \* SQL NULL in dataset_version, Python None for a base
NoCutoff == -1          \* SQL NULL in ingestion_runs.cutoff

RunStatus == {"ABSENT", "FETCHING", "COMMITTED", "FAILED"}

--------------------------------------------------------------------------------
(* Queries *)

\* ORDER BY committed_at DESC, rowid DESC: v is listed before w, or is w.
ListedFirst(v, w) ==
  \/ datasets[w].committedAt < datasets[v].committedAt
  \/ datasets[w].committedAt = datasets[v].committedAt /\ w <= v

IsLatest(v) == v \in DOMAIN datasets /\ \A w \in DOMAIN datasets : ListedFirst(v, w)

LatestVersion ==
  IF datasets = <<>> THEN NoVersion ELSE CHOOSE v \in DOMAIN datasets : IsLatest(v)

\* committed_ingestion_for_dataset: the runs its join returns; the method
\* answers only when there is exactly one.
OriginRuns(v) ==
  {r \in Run : /\ runs[r].status = "COMMITTED"
               /\ runs[r].dataset = v
               /\ runs[r].cutoff = datasets[v].cutoff}

--------------------------------------------------------------------------------
(* What commit_dataset verifies *)

Contiguous(M) == \A m, n \in M : m..n \subseteq M
EndsAt(M, m) == m \in M /\ \A n \in M : n <= m
StartsAt(M, m) == m \in M /\ \A n \in M : m <= n

\* One symbol's rows: well formed, closed, gap free, up to the watermark.
ValidRows(rows, cutoff) ==
  /\ \A m \in DOMAIN rows : rows[m] \notin Malformed /\ m <= cutoff
  /\ Contiguous(DOMAIN rows)
  /\ EndsAt(DOMAIN rows, cutoff)

ValidBatch(batch, cutoff) ==
  /\ DOMAIN batch = Symbol
  /\ \A s \in Symbol : ValidRows(batch[s], cutoff)

\* Every symbol of the dataset starts at the same minute.
LineageStartsAgree(v) ==
  \E t \in Symbol : \E m \in DOMAIN datasets[v].bars[t] :
    \A s \in Symbol : StartsAt(DOMAIN datasets[v].bars[s], m)

OverlapsBase(batch, base) ==
  \A s \in Symbol : \E m \in DOMAIN batch[s] : m <= datasets[base].cutoff

\* Variant: the base only has to exist, without the compare-and-swap.
BaseAccepted_NoSwap(batch, cutoff, base) ==
  IF base = NoVersion
  THEN datasets = <<>>
  ELSE /\ base \in DOMAIN datasets
       /\ datasets[base].cutoff <= cutoff
       /\ LineageStartsAgree(base)
       /\ OverlapsBase(batch, base)

\* The compare-and-swap on the base version and the checks on the base.
BaseAccepted(batch, cutoff, base) ==
  IF base = NoVersion
  THEN datasets = <<>>
  ELSE /\ base \in DOMAIN datasets
       /\ LatestVersion = base
       /\ datasets[base].cutoff <= cutoff
       /\ LineageStartsAgree(base)
       /\ OverlapsBase(batch, base)

\* The rows copied from the base up to the cutoff, overlaid with the batch.
MergedRows(batch, cutoff, base) ==
  LET kept == [s \in Symbol |->
                 IF base = NoVersion THEN {}
                 ELSE {m \in DOMAIN datasets[base].bars[s] : m <= cutoff}]
  IN [s \in Symbol |->
        [m \in kept[s] \cup DOMAIN batch[s] |->
           IF m \in DOMAIN batch[s] THEN batch[s][m] ELSE datasets[base].bars[s][m]]]

BatchKeys(batch) ==
  UNION {{<<s, m, batch[s][m]>> : m \in DOMAIN batch[s]} : s \in DOMAIN batch}

\* Variant: INSERT OR REPLACE.
ObservedBars_Replace(batch, version) ==
  [k \in DOMAIN bars \cup BatchKeys(batch) |->
     IF k \in BatchKeys(batch) THEN version ELSE bars[k]]

\* INSERT OR IGNORE: a revision already observed keeps its first version.
ObservedBars(batch, version) ==
  [k \in DOMAIN bars \cup BatchKeys(batch) |->
     IF k \in DOMAIN bars THEN bars[k] ELSE version]

\* The final check inside the transaction, over dataset_bars JOIN bars.
MergedIsWhole(merged, observed, cutoff) ==
  \A s \in Symbol :
    LET joined == {m \in DOMAIN merged[s] : <<s, m, merged[s][m]>> \in observed}
    IN Contiguous(joined) /\ EndsAt(joined, cutoff)

\* Variant: the batch is trusted, only its base is checked.
CommitAccepted_NoValidation(batch, cutoff, base) ==
  BaseAccepted(batch, cutoff, base)

CommitAccepted(batch, cutoff, base) ==
  /\ ValidBatch(batch, cutoff)
  /\ BaseAccepted(batch, cutoff, base)
  /\ MergedIsWhole(MergedRows(batch, cutoff, base),
                   DOMAIN bars \cup BatchKeys(batch), cutoff)

--------------------------------------------------------------------------------
(* Transactions *)

StartIngestion(r) ==
  /\ runs[r].status = "ABSENT"
  /\ runs' = [runs EXCEPT ![r].status = "FETCHING"]
  /\ UNCHANGED <<datasets, bars, clock>>

SetIngestionCutoff(r, cutoff) ==
  /\ runs' = [runs EXCEPT ![r].cutoff = cutoff]
  /\ UNCHANGED <<datasets, bars, clock>>

FailIngestion(r) ==
  /\ runs' = [runs EXCEPT ![r].status = "FAILED"]
  /\ UNCHANGED <<datasets, bars, clock>>

CompleteIngestion(r) ==
  /\ runs' = [runs EXCEPT ![r].status = "COMMITTED"]
  /\ UNCHANGED <<datasets, bars, clock>>

\* Variant: the run is recorded with a version nobody inserted.
CommitDataset_Dangling(r, batch, cutoff, base) ==
  LET version == Len(datasets) + 1
  IN /\ CommitAccepted(batch, cutoff, base)
     /\ datasets' = Append(datasets,
                      [cutoff |-> cutoff, committedAt |-> clock, base |-> base,
                       bars |-> MergedRows(batch, cutoff, base)])
     /\ bars' = ObservedBars(batch, version)
     /\ runs' = [runs EXCEPT ![r].status = "COMMITTED", ![r].dataset = version + 1]
     /\ UNCHANGED clock

CommitDataset(r, batch, cutoff, base) ==
  LET version == Len(datasets) + 1
  IN /\ CommitAccepted(batch, cutoff, base)
     /\ datasets' = Append(datasets,
                      [cutoff |-> cutoff, committedAt |-> clock, base |-> base,
                       bars |-> MergedRows(batch, cutoff, base)])
     /\ bars' = ObservedBars(batch, version)
     /\ runs' = [runs EXCEPT ![r].status = "COMMITTED", ![r].dataset = version]
     /\ UNCHANGED clock

StoreInit ==
  /\ datasets = <<>>
  /\ bars = [k \in {} |-> NoVersion]
  /\ runs = [r \in Run |-> [status |-> "ABSENT", cutoff |-> NoCutoff, dataset |-> NoVersion]]
  /\ clock = 0
================================================================================
