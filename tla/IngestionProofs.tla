---------------------------- MODULE IngestionProofs ----------------------------
(* Theorems about Ingestion, for every universe, every window of the           *)
(* configuration, every number of invocations and every behaviour of the wall  *)
(* clock: types and the latest dataset; what the market store accumulates      *)
(* (whole datasets, rows that are never rewritten, one origin per dataset);    *)
(* how one dataset follows from another, and, while the wall clock is never    *)
(* set back, that the datasets form one line.                                  *)
EXTENDS Ingestion, FiniteSetTheorems, TLAPS

Rows == UNION {[M -> Revision] : M \in SUBSET Int}
Dataset == [cutoff : Nat, committedAt : Nat, base : Nat, bars : [Symbol -> Rows]]
Batch == UNION {[T -> Rows] : T \in SUBSET (Symbol \cup Configured)}
RunRow == [status : RunStatus, cutoff : Nat \cup {NoCutoff}, dataset : Nat]

\* The tables and locals as sets of functions, which is what the provers need.
Typed ==
  /\ datasets \in Seq(Dataset)
  /\ \A v \in DOMAIN datasets : datasets[v].base < v
  /\ DOMAIN bars \subseteq Symbol \X Int \X Revision
  /\ \A k \in DOMAIN bars : bars[k] \in DOMAIN datasets
  /\ runs \in [Run -> RunRow]
  /\ \A r \in Run : runs[r].dataset \in DOMAIN datasets \cup {NoVersion}
  /\ clock \in Nat
  /\ pc \in [Run -> {"idle"} \cup Running \cup Stopped]
  /\ cutoff \in [Run -> Nat \cup {NoCutoff}]
  /\ base \in [Run -> Nat]
  /\ \A r \in Run : base[r] \in DOMAIN datasets \cup {NoVersion}
  /\ batch \in [Run -> Batch]

\* A local is set in the steps that use it.
Locals ==
  \A r \in Run :
    pc[r] \in {"store_cutoff", "latest", "complete", "fetch", "commit"} => cutoff[r] \in Nat

\* A non-empty repository has a latest dataset: no clock reading can hide all.
HasLatest == datasets # <<>> => \E v \in DOMAIN datasets : IsLatest(v)

Inv == Typed /\ Locals /\ HasLatest

--------------------------------------------------------------------------------
(* The order of latest_committed *)

\* Appending to a sequence, pointwise.
LEMMA Appended ==
  ASSUME NEW S, NEW s \in Seq(S), NEW e \in S
  PROVE  /\ Append(s, e) \in Seq(S)
         /\ Len(Append(s, e)) = Len(s) + 1
         /\ DOMAIN s = 1..Len(s)
         /\ DOMAIN Append(s, e) = 1..(Len(s) + 1)
         /\ \A i \in 1..Len(s) : Append(s, e)[i] = s[i]
         /\ Append(s, e)[Len(s) + 1] = e
  OBVIOUS

\* The fields of a dataset, in the types the order of the query needs.
LEMMA DatasetTypes ==
  ASSUME Typed
  PROVE  /\ Len(datasets) \in Nat
         /\ DOMAIN datasets = 1..Len(datasets)
         /\ \A v \in DOMAIN datasets :
              /\ v \in Nat \ {0}
              /\ datasets[v] \in Dataset
              /\ datasets[v].cutoff \in Nat
              /\ datasets[v].committedAt \in Nat
              /\ datasets[v].base \in 0..(v - 1)
              /\ datasets[v].bars \in [Symbol -> Rows]
<1>1. Len(datasets) \in Nat /\ DOMAIN datasets = 1..Len(datasets)
  BY DEF Typed
<1>2. \A v \in DOMAIN datasets : datasets[v] \in Dataset /\ datasets[v].base < v
  BY <1>1 DEF Typed
<1>3. \A d \in Dataset : /\ d.cutoff \in Nat /\ d.committedAt \in Nat
                         /\ d.base \in Nat /\ d.bars \in [Symbol -> Rows]
  BY DEF Dataset
<1>4. QED
  BY <1>1, <1>2, <1>3

\* Two versions that are both listed first are one.
LEMMA LatestIsUnique ==
  ASSUME Typed, NEW v, NEW w, IsLatest(v), IsLatest(w)
  PROVE  v = w
<1>1. v \in DOMAIN datasets /\ w \in DOMAIN datasets
  BY DEF IsLatest
<1>2. ListedFirst(v, w) /\ ListedFirst(w, v)
  BY <1>1 DEF IsLatest
<1>3. QED
  BY <1>1, <1>2, DatasetTypes DEF ListedFirst

\* LatestVersion answers the version that is listed first.
LEMMA LatestVersionIs ==
  ASSUME Typed, NEW v, IsLatest(v)
  PROVE  LatestVersion = v /\ datasets # <<>>
<1>1. datasets # <<>>
  BY DEF IsLatest, Typed
<1>2. LatestVersion = CHOOSE u \in DOMAIN datasets : IsLatest(u)
  BY <1>1 DEF LatestVersion
<1>3. v \in DOMAIN datasets /\ IsLatest(v)
  BY DEF IsLatest
<1>4. LatestVersion \in DOMAIN datasets /\ IsLatest(LatestVersion)
  BY <1>2, <1>3
<1>5. QED
  BY <1>1, <1>4, LatestIsUnique

\* latest_committed answers a dataset, or nothing of an empty repository.
LEMMA LatestVersionType ==
  ASSUME Typed, HasLatest
  PROVE  /\ LatestVersion \in DOMAIN datasets \cup {NoVersion}
         /\ LatestVersion \in Nat
         /\ LatestVersion = NoVersion <=> datasets = <<>>
         /\ LatestVersion # NoVersion => IsLatest(LatestVersion)
<1>1. DOMAIN datasets = 1..Len(datasets) /\ Len(datasets) \in Nat
  BY DEF Typed
<1>2. CASE datasets = <<>>
  BY <1>1, <1>2 DEF LatestVersion, NoVersion
<1>3. CASE datasets # <<>>
  <2>1. PICK v \in DOMAIN datasets : IsLatest(v)
    BY <1>3 DEF HasLatest
  <2>2. LatestVersion = v
    BY <2>1, LatestVersionIs
  <2>3. QED
    BY <1>1, <1>3, <2>1, <2>2 DEF NoVersion
<1>4. QED
  BY <1>2, <1>3

--------------------------------------------------------------------------------
(* The types of what is fetched and of what is merged *)

\* Rows by what they map, and back.
LEMMA RowsAre ==
  ASSUME NEW M, NEW f
  PROVE  /\ f \in Rows => /\ DOMAIN f \subseteq Int
                          /\ \A m \in DOMAIN f : f[m] \in Revision
         /\ (M \subseteq Int /\ f \in [M -> Revision]) => f \in Rows
  BY DEF Rows

\* What the exchange returns are rows.
LEMMA FetchedRowsType ==
  ASSUME NEW start \in Int, NEW end \in Int
  PROVE  FetchedRows(start, end) \subseteq Rows
<1> DEFINE asked == start..end
           returned == {M \in SUBSET (start..(end + 1)) :
                          Cardinality((asked \ M) \cup (M \ asked)) <= MaxDefects}
<1>1. ASSUME NEW M \in returned, NEW rev \in Revision
      PROVE  [m \in M |-> rev] \in Rows
  <2>1. M \subseteq Int
    OBVIOUS
  <2>2. [m \in M |-> rev] \in [M -> Revision]
    OBVIOUS
  <2>3. QED
    BY <2>1, <2>2, RowsAre
<1> HIDE DEF returned
<1>2. FetchedRows(start, end) = UNION {{[m \in M |-> rev] : rev \in Revision} : M \in returned}
  BY DEF FetchedRows, returned
<1>3. SUFFICES ASSUME NEW x \in FetchedRows(start, end)
               PROVE  x \in Rows
  OBVIOUS
<1>4. PICK M \in returned : x \in {[m \in M |-> rev] : rev \in Revision}
  BY <1>2
<1>5. PICK rev \in Revision : x = [m \in M |-> rev]
  BY <1>4
<1>6. QED
  BY <1>1, <1>4, <1>5

\* A fetch of all configured symbols is a batch.
LEMMA FetchedBatchType ==
  ASSUME NEW start \in Int, NEW end \in Int, NEW b \in [Configured -> FetchedRows(start, end)]
  PROVE  b \in Batch
<1>1. b \in [Configured -> Rows]
  BY FetchedRowsType
<1>2. QED
  BY <1>1 DEF Batch

\* The symbols and rows of a batch.
LEMMA BatchIs ==
  ASSUME NEW b \in Batch
  PROVE  /\ DOMAIN b \subseteq Symbol \cup Configured
         /\ \A s \in DOMAIN b : b[s] \in Rows
  BY DEF Batch

\* Merging rows gives rows.
LEMMA MergedRowsType ==
  ASSUME Typed, NEW b \in Batch, DOMAIN b = Symbol, NEW c,
         NEW v \in DOMAIN datasets \cup {NoVersion}
  PROVE  MergedRows(b, c, v) \in [Symbol -> Rows]
<1> DEFINE kept(s) == IF v = NoVersion THEN {}
                      ELSE {m \in DOMAIN datasets[v].bars[s] : m <= c}
           row(s) == [m \in kept(s) \cup DOMAIN b[s] |->
                        IF m \in DOMAIN b[s] THEN b[s][m] ELSE datasets[v].bars[s][m]]
<1>1. MergedRows(b, c, v) = [s \in Symbol |-> row(s)]
  BY DEF MergedRows
<1>2. ASSUME NEW s \in Symbol
      PROVE  row(s) \in Rows
  <2>1. DOMAIN b[s] \subseteq Int /\ \A m \in DOMAIN b[s] : b[s][m] \in Revision
    BY BatchIs, RowsAre
  <2>2. v # NoVersion => /\ DOMAIN datasets[v].bars[s] \subseteq Int
                         /\ \A m \in DOMAIN datasets[v].bars[s] :
                              datasets[v].bars[s][m] \in Revision
    <3>1. v # NoVersion => datasets[v].bars[s] \in Rows
      BY DatasetTypes
    <3>2. QED
      BY <3>1, RowsAre
  <2>3. kept(s) \cup DOMAIN b[s] \subseteq Int
    BY <2>1, <2>2
  <2>4. \A m \in kept(s) \cup DOMAIN b[s] :
          (IF m \in DOMAIN b[s] THEN b[s][m] ELSE datasets[v].bars[s][m]) \in Revision
    BY <2>1, <2>2
  <2>5. row(s) \in [kept(s) \cup DOMAIN b[s] -> Revision]
    BY <2>4
  <2> HIDE DEF kept, row
  <2>6. QED
    BY <2>3, <2>5, RowsAre
<1> HIDE DEF row
<1>3. QED
  BY <1>1, <1>2

\* The bars of a batch are well typed.
LEMMA BatchKeysType ==
  ASSUME NEW b \in Batch, DOMAIN b = Symbol
  PROVE  BatchKeys(b) \subseteq Symbol \X Int \X Revision
<1> SUFFICES ASSUME NEW k \in BatchKeys(b)
             PROVE  k \in Symbol \X Int \X Revision
  OBVIOUS
<1>1. PICK s \in Symbol : k \in {<<s, m, b[s][m]>> : m \in DOMAIN b[s]}
  BY DEF BatchKeys
<1>2. PICK m \in DOMAIN b[s] : k = <<s, m, b[s][m]>>
  BY <1>1
<1>3. m \in Int /\ b[s][m] \in Revision
  BY <1>2, BatchIs, RowsAre
<1>4. QED
  BY <1>2, <1>3

--------------------------------------------------------------------------------
(* Typed and Locals are inductive *)

Labels == {"idle"} \cup Running \cup Stopped

\* The part of Typed about the store, and the part about the invocations.
StoreTyped ==
  /\ datasets \in Seq(Dataset)
  /\ \A v \in DOMAIN datasets : datasets[v].base < v
  /\ DOMAIN bars \subseteq Symbol \X Int \X Revision
  /\ \A k \in DOMAIN bars : bars[k] \in DOMAIN datasets
  /\ runs \in [Run -> RunRow]
  /\ \A r \in Run : runs[r].dataset \in DOMAIN datasets \cup {NoVersion}
  /\ clock \in Nat

AttemptsTyped ==
  /\ pc \in [Run -> Labels]
  /\ cutoff \in [Run -> Nat \cup {NoCutoff}]
  /\ base \in [Run -> Nat]
  /\ \A r \in Run : base[r] \in DOMAIN datasets \cup {NoVersion}
  /\ batch \in [Run -> Batch]

\* Typed is about the tables and about the invocations.
LEMMA TypedParts == Typed <=> StoreTyped /\ AttemptsTyped
  BY DEF Typed, StoreTyped, AttemptsTyped, Labels

\* The first of the three facts about the invariant.
LEMMA InitTyped == Init => Typed /\ Locals /\ HasLatest
<1> SUFFICES ASSUME Init PROVE Typed /\ Locals /\ HasLatest
  OBVIOUS
<1>1. datasets \in Seq(Dataset) /\ DOMAIN datasets = {}
  BY DEF Init, StoreInit
<1>2. DOMAIN bars = {}
  BY DEF Init, StoreInit
<1>3. runs \in [Run -> RunRow] /\ \A r \in Run : runs[r].dataset = NoVersion
  BY DEF Init, StoreInit, RunRow, RunStatus, NoVersion
<1>4. NoBatch \in Batch
  BY DEF NoBatch, Batch
<1>5. pc \in [Run -> Labels] /\ cutoff \in [Run -> Nat \cup {NoCutoff}]
      /\ base \in [Run -> Nat] /\ batch \in [Run -> Batch]
  BY <1>4 DEF Init, Labels, NoVersion
<1>6. StoreTyped
  BY <1>1, <1>2, <1>3 DEF StoreTyped, Init, StoreInit
<1>7. AttemptsTyped
  BY <1>5 DEF AttemptsTyped, Init
<1>8. Locals
  BY DEF Init, Locals
<1>9. HasLatest
  BY DEF Init, StoreInit, HasLatest
<1>10. QED
  BY <1>6, <1>7, <1>8, <1>9, TypedParts

\* A transaction that writes one run's row keeps the store typed.
LEMMA RunWritten ==
  ASSUME Typed, UNCHANGED <<datasets, bars, clock>>, NEW r \in Run, NEW row \in RunRow,
         row.dataset \in DOMAIN datasets \cup {NoVersion}, runs' = [runs EXCEPT ![r] = row]
  PROVE  StoreTyped'
  BY DEF Typed, StoreTyped

\* A step that writes no table keeps them typed.
LEMMA StoreUnchanged ==
  ASSUME Typed, UNCHANGED storeVars
  PROVE  StoreTyped'
  BY DEF Typed, StoreTyped, storeVars

\* A run's row after each of the transactions that write only it.
LEMMA RowWrites ==
  ASSUME Typed, NEW r \in Run
  PROVE  /\ \A st \in RunStatus :
              /\ [runs[r] EXCEPT !.status = st] \in RunRow
              /\ [runs[r] EXCEPT !.status = st].dataset = runs[r].dataset
              /\ [runs EXCEPT ![r].status = st] = [runs EXCEPT ![r] = [runs[r] EXCEPT !.status = st]]
         /\ \A c \in Nat :
              /\ [runs[r] EXCEPT !.cutoff = c] \in RunRow
              /\ [runs[r] EXCEPT !.cutoff = c].dataset = runs[r].dataset
              /\ [runs EXCEPT ![r].cutoff = c] = [runs EXCEPT ![r] = [runs[r] EXCEPT !.cutoff = c]]
         /\ runs[r].dataset \in DOMAIN datasets \cup {NoVersion}
<1>1. runs[r] \in RunRow
  BY DEF Typed
<1>2. runs[r].dataset \in DOMAIN datasets \cup {NoVersion}
  BY DEF Typed
<1>3. QED
  BY <1>1, <1>2 DEF RunRow

\* A step of one invocation that leaves its locals well typed.
LEMMA LocalsWritten ==
  ASSUME Typed, Locals, NEW r \in Run, NEW label \in Labels,
         NEW c \in Nat \cup {NoCutoff}, NEW v \in DOMAIN datasets \cup {NoVersion},
         NEW b \in Batch,
         label \in {"store_cutoff", "latest", "complete", "fetch", "commit"} => c \in Nat,
         DOMAIN datasets \subseteq DOMAIN datasets',
         pc' = [pc EXCEPT ![r] = label], cutoff' = [cutoff EXCEPT ![r] = c],
         base' = [base EXCEPT ![r] = v], batch' = [batch EXCEPT ![r] = b]
  PROVE  AttemptsTyped' /\ Locals'
<1>1. v \in Nat
  BY DatasetTypes DEF NoVersion
<1>2. pc \in [Run -> Labels] /\ cutoff \in [Run -> Nat \cup {NoCutoff}]
      /\ base \in [Run -> Nat] /\ batch \in [Run -> Batch]
      /\ \A q \in Run : base[q] \in DOMAIN datasets \cup {NoVersion}
  BY DEF Typed, Labels
<1> HIDE DEF Labels
<1>3. pc' \in [Run -> Labels] /\ cutoff' \in [Run -> Nat \cup {NoCutoff}]
      /\ base' \in [Run -> Nat] /\ batch' \in [Run -> Batch]
  BY <1>1, <1>2
<1>4. \A q \in Run : base'[q] \in DOMAIN datasets' \cup {NoVersion}
  BY <1>2
<1>5. Locals'
  BY <1>2 DEF Locals
<1>6. QED
  BY <1>3, <1>4, <1>5 DEF AttemptsTyped

\* What an invocation already holds is well typed, and keeping it is rewriting it.
LEMMA LocalsAre ==
  ASSUME Typed, NEW r \in Run
  PROVE  /\ pc[r] \in Labels
         /\ cutoff[r] \in Nat \cup {NoCutoff}
         /\ base[r] \in DOMAIN datasets \cup {NoVersion}
         /\ batch[r] \in Batch
         /\ cutoff = [cutoff EXCEPT ![r] = cutoff[r]]
         /\ base = [base EXCEPT ![r] = base[r]]
         /\ batch = [batch EXCEPT ![r] = batch[r]]
         /\ NoBatch \in Batch
<1>1. NoBatch \in Batch
  BY DEF NoBatch, Batch
<1>2. QED
  BY <1>1 DEF Typed, Labels

\* The labels an invocation can be moved to.
LEMMA LabelsAre ==
  \A l \in {"idle", "cutoff", "store_cutoff", "latest", "complete", "fetch", "commit",
            "fail", "ended", "crashed"} : l \in Labels
  BY DEF Labels, Running, Stopped

\* An invocation that ends keeps its locals typed.
LEMMA LeaveTyped ==
  ASSUME Typed, Locals, NEW r \in Run, NEW label \in {"ended", "crashed"}, Leave(r, label),
         DOMAIN datasets \subseteq DOMAIN datasets'
  PROVE  AttemptsTyped' /\ Locals'
  BY LocalsWritten, LocalsAre, LabelsAre DEF Leave, GoTo

\* So does one that only moves on.
LEMMA GoToTyped ==
  ASSUME Typed, Locals, NEW r \in Run, NEW label \in {"cutoff", "latest", "fail"},
         GoTo(r, label), KeepLocals, label = "latest" => cutoff[r] \in Nat,
         UNCHANGED datasets
  PROVE  AttemptsTyped' /\ Locals'
<1>1. /\ cutoff' = [cutoff EXCEPT ![r] = cutoff[r]] /\ base' = [base EXCEPT ![r] = base[r]]
      /\ batch' = [batch EXCEPT ![r] = batch[r]] /\ pc' = [pc EXCEPT ![r] = label]
  BY LocalsAre DEF GoTo, KeepLocals
<1>2. /\ cutoff[r] \in Nat \cup {NoCutoff} /\ base[r] \in DOMAIN datasets \cup {NoVersion}
      /\ batch[r] \in Batch /\ label \in Labels
  BY LocalsAre, LabelsAre
<1>3. label \in {"store_cutoff", "latest", "complete", "fetch", "commit"} => cutoff[r] \in Nat
  OBVIOUS
<1>4. QED
  BY <1>1, <1>2, <1>3, LocalsWritten

\* Every step except a commit: what it does to the store and to the invocations.
LEMMA OtherStepsTyped ==
  ASSUME Inv, [Next]_vars, ~ \E r \in Run : Commit(r)
  PROVE  StoreTyped' /\ AttemptsTyped' /\ Locals' /\ datasets' = datasets
<1> USE DEF Inv
<1>1. ASSUME NEW r \in Run, Start(r)
      PROVE  StoreTyped' /\ AttemptsTyped' /\ Locals' /\ datasets' = datasets
  <2>1. StoreTyped'
    BY <1>1, RowWrites, RunWritten DEF Start, StartIngestion, RunStatus
  <2>2. QED
    BY <1>1, <2>1, GoToTyped DEF Start, StartIngestion
<1>2. ASSUME NEW r \in Run, AskCutoff(r)
      PROVE  StoreTyped' /\ AttemptsTyped' /\ Locals' /\ datasets' = datasets
  <2>1. PICK c \in ServerCutoff : cutoff' = [cutoff EXCEPT ![r] = c]
    BY <1>2 DEF AskCutoff
  <2>2. c \in Nat
    BY CutoffAssumption
  <2>3. /\ base' = [base EXCEPT ![r] = base[r]] /\ batch' = [batch EXCEPT ![r] = batch[r]]
        /\ pc' = [pc EXCEPT ![r] = "store_cutoff"] /\ UNCHANGED storeVars
    BY <1>2, LocalsAre DEF AskCutoff, GoTo
  <2>4. /\ base[r] \in DOMAIN datasets \cup {NoVersion} /\ batch[r] \in Batch
        /\ "store_cutoff" \in Labels
    BY LocalsAre, LabelsAre
  <2>5. AttemptsTyped' /\ Locals'
    BY <2>1, <2>2, <2>3, <2>4, LocalsWritten DEF storeVars
  <2>6. QED
    BY <2>3, <2>5, StoreUnchanged DEF storeVars
<1>3. ASSUME NEW r \in Run, StoreCutoff(r)
      PROVE  StoreTyped' /\ AttemptsTyped' /\ Locals' /\ datasets' = datasets
  <2>1. cutoff[r] \in Nat
    BY <1>3 DEF StoreCutoff, Locals
  <2>2. StoreTyped'
    BY <1>3, <2>1, RowWrites, RunWritten DEF StoreCutoff, SetIngestionCutoff
  <2>3. QED
    BY <1>3, <2>1, <2>2, GoToTyped DEF StoreCutoff, SetIngestionCutoff
<1>4. ASSUME NEW r \in Run, ReadLatest(r)
      PROVE  StoreTyped' /\ AttemptsTyped' /\ Locals' /\ datasets' = datasets
  <2> DEFINE known == IF LatestVersion = NoVersion THEN NoCutoff
                      ELSE datasets[LatestVersion].cutoff
             label == CASE cutoff[r] < known -> "fail"
                        [] cutoff[r] = known -> "complete"
                        [] cutoff[r] > known -> "fetch"
  <2>1. cutoff[r] \in Nat
    BY <1>4 DEF ReadLatest, Locals
  <2>2. LatestVersion \in DOMAIN datasets \cup {NoVersion}
    BY LatestVersionType
  <2>3. known \in Int
    BY <2>2, DatasetTypes DEF NoCutoff
  <2>4. label \in {"fail", "complete", "fetch"}
    <3> HIDE DEF known
    <3>1. QED
      BY <2>1, <2>3
  <2>5. /\ pc' = [pc EXCEPT ![r] = label] /\ base' = [base EXCEPT ![r] = LatestVersion]
        /\ UNCHANGED <<storeVars, cutoff, batch>>
    BY <1>4 DEF ReadLatest, GoTo
  <2>6. /\ cutoff' = [cutoff EXCEPT ![r] = cutoff[r]] /\ batch' = [batch EXCEPT ![r] = batch[r]]
        /\ batch[r] \in Batch
    BY <2>5, LocalsAre
  <2> HIDE DEF label
  <2>7. label \in Labels
    BY <2>4, LabelsAre
  <2>8. AttemptsTyped' /\ Locals'
    BY <2>1, <2>2, <2>5, <2>6, <2>7, LocalsWritten DEF storeVars
  <2>9. QED
    BY <2>5, <2>8, StoreUnchanged DEF storeVars
<1>5. ASSUME NEW r \in Run, CompleteNoop(r)
      PROVE  StoreTyped' /\ AttemptsTyped' /\ Locals' /\ datasets' = datasets
  <2>1. StoreTyped'
    BY <1>5, RowWrites, RunWritten DEF CompleteNoop, CompleteIngestion, RunStatus
  <2>2. QED
    BY <1>5, <2>1, LeaveTyped DEF CompleteNoop, CompleteIngestion
<1>6. ASSUME NEW r \in Run, Fetch(r)
      PROVE  StoreTyped' /\ AttemptsTyped' /\ Locals' /\ datasets' = datasets
  <2>1. cutoff[r] \in Nat
    BY <1>6 DEF Fetch, Locals
  <2>2. FetchStart(r) \in Int
    BY <2>1, LocalsAre, DatasetTypes, BarsAssumption DEF FetchStart
  <2>3. PICK b \in [Configured -> FetchedRows(FetchStart(r), cutoff[r])] :
          batch' = [batch EXCEPT ![r] = b]
    BY <1>6 DEF Fetch
  <2>4. b \in Batch
    BY <2>1, <2>2, FetchedBatchType
  <2>5. AttemptsTyped' /\ Locals'
    BY <1>6, <2>1, <2>3, <2>4, LocalsWritten, LocalsAre, LabelsAre DEF Fetch, GoTo, storeVars
  <2>6. QED
    BY <1>6, <2>5, StoreUnchanged DEF Fetch, storeVars
<1>7. ASSUME NEW r \in Run, RejectCommit(r) \/ CallRaises(r)
      PROVE  StoreTyped' /\ AttemptsTyped' /\ Locals' /\ datasets' = datasets
  BY <1>7, GoToTyped, StoreUnchanged DEF RejectCommit, CallRaises, storeVars
<1>8. ASSUME NEW r \in Run, Fail(r)
      PROVE  StoreTyped' /\ AttemptsTyped' /\ Locals' /\ datasets' = datasets
  <2>1. StoreTyped'
    BY <1>8, RowWrites, RunWritten DEF Fail, FailIngestion, RunStatus
  <2>2. QED
    BY <1>8, <2>1, LeaveTyped DEF Fail, FailIngestion
<1>9. ASSUME NEW r \in Run, Crash(r)
      PROVE  StoreTyped' /\ AttemptsTyped' /\ Locals' /\ datasets' = datasets
  BY <1>9, LeaveTyped, StoreUnchanged DEF Crash, storeVars
<1>10. CASE Tick \/ StepBack
  <2>1. clock' \in Nat
    BY <1>10 DEF Tick, StepBack, Typed
  <2>2. StoreTyped' /\ datasets' = datasets
    BY <1>10, <2>1 DEF Tick, StepBack, Typed, StoreTyped
  <2>3. AttemptsTyped' /\ Locals'
    BY <1>10, TypedParts DEF Tick, StepBack, attemptVars, AttemptsTyped, Locals
  <2>4. QED
    BY <2>2, <2>3
<1>11. CASE UNCHANGED vars
  <2>1. AttemptsTyped' /\ Locals'
    BY <1>11, TypedParts DEF vars, attemptVars, storeVars, AttemptsTyped, Locals
  <2>2. QED
    BY <1>11, <2>1, StoreUnchanged DEF vars, storeVars
<1>12. QED
  BY <1>1, <1>2, <1>3, <1>4, <1>5, <1>6, <1>7, <1>8, <1>9, <1>10, <1>11
     DEF Next, Advance, Exhausted

--------------------------------------------------------------------------------
(* The commit *)

\* The dataset a commit appends.
Committed(r) ==
  [cutoff |-> cutoff[r], committedAt |-> clock, base |-> base[r],
   bars |-> MergedRows(batch[r], cutoff[r], base[r])]

\* What a commit appends is a well typed dataset on an earlier base.
LEMMA CommitWrites ==
  ASSUME Inv, NEW r \in Run, Commit(r)
  PROVE  /\ cutoff[r] \in Nat
         /\ DOMAIN batch[r] = Symbol
         /\ Committed(r) \in Dataset
         /\ datasets' = Append(datasets, Committed(r))
         /\ DOMAIN datasets' = 1..(Len(datasets) + 1)
         /\ \A v \in DOMAIN datasets : datasets'[v] = datasets[v]
         /\ datasets'[Len(datasets) + 1] = Committed(r)
         /\ clock' = clock
<1> USE DEF Inv
<1>1. cutoff[r] \in Nat
  BY DEF Commit, Locals
<1>2. DOMAIN batch[r] = Symbol
  BY DEF Commit, CommitDataset, CommitAccepted, ValidBatch
<1>3. base[r] \in DOMAIN datasets \cup {NoVersion} /\ base[r] \in Nat /\ clock \in Nat
  BY DEF Typed
<1>4. MergedRows(batch[r], cutoff[r], base[r]) \in [Symbol -> Rows]
  BY <1>2, <1>3, LocalsAre, MergedRowsType
<1>5. Committed(r) \in Dataset
  BY <1>1, <1>3, <1>4 DEF Committed, Dataset
<1>6. datasets' = Append(datasets, Committed(r)) /\ clock' = clock
  BY DEF Commit, CommitDataset, Committed
<1>7. datasets \in Seq(Dataset)
  BY DEF Typed
<1> HIDE DEF Committed
<1>8. QED
  BY <1>1, <1>2, <1>5, <1>6, <1>7, Appended

\* A commit keeps every table typed.
LEMMA CommitTyped ==
  ASSUME Inv, NEW r \in Run, Commit(r)
  PROVE  StoreTyped' /\ AttemptsTyped' /\ Locals'
<1> DEFINE version == Len(datasets) + 1
<1> USE DEF Inv
<1>1. /\ version \in Nat /\ version \in DOMAIN datasets'
      /\ DOMAIN datasets \subseteq DOMAIN datasets'
      /\ DOMAIN datasets = 1..Len(datasets)
  BY CommitWrites, DatasetTypes
<1>2. datasets' \in Seq(Dataset)
  <2>1. datasets \in Seq(Dataset)
    BY DEF Typed
  <2>2. Append(datasets, Committed(r)) \in Seq(Dataset)
    BY <2>1, CommitWrites, Appended
  <2>3. QED
    BY <2>2, CommitWrites
<1>3. \A v \in DOMAIN datasets' : datasets'[v].base < v
  <2>1. \A v \in DOMAIN datasets : datasets[v].base < v
    BY DEF Typed
  <2>2. Committed(r).base < version
    <3>1. base[r] \in DOMAIN datasets \cup {NoVersion}
      BY LocalsAre
    <3>2. base[r] < version
      BY <3>1, DatasetTypes DEF NoVersion
    <3>3. QED
      BY <3>2 DEF Committed
  <2>3. QED
    BY <2>1, <2>2, <1>1, CommitWrites, DatasetTypes
<1>4. bars' = ObservedBars(batch[r], version)
  BY DEF Commit, CommitDataset
<1>5. DOMAIN bars' = DOMAIN bars \cup BatchKeys(batch[r])
      /\ \A k \in DOMAIN bars' : bars'[k] = IF k \in DOMAIN bars THEN bars[k] ELSE version
  BY <1>4 DEF ObservedBars
<1>6. DOMAIN bars' \subseteq Symbol \X Int \X Revision
  <2>1. BatchKeys(batch[r]) \subseteq Symbol \X Int \X Revision
    BY CommitWrites, LocalsAre, BatchKeysType
  <2>2. DOMAIN bars \subseteq Symbol \X Int \X Revision
    BY DEF Typed
  <2>3. QED
    BY <2>1, <2>2, <1>5
<1>7. \A k \in DOMAIN bars' : bars'[k] \in DOMAIN datasets'
  <2>1. \A k \in DOMAIN bars : bars[k] \in DOMAIN datasets
    BY DEF Typed
  <2>2. QED
    BY <2>1, <1>1, <1>5
<1>8. runs' = [runs EXCEPT ![r].status = "COMMITTED", ![r].dataset = version]
  BY DEF Commit, CommitDataset
<1>9. runs' \in [Run -> RunRow] /\ \A q \in Run : runs'[q].dataset \in DOMAIN datasets' \cup {NoVersion}
  <2>1. runs \in [Run -> RunRow] /\ \A q \in Run : runs[q].dataset \in DOMAIN datasets \cup {NoVersion}
    BY DEF Typed
  <2> DEFINE row == [runs[r] EXCEPT !.status = "COMMITTED", !.dataset = version]
  <2>2. row \in RunRow /\ row.dataset = version
    BY <2>1, <1>1 DEF RunRow, RunStatus
  <2>3. runs' = [runs EXCEPT ![r] = row]
    BY <1>8, <2>1
  <2> HIDE DEF version, row
  <2>4. QED
    BY <2>1, <2>2, <2>3, <1>1
<1>10. clock' \in Nat
  BY CommitWrites DEF Typed
<1>11. StoreTyped'
  BY <1>2, <1>3, <1>6, <1>7, <1>9, <1>10 DEF StoreTyped
<1>12. Leave(r, "ended")
  BY DEF Commit
<1>13. QED
  BY <1>1, <1>11, <1>12, LeaveTyped

\* A commit either becomes the latest dataset or, when the wall clock reads less
\* than the latest one's stamp, leaves the latest where it is.
LEMMA LatestAfterCommit ==
  ASSUME Inv, NEW r \in Run, Commit(r)
  PROVE  \/ IsLatest(Len(datasets))'
         \/ /\ datasets # <<>>
            /\ IsLatest(LatestVersion)
            /\ \A v : v = LatestVersion => IsLatest(v)'
<1> DEFINE n == Len(datasets) + 1
<1> USE DEF Inv
<1>1. /\ n \in Nat /\ DOMAIN datasets' = 1..n /\ DOMAIN datasets = 1..Len(datasets)
      /\ Len(datasets) \in Nat /\ Len(datasets') = n
      /\ \A v \in DOMAIN datasets : /\ datasets'[v].committedAt = datasets[v].committedAt
                                    /\ datasets[v].committedAt \in Nat
      /\ datasets'[n].committedAt = clock /\ clock \in Nat
  <2>1. clock \in Nat
    BY DEF Typed
  <2>2. Committed(r).committedAt = clock
    BY DEF Committed
  <2>3. Len(datasets') = n
    BY CommitWrites, CommitTyped DEF StoreTyped
  <2>4. QED
    BY <2>1, <2>2, <2>3, CommitWrites, DatasetTypes
<1>2. CASE datasets = <<>>
  <2>1. Len(datasets) = 0
    BY <1>2
  <2>2. QED
    BY <1>1, <2>1 DEF IsLatest, ListedFirst
<1>3. CASE datasets # <<>>
  <2>1. IsLatest(LatestVersion)
    BY <1>3, LatestVersionType
  <2>2. PICK l \in DOMAIN datasets : l = LatestVersion /\ IsLatest(l)
    BY <2>1 DEF IsLatest
  <2>3. \A w \in DOMAIN datasets : \/ datasets[w].committedAt < datasets[l].committedAt
                                   \/ datasets[w].committedAt = datasets[l].committedAt /\ w <= l
    BY <2>2 DEF IsLatest, ListedFirst
  <2>4. CASE datasets[l].committedAt <= clock
    <3>1. \A w \in 1..n : \/ datasets'[w].committedAt < datasets'[n].committedAt
                          \/ datasets'[w].committedAt = datasets'[n].committedAt /\ w <= n
      BY <1>1, <2>3, <2>4
    <3>2. QED
      BY <1>1, <3>1 DEF IsLatest, ListedFirst
  <2>5. CASE clock < datasets[l].committedAt
    <3>1. \A w \in 1..n : \/ datasets'[w].committedAt < datasets'[l].committedAt
                          \/ datasets'[w].committedAt = datasets'[l].committedAt /\ w <= l
      BY <1>1, <2>3, <2>5
    <3>2. IsLatest(l)'
      BY <1>1, <3>1 DEF IsLatest, ListedFirst
    <3>3. QED
      BY <1>3, <2>1, <2>2, <3>2
  <2>6. QED
    BY <1>1, <2>4, <2>5
<1>4. QED
  BY <1>2, <1>3

\* After a commit there is a latest dataset.
LEMMA CommitHasLatest ==
  ASSUME Inv, NEW r \in Run, Commit(r)
  PROVE  HasLatest'
<1>1. IsLatest(Len(datasets))' => HasLatest'
  BY DEF HasLatest, IsLatest
<1>2. (\A v : v = LatestVersion => IsLatest(v)') => HasLatest'
  <2>1. SUFFICES ASSUME \A v : v = LatestVersion => IsLatest(v)'
                 PROVE  HasLatest'
    OBVIOUS
  <2>2. PICK v : v = LatestVersion
    OBVIOUS
  <2>3. IsLatest(v)'
    BY <2>1, <2>2
  <2>4. QED
    BY <2>3 DEF HasLatest, IsLatest
<1>3. QED
  BY <1>1, <1>2, LatestAfterCommit

\* The order of latest_committed reads the datasets alone.
LEMMA LatestUnchanged ==
  ASSUME datasets' = datasets
  PROVE  /\ HasLatest <=> HasLatest'
         /\ LatestVersion' = LatestVersion
         /\ LatestCutoff' = LatestCutoff
  BY DEF HasLatest, LatestVersion, LatestCutoff, IsLatest, ListedFirst

\* The same facts about the state a step leads to.
LEMMA TypedPartsAfter == StoreTyped' /\ AttemptsTyped' => Typed'
<1>1. StoreTyped /\ AttemptsTyped => Typed
  BY TypedParts
<1>2. QED
  BY <1>1, PTL

\* The latest dataset after a step, from the order alone.
LEMMA LatestAfter == Typed' => \A v : IsLatest(v)' => LatestVersion' = v
<1>1. Typed => \A v : IsLatest(v) => LatestVersion = v
  BY LatestVersionIs
<1>2. (Typed => \A v : IsLatest(v) => LatestVersion = v)'
  BY <1>1, PTL
<1>3. QED
  BY <1>2

\* Every step of the next-state relation preserves the invariant.
LEMMA InvIsInductive ==
  ASSUME Inv, [Next]_vars
  PROVE  Inv'
<1>1. CASE \E r \in Run : Commit(r)
  BY <1>1, CommitTyped, CommitHasLatest, TypedPartsAfter DEF Inv
<1>2. CASE ~ \E r \in Run : Commit(r)
  <2>1. StoreTyped' /\ AttemptsTyped' /\ Locals' /\ datasets' = datasets
    BY <1>2, OtherStepsTyped
  <2>2. HasLatest'
    BY <2>1, LatestUnchanged DEF Inv
  <2>3. QED
    BY <2>1, <2>2, TypedPartsAfter DEF Inv
<1>3. QED
  BY <1>1, <1>2

\* The inductive invariant all theorems about Ingestion start from: tables and
\* locals are typed, a cutoff is there when it is used, and a non-empty repository
\* has a latest dataset.
THEOREM Invariance == Spec => []Inv
<1>1. Init => Inv
  BY InitTyped DEF Inv
<1>2. Inv /\ [Next]_vars => Inv'
  BY InvIsInductive
<1>3. QED
  BY <1>1, <1>2, PTL DEF Spec

\* The typing the provers use implies the one the runs check.
LEMMA InvImpliesTypeOK == Inv => TypeOK
<1> SUFFICES ASSUME Inv PROVE TypeOK
  OBVIOUS
<1> USE DEF Inv
<1>1. \A v \in DOMAIN datasets :
        /\ datasets[v].cutoff \in Nat
        /\ datasets[v].committedAt \in Nat
        /\ datasets[v].base \in 0..(v - 1)
        /\ DOMAIN datasets[v].bars = Symbol
        /\ \A s \in Symbol : IsRows(datasets[v].bars[s])
  <2>1. ASSUME NEW v \in DOMAIN datasets, NEW s \in Symbol
        PROVE  IsRows(datasets[v].bars[s])
    <3>1. datasets[v].bars[s] \in Rows
      BY DatasetTypes
    <3>2. QED
      BY <3>1, RowsAre DEF IsRows
  <2>2. QED
    BY <2>1, DatasetTypes
<1>2. runs \in [Run -> [status : RunStatus, cutoff : Nat \cup {NoCutoff},
                        dataset : DOMAIN datasets \cup {NoVersion}]]
  <2>1. ASSUME NEW r \in Run
        PROVE  runs[r] \in [status : RunStatus, cutoff : Nat \cup {NoCutoff},
                            dataset : DOMAIN datasets \cup {NoVersion}]
    <3>1. runs[r] \in RunRow /\ runs[r].dataset \in DOMAIN datasets \cup {NoVersion}
      BY DEF Typed
    <3>2. QED
      BY <3>1 DEF RunRow
  <2>2. runs = [r \in Run |-> runs[r]]
    BY DEF Typed
  <2>3. QED
    BY <2>1, <2>2
<1>3. \A r \in Run : IsBatch(batch[r])
  <2>1. ASSUME NEW r \in Run, NEW s \in DOMAIN batch[r]
        PROVE  IsRows(batch[r][s])
    BY LocalsAre, BatchIs, RowsAre DEF IsRows
  <2>2. ASSUME NEW r \in Run
        PROVE  DOMAIN batch[r] \subseteq Symbol \cup Configured
    BY LocalsAre, BatchIs
  <2>3. QED
    BY <2>1, <2>2 DEF IsBatch
<1>4. base \in [Run -> DOMAIN datasets \cup {NoVersion}]
  BY DEF Typed
<1>5. QED
  BY <1>1, <1>2, <1>3, <1>4 DEF Typed, TypeOK

\* Every table and local keeps its shape and no reference dangles: no run, bar,
\* base or local ever names a dataset that commit_dataset did not insert.
THEOREM TypeCorrect == Spec => []TypeOK
  BY Invariance, InvImpliesTypeOK, PTL

\* No step takes the latest committed cutoff back, whatever the wall clock reads.
LEMMA CutoffStep ==
  ASSUME Inv, [Next]_vars
  PROVE  LatestCutoff' >= LatestCutoff
<1> USE DEF Inv
<1>1. LatestCutoff \in Nat \cup {NoCutoff}
  BY LatestVersionType, DatasetTypes DEF LatestCutoff
<1>2. ASSUME NEW r \in Run, Commit(r)
      PROVE  LatestCutoff' >= LatestCutoff
  <2> DEFINE n == Len(datasets) + 1
  <2>1. BaseAccepted(batch[r], cutoff[r], base[r])
    BY <1>2 DEF Commit, CommitDataset, CommitAccepted
  <2>2. LatestCutoff <= cutoff[r]
    <3>1. cutoff[r] \in Nat
      BY <1>2, CommitWrites
    <3>2. CASE base[r] = NoVersion
      <4>1. datasets = <<>>
        BY <2>1, <3>2 DEF BaseAccepted
      <4>2. LatestCutoff = NoCutoff
        BY <4>1, LatestVersionType DEF LatestCutoff
      <4>3. QED
        BY <3>1, <4>2 DEF NoCutoff
    <3>3. CASE base[r] # NoVersion
      <4>1. LatestVersion = base[r] /\ datasets[base[r]].cutoff <= cutoff[r]
        BY <2>1, <3>3 DEF BaseAccepted
      <4>2. QED
        BY <3>3, <4>1 DEF LatestCutoff
    <3>4. QED
      BY <3>2, <3>3
  <2>3. CASE IsLatest(Len(datasets))'
    <3>1. Typed'
      BY <1>2, InvIsInductive DEF Inv
    <3>2. LatestVersion' = Len(datasets')
      BY <2>3, <3>1, LatestAfter
    <3>3. Len(datasets') = n /\ n # NoVersion
      BY <1>2, CommitWrites, CommitTyped, DatasetTypes DEF StoreTyped, NoVersion
    <3>4. LatestCutoff' = datasets'[n].cutoff
      BY <3>2, <3>3 DEF LatestCutoff
    <3>5. datasets'[n].cutoff = cutoff[r]
      <4>1. datasets'[n] = Committed(r)
        BY <1>2, CommitWrites
      <4>2. QED
        BY <4>1 DEF Committed
    <3>6. QED
      BY <1>1, <2>2, <3>4, <3>5
  <2>4. CASE /\ datasets # <<>>
             /\ IsLatest(LatestVersion)
             /\ \A v : v = LatestVersion => IsLatest(v)'
    <3>1. Typed'
      BY <1>2, InvIsInductive DEF Inv
    <3>2. PICK l \in DOMAIN datasets : l = LatestVersion /\ IsLatest(l)'
      BY <2>4 DEF IsLatest
    <3>3. LatestVersion' = l
      BY <3>1, <3>2, LatestAfter
    <3>4. LatestVersion # NoVersion /\ datasets'[l] = datasets[l]
      BY <1>2, <2>4, <3>2, LatestVersionType, CommitWrites
    <3>5. LatestCutoff' = LatestCutoff
      BY <3>2, <3>3, <3>4 DEF LatestCutoff
    <3>6. QED
      BY <1>1, <3>5 DEF NoCutoff
  <2>5. QED
    BY <1>2, <2>3, <2>4, LatestAfterCommit
<1>3. CASE ~ \E r \in Run : Commit(r)
  BY <1>1, <1>3, OtherStepsTyped, LatestUnchanged DEF NoCutoff
<1>4. QED
  BY <1>2, <1>3

\* The cutoff latest_committed answers never goes back: the compare-and-swap on
\* the base keeps it, even when the wall clock hides newer datasets.
THEOREM NoCutoffRegression == Spec => CutoffNeverRegresses
<1>1. Inv /\ [Next]_vars => [LatestCutoff' >= LatestCutoff]_vars
  BY CutoffStep
<1>2. QED
  BY <1>1, Invariance, PTL DEF Spec, CutoffNeverRegresses

--------------------------------------------------------------------------------
(* Joining a batch to the base it overlaps *)

\* A gap free range that ends at b, joined to a gap free range that ends at c >= b
\* and reaches down to b or below, is gap free and ends at c.
LEMMA OverlappingRangesJoin ==
  ASSUME NEW B \in SUBSET Int, NEW M \in SUBSET Int, NEW b \in Int, NEW c \in Int, b <= c,
         Contiguous(B), EndsAt(B, b), Contiguous(M), EndsAt(M, c),
         \E m \in M : m <= b
  PROVE  Contiguous(B \cup M) /\ EndsAt(B \cup M, c)
<1>1. PICK low \in M : low <= b
  OBVIOUS
<1>2. EndsAt(B \cup M, c)
  BY DEF EndsAt
<1>3. ASSUME NEW x \in B \cup M, NEW y \in B \cup M, NEW k \in x..y
      PROVE  k \in B \cup M
  <2>1. k \in Int /\ x <= k /\ k <= y
    OBVIOUS
  <2>2. ASSUME k <= b, x \in B
        PROVE  k \in B
    BY <2>1, <2>2 DEF Contiguous, EndsAt
  <2>3. ASSUME b < k
        PROVE  k \in M
    <3>1. y <= c /\ c \in M
      BY <1>2 DEF EndsAt
    <3>2. k \in low..c
      BY <1>1, <2>1, <2>3, <3>1
    <3>3. QED
      BY <3>1, <3>2 DEF Contiguous
  <2>4. ASSUME x \in M
        PROVE  k \in M
    <3>1. y <= c /\ c \in M
      BY <1>2 DEF EndsAt
    <3>2. k \in x..c
      BY <2>1, <3>1
    <3>3. QED
      BY <2>4, <3>1, <3>2 DEF Contiguous
  <2>5. QED
    BY <2>1, <2>2, <2>3, <2>4
<1>4. QED
  BY <1>2, <1>3 DEF Contiguous

\* The rows of a merged symbol and where each comes from.
LEMMA MergedRowsAre ==
  ASSUME NEW b, NEW c, NEW v, NEW s \in Symbol
  PROVE  /\ DOMAIN MergedRows(b, c, v)[s] =
              (IF v = NoVersion THEN {} ELSE {m \in DOMAIN datasets[v].bars[s] : m <= c})
                \cup DOMAIN b[s]
         /\ \A m \in DOMAIN MergedRows(b, c, v)[s] :
              MergedRows(b, c, v)[s][m] =
                IF m \in DOMAIN b[s] THEN b[s][m] ELSE datasets[v].bars[s][m]
<1> DEFINE kept(t) == IF v = NoVersion THEN {}
                      ELSE {m \in DOMAIN datasets[v].bars[t] : m <= c}
           row(t) == [m \in kept(t) \cup DOMAIN b[t] |->
                        IF m \in DOMAIN b[t] THEN b[t][m] ELSE datasets[v].bars[t][m]]
<1>1. MergedRows(b, c, v) = [t \in Symbol |-> row(t)]
  BY DEF MergedRows
<1>2. MergedRows(b, c, v)[s] = row(s)
  BY <1>1
<1>3. QED
  BY <1>2

\* Every row of a merged symbol finds its bar: those of the base were observed
\* before, those of the batch are inserted by the same transaction.
LEMMA MergedRowsObserved ==
  ASSUME Typed, DatasetsWhole, NEW b, DOMAIN b = Symbol, NEW c,
         NEW v \in DOMAIN datasets \cup {NoVersion}, NEW s \in Symbol
  PROVE  \A m \in DOMAIN MergedRows(b, c, v)[s] :
           <<s, m, MergedRows(b, c, v)[s][m]>> \in DOMAIN bars \cup BatchKeys(b)
<1> SUFFICES ASSUME NEW m \in DOMAIN MergedRows(b, c, v)[s]
             PROVE  <<s, m, MergedRows(b, c, v)[s][m]>> \in DOMAIN bars \cup BatchKeys(b)
  OBVIOUS
<1>1. CASE m \in DOMAIN b[s]
  <2>1. MergedRows(b, c, v)[s][m] = b[s][m]
    BY <1>1, MergedRowsAre
  <2>2. <<s, m, b[s][m]>> \in BatchKeys(b)
    BY <1>1 DEF BatchKeys
  <2>3. QED
    BY <2>1, <2>2
<1>2. CASE m \notin DOMAIN b[s]
  <2>1. v # NoVersion /\ m \in DOMAIN datasets[v].bars[s]
        /\ MergedRows(b, c, v)[s][m] = datasets[v].bars[s][m]
    BY <1>2, MergedRowsAre
  <2>2. <<s, m, datasets[v].bars[s][m]>> \in DOMAIN bars
    BY <2>1 DEF DatasetsWhole
  <2>3. QED
    BY <2>1, <2>2
<1>3. QED
  BY <1>1, <1>2

\* The check that ends commit_dataset follows from the ones before it.
LEMMA AcceptedMergesWhole ==
  ASSUME Typed, DatasetsWhole, NEW b \in Batch, NEW c \in Nat,
         NEW v \in DOMAIN datasets \cup {NoVersion},
         ValidBatch(b, c), BaseAccepted(b, c, v), NEW s \in Symbol
  PROVE  /\ Contiguous(DOMAIN MergedRows(b, c, v)[s])
         /\ EndsAt(DOMAIN MergedRows(b, c, v)[s], c)
<1> DEFINE M == DOMAIN b[s]
<1>1. DOMAIN b = Symbol /\ Contiguous(M) /\ EndsAt(M, c)
  BY DEF ValidBatch, ValidRows
<1>2. M \in SUBSET Int
  BY <1>1, BatchIs, RowsAre
<1>3. CASE v = NoVersion
  <2>1. DOMAIN MergedRows(b, c, v)[s] = {} \cup M
    BY <1>3, MergedRowsAre
  <2> HIDE DEF M
  <2>2. QED
    BY <1>1, <2>1
<1>4. CASE v # NoVersion
  <2> DEFINE B == DOMAIN datasets[v].bars[s]
             bc == datasets[v].cutoff
  <2>1. v \in DOMAIN datasets /\ bc <= c /\ \E m \in M : m <= bc
    BY <1>4 DEF BaseAccepted, OverlapsBase
  <2>2. bc \in Int /\ B \in SUBSET Int
    <3>1. bc \in Nat /\ datasets[v].bars[s] \in Rows
      BY <2>1, DatasetTypes
    <3>2. QED
      BY <3>1, RowsAre
  <2>3. Contiguous(B) /\ EndsAt(B, bc)
    BY <2>1 DEF DatasetsWhole
  <2>4. Contiguous(B \cup M) /\ EndsAt(B \cup M, c)
    <3> HIDE DEF B, M, bc
    <3>1. QED
      BY <1>1, <1>2, <2>1, <2>2, <2>3, OverlappingRangesJoin
  <2>5. {m \in B : m <= c} = B
    BY <2>1, <2>2, <2>3 DEF EndsAt
  <2>6. DOMAIN MergedRows(b, c, v)[s] = B \cup M
    BY <1>4, <2>5, MergedRowsAre
  <2>7. QED
    BY <2>4, <2>6
<1>5. QED
  BY <1>3, <1>4

\* From whole datasets, the check that ends commit_dataset decides nothing.
LEMMA WholeImpliesRedundant == Inv /\ DatasetsWhole => MergedCheckIsRedundant
<1> SUFFICES ASSUME Inv, DatasetsWhole, NEW r \in Run, pc[r] = "commit",
                    ValidBatch(batch[r], cutoff[r]), BaseAccepted(batch[r], cutoff[r], base[r])
             PROVE  CommitAccepted(batch[r], cutoff[r], base[r])
  BY DEF MergedCheckIsRedundant
<1> USE DEF Inv
<1>1. cutoff[r] \in Nat
  BY DEF Locals
<1>2. /\ base[r] \in DOMAIN datasets \cup {NoVersion} /\ batch[r] \in Batch
      /\ DOMAIN batch[r] = Symbol
  BY LocalsAre DEF ValidBatch
<1> DEFINE merged == MergedRows(batch[r], cutoff[r], base[r])
           observed == DOMAIN bars \cup BatchKeys(batch[r])
<1>3. ASSUME NEW s \in Symbol
      PROVE  /\ Contiguous({m \in DOMAIN merged[s] : <<s, m, merged[s][m]>> \in observed})
             /\ EndsAt({m \in DOMAIN merged[s] : <<s, m, merged[s][m]>> \in observed}, cutoff[r])
  <2>1. \A m \in DOMAIN merged[s] : <<s, m, merged[s][m]>> \in observed
    BY <1>2, MergedRowsObserved
  <2>2. Contiguous(DOMAIN merged[s]) /\ EndsAt(DOMAIN merged[s], cutoff[r])
    BY <1>1, <1>2, AcceptedMergesWhole
  <2> HIDE DEF merged, observed
  <2>3. {m \in DOMAIN merged[s] : <<s, m, merged[s][m]>> \in observed} = DOMAIN merged[s]
    BY <2>1
  <2>4. QED
    BY <2>2, <2>3
<1>4. MergedIsWhole(merged, observed, cutoff[r])
  BY <1>3 DEF MergedIsWhole
<1>5. QED
  BY <1>4 DEF CommitAccepted

\* Only a commit observes bars.
LEMMA OtherStepsKeepBars ==
  ASSUME [Next]_vars, ~ \E r \in Run : Commit(r)
  PROVE  bars' = bars
  BY DEF Next, Start, StartIngestion, Advance, AskCutoff, StoreCutoff, SetIngestionCutoff,
         ReadLatest, CompleteNoop, CompleteIngestion, Fetch, RejectCommit, CallRaises, Fail,
         FailIngestion, Crash, Tick, StepBack, Exhausted, vars, storeVars

\* A commit appends a whole dataset and every bar the old ones need stays.
LEMMA WholeStep ==
  ASSUME Inv, DatasetsWhole, [Next]_vars
  PROVE  DatasetsWhole'
<1> USE DEF Inv
<1>1. ASSUME NEW r \in Run, Commit(r)
      PROVE  DatasetsWhole'
  <2> DEFINE n == Len(datasets) + 1
             merged == MergedRows(batch[r], cutoff[r], base[r])
  <2>1. /\ DOMAIN datasets' = 1..n /\ DOMAIN datasets = 1..Len(datasets) /\ Len(datasets) \in Nat
        /\ \A v \in DOMAIN datasets : datasets'[v] = datasets[v]
        /\ datasets'[n].bars = merged /\ datasets'[n].cutoff = cutoff[r]
    <3>1. Committed(r).bars = merged /\ Committed(r).cutoff = cutoff[r]
      BY DEF Committed
    <3> HIDE DEF merged
    <3>2. QED
      BY <1>1, <3>1, CommitWrites, DatasetTypes
  <2>2. DOMAIN bars' = DOMAIN bars \cup BatchKeys(batch[r])
    BY <1>1 DEF Commit, CommitDataset, ObservedBars
  <2>3. /\ ValidBatch(batch[r], cutoff[r]) /\ BaseAccepted(batch[r], cutoff[r], base[r])
        /\ DOMAIN batch[r] = Symbol /\ cutoff[r] \in Nat
        /\ base[r] \in DOMAIN datasets \cup {NoVersion} /\ batch[r] \in Batch
    BY <1>1, CommitWrites, LocalsAre DEF Commit, CommitDataset, CommitAccepted
  <2> SUFFICES ASSUME NEW v \in DOMAIN datasets', NEW s \in Symbol
               PROVE  /\ Contiguous(DOMAIN datasets'[v].bars[s])
                      /\ EndsAt(DOMAIN datasets'[v].bars[s], datasets'[v].cutoff)
                      /\ \A m \in DOMAIN datasets'[v].bars[s] :
                           <<s, m, datasets'[v].bars[s][m]>> \in DOMAIN bars'
    BY DEF DatasetsWhole, Contiguous, EndsAt
  <2>4. CASE v \in DOMAIN datasets
    BY <2>1, <2>2, <2>4 DEF DatasetsWhole
  <2>5. CASE v = n
    <3>1. Contiguous(DOMAIN merged[s]) /\ EndsAt(DOMAIN merged[s], cutoff[r])
      BY <2>3, AcceptedMergesWhole
    <3>2. \A m \in DOMAIN merged[s] : <<s, m, merged[s][m]>> \in DOMAIN bars'
      BY <2>2, <2>3, MergedRowsObserved
    <3> HIDE DEF merged
    <3>3. QED
      BY <2>1, <2>5, <3>1, <3>2
  <2>6. QED
    BY <2>1, <2>4, <2>5
<1>2. CASE ~ \E r \in Run : Commit(r)
  BY <1>2, OtherStepsTyped, OtherStepsKeepBars DEF DatasetsWhole, Contiguous, EndsAt
<1>3. QED
  BY <1>1, <1>2

\* Every committed dataset is gap free up to its cutoff for every symbol, and every
\* row of it finds its bar, whatever the exchange returned and whoever raced.
THEOREM Wholeness == Spec => []DatasetsWhole
<1>1. Init => DatasetsWhole
  BY DEF Init, StoreInit, DatasetsWhole
<1>2. Inv /\ DatasetsWhole /\ [Next]_vars => DatasetsWhole'
  BY WholeStep
<1>3. QED
  BY <1>1, <1>2, Invariance, PTL DEF Spec

\* Every batch that passes the checks on the batch and on the base merges into a
\* gap free dataset, so the check that ends the transaction rejects none.
THEOREM MergedCheckNeverDecides == Spec => []MergedCheckIsRedundant
  BY Wholeness, Invariance, WholeImpliesRedundant, PTL

--------------------------------------------------------------------------------
(* Append-only *)

\* Only a commit writes datasets and bars, and it keeps what is there.
LEMMA AppendStep ==
  ASSUME Inv, [Next]_vars
  PROVE  /\ Len(datasets') >= Len(datasets)
         /\ \A v \in DOMAIN datasets : datasets'[v] = datasets[v]
         /\ \A k \in DOMAIN bars : k \in DOMAIN bars' /\ bars'[k] = bars[k]
<1> USE DEF Inv
<1>1. Len(datasets) \in Nat
  BY DatasetTypes
<1>2. ASSUME NEW r \in Run, Commit(r)
      PROVE  /\ Len(datasets') >= Len(datasets)
             /\ \A v \in DOMAIN datasets : datasets'[v] = datasets[v]
             /\ \A k \in DOMAIN bars : k \in DOMAIN bars' /\ bars'[k] = bars[k]
  <2>1. Len(datasets') = Len(datasets) + 1
    BY <1>1, <1>2, CommitWrites, CommitTyped DEF StoreTyped
  <2>2. \A v \in DOMAIN datasets : datasets'[v] = datasets[v]
    BY <1>2, CommitWrites
  <2>3. \A k \in DOMAIN bars : k \in DOMAIN bars' /\ bars'[k] = bars[k]
    BY <1>2 DEF Commit, CommitDataset, ObservedBars
  <2>4. QED
    BY <1>1, <2>1, <2>2, <2>3
<1>3. CASE ~ \E r \in Run : Commit(r)
  BY <1>1, <1>3, OtherStepsTyped, OtherStepsKeepBars
<1>4. QED
  BY <1>2, <1>3

\* Datasets are only appended and an observed revision keeps its first version.
THEOREM NothingIsRewritten == Spec => AppendOnly
<1>1. Inv /\ [Next]_vars =>
        [/\ Len(datasets') >= Len(datasets)
         /\ \A v \in DOMAIN datasets : datasets'[v] = datasets[v]
         /\ \A k \in DOMAIN bars : k \in DOMAIN bars' /\ bars'[k] = bars[k]]_vars
  BY AppendStep
<1>2. QED
  BY <1>1, Invariance, PTL DEF Spec, AppendOnly

--------------------------------------------------------------------------------
(* The run of a dataset *)

\* A run's row against the invocation that owns it: it names a dataset, or is
\* COMMITTED, only when the invocation has ended, and carries the cutoff of an
\* invocation that has stored it.
RunsFollow ==
  \A r \in Run :
    /\ runs[r].status = "COMMITTED" => pc[r] = "ended"
    /\ runs[r].dataset # NoVersion => pc[r] = "ended"
    /\ pc[r] \in {"latest", "complete", "fetch", "commit"} => runs[r].cutoff = cutoff[r]

\* What a step that is not a commit does to the rows of the runs: an invocation
\* that has ended keeps its row, and no row gets a dataset.
LEMMA OtherStepsRuns ==
  ASSUME Inv, RunsFollow, [Next]_vars, ~ \E r \in Run : Commit(r)
  PROVE  /\ RunsFollow'
         /\ \A q \in Run : pc[q] = "ended" => runs'[q] = runs[q]
         /\ \A q \in Run : runs'[q].dataset = runs[q].dataset
<1> DEFINE Goal == /\ RunsFollow'
                   /\ \A q \in Run : pc[q] = "ended" => runs'[q] = runs[q]
                   /\ \A q \in Run : runs'[q].dataset = runs[q].dataset
<1>1. /\ runs \in [Run -> RunRow] /\ pc \in [Run -> Labels]
      /\ cutoff \in [Run -> Nat \cup {NoCutoff}]
  BY DEF Inv, Typed, Labels
<1>2. \A q \in Run :
        /\ DOMAIN runs[q] = {"status", "cutoff", "dataset"}
        /\ runs[q] = [status |-> runs[q].status, cutoff |-> runs[q].cutoff,
                      dataset |-> runs[q].dataset]
  BY <1>1 DEF RunRow
<1> HIDE DEF Labels, RunRow
<1>3. ASSUME NEW r \in Run, Start(r)
      PROVE  Goal
  BY <1>1, <1>2, <1>3 DEF Start, StartIngestion, GoTo, KeepLocals, RunsFollow
<1>4. ASSUME NEW r \in Run, AskCutoff(r)
      PROVE  Goal
  BY <1>1, <1>4 DEF AskCutoff, GoTo, storeVars, RunsFollow
<1>5. ASSUME NEW r \in Run, StoreCutoff(r)
      PROVE  Goal
  BY <1>1, <1>2, <1>5 DEF StoreCutoff, SetIngestionCutoff, GoTo, KeepLocals, RunsFollow
<1>6. ASSUME NEW r \in Run, ReadLatest(r)
      PROVE  Goal
  <2>1. /\ pc[r] = "latest" /\ UNCHANGED <<storeVars, cutoff>>
        /\ \E label : pc' = [pc EXCEPT ![r] = label]
    BY <1>6 DEF ReadLatest, GoTo
  <2>2. QED
    BY <1>1, <2>1 DEF storeVars, RunsFollow
<1>7. ASSUME NEW r \in Run, CompleteNoop(r)
      PROVE  Goal
  BY <1>1, <1>2, <1>7 DEF CompleteNoop, CompleteIngestion, Leave, GoTo, RunsFollow
<1>8. ASSUME NEW r \in Run, Fetch(r)
      PROVE  Goal
  BY <1>1, <1>8 DEF Fetch, GoTo, storeVars, RunsFollow
<1>9. ASSUME NEW r \in Run, RejectCommit(r) \/ CallRaises(r)
      PROVE  Goal
  BY <1>1, <1>9 DEF RejectCommit, CallRaises, Running, GoTo, KeepLocals, storeVars, RunsFollow
<1>10. ASSUME NEW r \in Run, Fail(r)
       PROVE  Goal
  BY <1>1, <1>2, <1>10 DEF Fail, FailIngestion, Leave, GoTo, RunsFollow
<1>11. ASSUME NEW r \in Run, Crash(r)
       PROVE  Goal
  BY <1>1, <1>11 DEF Crash, Running, Leave, GoTo, storeVars, RunsFollow
<1>12. CASE Tick \/ StepBack \/ UNCHANGED vars
  BY <1>12 DEF Tick, StepBack, attemptVars, vars, storeVars, RunsFollow
<1>13. QED
  BY <1>3, <1>4, <1>5, <1>6, <1>7, <1>8, <1>9, <1>10, <1>11, <1>12
     DEF Next, Advance, Exhausted

\* Every dataset has exactly one origin run.
Origins == \A v \in DOMAIN datasets : \E r \in Run : OriginRuns(v) = {r}

\* What a commit does to the rows of the runs.
LEMMA CommitRuns ==
  ASSUME Inv, RunsFollow, NEW r \in Run, Commit(r)
  PROVE  /\ RunsFollow'
         /\ pc[r] = "commit" /\ runs[r].cutoff = cutoff[r]
         /\ \A q \in Run : q # r => runs'[q] = runs[q]
         /\ runs'[r].status = "COMMITTED" /\ runs'[r].dataset = Len(datasets) + 1
         /\ runs'[r].cutoff = cutoff[r]
<1>1. /\ runs \in [Run -> RunRow] /\ pc \in [Run -> Labels]
      /\ cutoff \in [Run -> Nat \cup {NoCutoff}]
  BY DEF Inv, Typed, Labels
<1>2. /\ DOMAIN runs[r] = {"status", "cutoff", "dataset"}
      /\ runs[r] = [status |-> runs[r].status, cutoff |-> runs[r].cutoff,
                    dataset |-> runs[r].dataset]
  BY <1>1 DEF RunRow
<1> HIDE DEF Labels, RunRow
<1>3. /\ pc[r] = "commit"
      /\ runs' = [runs EXCEPT ![r].status = "COMMITTED", ![r].dataset = Len(datasets) + 1]
      /\ pc' = [pc EXCEPT ![r] = "ended"] /\ cutoff' = [cutoff EXCEPT ![r] = NoCutoff]
  BY DEF Commit, CommitDataset, Leave, GoTo
<1>4. runs[r].cutoff = cutoff[r]
  BY <1>3 DEF RunsFollow
<1>5. /\ \A q \in Run : q # r => runs'[q] = runs[q]
      /\ runs'[r].status = "COMMITTED" /\ runs'[r].dataset = Len(datasets) + 1
      /\ runs'[r].cutoff = cutoff[r]
  BY <1>1, <1>2, <1>3, <1>4
<1>6. RunsFollow'
  BY <1>1, <1>3, <1>5 DEF RunsFollow
<1>7. QED
  BY <1>3, <1>4, <1>5, <1>6

\* A commit gives its new dataset one origin; nothing else touches an origin.
LEMMA OriginsStep ==
  ASSUME Inv, RunsFollow, Origins, [Next]_vars
  PROVE  RunsFollow' /\ Origins'
<1> USE DEF Inv
<1>1. /\ DOMAIN datasets = 1..Len(datasets) /\ Len(datasets) \in Nat
      /\ \A v \in DOMAIN datasets : v \in Nat \ {0}
  BY DatasetTypes
<1>2. ASSUME NEW r \in Run, Commit(r)
      PROVE  RunsFollow' /\ Origins'
  <2> DEFINE n == Len(datasets) + 1
  <2>1. /\ DOMAIN datasets' = 1..n
        /\ \A v \in DOMAIN datasets : datasets'[v] = datasets[v]
        /\ datasets'[n].cutoff = cutoff[r]
    <3>1. Committed(r).cutoff = cutoff[r]
      BY DEF Committed
    <3>2. QED
      BY <1>2, <3>1, CommitWrites
  <2>2. RunsFollow'
    BY <1>2, CommitRuns
  <2>3. \A q \in Run : runs[q].dataset \in DOMAIN datasets \cup {NoVersion}
    BY DEF Typed
  <2>4. ASSUME NEW v, v = n
        PROVE  OriginRuns(v)' = {r}
    <3>1. \A q \in Run : q # r => runs'[q].dataset # n
      BY <1>1, <1>2, <2>3, CommitRuns DEF NoVersion
    <3>2. QED
      BY <1>2, <2>1, <2>4, <3>1, CommitRuns DEF OriginRuns
  <2>5. ASSUME NEW v \in DOMAIN datasets
        PROVE  OriginRuns(v)' = OriginRuns(v)
    <3>1. runs[r].dataset = NoVersion
      BY <1>2, CommitRuns DEF RunsFollow
    <3>2. v # n /\ v # NoVersion
      BY <1>1 DEF NoVersion
    <3>3. r \notin OriginRuns(v) /\ r \notin OriginRuns(v)'
      BY <1>2, <3>1, <3>2, CommitRuns DEF OriginRuns
    <3>4. \A q \in Run : q # r => (q \in OriginRuns(v) <=> q \in OriginRuns(v)')
      BY <1>2, <2>1, CommitRuns DEF OriginRuns
    <3>5. OriginRuns(v) \subseteq Run /\ OriginRuns(v)' \subseteq Run
      BY DEF OriginRuns
    <3>6. QED
      BY <3>3, <3>4, <3>5
  <2>6. ASSUME NEW v \in DOMAIN datasets'
        PROVE  \E q \in Run : OriginRuns(v)' = {q}
    <3>1. v = n \/ v \in DOMAIN datasets
      BY <1>1, <2>1
    <3>2. CASE v = n
      BY <2>4, <3>2
    <3>3. CASE v \in DOMAIN datasets
      BY <2>5, <3>3 DEF Origins
    <3>4. QED
      BY <3>1, <3>2, <3>3
  <2>7. QED
    BY <2>2, <2>6 DEF Origins
<1>3. CASE ~ \E r \in Run : Commit(r)
  <2>1. datasets' = datasets
    BY <1>3, OtherStepsTyped
  <2>2. /\ RunsFollow'
        /\ \A q \in Run : pc[q] = "ended" => runs'[q] = runs[q]
        /\ \A q \in Run : runs'[q].dataset = runs[q].dataset
    BY <1>3, OtherStepsRuns
  <2>3. ASSUME NEW v \in DOMAIN datasets
        PROVE  OriginRuns(v)' = OriginRuns(v)
    <3>1. \A q \in Run : runs[q].dataset = v => runs'[q] = runs[q]
      BY <1>1, <2>2 DEF RunsFollow, NoVersion
    <3>2. QED
      BY <2>1, <2>2, <3>1 DEF OriginRuns
  <2>4. QED
    BY <2>1, <2>2, <2>3 DEF Origins
<1>4. QED
  BY <1>2, <1>3

\* The rows of the runs follow their invocations, in every reachable state.
LEMMA RunsFollowing == Spec => [](RunsFollow /\ Origins)
<1>1. Init => RunsFollow /\ Origins
  BY DEF Init, StoreInit, RunsFollow, Origins, NoVersion
<1>2. Inv /\ RunsFollow /\ Origins /\ [Next]_vars => RunsFollow' /\ Origins'
  BY OriginsStep
<1>3. QED
  BY <1>1, <1>2, Invariance, PTL DEF Spec

\* Whatever fails, crashes or finds nothing new, analyze_latest finds exactly one
\* COMMITTED run for the dataset it analyses.
THEOREM OriginIsUnique == Spec => []OneOrigin
<1>1. Origins => OneOrigin
  <2>1. SUFFICES ASSUME Origins, NEW v \in DOMAIN datasets
                 PROVE  Cardinality(OriginRuns(v)) = 1
    BY DEF OneOrigin
  <2>2. PICK r \in Run : OriginRuns(v) = {r}
    BY <2>1 DEF Origins
  <2>3. QED
    BY <2>2, FS_Singleton
<1>2. QED
  BY <1>1, RunsFollowing, PTL

\* A COMMITTED row belongs to an invocation that has ended.
LEMMA CommittedStep ==
  ASSUME Inv, RunsFollow, [Next]_vars
  PROVE  \A q \in Run : runs[q].status = "COMMITTED" => runs'[q] = runs[q]
<1>1. \A q \in Run : runs[q].status = "COMMITTED" => pc[q] = "ended"
  BY DEF RunsFollow
<1>2. CASE \E r \in Run : Commit(r)
  BY <1>1, <1>2, CommitRuns
<1>3. CASE ~ \E r \in Run : Commit(r)
  BY <1>1, <1>3, OtherStepsRuns
<1>4. QED
  BY <1>2, <1>3

\* A COMMITTED run is final: neither a later failure nor another run touches it.
THEOREM CommittedRunsAreFinal == Spec => CommittedIsFinal
<1>1. Inv /\ RunsFollow /\ [Next]_vars =>
        [\A r \in Run : runs[r].status = "COMMITTED" => runs'[r] = runs[r]]_vars
  BY CommittedStep
<1>2. QED
  BY <1>1, Invariance, RunsFollowing, PTL DEF Spec, CommittedIsFinal

\* The comparison of the two cutoffs ends nothing by itself.
LEMMA ReadLatestGoesOn ==
  ASSUME Inv, NEW r \in Run, ReadLatest(r)
  PROVE  pc'[r] # "ended"
<1> DEFINE known == IF LatestVersion = NoVersion THEN NoCutoff ELSE datasets[LatestVersion].cutoff
           label == CASE cutoff[r] < known -> "fail"
                      [] cutoff[r] = known -> "complete"
                      [] cutoff[r] > known -> "fetch"
<1>1. cutoff[r] \in Nat
  BY DEF ReadLatest, Locals, Inv
<1>2. LatestVersion \in DOMAIN datasets \cup {NoVersion}
  BY LatestVersionType DEF Inv
<1>3. known \in Int
  BY <1>2, DatasetTypes DEF NoCutoff, Inv
<1>4. label \in {"fail", "complete", "fetch"}
  <2> HIDE DEF known
  <2> QED BY <1>1, <1>3
<1>5. pc' = [pc EXCEPT ![r] = label]
  BY DEF ReadLatest, GoTo
<1> HIDE DEF label
<1>6. pc'[r] = label
  <2>1. pc \in [Run -> Labels]
    BY DEF Inv, Typed, Labels
  <2> QED BY <1>5, <2>1
<1> QED BY <1>4, <1>6

\* An invocation that ends without a crash leaves a row that says how it ended.
LEMMA EndedStep ==
  ASSUME Inv, RunsFollow, OnlyCrashLeavesFetching, [Next]_vars
  PROVE  OnlyCrashLeavesFetching'
<1>1. \A q \in Run : pc[q] = "ended" => runs'[q] = runs[q]
  BY CommitRuns, OtherStepsRuns
<1>2. runs \in [Run -> RunRow] /\ pc \in [Run -> Labels]
  BY DEF Inv, Typed, Labels
<1>3. ASSUME NEW r \in Run, pc[r] # "ended", pc'[r] = "ended"
      PROVE  runs'[r].status \in {"COMMITTED", "FAILED"}
  <2>1. CASE \E q \in Run : Commit(q)
    <3>1. PICK q \in Run : Commit(q)
      BY <2>1
    <3>2. pc' = [pc EXCEPT ![q] = "ended"]
      BY <3>1 DEF Commit, Leave, GoTo
    <3>3. q = r
      BY <1>2, <1>3, <3>2
    <3> QED BY <3>1, <3>3, CommitRuns
  <2>2. CASE ~ \E q \in Run : Commit(q)
    <3>1. PICK q \in Run : Start(q) \/ Advance(q) \/ Crash(q)
      BY <1>3 DEF Next, Tick, StepBack, Exhausted, attemptVars, vars
    <3>2. \E label : pc' = [pc EXCEPT ![q] = label]
      BY <2>2, <3>1 DEF Start, Advance, AskCutoff, StoreCutoff, ReadLatest, CompleteNoop, Fetch,
                        RejectCommit, CallRaises, Fail, Crash, Leave, GoTo
    <3>3. q = r
      BY <1>2, <1>3, <3>2
    <3>4. CompleteNoop(r) \/ Fail(r)
      <4>1. pc'[r] = "ended"
        BY <1>3
      <4>2. ASSUME Start(r) \/ AskCutoff(r) \/ StoreCutoff(r) \/ Fetch(r)
                   \/ RejectCommit(r) \/ CallRaises(r) \/ Crash(r)
            PROVE  pc'[r] # "ended"
        BY <1>2, <4>2 DEF Start, AskCutoff, StoreCutoff, Fetch,
                          RejectCommit, CallRaises, Crash, Leave, GoTo
      <4> QED BY <2>2, <3>1, <3>3, <4>1, <4>2, ReadLatestGoesOn DEF Advance
    <3> QED BY <1>2, <3>4 DEF CompleteNoop, CompleteIngestion, Fail, FailIngestion, RunRow
  <2> QED BY <2>1, <2>2
<1> QED BY <1>1, <1>3 DEF OnlyCrashLeavesFetching

\* A run that ended is COMMITTED or FAILED; only one whose process died can stay
\* FETCHING.
THEOREM EndedRunsSayHow == Spec => []OnlyCrashLeavesFetching
<1>1. Init => OnlyCrashLeavesFetching
  BY DEF Init, OnlyCrashLeavesFetching
<1>2. Inv /\ RunsFollow /\ OnlyCrashLeavesFetching /\ [Next]_vars => OnlyCrashLeavesFetching'
  BY EndedStep
<1>3. QED
  BY <1>1, <1>2, Invariance, RunsFollowing, PTL DEF Spec

--------------------------------------------------------------------------------
(* What an invocation knows about its base *)

\* Once latest_committed has answered, the cutoff of a run that goes on to fetch
\* is past its base, and what it fetched lies within the overlap or after it.
BaseKnown ==
  \A r \in Run :
    /\ pc[r] \in {"fetch", "commit"} /\ base[r] # NoVersion
         => datasets[base[r]].cutoff < cutoff[r]
    /\ pc[r] = "commit" /\ base[r] # NoVersion
         => \A s \in DOMAIN batch[r] : \A m \in DOMAIN batch[r][s] :
              datasets[base[r]].cutoff - Overlap < m

\* A fetch returns nothing from before the minute it asked for.
LEMMA FetchedRowsWindow ==
  ASSUME NEW start \in Int, NEW end \in Int, NEW f \in FetchedRows(start, end)
  PROVE  \A m \in DOMAIN f : start <= m
<1> DEFINE asked == start..end
           returned == {M \in SUBSET (start..(end + 1)) :
                          Cardinality((asked \ M) \cup (M \ asked)) <= MaxDefects}
<1>1. FetchedRows(start, end) = UNION {{[m \in M |-> rev] : rev \in Revision} : M \in returned}
  BY DEF FetchedRows, returned
<1>2. \A M \in returned : M \subseteq start..(end + 1)
  OBVIOUS
<1> HIDE DEF returned
<1>3. PICK M \in returned : f \in {[m \in M |-> rev] : rev \in Revision}
  BY <1>1
<1>4. DOMAIN f = M
  BY <1>3
<1>5. QED
  BY <1>2, <1>4

\* A step that keeps the labels out of "fetch" and "commit", or keeps what the
\* invocation holds, keeps what is known of its base.
LEMMA BaseKnownKept ==
  ASSUME Inv, BaseKnown, NEW r \in Run, NEW label,
         pc' = [pc EXCEPT ![r] = label], label \notin {"fetch", "commit"},
         \A q \in Run : q # r => cutoff'[q] = cutoff[q] /\ base'[q] = base[q] /\ batch'[q] = batch[q],
         \A v \in DOMAIN datasets : datasets'[v] = datasets[v]
  PROVE  BaseKnown'
<1>1. pc \in [Run -> Labels] /\ \A q \in Run : base[q] \in DOMAIN datasets \cup {NoVersion}
  BY DEF Inv, Typed, Labels
<1>2. \A q \in Run : q # r => pc'[q] = pc[q]
  BY <1>1
<1>3. pc'[r] = label
  BY <1>1
<1>4. SUFFICES ASSUME NEW q \in Run
               PROVE  /\ pc'[q] \in {"fetch", "commit"} /\ base'[q] # NoVersion
                           => datasets'[base'[q]].cutoff < cutoff'[q]
                      /\ pc'[q] = "commit" /\ base'[q] # NoVersion
                           => \A s \in DOMAIN batch'[q] : \A m \in DOMAIN batch'[q][s] :
                                datasets'[base'[q]].cutoff - Overlap < m
  BY DEF BaseKnown
<1>5. CASE q = r
  BY <1>3, <1>5
<1>6. CASE q # r
  <2>1. /\ pc'[q] = pc[q] /\ cutoff'[q] = cutoff[q] /\ base'[q] = base[q] /\ batch'[q] = batch[q]
    BY <1>2, <1>6
  <2>2. base[q] # NoVersion => datasets'[base[q]] = datasets[base[q]]
    BY <1>1
  <2>3. QED
    BY <2>1, <2>2 DEF BaseKnown
<1>7. QED
  BY <1>5, <1>6

\* What an invocation holds about its base stays true whoever else commits.
LEMMA BaseKnownStep ==
  ASSUME Inv, BaseKnown, [Next]_vars
  PROVE  BaseKnown'
<1> USE DEF Inv
<1>1. /\ pc \in [Run -> Labels] /\ cutoff \in [Run -> Nat \cup {NoCutoff}]
      /\ base \in [Run -> Nat] /\ batch \in [Run -> Batch]
  BY DEF Typed, Labels
<1> HIDE DEF Labels
<1>2. \A v \in DOMAIN datasets : datasets'[v] = datasets[v]
  BY AppendStep
<1>3. ASSUME NEW r \in Run, NEW label, Leave(r, label), label \in {"ended", "crashed"}
      PROVE  BaseKnown'
  BY <1>1, <1>2, <1>3, BaseKnownKept DEF Leave, GoTo
<1>4. ASSUME NEW r \in Run, NEW label, GoTo(r, label), KeepLocals,
             label \in {"cutoff", "latest", "fail"}
      PROVE  BaseKnown'
  BY <1>1, <1>2, <1>4, BaseKnownKept DEF GoTo, KeepLocals
<1>5. ASSUME NEW r \in Run, Start(r) \/ StoreCutoff(r) \/ RejectCommit(r) \/ CallRaises(r)
      PROVE  BaseKnown'
  BY <1>4, <1>5 DEF Start, StoreCutoff, RejectCommit, CallRaises
<1>6. ASSUME NEW r \in Run, CompleteNoop(r) \/ Commit(r) \/ Fail(r) \/ Crash(r)
      PROVE  BaseKnown'
  BY <1>3, <1>6 DEF CompleteNoop, Commit, Fail, Crash
<1>7. ASSUME NEW r \in Run, AskCutoff(r)
      PROVE  BaseKnown'
  <2>1. PICK c \in ServerCutoff : cutoff' = [cutoff EXCEPT ![r] = c]
    BY <1>7 DEF AskCutoff
  <2>2. pc' = [pc EXCEPT ![r] = "store_cutoff"] /\ UNCHANGED <<base, batch>>
    BY <1>7 DEF AskCutoff, GoTo
  <2>3. \A q \in Run : q # r => cutoff'[q] = cutoff[q] /\ base'[q] = base[q] /\ batch'[q] = batch[q]
    BY <1>1, <2>1, <2>2
  <2>4. QED
    BY <1>2, <2>2, <2>3, BaseKnownKept
<1>8. ASSUME NEW r \in Run, ReadLatest(r)
      PROVE  BaseKnown'
  <2> DEFINE known == IF LatestVersion = NoVersion THEN NoCutoff
                      ELSE datasets[LatestVersion].cutoff
             label == CASE cutoff[r] < known -> "fail"
                        [] cutoff[r] = known -> "complete"
                        [] cutoff[r] > known -> "fetch"
  <2>1. /\ pc' = [pc EXCEPT ![r] = label] /\ base' = [base EXCEPT ![r] = LatestVersion]
        /\ UNCHANGED <<storeVars, cutoff, batch>>
    BY <1>8 DEF ReadLatest, GoTo
  <2>2. cutoff[r] \in Nat
    BY <1>8 DEF ReadLatest, Locals
  <2>3. known \in Int
    BY LatestVersionType, DatasetTypes DEF NoCutoff
  <2>4. LatestVersion # NoVersion => known = datasets[LatestVersion].cutoff
    OBVIOUS
  <2>5. label # "commit" /\ (label = "fetch" => known < cutoff[r])
    <3> HIDE DEF known
    <3>1. QED
      BY <2>2, <2>3
  <2> HIDE DEF known, label
  <2>6. datasets' = datasets /\ cutoff' = cutoff /\ batch' = batch
    BY <2>1 DEF storeVars
  <2>7. QED
    BY <1>1, <2>1, <2>4, <2>5, <2>6 DEF BaseKnown
<1>9. ASSUME NEW r \in Run, Fetch(r)
      PROVE  BaseKnown'
  <2>1. PICK b \in [Configured -> FetchedRows(FetchStart(r), cutoff[r])] :
          batch' = [batch EXCEPT ![r] = b]
    BY <1>9 DEF Fetch
  <2>2. /\ pc[r] = "fetch" /\ pc' = [pc EXCEPT ![r] = "commit"]
        /\ UNCHANGED <<datasets, cutoff, base>>
    BY <1>9 DEF Fetch, GoTo, storeVars
  <2>3. cutoff[r] \in Nat /\ base[r] \in DOMAIN datasets \cup {NoVersion}
    BY <2>2, LocalsAre DEF Locals
  <2>4. ASSUME base[r] # NoVersion
        PROVE  \A s \in DOMAIN b : \A m \in DOMAIN b[s] : datasets[base[r]].cutoff - Overlap < m
    <3>1. datasets[base[r]].cutoff \in Nat
      BY <2>3, <2>4, DatasetTypes
    <3>2. FetchStart(r) = datasets[base[r]].cutoff + 1 - Overlap /\ FetchStart(r) \in Int
      BY <2>4, <3>1, BarsAssumption DEF FetchStart
    <3>3. ASSUME NEW s \in DOMAIN b, NEW m \in DOMAIN b[s]
          PROVE  datasets[base[r]].cutoff - Overlap < m
      <4>1. b[s] \in FetchedRows(FetchStart(r), cutoff[r])
        OBVIOUS
      <4>2. FetchStart(r) <= m
        BY <2>3, <3>2, <4>1, FetchedRowsWindow
      <4>3. m \in Int
        BY <2>3, <3>2, <4>1, FetchedRowsType, RowsAre
      <4>4. QED
        BY <3>1, <3>2, <4>2, <4>3, BarsAssumption
    <3>4. QED
      BY <3>3
  <2>5. SUFFICES ASSUME NEW q \in Run
                 PROVE  /\ pc'[q] \in {"fetch", "commit"} /\ base[q] # NoVersion
                             => datasets[base[q]].cutoff < cutoff[q]
                        /\ pc'[q] = "commit" /\ base[q] # NoVersion
                             => \A s \in DOMAIN batch'[q] : \A m \in DOMAIN batch'[q][s] :
                                  datasets[base[q]].cutoff - Overlap < m
    BY <2>2 DEF BaseKnown
  <2>6. CASE q = r
    <3>1. batch'[q] = b
      BY <1>1, <2>1, <2>6
    <3>2. QED
      BY <2>2, <2>4, <2>6, <3>1 DEF BaseKnown
  <2>7. CASE q # r
    <3>1. batch'[q] = batch[q] /\ pc'[q] = pc[q]
      BY <1>1, <2>1, <2>2, <2>7
    <3>2. QED
      BY <3>1 DEF BaseKnown
  <2>8. QED
    BY <2>6, <2>7
<1>10. CASE Tick \/ StepBack \/ UNCHANGED vars
  BY <1>10 DEF Tick, StepBack, attemptVars, vars, storeVars, BaseKnown
<1>11. QED
  BY <1>5, <1>6, <1>7, <1>8, <1>9, <1>10 DEF Next, Advance, Exhausted

\* So it is true in every reachable state.
LEMMA BaseIsKnown == Spec => []BaseKnown
<1>1. Init => BaseKnown
  BY DEF Init, BaseKnown
<1>2. Inv /\ BaseKnown /\ [Next]_vars => BaseKnown'
  BY BaseKnownStep
<1>3. QED
  BY <1>1, <1>2, Invariance, PTL DEF Spec

--------------------------------------------------------------------------------
(* What a dataset inherits *)

\* A commit copies the base's rows and overlays minutes of the overlap or later.
LEMMA HistoryStep ==
  ASSUME Inv, BaseKnown, DatasetsWhole, HistoryPreserved, [Next]_vars
  PROVE  HistoryPreserved'
<1> USE DEF Inv
<1>1. ASSUME NEW r \in Run, Commit(r)
      PROVE  HistoryPreserved'
  <2> DEFINE n == Len(datasets) + 1
             b == base[r]
             merged == MergedRows(batch[r], cutoff[r], b)
  <2>1. /\ DOMAIN datasets' = 1..n /\ DOMAIN datasets = 1..Len(datasets) /\ Len(datasets) \in Nat
        /\ \A v \in DOMAIN datasets : datasets'[v] = datasets[v]
        /\ datasets'[n].bars = merged /\ datasets'[n].base = b
    <3>1. Committed(r).bars = merged /\ Committed(r).base = b
      BY DEF Committed
    <3> HIDE DEF merged, b
    <3>2. QED
      BY <1>1, <3>1, CommitWrites, DatasetTypes
  <2>2. /\ pc[r] = "commit" /\ DOMAIN batch[r] = Symbol /\ cutoff[r] \in Nat
        /\ b \in DOMAIN datasets \cup {NoVersion}
    BY <1>1, CommitWrites, LocalsAre DEF Commit
  <2>3. ASSUME b # NoVersion, NEW s \in Symbol, NEW m \in DOMAIN datasets[b].bars[s]
        PROVE  /\ m \in DOMAIN merged[s]
               /\ m <= datasets[b].cutoff - Overlap => merged[s][m] = datasets[b].bars[s][m]
    <3>1. datasets[b].cutoff \in Nat /\ datasets[b].bars[s] \in Rows
      BY <2>2, <2>3, DatasetTypes
    <3>2. m \in Int
      BY <3>1, RowsAre
    <3>3. m <= datasets[b].cutoff /\ datasets[b].cutoff < cutoff[r]
      BY <2>2, <2>3 DEF DatasetsWhole, EndsAt, BaseKnown
    <3>4. m <= cutoff[r]
      BY <2>2, <3>1, <3>2, <3>3
    <3>5. m \in DOMAIN merged[s]
      BY <2>3, <3>4, MergedRowsAre
    <3>6. ASSUME m <= datasets[b].cutoff - Overlap
          PROVE  m \notin DOMAIN batch[r][s]
      <4>1. m \in DOMAIN batch[r][s] => datasets[b].cutoff - Overlap < m
        BY <2>2, <2>3 DEF BaseKnown
      <4>2. QED
        BY <3>1, <3>2, <3>6, <4>1, BarsAssumption
    <3>7. QED
      BY <3>5, <3>6, MergedRowsAre
  <2> HIDE DEF merged
  <2>4. SUFFICES ASSUME NEW v \in DOMAIN datasets', datasets'[v].base # NoVersion,
                        NEW s \in Symbol, NEW m \in DOMAIN datasets'[datasets'[v].base].bars[s]
                 PROVE  /\ m \in DOMAIN datasets'[v].bars[s]
                        /\ m <= datasets'[datasets'[v].base].cutoff - Overlap
                             => datasets'[v].bars[s][m] = datasets'[datasets'[v].base].bars[s][m]
    BY DEF HistoryPreserved
  <2>5. CASE v \in DOMAIN datasets
    <3>1. datasets'[v] = datasets[v]
      BY <2>1, <2>5
    <3>2. datasets[v].base \in DOMAIN datasets
      BY <2>1, <2>4, <2>5, <3>1, DatasetTypes DEF NoVersion
    <3>3. datasets'[datasets[v].base] = datasets[datasets[v].base]
      BY <2>1, <3>2
    <3>4. QED
      BY <2>4, <2>5, <3>1, <3>3 DEF HistoryPreserved
  <2>6. CASE v = n
    <3>1. datasets'[v].base = b /\ b # NoVersion /\ b \in DOMAIN datasets
      BY <2>1, <2>2, <2>4, <2>6
    <3>2. datasets'[b] = datasets[b] /\ datasets'[v].bars = merged
      BY <2>1, <2>6, <3>1
    <3>3. QED
      BY <2>3, <2>4, <3>1, <3>2
  <2>7. QED
    BY <2>1, <2>5, <2>6
<1>2. CASE ~ \E r \in Run : Commit(r)
  BY <1>2, OtherStepsTyped DEF HistoryPreserved
<1>3. QED
  BY <1>1, <1>2

\* A dataset keeps every minute of its base, and the content of every minute
\* that lies before the overlap.
THEOREM HistoryIsPreserved == Spec => []HistoryPreserved
<1>1. Init => HistoryPreserved
  BY DEF Init, StoreInit, HistoryPreserved
<1>2. Inv /\ BaseKnown /\ DatasetsWhole /\ HistoryPreserved /\ [Next]_vars => HistoryPreserved'
  BY HistoryStep
<1>3. QED
  BY <1>1, <1>2, Invariance, BaseIsKnown, Wholeness, PTL DEF Spec

--------------------------------------------------------------------------------
(* One line of datasets, while the wall clock only goes forward *)

\* Commit stamps never decrease and the clock is not behind any of them.
Stamped ==
  /\ \A v \in DOMAIN datasets : datasets[v].committedAt <= clock
  /\ \A v, w \in DOMAIN datasets : v <= w => datasets[v].committedAt <= datasets[w].committedAt

Lined ==
  \A v \in DOMAIN datasets :
    /\ datasets[v].base = v - 1
    /\ v > 1 => datasets[v - 1].cutoff < datasets[v].cutoff

\* With such stamps latest_committed answers the dataset committed last.
LEMMA StampedLatest ==
  ASSUME Inv, Stamped
  PROVE  LatestVersion = Len(datasets)
<1> USE DEF Inv
<1>1. DOMAIN datasets = 1..Len(datasets) /\ Len(datasets) \in Nat
  BY DatasetTypes
<1>2. CASE datasets = <<>>
  BY <1>2 DEF LatestVersion, NoVersion
<1>3. CASE datasets # <<>>
  <2>1. Len(datasets) \in DOMAIN datasets
    BY <1>1, <1>3 DEF Typed
  <2>2. ASSUME NEW w \in DOMAIN datasets
        PROVE  ListedFirst(Len(datasets), w)
    <3>1. w <= Len(datasets) /\ datasets[w].committedAt <= datasets[Len(datasets)].committedAt
      BY <1>1, <2>1 DEF Stamped
    <3>2. datasets[w].committedAt \in Nat /\ datasets[Len(datasets)].committedAt \in Nat
      BY <2>1, DatasetTypes
    <3>3. QED
      BY <3>1, <3>2 DEF ListedFirst
  <2>3. IsLatest(Len(datasets))
    BY <2>1, <2>2 DEF IsLatest
  <2>4. QED
    BY <2>3, LatestVersionIs
<1>4. QED
  BY <1>2, <1>3

\* A commit that is accepted was based on the last dataset.
LEMMA LineStep ==
  ASSUME ~ ClockMayStepBack, Inv, BaseKnown, Stamped, Lined, [Next]_vars
  PROVE  Stamped' /\ Lined'
<1> USE DEF Inv
<1>1. ASSUME NEW r \in Run, Commit(r)
      PROVE  Stamped' /\ Lined'
  <2> DEFINE n == Len(datasets) + 1
  <2>1. /\ DOMAIN datasets' = 1..n /\ DOMAIN datasets = 1..Len(datasets) /\ Len(datasets) \in Nat
        /\ \A v \in DOMAIN datasets : datasets'[v] = datasets[v]
        /\ datasets'[n].committedAt = clock /\ datasets'[n].base = base[r]
        /\ datasets'[n].cutoff = cutoff[r] /\ clock' = clock
    <3>1. /\ Committed(r).committedAt = clock /\ Committed(r).base = base[r]
          /\ Committed(r).cutoff = cutoff[r]
      BY DEF Committed
    <3>2. QED
      BY <1>1, <3>1, CommitWrites, DatasetTypes
  <2>2. clock \in Nat /\ \A v \in DOMAIN datasets : datasets[v].committedAt \in Nat
    BY DatasetTypes DEF Typed
  <2>3. BaseAccepted(batch[r], cutoff[r], base[r]) /\ pc[r] = "commit"
    BY <1>1 DEF Commit, CommitDataset, CommitAccepted
  <2>4. base[r] = Len(datasets)
    <3>1. CASE base[r] = NoVersion
      <4>1. datasets = <<>>
        BY <2>3, <3>1 DEF BaseAccepted
      <4>2. QED
        BY <3>1, <4>1 DEF NoVersion
    <3>2. CASE base[r] # NoVersion
      BY <2>3, <3>2, StampedLatest DEF BaseAccepted
    <3>3. QED
      BY <3>1, <3>2
  <2>5. n > 1 => datasets[n - 1].cutoff < cutoff[r]
    <3>1. n > 1 => base[r] # NoVersion
      BY <2>1, <2>4 DEF NoVersion
    <3>2. n - 1 = base[r]
      BY <2>1, <2>4
    <3>3. QED
      BY <2>3, <3>1, <3>2 DEF BaseKnown
  <2>6. Stamped'
    <3>1. \A v \in 1..n : datasets'[v].committedAt <= clock'
      BY <2>1, <2>2 DEF Stamped
    <3>2. \A v, w \in 1..n : v <= w => datasets'[v].committedAt <= datasets'[w].committedAt
      <4>1. SUFFICES ASSUME NEW v \in 1..n, NEW w \in 1..n, v <= w
                     PROVE  datasets'[v].committedAt <= datasets'[w].committedAt
        OBVIOUS
      <4>2. CASE w = n
        BY <2>1, <3>1, <4>2
      <4>3. CASE w # n
        <5>1. v \in DOMAIN datasets /\ w \in DOMAIN datasets
          BY <2>1, <4>1, <4>3
        <5>2. QED
          BY <2>1, <4>1, <5>1 DEF Stamped
      <4>4. QED
        BY <4>2, <4>3
    <3>3. QED
      BY <2>1, <3>1, <3>2 DEF Stamped
  <2>7. Lined'
    <3>1. SUFFICES ASSUME NEW v \in 1..n
                   PROVE  /\ datasets'[v].base = v - 1
                          /\ v > 1 => datasets'[v - 1].cutoff < datasets'[v].cutoff
      BY <2>1 DEF Lined
    <3>2. CASE v = n
      <4>1. n > 1 => datasets'[n - 1] = datasets[n - 1]
        BY <2>1
      <4>2. QED
        BY <2>1, <2>4, <2>5, <3>2, <4>1
    <3>3. CASE v # n
      <4>1. v \in DOMAIN datasets /\ datasets'[v] = datasets[v]
        BY <2>1, <3>3
      <4>2. v > 1 => datasets'[v - 1] = datasets[v - 1]
        BY <2>1, <4>1
      <4>3. QED
        BY <4>1, <4>2 DEF Lined
    <3>4. QED
      BY <3>2, <3>3
  <2>8. QED
    BY <2>6, <2>7
<1>2. CASE ~ \E r \in Run : Commit(r)
  <2>1. datasets' = datasets
    BY <1>2, OtherStepsTyped
  <2>2. clock' \in Nat /\ clock \in Nat
    BY <1>2, OtherStepsTyped DEF StoreTyped, Typed
  <2>3. clock <= clock'
    BY <1>2, <2>2 DEF Next, Start, StartIngestion, Advance, AskCutoff, StoreCutoff,
       SetIngestionCutoff, ReadLatest, CompleteNoop, CompleteIngestion, Fetch, RejectCommit,
       CallRaises, Fail, FailIngestion, Crash, Tick, StepBack, Exhausted, vars, storeVars
  <2>4. \A v \in DOMAIN datasets : datasets[v].committedAt \in Nat
    BY DatasetTypes
  <2>5. QED
    BY <2>1, <2>2, <2>3, <2>4 DEF Stamped, Lined
<1>3. QED
  BY <1>1, <1>2

\* While the wall clock is never set back, datasets form one line of growing
\* cutoffs and the latest is the one committed last, however many invocations
\* race.  Without the hypothesis it is false: see the run ingest_clock.
THEOREM DatasetsFormOneLine ==
  ASSUME ~ ClockMayStepBack
  PROVE  Spec => []OneLineage
<1>1. Init => Stamped /\ Lined
  BY DEF Init, StoreInit, Stamped, Lined
<1>2. Inv /\ BaseKnown /\ Stamped /\ Lined /\ [Next]_vars => Stamped' /\ Lined'
  BY LineStep
<1>3. Inv /\ Stamped /\ Lined => OneLineage
  BY StampedLatest DEF Lined, OneLineage
<1>4. QED
  BY <1>1, <1>2, <1>3, Invariance, BaseIsKnown, PTL DEF Spec
================================================================================
