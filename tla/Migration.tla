------------------------------- MODULE Migration -------------------------------
(* MarketRepository.__init__: every command opens the market database, and the *)
(* first to do so after an upgrade gives the datasets of earlier versions their *)
(* origins.  The version is read before the transaction that changes anything, *)
(* so openers may race, and those already open record new runs in between.     *)
(* Only what the migration tells apart is kept of datasets and runs; every     *)
(* dataset is COMMITTED, the one status the schema knows.                      *)
EXTENDS Integers, Sequences, FiniteSets

CONSTANTS
  Run,      \* ingestion run identifiers, numbers in the order MIN compares them
  Opener,   \* processes that open the database
  Cutoff,   \* cutoffs, positive numbers
  MaxDatasets, MaxStops  \* bounds: datasets, crashes and time-outs on opening

ASSUME RunAssumption == Run \subseteq Nat /\ Cutoff \subseteq Nat \ {0}
ASSUME BoundAssumption == MaxDatasets \in Nat /\ MaxStops \in Nat

VARIABLES
  column,    \* whether the columns added since the first schema are there
  datasets,  \* cutoffs of the datasets, in the order of their versions
  runs,      \* table ingestion_runs
  index,     \* one_ingestion_origin_per_dataset: "none", "canonical" or "other"
  version,   \* PRAGMA user_version
  pc,        \* where each opener is
  stops      \* crashes and time-outs so far

dbVars == <<column, datasets, runs, index, version>>
vars == <<dbVars, pc, stops>>

None == 0  \* NULL in dataset_version
Absent == [status |-> "ABSENT", cutoff |-> None, dataset |-> None]
Row(status, cutoff, dataset) == [status |-> status, cutoff |-> cutoff, dataset |-> dataset]

Status == {"ABSENT", "COMMITTED", "FAILED"}
Label == {"closed", "alter", "version", "migrate", "index", "open", "raised"}

--------------------------------------------------------------------------------
(* The two updates of the migration *)

IsLeast(r, S) == r \in S /\ \A q \in S : r <= q
Committed(table) == {r \in Run : table[r].status = "COMMITTED"}

\* Variant: the least run of the cutoff, whichever dataset it names.
IsOrigin_OfCutoff(table, r) ==
  /\ r \in Committed(table)
  /\ table[r].dataset \in DOMAIN datasets
  /\ datasets[table[r].dataset] = table[r].cutoff
  /\ IsLeast(r, {q \in Committed(table) : table[q].cutoff = table[r].cutoff})

\* What the first update leaves: the least of the committed runs that name a
\* dataset of their own cutoff.
IsOrigin(table, r) ==
  /\ r \in Committed(table)
  /\ table[r].dataset \in DOMAIN datasets
  /\ datasets[table[r].dataset] = table[r].cutoff
  /\ IsLeast(r, {q \in Committed(table) : /\ table[q].dataset = table[r].dataset
                                          /\ table[q].cutoff = table[r].cutoff})

Cleared(table) ==
  [r \in Run |-> IF IsOrigin(table, r) THEN table[r] ELSE [table[r] EXCEPT !.dataset = None]]

OnlyDatasetOf(cutoff, v) ==
  v \in DOMAIN datasets /\ \A w \in DOMAIN datasets : datasets[w] = cutoff <=> w = v

\* Variant: a run that failed can be the least of its cutoff.
MayAdopt_AnyStatus(table, r) ==
  /\ r \in Committed(table)
  /\ table[r].dataset = None
  /\ IsLeast(r, {q \in Run : table[q].cutoff = table[r].cutoff})

\* Variant: the run itself does not have to be committed.
MayAdopt_Failed(table, r) ==
  /\ table[r].dataset = None
  /\ \A q \in Committed(table) : table[q].cutoff = table[r].cutoff => r <= q

\* The runs the second update may set: the least committed one of each cutoff.
MayAdopt(table, r) ==
  /\ r \in Committed(table)
  /\ table[r].dataset = None
  /\ IsLeast(r, {q \in Committed(table) : table[q].cutoff = table[r].cutoff})

\* It receives the dataset of its cutoff if there is exactly one.
Adopted(table) ==
  [r \in Run |->
     IF MayAdopt(table, r) /\ \E v \in DOMAIN datasets : OnlyDatasetOf(table[r].cutoff, v)
     THEN [table[r] EXCEPT !.dataset =
             CHOOSE v \in DOMAIN datasets : OnlyDatasetOf(table[r].cutoff, v)]
     ELSE table[r]]

Unique(table) ==
  \A q, r \in Run : table[q].dataset = table[r].dataset /\ table[r].dataset # None => q = r

--------------------------------------------------------------------------------
(* Opening *)

GoTo(o, label) == pc' = [pc EXCEPT ![o] = label]

\* The tables are created if they are missing; then their columns are listed.
Connect(o) ==
  /\ pc[o] \in {"closed", "raised"}
  /\ GoTo(o, IF column THEN "version" ELSE "alter")
  /\ UNCHANGED <<dbVars, stops>>

\* ALTER TABLE raises when another opener has been faster.
AddColumn(o) ==
  /\ pc[o] = "alter"
  /\ column' = TRUE
  /\ GoTo(o, IF column THEN "raised" ELSE "version")
  /\ UNCHANGED <<datasets, runs, index, version, stops>>

ReadVersion(o) ==
  /\ pc[o] = "version"
  /\ GoTo(o, IF version < 1 THEN "migrate" ELSE "index")
  /\ UNCHANGED <<dbVars, stops>>

Raise(o) == GoTo(o, "raised") /\ UNCHANGED <<dbVars, stops>>

\* Variant: the version is left as it was.
Migrate_NoVersion(o) ==
  /\ pc[o] = "migrate"
  /\ LET table == Adopted(Cleared(runs))
     IN IF index = "other" \/ ~Unique(table)
        THEN Raise(o)
        ELSE /\ runs' = table
             /\ index' = "canonical"
             /\ GoTo(o, "open")
             /\ UNCHANGED <<version, column, datasets, stops>>

\* Variant: the index is left to the next one to open.
Migrate_NoIndex(o) ==
  /\ pc[o] = "migrate"
  /\ LET table == Adopted(Cleared(runs))
     IN IF index = "other" \/ (index = "canonical" /\ ~Unique(table))
        THEN Raise(o)
        ELSE /\ runs' = table
             /\ version' = 1
             /\ GoTo(o, "open")
             /\ UNCHANGED <<index, column, datasets, stops>>

\* One transaction, from the first update to the new version: it is rolled back
\* when the unique index refuses the origins or is not the one expected.
Migrate(o) ==
  /\ pc[o] = "migrate"
  /\ LET table == Adopted(Cleared(runs))
     IN IF index = "other" \/ ~Unique(table)
        THEN Raise(o)
        ELSE /\ runs' = table
             /\ index' = "canonical"
             /\ version' = 1
             /\ GoTo(o, "open")
             /\ UNCHANGED <<column, datasets, stops>>

\* On a migrated database the index is created if it is missing, and checked.
EnsureIndex(o) ==
  /\ pc[o] = "index"
  /\ IF index = "other" \/ (index = "none" /\ ~Unique(runs))
     THEN Raise(o)
     ELSE /\ index' = "canonical"
          /\ GoTo(o, "open")
          /\ UNCHANGED <<column, datasets, runs, version, stops>>

\* A crash, or another's lock that lasts longer than the busy timeout.
Stop(o) ==
  /\ pc[o] \in {"alter", "version", "migrate", "index"} /\ stops < MaxStops
  /\ stops' = stops + 1
  /\ GoTo(o, "closed")
  /\ UNCHANGED dbVars

Open(o) == Connect(o) \/ AddColumn(o) \/ ReadVersion(o) \/ Migrate(o) \/ EnsureIndex(o)

--------------------------------------------------------------------------------
(* What is done with an open database *)

NewRow(o, r, row) ==
  /\ pc[o] = "open" /\ runs[r] = Absent
  /\ runs' = [runs EXCEPT ![r] = row]
  /\ UNCHANGED <<column, index, version, pc, stops>>

Latest == IF datasets = <<>> THEN None ELSE datasets[Len(datasets)]

\* commit_dataset, for a run that has fetched up to a later cutoff.
CommitDataset(o, r, cutoff) ==
  /\ Len(datasets) < MaxDatasets /\ cutoff > Latest
  /\ datasets' = Append(datasets, cutoff)
  /\ NewRow(o, r, Row("COMMITTED", cutoff, Len(datasets) + 1))

\* complete_ingestion without a dataset: nothing is newer than the latest one.
CompleteWithout(o, r) ==
  /\ datasets # <<>>
  /\ NewRow(o, r, Row("COMMITTED", Latest, None))
  /\ UNCHANGED datasets

\* fail_ingestion.
FailRun(o, r, cutoff) ==
  /\ NewRow(o, r, Row("FAILED", cutoff, None))
  /\ UNCHANGED datasets

Close(o) ==
  /\ pc[o] = "open"
  /\ GoTo(o, "closed")
  /\ UNCHANGED <<dbVars, stops>>

\* The databases earlier versions have left: without the columns; or with them,
\* and then every committed run names a dataset of its cutoff, the runs that
\* found nothing new included; or with another index of the name.
Init ==
  /\ column \in BOOLEAN
  /\ datasets \in {s \in UNION {[1..n -> Cutoff] : n \in 0..MaxDatasets} :
                     \A k \in DOMAIN s : k > 1 => s[k - 1] <= s[k]}
  /\ runs \in [Run -> {Absent} \cup
                      {Row("FAILED", c, None) : c \in Cutoff} \cup
                      {Row("COMMITTED", datasets[v], IF column THEN v ELSE None) :
                         v \in DOMAIN datasets}]
  /\ index \in IF column THEN {"none", "other"} ELSE {"none"}
  /\ version = 0
  /\ pc = [o \in Opener |-> "closed"]
  /\ stops = 0

Next ==
  \E o \in Opener :
    \/ Open(o) \/ Stop(o) \/ Close(o)
    \/ \E r \in Run : \/ CompleteWithout(o, r)
                      \/ \E cutoff \in Cutoff : CommitDataset(o, r, cutoff) \/ FailRun(o, r, cutoff)

\* A command that could not open the database is run again, by the scheduler or
\* by hand, and an opener that has begun goes on.
Spec == Init /\ [][Next]_vars /\ \A o \in Opener : WF_vars(Open(o))

--------------------------------------------------------------------------------
(* Properties *)

\* The marks of the migration come together: no version without the index, no
\* index or origin without the column.
TypeOK ==
  /\ column \in BOOLEAN
  /\ datasets \in Seq(Cutoff)
  /\ runs \in [Run -> [status : Status, cutoff : Cutoff \cup {None}, dataset : Nat]]
  /\ index \in {"none", "canonical", "other"}
  /\ version \in {0, 1}
  /\ pc \in [Opener -> Label]
  /\ stops \in 0..MaxStops
  /\ version = 1 => index = "canonical"
  /\ index = "canonical" => version = 1
  /\ ~column => index = "none" /\ \A r \in Run : runs[r].dataset = None

Origins(table, v) == {r \in Run : table[r].dataset = v}

\* After the migration a run that names a dataset is its one origin, committed
\* and of its cutoff: what committed_ingestion_for_dataset reports as the origin
\* of an analysis is never ambiguous, however many openers migrated.
OriginsAreReal ==
  version = 1 =>
    /\ Unique(runs)
    /\ \A r \in Run : runs[r].dataset # None => IsOrigin(runs, r)

\* What one analysis has reported as the origin of its dataset stays its origin,
\* also when an opener that read the old version migrates after it.
OriginStays ==
  [][version = 1 => \A r \in Run : runs[r].dataset # None => runs'[r] = runs[r]]_vars

\* The migration finds an origin for each dataset that has one to find: one of
\* the committed runs that name it, or, when it is the only dataset of its cutoff,
\* one of the committed runs of that cutoff.
LegacyOriginFound ==
  [][version = 0 /\ version' = 1 =>
       \A v \in DOMAIN datasets :
         LET named == Origins(runs, v) \cap Committed(runs)
             atCutoff == {r \in Committed(runs) : runs[r].cutoff = datasets[v]}
         IN /\ named # {} => Origins(runs', v) \cap named # {}
            /\ OnlyDatasetOf(datasets[v], v) /\ atCutoff # {} =>
                 Origins(runs', v) \cap atCutoff # {}]_vars

\* Whatever the interleaving, a failure to open is transient: the races on the
\* columns and on the version, and the crashes, leave a database that opens.
EventuallyOpen == index # "other" => \A o \in Opener : []<>(pc[o] = "open")
================================================================================
