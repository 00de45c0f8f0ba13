---------------------------- MODULE MigrationProofs ----------------------------
(* Theorems about Migration, for every number of openers, runs, cutoffs and    *)
(* datasets: the origins the migration leaves are real, stay what they are and *)
(* are found wherever there is one to find.                                    *)
EXTENDS Migration, WellFoundedInduction, TLAPS

\* What a run names is a dataset of its own cutoff, and only a committed run
\* names one: true of the databases of earlier versions and never lost.
NamesAreReal ==
  \A r \in Run : runs[r].dataset # None =>
    /\ runs[r].status = "COMMITTED"
    /\ runs[r].dataset \in DOMAIN datasets
    /\ datasets[runs[r].dataset] = runs[r].cutoff

\* An opener that is past a step finds what the step has left.
OpenersFollow ==
  \A o \in Opener :
    /\ pc[o] \in {"version", "migrate", "index", "open"} => column
    /\ pc[o] \in {"index", "open"} => version = 1

Inv == TypeOK /\ NamesAreReal /\ OpenersFollow

Table == [Run -> [status : Status, cutoff : Cutoff \cup {None}, dataset : Nat]]

--------------------------------------------------------------------------------
(* The two updates *)

\* A set of runs that is not empty has a least one, which is what MIN answers.
LEMMA LeastRunExists ==
  ASSUME NEW S \in SUBSET Run, S # {}
  PROVE  \E r \in S : IsLeast(r, S)
<1>1. PICK r \in S : \A q \in S : ~ (<<q, r>> \in OpToRel(<, Nat))
  BY WFMin, NatLessThanWellFounded, RunAssumption
<1>2. \A q \in S : ~ (q < r)
  BY <1>1, RunAssumption DEF OpToRel
<1> QED BY <1>2, RunAssumption DEF IsLeast

\* A cutoff has at most one dataset that is the only one of it.
LEMMA OnlyDatasetIsOne ==
  ASSUME NEW c, NEW v, NEW w, OnlyDatasetOf(c, v), OnlyDatasetOf(c, w)
  PROVE  v = w
  BY DEF OnlyDatasetOf

\* The first update only takes datasets away.
LEMMA ClearedKeeps ==
  ASSUME NEW table \in Table
  PROVE  /\ Cleared(table) \in Table
         /\ \A r \in Run :
              /\ Cleared(table)[r].status = table[r].status
              /\ Cleared(table)[r].cutoff = table[r].cutoff
              /\ IsOrigin(table, r) => Cleared(table)[r] = table[r]
              /\ ~ IsOrigin(table, r) => Cleared(table)[r].dataset = None
<1>1. \A r \in Run : [table[r] EXCEPT !.dataset = None] \in
                       [status : Status, cutoff : Cutoff \cup {None}, dataset : Nat]
  BY DEF Table, None
<1>2. Cleared(table) \in Table
  BY <1>1 DEF Cleared, Table
<1>3. \A r \in Run : Cleared(table)[r] = IF IsOrigin(table, r) THEN table[r]
                                        ELSE [table[r] EXCEPT !.dataset = None]
  BY DEF Cleared
<1> QED BY <1>2, <1>3 DEF Table

\* The second update only gives datasets of their own cutoff to committed runs
\* that have none.
LEMMA AdoptedKeeps ==
  ASSUME NEW table \in Table, datasets \in Seq(Cutoff)
  PROVE  /\ Adopted(table) \in Table
         /\ \A r \in Run :
              /\ Adopted(table)[r].status = table[r].status
              /\ Adopted(table)[r].cutoff = table[r].cutoff
              /\ \/ Adopted(table)[r] = table[r]
                 \/ /\ MayAdopt(table, r)
                    /\ OnlyDatasetOf(table[r].cutoff, Adopted(table)[r].dataset)
              /\ \A v \in DOMAIN datasets :
                   MayAdopt(table, r) /\ OnlyDatasetOf(table[r].cutoff, v) =>
                     Adopted(table)[r].dataset = v
<1> DEFINE Gets(r) == /\ MayAdopt(table, r)
                      /\ \E v \in DOMAIN datasets : OnlyDatasetOf(table[r].cutoff, v)
           Got(r) == CHOOSE v \in DOMAIN datasets : OnlyDatasetOf(table[r].cutoff, v)
<1>1. \A r \in Run : Adopted(table)[r] = IF Gets(r) THEN [table[r] EXCEPT !.dataset = Got(r)]
                                        ELSE table[r]
  BY DEF Adopted
<1>2. \A r \in Run : Gets(r) => Got(r) \in DOMAIN datasets /\ OnlyDatasetOf(table[r].cutoff, Got(r))
  OBVIOUS
<1>3. DOMAIN datasets \subseteq Nat
  OBVIOUS
<1>4. \A r \in Run : (IF Gets(r) THEN [table[r] EXCEPT !.dataset = Got(r)] ELSE table[r]) \in
                       [status : Status, cutoff : Cutoff \cup {None}, dataset : Nat]
  <2> SUFFICES ASSUME NEW r \in Run
               PROVE  (IF Gets(r) THEN [table[r] EXCEPT !.dataset = Got(r)] ELSE table[r]) \in
                        [status : Status, cutoff : Cutoff \cup {None}, dataset : Nat]
    OBVIOUS
  <2>1. table[r] \in [status : Status, cutoff : Cutoff \cup {None}, dataset : Nat]
    BY DEF Table
  <2>2. Gets(r) => Got(r) \in Nat
    BY <1>2, <1>3
  <2> HIDE DEF Gets, Got
  <2> QED BY <2>1, <2>2
<1>5. Adopted(table) = [r \in Run |-> IF Gets(r) THEN [table[r] EXCEPT !.dataset = Got(r)]
                                      ELSE table[r]]
  BY DEF Adopted
<1>6. Adopted(table) \in Table
  <2> HIDE DEF Gets, Got
  <2> QED BY <1>4, <1>5 DEF Table
<1>7. ASSUME NEW r \in Run
      PROVE  /\ Adopted(table)[r].status = table[r].status
             /\ Adopted(table)[r].cutoff = table[r].cutoff
             /\ Gets(r) => Adopted(table)[r].dataset = Got(r)
             /\ ~ Gets(r) => Adopted(table)[r] = table[r]
  <2>1. table[r] \in [status : Status, cutoff : Cutoff \cup {None}, dataset : Nat]
    BY DEF Table
  <2> HIDE DEF Gets, Got
  <2> QED BY <1>1, <2>1
<1>8. ASSUME NEW r \in Run, NEW v \in DOMAIN datasets,
             MayAdopt(table, r), OnlyDatasetOf(table[r].cutoff, v)
      PROVE  Adopted(table)[r].dataset = v
  <2>1. Gets(r)
    BY <1>8
  <2>2. OnlyDatasetOf(table[r].cutoff, Got(r))
    BY <2>1, <1>2
  <2> HIDE DEF Gets, Got
  <2> QED BY <1>7, <1>8, <2>1, <2>2, OnlyDatasetIsOne
<1>9. ASSUME NEW r \in Run, Adopted(table)[r] # table[r]
      PROVE  MayAdopt(table, r) /\ OnlyDatasetOf(table[r].cutoff, Adopted(table)[r].dataset)
  <2>1. Gets(r)
    BY <1>7, <1>9
  <2>2. Adopted(table)[r].dataset = Got(r)
    BY <2>1, <1>7
  <2> QED BY <1>2, <2>1, <2>2
<1> QED BY <1>6, <1>7, <1>8, <1>9

\* Both together: a run ends with a dataset of its own cutoff or none, an origin
\* keeps what it has, and whoever had none and may adopt the only dataset of its
\* cutoff does.
LEMMA MigratedTable ==
  ASSUME runs \in Table, datasets \in Seq(Cutoff),
         NEW table, table = Adopted(Cleared(runs))
  PROVE  /\ table \in Table
         /\ \A r \in Run :
              /\ table[r].status = runs[r].status
              /\ table[r].cutoff = runs[r].cutoff
              /\ table[r].dataset # None =>
                   /\ runs[r].status = "COMMITTED"
                   /\ table[r].dataset \in DOMAIN datasets
                   /\ datasets[table[r].dataset] = table[r].cutoff
              /\ IsOrigin(runs, r) => table[r] = runs[r]
<1> DEFINE cleared == Cleared(runs)
<1>1. /\ cleared \in Table
      /\ \A r \in Run : /\ cleared[r].status = runs[r].status
                        /\ cleared[r].cutoff = runs[r].cutoff
                        /\ IsOrigin(runs, r) => cleared[r] = runs[r]
                        /\ ~ IsOrigin(runs, r) => cleared[r].dataset = None
  BY ClearedKeeps
<1> HIDE DEF cleared
<1>2. /\ table \in Table
      /\ \A r \in Run : /\ table[r].status = cleared[r].status
                        /\ table[r].cutoff = cleared[r].cutoff
                        /\ \/ table[r] = cleared[r]
                           \/ /\ MayAdopt(cleared, r)
                              /\ OnlyDatasetOf(cleared[r].cutoff, table[r].dataset)
  BY <1>1, AdoptedKeeps DEF cleared
<1>3. ASSUME NEW r \in Run, IsOrigin(runs, r)
      PROVE  table[r] = runs[r]
  <2>1. cleared[r] = runs[r] /\ runs[r].dataset # None
    BY <1>1, <1>3 DEF IsOrigin, None
  <2> QED BY <1>2, <2>1 DEF MayAdopt
<1>4. ASSUME NEW r \in Run, table[r].dataset # None
      PROVE  /\ runs[r].status = "COMMITTED"
             /\ table[r].dataset \in DOMAIN datasets
             /\ datasets[table[r].dataset] = table[r].cutoff
  <2>1. CASE table[r] = cleared[r]
    BY <1>1, <1>4, <2>1 DEF IsOrigin, Committed
  <2>2. CASE MayAdopt(cleared, r) /\ OnlyDatasetOf(cleared[r].cutoff, table[r].dataset)
    BY <1>1, <1>2, <2>2 DEF MayAdopt, Committed, OnlyDatasetOf
  <2> QED BY <1>2, <2>1, <2>2
<1> QED BY <1>1, <1>2, <1>3, <1>4

--------------------------------------------------------------------------------
(* The invariant *)

LEMMA InitInv == Init => Inv
<1> SUFFICES ASSUME Init PROVE Inv
  OBVIOUS
<1>1. datasets \in Seq(Cutoff)
  BY DEF Init
<1>2. DOMAIN datasets \subseteq Nat \ {0} /\ \A v \in DOMAIN datasets : datasets[v] \in Cutoff
  BY <1>1
<1>3. ASSUME NEW r \in Run
      PROVE  /\ runs[r] \in [status : Status, cutoff : Cutoff \cup {None}, dataset : Nat]
             /\ ~ column => runs[r].dataset = None
             /\ runs[r].dataset # None =>
                  /\ runs[r].status = "COMMITTED"
                  /\ runs[r].dataset \in DOMAIN datasets
                  /\ datasets[runs[r].dataset] = runs[r].cutoff
  <2>1. CASE runs[r] = Absent
    BY <2>1 DEF Absent, None, Status
  <2>2. CASE \E c \in Cutoff : runs[r] = Row("FAILED", c, None)
    BY <2>2 DEF Row, None, Status
  <2>3. CASE \E v \in DOMAIN datasets :
               runs[r] = Row("COMMITTED", datasets[v], IF column THEN v ELSE None)
    <3>1. PICK v \in DOMAIN datasets :
                 runs[r] = Row("COMMITTED", datasets[v], IF column THEN v ELSE None)
      BY <2>3
    <3>2. CASE column
      BY <1>2, <3>1, <3>2 DEF Row, Status
    <3>3. CASE ~ column
      BY <1>2, <3>1, <3>3 DEF Row, Status, None
    <3> QED BY <3>2, <3>3
  <2> QED BY <2>1, <2>2, <2>3 DEF Init
<1>4. runs \in [Run -> [status : Status, cutoff : Cutoff \cup {None}, dataset : Nat]]
  BY <1>3 DEF Init
<1>5. TypeOK
  BY <1>1, <1>3, <1>4, BoundAssumption DEF Init, TypeOK, Label
<1> QED BY <1>3, <1>5 DEF Init, Inv, NamesAreReal, OpenersFollow

\* A step that only moves an opener.
LEMMA MoveInv ==
  ASSUME Inv, NEW o \in Opener, NEW label \in Label,
         UNCHANGED dbVars, stops' \in 0..MaxStops, GoTo(o, label),
         label \in {"version", "migrate", "index", "open"} => column,
         label \in {"index", "open"} => version = 1
  PROVE  Inv'
<1>1. pc' \in [Opener -> Label]
  BY DEF Inv, TypeOK, GoTo
<1>2. TypeOK'
  BY <1>1 DEF Inv, TypeOK, dbVars
<1>3. NamesAreReal'
  BY DEF Inv, NamesAreReal, dbVars
<1>4. OpenersFollow'
  BY DEF Inv, TypeOK, OpenersFollow, GoTo, dbVars
<1> QED BY <1>2, <1>3, <1>4 DEF Inv

LEMMA AddColumnInv ==
  ASSUME Inv, NEW o \in Opener, AddColumn(o)
  PROVE  Inv'
<1>1. pc' \in [Opener -> Label]
  BY DEF Inv, TypeOK, AddColumn, GoTo, Label
<1>2. TypeOK'
  BY <1>1 DEF Inv, TypeOK, AddColumn
<1>3. NamesAreReal'
  BY DEF Inv, NamesAreReal, AddColumn
<1>4. OpenersFollow'
  BY DEF Inv, TypeOK, OpenersFollow, AddColumn, GoTo
<1> QED BY <1>2, <1>3, <1>4 DEF Inv

\* The transaction of the migration.
LEMMA MigrateInv ==
  ASSUME Inv, NEW o \in Opener, Migrate(o)
  PROVE  Inv'
<1> DEFINE table == Adopted(Cleared(runs))
<1>1. CASE index = "other" \/ ~ Unique(table)
  <2>1. Raise(o)
    BY <1>1 DEF Migrate
  <2> QED BY <2>1, MoveInv DEF Raise, Inv, TypeOK, Label
<1>2. CASE ~ (index = "other" \/ ~ Unique(table))
  <2>1. /\ runs' = table /\ index' = "canonical" /\ version' = 1
        /\ GoTo(o, "open") /\ UNCHANGED <<column, datasets, stops>>
        /\ pc[o] = "migrate"
    BY <1>2 DEF Migrate
  <2>2. /\ table \in Table
        /\ \A r \in Run : table[r].dataset # None =>
             /\ runs[r].status = "COMMITTED"
             /\ table[r].status = runs[r].status
             /\ table[r].dataset \in DOMAIN datasets
             /\ datasets[table[r].dataset] = table[r].cutoff
    BY MigratedTable DEF Inv, TypeOK, Table
  <2> HIDE DEF table
  <2>3. column
    BY <2>1 DEF Inv, OpenersFollow
  <2>4. pc' \in [Opener -> Label]
    BY <2>1 DEF Inv, TypeOK, GoTo, Label
  <2>5. TypeOK'
    BY <2>1, <2>2, <2>3, <2>4 DEF Inv, TypeOK, Table
  <2>6. NamesAreReal'
    BY <2>1, <2>2 DEF NamesAreReal
  <2>7. OpenersFollow'
    BY <2>1, <2>3 DEF Inv, TypeOK, OpenersFollow, GoTo
  <2> QED BY <2>5, <2>6, <2>7 DEF Inv
<1> QED BY <1>1, <1>2

LEMMA EnsureIndexInv ==
  ASSUME Inv, NEW o \in Opener, EnsureIndex(o)
  PROVE  Inv'
<1>1. CASE index = "other" \/ (index = "none" /\ ~ Unique(runs))
  <2>1. Raise(o)
    BY <1>1 DEF EnsureIndex
  <2> QED BY <2>1, MoveInv DEF Raise, Inv, TypeOK, Label
<1>2. CASE ~ (index = "other" \/ (index = "none" /\ ~ Unique(runs)))
  <2>1. /\ index' = "canonical" /\ GoTo(o, "open")
        /\ UNCHANGED <<column, datasets, runs, version, stops>>
        /\ pc[o] = "index"
    BY <1>2 DEF EnsureIndex
  <2>2. column /\ version = 1
    BY <2>1 DEF Inv, OpenersFollow
  <2>3. pc' \in [Opener -> Label]
    BY <2>1 DEF Inv, TypeOK, GoTo, Label
  <2>4. TypeOK'
    BY <2>1, <2>2, <2>3 DEF Inv, TypeOK
  <2>5. NamesAreReal' /\ OpenersFollow'
    BY <2>1, <2>2 DEF Inv, TypeOK, NamesAreReal, OpenersFollow, GoTo
  <2> QED BY <2>4, <2>5 DEF Inv
<1> QED BY <1>1, <1>2

\* A new row, with a dataset only if that is the one just added.
LEMMA NewRowInv ==
  ASSUME Inv, NEW o \in Opener, NEW r \in Run, NEW row, NewRow(o, r, row),
         row \in [status : Status, cutoff : Cutoff \cup {None}, dataset : Nat],
         datasets' \in Seq(Cutoff),
         DOMAIN datasets \subseteq DOMAIN datasets',
         \A v \in DOMAIN datasets : datasets'[v] = datasets[v],
         row.dataset # None => /\ row.status = "COMMITTED"
                               /\ row.dataset \in DOMAIN datasets'
                               /\ datasets'[row.dataset] = row.cutoff
  PROVE  Inv'
<1>1. /\ pc[o] = "open" /\ column /\ version = 1
      /\ UNCHANGED <<column, index, version, pc, stops>>
      /\ runs' = [runs EXCEPT ![r] = row]
  BY DEF NewRow, Inv, OpenersFollow
<1>2. TypeOK'
  BY <1>1 DEF Inv, TypeOK
<1>3. \A q \in Run : runs'[q] = IF q = r THEN row ELSE runs[q]
  BY <1>1 DEF Inv, TypeOK
<1>4. NamesAreReal'
  BY <1>3 DEF Inv, NamesAreReal
<1>5. OpenersFollow'
  BY <1>1 DEF Inv, OpenersFollow
<1> QED BY <1>2, <1>4, <1>5 DEF Inv

LEMMA AppendCutoff ==
  ASSUME NEW s \in Seq(Cutoff), NEW c \in Cutoff
  PROVE  /\ Append(s, c) \in Seq(Cutoff)
         /\ DOMAIN s = 1..Len(s) /\ Len(s) \in Nat
         /\ DOMAIN Append(s, c) = 1..(Len(s) + 1)
         /\ \A v \in DOMAIN s : Append(s, c)[v] = s[v]
         /\ Append(s, c)[Len(s) + 1] = c
  OBVIOUS

LEMMA CommitDatasetInv ==
  ASSUME Inv, NEW o \in Opener, NEW r \in Run, NEW c \in Cutoff, CommitDataset(o, r, c)
  PROVE  Inv'
<1> DEFINE row == Row("COMMITTED", c, Len(datasets) + 1)
<1>1. NewRow(o, r, row) /\ datasets' = Append(datasets, c)
  BY DEF CommitDataset
<1>2. datasets \in Seq(Cutoff)
  BY DEF Inv, TypeOK
<1>3. /\ datasets' \in Seq(Cutoff)
      /\ DOMAIN datasets \subseteq DOMAIN datasets'
      /\ Len(datasets) + 1 \in DOMAIN datasets' /\ Len(datasets) \in Nat
      /\ datasets'[Len(datasets) + 1] = c
      /\ \A v \in DOMAIN datasets : datasets'[v] = datasets[v]
  BY <1>1, <1>2, AppendCutoff
<1>4. /\ row \in [status : Status, cutoff : Cutoff \cup {None}, dataset : Nat]
      /\ row.status = "COMMITTED" /\ row.cutoff = c /\ row.dataset = Len(datasets) + 1
  BY <1>3 DEF Row, Status
<1> HIDE DEF row
<1> QED BY <1>1, <1>3, <1>4, NewRowInv

LEMMA CompleteWithoutInv ==
  ASSUME Inv, NEW o \in Opener, NEW r \in Run, CompleteWithout(o, r)
  PROVE  Inv'
<1> DEFINE row == Row("COMMITTED", Latest, None)
<1>1. NewRow(o, r, row) /\ datasets' = datasets /\ datasets # <<>>
  BY DEF CompleteWithout
<1>2. datasets \in Seq(Cutoff)
  BY DEF Inv, TypeOK
<1>3. Latest \in Cutoff
  BY <1>1, <1>2 DEF Latest
<1>4. /\ row \in [status : Status, cutoff : Cutoff \cup {None}, dataset : Nat]
      /\ row.dataset = None
  BY <1>3 DEF Row, Status, None
<1> HIDE DEF row
<1> QED BY <1>1, <1>2, <1>4, NewRowInv

LEMMA FailRunInv ==
  ASSUME Inv, NEW o \in Opener, NEW r \in Run, NEW c \in Cutoff, FailRun(o, r, c)
  PROVE  Inv'
<1> DEFINE row == Row("FAILED", c, None)
<1>1. NewRow(o, r, row) /\ datasets' = datasets
  BY DEF FailRun
<1>2. datasets \in Seq(Cutoff)
  BY DEF Inv, TypeOK
<1>3. /\ row \in [status : Status, cutoff : Cutoff \cup {None}, dataset : Nat]
      /\ row.dataset = None
  BY DEF Row, Status, None
<1> HIDE DEF row
<1> QED BY <1>1, <1>2, <1>3, NewRowInv

LEMMA NextInv == Inv /\ [Next]_vars => Inv'
<1> SUFFICES ASSUME Inv, [Next]_vars PROVE Inv'
  OBVIOUS
<1>1. ASSUME NEW o \in Opener, Connect(o) PROVE Inv'
  <2>1. UNCHANGED dbVars /\ UNCHANGED stops /\ GoTo(o, IF column THEN "version" ELSE "alter")
    BY <1>1 DEF Connect
  <2>2. CASE column
    BY <2>1, <2>2, MoveInv DEF Inv, TypeOK, Label
  <2>3. CASE ~ column
    BY <2>1, <2>3, MoveInv DEF Inv, TypeOK, Label
  <2> QED BY <2>2, <2>3
<1>2. ASSUME NEW o \in Opener, ReadVersion(o) PROVE Inv'
  <2>1. /\ UNCHANGED dbVars /\ UNCHANGED stops
        /\ GoTo(o, IF version < 1 THEN "migrate" ELSE "index")
        /\ column
    BY <1>2 DEF ReadVersion, Inv, OpenersFollow
  <2>2. CASE version = 0
    BY <2>1, <2>2, MoveInv DEF Inv, TypeOK, Label
  <2>3. CASE version = 1
    BY <2>1, <2>3, MoveInv DEF Inv, TypeOK, Label
  <2> QED BY <2>2, <2>3 DEF Inv, TypeOK
<1>3. ASSUME NEW o \in Opener, Stop(o) PROVE Inv'
  BY <1>3, MoveInv, BoundAssumption DEF Stop, Inv, TypeOK, Label
<1>4. ASSUME NEW o \in Opener, Close(o) PROVE Inv'
  BY <1>4, MoveInv DEF Close, Inv, TypeOK, Label
<1>5. CASE UNCHANGED vars
  BY <1>5 DEF vars, dbVars, Inv, TypeOK, NamesAreReal, OpenersFollow
<1>6. CASE Next
  BY <1>1, <1>2, <1>3, <1>4, <1>6, AddColumnInv, MigrateInv, EnsureIndexInv,
     CompleteWithoutInv, CommitDatasetInv, FailRunInv DEF Next, Open
<1> QED BY <1>5, <1>6

LEMMA SpecInv == Spec => []Inv
  BY InitInv, NextInv, PTL DEF Spec

\* The marks of the migration (index, version, column) come together and the
\* tables keep their types.
THEOREM TypeCorrect == Spec => []TypeOK
<1>1. Inv => TypeOK
  BY DEF Inv
<1> QED BY <1>1, SpecInv, PTL

--------------------------------------------------------------------------------
(* The origins *)

OriginsUnique == version = 1 => Unique(runs)

\* A name that is real and that no other run bears is an origin.
LEMMA UniqueNamesAreOrigins ==
  ASSUME NamesAreReal, Unique(runs), NEW r \in Run, runs[r].dataset # None
  PROVE  IsOrigin(runs, r)
<1>1. \A q \in Committed(runs) : runs[q].dataset = runs[r].dataset => q = r
  BY DEF Unique, Committed
<1>2. r <= r
  BY RunAssumption
<1>3. r \in Committed(runs)
  BY DEF NamesAreReal, Committed
<1>4. IsLeast(r, {q \in Committed(runs) : /\ runs[q].dataset = runs[r].dataset
                                          /\ runs[q].cutoff = runs[r].cutoff})
  BY <1>1, <1>2, <1>3 DEF IsLeast
<1> QED BY <1>3, <1>4 DEF IsOrigin, NamesAreReal

\* A name that is not used yet may be given.
LEMMA NewNameUnique ==
  ASSUME Unique(runs), runs \in Table, NEW r \in Run, NEW row, runs' = [runs EXCEPT ![r] = row],
         row.dataset = None \/ \A q \in Run : runs[q].dataset # row.dataset
  PROVE  Unique(runs)'
<1>1. \A q \in Run : runs'[q] = IF q = r THEN row ELSE runs[q]
  BY DEF Table
<1> QED BY <1>1 DEF Unique

LEMMA OriginsInit == Init => OriginsUnique
  BY DEF Init, OriginsUnique

LEMMA OriginsNext == Inv /\ OriginsUnique /\ [Next]_vars => OriginsUnique'
<1> SUFFICES ASSUME Inv, OriginsUnique, [Next]_vars PROVE OriginsUnique'
  OBVIOUS
<1> USE DEF OriginsUnique
<1>1. CASE runs' = runs /\ version' = version
  BY <1>1 DEF Unique
<1>2. ASSUME NEW o \in Opener, Migrate(o) PROVE OriginsUnique'
  <2>1. \/ Raise(o)
        \/ runs' = Adopted(Cleared(runs)) /\ Unique(Adopted(Cleared(runs)))
    BY <1>2 DEF Migrate
  <2> QED BY <1>1, <2>1 DEF Raise, dbVars, Unique
<1>3. ASSUME NEW o \in Opener, NEW r \in Run, NEW c \in Cutoff, CommitDataset(o, r, c)
      PROVE  OriginsUnique'
  <2> DEFINE row == Row("COMMITTED", c, Len(datasets) + 1)
  <2>1. runs' = [runs EXCEPT ![r] = row] /\ version = 1 /\ runs \in Table
    BY <1>3 DEF CommitDataset, NewRow, Inv, OpenersFollow, TypeOK, Table
  <2>2. datasets \in Seq(Cutoff)
    BY DEF Inv, TypeOK
  <2>3. row.dataset = Len(datasets) + 1 /\ Len(datasets) + 1 \notin DOMAIN datasets
    BY <2>2 DEF Row
  <2>4. row.dataset # None
    BY <2>2, <2>3 DEF None
  <2>5. \A q \in Run : runs[q].dataset # row.dataset
    BY <2>3, <2>4 DEF Inv, NamesAreReal
  <2> HIDE DEF row
  <2> QED BY <2>1, <2>5, NewNameUnique
<1>4. ASSUME NEW o \in Opener, NEW r \in Run, CompleteWithout(o, r)
      PROVE  OriginsUnique'
  <2> DEFINE row == Row("COMMITTED", Latest, None)
  <2>1. runs' = [runs EXCEPT ![r] = row] /\ version = 1 /\ runs \in Table /\ row.dataset = None
    BY <1>4 DEF CompleteWithout, NewRow, Inv, OpenersFollow, TypeOK, Table, Row
  <2> HIDE DEF row
  <2> QED BY <2>1, NewNameUnique
<1>5. ASSUME NEW o \in Opener, NEW r \in Run, NEW c \in Cutoff, FailRun(o, r, c)
      PROVE  OriginsUnique'
  <2> DEFINE row == Row("FAILED", c, None)
  <2>1. runs' = [runs EXCEPT ![r] = row] /\ version = 1 /\ runs \in Table /\ row.dataset = None
    BY <1>5 DEF FailRun, NewRow, Inv, OpenersFollow, TypeOK, Table, Row
  <2> HIDE DEF row
  <2> QED BY <2>1, NewNameUnique
<1>6. ASSUME NEW o \in Opener, EnsureIndex(o) PROVE OriginsUnique'
  <2>1. runs' = runs /\ version' = version
    BY <1>6 DEF EnsureIndex, Raise, dbVars
  <2> QED BY <1>1, <2>1
<1>7. ASSUME NEW o \in Opener, Connect(o) \/ AddColumn(o) \/ ReadVersion(o) \/ Stop(o) \/ Close(o)
      PROVE  OriginsUnique'
  <2>1. runs' = runs /\ version' = version
    BY <1>7 DEF Connect, AddColumn, ReadVersion, Stop, Close, dbVars
  <2> QED BY <1>1, <2>1
<1>8. CASE UNCHANGED vars
  BY <1>1, <1>8 DEF vars, dbVars
<1>9. CASE Next
  BY <1>2, <1>3, <1>4, <1>5, <1>6, <1>7, <1>9 DEF Next, Open
<1> QED BY <1>8, <1>9

LEMMA SpecOrigins == Spec => [](Inv /\ OriginsUnique)
<1>1. Init => Inv /\ OriginsUnique
  BY InitInv, OriginsInit
<1>2. (Inv /\ OriginsUnique) /\ [Next]_vars => (Inv /\ OriginsUnique)'
  BY NextInv, OriginsNext
<1> QED BY <1>1, <1>2, PTL DEF Spec

\* After the migration a run that names a dataset is its one origin, committed and
\* of its cutoff, however many openers migrated and whatever they found.
THEOREM MigratedOriginsAreReal == Spec => []OriginsAreReal
<1>1. Inv /\ OriginsUnique => OriginsAreReal
  BY UniqueNamesAreOrigins DEF Inv, OriginsUnique, OriginsAreReal
<1> QED BY <1>1, SpecOrigins, PTL

\* An origin that was reported stays: a migration that is late finds it to be the
\* origin already, and nothing else writes a row twice.
THEOREM OriginsStay == Spec => OriginStays
<1> DEFINE Stays == version = 1 => \A r \in Run : runs[r].dataset # None => runs'[r] = runs[r]
<1>1. Inv /\ OriginsUnique /\ [Next]_vars => Stays
  <2> SUFFICES ASSUME Inv, OriginsUnique, [Next]_vars, version = 1,
                      NEW r \in Run, runs[r].dataset # None
               PROVE  runs'[r] = runs[r]
    OBVIOUS
  <2>1. IsOrigin(runs, r)
    BY UniqueNamesAreOrigins DEF Inv, OriginsUnique
  <2>2. ASSUME NEW o \in Opener, Migrate(o) PROVE runs'[r] = runs[r]
    <3>1. runs' = runs \/ runs' = Adopted(Cleared(runs))
      BY <2>2 DEF Migrate, Raise, dbVars
    <3>2. Adopted(Cleared(runs))[r] = runs[r]
      BY <2>1, MigratedTable DEF Inv, TypeOK, Table
    <3> QED BY <3>1, <3>2
  <2>3. ASSUME NEW o \in Opener, NEW q \in Run, NEW row, NewRow(o, q, row)
        PROVE  runs'[r] = runs[r]
    <3>1. q # r
      BY <2>3 DEF NewRow, Absent
    <3> QED BY <2>3, <3>1 DEF NewRow, Inv, TypeOK
  <2>4. ASSUME NEW o \in Opener, Connect(o) \/ AddColumn(o) \/ ReadVersion(o) \/ EnsureIndex(o)
                                   \/ Stop(o) \/ Close(o)
        PROVE  runs'[r] = runs[r]
    BY <2>4 DEF Connect, AddColumn, ReadVersion, EnsureIndex, Raise, Stop, Close, dbVars
  <2>5. CASE Next
    BY <2>2, <2>3, <2>4, <2>5 DEF Next, Open, CompleteWithout, CommitDataset, FailRun
  <2>6. CASE UNCHANGED vars
    BY <2>6 DEF vars, dbVars
  <2> QED BY <2>5, <2>6
<1>2. Inv /\ OriginsUnique /\ [Next]_vars => [Stays]_vars
  BY <1>1
<1> QED BY <1>2, SpecOrigins, PTL DEF Spec, OriginStays

--------------------------------------------------------------------------------
(* The migration itself *)

\* The runs that name a dataset have a least one, and that is its origin.
LEMMA NamedHasOrigin ==
  ASSUME Inv, NEW v \in DOMAIN datasets, Origins(runs, v) \cap Committed(runs) # {}
  PROVE  \E r \in Origins(runs, v) \cap Committed(runs) : IsOrigin(runs, r)
<1> DEFINE named == Origins(runs, v) \cap Committed(runs)
<1>1. named \in SUBSET Run /\ named # {}
  BY DEF Origins
<1>2. PICK r \in named : IsLeast(r, named)
  BY <1>1, LeastRunExists
<1>3. datasets \in Seq(Cutoff)
  BY DEF Inv, TypeOK
<1>4. v # None
  BY <1>3 DEF None
<1>5. \A q \in named : runs[q].dataset = v /\ runs[q].cutoff = datasets[v]
  BY <1>4 DEF Origins, Inv, NamesAreReal
<1>6. named = {q \in Committed(runs) : /\ runs[q].dataset = runs[r].dataset
                                       /\ runs[q].cutoff = runs[r].cutoff}
  BY <1>2, <1>5 DEF Origins, Committed
<1>7. IsOrigin(runs, r)
  BY <1>2, <1>5, <1>6 DEF IsOrigin
<1> QED BY <1>2, <1>7

\* One transaction finds an origin for every dataset that has one to find.
LEMMA MigrationFinds ==
  ASSUME Inv, NEW v \in DOMAIN datasets, runs' = Adopted(Cleared(runs)), datasets' = datasets
  PROVE  LET named == Origins(runs, v) \cap Committed(runs)
             atCutoff == {r \in Committed(runs) : runs[r].cutoff = datasets[v]}
         IN /\ named # {} => Origins(runs', v) \cap named # {}
            /\ OnlyDatasetOf(datasets[v], v) /\ atCutoff # {} =>
                 Origins(runs', v) \cap atCutoff # {}
<1> DEFINE named == Origins(runs, v) \cap Committed(runs)
           atCutoff == {r \in Committed(runs) : runs[r].cutoff = datasets[v]}
           cleared == Cleared(runs)
<1>1. runs \in Table /\ datasets \in Seq(Cutoff)
  BY DEF Inv, TypeOK, Table
<1>2. v # None
  BY <1>1 DEF None
<1>3. ASSUME NEW r \in Run, IsOrigin(runs, r) PROVE runs'[r] = runs[r]
  BY <1>1, <1>3, MigratedTable
<1>4. ASSUME named # {} PROVE Origins(runs', v) \cap named # {}
  <2>1. PICK r \in named : IsOrigin(runs, r)
    BY <1>4, NamedHasOrigin
  <2>2. r \in Run /\ runs[r].dataset = v
    BY <2>1 DEF Origins
  <2>3. r \in Origins(runs', v)
    BY <1>3, <2>1, <2>2 DEF Origins
  <2> QED BY <2>1, <2>3
<1>5. named \subseteq atCutoff
  BY <1>2 DEF Origins, Inv, NamesAreReal
<1>6. ASSUME OnlyDatasetOf(datasets[v], v), atCutoff # {}, named = {}
      PROVE  Origins(runs', v) \cap atCutoff # {}
  <2>1. PICK r \in atCutoff : IsLeast(r, atCutoff)
    <3>1. atCutoff \in SUBSET Run
      BY DEF Committed
    <3> QED BY <1>6, <3>1, LeastRunExists
  <2>2. r \in Run /\ r \in Committed(runs) /\ runs[r].cutoff = datasets[v]
    BY <2>1 DEF Committed
  <2>3. runs[r].dataset = None
    <3>1. ASSUME runs[r].dataset # None PROVE FALSE
      <4>1. runs[r].dataset \in DOMAIN datasets /\ datasets[runs[r].dataset] = datasets[v]
        BY <2>2, <3>1 DEF Inv, NamesAreReal
      <4>2. runs[r].dataset = v
        BY <1>6, <4>1 DEF OnlyDatasetOf
      <4> QED BY <1>6, <2>2, <4>2 DEF Origins
    <3> QED BY <3>1
  <2>4. /\ cleared \in Table
        /\ \A q \in Run : cleared[q].status = runs[q].status /\ cleared[q].cutoff = runs[q].cutoff
        /\ cleared[r].dataset = None
    BY <1>1, <2>2, <2>3, ClearedKeeps
  <2>5. Committed(cleared) = Committed(runs)
    BY <2>4 DEF Committed
  <2>6. {q \in Committed(cleared) : cleared[q].cutoff = cleared[r].cutoff} = atCutoff
    BY <2>2, <2>4, <2>5 DEF Committed
  <2>7. MayAdopt(cleared, r)
    BY <2>1, <2>2, <2>4, <2>5, <2>6 DEF MayAdopt
  <2>8. cleared[r].cutoff = datasets[v]
    BY <2>2, <2>4
  <2> HIDE DEF cleared
  <2>9. Adopted(cleared)[r].dataset = v
    BY <1>1, <1>6, <2>2, <2>4, <2>7, <2>8, AdoptedKeeps
  <2>10. r \in Origins(runs', v)
    BY <2>2, <2>9 DEF Origins, cleared
  <2> QED BY <2>1, <2>10
<1> QED BY <1>4, <1>5, <1>6

\* What the migration reconstructs of the databases of earlier versions: for each
\* dataset an origin among the runs that name it, or, for the only dataset of a
\* cutoff, among the committed runs of that cutoff.
THEOREM MigrationFindsOrigins == Spec => LegacyOriginFound
<1> DEFINE Found ==
      version = 0 /\ version' = 1 =>
        \A v \in DOMAIN datasets :
          LET named == Origins(runs, v) \cap Committed(runs)
              atCutoff == {r \in Committed(runs) : runs[r].cutoff = datasets[v]}
          IN /\ named # {} => Origins(runs', v) \cap named # {}
             /\ OnlyDatasetOf(datasets[v], v) /\ atCutoff # {} =>
                  Origins(runs', v) \cap atCutoff # {}
<1>1. Inv /\ [Next]_vars => Found
  <2> SUFFICES ASSUME Inv, [Next]_vars, version = 0, version' = 1 PROVE Found
    OBVIOUS
  <2>1. version' # version
    OBVIOUS
  <2>2. \E o \in Opener : Migrate(o)
    BY <2>1 DEF Next, Open, Connect, AddColumn, ReadVersion, EnsureIndex, Raise, Stop, Close,
      CompleteWithout, CommitDataset, FailRun, NewRow, vars, dbVars
  <2>3. runs' = Adopted(Cleared(runs)) /\ datasets' = datasets
    BY <2>1, <2>2 DEF Migrate, Raise, dbVars
  <2> QED BY <2>3, MigrationFinds
<1>2. Inv /\ [Next]_vars => [Found]_vars
  BY <1>1
<1> QED BY <1>2, SpecInv, PTL DEF Spec, LegacyOriginFound
================================================================================
