SPECIFICATION Spec
CONSTANTS
  Boundary = {1, 2}
  Run = {a1, a2}
  Ingest = {i1}
  Operator = {c1}
  Process = {a1, a2, i1, c1}
  Output = {main, other}
  ScheduledOutput = main
  MaxAttempts = 2
  FirstHours = {0}
SYMMETRY Symmetry
INVARIANTS ReportedCasebookSurvives ReceiptInCasebook
PROPERTIES SnapshotsAreImmutable
