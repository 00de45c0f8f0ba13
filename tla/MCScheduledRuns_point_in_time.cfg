SPECIFICATION Spec
CONSTANTS
  Boundary = {1, 2}
  Run = {a1, a2}
  Ingest = {i1, i2}
  Operator = {}
  Process = {a1, a2, i1, i2}
  Output = {main}
  ScheduledOutput = main
  MaxAttempts = 2
  FirstHours = {0}
INVARIANTS SnapshotIsPointInTime
