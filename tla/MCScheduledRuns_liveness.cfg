SPECIFICATION FairSpec
CONSTANTS
  Boundary = {1, 2}
  Run = {a1, a2}
  Ingest = {i1}
  Operator = {}
  Process = {a1, a2, i1}
  Output = {main}
  ScheduledOutput = main
  MaxAttempts = 2
  FirstHours = {0, 1, 2}
INVARIANTS AnalysisSeesNoIngestion
PROPERTIES EveryCommandStops
