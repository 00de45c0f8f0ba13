SPECIFICATION Spec
CONSTANTS
  Symbol = {BTCUSDT, ETHUSDT}
  Configured = {BTCUSDT, ETHUSDT}
  Revision = {r1}
  Malformed = {}
  Run = {i1, i2, i3}
  ServerCutoff = {3, 4, 5}
  Overlap = 1
  Bootstrap = 2
  MaxDefects = 1
  MaxClock = 1
  ClockMayStepBack = FALSE
SYMMETRY Symmetry
INVARIANTS TypeOK DatasetsWhole OneOrigin OnlyCrashLeavesFetching OneLineage
