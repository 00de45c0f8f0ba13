SPECIFICATION Spec
CONSTANTS
  Symbol = {BTCUSDT}
  Configured = {BTCUSDT}
  Revision = {r1, r2, bad}
  Malformed = {bad}
  Run = {i1, i2, i3}
  ServerCutoff = {3, 4, 5}
  Overlap = 2
  Bootstrap = 2
  MaxDefects = 1
  MaxClock = 1
  ClockMayStepBack = TRUE
SYMMETRY Symmetry
INVARIANTS HistoryPreserved
PROPERTIES AppendOnly CutoffNeverRegresses
