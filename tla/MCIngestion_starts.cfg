SPECIFICATION Spec
CONSTANTS
  Symbol = {BTCUSDT, ETHUSDT}
  Configured = {BTCUSDT, ETHUSDT}
  Revision = {r1}
  Malformed = {}
  Run = {i1}
  ServerCutoff = {3}
  Overlap = 1
  Bootstrap = 2
  MaxDefects = 1
  MaxClock = 0
  ClockMayStepBack = FALSE
INVARIANTS StartsAgree
