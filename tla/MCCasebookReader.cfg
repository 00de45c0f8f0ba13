SPECIFICATION Spec
CONSTANTS
  Name = {1, 2, 3}
  Day = {0, 1}
  V2Run <- MCV2Run
  V1Run <- MCV1Run
  Configs <- MCConfigs
  Decisions <- MCDecisions
  MaxDamage = 2
  HourSize = 2
  DaySize = 8
  Timeframes1 <- MCTimeframes1
  Timeframes2 <- MCTimeframes2
  Missing = Missing
CHECK_DEADLOCK FALSE
INVARIANTS AcceptedIsCommitted EachRunOnce NothingIsLeftOut
PROPERTIES OnlyDamageIsRefused
