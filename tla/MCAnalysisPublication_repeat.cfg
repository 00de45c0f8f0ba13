SPECIFICATION Spec
CONSTANTS
  Run = {a1, a2}
  Reader = {}
  Cutoff = {1}
  Hour = 2
PROPERTIES FailedAnalysisCanBeRepeated
