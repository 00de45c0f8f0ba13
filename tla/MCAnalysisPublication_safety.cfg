SPECIFICATION Spec
CONSTANTS
  Run = {a1, a2, a3}
  Reader = {c1}
  Cutoff = {2, 3}
  Hour = 2
SYMMETRY Symmetry
INVARIANTS TypeOK OnePublicRunPerBoundary PublishedSurvives PinnedThroughout BuiltFromPublishedOnly
PROPERTIES ImplementsLedger
