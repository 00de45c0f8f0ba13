SPECIFICATION Spec
CONSTANTS
  Run = {1, 2, 3}
  Opener = {o1, o2}
  Cutoff = {1, 2}
  MaxDatasets = 2
  MaxStops = 1
INVARIANTS TypeOK OriginsAreReal
PROPERTIES OriginStays LegacyOriginFound EventuallyOpen
