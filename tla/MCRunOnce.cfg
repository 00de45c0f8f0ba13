SPECIFICATION Spec
CONSTANTS
  SwingLength = 1
  PoiTimeout = 5
  DisplacementWindow = 2
  DisplacementLookback = 2
  BodyMultiplePct = 125
  BodyRatioPct = 70
  CloseEdgePct = 20
  FvgWait = 3
  EntryPct = 50
  AtrPeriod = 2
  AtrBufferPct = 10
  MinimumR = 2
  CostBps = 6
  HourSize = 2
  PoiSize = 4
  DaySize = 8
  Limit = 18
  Retries = 1
  Mood = {"honest", "lossy", "stuck", "open", "down"}
  NoFetch = NoFetch
  Market <- MCMarket
  ServerCutoff = {35, 43, 47, 53, 54, 57, 59, 63}
  Overlap = 1
  Bootstrap = 36
INVARIANTS HonestFetchCommits OnlyTheMarketIsAnalysed OneReportPerBoundary PassedWasKnown KnownInOrder AcceptedByReader
PROPERTIES VerdictsStand IngestionEnds
