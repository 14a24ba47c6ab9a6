SPECIFICATION FairSpec
CONSTANTS
  Capacity = 4
  Window = 2
  Lag = 1
  MaxSamples = 7
  MaxRestarts = 1
INVARIANT SeriesWholeAndGapless
PROPERTIES LatestMovesForward LastSampleRead
