SPECIFICATION FairSpec
CONSTANTS
  id1 = id1
  id2 = id2
  r1 = r1
  r2 = r2
  r3 = r3
  NoRun = NoRun
  Ids <- TwoIds
  Runs <- ThreeRuns
  MaxStreams = 2
  MaxValues = 2
  HighWater = 0
  FreshIds = TRUE
INVARIANTS TypeOK OneRunPerEntry ClosedMeansTold MemoryBounded
PROPERTIES WirePromise StallEnds
