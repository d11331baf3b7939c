SPECIFICATION Spec
CONSTANTS
  id1 = id1
  id2 = id2
  r1 = r1
  r2 = r2
  r3 = r3
  NoRun = NoRun
  Ids <- TwoIds
  Runs <- ThreeRuns
  MaxStreams = 1
  MaxValues = 2
  HighWater = 0
  FreshIds = FALSE
PROPERTY WirePromise
