SPECIFICATION Spec
CONSTANTS
  id1 = id1
  id2 = id2
  id3 = id3
  r1 = r1
  r2 = r2
  r3 = r3
  NoRun = NoRun
  Ids <- ThreeIds
  Runs <- ThreeRuns
  MaxInFlight = 2
PROPERTY DroppedLinkFailsAll
