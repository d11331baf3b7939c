SPECIFICATION FairSpec
CONSTANTS
  a1 = a1
  a2 = a2
  Attempts <- TwoAttempts
  MaxSeq = 5
  FinishOnce = FALSE
  CursorsAhead = FALSE
INVARIANTS TypeOK NoSilentSkip NoneLeftRunning
PROPERTIES LogSpec GapFirst FinalIsFinal CatchesUp
