SPECIFICATION Spec
CONSTANTS
  a1 = a1
  a2 = a2
  Attempts <- TwoAttempts
  MaxSeq = 5
  FinishOnce = FALSE
  CursorsAhead = TRUE
INVARIANT NothingLost
