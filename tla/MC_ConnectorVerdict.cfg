SPECIFICATION Spec
CONSTANTS
  s1 = s1
  s2 = s2
  s3 = s3
  NoSocket = NoSocket
  Sockets <- TwoSockets
  MaxAuthFailures = 1
  MissesAllowed = 2
  FailureCap = 2
  MaxDeferred = 1
  CallerAwaitsStop = TRUE
INVARIANT
  VerdictOfThisSocket
