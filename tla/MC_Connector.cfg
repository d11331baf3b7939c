SPECIFICATION FairSpec
CONSTANTS
  s1 = s1
  s2 = s2
  s3 = s3
  NoSocket = NoSocket
  Sockets <- TwoSockets
  MaxAuthFailures = 2
  MissesAllowed = 2
  FailureCap = 2
  MaxDeferred = 2
  CallerAwaitsStop = TRUE
INVARIANTS
  TypeOK
  OneLiveSocket
  TimersOwned
  StopIsFinal
  NeverStranded
PROPERTIES
  BackoffSurvivesFlapping
  AuthenticatingEnds
  HalfOpenDetected
  StopCompletes
