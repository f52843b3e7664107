SPECIFICATION FairSpec
CONSTANTS
  Addr = {a1, a2}
  RemoteToken = {t1, t2}
  LocalToken = tl
  None = None
  MaxProbePaths = 1
  MaxReplySources = 1
  ReplyInterval = 2
  AckTimeout = 3
  FirstDelay = 1
  SecondDelay = 2
  SlowInterval = 5
  VerifiedInterval = 15
  MaxStage = 4
  MaxLag = 2
INVARIANT TypeOK
INVARIANT VerifiedIsRecent
INVARIANT ProbingNeverStops
INVARIANT TrafficBounded
PROPERTY EchoSpacing
PROPERTY ImplementsPathControl
PROPERTY EveryCheckResolves
