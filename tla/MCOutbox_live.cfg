SPECIFICATION FairSpec
CONSTANTS
  j1 = j1
  j2 = j2
  r1 = r1
  r2 = r2
  p1 = p1
  AnyRunner = AnyRunner
  NoPool = NoPool
  Jobs <- OneJob
  Runners <- TwoRunners
  Pools <- OnePool
  MaxRetries = 2
  BatchSize = 1
  MaxAge = 2
  MaxWindow = 1
INVARIANT SetupBound
PROPERTY JobLeaves
