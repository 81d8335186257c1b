SPECIFICATION Spec
CONSTANTS
  j1 = j1
  j2 = j2
  r1 = r1
  r2 = r2
  p1 = p1
  AnyRunner = AnyRunner
  NoPool = NoPool
  Jobs <- TwoJobs
  Runners <- TwoRunners
  Pools <- OnePool
  MaxRetries = 1
  BatchSize = 2
  MaxAge = 2
  MaxWindow = 1
INVARIANT TypeOK
INVARIANT OneWorker
INVARIANT ScaledOnce
INVARIANT DroppedForCause
SYMMETRY Symmetry
