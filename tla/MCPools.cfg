SPECIFICATION Spec
CONSTANTS
  s = s
  t = t
  u = u
  Scenarios = {"pool", "scheduler", "steps", "forecast", "groups"}
  Configs <- PoolConfigs
  Names = {"tracker", "outbox"}
  RunOnStart = {"outbox"}
  MaxGoroutines = 3
  Steps = {"test", "deploy"}
  Services <- TheServices
  Images = {"db"}
  Distributed = {"deploy"}
  SlotsPerDay = 2
  MaxDays = 23
  Loads = {0, 3}
  MaxChanges = 1
  EMAPeriod = 3
  EMAWeight = 85
  WeekDecayFactors <- TheDecayFactors
  MinInstances = 0
  MaxLookbackDays = 4
  TargetWeekdays = 2
  RetentionDays = 21
  ActiveImageLookbackDays = 2
  RecentUsageLookbackDays = 7
  RecentUsageMinInstances = 1
  ScalePercent = 150
  MinSize = 0
  FreeCounts = {2}
  Accounts = {"a", "b", "c"}
  GroupIDs = {"g", "a", "c"}
  MaxTenants = 2
  MaxLoads = 3
  MaxRows = 1
  BaseSpec <- TheBaseSpec
  SpecOf <- TheSpecs
INVARIANT LocalSingleUse
INVARIANT VMRecorded
PROPERTY NotStoppedInUse
PROPERTY ProvisionReturns
INVARIANT OneGoroutinePerJob
PROPERTY CancelledReturns
INVARIANT EnvsSeen
PROPERTY CaughtTaskEnds
INVARIANT ForecastBetween
INVARIANT HistoryKept
INVARIANT NotScaledBelow
INVARIANT DriverOfAccount
CHECK_DEADLOCK FALSE
