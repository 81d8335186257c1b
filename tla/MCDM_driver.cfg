SPECIFICATION Spec
CONSTANTS
  v1 = v1
  v2 = v2
  s1 = s1
  s2 = s2
  r1 = r1
  r2 = r2
  NoVM = NoVM
  NoStage = NoStage
  VMs <- OneVM
  Stages <- OneStage
  Reapers <- OneReaper
  RetainStages <- NoRetain
  MaxAgeBusy = 1
  MaxAgeFree = 1
  StuckProvisioning = 1
  DriverReportsFailed = FALSE
INVARIANT RowOutlivesVM
