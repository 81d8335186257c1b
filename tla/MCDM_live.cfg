SPECIFICATION FairSpec
CONSTANTS
  v1 = v1
  v2 = v2
  s1 = s1
  s2 = s2
  r1 = r1
  r2 = r2
  NoVM = NoVM
  NoStage = NoStage
  VMs <- OneVM
  Stages <- TwoStages
  Reapers <- OneReaper
  RetainStages <- RetainOne
  MaxAgeBusy = 1
  MaxAgeFree = 1
  StuckProvisioning = 1
  DriverReportsFailed = TRUE
PROPERTY VMReclaimed
PROPERTY LeaseSpec
