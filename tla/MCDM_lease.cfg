SPECIFICATION Spec
CONSTANTS
  v1 = v1
  v2 = v2
  s1 = s1
  s2 = s2
  r1 = r1
  r2 = r2
  NoVM = NoVM
  NoStage = NoStage
  VMs <- TwoVMs
  Stages <- TwoStages
  Reapers <- TwoReapers
  RetainStages <- NoRetain
  MaxAgeBusy = 1
  MaxAgeFree = 1
  StuckProvisioning = 1
  DriverReportsFailed = TRUE
INVARIANT TypeOK
INVARIANT SingleUse
INVARIANT LeasedNeverFree
INVARIANT StageVMNeverSuspended
INVARIANT RowOutlivesVM
INVARIANT DestroyHitsOwnVM
CONSTRAINT OneVMForReapers
SYMMETRY ActorSymmetry
