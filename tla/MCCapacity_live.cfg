SPECIFICATION FairSpec
CONSTANTS
  Stages = {s1}
  Setups = {u1}
  VMs = {v1}
  Reservations = {c1, c2}
  Elsewhere = {c2}
  MaxAge = 0
  MaxCalls = 1
  MaxCrashes = 1
  NoVM = NoVM
  NoReservation = NoReservation
  NoStage = NoStage
PROPERTY CapacityReturned
