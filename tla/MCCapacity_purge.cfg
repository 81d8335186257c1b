SPECIFICATION Spec
CONSTANTS
  Stages = {s1}
  Setups = {u1}
  VMs = {v1}
  Reservations = {c1}
  Elsewhere = {}
  MaxAge = 1
  MaxCalls = 1
  MaxCrashes = 0
  NoVM = NoVM
  NoReservation = NoReservation
  NoStage = NoStage
INVARIANT PurgeSparesInFlight
