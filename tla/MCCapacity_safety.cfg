SPECIFICATION Spec
CONSTANTS
  Stages = {s1}
  Setups = {u1, u2}
  VMs = {v1, v2}
  Reservations = {c1}
  Elsewhere = {}
  MaxAge = 0
  MaxCalls = 2
  MaxCrashes = 0
  NoVM = NoVM
  NoReservation = NoReservation
  NoStage = NoStage
INVARIANT TypeOK
INVARIANT ReservationTracked
INVARIANT OneUser
INVARIANT WarmKept
SYMMETRY Symmetry
