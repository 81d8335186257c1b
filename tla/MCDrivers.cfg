SPECIFICATION Spec
CONSTANTS
  Callers = {a, b}
  First = a
  Scenarios <- AllScenarios
  NoZone = "none"
  MaxStockoutAttempts = 2
  TagRetries = 2
  ZoneDetails <- TwoZones
  Room = 1
  MaxFailures = 2
  ImageOf <- TwoImages
  Qualified = {"reg/img", "reg/other"}
  Addresses <- TheAddresses
  Matches <- Patterns
  NoLock = "none"
  MaxRetries = 2
INVARIANT NoOrphanVM
INVARIANT DestroyedIsGone
INVARIANT ProxyOfNetwork
INVARIANT ReachableVM
INVARIANT RoomKept
PROPERTY LabelsKept
PROPERTY RoomReturned
INVARIANT PortForwarded
PROPERTY ScriptEnds
